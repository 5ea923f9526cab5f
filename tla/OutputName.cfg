CONSTANTS
    s1 = s1
    s2 = s2
    c1 = c1
    Process = {s1, s2, c1}
    Server = {s1, s2}
    Client = {c1}
    LogName = {"default.log", "server.log", "history.log", "fixed/old.log"}
    Unremovable = {"fixed/old.log", "/dev/null"}
    Starts <- MCStarts
    Dotted = {"127.0.0.1", "10.0.0.9"}
    Local = {"127.0.0.1"}
    basename <- MCbasename
    NULL = NULL

SPECIFICATION Spec

INVARIANT OutputAsAsked

CHECK_DEADLOCK FALSE
