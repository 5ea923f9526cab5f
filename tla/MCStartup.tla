------------------------------ MODULE MCStartup ------------------------------
(***************************************************************************)
(* Values for the constants of Startup.                                    *)
(***************************************************************************)
EXTENDS Startup

CONSTANTS s1, s2, c1

H(host) == [opt |-> "h", arg |-> host]
P(port) == [opt |-> "p", arg |-> port]
F(file) == [opt |-> "f", arg |-> file]
O(file) == [opt |-> "o", arg |-> file]
Unknown == [opt |-> "?", arg |-> NULL]

Given(args1, args2, args3) ==
    [p \in Process |-> CASE p = s1 -> args1 [] p = s2 -> args2 [] p = c1 -> args3]

\* Two servers that are started by mistake, and a client; ports that differ by 2^16, a host
\* that is no address, and options in the order of the README's usage; ports above the
\* largest short and an address that is not of the machine; errors.
MCCommandLines == {
    Given(<<>>, <<>>, <<F("dir/a"), O("b")>>),
    Given(<<P(40000)>>, <<>>, <<H("localhost"), P(50000), P(9000 + 2^16), O("b"), F("dir/a")>>),
    Given(<<P(40000)>>, <<H("10.0.0.9")>>, <<P(50000)>>),
    Given(<<H("localhost"), Unknown>>, <<P(NULL)>>, <<Unknown, P(50000), O(NULL)>>)}

\* Lines that end each process as soon as it is out of the logger.
MCBadLines == Given(<<Unknown>>, <<P(NULL)>>, <<P(NULL)>>)

MCbasename == [f \in {"dir/a"} |-> "a"]

L(var, val) == [var |-> var, val |-> val]

Config(text, whole) == [there |-> TRUE, whole |-> whole, text |-> text]

\* No file; settings that are repeated, out of range or unknown, and a line that is cut; a
\* line without '='; a log file that cannot be opened.
MCConfig == {
    [there |-> FALSE, whole |-> 0, text |-> <<>>],
    Config(<<L("wrap", "no"), L("silent", "true"), L("wrap", "false"), L("debug", 7),
             L("level", "x"), L("silent", "false")>>, 5),
    Config(<<L("debug", 1), L("no =", "")>>, 2),
    Config(<<L("flush", "true"), L("logfile", ""), L("flush", "maybe"), L("debug", 3)>>, 4)}

\* Servers that flush one file: the repository's configuration; a silent one that flushes
\* the servers' log; a silent mode that is undone, and a line without '=', behind long
\* lines, the second of which is cut by the limit of 1024 bytes; logs that cannot be removed.
MCFlushing == {
    Config(<<L("silent", "false"), L("wrap", "true"), L("flush", "true"), L("debug", 0),
             L("logfile", "history.log")>>, 5),
    Config(<<L("silent", "true"), L("flush", "true"), L("logfile", "server.log")>>, 3),
    Config(<<L("flush", "true"), L("silent", "true"), L("debug", 3), L("level", "long"),
             L("level", "long"), L("silent", "false"), L("logfile", "history.log"),
             L("no =", "")>>, 4),
    Config(<<L("flush", "true"), L("logfile", "fixed/old.log")>>, 2),
    Config(<<L("flush", "true"), L("logfile", "/dev/null")>>, 2)}

MCStarts == MCCommandLines \X MCConfig \union {MCBadLines} \X MCFlushing

===============================================================================
