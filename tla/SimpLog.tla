-------------------------------- MODULE SimpLog --------------------------------
(***************************************************************************)
(* The logger, simplog.c, in processes that run in one directory.  Each    *)
(* process has its own settings; the log files are shared.  calls[p] is    *)
(* what p has still to do in the logger, the current call first.  A call   *)
(* is one action, except where others can come between: a message is a     *)
(* step that opens the file and one that appends to it, and flushLog looks,*)
(* removes and creates in steps of their own.                              *)
(***************************************************************************)
EXTENDS Integers, Sequences

CONSTANTS
    Process,    \* the processes
    LogName,    \* the names of files that can be opened as logs
    Unremovable \* the names of what exists and cannot be removed: a directory, a device,
                \* a file in a directory that is not writable

VARIABLES
    config,  \* log_config.conf, [there, text, whole]: its lines, and how many of them end
             \* within its first 1024 bytes
    alive,   \* does the process run, or how did it end?
    set,     \* its settings
    calls,   \* its calls
    fd,      \* the generation of the log file that it has open, or 0
    there,   \* does the file exist?
    gen,     \* how many files of this name have been created so far
    lines,   \* what is in the last of them
    count,   \* the messages that a process has written, or tried to (history)
    written, \* the lines that reached a file that then existed (history)
    shown,   \* how many messages of the logger a process has shown on its terminal, and
             \* other texts on its standard output (history)
    removed  \* which processes removed which files (history)

fileVars == <<there, gen, lines>>
history  == <<count, written, shown, removed>>
logVars  == <<config, alive, set, calls, fd, fileVars, history>>

FATAL == -2
INFO == 0
DEBUG == 2
VERBOSE == 3
LOGGER == 4

Settings == [dbgLevel : INFO..VERBOSE, logFile : LogName \union Unremovable \union {""},
             silentMode : BOOLEAN, lineWrap : BOOLEAN]

\* A line: the n-th message of a process, and its level.
Line == [by : Process, n : Nat, lvl : {FATAL, INFO, DEBUG, LOGGER}]

LogTypeOK ==
    /\ alive \in [Process -> {"run", "exit", "flush", "crash", "connect"}]
    /\ set \in [Process -> Settings]
    /\ there \in [LogName -> BOOLEAN]
    /\ gen \in [LogName -> Nat]
    /\ \A f \in LogName :
        /\ lines[f] \in Seq(Line)
        /\ lines[f] # <<>> => there[f]
        /\ there[f] => gen[f] > 0
        /\ f \in Unremovable => there[f]
    /\ \A p \in Process : fd[p] # 0 => fd[p] \in 1..gen[set[p].logFile]
    /\ count \in [Process -> Nat]
    /\ shown \in [Process -> Nat]
    /\ removed \subseteq Process \X LogName

LogInit ==
    /\ alive = [p \in Process |-> "run"]
    /\ set = [p \in Process |-> [dbgLevel |-> DEBUG, logFile |-> "default.log",
                                 silentMode |-> FALSE, lineWrap |-> TRUE]]
    /\ fd = [p \in Process |-> 0]
    /\ there = [f \in LogName |-> f \in Unremovable]
    /\ gen = [f \in LogName |-> IF there[f] THEN 1 ELSE 0]
    /\ lines = [f \in LogName |-> <<>>]
    /\ count = [p \in Process |-> 0]
    /\ written = {}
    /\ shown = [p \in Process |-> 0]
    /\ removed = {}

-------------------------------------------------------------------------------
Call(p, op) ==
    /\ alive[p] = "run"
    /\ calls[p] # <<>>
    /\ Head(calls[p]).op = op

\* The current call returns, after the calls in more.
Return(p, more) == calls' = [calls EXCEPT ![p] = more \o Tail(@)]

Message(lvl) == [op |-> "writeLog", lvl |-> lvl]

\* open with O_CREAT.
OpenLog(f) ==
    /\ there' = [there EXCEPT ![f] = TRUE]
    /\ gen' = [gen EXCEPT ![f] = IF there[f] THEN @ ELSE @ + 1]

\* writeLog opens the file whether or not there will be anything to write.
writeLog_open(p) ==
    /\ Call(p, "writeLog")
    /\ fd[p] = 0
    /\ set[p].logFile \in LogName
    /\ OpenLog(set[p].logFile)
    /\ fd' = [fd EXCEPT ![p] = gen'[set[p].logFile]]
    /\ UNCHANGED <<config, alive, set, calls, lines, history>>

\* Mutant of Valid: the debug level holds for fatal errors too.
Valid_every(s, lvl) == s.dbgLevel >= (IF lvl = LOGGER \/ lvl < INFO THEN DEBUG ELSE lvl)

\* Messages of the logger itself count as those of debugging.
Valid(s, lvl) == lvl <= INFO \/ s.dbgLevel >= (IF lvl = LOGGER THEN DEBUG ELSE lvl)

\* Mutant of AppendLine: without O_APPEND each open begins at the start of the file.
AppendLine_start(old, line) == <<line>> \o SubSeq(old, 2, Len(old))

AppendLine(old, line) == old \o <<line>>

Show(p) == shown' = [shown EXCEPT ![p] = IF set[p].silentMode THEN @ ELSE @ + 1]

\* It writes, to a file that may have been removed meanwhile, and to the terminal.
writeLog(p) ==
    /\ Call(p, "writeLog")
    /\ fd[p] # 0 \/ set[p].logFile \notin LogName
    /\ Return(p, <<>>)
    /\ fd' = [fd EXCEPT ![p] = 0]
    /\ LET f    == set[p].logFile
           lvl  == Head(calls[p]).lvl
           line == [by |-> p, n |-> count[p] + 1, lvl |-> lvl]
       IN  IF Valid(set[p], lvl)
           THEN /\ count' = [count EXCEPT ![p] = @ + 1]
                /\ Show(p)
                /\ IF f \in LogName /\ there[f] /\ gen[f] = fd[p]
                   THEN /\ lines' = [lines EXCEPT ![f] = AppendLine(@, line)]
                        /\ written' = written \union {<<f, fd[p], line>>}
                   ELSE UNCHANGED <<lines, written>>
           ELSE UNCHANGED <<lines, count, written, shown>>
    /\ UNCHANGED <<config, alive, set, there, gen, removed>>

setLogFile(p) ==
    /\ Call(p, "setLogFile")
    /\ set' = [set EXCEPT ![p].logFile = Head(calls[p]).file]
    /\ Return(p, <<Message(LOGGER)>>)
    /\ UNCHANGED <<config, alive, fd, fileVars, history>>

setLogSilentMode(p) ==
    /\ Call(p, "setLogSilentMode")
    /\ set' = [set EXCEPT ![p].silentMode = Head(calls[p]).on]
    /\ Return(p, <<Message(LOGGER)>>)
    /\ UNCHANGED <<config, alive, fd, fileVars, history>>

setLineWrap(p) ==
    /\ Call(p, "setLineWrap")
    /\ set' = [set EXCEPT ![p].lineWrap = Head(calls[p]).on]
    /\ Return(p, <<Message(LOGGER)>>)
    /\ UNCHANGED <<config, alive, fd, fileVars, history>>

\* Mutant of DebugLevel: the level is not checked.
DebugLevel_any(level) == level

\* A level that does not exist stands for DEBUG.
DebugLevel(level) == IF level \in INFO..VERBOSE THEN level ELSE DEBUG

setLogDebugLevel(p) ==
    /\ Call(p, "setLogDebugLevel")
    /\ set' = [set EXCEPT ![p].dbgLevel = DebugLevel(Head(calls[p]).level)]
    /\ Return(p, <<Message(LOGGER)>>)
    /\ UNCHANGED <<config, alive, fd, fileVars, history>>

-------------------------------------------------------------------------------
\* flushLog

\* Mutant of Exists: the file is removed without looking whether it is there.
Exists_always(f) == TRUE

\* access, which finds a directory or a device as well
Exists(f) == f \in Unremovable \union {g \in LogName : there[g]}

Removable(f) == f \in {g \in LogName : there[g]} \ Unremovable

flushLog(p) ==
    /\ Call(p, "flushLog")
    /\ \/ /\ Exists(set[p].logFile)
          /\ Return(p, <<[op |-> "remove"]>>)
          /\ UNCHANGED shown
       \/ /\ ~Exists(set[p].logFile)
          /\ Return(p, <<[op |-> "create"]>>)
          /\ Show(p)
    /\ UNCHANGED <<config, alive, set, fd, fileVars, count, written, removed>>

\* remove fails too if the file has gone since it was seen.
flushLog_remove(p) ==
    /\ Call(p, "remove")
    /\ LET f == set[p].logFile
       IN  \/ /\ Removable(f)
              /\ there' = [there EXCEPT ![f] = FALSE]
              /\ lines' = [lines EXCEPT ![f] = <<>>]
              /\ removed' = removed \union {<<p, f>>}
              /\ Return(p, <<[op |-> "create"]>>)
              /\ UNCHANGED alive
           \/ /\ ~Removable(f)
              /\ alive' = [alive EXCEPT ![p] = "flush"]
              /\ UNCHANGED <<there, lines, removed, calls>>
    /\ UNCHANGED <<config, set, fd, gen, count, written, shown>>

flushLog_create(p) ==
    /\ Call(p, "create")
    /\ IF set[p].logFile \in LogName THEN OpenLog(set[p].logFile)
                                     ELSE UNCHANGED <<there, gen>>
    /\ Return(p, <<Message(LOGGER)>>)
    /\ UNCHANGED <<config, alive, set, fd, lines, history>>

-------------------------------------------------------------------------------
\* loadConfig

\* The lines that are parsed: the loop that is to read on reads from another descriptor, so
\* that it stops after 1024 bytes, and a line without its newline is not applied.
TextLines(cf) == SubSeq(cf.text, 1, cf.whole)

\* Neither "true" nor "false" leaves boolVal as it happens to be, in each line anew.
Bool(val, unset) ==
    CASE val = "true" -> TRUE
      [] val = "false" -> FALSE
      [] OTHER -> unset

\* Mutant of Setting: wrap is taken for flush.
Setting_wrap(w, l, unset) ==
    CASE l.var = "silent"  -> [w EXCEPT !.silent = Bool(l.val, unset)]
      [] l.var = "flush"   -> [w EXCEPT !.flush = Bool(l.val, unset)]
      [] l.var = "wrap"    -> [w EXCEPT !.flush = Bool(l.val, unset)]
      [] l.var = "debug"   -> [w EXCEPT !.debug = l.val]
      [] l.var = "logfile" -> [w EXCEPT !.logfile = l.val]
      [] OTHER -> w

\* One line; a variable that does not exist is passed over.
Setting(w, l, unset) ==
    CASE l.var = "silent"  -> [w EXCEPT !.silent = Bool(l.val, unset)]
      [] l.var = "flush"   -> [w EXCEPT !.flush = Bool(l.val, unset)]
      [] l.var = "wrap"    -> [w EXCEPT !.wrap = Bool(l.val, unset)]
      [] l.var = "debug"   -> [w EXCEPT !.debug = l.val]
      [] l.var = "logfile" -> [w EXCEPT !.logfile = l.val]
      [] OTHER -> w

\* Its variables begin with the settings as they are.
FirstWish(s) == [silent |-> s.silentMode, wrap |-> s.lineWrap, flush |-> FALSE,
                 debug |-> s.dbgLevel, logfile |-> s.logFile]

Wanted(s, text, unset) ==
    LET after[k \in 0..Len(text)] ==
            IF k = 0 THEN FirstWish(s) ELSE Setting(after[k - 1], text[k], unset[k])
    IN  after[Len(text)]

\* Mutant of Apply: the name of the file is always set, and said, with setLogFile.
Apply_loud(w) ==
    <<[op |-> "setLogFile", file |-> w.logfile]>>
    \o (IF w.flush THEN <<[op |-> "flushLog"]>> ELSE <<>>)
    \o <<[op |-> "setLogSilentMode", on |-> w.silent],
         [op |-> "setLineWrap", on |-> w.wrap],
         [op |-> "setLogDebugLevel", level |-> w.debug]>>

Apply(w) ==
    (IF w.silent THEN <<>> ELSE <<[op |-> "setLogFile", file |-> w.logfile]>>)
    \o (IF w.flush THEN <<[op |-> "flushLog"]>> ELSE <<>>)
    \o <<[op |-> "setLogSilentMode", on |-> w.silent],
         [op |-> "setLineWrap", on |-> w.wrap],
         [op |-> "setLogDebugLevel", level |-> w.debug]>>

\* A line without '=' gives strncpy a negative length.
Broken(text) == \E k \in 1..Len(text) : text[k].var = "no ="

loadConfig(p) ==
    /\ Call(p, "loadConfig")
    /\ \/ /\ ~config.there
          /\ Return(p, <<Message(LOGGER)>>)
          /\ UNCHANGED <<alive, set>>
       \/ /\ config.there
          /\ Broken(TextLines(config))
          /\ alive' = [alive EXCEPT ![p] = "crash"]
          /\ UNCHANGED <<set, calls>>
       \/ /\ config.there
          /\ ~Broken(TextLines(config))
          /\ \E unset \in [1..Len(TextLines(config)) -> BOOLEAN] :
                LET w == Wanted(set[p], TextLines(config), unset)
                IN  /\ Return(p, Apply(w))
                    /\ set' = IF w.silent THEN [set EXCEPT ![p].logFile = w.logfile] ELSE set
          /\ UNCHANGED alive
    /\ UNCHANGED <<config, fd, fileVars, history>>

-------------------------------------------------------------------------------
LogStep(p) ==
    \/ writeLog_open(p) \/ writeLog(p)
    \/ setLogFile(p) \/ setLogSilentMode(p) \/ setLineWrap(p) \/ setLogDebugLevel(p)
    \/ flushLog(p) \/ flushLog_remove(p) \/ flushLog_create(p)
    \/ loadConfig(p)

===============================================================================
