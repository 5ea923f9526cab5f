-------------------------------- MODULE Startup --------------------------------
(***************************************************************************)
(* How fileserv and filecli start on one machine, in one directory: main   *)
(* of file_serv.c and of file_client.c up to the event loop, with the      *)
(* command line and the logger.  Several servers may be started, by        *)
(* mistake, beside each other.                                             *)
(***************************************************************************)
EXTENDS SimpLog, CommandLine, FiniteSets

CONSTANTS
    Server,       \* the processes that run fileserv
    Client,       \* those that run filecli
    Starts,       \* how the processes may be started: their command lines, as a function,
                  \* and the logger's configuration
    Local         \* the machine's own addresses

IsSequence(s) == s \in Seq({s[k] : k \in DOMAIN s})

\* What getopt delivers.
IsCommandLine(args) ==
    /\ IsSequence(args)
    /\ \A k \in DOMAIN args :
        /\ args[k].opt \in {"h", "p", "f", "o", "?"}
        /\ args[k].opt = "p" => args[k].arg \in Int \union {NULL}

\* What log_config.conf may hold.
IsConfig(cf) ==
    /\ IsSequence(cf.text)
    /\ \A k \in DOMAIN cf.text :
        /\ cf.text[k].var = "debug" => cf.text[k].val \in Int
        /\ cf.text[k].var = "logfile" =>
               cf.text[k].val \in LogName \union Unremovable \union {""}
    /\ cf.whole \in 0..Len(cf.text)

ASSUME StartupAssumption ==
    /\ Process = Server \union Client
    /\ Server \intersect Client = {}
    /\ {"default.log", "server.log"} \subseteq LogName
    /\ "" \notin LogName \union Unremovable
    /\ Local \subseteq Dotted
    /\ HOST \in Local
    /\ NULL \notin Process
    /\ \A start \in Starts :
        /\ \A p \in Process : IsCommandLine(start[1][p])
        /\ IsConfig(start[2])

VARIABLES
    argv, \* the command line
    para, \* what parse_commandline made of it, or NULL
    pc,   \* what main does next
    conn, \* the server that a client is connected to, or NULL
    met   \* the clients for which listen_cb has been called

mainVars == <<argv, para, pc, conn, met>>
vars == <<logVars, mainVars>>

Stage == {"parse", "bind", "connect", "quit", "loop", "refused"}

TypeOK ==
    /\ LogTypeOK
    /\ pc \in [Process -> Stage]
    /\ conn \in [Client -> Server \union {NULL}]
    /\ \A p \in Process : pc[p] # "parse" =>
        /\ para[p].port \in Shorts
        /\ para[p].opterr \in BOOLEAN
        /\ para[p].usage \in Nat
        /\ para[p].crash \in BOOLEAN
    /\ \A c \in Client : conn[c] # NULL <=> pc[c] = "loop"
    /\ met \in SUBSET {c \in Client : conn[c] # NULL}

\* What fileserv has to do in the logger before it parses its command line.
FirstCalls == <<[op |-> "loadConfig"], [op |-> "setLogFile", file |-> "server.log"]>>

Init ==
    /\ LogInit
    /\ \E start \in Starts : argv = start[1] /\ config = start[2]
    /\ calls = [p \in Process |-> IF p \in Server THEN FirstCalls ELSE <<>>]
    /\ para = [p \in Process |-> NULL]
    /\ pc = [p \in Process |-> "parse"]
    /\ conn = [c \in Client |-> NULL]
    /\ met = {}

\* main is at this stage, and not in the logger.
At(p, stage) ==
    /\ alive[p] = "run"
    /\ calls[p] = <<>>
    /\ pc[p] = stage

Ends(p, how) == alive' = [alive EXCEPT ![p] = how]

Says(p, messages) == calls' = [calls EXCEPT ![p] = messages]

\* Each option that is not known shows the usage; the error is said before the program
\* returns 1.
Parse(p) ==
    /\ At(p, "parse")
    /\ LET para1 == parse_commandline(argv[p])
       IN  /\ para' = [para EXCEPT ![p] = para1]
           /\ shown' = [shown EXCEPT ![p] = @ + para1.usage]
           /\ \/ /\ para1.crash
                 /\ Ends(p, "crash")
                 /\ pc' = [pc EXCEPT ![p] = "quit"]
                 /\ UNCHANGED calls
              \/ /\ ~para1.crash /\ para1.opterr
                 /\ Says(p, <<Message(FATAL)>>)
                 /\ pc' = [pc EXCEPT ![p] = "quit"]
                 /\ UNCHANGED alive
              \/ /\ ~para1.crash /\ ~para1.opterr
                 /\ pc' = [pc EXCEPT ![p] = IF p \in Server THEN "bind" ELSE "connect"]
                 /\ UNCHANGED <<alive, calls>>
    /\ UNCHANGED <<config, set, fd, fileVars, count, written, removed, argv, conn, met>>

Quit(p) ==
    /\ At(p, "quit")
    /\ Ends(p, "exit")
    /\ UNCHANGED <<config, set, calls, fd, fileVars, history, mainVars>>

Listening(s) == s \in Server /\ alive[s] = "run" /\ pc[s] = "loop"

\* Port 0 is a port that the kernel chooses: it is nobody else's.
Conflict(s, t) ==
    /\ WirePort(para[s]) = WirePort(para[t])
    /\ WirePort(para[s]) # 0
    /\ \/ Address(para[s]) = Address(para[t])
       \/ ANY \in {Address(para[s]), Address(para[t])}

\* evconnlistener_new_bind: an assertion fails if the address is not one of the machine,
\* or taken.
Bind(s) ==
    /\ At(s, "bind")
    /\ \/ /\ Address(para[s]) \in Local \union {ANY}
          /\ \A t \in Server : Listening(t) => ~Conflict(s, t)
          /\ pc' = [pc EXCEPT ![s] = "loop"]
          /\ UNCHANGED alive
       \/ /\ \/ Address(para[s]) \notin Local \union {ANY}
             \/ \E t \in Server : Listening(t) /\ Conflict(s, t)
          /\ Ends(s, "crash")
          /\ UNCHANGED pc
    /\ UNCHANGED <<config, set, calls, fd, fileVars, history, argv, para, conn, met>>

\* A connection to no address in particular goes to the machine itself.
Target(p) == IF Address(p) = ANY THEN HOST ELSE Address(p)

Answers(s, c) ==
    /\ Listening(s)
    /\ WirePort(para[s]) = WirePort(para[c])
    /\ WirePort(para[s]) # 0
    /\ Address(para[s]) \in {ANY, Target(para[c])}

\* bufferevent_socket_connect only begins to connect; two messages follow, on the way to the
\* event loop, where a refusal is learnt of.
Connect(c) ==
    /\ At(c, "connect")
    /\ \/ \E s \in Server :
            /\ Answers(s, c)
            /\ conn' = [conn EXCEPT ![c] = s]
            /\ pc' = [pc EXCEPT ![c] = "loop"]
       \/ /\ \A s \in Server : ~Answers(s, c)
          /\ pc' = [pc EXCEPT ![c] = "refused"]
          /\ UNCHANGED conn
    /\ Says(c, <<Message(DEBUG), Message(DEBUG)>>)
    /\ UNCHANGED <<config, alive, set, fd, fileVars, history, argv, para, met>>

\* It has no socket or no route: the client ends, and has nothing in its log.
ConnectFails(c) ==
    /\ At(c, "connect")
    /\ Ends(c, "connect")
    /\ UNCHANGED <<config, set, calls, fd, fileVars, history, mainVars>>

\* A new connection is said.
listen_cb(s, c) ==
    /\ At(s, "loop")
    /\ conn[c] = s
    /\ c \notin met
    /\ met' = met \union {c}
    /\ Says(s, <<Message(INFO)>>)
    /\ UNCHANGED <<config, alive, set, fd, fileVars, history, argv, para, pc, conn>>

Step(p) ==
    \/ LogStep(p) /\ UNCHANGED mainVars
    \/ Parse(p)
    \/ Quit(p)

Next ==
    \/ \E p \in Process : Step(p)
    \/ \E s \in Server : Bind(s)
    \/ \E c \in Client : Connect(c) \/ ConnectFails(c)
    \/ \E s \in Server, c \in Client : listen_cb(s, c)

Spec == Init /\ [][Next]_vars

-------------------------------------------------------------------------------
(***************************************************************************)
(* Properties                                                              *)
(***************************************************************************)

\* The index of the last option of s among opts, and of the last line of s for a variable;
\* sets that are empty if there is none.
LastOpt(s, opts) ==
    {k \in 1..Len(s) : s[k].opt \in opts /\ \A j \in k+1..Len(s) : s[j].opt \notin opts}

LastLine(s, var) ==
    {k \in 1..Len(s) : s[k].var = var /\ \A j \in k+1..Len(s) : s[j].var # var}

\* However options are ordered and repeated: the last -h, -p and -f count, the output has
\* the name of a last -o that comes behind each -f or, without -o, that of the input, and
\* an option without meaning anywhere makes the line an error.  (What is claimed of -o
\* before -f is OutputAsAsked.)  config.c, parse_commandline.
OptionsMean ==
    \A p \in Process : pc[p] # "parse" =>
        LET a == argv[p]
            r == para[p]
        IN  /\ r.crash = \E k \in 1..Len(a) : a[k].opt = "p" /\ a[k].arg = NULL
            /\ ~r.crash =>
                /\ r.opterr = \E k \in 1..Len(a) : a[k].opt = "?"
                /\ \A k \in LastOpt(a, {"h"}) : r.host = Text(a[k].arg)
                /\ \A k \in LastOpt(a, {"p"}) : r.port = Short(a[k].arg)
                /\ \A k \in LastOpt(a, {"f"}) : r.infile = a[k].arg
                /\ \A k \in LastOpt(a, {"f", "o"}) :
                       a[k].opt = "o" => r.outfile = Text(a[k].arg)
                /\ \A k \in LastOpt(a, {"f"}) :
                       LastOpt(a, {"o"}) = {} => r.outfile = basename[a[k].arg]
                /\ LastOpt(a, {"h"}) = {} => r.host = HOST
                /\ LastOpt(a, {"p"}) = {} => r.port = PORT

\* The port that a command line asks for.
Asked(p) == {argv[p][k].arg : k \in LastOpt(argv[p], {"p"})}
AskedPort(p) == IF Asked(p) = {} THEN PORT ELSE CHOOSE n \in Asked(p) : TRUE

\* A client is connected to a server only if the port numbers they were given, or the
\* default, are equal in their last 16 bits, although each passes a signed short on the
\* way: config.h, line 19.
MeetOnPort ==
    \A c \in Client : conn[c] # NULL =>
        (AskedPort(c) - AskedPort(conn[c])) % 65536 = 0

\* A line that was written to a log file stays there, once and in the order in which its
\* process wrote, unless the file is removed: simplog.c, line 95 and following.
LinesKept ==
    /\ \A w \in written : there[w[1]] /\ gen[w[1]] = w[2] =>
           \E i \in 1..Len(lines[w[1]]) : lines[w[1]][i] = w[3]
    /\ \A f \in LogName : \A i, j \in 1..Len(lines[f]) :
           i < j /\ lines[f][i].by = lines[f][j].by => lines[f][i].n < lines[f][j].n

\* flushLog ends its process only if the log is one that cannot be removed, or another
\* process has removed it after it was seen: simplog.c, lines 415 to 421.
FlushDeath ==
    \A p \in Process : alive[p] = "flush" =>
        \/ set[p].logFile \in Unremovable
        \/ \E q \in Process \ {p} : <<q, set[p].logFile>> \in removed

\* A program that refuses its command line has left the reason in its log, whatever
\* level and file the configuration names, unless another one has flushed that file.
FatalInLog ==
    \A p \in Process : alive[p] = "exit" =>
        LET f == IF p \in Server THEN "server.log" ELSE "default.log"
        IN  \/ \E i \in 1..Len(lines[f]) : lines[f][i].by = p /\ lines[f][i].lvl = FATAL
            \/ \E q \in Process \ {p} : <<q, f>> \in removed

\* When a server parses its command line its logger is set as the last line for each
\* variable says among those that are read, which end within the file's first 1024 bytes
\* (simplog.c, lines 475 to 490).  A level that does not exist stands for DEBUG; without a
\* line, or with no configuration, the default holds; the log is server.log in any case.
AsConfigured ==
    \A s \in Server : pc[s] # "parse" =>
        LET text == IF config.there THEN TextLines(config) ELSE <<>>
            says(var, val) ==
                \A k \in LastLine(text, var) :
                    text[k].val \in {"true", "false"} => val = (text[k].val = "true")
        IN  /\ set[s].logFile = "server.log"
            /\ says("silent", set[s].silentMode)
            /\ says("wrap", set[s].lineWrap)
            /\ LastLine(text, "silent") = {} => ~set[s].silentMode
            /\ LastLine(text, "wrap") = {} => set[s].lineWrap
            /\ set[s].dbgLevel \in
                   {DEBUG} \union {text[k].val : k \in LastLine(text, "debug")}
            /\ \A k \in LastLine(text, "debug") :
                   text[k].val \in INFO..VERBOSE => set[s].dbgLevel = text[k].val

\* The options that s was given and that do not exist, once it has looked at them.
Refused(s) == {k \in 1..Len(argv[s]) : pc[s] # "parse" /\ argv[s][k].opt = "?"}

\* A configuration whose last line for silent says true keeps the logger's messages from
\* the server's terminal and all else from its standard output, but for two texts of
\* flushLog, which runs before silent mode is set (simplog.c, lines 546 to 555), and a
\* usage text for each option that does not exist (config.c, line 28).
SilentTerminal ==
    \A s \in Server : \A k \in LastLine(TextLines(config), "silent") :
        config.there /\ TextLines(config)[k].val = "true" =>
            shown[s] <= (IF LastLine(TextLines(config), "flush") = {} THEN 0 ELSE 2)
                        + Cardinality(Refused(s))

\* The program's usage: the output has the name that -o gives.  README.md, line 35, where
\* -o comes before -f.
OutputAsAsked ==
    \A p \in Process : pc[p] # "parse" =>
        \A k \in LastOpt(argv[p], {"o"}) : para[p].outfile = Text(argv[p][k].arg)

===============================================================================
