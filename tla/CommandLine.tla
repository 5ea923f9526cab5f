------------------------------ MODULE CommandLine ------------------------------
(***************************************************************************)
(* The command line of fileserv and filecli: config.c, parse_commandline.  *)
(*                                                                         *)
(* argv is the sequence of options as getopt("h::p::f:o::") delivers them: *)
(* records of the option and its argument, which is NULL for an optional   *)
(* argument that is not attached to its option ("-p 9000").  An option     *)
(* that getopt does not know, or -f without an argument, is "?".           *)
(***************************************************************************)
EXTENDS Integers, Sequences

CONSTANTS
    Dotted,   \* the hosts that are addresses in numbers and dots
    basename, \* basename[f]: the last part of the path f
    NULL      \* no argument

HOST == "127.0.0.1"
PORT == 9000

\* What "%s" makes of a null pointer.
Text(arg) == IF arg = NULL THEN "(null)" ELSE arg

Shorts == {n \in Int : -32768 <= n /\ n <= 32767}

\* A short: what does not fit in 16 bits wraps.
Short(n) == ((n + 32768) % 65536) - 32768

\* usage counts the texts on how to use the program that were printed.
Defaults == [host |-> HOST, port |-> PORT, infile |-> "", outfile |-> "",
             opterr |-> FALSE, usage |-> 0, crash |-> FALSE]

\* Mutant of Option: the first -p counts.
Option_first(p, o) ==
    IF p.crash THEN p ELSE
    CASE o.opt = "h" -> [p EXCEPT !.host = Text(o.arg)]
      [] o.opt = "p" -> IF o.arg = NULL THEN [p EXCEPT !.crash = TRUE]
                        ELSE [p EXCEPT !.port = IF @ = PORT THEN Short(o.arg) ELSE @]
      [] o.opt = "f" -> [p EXCEPT !.infile = o.arg, !.outfile = basename[o.arg]]
      [] o.opt = "o" -> [p EXCEPT !.outfile = Text(o.arg)]
      [] o.opt = "?" -> [p EXCEPT !.opterr = TRUE, !.usage = @ + 1]

\* One turn of the loop, which ends where atoi fails on a null pointer.
Option(p, o) ==
    IF p.crash THEN p ELSE
    CASE o.opt = "h" -> [p EXCEPT !.host = Text(o.arg)]
      [] o.opt = "p" -> IF o.arg = NULL THEN [p EXCEPT !.crash = TRUE]
                                        ELSE [p EXCEPT !.port = Short(o.arg)]
      [] o.opt = "f" -> [p EXCEPT !.infile = o.arg, !.outfile = basename[o.arg]]
      [] o.opt = "o" -> [p EXCEPT !.outfile = Text(o.arg)]
      [] o.opt = "?" -> [p EXCEPT !.opterr = TRUE, !.usage = @ + 1]

parse_commandline(argv) ==
    LET upTo[k \in 0..Len(argv)] ==
            IF k = 0 THEN Defaults ELSE Option(upTo[k - 1], argv[k])
    IN  upTo[Len(argv)]

-------------------------------------------------------------------------------
\* What main makes of the result.

ANY == "0.0.0.0"

\* inet_aton leaves the address, which is zero, alone if it cannot read the host: a name
\* is never resolved.
Address(p) == IF p.host \in Dotted THEN p.host ELSE ANY

\* Mutant of WirePort: what is above the largest short is cut off, not wrapped.
WirePort_cut(p) == IF p.port < 0 THEN 32767 ELSE p.port

\* htons takes the short for an unsigned one.
WirePort(p) == p.port % 65536

===============================================================================
