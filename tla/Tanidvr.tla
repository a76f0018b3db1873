------------------------------ MODULE Tanidvr -------------------------------
(***************************************************************************)
(* tanidvr from its command line to the messages of a connection: main()   *)
(* has the options processed and has a session opened with what they say,  *)
(* of which the timeout goes down to the sockets that Wire reads from.     *)
(***************************************************************************)
EXTENDS Wire, CommandLine

CONSTANTS
  ArgLists,  \* bound: command lines
  Junk       \* bound: what an uninitialised int may be

ASSUME TanidvrAssumption ==
  /\ INT_MAX \in Nat
  /\ ArgLists \subseteq Seq(Arguments)
  /\ Junk \subseteq Ints

VARIABLES
  main,      \* "start", "parsed" or "session"
  argv,      \* the command line
  outcome    \* of process_command_line_arguments()

mainVars == <<main, argv, outcome>>

TanidvrInit ==
  /\ Init /\ ~timeouts
  /\ main = "start" /\ argv \in ArgLists /\ outcome = Begin(0)

Process ==
  /\ main = "start"
  /\ \E p \in Junk : outcome' = Parsed(argv, p)
  /\ main' = "parsed"
  /\ UNCHANGED <<argv, netVars, user, timeouts, wireVars>>

(* open_session() and net_open().  The options have done their duty here.  *)
OpenSession ==
  /\ main = "parsed" /\ outcome.exit = "no"
  /\ timeouts' = (outcome.opts["e"] * 1000 # 0)
  /\ main' = "session" /\ argv' = <<>> /\ outcome' = Begin(0)
  /\ UNCHANGED <<netVars, user, wireVars>>

TanidvrNext ==
  \/ Process \/ OpenSession
  \/ main = "session" /\ Next /\ UNCHANGED mainVars

TanidvrSpec == TanidvrInit /\ [][TanidvrNext]_<<mainVars, vars>>
-----------------------------------------------------------------------------
(* The last number behind an option, or the default. *)
Asked(opt) ==
  LET k == SelectLastInSeq(argv, LAMBDA arg : arg.opt = opt /\ arg.num)
  IN  IF k = 0 THEN Defaults[opt] ELSE argv[k].val

Missing == {opt \in Mandatory : \A k \in DOMAIN argv : argv[k].opt # opt}

(* What the help says can be given; of the two times, in milliseconds,     *)
(* that which an unsigned int holds in microseconds.                       *)
MAX_UINT_TIME == 4294967

Documented ==
  [a |-> 0..1, m |-> 0..1, p |-> 1..MAX_PORT, c |-> 0..MAX_CHANNEL, s |-> 0..1,
   n |-> 0..1, k |-> 0..MAX_UINT_TIME, e |-> 0..MAX_UINT_TIME, r |-> 0..1]

(* What the program starts with is in range, also where a word that is no  *)
(* number leaves the variable of another option, or none at all, to be     *)
(* tested, and where a number has no room in an int.  One that has and is  *)
(* out of range is refused, even if a later one would replace it.  And     *)
(* with numbers in their places every option is what it was last set to,   *)
(* in whatever order they come, if that has room in an int: if not, it may *)
(* pass for another number, which nobody notices (tanidvr.c:308).          *)
AsAsked ==
  main = "parsed" /\ outcome.exit = "no" =>
    /\ Missing = {}
    /\ \A opt \in Numeric : outcome.opts[opt] \in Documented[opt]
    /\ \A k \in DOMAIN argv :
         argv[k].opt \in Numeric /\ argv[k].num /\ argv[k].val \in Ints =>
           argv[k].val \in Documented[argv[k].opt]
    /\ (\A k \in DOMAIN argv : argv[k].opt \in Numeric => argv[k].num) =>
         \A opt \in Numeric : Asked(opt) \in Ints => outcome.opts[opt] = Asked(opt)
=============================================================================
