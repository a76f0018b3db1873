---------------------------- MODULE CommandLine -----------------------------
(***************************************************************************)
(* process_command_line_arguments() of tanidvr.c: options are taken in the *)
(* order of the command line, a number in one of them is read with         *)
(* sscanf(), whose result nobody looks at.                                 *)
(*                                                                         *)
(* An argument is an option, by its letter, with `num' if a number follows *)
(* and `val', that number, of which sscanf() makes `int'.  Of a user name  *)
(* or a password, val is the length; of other strings nothing is said.     *)
(***************************************************************************)
EXTENDS Integers, Sequences, SequencesExt

CONSTANT INT_MAX   \* 2147483647

Numeric == {"a", "m", "p", "c", "s", "n", "k", "e", "r"}
ViaP == {"a", "p", "k", "e", "r"}   \* read into p, the others in place
Strings == {"t", "u", "w", "f"}
Mandatory == {"m", "t", "u", "w"}
MAX_USER_PASSWD_LEN == 250
DEFAULT_PORT == 37777
MAX_PORT == 65535
MAX_CHANNEL == 255
MAX_TIME == 1000000   \* of a keep-alive or a timeout, in milliseconds

Ints == -INT_MAX-1..INT_MAX

(* What sscanf("%d") may leave in an int.  A number that has no room in it *)
(* is undefined: glibc keeps its low bits, of a number that a long has no  *)
(* room for those of the largest or smallest long.                         *)
Scans(val) == IF val \in Ints THEN {val} ELSE Ints

Arg(opt, num, val, int) == [opt |-> opt, num |-> num, val |-> val, int |-> int]
Arguments ==
  {arg \in [opt : STRING, num : BOOLEAN, val : Int, int : Int] : arg.int \in Scans(arg.val)}

(* command_options, by option. *)
Defaults ==
  [a |-> 0, m |-> 0, p |-> DEFAULT_PORT, c |-> 0, s |-> 0, n |-> 1, k |-> 100, e |-> 5000, r |-> 1]

(* Mutant: any timeout will do. *)
ValidUnlimited(opt, v) ==
  CASE opt = "e" -> v >= 0
    [] opt # "e" -> v \in [a |-> 1..1, m |-> 0..1, p |-> 1..MAX_PORT, c |-> 0..MAX_CHANNEL, s |-> 0..1,
                           n |-> 0..1, k |-> 0..MAX_TIME, r |-> 0..1][opt]

(* Dialect 0, the default, is not accepted. *)
Valid(opt, v) ==
  v \in [a |-> 1..1, m |-> 0..1, p |-> 1..MAX_PORT, c |-> 0..MAX_CHANNEL, s |-> 0..1,
         n |-> 0..1, k |-> 0..MAX_TIME, e |-> 0..MAX_TIME, r |-> 0..1][opt]

(* What the loop has so far: exit is "no", or the program's exit code; p   *)
(* is what was last read into it, or not initialised.                      *)
Begin(p) ==
  [exit |-> "no", p |-> p, opts |-> Defaults, ntsc_exact_60hz |-> FALSE,
   given |-> {}, user |-> 0, password |-> 0]

(* A word that is no number leaves the variable as it was. *)
Scanned(st, arg) ==
  CASE arg.num -> arg.int
    [] ~arg.num /\ arg.opt \in ViaP -> st.p
    [] ~arg.num /\ arg.opt \notin ViaP -> st.opts[arg.opt]

Number(st, arg) ==
  LET v == Scanned(st, arg) IN
    [st EXCEPT !.exit = IF Valid(arg.opt, v) THEN "no" ELSE "1",
               !.p = IF arg.opt \in ViaP THEN v ELSE @,
               !.opts[arg.opt] = IF Valid(arg.opt, v) THEN v ELSE @,
               !.given = @ \cup {arg.opt}]

String(st, arg) ==
  [st EXCEPT !.given = @ \cup {arg.opt},
             !.user = IF arg.opt = "u" THEN arg.val ELSE @,
             !.password = IF arg.opt = "w" THEN arg.val ELSE @]

Option(st, arg) ==
  CASE st.exit # "no" -> st
    [] st.exit = "no" /\ arg.opt \in Numeric -> Number(st, arg)
    [] st.exit = "no" /\ arg.opt \in Strings -> String(st, arg)
    [] st.exit = "no" /\ arg.opt = "x" -> [st EXCEPT !.ntsc_exact_60hz = TRUE]
    [] st.exit = "no" /\ arg.opt = "h" -> [st EXCEPT !.exit = "0"]
    [] OTHER -> [st EXCEPT !.exit = "1"]

(* Behind the loop.  A keep-alive longer than the timeout is logged only. *)
Complete(st) ==
  IF st.exit = "no" /\ (~(Mandatory \subseteq st.given)
                        \/ st.user + st.password > MAX_USER_PASSWD_LEN)
  THEN [st EXCEPT !.exit = "1"] ELSE st

Parsed(argv, p) == Complete(FoldLeft(Option, Begin(p), argv))
=============================================================================
