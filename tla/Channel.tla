------------------------------ MODULE Channel -------------------------------
(***************************************************************************)
(* What llprotocol.h and hlp_get_header() promise their user: messages in  *)
(* the order in which the DVR sent them, each whole or not at all.         *)
(*                                                                         *)
(* The promise ends when a read stops within a message.  Who reads media   *)
(* data is then told, unless it was a message that it did not wait for;    *)
(* who asks for information may go on and get anything.                    *)
(***************************************************************************)
EXTENDS Integers, Sequences

CONSTANTS
  Messages,  \* records with a command cmd and data ext
  Awaited,   \* the command waited for
  BufLen     \* the longest data it may have

VARIABLES
  user,   \* who reads: "media", up to the first error, or "query"
  sent,   \* the DVR's messages
  taken,  \* how many of them are done with
  got,    \* the data handed to the user
  state   \* "up", "lost" (where a message begins is not known) or "ended"

vars == <<user, sent, taken, got, state>>

Init ==
  /\ user \in {"media", "query"}
  /\ sent = <<>> /\ taken = 0 /\ got = <<>> /\ state = "up"

Send == \E m \in Messages : sent' = Append(sent, m) /\ UNCHANGED <<user, taken, got, state>>

Next1 == sent[taken + 1]
ForUser == Next1.cmd = Awaited /\ Len(Next1.ext) <= BufLen

Deliver ==
  /\ state = "up" /\ taken < Len(sent) /\ ForUser
  /\ taken' = taken + 1 /\ got' = Append(got, Next1.ext)
  /\ UNCHANGED <<user, sent, state>>

(* Data too long is an error, which the next message does not suffer from. *)
Skip ==
  /\ state = "up" /\ taken < Len(sent) /\ ~ForUser
  /\ taken' = taken + 1
  /\ state' = IF user = "media" /\ Next1.cmd = Awaited THEN "ended" ELSE "up"
  /\ UNCHANGED <<user, sent, got>>

Cut ==
  /\ state = "up" /\ taken < Len(sent)
  /\ user = "media" => Next1.cmd # Awaited
  /\ state' = "lost"
  /\ UNCHANGED <<user, sent, taken, got>>

End ==
  /\ user = "media" /\ state # "ended"
  /\ state' = "ended"
  /\ UNCHANGED <<user, sent, taken, got>>

Anything == state = "lost" /\ state' \in {"lost", "ended"} /\ UNCHANGED <<user, sent>>

Next == Send \/ Deliver \/ Skip \/ Cut \/ End \/ Anything

Spec == Init /\ [][Next]_vars
=============================================================================
