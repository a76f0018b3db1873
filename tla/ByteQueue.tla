----------------------------- MODULE ByteQueue -----------------------------
(***************************************************************************)
(* What the FIFO of bufftools.c promises its users (bufftools.h): a        *)
(* bounded queue of bytes.  The k-th byte of the stream has the value k.   *)
(* `queue' holds the bytes accepted and not yet handed on, `out' those     *)
(* handed on.                                                              *)
(***************************************************************************)
EXTENDS Naturals, Sequences

CONSTANT Cap    \* how many bytes the queue holds at most, a positive number

VARIABLES queue, out
vars == <<queue, out>>

Arrived == Len(out) + Len(queue)

Init == queue = <<>> /\ out = <<>>

(* n more bytes of the stream are accepted, in order. *)
Put(n) ==
  /\ Len(queue) + n <= Cap
  /\ queue' = queue \o [k \in 1..n |-> Arrived + k]
  /\ UNCHANGED out

(* The n oldest bytes are handed on, in order. *)
Take(n) ==
  /\ out' = out \o SubSeq(queue, 1, n)
  /\ queue' = SubSeq(queue, n + 1, Len(queue))

Next ==
  \/ \E n \in 1..Cap : Put(n)
  \/ \E n \in 1..Len(queue) : Take(n)

Spec == Init /\ [][Next]_vars
=============================================================================
