--------------------------- MODULE CaptureProofs ----------------------------
(***************************************************************************)
(* Proofs about the three processes of a capture, for pipes and FIFOs of   *)
(* any size and any number of streamers, items and signals.                *)
(***************************************************************************)
EXTENDS Capture, SequenceTheorems, TLAPS

(* The child that the buffer process knows of, where it is known, and what *)
(* it left in the pipe: the pipe is empty again before the next fork().    *)
ChildKnown ==
  /\ bpc \in {"fork", "flush", "exit", "exited"} => child = "none" /\ inq = <<>>
  /\ bpc \in {"poll", "out", "in", "destroy"} => child # "none"
  /\ bpc = "wait" => inq = <<>>
  /\ child # "none" => gen >= 1
  /\ WaitedForDies

(* Streamers are left behind by signals from outside and by the one that   *)
(* main sends when it destroys its pipe.  The SIGCHLD of one of them may   *)
(* leave another one behind, but only in its place.                        *)
Terminated == mpc \in {"wait", "done"}
OldCounted == old <= signals + (IF Terminated THEN 1 ELSE 0)

-----------------------------------------------------------------------------
(* What a transfer moves and what it leaves behind make up the queue. *)
LEMMA Cut ==
  ASSUME NEW q \in Seq(Items), NEW n \in 0..Len(q)
  PROVE  /\ First(q, n) \in Seq(Items) /\ Len(First(q, n)) = n
         /\ Rest(q, n) \in Seq(Items) /\ Len(Rest(q, n)) = Len(q) - n
         /\ First(q, n) \o Rest(q, n) = q
<1>1. Len(q) \in Nat /\ \A i \in 1..Len(q) : q[i] \in Items
  OBVIOUS
<1>2. First(q, n) \in Seq(Items) /\ Len(First(q, n)) = n
  <2>1. \A i \in 1..n : q[i] \in Items
    BY <1>1
  <2> QED  BY <1>1, <2>1, SubSeqProperties DEF First
<1>3. Rest(q, n) \in Seq(Items) /\ Len(Rest(q, n)) = Len(q) - n
  <2>1. \A i \in n+1..Len(q) : q[i] \in Items
    BY <1>1
  <2> QED  BY <1>1, <2>1, SubSeqProperties DEF Rest
<1>4. SubSeq(q, 1, n) \o SubSeq(q, n + 1, Len(q)) = SubSeq(q, 1, Len(q))
  <2>1. 1 \in 1..Len(q)+1 /\ n \in 1-1..Len(q) /\ Len(q) \in n..Len(q)
    BY <1>1
  <2> QED  BY <2>1, ConcatAdjacentSubSeq
<1>5. SubSeq(q, 1, Len(q)) = q
  BY SubSeqFull
<1> QED  BY <1>2, <1>3, <1>4, <1>5 DEF First, Rest

(* A transfer keeps to what there is and to where there is room. *)
LEMMA TransferSize ==
  ASSUME NEW q \in Seq(Items), NEW room \in Nat, NEW n \in Transfers(q, room)
  PROVE  n \in 0..Len(q) /\ n <= room
<1>1. Len(q) \in Nat
  OBVIOUS
<1> QED  BY <1>1 DEF Transfers, Portion

LEMMA Moved ==
  ASSUME NEW q \in Seq(Items), NEW to \in Seq(Items), NEW room \in Nat,
         NEW n \in 0..Len(q), n <= room
  PROVE  /\ to \o First(q, n) \in Seq(Items)
         /\ Len(to \o First(q, n)) <= Len(to) + room
         /\ Rest(q, n) \in Seq(Items)
         /\ Len(Rest(q, n)) <= Len(q)
<1>1. /\ First(q, n) \in Seq(Items) /\ Len(First(q, n)) = n
      /\ Rest(q, n) \in Seq(Items) /\ Len(Rest(q, n)) = Len(q) - n
  BY Cut
<1>2. Len(to) \in Nat /\ Len(q) \in Nat
  OBVIOUS
<1> QED  BY <1>1, <1>2, ConcatProperties

-----------------------------------------------------------------------------
(***************************************************************************)
(* Types, and who is where.                                                *)
(***************************************************************************)
QueueType ==
  /\ inq \in Seq(Items) /\ Len(inq) <= PipeCap
  /\ outq \in Seq(Items) /\ Len(outq) <= PipeCap
  /\ fifo \in Seq(Items) /\ Len(fifo) <= FifoCap
  /\ got \in Seq(Items)

StateType ==
  /\ timeout \in BOOLEAN
  /\ child \in {"none", "starting", "running", "zombie"}
  /\ term \in BOOLEAN
  /\ old \in 0..MaxSignals+1
  /\ gen \in 0..MaxGen+1 /\ sent \in 0..MaxPerGen
  /\ bpc \in {"fork", "poll", "out", "in", "destroy", "wait", "flush", "exit", "exited"}
  /\ rev = Junk \/ rev \in [Flags -> BOOLEAN]
  /\ tret \in {0, 1, 2, 4, -5, 6, 10}
  /\ bchld \in BOOLEAN
  /\ mpc \in {"poll", "read", "work", "stop", "kill", "wait", "done"}
  /\ ident \in BOOLEAN
  /\ mterm \in BOOLEAN /\ mchld \in BOOLEAN
  /\ signals \in 0..MaxSignals

LEMMA TypeParts == TypeOK <=> QueueType /\ StateType
BY DEF TypeOK, QueueType, StateType

(* Control, apart from what the queues hold. *)
Ctl == StateType /\ ChildKnown /\ OldCounted

LEMMA BoundsType ==
  /\ PipeCap \in Nat \ {0} /\ FifoCap \in Nat \ {0} /\ MaxGen \in Nat \ {0}
  /\ MaxPerGen \in Nat \ {0} /\ MaxSignals \in Nat
BY CaptureAssumption

LEMMA InitCtl == Init => QueueType /\ Ctl
<1> SUFFICES ASSUME Init PROVE QueueType /\ Ctl
  OBVIOUS
<1>1. QueueType
  BY BoundsType DEF Init, QueueType
<1>2. StateType
  <2>1. {timeout, term, bchld, ident, mterm, mchld} \subseteq BOOLEAN
    BY DEF Init
  <2>2. /\ child = "none" /\ old = 0 /\ gen = 0 /\ sent = 0 /\ bpc = "fork" /\ rev = Junk
        /\ tret = 0 /\ mpc = "poll" /\ signals = 0
    BY DEF Init
  <2> QED  BY <2>1, <2>2, BoundsType DEF StateType
<1>3. ChildKnown
  BY DEF Init, ChildKnown, WaitedForDies
<1>4. OldCounted
  BY BoundsType DEF Init, OldCounted, Terminated
<1> QED  BY <1>1, <1>2, <1>3, <1>4 DEF Ctl

LEMMA ReventsType == Revents \in [Flags -> BOOLEAN]
<1>1. ASSUME NEW f \in Flags PROVE Revents[f] \in BOOLEAN
  <2>1. Revents = [g \in Flags |-> CASE g = "in"   -> Len(fifo) < FifoCap /\ inq # <<>>
                                     [] g = "ihup" -> InClosed
                                     [] g = "out"  -> fifo # <<>> /\ Len(outq) < PipeCap
                                     [] g = "oerr" -> OutClosed]
    BY DEF Revents, NoFlags, Flags
  <2>2. /\ (Len(fifo) < FifoCap /\ inq # <<>>) \in BOOLEAN /\ InClosed \in BOOLEAN
        /\ (fifo # <<>> /\ Len(outq) < PipeCap) \in BOOLEAN /\ OutClosed \in BOOLEAN
    BY DEF InClosed, OutClosed
  <2> QED  BY <2>1, <2>2, Zenon DEF Flags
<1>2. Revents = [f \in Flags |-> Revents[f]]
  BY DEF Revents, NoFlags
<1> QED  BY <1>1, <1>2

(* What an interrupted poll() leaves is a type-correct revents. *)
LEMMA InterruptedType ==
  ASSUME StateType, PollInterrupted
  PROVE  bpc = "poll" /\ bpc' = "out" /\ (rev' = Junk \/ rev' \in [Flags -> BOOLEAN])
BY DEF StateType, PollInterrupted

(* What a signal does to the buffer process leaves at most one more        *)
(* streamer behind than the n there are.                                   *)
Interrupted(n) ==
  /\ ChildKnown'
  /\ child' \in {child, "none"} /\ term' \in BOOLEAN /\ old' \in {n, n + 1}
  /\ bpc' \in {bpc, "out", "exit", "fork", "flush"}
  /\ rev' = Junk \/ rev' \in [Flags -> BOOLEAN]

LEMMA InterruptCtl ==
  ASSUME StateType, ChildKnown, NEW n \in Nat, InterruptBuffer(n), inq' = inq, gen' = gen
  PROVE  Interrupted(n)
<1>1. CASE bpc = "wait" /\ child # "zombie" /\ bpc' = AfterWait
           /\ child' = "none" /\ term' = FALSE /\ old' = n + 1 /\ rev' = rev
  <2>1. bpc' \in {"fork", "flush"}
    BY <1>1 DEF AfterWait
  <2>2. ChildKnown'
    BY <1>1, <2>1 DEF ChildKnown, WaitedForDies
  <2> QED  BY <1>1, <2>1, <2>2 DEF Interrupted, StateType
<1>2. CASE bpc = "flush" /\ bpc' = "exit" /\ old' = n /\ UNCHANGED <<child, term, rev>>
  BY <1>2 DEF Interrupted, StateType, ChildKnown, WaitedForDies
<1>3. CASE PollInterrupted /\ old' = n /\ UNCHANGED <<child, term>>
  BY <1>3, InterruptedType DEF Interrupted, StateType, ChildKnown, WaitedForDies
<1>4. CASE old' = n /\ UNCHANGED <<bpc, child, term, rev>>
  BY <1>4 DEF Interrupted, StateType, ChildKnown, WaitedForDies, Live
<1> QED  BY <1>1, <1>2, <1>3, <1>4 DEF InterruptBuffer

LEMMA InterruptedState ==
  ASSUME StateType, NEW n \in Nat, Interrupted(n), old' \in 0..MaxSignals+1,
         signals' \in 0..MaxSignals, mterm' \in BOOLEAN, bchld' \in BOOLEAN,
         mpc' \in {"poll", "read", "work", "stop", "kill", "wait", "done"},
         UNCHANGED <<timeout, gen, sent, tret, ident, mchld>>
  PROVE  StateType'
BY DEF StateType, Interrupted

LEMMA StreamerCtl ==
  ASSUME QueueType, Ctl, Streamer
  PROVE  QueueType' /\ Ctl'
<1> USE BoundsType DEF Ctl, SigChld, Terminated
<1>1. CASE StreamerReady
  <2>1. QueueType'
    BY <1>1 DEF StreamerReady, QueueType, mainVars
  <2>2. StateType' /\ OldCounted'
    BY <1>1 DEF StreamerReady, StateType, OldCounted, mainVars
  <2>3. ChildKnown'
    BY <1>1 DEF StreamerReady, StateType, ChildKnown, WaitedForDies, Live
  <2> QED  BY <2>1, <2>2, <2>3
<1>2. CASE StreamerWrite
  <2>1. /\ child = "running" /\ ~term /\ gen <= MaxGen /\ sent < MaxPerGen /\ Len(inq) < PipeCap
        /\ inq' = Append(inq, <<gen, sent + 1>>) /\ sent' = sent + 1
        /\ UNCHANGED <<timeout, child, term, old, gen, bufferVars, mainVars, outq, signals>>
    BY <1>2 DEF StreamerWrite
  <2>2. <<gen, sent + 1>> \in Items /\ sent + 1 \in 0..MaxPerGen
    BY <2>1 DEF StateType, ChildKnown, Items
  <2>3. inq' \in Seq(Items) /\ Len(inq') <= PipeCap
    BY <2>1, <2>2, AppendProperties DEF QueueType
  <2>4. QueueType'
    BY <2>1, <2>3 DEF QueueType, bufferVars, mainVars
  <2>5. StateType' /\ OldCounted'
    BY <2>1, <2>2 DEF StateType, OldCounted, bufferVars, mainVars
  <2>6. bpc \notin {"fork", "flush", "exit", "exited", "wait"}
    BY <2>1 DEF ChildKnown, WaitedForDies, Live
  <2>7. ChildKnown'
    BY <2>1, <2>6 DEF ChildKnown, WaitedForDies, bufferVars
  <2> QED  BY <2>4, <2>5, <2>7
<1>3. CASE StreamerEnds
  <2>1. QueueType'
    BY <1>3 DEF StreamerEnds, QueueType, mainVars
  <2>2. StateType' /\ OldCounted'
    BY <1>3 DEF StreamerEnds, StateType, OldCounted, mainVars
  <2>3. ChildKnown'
    BY <1>3 DEF StreamerEnds, StateType, ChildKnown, WaitedForDies, Live
  <2> QED  BY <2>1, <2>2, <2>3
<1>4. CASE OldStreamerKilled
  <2>1. /\ old > 0 /\ InterruptBuffer(old - 1) /\ SigChld
        /\ UNCHANGED <<timeout, gen, sent, fifo, tret, mainVars, inq, outq, signals>>
    BY <1>4 DEF OldStreamerKilled
  <2>2. old - 1 \in Nat
    BY <2>1 DEF StateType
  <2>3. Interrupted(old - 1)
    BY <2>1, <2>2, InterruptCtl
  <2>4. old' \in 0..MaxSignals+1 /\ OldCounted'
    <3>1. old' \in {old - 1, old} /\ UNCHANGED <<mpc, signals>>
      BY <2>1, <2>2, <2>3 DEF Interrupted, StateType, mainVars
    <3> QED  BY <2>1, <3>1 DEF StateType, OldCounted
  <2>5. StateType'
    <3>1. bchld' \in BOOLEAN
      BY <2>1
    <3> QED  BY <2>1, <2>2, <2>3, <2>4, <3>1, InterruptedState DEF StateType, mainVars
  <2>6. QueueType'
    BY <2>1 DEF QueueType, mainVars
  <2> QED  BY <2>3, <2>4, <2>5, <2>6 DEF Interrupted
<1> QED  BY <1>1, <1>2, <1>3, <1>4 DEF Streamer, StreamerKilled, StreamerQuits

(* FIFO -> fd_out, and the last such transfer. *)
LEMMA FifoToPipe ==
  ASSUME QueueType, NEW n \in 0..Len(fifo), n <= PipeCap - Len(outq)
  PROVE  /\ outq \o First(fifo, n) \in Seq(Items) /\ Len(outq \o First(fifo, n)) <= PipeCap
         /\ Rest(fifo, n) \in Seq(Items) /\ Len(Rest(fifo, n)) <= FifoCap
<1>1. PipeCap - Len(outq) \in Nat /\ Len(outq) \in Nat /\ Len(fifo) \in Nat
  BY BoundsType DEF QueueType
<1>2. outq \in Seq(Items) /\ fifo \in Seq(Items) /\ Len(fifo) <= FifoCap
  BY DEF QueueType
<1>3. /\ outq \o First(fifo, n) \in Seq(Items)
      /\ Len(outq \o First(fifo, n)) <= Len(outq) + (PipeCap - Len(outq))
      /\ Rest(fifo, n) \in Seq(Items) /\ Len(Rest(fifo, n)) <= Len(fifo)
  BY <1>1, <1>2, Moved
<1>4. Len(Rest(fifo, n)) \in Nat /\ Len(outq \o First(fifo, n)) \in Nat
  BY <1>3
<1> QED  BY <1>1, <1>2, <1>3, <1>4, BoundsType

LEMMA PipeToFifo ==
  ASSUME QueueType, NEW n \in 0..Len(inq), n <= FifoCap - Len(fifo)
  PROVE  /\ fifo \o First(inq, n) \in Seq(Items) /\ Len(fifo \o First(inq, n)) <= FifoCap
         /\ Rest(inq, n) \in Seq(Items) /\ Len(Rest(inq, n)) <= PipeCap
<1>1. FifoCap - Len(fifo) \in Nat /\ Len(fifo) \in Nat /\ Len(inq) \in Nat
  BY BoundsType DEF QueueType
<1>2. inq \in Seq(Items) /\ fifo \in Seq(Items) /\ Len(inq) <= PipeCap
  BY DEF QueueType
<1>3. /\ fifo \o First(inq, n) \in Seq(Items)
      /\ Len(fifo \o First(inq, n)) <= Len(fifo) + (FifoCap - Len(fifo))
      /\ Rest(inq, n) \in Seq(Items) /\ Len(Rest(inq, n)) <= Len(inq)
  BY <1>1, <1>2, Moved
<1>4. Len(Rest(inq, n)) \in Nat /\ Len(fifo \o First(inq, n)) \in Nat
  BY <1>3
<1> QED  BY <1>1, <1>2, <1>3, <1>4, BoundsType

(* What FifoOut and Flush do to the queues, if anything. *)
LEMMA OutMoves ==
  ASSUME QueueType, FifoOut \/ Flush
  PROVE  \/ UNCHANGED <<fifo, outq>>
         \/ \E n \in 0..Len(fifo) : /\ n <= PipeCap - Len(outq)
                                    /\ outq' = outq \o First(fifo, n) /\ fifo' = Rest(fifo, n)
<1>1. PipeCap - Len(outq) \in Nat /\ fifo \in Seq(Items)
  BY BoundsType DEF QueueType
<1>2. CASE FifoOut
  <2>1. \/ UNCHANGED <<fifo, outq>>
        \/ \E n \in Transfers(fifo, PipeCap - Len(outq)) :
             outq' = outq \o First(fifo, n) /\ fifo' = Rest(fifo, n)
    BY <1>2 DEF FifoOut
  <2> QED  BY <1>1, <2>1, TransferSize
<1>3. CASE Flush
  <2>1. \/ UNCHANGED <<fifo, outq>>
        \/ \E n \in Portion(fifo, PipeCap - Len(outq)) :
             outq' = outq \o First(fifo, n) /\ fifo' = Rest(fifo, n)
    BY <1>3 DEF Flush
  <2>2. Portion(fifo, PipeCap - Len(outq)) \subseteq Transfers(fifo, PipeCap - Len(outq))
    BY DEF Transfers
  <2> QED  BY <1>1, <2>1, <2>2, TransferSize
<1> QED  BY <1>2, <1>3

LEMMA InMoves ==
  ASSUME QueueType, FifoIn
  PROVE  \/ UNCHANGED <<fifo, inq>>
         \/ \E n \in 0..Len(inq) : /\ n <= FifoCap - Len(fifo)
                                   /\ fifo' = fifo \o First(inq, n) /\ inq' = Rest(inq, n)
<1>1. FifoCap - Len(fifo) \in Nat /\ inq \in Seq(Items)
  BY BoundsType DEF QueueType
<1>2. \/ UNCHANGED <<fifo, inq>>
      \/ \E n \in Transfers(inq, FifoCap - Len(fifo)) :
           fifo' = fifo \o First(inq, n) /\ inq' = Rest(inq, n)
  BY DEF FifoIn
<1> QED  BY <1>1, <1>2, TransferSize

LEMMA BufferCtl ==
  ASSUME QueueType, Ctl, Buffer \/ PollFails
  PROVE  QueueType' /\ Ctl'
<1> USE BoundsType DEF Ctl, Terminated
<1>1. CASE Fork
  <2>1. QueueType'
    BY <1>1 DEF Fork, QueueType, mainVars
  <2>2. StateType'
    <3>1. gen' \in 0..MaxGen+1 /\ sent' \in 0..MaxPerGen
      BY <1>1 DEF Fork, StateType
    <3>2. /\ child' \in {"starting", child} /\ term' \in {term, FALSE} /\ bpc' \in {"poll", "flush"}
          /\ rev' \in {rev, Junk} /\ UNCHANGED <<timeout, old, tret, bchld, mainVars, signals>>
      BY <1>1 DEF Fork
    <3>3. term' \in BOOLEAN
      BY <3>2 DEF StateType
    <3>4. rev' = Junk \/ rev' \in [Flags -> BOOLEAN]
      BY <3>2 DEF StateType
    <3> QED  BY <3>1, <3>2, <3>3, <3>4 DEF StateType, mainVars
  <2>3. OldCounted'
    BY <1>1 DEF Fork, OldCounted, mainVars
  <2>4. ChildKnown'
    BY <1>1 DEF Fork, StateType, ChildKnown, WaitedForDies
  <2> QED  BY <2>1, <2>2, <2>3, <2>4
<1>2. CASE Poll
  <2>1. QueueType'
    BY <1>2 DEF Poll, QueueType, mainVars
  <2>2. StateType' /\ OldCounted'
    BY <1>2, ReventsType DEF Poll, StateType, OldCounted, mainVars, streamerVars
  <2>3. ChildKnown'
    BY <1>2 DEF Poll, ChildKnown, WaitedForDies, streamerVars
  <2> QED  BY <2>1, <2>2, <2>3
<1>3. CASE PollTimeout \/ PollFails
  <2>1. /\ bpc = "poll" /\ bpc' = "destroy" /\ tret' \in {1, 2, 6} /\ bchld' \in {bchld, FALSE}
        /\ UNCHANGED <<streamerVars, fifo, rev, mainVars, inq, outq, signals>>
    BY <1>3 DEF PollTimeout, PollFails, Leave
  <2>2. QueueType'
    BY <2>1 DEF QueueType, mainVars
  <2>3. StateType' /\ OldCounted'
    <3>1. bchld' \in BOOLEAN
      BY <2>1 DEF StateType
    <3> QED  BY <2>1, <3>1 DEF StateType, OldCounted, mainVars, streamerVars
  <2>4. ChildKnown'
    BY <2>1 DEF ChildKnown, WaitedForDies, streamerVars
  <2> QED  BY <2>2, <2>3, <2>4
<1>4. CASE FifoOut
  <2>1. /\ outq' \in Seq(Items) /\ Len(outq') <= PipeCap
        /\ fifo' \in Seq(Items) /\ Len(fifo') <= FifoCap
    BY <1>4, OutMoves, FifoToPipe DEF QueueType
  <2>2. /\ bpc = "out" /\ bpc' \in {"in", "destroy"}
        /\ tret' \in {tret, 4, -5}
        /\ UNCHANGED <<streamerVars, rev, bchld, mainVars, inq, signals>>
    BY <1>4 DEF FifoOut, Leave
  <2>3. QueueType'
    BY <2>1, <2>2 DEF QueueType, mainVars
  <2>4. StateType' /\ OldCounted'
    BY <2>2 DEF StateType, OldCounted, mainVars, streamerVars
  <2>5. ChildKnown'
    BY <2>2 DEF ChildKnown, WaitedForDies, streamerVars
  <2> QED  BY <2>3, <2>4, <2>5
<1>5. CASE FifoIn
  <2>1. /\ inq' \in Seq(Items) /\ Len(inq') <= PipeCap
        /\ fifo' \in Seq(Items) /\ Len(fifo') <= FifoCap
    BY <1>5, InMoves, PipeToFifo DEF QueueType
  <2>2. /\ bpc = "in" /\ bpc' \in {"poll", "destroy"}
        /\ tret' \in {tret, 10}
        /\ UNCHANGED <<streamerVars, rev, bchld, mainVars, outq, signals>>
    BY <1>5 DEF FifoIn, Leave
  <2>3. QueueType'
    BY <2>1, <2>2 DEF QueueType, mainVars
  <2>4. StateType' /\ OldCounted'
    BY <2>2 DEF StateType, OldCounted, mainVars, streamerVars
  <2>5. ChildKnown'
    BY <2>2 DEF ChildKnown, WaitedForDies, streamerVars
  <2> QED  BY <2>3, <2>4, <2>5
<1>6. CASE Destroy
  <2>1. QueueType'
    BY <1>6 DEF Destroy, QueueType, mainVars
  <2>2. StateType' /\ OldCounted'
    BY <1>6 DEF Destroy, StateType, OldCounted, mainVars, Live
  <2>3. ChildKnown'
    BY <1>6 DEF Destroy, StateType, ChildKnown, WaitedForDies, Live
  <2> QED  BY <2>1, <2>2, <2>3
<1>7. CASE Reap
  <2>1. QueueType'
    BY <1>7 DEF Reap, QueueType, mainVars
  <2>2. StateType' /\ OldCounted'
    <3>1. AfterWait \in {"flush", "fork"}
      BY DEF AfterWait
    <3>2. StateType'
      <4>1. child' \in {"none", "starting", "running", "zombie"} /\ term' \in BOOLEAN
            /\ bpc' \in {"fork", "poll", "out", "in", "destroy", "wait", "flush", "exit", "exited"}
        BY <1>7, <3>1 DEF Reap
      <4>2. UNCHANGED <<timeout, old, gen, sent, rev, tret, bchld, mpc, ident, mterm, mchld, signals>>
        BY <1>7 DEF Reap, mainVars
      <4>3. /\ timeout' \in BOOLEAN /\ old' \in 0..MaxSignals+1 /\ gen' \in 0..MaxGen+1
            /\ sent' \in 0..MaxPerGen /\ (rev' = Junk \/ rev' \in [Flags -> BOOLEAN])
        BY <4>2, Zenon DEF StateType
      <4>4. /\ tret' \in {0, 1, 2, 4, -5, 6, 10} /\ bchld' \in BOOLEAN
            /\ mpc' \in {"poll", "read", "work", "stop", "kill", "wait", "done"}
        BY <4>2, Zenon DEF StateType
      <4>5. ident' \in BOOLEAN /\ mterm' \in BOOLEAN /\ mchld' \in BOOLEAN /\ signals' \in 0..MaxSignals
        BY <4>2, Zenon DEF StateType
      <4> QED  BY ONLY <4>1, <4>3, <4>4, <4>5, Zenon DEF StateType
    <3>3. OldCounted'
      BY <1>7 DEF Reap, OldCounted, mainVars
    <3> QED  BY <3>2, <3>3
  <2>3. ChildKnown'
    BY <1>7 DEF Reap, AfterWait, ChildKnown, WaitedForDies
  <2> QED  BY <2>1, <2>2, <2>3
<1>8. CASE Flush
  <2>1. /\ outq' \in Seq(Items) /\ Len(outq') <= PipeCap
        /\ fifo' \in Seq(Items) /\ Len(fifo') <= FifoCap
    BY <1>8, OutMoves, FifoToPipe DEF QueueType
  <2>2. /\ bpc = "flush" /\ bpc' \in {"flush", "exit"}
        /\ UNCHANGED <<streamerVars, rev, tret, bchld, mainVars, inq, signals>>
    BY <1>8 DEF Flush
  <2>3. QueueType'
    BY <2>1, <2>2 DEF QueueType, mainVars
  <2>4. StateType' /\ OldCounted'
    BY <2>2 DEF StateType, OldCounted, mainVars, streamerVars
  <2>5. ChildKnown'
    BY <2>2 DEF ChildKnown, WaitedForDies, streamerVars
  <2> QED  BY <2>3, <2>4, <2>5
<1>9. CASE BufferExit
  <2>1. QueueType'
    BY <1>9 DEF BufferExit, QueueType
  <2>2. StateType' /\ OldCounted'
    BY <1>9 DEF BufferExit, StateType, OldCounted, streamerVars
  <2>3. ChildKnown'
    BY <1>9 DEF BufferExit, ChildKnown, WaitedForDies, streamerVars
  <2> QED  BY <2>1, <2>2, <2>3
<1> QED
  BY <1>1, <1>2, <1>3, <1>4, <1>5, <1>6, <1>7, <1>8, <1>9 DEF Buffer

LEMMA MainCtl ==
  ASSUME QueueType, Ctl, Main \/ MainFails
  PROVE  QueueType' /\ Ctl'
<1> USE BoundsType DEF Ctl
<1>1. CASE MainPoll \/ MainWork \/ MainFails \/ MainClose \/ MainReap
  <2>1. /\ mpc' \in {"poll", "read", "work", "stop", "kill", "wait", "done"} /\ ident' \in BOOLEAN
        /\ Terminated => Terminated'
        /\ UNCHANGED <<streamerVars, bufferVars, got, mterm, mchld, inq, outq, signals>>
    BY <1>1 DEF MainPoll, MainWork, MainFails, MainClose, MainReap, Terminated, Ctl, StateType
  <2>2. QueueType'
    BY <2>1 DEF QueueType, bufferVars
  <2>3. StateType'
    BY <2>1 DEF StateType, streamerVars, bufferVars
  <2>4. OldCounted'
    BY <2>1 DEF OldCounted, StateType, streamerVars
  <2>5. ChildKnown'
    BY <2>1 DEF ChildKnown, WaitedForDies, Live, streamerVars, bufferVars
  <2> QED  BY <2>2, <2>3, <2>4, <2>5
<1>2. CASE MainRead
  <2>1. QueueType'
    <3>1. got' = got \o outq /\ outq' = <<>> /\ UNCHANGED <<bufferVars, inq>>
      BY <1>2 DEF MainRead
    <3>2. got' \in Seq(Items) /\ outq' \in Seq(Items) /\ Len(outq') <= PipeCap
      BY <3>1, ConcatProperties DEF QueueType
    <3> QED  BY <3>1, <3>2 DEF QueueType, bufferVars
  <2>2. /\ mpc = "read" /\ mpc' = "work"
        /\ UNCHANGED <<streamerVars, bufferVars, ident, mterm, mchld, inq, signals>>
    BY <1>2 DEF MainRead
  <2>3. StateType' /\ OldCounted'
    BY <2>2 DEF StateType, OldCounted, Terminated, streamerVars, bufferVars
  <2>4. ChildKnown'
    BY <2>2 DEF ChildKnown, WaitedForDies, Live, streamerVars, bufferVars
  <2> QED  BY <2>1, <2>3, <2>4
<1>3. CASE MainKill
  <2>1. /\ mpc = "kill" /\ mpc' = "wait" /\ InterruptBuffer(old) /\ old \in Nat
        /\ UNCHANGED <<timeout, gen, sent, fifo, tret, bchld, ident, got, mterm, mchld, inq, outq, signals>>
    BY <1>3 DEF MainKill, StateType
  <2>2. Interrupted(old)
    BY <2>1, InterruptCtl
  <2>3. old' \in 0..MaxSignals+1 /\ OldCounted'
    BY <2>1, <2>2 DEF OldCounted, Terminated, StateType, Interrupted
  <2>4. StateType'
    BY <2>1, <2>2, <2>3, InterruptedState DEF StateType
  <2>5. QueueType'
    BY <2>1 DEF QueueType
  <2> QED  BY <2>2, <2>3, <2>4, <2>5 DEF Interrupted
<1> QED  BY <1>1, <1>2, <1>3 DEF Main

(* A signal from outside counts for the streamer that it leaves behind. *)
LEMMA SignalCtl ==
  ASSUME QueueType, Ctl, Terminate \/ Hangup
  PROVE  QueueType' /\ Ctl'
<1> USE BoundsType DEF Ctl
<1>1. /\ signals' = signals + 1 /\ signals' \in 0..MaxSignals /\ mterm' = TRUE
      /\ mpc' \in {"poll", "read", "work", "stop", "kill", "wait", "done"} /\ (Terminated => Terminated')
  <2>1. SignalMain
    BY DEF Terminate, Hangup
  <2>2. signals' = signals + 1 /\ signals < MaxSignals /\ mterm' = TRUE
    BY <2>1 DEF SignalMain
  <2>3. (mpc' = mpc \/ mpc' = "done") \/ (mpc' = "stop" /\ mpc = "read")
    BY <2>1 DEF SignalMain
  <2>4. mpc \in {"poll", "read", "work", "stop", "kill", "wait", "done"} /\ signals \in 0..MaxSignals
    BY DEF StateType
  <2>5. signals' \in 0..MaxSignals
    BY <2>2, <2>4
  <2>6. mpc' \in {"poll", "read", "work", "stop", "kill", "wait", "done"} /\ (Terminated => Terminated')
    BY <2>3, <2>4 DEF Terminated
  <2> QED  BY <2>2, <2>5, <2>6
<1>2. CASE Terminate
  <2>1. UNCHANGED <<streamerVars, bufferVars, ident, got, mchld, inq, outq>>
    BY <1>2 DEF Terminate
  <2>2. QueueType'
    BY <2>1 DEF QueueType, bufferVars
  <2>3. StateType'
    BY <1>1, <2>1 DEF StateType, streamerVars, bufferVars
  <2>4. OldCounted'
    BY <1>1, <2>1 DEF OldCounted, StateType, streamerVars
  <2>5. ChildKnown'
    BY <2>1 DEF ChildKnown, WaitedForDies, Live, streamerVars, bufferVars
  <2> QED  BY <2>2, <2>3, <2>4, <2>5
<1>3. CASE Hangup
  <2>1. UNCHANGED <<timeout, gen, sent, fifo, tret, bchld, ident, got, mchld, inq, outq>>
    BY <1>3 DEF Hangup
  <2>2. Interrupted(old) /\ old \in Nat
    <3>0. old \in Nat
      BY DEF StateType
    <3>1. CASE ~(Live /\ ~term)
      BY <1>3, <2>1, <3>0, <3>1, InterruptCtl DEF Hangup
    <3>2. CASE Live /\ ~term
      <4>1. /\ term' = TRUE /\ UNCHANGED <<child, old>>
            /\ PollInterrupted \/ UNCHANGED <<bpc, rev>>
        BY <1>3, <3>2 DEF Hangup
      <4>2. CASE PollInterrupted
        BY <2>1, <4>1, <4>2, InterruptedType DEF Interrupted, StateType, ChildKnown, WaitedForDies
      <4>3. CASE UNCHANGED <<bpc, rev>>
        BY <2>1, <4>1, <4>3 DEF Interrupted, StateType, ChildKnown, WaitedForDies, Live
      <4> QED  BY <4>1, <4>2, <4>3
    <3> QED  BY <3>0, <3>1, <3>2
  <2>3. old' \in 0..MaxSignals+1 /\ OldCounted'
    BY <1>1, <2>2 DEF OldCounted, StateType, Interrupted
  <2>4. StateType'
    <3>1. bchld' \in BOOLEAN
      BY <2>1 DEF StateType
    <3> QED  BY <1>1, <2>1, <2>2, <2>3, <3>1, InterruptedState DEF Ctl
  <2>5. QueueType'
    BY <2>1 DEF QueueType
  <2> QED  BY <2>2, <2>3, <2>4, <2>5 DEF Interrupted
<1> QED  BY <1>2, <1>3

LEMMA NextCtl == QueueType /\ Ctl /\ [Next]_vars => QueueType' /\ Ctl'
<1> SUFFICES ASSUME QueueType, Ctl, [Next]_vars PROVE QueueType' /\ Ctl'
  OBVIOUS
<1>1. CASE UNCHANGED vars
  <2>1. QueueType'
    BY <1>1 DEF vars, bufferVars, mainVars, QueueType
  <2>2. StateType'
    BY <1>1 DEF vars, streamerVars, bufferVars, mainVars, Ctl, StateType
  <2>3. ChildKnown' /\ OldCounted'
    BY <1>1 DEF vars, streamerVars, bufferVars, mainVars, Ctl, ChildKnown, WaitedForDies, Live,
                OldCounted, Terminated
  <2> QED  BY <2>1, <2>2, <2>3 DEF Ctl
<1> QED
  BY <1>1, StreamerCtl, BufferCtl, MainCtl, SignalCtl DEF Next

LEMMA SpecCtl == Spec => [](QueueType /\ Ctl)
BY InitCtl, NextCtl, PTL DEF Spec

-----------------------------------------------------------------------------
(***************************************************************************)
(* The order of the data.                                                  *)
(***************************************************************************)

(* Everything on its way from the DVR to the output file, oldest first. *)
All == got \o outq \o fifo \o inq

Sorted(s) ==
  /\ s # <<>> => s[1][2] = 1
  /\ \A i \in 2..Len(s) : Follows(s[i - 1], s[i])

Writable == Live /\ ~term

(* Streamer g, who wrote k items, continues s where it stopped or, as long *)
(* as it wrote nothing, comes after everything in s.                       *)
ContinuedBy(s, g, k) ==
  \/ k = 0 /\ \A i \in 1..Len(s) : s[i][1] < g
  \/ s # <<>> /\ s[Len(s)] = <<g, k>>

(* The data is in order, from streamers up to the last, and that one, if   *)
(* it may still write, goes on where it stopped.                           *)
Order ==
  /\ Sorted(All)
  /\ \A i \in 1..Len(All) : All[i][1] <= gen
  /\ Writable => ContinuedBy(All, gen, sent)

IInv == QueueType /\ Ctl /\ Order

LEMMA SortedAll == OnlySessionsLoseTails <=> Sorted(All)
BY DEF OnlySessionsLoseTails, Sorted, All

LEMMA AllType ==
  ASSUME QueueType
  PROVE  All \in Seq(Items) /\ got \o outq \in Seq(Items) /\ got \o outq \o fifo \in Seq(Items)
BY ConcatProperties DEF QueueType, All

(* FIFO -> fd_out and fd_in -> FIFO pass on what they take. *)
LEMMA OutKeepsAll ==
  ASSUME QueueType, FifoOut \/ Flush
  PROVE  All' = All
<1>1. UNCHANGED <<got, inq>>
  BY DEF FifoOut, Flush, mainVars
<1>2. CASE UNCHANGED <<fifo, outq>>
  BY <1>1, <1>2 DEF All
<1>3. ASSUME NEW n \in 0..Len(fifo), outq' = outq \o First(fifo, n), fifo' = Rest(fifo, n)
      PROVE  All' = All
  <2> DEFINE f == First(fifo, n)
             r == Rest(fifo, n)
  <2>1. f \in Seq(Items) /\ r \in Seq(Items) /\ f \o r = fifo
    BY Cut DEF QueueType
  <2>2. got \in Seq(Items) /\ outq \in Seq(Items)
    BY DEF QueueType
  <2> HIDE DEF f, r
  <2>3. got \o outq \in Seq(Items) /\ outq \o f \in Seq(Items)
    BY <2>1, <2>2, ConcatProperties
  <2>4. (got \o (outq \o f)) \o r = ((got \o outq) \o f) \o r
    BY <2>1, <2>2, ConcatAssociative, SMTT(60)
  <2>5. ((got \o outq) \o f) \o r = (got \o outq) \o (f \o r)
    <3> DEFINE done == got \o outq
    <3>1. done \in Seq(Items)
      BY <2>3
    <3> HIDE DEF done
    <3>2. f \in Seq(Items) /\ r \in Seq(Items)
      BY <2>1
    <3>3. (done \o f) \o r = done \o (f \o r)
      BY <3>1, <3>2, ConcatAssociative, SMTT(60)
    <3> QED  BY <3>3 DEF done
  <2> QED  BY <1>1, <1>3, <2>1, <2>4, <2>5 DEF All, f, r
<1> QED  BY <1>2, <1>3, OutMoves

LEMMA ItemsConcat ==
  ASSUME NEW s \in Seq(Items), NEW t \in Seq(Items), NEW u \in Seq(Items)
  PROVE  (s \o t) \o u = s \o (t \o u)
BY ConcatAssociative, SMTT(60)

LEMMA InKeepsAll ==
  ASSUME QueueType, FifoIn
  PROVE  All' = All
<1>1. UNCHANGED <<got, outq>>
  BY DEF FifoIn, mainVars
<1>2. CASE UNCHANGED <<fifo, inq>>
  BY <1>1, <1>2 DEF All
<1>3. ASSUME NEW n \in 0..Len(inq), fifo' = fifo \o First(inq, n), inq' = Rest(inq, n)
      PROVE  All' = All
  <2> DEFINE f == First(inq, n)
             r == Rest(inq, n)
             done == got \o outq
  <2>1. f \in Seq(Items) /\ r \in Seq(Items) /\ f \o r = inq
    BY Cut DEF QueueType
  <2>2. done \in Seq(Items) /\ fifo \in Seq(Items) /\ done \o fifo \in Seq(Items)
    BY AllType DEF QueueType
  <2> HIDE DEF f, r, done
  <2>3. (done \o (fifo \o f)) \o r = ((done \o fifo) \o f) \o r
    <3>1. (done \o fifo) \o f = done \o (fifo \o f)
      <4>1. done \in Seq(Items) /\ fifo \in Seq(Items) /\ f \in Seq(Items)
        BY <2>1, <2>2
      <4> QED  BY ONLY <4>1, ConcatAssociative, SMTT(60)
    <3> QED  BY <3>1, Zenon
  <2>4. ((done \o fifo) \o f) \o r = (done \o fifo) \o (f \o r)
    <3> DEFINE before == done \o fifo
    <3>1. before \in Seq(Items)
      BY <2>2
    <3> HIDE DEF before
    <3>2. f \in Seq(Items) /\ r \in Seq(Items)
      BY <2>1
    <3>3. (before \o f) \o r = before \o (f \o r)
      BY <3>1, <3>2, ConcatAssociative, SMTT(60)
    <3> QED  BY <3>3 DEF before
  <2> QED  BY <1>1, <1>3, <2>1, <2>3, <2>4 DEF All, f, r, done
<1> QED  BY <1>2, <1>3, InMoves

LEMMA ReadKeepsAll ==
  ASSUME QueueType, MainRead
  PROVE  All' = All
<1>1. got' = got \o outq /\ outq' = <<>> /\ fifo' = fifo /\ inq' = inq
  BY DEF MainRead, bufferVars
<1>2. (got \o outq) \o <<>> = got \o outq
  BY AllType, ConcatEmptySeq
<1> QED  BY <1>1, <1>2 DEF All

(* What a streamer writes goes to the end. *)
LEMMA WriteAppends ==
  ASSUME QueueType, NEW x \in Items, inq' = Append(inq, x), UNCHANGED <<got, outq, fifo>>
  PROVE  All' = Append(All, x)
<1> DEFINE done == got \o outq \o fifo
<1>1. done \in Seq(Items) /\ inq \in Seq(Items) /\ All \in Seq(Items) /\ <<x>> \in Seq(Items)
  BY AllType DEF QueueType
<1>2. All' = done \o Append(inq, x) /\ All = done \o inq
  BY DEF All
<1> HIDE DEF done
<1>3. Append(inq, x) = inq \o <<x>> /\ Append(All, x) = All \o <<x>>
  BY <1>1, AppendIsConcat
<1>4. done \o (inq \o <<x>>) = (done \o inq) \o <<x>>
  BY <1>1, ConcatAssociative
<1> QED  BY <1>2, <1>3, <1>4

(* A step adds at most one item of the streamer that may write, loses at   *)
(* most what the given-up streamer left in the pipe, or replaces it.       *)
Keeps == All' = All /\ UNCHANGED <<gen, sent>> /\ (Writable' => Writable)
Adds ==
  /\ Writable /\ <<gen, sent + 1>> \in Items
  /\ All' = Append(All, <<gen, sent + 1>>) /\ gen' = gen /\ sent' = sent + 1
Drops == All' = got \o outq \o fifo /\ gen' = gen /\ ~Writable'
Replaces == All' = All /\ sent' = 0 /\ gen' = (IF gen <= MaxGen THEN gen + 1 ELSE gen)

LEMMA StepOnAll ==
  ASSUME QueueType, Ctl, [Next]_vars
  PROVE  Keeps \/ Adds \/ Drops \/ Replaces
<1>1. CASE Streamer
  <2>1. CASE StreamerReady
    BY <1>1, <2>1 DEF StreamerReady, mainVars, Keeps, All, Writable, Live
  <2>2. CASE StreamerWrite
    <3>1. <<gen, sent + 1>> \in Items
      BY <2>2, BoundsType DEF StreamerWrite, Ctl, StateType, ChildKnown, Items
    <3>2. All' = Append(All, <<gen, sent + 1>>)
      BY <2>2, <3>1, WriteAppends DEF StreamerWrite, bufferVars, mainVars
    <3> QED  BY <2>2, <3>1, <3>2 DEF StreamerWrite, Adds, Writable, Live
  <2>3. CASE StreamerEnds
    BY <2>3 DEF StreamerEnds, mainVars, Keeps, All, Writable, Live
  <2>4. CASE OldStreamerKilled
    <3>1. UNCHANGED <<fifo, got, inq, outq, gen, sent>>
      BY <2>4 DEF OldStreamerKilled, mainVars
    <3>2. Writable' => Writable
      BY <2>4 DEF OldStreamerKilled, InterruptBuffer, PollInterrupted, Writable, Live
    <3> QED  BY <3>1, <3>2 DEF Keeps, All
  <2> QED  BY <1>1, <2>1, <2>2, <2>3, <2>4 DEF Streamer, StreamerKilled, StreamerQuits
<1>2. CASE Buffer \/ PollFails
  <2>1. CASE Fork
    <3>1. All' = All
      BY <2>1 DEF Fork, mainVars, All
    <3>2. CASE UNCHANGED <<child, term, gen, sent>>
      BY <3>1, <3>2 DEF Keeps, Writable, Live
    <3>3. CASE sent' = 0 /\ gen' = (IF gen <= MaxGen THEN gen + 1 ELSE gen)
      BY <3>1, <3>3 DEF Replaces
    <3> QED  BY <2>1, <3>2, <3>3 DEF Fork
  <2>2. CASE Poll \/ PollTimeout \/ PollFails
    <3>1. UNCHANGED <<streamerVars, fifo, mainVars, inq, outq>>
      BY <2>2 DEF Poll, PollTimeout, PollFails
    <3> QED  BY <3>1 DEF streamerVars, mainVars, Keeps, All, Writable, Live
  <2>3. CASE FifoOut \/ Flush
    <3>1. UNCHANGED streamerVars
      BY <2>3 DEF FifoOut, Flush
    <3> QED  BY <2>3, <3>1, OutKeepsAll DEF streamerVars, Keeps, Writable, Live
  <2>4. CASE FifoIn
    <3>1. UNCHANGED streamerVars
      BY <2>4 DEF FifoIn
    <3> QED  BY <2>4, <3>1, InKeepsAll DEF streamerVars, Keeps, Writable, Live
  <2>5. CASE Destroy
    <3>1. /\ inq' = <<>> /\ term' = Live
          /\ UNCHANGED <<child, gen, fifo, got, outq>>
      BY <2>5 DEF Destroy, mainVars
    <3>2. (got \o outq \o fifo) \o <<>> = got \o outq \o fifo
      BY AllType, ConcatEmptySeq
    <3>3. ~Writable'
      BY <3>1, Zenon DEF Writable, Live
    <3> QED  BY <3>1, <3>2, <3>3 DEF Drops, All
  <2>6. CASE Reap
    BY <2>6 DEF Reap, mainVars, Keeps, All, Writable, Live
  <2>7. CASE BufferExit
    BY <2>7 DEF BufferExit, streamerVars, Keeps, All, Writable, Live
  <2> QED  BY <1>2, <2>1, <2>2, <2>3, <2>4, <2>5, <2>6, <2>7 DEF Buffer
<1>3. CASE MainRead
  <2>1. UNCHANGED streamerVars
    BY <1>3 DEF MainRead
  <2> QED  BY <1>3, <2>1, ReadKeepsAll DEF streamerVars, Keeps, Writable, Live
<1>4. CASE MainPoll \/ MainWork \/ MainFails \/ MainClose \/ MainReap \/ Terminate \/ UNCHANGED vars
  <2>1. UNCHANGED <<streamerVars, fifo, got, inq, outq>>
    BY <1>4 DEF MainPoll, MainWork, MainFails, MainClose, MainReap, Terminate, vars, bufferVars, mainVars
  <2> QED  BY <2>1 DEF streamerVars, Keeps, All, Writable, Live
<1>5. CASE MainKill \/ Hangup
  <2>1. UNCHANGED <<fifo, got, inq, outq, gen, sent>>
    BY <1>5 DEF MainKill, Hangup
  <2>2. Writable' => Writable
    BY <1>5 DEF MainKill, Hangup, InterruptBuffer, PollInterrupted, Writable, Live
  <2> QED  BY <2>1, <2>2 DEF Keeps, All
<1> QED  BY <1>1, <1>2, <1>3, <1>4, <1>5 DEF Next, Main

LEMMA SortedAppend ==
  ASSUME NEW s \in Seq(Items), NEW g \in Nat, NEW k \in Nat, <<g, k + 1>> \in Items,
         Sorted(s), ContinuedBy(s, g, k)
  PROVE  Sorted(Append(s, <<g, k + 1>>))
<1> DEFINE x == <<g, k + 1>>
           t == Append(s, x)
<1>1. /\ Len(s) \in Nat /\ Len(t) = Len(s) + 1 /\ t[Len(s) + 1] = x
      /\ \A i \in 1..Len(s) : t[i] = s[i]
  BY AppendProperties
<1>2. x[1] = g /\ x[2] = k + 1
  OBVIOUS
<1> HIDE DEF t, x
<1>3. t[1][2] = 1
  <2>1. CASE s = <<>>
    <3>1. k = 0
      BY <2>1 DEF ContinuedBy
    <3>2. Len(s) = 0
      BY <2>1
    <3> QED  BY <1>1, <1>2, <3>1, <3>2
  <2>2. CASE s # <<>>
    <3>1. Len(s) # 0 /\ s[1][2] = 1
      BY <2>2, EmptySeq DEF Sorted
    <3> QED  BY <1>1, <3>1
  <2> QED  BY <2>1, <2>2
<1>4. ASSUME NEW i \in 2..Len(t) PROVE Follows(t[i - 1], t[i])
  <2>1. CASE i <= Len(s)
    <3>1. i - 1 \in 1..Len(s) /\ i \in 1..Len(s) /\ i \in 2..Len(s)
      BY <1>1, <2>1
    <3> QED  BY <1>1, <3>1 DEF Sorted
  <2>2. CASE i = Len(s) + 1
    <3>1. i - 1 = Len(s) /\ Len(s) \in 1..Len(s) /\ t[i - 1] = s[Len(s)] /\ t[i] = x
      BY <1>1, <2>2
    <3>2. s[Len(s)] \in Items
      BY <3>1
    <3>3. CASE k = 0 /\ \A j \in 1..Len(s) : s[j][1] < g
      <4>1. s[Len(s)][1] < g
        BY <3>1, <3>3
      <4>2. s[Len(s)][1] \in Nat
        BY <3>2 DEF Items
      <4> QED  BY <1>2, <3>1, <3>3, <4>1, <4>2 DEF Follows
    <3>4. CASE s[Len(s)] = <<g, k>>
      BY <3>1, <3>4 DEF Follows, x
    <3> QED  BY <3>3, <3>4 DEF ContinuedBy
  <2> QED  BY <1>1, <2>1, <2>2
<1> QED  BY <1>3, <1>4 DEF Sorted, t, x

LEMMA SortedPrefix ==
  ASSUME NEW s \in Seq(Items), NEW t \in Seq(Items), Sorted(s \o t)
  PROVE  Sorted(s)
<1>1. /\ Len(s) \in Nat /\ Len(t) \in Nat /\ Len(s \o t) = Len(s) + Len(t)
      /\ \A i \in 1..Len(s) : (s \o t)[i] = s[i]
  BY ConcatProperties
<1>2. s # <<>> => s[1][2] = 1
  <2> SUFFICES ASSUME s # <<>> PROVE s[1][2] = 1
    OBVIOUS
  <2>1. Len(s) # 0
    BY EmptySeq
  <2>2. s \o t # <<>>
    BY <1>1, <2>1
  <2>3. 1 \in 1..Len(s) /\ (s \o t)[1] = s[1]
    BY <1>1, <2>1
  <2> QED  BY <2>2, <2>3 DEF Sorted
<1>3. ASSUME NEW i \in 2..Len(s) PROVE Follows(s[i - 1], s[i])
  <2>1. i \in 2..Len(s \o t) /\ i - 1 \in 1..Len(s) /\ i \in 1..Len(s)
    BY <1>1
  <2>2. (s \o t)[i - 1] = s[i - 1] /\ (s \o t)[i] = s[i]
    BY <1>1, <2>1
  <2> QED  BY <2>1, <2>2 DEF Sorted
<1> QED  BY <1>2, <1>3 DEF Sorted

LEMMA NextOrder ==
  ASSUME IInv, [Next]_vars
  PROVE  Order'
<1>1. QueueType /\ Ctl /\ Order /\ All \in Seq(Items) /\ gen \in Nat /\ sent \in Nat
  BY AllType DEF IInv, Ctl, StateType
<1>2. CASE Keeps
  BY <1>1, <1>2 DEF Keeps, Order
<1>3. CASE Adds
  <2> DEFINE x == <<gen, sent + 1>>
  <2>1. x \in Items /\ All' = Append(All, x) /\ gen' = gen /\ sent' = sent + 1
    BY <1>3 DEF Adds
  <2>2. Sorted(All')
    BY <1>1, <1>3, <2>1, SortedAppend DEF Adds, Order
  <2>3. /\ Len(All) \in Nat /\ Len(All') = Len(All) + 1 /\ All'[Len(All) + 1] = x
        /\ \A i \in 1..Len(All) : All'[i] = All[i]
    BY <1>1, <2>1, AppendProperties
  <2>4. x[1] = gen
    OBVIOUS
  <2> HIDE DEF x
  <2>5. \A i \in 1..Len(All') : All'[i][1] <= gen'
    <3> SUFFICES ASSUME NEW i \in 1..Len(All') PROVE All'[i][1] <= gen
      BY <2>1
    <3>1. CASE i = Len(All) + 1
      BY <1>1, <2>3, <2>4, <3>1
    <3>2. CASE i \in 1..Len(All)
      BY <1>1, <2>3, <3>2 DEF Order
    <3> QED  BY <2>3, <3>1, <3>2
  <2>6. ContinuedBy(All', gen', sent')
    <3>1. All' # <<>>
      BY <2>3
    <3> QED  BY <2>1, <2>3, <3>1 DEF ContinuedBy, x
  <2> QED  BY <2>2, <2>5, <2>6 DEF Order
<1>4. CASE Drops
  <2> DEFINE s == got \o outq \o fifo
  <2>1. s \in Seq(Items) /\ inq \in Seq(Items) /\ All = s \o inq
    BY <1>1, AllType DEF QueueType, All
  <2>2. All' = s /\ gen' = gen /\ ~Writable'
    BY <1>4 DEF Drops
  <2> HIDE DEF s
  <2>3. Sorted(s)
    BY <1>1, <2>1, SortedPrefix DEF Order
  <2>4. \A i \in 1..Len(s) : s[i][1] <= gen
    <3>1. Len(s) \in Nat /\ Len(All) = Len(s) + Len(inq) /\ Len(inq) \in Nat
          /\ \A i \in 1..Len(s) : All[i] = s[i]
      BY <2>1, ConcatProperties
    <3> QED  BY <1>1, <3>1 DEF Order
  <2> QED  BY <2>2, <2>3, <2>4 DEF Order
<1>5. CASE Replaces
  <2>1. gen' \in Nat /\ gen <= gen'
    BY <1>1, <1>5 DEF Replaces
  <2>2. ASSUME NEW i \in 1..Len(All) PROVE All[i][1] < gen' /\ All[i][1] <= gen'
    <3>1. All[i] \in Items /\ All[i][1] <= gen
      BY <1>1 DEF Order
    <3>2. All[i][1] \in 1..MaxGen
      BY <3>1 DEF Items
    <3> QED  BY <1>1, <1>5, <3>1, <3>2, BoundsType DEF Replaces
  <2> QED  BY <1>1, <1>5, <2>2 DEF Replaces, Order, ContinuedBy
<1> QED  BY <1>1, <1>2, <1>3, <1>4, <1>5, StepOnAll

LEMMA InitIInv == Init => IInv
<1> SUFFICES ASSUME Init PROVE IInv
  OBVIOUS
<1>1. All = <<>>
  BY DEF Init, All
<1>2. Order
  BY <1>1 DEF Init, Order, Sorted, Writable, Live
<1> QED  BY <1>2, InitCtl DEF IInv

LEMMA SpecIInv == Spec => []IInv
<1>1. IInv /\ [Next]_vars => IInv'
  BY NextCtl, NextOrder DEF IInv
<1> QED  BY <1>1, InitIInv, PTL DEF Spec

(* Every variable keeps a value of its type: no transfer overfills a pipe  *)
(* or the FIFO, and no more streamers are left behind at a time than       *)
(* termination signals came, though each of them may, as it dies, have the *)
(* waitpid() for the next one cut short.                                   *)
THEOREM TypeCorrect == Spec => []TypeOK
<1>1. IInv => TypeOK
  BY TypeParts DEF IInv, Ctl
<1> QED  BY <1>1, SpecIInv, PTL

(* The buffer process never waits for a streamer that would not die: the   *)
(* SIGTERM of mptools_destroy_pipedfork() finds its default action.        *)
THEOREM NeverWaitsInVain == Spec => []WaitedForDies
<1>1. IInv => WaitedForDies
  BY DEF IInv, Ctl, ChildKnown
<1> QED  BY <1>1, SpecIInv, PTL

(* Through two pipes, the FIFO, and any number of streamers that die, are  *)
(* killed or given up, data reaches the file in order, without doubles and *)
(* without gaps but at the end of a streamer's data.                       *)
THEOREM OnlyTailsAreLost == Spec => []OnlySessionsLoseTails
<1>1. IInv => OnlySessionsLoseTails
  BY SortedAll DEF IInv, Order
<1> QED  BY <1>1, SpecIInv, PTL
=============================================================================
