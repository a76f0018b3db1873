-------------------------- MODULE RawFramerProofs --------------------------
(***************************************************************************)
(* Proofs about RawFramer, for queues, reads and streams of any length.    *)
(* What they need of the queue is proved here once more, as FramerProofs   *)
(* has it under the assumption about DHAV streams.                         *)
(***************************************************************************)
EXTENDS RawFramer, SequenceTheorems, WellFoundedInduction, TLAPS

(* The inductive invariant.  Identification appends without packing, which *)
(* is safe only as it begins, and leaves, the cells in use at cell 0.      *)
IInv ==
  /\ TypeOK
  /\ HoldsTail
  /\ pc = "identify" => offs = 0

(* What new data the queue is asked to take. *)
Offered(n) == n \in Nat /\ got + n <= Len(input)

(* A read() returns no more than is left of the stream. *)
LEMMA ReadSizesOffered ==
  ASSUME TypeOK, NEW n \in ReadSizes
  PROVE  Offered(n)
<1>1. input \in Seq(Int) BY FrameQueueAssumption DEF TypeOK
<1>2. Len(input) \in Nat BY <1>1
<1> QED BY <1>2, FrameQueueAssumption DEF ReadSizes, Offered, TypeOK

(* Copying the next n of the stream behind l cells that hold what precedes *)
(* them keeps the cells in order.                                          *)
LEMMA CopiedHolds ==
  ASSUME TypeOK, NEW n, Offered(n),
         NEW cells \in [0..MaxLen-1 -> Int], NEW at \in Nat, at + len + n <= MaxLen,
         len <= got,
         \A i \in 0..len-1 : cells[at + i] = input[got - len + i + 1]
  PROVE  /\ Copied(cells, at + len, n) \in [0..MaxLen-1 -> Int]
         /\ \A i \in 0..len+n-1 :
              Copied(cells, at + len, n)[at + i] = input[got - len + i + 1]
<1>1. input \in Seq(Int) /\ len \in Nat /\ got \in Nat /\ MaxLen \in Nat
  BY FrameQueueAssumption DEF TypeOK
<1>2. n \in Nat /\ got + n <= Len(input) BY DEF Offered
<1>3. ASSUME NEW c \in 0..MaxLen-1, c \in at+len..at+len+n-1
      PROVE  input[got + c - (at + len) + 1] \in Int
  <2>1. got + c - (at + len) + 1 \in 1..Len(input) BY <1>1, <1>2, <1>3
  <2> QED BY <2>1, <1>1
<1>4. Copied(cells, at + len, n) \in [0..MaxLen-1 -> Int]
  BY <1>3 DEF Copied
<1>5. ASSUME NEW i \in 0..len+n-1
      PROVE  Copied(cells, at + len, n)[at + i] = input[got - len + i + 1]
  <2>1. at + i \in 0..MaxLen-1 BY <1>1, <1>2
  <2>2. CASE i < len
    <3>0. i \in 0..len-1 BY <1>1, <1>2, <2>2
    <3>1. at + i \notin at+len..at+len+n-1 BY <1>1, <1>2, <2>2
    <3>2. Copied(cells, at + len, n)[at + i] = cells[at + i]
      BY <2>1, <3>1 DEF Copied
    <3> QED BY <3>0, <3>2
  <2>3. CASE ~(i < len)
    <3>1. at + i \in at+len..at+len+n-1 BY <1>1, <1>2, <2>3
    <3>2. Copied(cells, at + len, n)[at + i] = input[got + (at + i) - (at + len) + 1]
      BY <2>1, <3>1 DEF Copied
    <3>3. got + (at + i) - (at + len) + 1 = got - len + i + 1 BY <1>1, <1>2
    <3> QED BY <3>2, <3>3
  <2> QED BY <2>2, <2>3
<1> QED BY <1>4, <1>5

(* Loading: whether or not the queue is packed first, the new data lies    *)
(* behind the old, in order, and within sq[].                              *)
LEMMA LoadedHolds ==
  ASSUME TypeOK, HoldsTail, pc # "failed", NEW n, Offered(n), n <= MaxLen - len
  PROVE  /\ LoadedOffs(n) \in Nat /\ LoadedOffs(n) + len + n <= MaxLen
         /\ Loaded(n) \in [0..MaxLen-1 -> Int]
         /\ \A i \in 0..len+n-1 :
              Loaded(n)[LoadedOffs(n) + i] = input[got - len + i + 1]
<1> DEFINE at == LoadedOffs(n)
           packed == [c \in 0..MaxLen-1 |->
                        IF at # offs /\ c < len THEN sq[offs + c] ELSE sq[c]]
<1>1. /\ len \in Nat /\ offs \in Nat /\ MaxLen \in Nat /\ offs + len <= MaxLen
      /\ n \in Nat /\ sq \in [0..MaxLen-1 -> Int]
  BY FrameQueueAssumption DEF TypeOK, Offered
<1>2. at \in Nat /\ at + len + n <= MaxLen BY <1>1 DEF LoadedOffs
<1>3. packed \in [0..MaxLen-1 -> Int]
  <2>1. ASSUME NEW c \in 0..MaxLen-1, c < len PROVE sq[offs + c] \in Int
    BY <1>1, <2>1
  <2> QED BY <2>1, <1>1
<1>4. ASSUME NEW i \in 0..len-1 PROVE packed[at + i] = input[got - len + i + 1]
  <2>1. sq[offs + i] = input[got - len + i + 1] BY DEF HoldsTail
  <2>2. at + i \in 0..MaxLen-1 BY <1>1, <1>2
  <2>3. CASE at = offs BY <2>1, <2>2, <2>3
  <2>4. CASE at # offs
    <3>1. at = 0 BY <2>4 DEF LoadedOffs
    <3> QED BY <2>1, <2>2, <2>4, <3>1, <1>1
  <2> QED BY <2>3, <2>4
<1>5. Loaded(n) = Copied(packed, at + len, n) BY DEF Loaded
<1>6. len <= got BY DEF HoldsTail
<1> HIDE DEF at, packed
<1>7. /\ Copied(packed, at + len, n) \in [0..MaxLen-1 -> Int]
      /\ \A i \in 0..len+n-1 :
           Copied(packed, at + len, n)[at + i] = input[got - len + i + 1]
  BY <1>2, <1>3, <1>4, <1>6, CopiedHolds
<1> QED BY <1>2, <1>5, <1>7 DEF at

(* The queue's contents after loading are a sequence. *)
LEMMA ContentsType ==
  ASSUME TypeOK, HoldsTail, pc # "failed", NEW n, Offered(n), n <= MaxLen - len
  PROVE  Contents(n) \in Seq(Int) /\ Len(Contents(n)) = len + n
<1>1. len \in Nat /\ n \in Nat /\ MaxLen \in Nat
  BY FrameQueueAssumption DEF TypeOK, Offered
<1>2. ASSUME NEW i \in 1..len+n PROVE Loaded(n)[LoadedOffs(n) + i - 1] \in Int
  <2>1. LoadedOffs(n) + i - 1 \in 0..MaxLen-1 BY LoadedHolds, <1>1
  <2> QED BY <2>1, LoadedHolds
<1>3. len + n \in Nat BY <1>1
<1>4. Contents(n) \in [1..len+n -> Int] BY <1>2 DEF Contents
<1> QED BY <1>3, <1>4, SeqDef, LenProperties

(* Whatever is dropped and delivered, as long as it is in the queue, the   *)
(* rest stays in order.                                                    *)
LEMMA SettleIInv ==
  ASSUME IInv, pc # "failed", NEW n, Offered(n), n <= MaxLen - len,
         NEW skip \in Nat, NEW size \in Nat, skip + size <= len + n,
         NEW r \in {-3, 0, 1, 3}, eof' \in BOOLEAN, input' = input,
         Settle(n, skip, size, r)
  PROVE  IInv'
<1>1. TypeOK /\ HoldsTail BY DEF IInv
<1>2. /\ len \in Nat /\ offs \in Nat /\ MaxLen \in Nat /\ got \in Nat /\ n \in Nat
      /\ input \in Streams /\ input \in Seq(Int) /\ got + n <= Len(input) /\ len <= got
      /\ frames \in Seq(Seq(Int))
  BY <1>1, FrameQueueAssumption DEF TypeOK, Offered, HoldsTail
<1>3. /\ LoadedOffs(n) \in Nat /\ LoadedOffs(n) + len + n <= MaxLen
      /\ Loaded(n) \in [0..MaxLen-1 -> Int]
      /\ \A i \in 0..len+n-1 :
           Loaded(n)[LoadedOffs(n) + i] = input[got - len + i + 1]
  BY <1>1, LoadedHolds
<1>4. Contents(n) \in Seq(Int) /\ Len(Contents(n)) = len + n
  BY <1>1, ContentsType
<1>5. /\ sq' = Loaded(n) /\ offs' = LoadedOffs(n) + skip + size
      /\ len' = len + n - skip - size /\ got' = got + n /\ ret' = r
      /\ pc' \in {"again", "failed", "end", "read"}
  BY DEF Settle, Left
<1>6. frames' \in Seq(Seq(Int))
  <2>1. SubSeq(Contents(n), skip + 1, skip + size) \in Seq(Int)
    <3> DEFINE q == Contents(n)
    <3>1. q \in Seq(Int) /\ Len(q) = len + n BY <1>4
    <3>2. skip + size \in Nat /\ skip + 1 \in Int /\ skip + size \in Int
      OBVIOUS
    <3> HIDE DEF q
    <3>3. ASSUME NEW i \in skip+1..skip+size PROVE q[i] \in Int
      <4>1. i \in 1..Len(q) BY <1>2, <3>1
      <4> QED BY <3>1, <4>1
    <3>4. SubSeq(q, skip + 1, skip + size) \in Seq(Int)
      BY ONLY <3>2, <3>3, SubSeqProperties
    <3> QED BY <3>4 DEF q
  <2>2. Append(frames, SubSeq(Contents(n), skip + 1, skip + size)) \in Seq(Seq(Int))
    BY <1>2, <2>1, AppendProperties
  <2> QED BY <1>2, <2>2 DEF Settle
<1>7. TypeOK'
  <2>1. got' \in 0..Len(input') BY <1>2, <1>5
  <2>2. offs' \in 0..MaxLen /\ len' \in 0..MaxLen /\ offs' + len' <= MaxLen
    BY <1>2, <1>3, <1>5, SMTT(60)
  <2> QED BY <1>2, <1>3, <1>5, <1>6, <2>1, <2>2 DEF TypeOK
<1>8. HoldsTail'
  <2>1. len' <= got' BY <1>2, <1>5
  <2>2. ASSUME NEW i \in 0..len'-1
        PROVE  sq'[offs' + i] = input'[got' - len' + i + 1]
    <3>0. i \in Int /\ LoadedOffs(n) \in Int BY <1>2, <1>3, <1>5
    <3>1. skip + size + i \in 0..len+n-1 BY <1>2, <1>5
    <3>2. sq'[LoadedOffs(n) + (skip + size + i)] = input[got - len + (skip + size + i) + 1]
      BY <1>3, <1>5, <3>1
    <3>3. /\ LoadedOffs(n) + (skip + size + i) = offs' + i
          /\ got - len + (skip + size + i) + 1 = got' - len' + i + 1
      BY <1>2, <1>5, <3>0, SMTT(60)
    <3> QED BY <3>2, <3>3
  <2> QED BY <2>1, <2>2 DEF HoldsTail
<1> QED BY <1>5, <1>7, <1>8 DEF IInv

LEMMA InitIInv == Init => IInv
<1> SUFFICES ASSUME Init PROVE IInv OBVIOUS
<1>1. input \in Seq(Int) /\ Len(input) \in Nat
  BY FrameQueueAssumption DEF Init
<1>2. TypeOK
  BY <1>1, FrameQueueAssumption DEF Init, TypeOK
<1>3. HoldsTail BY DEF Init, HoldsTail
<1> QED BY <1>2, <1>3 DEF IInv, Init

(* Appending in the identification loop, which leaves room for a read.     *)
LEMMA IdentifyIInv ==
  ASSUME IInv, Identify
  PROVE  IInv'
<1>1. TypeOK /\ HoldsTail /\ offs = 0 /\ pc = "identify"
  BY DEF IInv, Identify, IdentifyFull, IdentifyMore
<1>2. /\ len \in Nat /\ MaxLen \in Nat /\ MaxRead \in Nat /\ got \in Nat
      /\ len <= got /\ sq \in [0..MaxLen-1 -> Int] /\ input \in Seq(Int)
      /\ \A i \in 0..len-1 : sq[offs + i] = input[got - len + i + 1]
  BY <1>1, FrameQueueAssumption DEF TypeOK, HoldsTail
<1>3. input' = input /\ offs' = offs /\ pc' \in {"read", "identify"}
      /\ UNCHANGED <<frames, ret, eof>>
  BY DEF Identify, IdentifyFull, IdentifyMore
<1>4. CASE IdentifyFull
  <2>1. UNCHANGED <<got, sq, len>> BY <1>4 DEF IdentifyFull
  <2>2. TypeOK' BY <2>1, <1>1, <1>3 DEF TypeOK
  <2>3. HoldsTail' BY <2>1, <1>1, <1>2, <1>3 DEF HoldsTail
  <2> QED BY <2>2, <2>3, <1>1, <1>3 DEF IInv
<1>5. CASE \E n \in ReadSizes : IdentifyMore(n, IdentifyRaw(Appended(n)))
  <2>1. PICK n \in ReadSizes :
          /\ sq' = Copied(sq, offs + len, n) /\ len' = len + n /\ got' = got + n
          /\ MaxLen - len >= 2 * MaxRead
    BY <1>5 DEF IdentifyMore
  <2>2. Offered(n) BY <1>1, ReadSizesOffered
  <2>3. n \in Nat /\ n <= MaxRead /\ got + n <= Len(input) /\ Len(input) \in Nat
    <3>1. n \in Nat /\ got + n <= Len(input) BY <2>2 DEF Offered
    <3>2. n <= MaxRead BY <1>2 DEF ReadSizes
    <3> QED BY <1>2, <3>1, <3>2
  <2>4. offs + len + n <= MaxLen BY <1>1, <1>2, <2>1, <2>3
  <2>5. /\ sq' \in [0..MaxLen-1 -> Int]
        /\ \A i \in 0..len+n-1 : sq'[offs + i] = input[got - len + i + 1]
    <3>1. TypeOK /\ offs \in Nat BY <1>1
    <3>2. /\ sq \in [0..MaxLen-1 -> Int] /\ len <= got
          /\ \A i \in 0..len-1 : sq[offs + i] = input[got - len + i + 1]
      BY <1>2
    <3>3. /\ Copied(sq, offs + len, n) \in [0..MaxLen-1 -> Int]
          /\ \A i \in 0..len+n-1 :
               Copied(sq, offs + len, n)[offs + i] = input[got - len + i + 1]
      BY <2>2, <2>4, <3>1, <3>2, CopiedHolds
    <3> QED BY <2>1, <3>3
  <2>6. got' \in 0..Len(input) /\ len' \in 0..MaxLen /\ offs' + len' <= MaxLen
    BY <1>1, <1>2, <1>3, <2>1, <2>3, <2>4
  <2>7. TypeOK' BY <1>1, <1>3, <2>5, <2>6 DEF TypeOK
  <2>8. HoldsTail'
    <3>1. len' <= got' BY <1>2, <2>1, <2>3
    <3>2. got' - len' = got - len BY <1>2, <2>1, <2>3
    <3>3. ASSUME NEW i \in 0..len+n-1
          PROVE  sq'[offs' + i] = input'[got' - len' + i + 1]
      <4>1. sq'[offs + i] = input[got - len + i + 1] BY <2>5
      <4> QED BY <1>3, <3>2, <4>1
    <3>4. ASSUME NEW i \in 0..len'-1
          PROVE  sq'[offs' + i] = input'[got' - len' + i + 1]
      <4>1. i \in 0..len+n-1 BY <1>2, <2>1, <2>3
      <4> QED BY <3>3, <4>1
    <3> QED BY <3>1, <3>4 DEF HoldsTail
  <2> QED BY <1>1, <1>3, <2>7, <2>8 DEF IInv
<1> QED BY <1>4, <1>5 DEF Identify

(* A call of dstf_process_raw_h264_stream_to_frames() with n bytes of data. *)
LEMMA ProcessIInv ==
  ASSUME IInv, pc \in {"read", "again"}, NEW n, Offered(n),
         eof' \in BOOLEAN, input' = input, Process(n)
  PROVE  IInv'
<1>1. TypeOK /\ HoldsTail /\ pc # "failed" BY DEF IInv
<1>2. /\ len \in Nat /\ MaxLen \in Nat /\ got \in Nat /\ n \in Nat
      /\ got + n <= Len(input) /\ Len(input) \in Nat
  BY <1>1, FrameQueueAssumption DEF TypeOK, Offered
<1>3. CASE NoRoom(n)
  <2>1. got' \in 0..Len(input') BY <1>2, <1>3 DEF NoRoom
  <2>2. TypeOK' BY <1>1, <1>3, <2>1 DEF TypeOK, NoRoom
  <2> QED BY <1>3, <2>2 DEF IInv, HoldsTail, NoRoom
<1>4. CASE ~NoRoom(n)
  <2> DEFINE q == Contents(n)
  <2>1. n <= MaxLen - len BY <1>4 DEF Process
  <2>2. Len(q) = len + n BY <1>1, <2>1, ContentsType
  <2>3. \/ Settle(n, 0, 0, 0)
        \/ Settle(n, Len(q), 0, 0)
        \/ \E f \in 0..Len(q)-1 :
             \/ Settle(n, f, 0, 0)
             \/ \E k \in 0..Len(q)-1 :
                  /\ FirstFrom(q, SecondSearch(f), k)
                  /\ IF k - f > MaxDst THEN Settle(n, f, 0, -3) ELSE Settle(n, f, k - f, 1)
    BY <1>4 DEF Process
  <2> HIDE DEF q
  <2>4. ASSUME NEW skip \in Nat, skip <= len + n, NEW r \in {-3, 0, 1, 3}, Settle(n, skip, 0, r)
        PROVE  IInv'
    <3>1. skip + 0 <= len + n BY <1>2, <2>4
    <3> QED BY <1>1, <2>1, <2>4, <3>1, SettleIInv
  <2>5. CASE Settle(n, 0, 0, 0) \/ Settle(n, Len(q), 0, 0)
    BY <1>2, <2>2, <2>4, <2>5
  <2>6. ASSUME NEW f \in 0..Len(q)-1, Settle(n, f, 0, 0) \/ Settle(n, f, 0, -3)
        PROVE  IInv'
    <3>1. f \in Nat /\ f <= len + n BY <1>2, <2>2
    <3> QED BY <2>4, <2>6, <3>1
  <2>7. ASSUME NEW f \in 0..Len(q)-1, NEW k \in 0..Len(q)-1,
               FirstFrom(q, SecondSearch(f), k), Settle(n, f, k - f, 1)
        PROVE  IInv'
    <3>1. f \in Nat /\ k - f \in Nat /\ f + (k - f) <= len + n
      BY <1>2, <2>2, <2>7 DEF FirstFrom, SecondSearch
    <3> QED BY <1>1, <2>1, <2>7, <3>1, SettleIInv
  <2> QED BY <2>3, <2>5, <2>6, <2>7
<1> QED BY <1>3, <1>4

LEMMA NextIInv == IInv /\ [Next]_vars => IInv'
<1> SUFFICES ASSUME IInv, [Next]_vars PROVE IInv' OBVIOUS
<1>1. CASE Identify BY <1>1, IdentifyIInv
<1>2. CASE \E n \in ReadSizes : Read(n) /\ Process(n)
  <2>1. PICK n \in ReadSizes : Read(n) /\ Process(n) BY <1>2
  <2>2. Offered(n) BY ReadSizesOffered DEF IInv
  <2> QED BY <2>1, <2>2, ProcessIInv DEF Read
<1>3. CASE Again /\ Process(0)
  <2>1. Offered(0)
    <3>1. input \in Seq(Int) /\ got \in 0..Len(input)
      BY FrameQueueAssumption DEF IInv, TypeOK
    <3> QED BY <3>1 DEF Offered
  <2>2. eof' \in BOOLEAN BY <1>3 DEF Again, IInv, TypeOK
  <2> QED BY <1>3, <2>1, <2>2, ProcessIInv DEF Again
<1>4. CASE UNCHANGED vars
  BY <1>4 DEF vars, IInv, TypeOK, HoldsTail
<1> QED BY <1>1, <1>2, <1>3, <1>4 DEF Next, Done

LEMMA SpecIInv == Spec => []IInv
BY InitIInv, NextIInv, PTL DEF Spec

-----------------------------------------------------------------------------
(***************************************************************************)
(* The frames of a whole stream.                                           *)
(***************************************************************************)
LEMMA NatInduct ==
  ASSUME NEW S, 0 \in S, \A n \in Nat : n \in S => n + 1 \in S
  PROVE  \A n \in Nat : n \in S
<1> DEFINE Bad == Nat \ S
           R == OpToRel(<, Nat)
<1>1. SUFFICES ASSUME Bad # {} PROVE FALSE
  OBVIOUS
<1>2. IsWellFoundedOn(R, Nat)
  BY NatLessThanWellFounded
<1>3. \A x, y \in Nat : x < y => <<x, y>> \in R
  BY DEF OpToRel
<1> HIDE DEF R
<1>4. PICK k \in Bad : \A i \in Bad : <<i, k>> \notin R
  BY <1>1, <1>2, WFMin
<1>5. k \in Nat /\ k # 0 /\ k \notin S
  BY <1>4
<1>6. k - 1 \in Nat /\ k - 1 < k /\ k - 1 + 1 = k
  BY <1>5
<1>7. k - 1 \in Bad
  BY <1>5, <1>6
<1> QED  BY <1>3, <1>4, <1>5, <1>6, <1>7

FrameLists == Seq(Seq(Int))

(* FramesFrom at offset p, if f tells the frames from the offsets behind.  *)
Starts(s, p) == {i \in p..Len(s)-1 : StartsAt(s, i)}

Least(T) == CHOOSE i \in T : \A j \in T : i <= j

Behind(s, p) == {i \in Starts(s, p) : i >= Least(Starts(s, p)) + 4}

Body(s, f, p) ==
  IF Starts(s, p) = {} THEN <<>>
  ELSE IF Behind(s, p) = {} \/ Least(Starts(s, p)) + 8 > Len(s) THEN <<>>
  ELSE <<SubSeq(s, Least(Starts(s, p)) + 1, Least(Behind(s, p)))>> \o f[Least(Behind(s, p))]

LEMMA LeastOf ==
  ASSUME NEW T \in SUBSET Nat, T # {}
  PROVE  Least(T) \in T /\ \A j \in T : Least(T) <= j
<1> DEFINE R == OpToRel(<, Nat)
<1>1. IsWellFoundedOn(R, Nat)
  BY NatLessThanWellFounded
<1>2. \A x, y \in Nat : <<y, x>> \notin R => x <= y
  BY DEF OpToRel
<1> HIDE DEF R
<1>3. PICK k \in T : \A i \in T : <<i, k>> \notin R
  BY <1>1, WFMin
<1>4. \E i \in T : \A j \in T : i <= j
  BY <1>2, <1>3
<1> QED  BY <1>4 DEF Least

LEMMA LeastIs ==
  ASSUME NEW T \in SUBSET Nat, NEW k \in T, \A j \in T : k <= j
  PROVE  Least(T) = k
<1>1. Least(T) \in T /\ Least(T) <= k
  BY LeastOf
<1>2. Least(T) \in Nat /\ k \in Nat /\ k <= Least(T)
  BY <1>1
<1> QED  BY <1>1, <1>2

(* A frame ends behind the offset from which on it is looked for. *)
LEMMA NextBehind ==
  ASSUME NEW s \in Seq(Int), NEW p \in 0..Len(s), Starts(s, p) # {}, Behind(s, p) # {}
  PROVE  /\ Least(Starts(s, p)) \in p..Len(s)-1
         /\ Least(Behind(s, p)) \in p+1..Len(s)
<1> DEFINE a == Least(Starts(s, p))
           b == Least(Behind(s, p))
<1>1. Len(s) \in Nat /\ p \in Nat
  OBVIOUS
<1>2. Starts(s, p) \in SUBSET Nat /\ Starts(s, p) \subseteq p..Len(s)-1
  BY <1>1 DEF Starts
<1>3. a \in p..Len(s)-1
  BY <1>2, LeastOf
<1>4. Behind(s, p) \in SUBSET Nat
  BY <1>2 DEF Behind
<1>5. b \in Behind(s, p)
  BY <1>4, LeastOf
<1> HIDE DEF a, b
<1>6. b \in p..Len(s)-1 /\ b >= a + 4
  BY <1>2, <1>5 DEF Behind, a
<1> QED  BY <1>1, <1>3, <1>6 DEF a, b

LEMMA PartType ==
  ASSUME NEW s \in Seq(Int), NEW b \in Nat, NEW e \in Nat, e <= Len(s)
  PROVE  SubSeq(s, b + 1, e) \in Seq(Int)
<1>1. Len(s) \in Nat /\ b + 1 \in Int /\ e \in Int
  OBVIOUS
<1>2. ASSUME NEW i \in b+1..e PROVE s[i] \in Int
  <2>1. i \in 1..Len(s)
    BY <1>1
  <2> QED  BY <2>1, ElementOfSeq
<1> QED  BY <1>1, <1>2, SubSeqProperties

LEMMA BodyAgrees ==
  ASSUME NEW s \in Seq(Int), NEW p \in 0..Len(s), NEW f, NEW g,
         \A j \in p+1..Len(s) : f[j] = g[j]
  PROVE  Body(s, f, p) = Body(s, g, p)
<1>1. CASE Starts(s, p) = {} \/ Behind(s, p) = {}
  BY <1>1 DEF Body
<1>2. CASE Starts(s, p) # {} /\ Behind(s, p) # {}
  <2>1. f[Least(Behind(s, p))] = g[Least(Behind(s, p))]
    BY <1>2, NextBehind
  <2> QED  BY <1>2, <2>1 DEF Body
<1> QED  BY <1>1, <1>2

LEMMA BodyType ==
  ASSUME NEW s \in Seq(Int), NEW p \in 0..Len(s), NEW f,
         \A j \in p+1..Len(s) : f[j] \in FrameLists
  PROVE  Body(s, f, p) \in FrameLists
<1> DEFINE a == Least(Starts(s, p))
           e == Least(Behind(s, p))
           d == SubSeq(s, a + 1, e)
<1>1. <<>> \in FrameLists
  BY DEF FrameLists
<1>2. CASE Starts(s, p) = {} \/ Behind(s, p) = {}
  BY <1>1, <1>2 DEF Body
<1>3. CASE Starts(s, p) # {} /\ Behind(s, p) # {}
  <2>1. a \in p..Len(s)-1 /\ e \in p+1..Len(s) /\ Len(s) \in Nat /\ p \in Nat
    BY <1>3, NextBehind
  <2> HIDE DEF a, e
  <2>2. d \in Seq(Int)
    <3>1. a \in Nat /\ e \in Nat /\ e <= Len(s)
      BY <2>1
    <3> QED  BY <3>1, PartType
  <2>3. f[e] \in Seq(Seq(Int))
    BY <2>1 DEF FrameLists
  <2> HIDE DEF d
  <2>4. <<d>> \o f[e] \in Seq(Seq(Int))
    <3>1. <<d>> \in Seq(Seq(Int))
      BY <2>2
    <3> QED  BY <2>3, <3>1, ConcatProperties
  <2> QED  BY <1>1, <1>3, <2>4 DEF Body, FrameLists, a, e, d
<1> QED  BY <1>2, <1>3

(* There is a function as FramesFrom says, defined from the stream's end.  *)
LEMMA FramesExist ==
  ASSUME NEW s \in Seq(Int)
  PROVE  \E f : f = [p \in 0..Len(s) |-> Body(s, f, p)]
<1> DEFINE l == Len(s)
           Good(m, f) == /\ f \in [l-m..l -> FrameLists]
                         /\ \A p \in l-m..l : f[p] = Body(s, f, p)
           S == {m \in Nat : m <= l => \E f : Good(m, f)}
<1>1. l \in Nat
  OBVIOUS
<1>2. 0 \in S
  <2> DEFINE f == [p \in l-0..l |-> <<>>]
  <2>1. <<>> \in FrameLists
    BY DEF FrameLists
  <2>2. f \in [l-0..l -> FrameLists]
    BY <2>1
  <2>3. ASSUME NEW p \in l-0..l PROVE f[p] = Body(s, f, p)
    <3>1. p = l /\ l..l-1 = {}
      BY <1>1
    <3>2. Starts(s, p) = {}
      BY <3>1 DEF Starts
    <3> QED  BY <3>2 DEF Body
  <2>4. Good(0, f)
    BY <2>2, <2>3
  <2>5. \E g : Good(0, g)
    BY <2>4
  <2> QED  BY <2>5
<1>3. ASSUME NEW m \in Nat, m \in S, m + 1 <= l PROVE \E f : Good(m + 1, f)
  <2>1. m <= l
    BY <1>1, <1>3
  <2>2. PICK f : Good(m, f)
    BY <1>3, <2>1
  <2> DEFINE k == l - (m + 1)
             h == [p \in k..l |-> IF p = k THEN Body(s, f, k) ELSE f[p]]
  <2>3. k \in 0..l /\ k + 1 = l - m /\ \A p \in k..l : p # k => p \in l-m..l
    BY <1>1, <1>3
  <2>4. Body(s, f, k) \in FrameLists
    <3>1. \A j \in k+1..l : f[j] \in FrameLists
      BY <2>2, <2>3
    <3> HIDE DEF k
    <3> QED  BY <2>3, <3>1, BodyType
  <2>5. h \in [k..l -> FrameLists]
    BY <2>2, <2>3, <2>4
  <2>6. ASSUME NEW p \in k..l PROVE h[p] = Body(s, h, p)
    <3>1. p \in 0..l /\ k \in Int
      <4>1. l - (m + 1) \in 0..l
        BY <2>3
      <4> QED  BY <1>1, <4>1
    <3>2. \A j \in p+1..l : f[j] = h[j]
      <4>1. \A j \in p+1..l : j \in k..l /\ j # k
        <5> HIDE DEF k
        <5> QED  BY <1>1, <3>1
      <4> QED  BY <4>1
    <3> HIDE DEF h
    <3>3. Body(s, f, p) = Body(s, h, p)
      BY <3>1, <3>2, BodyAgrees
    <3>4. h[p] = Body(s, f, p)
      <4>1. CASE p = k
        BY <4>1 DEF h
      <4>2. CASE p # k
        BY <2>2, <2>3, <4>2 DEF h
      <4> QED  BY <4>1, <4>2
    <3> QED  BY <3>3, <3>4
  <2>7. Good(m + 1, h)
    BY <2>5, <2>6
  <2> HIDE DEF h, Good
  <2> QED  BY <2>7
<1>4. ASSUME NEW m \in Nat, m \in S PROVE m + 1 \in S
  <2>1. m + 1 <= l => \E f : Good(m + 1, f)
    BY <1>3, <1>4
  <2> HIDE DEF Good
  <2> QED  BY <2>1
<1>5. l \in S
  <2> HIDE DEF S
  <2> QED  BY <1>1, <1>2, <1>4, NatInduct
<1>6. PICK f : Good(l, f)
  <2>1. l <= l
    BY <1>1
  <2> HIDE DEF Good
  <2> QED  BY <1>5, <2>1
<1>7. l - l = 0
  BY <1>1
<1>8. f = [p \in 0..l |-> f[p]]
  BY <1>6, <1>7
<1>9. \A p \in 0..l : f[p] = Body(s, f, p)
  BY <1>6, <1>7
<1>10. f = [p \in 0..l |-> Body(s, f, p)]
  BY <1>8, <1>9
<1> QED  BY <1>10

LEMMA FramesFixed ==
  ASSUME NEW s \in Seq(Int)
  PROVE  FramesFrom(s) = [p \in 0..Len(s) |-> Body(s, FramesFrom(s), p)]
<1> DEFINE P(f) == f = [p \in 0..Len(s) |-> Body(s, f, p)]
<1>1. \E f : P(f)
  BY FramesExist
<1>2. FramesFrom(s) = CHOOSE f : P(f)
  BY DEF FramesFrom, Body, Starts, Behind, Least
<1> HIDE DEF P
<1>3. P(CHOOSE f : P(f))
  BY <1>1, Zenon
<1>4. P(FramesFrom(s))
  BY <1>2, <1>3
<1> QED  BY <1>4 DEF P

LEMMA FramesAt ==
  ASSUME NEW s \in Seq(Int), NEW p \in 0..Len(s)
  PROVE  FramesFrom(s)[p] = Body(s, FramesFrom(s), p)
<1> DEFINE F == FramesFrom(s)
<1>1. F = [i \in 0..Len(s) |-> Body(s, F, i)]
  BY FramesFixed
<1> HIDE DEF F
<1>2. F[p] = Body(s, F, p)
  BY <1>1
<1> QED  BY <1>2 DEF F

LEMMA FramesType ==
  ASSUME NEW s \in Seq(Int), NEW p \in 0..Len(s)
  PROVE  FramesFrom(s)[p] \in FrameLists
<1> DEFINE l == Len(s)
           F == FramesFrom(s)
           S == {m \in Nat : \A j \in 0..l : j >= l - m => F[j] \in FrameLists}
<1>1. l \in Nat
  OBVIOUS
<1>2. ASSUME NEW i \in 0..l, \A j \in i+1..l : F[j] \in FrameLists PROVE F[i] \in FrameLists
  <2> HIDE DEF F
  <2>1. F[i] = Body(s, F, i)
    BY FramesAt DEF F
  <2> QED  BY <1>2, <2>1, BodyType
<1>3. 0 \in S
  <2>1. l \in 0..l /\ \A j \in l+1..l : FALSE
    BY <1>1
  <2>2. F[l] \in FrameLists
    BY <1>2, <2>1
  <2>3. \A j \in 0..l : j >= l - 0 => j = l
    BY <1>1
  <2> QED  BY <2>2, <2>3
<1>4. ASSUME NEW m \in Nat, m \in S PROVE m + 1 \in S
  <2>1. ASSUME NEW j \in 0..l, j >= l - (m + 1) PROVE F[j] \in FrameLists
    <3>1. \A i \in j+1..l : i \in 0..l /\ i >= l - m
      BY <1>1, <2>1
    <3>2. \A i \in j+1..l : F[i] \in FrameLists
      BY <1>4, <3>1
    <3> HIDE DEF F
    <3> QED  BY <1>2, <3>2
  <2> HIDE DEF F
  <2> QED  BY <2>1
<1>5. l \in S
  <2> HIDE DEF S
  <2> QED  BY <1>1, <1>3, <1>4, NatInduct
<1>6. p >= l - l
  BY <1>1
<1> QED  BY <1>5, <1>6

-----------------------------------------------------------------------------
(***************************************************************************)
(* Start codes, in the queue and in the stream.                            *)
(***************************************************************************)
LEMMA StreamType ==
  ASSUME TypeOK
  PROVE  /\ input \in Streams /\ input \in Seq(Int) /\ Len(input) \in Nat
         /\ len \in Nat /\ offs \in Nat /\ got \in Nat /\ MaxLen \in Nat /\ MaxRead \in Nat
BY FrameQueueAssumption DEF TypeOK

(* What is loaded is the stream from offset got - len on. *)
LEMMA ContentsOf ==
  ASSUME TypeOK, HoldsTail, pc # "failed", NEW n, Offered(n), n <= MaxLen - len
  PROVE  /\ Contents(n) \in Seq(Int) /\ Len(Contents(n)) = len + n /\ len + n \in Nat
         /\ got - len \in Nat /\ (got - len) + (len + n) <= Len(input)
         /\ \A i \in 1..len+n : Contents(n)[i] = input[(got-len)+i]
<1>1. len \in Nat /\ got \in Nat /\ n \in Nat /\ len <= got /\ Len(input) \in Nat /\ got + n <= Len(input)
  BY StreamType DEF HoldsTail, Offered
<1>2. ASSUME NEW i \in 1..len+n PROVE Contents(n)[i] = input[(got-len)+i]
  <2>1. i - 1 \in 0..len+n-1
    BY <1>1
  <2>2. Loaded(n)[LoadedOffs(n)+(i-1)] = input[got-len+(i-1)+1] /\ LoadedOffs(n) \in Nat
    BY <2>1, LoadedHolds
  <2>3. LoadedOffs(n) + (i - 1) = LoadedOffs(n) + i - 1 /\ got - len + (i - 1) + 1 = (got - len) + i
    BY <1>1, <2>2
  <2> QED  BY <2>2, <2>3 DEF Contents
<1> QED  BY <1>1, <1>2, ContentsType

(* The queue shows what the stream is from offset b on. *)
Shows(q, b) ==
  /\ q \in Seq(Int) /\ b \in Nat /\ b + Len(q) <= Len(input)
  /\ \A i \in 1..Len(q) : q[i] = input[b+i]

LEMMA ShowsStart ==
  ASSUME TypeOK, NEW q, NEW b, Shows(q, b), NEW i \in Nat, i + 3 <= Len(q)
  PROVE  StartsAt(q, i) <=> StartsAt(input, b + i)
<1>1. Len(q) \in Nat /\ b \in Nat /\ Len(input) \in Nat /\ b + Len(q) <= Len(input)
  BY StreamType DEF Shows
<1>2. /\ i + 1 \in 1..Len(q) /\ i + 2 \in 1..Len(q) /\ i + 3 \in 1..Len(q)
      /\ b + (i + 1) = b + i + 1 /\ b + (i + 2) = b + i + 2 /\ b + (i + 3) = b + i + 3
      /\ b + i + 3 <= Len(input)
  BY <1>1
<1>3. q[i+1] = input[b+i+1]
  <2>1. q[i+1] = input[b+(i+1)]
    BY <1>2 DEF Shows
  <2> QED  BY <1>2, <2>1
<1>4. q[i+2] = input[b+i+2]
  <2>1. q[i+2] = input[b+(i+2)]
    BY <1>2 DEF Shows
  <2> QED  BY <1>2, <2>1
<1>5. q[i+3] = input[b+i+3]
  <2>1. q[i+3] = input[b+(i+3)]
    BY <1>2 DEF Shows
  <2> QED  BY <1>2, <2>1
<1> QED  BY <1>2, <1>3, <1>4, <1>5 DEF StartsAt

LEMMA ShowsFirst ==
  ASSUME TypeOK, NEW q, NEW b, Shows(q, b), NEW i \in Nat, NEW k \in Nat, FirstFrom(q, i, k)
  PROVE  FirstFrom(input, b + i, b + k)
<1> DEFINE x == b + i
           y == b + k
<1>1. Len(q) \in Nat /\ b \in Nat /\ k >= i /\ k + 3 <= Len(q) /\ StartsAt(q, k)
  BY DEF Shows, FirstFrom, StartsAt
<1>2. y >= x /\ StartsAt(input, y)
  BY <1>1, ShowsStart
<1>3. \A j \in x..y-1 : j - b \in Nat /\ j - b \in i..k-1 /\ j - b + 3 <= Len(q) /\ b + (j - b) = j
  BY <1>1
<1> HIDE DEF x, y
<1>4. ASSUME NEW j \in x..y-1 PROVE ~StartsAt(input, j)
  <2> DEFINE m == j - b
  <2>1. m \in Nat /\ m \in i..k-1 /\ m + 3 <= Len(q) /\ b + m = j
    BY <1>3
  <2> HIDE DEF m
  <2>2. ~StartsAt(q, m)
    BY <2>1 DEF FirstFrom
  <2>3. StartsAt(q, m) <=> StartsAt(input, b + m)
    BY <2>1, ShowsStart
  <2> QED  BY <2>1, <2>2, <2>3
<1>5. FirstFrom(input, x, y)
  BY <1>2, <1>4 DEF FirstFrom
<1> QED  BY <1>5 DEF x, y

LEMMA FirstStart ==
  ASSUME NEW s \in Seq(Int), NEW p \in Nat, NEW k \in Nat, FirstFrom(s, p, k)
  PROVE  /\ p <= k /\ k + 3 <= Len(s) /\ StartsAt(s, k) /\ FirstFrom(s, k, k)
         /\ Starts(s, p) # {} /\ Least(Starts(s, p)) = k
<1>1. Len(s) \in Nat /\ p <= k /\ k + 3 <= Len(s) /\ StartsAt(s, k)
  BY DEF FirstFrom, StartsAt
<1>2. k \in Starts(s, p) /\ Starts(s, p) \in SUBSET Nat
  BY <1>1 DEF Starts
<1>3. ASSUME NEW j \in Starts(s, p) PROVE k <= j
  <2>1. j \in Nat /\ p <= j /\ StartsAt(s, j)
    BY DEF Starts
  <2>2. ~(j \in p..k-1)
    BY <2>1 DEF FirstFrom
  <2> QED  BY <2>1, <2>2
<1>4. k >= k /\ k..k-1 = {}
  OBVIOUS
<1>5. FirstFrom(s, k, k)
  BY <1>1, <1>4 DEF FirstFrom
<1> QED  BY <1>1, <1>2, <1>3, <1>5, LeastIs

(* No frame is missed in front of the first start code. *)
LEMMA SkippedTo ==
  ASSUME NEW s \in Seq(Int), NEW p \in Nat, NEW k \in Nat, FirstFrom(s, p, k)
  PROVE  FramesFrom(s)[p] = FramesFrom(s)[k]
<1> DEFINE F == FramesFrom(s)
<1>1. Len(s) \in Nat /\ p <= k /\ k + 3 <= Len(s) /\ FirstFrom(s, k, k)
  BY FirstStart
<1>2. Starts(s, p) # {} /\ Starts(s, k) # {} /\ Least(Starts(s, p)) = k /\ Least(Starts(s, k)) = k
  BY <1>1, FirstStart
<1>3. Behind(s, p) = Behind(s, k)
  <2>1. /\ Behind(s, p) = {i \in Starts(s, p) : i >= k + 4}
        /\ Behind(s, k) = {i \in Starts(s, k) : i >= k + 4}
    BY <1>2 DEF Behind
  <2>2. ASSUME NEW i, i >= k + 4 PROVE i \in Starts(s, p) <=> i \in Starts(s, k)
    BY <1>1, <2>2 DEF Starts
  <2> QED  BY <2>1, <2>2
<1>4. p \in 0..Len(s) /\ k \in 0..Len(s)
  BY <1>1
<1>5. F[p] = Body(s, F, p) /\ F[k] = Body(s, F, k)
  BY <1>4, FramesAt
<1> HIDE DEF F
<1>6. Body(s, F, p) = Body(s, F, k)
  BY <1>2, <1>3 DEF Body
<1> QED  BY <1>5, <1>6 DEF F

LEMMA NoneLeft ==
  ASSUME NEW s \in Seq(Int), NEW p \in 0..Len(s), NoneFrom(s, p)
  PROVE  FramesFrom(s)[p] = <<>>
<1>1. Starts(s, p) = {}
  BY DEF Starts, NoneFrom
<1> QED  BY <1>1, FramesAt DEF Body

LEMMA FrameFound ==
  ASSUME NEW s \in Seq(Int), NEW p \in Nat, StartsAt(s, p), p + 8 <= Len(s),
         NEW k \in Nat, FirstFrom(s, p + 4, k)
  PROVE  /\ k \in p+1..Len(s) /\ FirstFrom(s, k, k)
         /\ FramesFrom(s)[p] = <<SubSeq(s, p + 1, k)>> \o FramesFrom(s)[k]
<1> DEFINE F == FramesFrom(s)
<1>1. Len(s) \in Nat /\ p \in 0..Len(s) /\ p + 4 <= k /\ k + 3 <= Len(s) /\ StartsAt(s, k) /\ FirstFrom(s, k, k)
  <2>1. p + 4 \in Nat
    OBVIOUS
  <2> QED  BY <2>1, FirstStart
<1>2. FirstFrom(s, p, p)
  <2>1. p >= p /\ p..p-1 = {}
    OBVIOUS
  <2> QED  BY <2>1 DEF FirstFrom
<1>3. Starts(s, p) # {} /\ Least(Starts(s, p)) = p
  BY <1>2, FirstStart
<1>4. Behind(s, p) \in SUBSET Nat /\ k \in Behind(s, p)
  BY <1>1, <1>3, SMTT(60) DEF Behind, Starts
<1>5. ASSUME NEW j \in Behind(s, p) PROVE k <= j
  <2>1. j \in Nat /\ p + 4 <= j /\ StartsAt(s, j)
    BY <1>1, <1>3 DEF Behind, Starts
  <2>2. ~(j \in p+4..k-1)
    BY <2>1 DEF FirstFrom
  <2> QED  BY <2>1, <2>2
<1>6. Behind(s, p) # {} /\ Least(Behind(s, p)) = k
  BY <1>4, <1>5, LeastIs
<1>7. F[p] = Body(s, F, p)
  BY <1>1, FramesAt
<1>8. ~(p + 8 > Len(s))
  BY <1>1
<1> HIDE DEF F
<1>9. Body(s, F, p) = <<SubSeq(s, p + 1, k)>> \o F[k]
  BY <1>3, <1>6, <1>8 DEF Body
<1>10. k \in p+1..Len(s)
  BY <1>1
<1> QED  BY <1>1, <1>7, <1>9, <1>10 DEF F

LEMMA ShowsPart ==
  ASSUME TypeOK, NEW q, NEW b, Shows(q, b), NEW u \in Nat, NEW k \in Nat,
         1 <= u, u <= k, k <= Len(q)
  PROVE  SubSeq(q, u, k) = SubSeq(input, b + u, b + k)
<1> DEFINE x == b + u
           y == b + k
<1>1. Len(q) \in Nat /\ b \in Nat /\ Len(input) \in Nat /\ b + Len(q) <= Len(input)
      /\ q \in Seq(Int) /\ input \in Seq(Int)
  BY StreamType DEF Shows
<1>2. u \in Int /\ x \in Int /\ y \in Int /\ k - u = y - x /\ u <= k /\ x <= y
  BY <1>1
<1>3. \A j \in u..k : j \in 1..Len(q)
  BY <1>1
<1>4. \A j \in x..y : j \in 1..Len(input)
  BY <1>1
<1>5. \A j \in 1..k-u+1 : u + j - 1 \in 1..Len(q) /\ b + (u + j - 1) = x + j - 1
  BY <1>1
<1> HIDE DEF x, y
<1>6. /\ SubSeq(q, u, k) \in Seq(Int) /\ Len(SubSeq(q, u, k)) = k - u + 1
      /\ \A j \in 1..k-u+1 : SubSeq(q, u, k)[j] = q[u+j-1]
  <2>1. \A j \in u..k : q[j] \in Int
    BY <1>1, <1>3, ElementOfSeq
  <2> QED  BY <1>2, <2>1, SubSeqProperties
<1>7. /\ SubSeq(input, x, y) \in Seq(Int) /\ Len(SubSeq(input, x, y)) = y - x + 1
      /\ \A j \in 1..y-x+1 : SubSeq(input, x, y)[j] = input[x+j-1]
  <2>1. \A j \in x..y : input[j] \in Int
    BY <1>1, <1>4, ElementOfSeq
  <2> QED  BY <1>2, <2>1, SubSeqProperties
<1>8. ASSUME NEW j \in 1..k-u+1 PROVE q[u+j-1] = input[x+j-1]
  BY <1>5 DEF Shows
<1>9. SubSeq(q, u, k) = SubSeq(input, x, y)
  <2>1. k - u + 1 = y - x + 1
    BY <1>2
  <2> DEFINE s == SubSeq(q, u, k)
             t == SubSeq(input, x, y)
  <2>2. s \in Seq(Int) /\ t \in Seq(Int) /\ Len(s) = k - u + 1 /\ Len(t) = k - u + 1
    BY <1>6, <1>7, <2>1
  <2>3. \A j \in 1..k-u+1 : s[j] = t[j]
    BY <1>6, <1>7, <1>8, <2>1
  <2> HIDE DEF s, t
  <2>4. s = t
    BY ONLY <2>2, <2>3, SeqEqual
  <2> QED  BY <2>4 DEF s, t
<1> QED  BY <1>9 DEF x, y

-----------------------------------------------------------------------------
(***************************************************************************)
(* What has been delivered, and what is still to be found from where the   *)
(* queue begins, are the frames of the stream.                             *)
(***************************************************************************)
InTurn(fs, p) ==
  p \in 0..Len(input) /\ fs \in FrameLists /\ FramesOf(input) = fs \o FramesFrom(input)[p]

(* The next start code begins the queue or has been read, all of it: what  *)
(* holds none can be dropped.                                              *)
Found(p, n) == \A k \in Nat : FirstFrom(input, p, k) => k = p \/ k + 3 <= n

Chain ==
  \E p \in Nat :
    /\ InTurn(frames, p)
    /\ pc # "failed" => p = got - len
    /\ pc = "identify" => p = 0 /\ \A i \in 1..got : input[i] # Mark
    /\ pc \in {"read", "again", "end"} => Found(p, got)

LEMMA InTurnSkipped ==
  ASSUME TypeOK, NEW fs, NEW p \in Nat, NEW k \in Nat, InTurn(fs, p), FirstFrom(input, p, k)
  PROVE  InTurn(fs, k)
<1>1. input \in Seq(Int) /\ Len(input) \in Nat
  BY StreamType
<1>2. FramesFrom(input)[p] = FramesFrom(input)[k]
  BY <1>1, SkippedTo
<1>3. k \in 0..Len(input)
  <2>1. k + 3 <= Len(input)
    BY <1>1, FirstStart
  <2> QED  BY <1>1, <2>1
<1> QED  BY <1>2, <1>3 DEF InTurn

LEMMA InTurnNone ==
  ASSUME TypeOK, NEW fs, NEW p \in Nat, InTurn(fs, p), NoneFrom(input, p), NEW e \in p..Len(input)
  PROVE  InTurn(fs, e)
<1>1. input \in Seq(Int) /\ Len(input) \in Nat /\ e \in 0..Len(input) /\ p \in 0..Len(input)
  BY StreamType DEF InTurn
<1>2. NoneFrom(input, e)
  <2>1. \A j \in e..Len(input)-1 : j \in p..Len(input)-1
    BY <1>1
  <2> QED  BY <2>1 DEF NoneFrom
<1>3. FramesFrom(input)[p] = <<>> /\ FramesFrom(input)[e] = <<>>
  BY <1>1, <1>2, NoneLeft
<1> QED  BY <1>1, <1>3 DEF InTurn

LEMMA InTurnDelivered ==
  ASSUME TypeOK, NEW fs, NEW p \in Nat, InTurn(fs, p), StartsAt(input, p), p + 8 <= Len(input),
         NEW e \in Nat, FirstFrom(input, p + 4, e)
  PROVE  InTurn(Append(fs, SubSeq(input, p + 1, e)), e)
<1> DEFINE d == SubSeq(input, p + 1, e)
           F == FramesFrom(input)
<1>1. input \in Seq(Int) /\ Len(input) \in Nat
  BY StreamType
<1>2. e \in p+1..Len(input) /\ F[p] = <<d>> \o F[e]
  BY <1>1, FrameFound
<1>3. e \in 0..Len(input) /\ e <= Len(input)
  BY <1>1, <1>2
<1>4. d \in Seq(Int) /\ F[e] \in Seq(Seq(Int)) /\ fs \in Seq(Seq(Int))
  BY <1>1, <1>3, PartType, FramesType DEF FrameLists, InTurn
<1> HIDE DEF d, F
<1>5. <<d>> \in Seq(Seq(Int)) /\ Append(fs, d) \in Seq(Seq(Int))
  BY <1>4
<1>6. Append(fs, d) = fs \o <<d>>
  <2>1. \A x \in Seq(Seq(Int)), y \in Seq(Int) : Append(x, y) = x \o <<y>>
    BY AppendIsConcat
  <2>2. fs \in Seq(Seq(Int)) /\ d \in Seq(Int)
    BY <1>4
  <2> QED  BY <2>1, <2>2
<1>7. (fs \o <<d>>) \o F[e] = fs \o (<<d>> \o F[e])
  <2> DEFINE T == Seq(Int)
             y == <<d>>
             z == F[e]
  <2>1. fs \in Seq(T) /\ y \in Seq(T) /\ z \in Seq(T)
    BY <1>4, <1>5
  <2> HIDE DEF T, y, z
  <2>2. (fs \o y) \o z = fs \o (y \o z)
    BY ONLY <2>1, ConcatAssociative, SMT
  <2> QED  BY <2>2 DEF y, z
<1>8. FramesOf(input) = fs \o F[p]
  BY DEF InTurn, F
<1> QED  BY <1>2, <1>3, <1>5, <1>6, <1>7, <1>8 DEF InTurn, FrameLists, F, d

LEMMA InitChain == Init => Chain
<1> SUFFICES ASSUME Init PROVE Chain
  OBVIOUS
<1>1. TypeOK
  BY InitIInv DEF IInv
<1>2. input \in Seq(Int) /\ Len(input) \in Nat
  BY <1>1, StreamType
<1>3. 0 \in 0..Len(input)
  BY <1>2
<1>4. FramesFrom(input)[0] \in Seq(Seq(Int))
  BY <1>2, <1>3, FramesType DEF FrameLists
<1>5. <<>> \o FramesFrom(input)[0] = FramesFrom(input)[0]
  BY <1>4, ConcatEmptySeq
<1>6. frames = <<>> /\ got = 0 /\ len = 0 /\ pc = "identify"
  BY DEF Init
<1>7. <<>> \in FrameLists
  BY DEF FrameLists
<1>8. InTurn(frames, 0)
  BY <1>3, <1>5, <1>6, <1>7 DEF InTurn, FramesOf
<1>9. 0 = got - len /\ \A i \in 1..got : FALSE
  BY <1>6
<1> QED  BY <1>6, <1>8, <1>9 DEF Chain

LEMMA ChainNext ==
  ASSUME input' = input, pc' \in {"read", "again", "end"},
         NEW p \in Nat, InTurn(frames', p), p = got' - len', Found(p, got')
  PROVE  Chain'
BY DEF Chain, InTurn, Found

LEMMA ChainFailed ==
  ASSUME input' = input, pc' = "failed", NEW p \in Nat, InTurn(frames', p)
  PROVE  Chain'
BY DEF Chain, InTurn

(* Appending brings no Mark that is not seen, and identification does not  *)
(* end before the first start code has been read.                          *)
LEMMA IdentifyChain ==
  ASSUME IInv, Chain, Identify
  PROVE  Chain'
<1>1. /\ TypeOK /\ HoldsTail /\ pc = "identify" /\ offs = 0 /\ input' = input /\ frames' = frames
      /\ pc' \in {"identify", "read"}
  BY DEF IInv, Identify, IdentifyFull, IdentifyMore
<1>2. /\ len \in Nat /\ got \in Nat /\ MaxLen \in Nat /\ MaxRead \in Nat /\ Len(input) \in Nat
      /\ input \in Seq(Int) /\ input \in Streams /\ sq \in [0..MaxLen-1 -> Int]
  BY <1>1, StreamType DEF TypeOK
<1>3. InTurn(frames, 0) /\ got = len /\ \A i \in 1..got : input[i] # Mark
  <2>1. PICK p \in Nat : InTurn(frames, p) /\ p = got - len /\ p = 0 /\ \A i \in 1..got : input[i] # Mark
    BY <1>1 DEF Chain
  <2> QED  BY <1>2, <2>1
<1>4. InTurn(frames', 0)
  BY <1>1, <1>3
<1>5. ASSUME NEW k \in Nat, FirstFrom(input, 0, k)
      PROVE  /\ k + 3 <= MaxLen - 2 * MaxRead + 1 /\ k + 3 <= Len(input)
             /\ \A i \in 1..k+3 : input[i] # Mark
  <2>1. k + 3 <= Len(input)
    BY <1>5 DEF FirstFrom, StartsAt
  <2>2. k \in 0..Len(input)
    BY <1>2, <2>1
  <2> QED  BY <1>2, <1>5, <2>1, <2>2, RawFramerAssumption
<1>6. CASE IdentifyFull
  <2>1. MaxLen - len < 2 * MaxRead /\ pc' = "read" /\ got' = got /\ len' = len
    BY <1>6 DEF IdentifyFull
  <2>2. Found(0, got')
    <3>1. MaxLen - 2 * MaxRead + 1 <= got
      BY <1>2, <1>3, <2>1
    <3>2. ASSUME NEW k \in Nat, FirstFrom(input, 0, k) PROVE k + 3 <= got
      BY <1>2, <1>5, <3>1, <3>2
    <3> QED  BY <2>1, <3>2 DEF Found
  <2>3. 0 = got' - len'
    BY <1>2, <1>3, <2>1
  <2> QED  BY <1>1, <1>4, <2>1, <2>2, <2>3, ChainNext
<1>7. CASE \E n \in ReadSizes : IdentifyMore(n, IdentifyRaw(Appended(n)))
  <2>1. PICK n \in ReadSizes : IdentifyMore(n, IdentifyRaw(Appended(n)))
    BY <1>7
  <2>2. /\ got' = got + n /\ len' = len + n /\ MaxLen - len >= 2 * MaxRead
        /\ pc' = IF n = 0 \/ IdentifyRaw(Appended(n)) THEN "read" ELSE "identify"
    BY <2>1 DEF IdentifyMore
  <2>3. Offered(n)
    BY <1>1, ReadSizesOffered
  <2>4. n \in Nat /\ n <= MaxRead /\ got + n <= Len(input)
    BY <1>2, <2>3 DEF Offered, ReadSizes
  <2>5. 0 = got' - len' /\ got' = len + n
    BY <1>2, <1>3, <2>2, <2>4
  <2>6. DOMAIN Appended(n) = 1..len+n /\ \A i \in 1..len+n : Appended(n)[i] = input[i]
    <3>1. \A i \in 0..len-1 : sq[offs+i] = input[got-len+i+1]
      BY <1>1 DEF HoldsTail
    <3>2. offs \in Nat /\ offs + len + n <= MaxLen /\ len <= got
      BY <1>1, <1>2, <1>3, <2>2, <2>4
    <3>3. \A i \in 0..len+n-1 : Copied(sq, offs + len, n)[offs+i] = input[got-len+i+1]
      <4>1. TypeOK /\ Offered(n) /\ offs \in Nat /\ offs + len + n <= MaxLen /\ len <= got
        BY <1>1, <2>3, <3>2
      <4>2. sq \in [0..MaxLen-1 -> Int]
        BY <1>2
      <4>3. /\ Copied(sq, offs + len, n) \in [0..MaxLen-1 -> Int]
            /\ \A i \in 0..len+n-1 : Copied(sq, offs + len, n)[offs+i] = input[got-len+i+1]
        BY ONLY <3>1, <4>1, <4>2, CopiedHolds
      <4> QED  BY <4>3
    <3>4. ASSUME NEW i \in 1..len+n PROVE Appended(n)[i] = input[i]
      <4>1. i - 1 \in 0..len+n-1
        BY <1>2, <2>4
      <4>2. Copied(sq, offs + len, n)[offs+(i-1)] = input[got-len+(i-1)+1]
        BY <3>3, <4>1
      <4>3. offs + (i - 1) = offs + i - 1 /\ got - len + (i - 1) + 1 = i
        BY <1>2, <1>3, <3>2
      <4> QED  BY <4>2, <4>3 DEF Appended
    <3>5. DOMAIN Appended(n) = 1..len+n
      BY DEF Appended
    <3> QED  BY <3>4, <3>5
  <2>7. CASE n = 0
    <3>1. got = Len(input)
      BY <1>2, <2>4, <2>7 DEF ReadSizes
    <3>2. Found(0, got')
      <4>1. got' = got
        BY <1>2, <2>2, <2>7
      <4>2. ASSUME NEW k \in Nat, FirstFrom(input, 0, k) PROVE k + 3 <= got
        BY <1>5, <3>1, <4>2
      <4> QED  BY <4>1, <4>2 DEF Found
    <3> QED  BY <1>1, <1>4, <2>2, <2>5, <2>7, <3>2, ChainNext
  <2>8. CASE IdentifyRaw(Appended(n))
    <3>1. PICK i \in 1..len+n : input[i] = Mark
      BY <2>6, <2>8 DEF IdentifyRaw
    <3>2. ASSUME NEW k \in Nat, FirstFrom(input, 0, k) PROVE k + 3 <= got'
      <4>1. ~(i \in 1..k+3)
        BY <1>5, <3>1, <3>2
      <4> QED  BY <1>2, <2>4, <2>5, <3>1, <4>1
    <3>3. Found(0, got')
      BY <3>2 DEF Found
    <3> QED  BY <1>1, <1>4, <2>2, <2>5, <2>8, <3>3, ChainNext
  <2>9. CASE n # 0 /\ ~IdentifyRaw(Appended(n))
    <3>1. pc' = "identify"
      BY <2>2, <2>9
    <3>2. \A i \in 1..got' : input'[i] # Mark
      BY <1>1, <2>5, <2>6, <2>9 DEF IdentifyRaw
    <3>3. \E p \in Nat : InTurn(frames, p)' /\ p = 0 /\ p = got' - len'
      BY <1>1, <1>4, <2>5 DEF InTurn
    <3> QED  BY <3>1, <3>2, <3>3 DEF Chain
  <2> QED  BY <2>7, <2>8, <2>9
<1> QED  BY <1>6, <1>7 DEF Identify

LEMMA ProcessChain ==
  ASSUME TypeOK, HoldsTail, pc \in {"read", "again"}, Chain, NEW n, Offered(n),
         input' = input, Process(n)
  PROVE  Chain'
<1>1. /\ len \in Nat /\ got \in Nat /\ n \in Nat /\ Len(input) \in Nat /\ input \in Seq(Int)
      /\ got + n <= Len(input)
  BY StreamType DEF Offered
<1>2. PICK b \in Nat : InTurn(frames, b) /\ b = got - len /\ Found(b, got)
  BY DEF Chain
<1>3. CASE NoRoom(n)
  <2>1. frames' = frames /\ pc' = "failed"
    BY <1>3 DEF NoRoom
  <2> QED  BY <1>2, <2>1, ChainFailed
<1>4. CASE ~NoRoom(n)
  <2> DEFINE q == Contents(n)
  <2>1. n <= MaxLen - len
    BY <1>4 DEF Process
  <2>2. Shows(q, b) /\ Len(q) = len + n
    BY <1>1, <1>2, <2>1, ContentsOf DEF Shows
  <2>3. \/ Len(q) < 8 /\ Settle(n, 0, 0, 0)
        \/ Len(q) >= 8 /\ NoneFrom(q, 0) /\ Settle(n, Len(q), 0, 0)
        \/ \E f \in 0..Len(q)-1 :
             /\ Len(q) >= 8 /\ FirstFrom(q, 0, f)
             /\ \/ Settle(n, f, 0, 0)
                \/ \E k \in 0..Len(q)-1 :
                     /\ Len(q) - f >= 8 /\ FirstFrom(q, SecondSearch(f), k)
                     /\ IF k - f > MaxDst THEN Settle(n, f, 0, -3) ELSE Settle(n, f, k - f, 1)
    BY <1>4 DEF Process
  <2>4. ASSUME NEW r, NEW s \in Nat, NEW d \in Nat, s <= Len(q), Settle(n, s, d, r)
        PROVE  /\ got' = got + n /\ got' - len' = b + s + d
               /\ r # 1 => frames' = frames
               /\ r = 1 => frames' = Append(frames, SubSeq(q, s + 1, s + d))
               /\ r = 0 => pc' \in {"read", "end"}
               /\ r = 1 => pc' = "again"
    <3>1. got' = got + n /\ len' = len + n - s - d
      BY <2>4 DEF Settle, Left
    <3>2. frames' = IF r = 1 THEN Append(frames, SubSeq(q, s + 1, s + d)) ELSE frames
      BY <2>4 DEF Settle
    <3>3. got' - len' = b + s + d
      BY <1>1, <1>2, <3>1
    <3>4. (r = 0 => pc' \in {"read", "end"}) /\ (r = 1 => pc' = "again")
      BY <2>4 DEF Settle
    <3>5. (r # 1 => frames' = frames) /\ (r = 1 => frames' = Append(frames, SubSeq(q, s + 1, s + d)))
      BY <3>2
    <3> QED  BY <3>1, <3>3, <3>4, <3>5
  <2> HIDE DEF q
  <2>5. CASE Settle(n, 0, 0, 0)
    <3>0. 0 \in Nat /\ 0 <= Len(q) /\ 0 # 1 /\ 0 = 0
      BY <1>1, <2>2
    <3>1. got' = got + n /\ got' - len' = b + 0 + 0 /\ frames' = frames /\ pc' \in {"read", "end"}
      BY ONLY <2>4, <2>5, <3>0
    <3>2. Found(b, got')
      <4>1. \A k \in Nat : k + 3 <= got => k + 3 <= got'
        BY <1>1, <3>1
      <4> QED  BY <1>2, <4>1 DEF Found
    <3> QED  BY <1>2, <3>1, <3>2, ChainNext
  <2>6. CASE Len(q) >= 8 /\ NoneFrom(q, 0) /\ Settle(n, Len(q), 0, 0)
    <3> DEFINE e == b + Len(q)
    <3>0. 0 \in Nat /\ Len(q) \in Nat /\ Len(q) <= Len(q) /\ 0 # 1 /\ 0 = 0
      BY <1>1, <2>2
    <3>1. got' = got + n /\ got' - len' = b + Len(q) + 0 /\ frames' = frames /\ pc' \in {"read", "end"}
      BY ONLY <2>4, <2>6, <3>0
    <3>2. e = got + n /\ e \in b..Len(input) /\ e \in Nat
      BY <1>1, <1>2, <2>2
    <3>3. ASSUME NEW k \in Nat, FirstFrom(input, b, k) PROVE FALSE
      <4>1. b <= k /\ StartsAt(input, k)
        BY <1>1, <3>3, FirstStart
      <4>2. k = b \/ k + 3 <= got
        BY <1>2, <3>3 DEF Found
      <4> DEFINE m == k - b
      <4>3. m \in Nat /\ m + 3 <= Len(q) /\ b + m = k /\ m \in 0..Len(q)-1
        BY <1>1, <1>2, <2>2, <2>6, <4>1, <4>2
      <4> HIDE DEF m
      <4>4. StartsAt(q, m)
        BY <2>2, <4>1, <4>3, ShowsStart
      <4> QED  BY <2>6, <4>3, <4>4 DEF NoneFrom
    <3>4. NoneFrom(input, b)
      <4>1. SUFFICES ASSUME Starts(input, b) # {} PROVE FALSE
        BY DEF NoneFrom, Starts
      <4>2. Starts(input, b) \in SUBSET Nat
        BY <1>2 DEF Starts
      <4> DEFINE k == Least(Starts(input, b))
      <4>3. k \in Starts(input, b) /\ \A j \in Starts(input, b) : k <= j
        BY <4>1, <4>2, LeastOf
      <4> HIDE DEF k
      <4>4. k \in Nat /\ k >= b /\ k <= Len(input) - 1 /\ StartsAt(input, k)
        BY <1>1, <1>2, <4>3 DEF Starts
      <4>5. ASSUME NEW j \in b..k-1 PROVE ~StartsAt(input, j)
        <5>1. j \in b..Len(input)-1 /\ ~(k <= j)
          BY <1>1, <4>4
        <5> QED  BY <4>3, <5>1 DEF Starts
      <4>6. FirstFrom(input, b, k)
        BY <4>4, <4>5 DEF FirstFrom
      <4> QED  BY <3>3, <4>4, <4>6
    <3>5. InTurn(frames, e)
      BY <1>2, <3>2, <3>4, InTurnNone
    <3>6. Found(e, got')
      <4>1. ASSUME NEW k \in Nat, FirstFrom(input, e, k) PROVE FALSE
        <5>1. e <= k /\ k + 3 <= Len(input) /\ StartsAt(input, k)
          BY <1>1, <3>2, <4>1, FirstStart
        <5>2. k \in b..Len(input)-1
          BY <1>1, <3>2, <5>1
        <5> QED  BY <3>4, <5>1, <5>2 DEF NoneFrom
      <4> QED  BY <4>1 DEF Found
    <3>7. e = got' - len'
      BY <1>2, <2>2, <3>1
    <3> QED  BY <3>1, <3>2, <3>5, <3>6, <3>7, ChainNext
  <2>7. ASSUME NEW f \in 0..Len(q)-1, FirstFrom(q, 0, f)
        PROVE  /\ f \in Nat /\ f <= Len(q) /\ b + f \in Nat /\ FirstFrom(input, b, b + f)
               /\ InTurn(frames, b + f) /\ StartsAt(input, b + f)
    <3>1. f \in Nat /\ f <= Len(q) /\ b + f \in Nat /\ b + 0 = b
      BY <1>1, <1>2, <2>2
    <3>2. FirstFrom(input, b + 0, b + f)
      BY <2>2, <2>7, <3>1, ShowsFirst
    <3>3. FirstFrom(input, b, b + f)
      BY <3>1, <3>2
    <3> QED  BY <1>1, <1>2, <3>1, <3>3, FirstStart, InTurnSkipped
  <2>8. ASSUME NEW p \in Nat, NEW m, StartsAt(input, p) PROVE Found(p, m)
    <3>1. ASSUME NEW k \in Nat, FirstFrom(input, p, k) PROVE k = p
      <4>1. p <= k
        BY <1>1, <3>1, FirstStart
      <4>2. ~(p \in p..k-1)
        BY <2>8, <3>1 DEF FirstFrom
      <4> QED  BY <4>1, <4>2
    <3> QED  BY <3>1 DEF Found
  <2>9. ASSUME NEW f \in 0..Len(q)-1, FirstFrom(q, 0, f), Settle(n, f, 0, 0) PROVE Chain'
    <3>1. /\ f \in Nat /\ f <= Len(q) /\ b + f \in Nat
          /\ InTurn(frames, b + f) /\ StartsAt(input, b + f)
      BY <2>7, <2>9
    <3>2. got' - len' = b + f + 0 /\ frames' = frames /\ pc' \in {"read", "end"}
      BY <2>4, <2>9, <3>1
    <3>3. b + f = got' - len'
      BY <1>2, <3>1, <3>2
    <3>4. Found(b + f, got')
      BY <2>8, <3>1
    <3> QED  BY <3>1, <3>2, <3>3, <3>4, ChainNext
  <2>10. ASSUME NEW f \in 0..Len(q)-1, FirstFrom(q, 0, f), Settle(n, f, 0, -3) PROVE Chain'
    <3>1. pc' = "failed" /\ frames' = frames
      BY <2>10 DEF Settle
    <3> QED  BY <1>2, <3>1, ChainFailed
  <2>11. ASSUME NEW f \in 0..Len(q)-1, FirstFrom(q, 0, f), Len(q) - f >= 8,
                NEW k \in 0..Len(q)-1, FirstFrom(q, SecondSearch(f), k), Settle(n, f, k - f, 1)
         PROVE  Chain'
    <3> DEFINE p == b + f
               e == b + k
    <3>1. /\ f \in Nat /\ f <= Len(q) /\ p \in Nat
          /\ InTurn(frames, p) /\ StartsAt(input, p)
      BY <2>7, <2>11
    <3>2. FirstFrom(q, f + 4, k) /\ f + 4 \in Nat /\ k \in Nat /\ k >= f + 4 /\ b + (f + 4) = p + 4 /\ e \in Nat
      BY <1>2, <2>11, <3>1 DEF SecondSearch, FirstFrom
    <3>3. FirstFrom(input, b + (f + 4), e)
      BY <2>2, <3>2, ShowsFirst
    <3>4. FirstFrom(input, p + 4, e)
      BY <3>2, <3>3
    <3>5. p + 8 <= Len(input)
      BY <1>1, <1>2, <2>2, <2>11, <3>1
    <3>6. SubSeq(q, f + 1, k) = SubSeq(input, p + 1, e)
      <4> DEFINE u == f + 1
      <4>1. u \in Nat /\ k \in Nat /\ 1 <= u /\ u <= k /\ k <= Len(q) /\ b + u = p + 1
        BY <1>1, <1>2, <2>2, <3>1, <3>2
      <4> HIDE DEF u
      <4>2. TypeOK /\ Shows(q, b)
        BY <2>2
      <4>3. SubSeq(q, u, k) = SubSeq(input, b + u, b + k)
        <5>1. TypeOK /\ Shows(q, b) /\ u \in Nat /\ k \in Nat
          BY <4>1, <4>2
        <5>2. 1 <= u /\ u <= k /\ k <= Len(q)
          BY <4>1
        <5> QED  BY ONLY <5>1, <5>2, ShowsPart, Zenon
      <4> QED  BY <4>1, <4>3 DEF u
    <3>7. k - f \in Nat /\ f + (k - f) = k
      BY <3>1, <3>2
    <3>8. /\ got' - len' = b + f + (k - f) /\ pc' = "again"
          /\ frames' = Append(frames, SubSeq(q, f + 1, f + (k - f)))
      BY <2>4, <2>11, <3>1, <3>7
    <3>9. e = got' - len'
      BY <1>2, <3>1, <3>2, <3>8
    <3> HIDE DEF p, e
    <3>10. InTurn(Append(frames, SubSeq(input, p + 1, e)), e)
      BY <3>1, <3>2, <3>4, <3>5, InTurnDelivered
    <3>11. frames' = Append(frames, SubSeq(input, p + 1, e))
      BY <3>6, <3>7, <3>8
    <3>12. StartsAt(input, e)
      BY <3>4 DEF FirstFrom
    <3>13. Found(e, got')
      BY <2>8, <3>2, <3>12
    <3> QED  BY <3>2, <3>8, <3>9, <3>10, <3>11, <3>13, ChainNext
  <2> QED  BY <2>3, <2>5, <2>6, <2>9, <2>10, <2>11
<1> QED  BY <1>3, <1>4

LEMMA NextChain == IInv /\ Chain /\ [Next]_vars => Chain'
<1> SUFFICES ASSUME IInv, Chain, [Next]_vars PROVE Chain'
  OBVIOUS
<1>1. CASE Identify
  BY <1>1, IdentifyChain
<1>2. CASE \E n \in ReadSizes : Read(n) /\ Process(n)
  <2>1. PICK n \in ReadSizes : Read(n) /\ Process(n)
    BY <1>2
  <2>2. Offered(n)
    BY ReadSizesOffered DEF IInv
  <2> QED  BY <2>1, <2>2, ProcessChain DEF Read, IInv
<1>3. CASE Again /\ Process(0)
  <2>1. Offered(0)
    BY StreamType DEF Offered, TypeOK, IInv
  <2> QED  BY <1>3, <2>1, ProcessChain DEF Again, IInv
<1>4. CASE UNCHANGED vars
  BY <1>4 DEF vars, Chain, InTurn, Found
<1> QED  BY <1>1, <1>2, <1>3, <1>4 DEF Next, Done

(* The frames delivered are those of the stream, in order and one after    *)
(* the other, wherever the reads cut it: a start code that has arrived in  *)
(* part only costs dstf_process_raw_h264_stream_to_frames() no frame.      *)
THEOREM NoFrameLost == Spec => []FramesInOrder
<1>1. Init => Chain
  BY InitChain
<1>2. IInv /\ Chain /\ [Next]_vars => Chain'
  BY NextChain
<1>3. IInv /\ Chain => FramesInOrder
  <2> SUFFICES ASSUME IInv, Chain PROVE FramesInOrder
    OBVIOUS
  <2>1. PICK p \in Nat : InTurn(frames, p)
    BY DEF Chain
  <2> DEFINE rest == FramesFrom(input)[p]
             all == FramesOf(input)
             l == Len(frames)
  <2>2. input \in Seq(Int) /\ p \in 0..Len(input)
    BY <2>1, StreamType DEF IInv, InTurn
  <2>3. rest \in Seq(Seq(Int)) /\ frames \in Seq(Seq(Int)) /\ all = frames \o rest
    BY <2>1, <2>2, FramesType DEF FrameLists, InTurn
  <2> HIDE DEF rest, all
  <2>4. /\ all \in Seq(Seq(Int)) /\ Len(all) = l + Len(rest)
        /\ \A i \in 1..l+Len(rest) : all[i] = IF i <= l THEN frames[i] ELSE rest[i-l]
    BY <2>3, ConcatProperties
  <2>5. l \in Nat /\ Len(rest) \in Nat /\ l <= Len(all)
    BY <2>3, <2>4
  <2>6. \A i \in 1..l : all[i] = frames[i] /\ all[i] \in Seq(Int)
    <3>1. \A i \in 1..l : frames[i] \in Seq(Int)
      BY <2>3, ElementOfSeq
    <3>2. \A i \in 1..l : i \in 1..l+Len(rest) /\ i <= l
      BY <2>5
    <3> QED  BY <2>4, <3>1, <3>2
  <2>7. /\ SubSeq(all, 1, l) \in Seq(Seq(Int)) /\ Len(SubSeq(all, 1, l)) = l
        /\ \A i \in 1..l : SubSeq(all, 1, l)[i] = all[i]
    <3> HIDE DEF l
    <3>1. /\ SubSeq(all, 1, l) \in Seq(Seq(Int))
          /\ Len(SubSeq(all, 1, l)) = IF 1 <= l THEN l - 1 + 1 ELSE 0
          /\ \A i \in 1..l-1+1 : SubSeq(all, 1, l)[i] = all[1+i-1]
      <4>1. 1 \in Int /\ l \in Int /\ \A i \in 1..l : all[i] \in Seq(Int)
        BY <2>5, <2>6
      <4> QED  BY <4>1, SubSeqProperties
    <3>2. (IF 1 <= l THEN l - 1 + 1 ELSE 0) = l /\ l - 1 + 1 = l /\ \A i \in 1..l : 1 + i - 1 = i
      BY <2>5
    <3> QED  BY <3>1, <3>2
  <2>8. SubSeq(all, 1, l) = frames
    BY <2>3, <2>6, <2>7, SeqEqual
  <2> QED  BY <2>5, <2>8 DEF FramesInOrder, all
<1> QED  BY <1>1, <1>2, <1>3, SpecIInv, PTL DEF Spec
=============================================================================
