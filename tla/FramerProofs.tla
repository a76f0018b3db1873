---------------------------- MODULE FramerProofs ----------------------------
(***************************************************************************)
(* Proofs about the queue of FrameQueue as DhavFramer uses it, for queues, *)
(* reads and streams of any length.                                        *)
(***************************************************************************)
EXTENDS DhavFramer, SequenceTheorems, WellFoundedInduction, TLAPS

(* The inductive invariant.  Identification appends without packing, which *)
(* is safe only as it begins, and leaves, the cells in use at cell 0.      *)
IInv ==
  /\ TypeOK
  /\ HoldsTail
  /\ pc = "identify" => offs = 0

(* What new data the queue is asked to take. *)
Offered(n) == n \in Nat /\ got + n <= Len(input)

(* A read() returns no more than is left of the stream. *)
LEMMA ReadSizesOffered ==
  ASSUME TypeOK, NEW n \in ReadSizes
  PROVE  Offered(n)
<1>1. input \in Seq(Int) BY FrameQueueAssumption DEF TypeOK
<1>2. Len(input) \in Nat BY <1>1
<1> QED BY <1>2, FrameQueueAssumption DEF ReadSizes, Offered, TypeOK

(* Copying the next n of the stream behind l cells that hold what precedes *)
(* them keeps the cells in order.                                          *)
LEMMA CopiedHolds ==
  ASSUME TypeOK, NEW n, Offered(n),
         NEW cells \in [0..MaxLen-1 -> Int], NEW at \in Nat, at + len + n <= MaxLen,
         len <= got,
         \A i \in 0..len-1 : cells[at + i] = input[got - len + i + 1]
  PROVE  /\ Copied(cells, at + len, n) \in [0..MaxLen-1 -> Int]
         /\ \A i \in 0..len+n-1 :
              Copied(cells, at + len, n)[at + i] = input[got - len + i + 1]
<1>1. input \in Seq(Int) /\ len \in Nat /\ got \in Nat /\ MaxLen \in Nat
  BY FrameQueueAssumption DEF TypeOK
<1>2. n \in Nat /\ got + n <= Len(input) BY DEF Offered
<1>3. ASSUME NEW c \in 0..MaxLen-1, c \in at+len..at+len+n-1
      PROVE  input[got + c - (at + len) + 1] \in Int
  <2>1. got + c - (at + len) + 1 \in 1..Len(input) BY <1>1, <1>2, <1>3
  <2> QED BY <2>1, <1>1
<1>4. Copied(cells, at + len, n) \in [0..MaxLen-1 -> Int]
  BY <1>3 DEF Copied
<1>5. ASSUME NEW i \in 0..len+n-1
      PROVE  Copied(cells, at + len, n)[at + i] = input[got - len + i + 1]
  <2>1. at + i \in 0..MaxLen-1 BY <1>1, <1>2
  <2>2. CASE i < len
    <3>0. i \in 0..len-1 BY <1>1, <1>2, <2>2
    <3>1. at + i \notin at+len..at+len+n-1 BY <1>1, <1>2, <2>2
    <3>2. Copied(cells, at + len, n)[at + i] = cells[at + i]
      BY <2>1, <3>1 DEF Copied
    <3> QED BY <3>0, <3>2
  <2>3. CASE ~(i < len)
    <3>1. at + i \in at+len..at+len+n-1 BY <1>1, <1>2, <2>3
    <3>2. Copied(cells, at + len, n)[at + i] = input[got + (at + i) - (at + len) + 1]
      BY <2>1, <3>1 DEF Copied
    <3>3. got + (at + i) - (at + len) + 1 = got - len + i + 1 BY <1>1, <1>2
    <3> QED BY <3>2, <3>3
  <2> QED BY <2>2, <2>3
<1> QED BY <1>4, <1>5

(* Loading: whether or not the queue is packed first, the new data lies    *)
(* behind the old, in order, and within sq[].                              *)
LEMMA LoadedHolds ==
  ASSUME TypeOK, HoldsTail, pc # "failed", NEW n, Offered(n), n <= MaxLen - len
  PROVE  /\ LoadedOffs(n) \in Nat /\ LoadedOffs(n) + len + n <= MaxLen
         /\ Loaded(n) \in [0..MaxLen-1 -> Int]
         /\ \A i \in 0..len+n-1 :
              Loaded(n)[LoadedOffs(n) + i] = input[got - len + i + 1]
<1> DEFINE at == LoadedOffs(n)
           packed == [c \in 0..MaxLen-1 |->
                        IF at # offs /\ c < len THEN sq[offs + c] ELSE sq[c]]
<1>1. /\ len \in Nat /\ offs \in Nat /\ MaxLen \in Nat /\ offs + len <= MaxLen
      /\ n \in Nat /\ sq \in [0..MaxLen-1 -> Int]
  BY FrameQueueAssumption DEF TypeOK, Offered
<1>2. at \in Nat /\ at + len + n <= MaxLen BY <1>1 DEF LoadedOffs
<1>3. packed \in [0..MaxLen-1 -> Int]
  <2>1. ASSUME NEW c \in 0..MaxLen-1, c < len PROVE sq[offs + c] \in Int
    BY <1>1, <2>1
  <2> QED BY <2>1, <1>1
<1>4. ASSUME NEW i \in 0..len-1 PROVE packed[at + i] = input[got - len + i + 1]
  <2>1. sq[offs + i] = input[got - len + i + 1] BY DEF HoldsTail
  <2>2. at + i \in 0..MaxLen-1 BY <1>1, <1>2
  <2>3. CASE at = offs BY <2>1, <2>2, <2>3
  <2>4. CASE at # offs
    <3>1. at = 0 BY <2>4 DEF LoadedOffs
    <3> QED BY <2>1, <2>2, <2>4, <3>1, <1>1
  <2> QED BY <2>3, <2>4
<1>5. Loaded(n) = Copied(packed, at + len, n) BY DEF Loaded
<1>6. len <= got BY DEF HoldsTail
<1> HIDE DEF at, packed
<1>7. /\ Copied(packed, at + len, n) \in [0..MaxLen-1 -> Int]
      /\ \A i \in 0..len+n-1 :
           Copied(packed, at + len, n)[at + i] = input[got - len + i + 1]
  BY <1>2, <1>3, <1>4, <1>6, CopiedHolds
<1> QED BY <1>2, <1>5, <1>7 DEF at

(* The queue's contents after loading are a sequence. *)
LEMMA ContentsType ==
  ASSUME TypeOK, HoldsTail, pc # "failed", NEW n, Offered(n), n <= MaxLen - len
  PROVE  Contents(n) \in Seq(Int) /\ Len(Contents(n)) = len + n
<1>1. len \in Nat /\ n \in Nat /\ MaxLen \in Nat
  BY FrameQueueAssumption DEF TypeOK, Offered
<1>2. ASSUME NEW i \in 1..len+n PROVE Loaded(n)[LoadedOffs(n) + i - 1] \in Int
  <2>1. LoadedOffs(n) + i - 1 \in 0..MaxLen-1 BY LoadedHolds, <1>1
  <2> QED BY <2>1, LoadedHolds
<1>3. len + n \in Nat BY <1>1
<1>4. Contents(n) \in [1..len+n -> Int] BY <1>2 DEF Contents
<1> QED BY <1>3, <1>4, SeqDef, LenProperties

(* Whatever is dropped and delivered, as long as it is in the queue, the   *)
(* rest stays in order.                                                    *)
LEMMA SettleIInv ==
  ASSUME IInv, pc # "failed", NEW n, Offered(n), n <= MaxLen - len,
         NEW skip \in Nat, NEW size \in Nat, skip + size <= len + n,
         NEW r \in {-3, 0, 1, 3}, eof' \in BOOLEAN, input' = input,
         Settle(n, skip, size, r)
  PROVE  IInv'
<1>1. TypeOK /\ HoldsTail BY DEF IInv
<1>2. /\ len \in Nat /\ offs \in Nat /\ MaxLen \in Nat /\ got \in Nat /\ n \in Nat
      /\ input \in Streams /\ input \in Seq(Int) /\ got + n <= Len(input) /\ len <= got
      /\ frames \in Seq(Seq(Int))
  BY <1>1, FrameQueueAssumption DEF TypeOK, Offered, HoldsTail
<1>3. /\ LoadedOffs(n) \in Nat /\ LoadedOffs(n) + len + n <= MaxLen
      /\ Loaded(n) \in [0..MaxLen-1 -> Int]
      /\ \A i \in 0..len+n-1 :
           Loaded(n)[LoadedOffs(n) + i] = input[got - len + i + 1]
  BY <1>1, LoadedHolds
<1>4. Contents(n) \in Seq(Int) /\ Len(Contents(n)) = len + n
  BY <1>1, ContentsType
<1>5. /\ sq' = Loaded(n) /\ offs' = LoadedOffs(n) + skip + size
      /\ len' = len + n - skip - size /\ got' = got + n /\ ret' = r
      /\ pc' \in {"again", "failed", "end", "read"}
  BY DEF Settle, Left
<1>6. frames' \in Seq(Seq(Int))
  <2>1. SubSeq(Contents(n), skip + 1, skip + size) \in Seq(Int)
    <3> DEFINE q == Contents(n)
    <3>1. q \in Seq(Int) /\ Len(q) = len + n BY <1>4
    <3>2. skip + size \in Nat /\ skip + 1 \in Int /\ skip + size \in Int
      OBVIOUS
    <3> HIDE DEF q
    <3>3. ASSUME NEW i \in skip+1..skip+size PROVE q[i] \in Int
      <4>1. i \in 1..Len(q) BY <1>2, <3>1
      <4> QED BY <3>1, <4>1
    <3>4. SubSeq(q, skip + 1, skip + size) \in Seq(Int)
      BY ONLY <3>2, <3>3, SubSeqProperties
    <3> QED BY <3>4 DEF q
  <2>2. Append(frames, SubSeq(Contents(n), skip + 1, skip + size)) \in Seq(Seq(Int))
    BY <1>2, <2>1, AppendProperties
  <2> QED BY <1>2, <2>2 DEF Settle
<1>7. TypeOK'
  <2>1. got' \in 0..Len(input') BY <1>2, <1>5
  <2>2. offs' \in 0..MaxLen /\ len' \in 0..MaxLen /\ offs' + len' <= MaxLen
    BY <1>2, <1>3, <1>5, SMTT(60)
  <2> QED BY <1>2, <1>3, <1>5, <1>6, <2>1, <2>2 DEF TypeOK
<1>8. HoldsTail'
  <2>1. len' <= got' BY <1>2, <1>5
  <2>2. ASSUME NEW i \in 0..len'-1
        PROVE  sq'[offs' + i] = input'[got' - len' + i + 1]
    <3>0. i \in Int /\ LoadedOffs(n) \in Int BY <1>2, <1>3, <1>5
    <3>1. skip + size + i \in 0..len+n-1 BY <1>2, <1>5
    <3>2. sq'[LoadedOffs(n) + (skip + size + i)] = input[got - len + (skip + size + i) + 1]
      BY <1>3, <1>5, <3>1
    <3>3. /\ LoadedOffs(n) + (skip + size + i) = offs' + i
          /\ got - len + (skip + size + i) + 1 = got' - len' + i + 1
      BY <1>2, <1>5, <3>0, SMTT(60)
    <3> QED BY <3>2, <3>3
  <2> QED BY <2>1, <2>2 DEF HoldsTail
<1> QED BY <1>5, <1>7, <1>8 DEF IInv

LEMMA InitIInv == Init => IInv
<1> SUFFICES ASSUME Init PROVE IInv OBVIOUS
<1>1. input \in Seq(Int) /\ Len(input) \in Nat
  BY FrameQueueAssumption DEF Init
<1>2. TypeOK
  BY <1>1, FrameQueueAssumption DEF Init, TypeOK
<1>3. HoldsTail BY DEF Init, HoldsTail
<1> QED BY <1>2, <1>3 DEF IInv, Init

(* Appending in the identification loop, which leaves room for a read.     *)
LEMMA IdentifyIInv ==
  ASSUME IInv, Identify
  PROVE  IInv'
<1>1. TypeOK /\ HoldsTail /\ offs = 0 /\ pc = "identify"
  BY DEF IInv, Identify, IdentifyFull, IdentifyMore
<1>2. /\ len \in Nat /\ MaxLen \in Nat /\ MaxRead \in Nat /\ got \in Nat
      /\ len <= got /\ sq \in [0..MaxLen-1 -> Int] /\ input \in Seq(Int)
      /\ \A i \in 0..len-1 : sq[offs + i] = input[got - len + i + 1]
  BY <1>1, FrameQueueAssumption DEF TypeOK, HoldsTail
<1>3. input' = input /\ offs' = offs /\ pc' \in {"read", "identify"}
      /\ UNCHANGED <<frames, ret, eof>>
  BY DEF Identify, IdentifyFull, IdentifyMore
<1>4. CASE IdentifyFull
  <2>1. UNCHANGED <<got, sq, len>> BY <1>4 DEF IdentifyFull
  <2>2. TypeOK' BY <2>1, <1>1, <1>3 DEF TypeOK
  <2>3. HoldsTail' BY <2>1, <1>1, <1>2, <1>3 DEF HoldsTail
  <2> QED BY <2>2, <2>3, <1>1, <1>3 DEF IInv
<1>5. CASE \E n \in ReadSizes : IdentifyMore(n, IdentifyDhav(Appended(n)))
  <2>1. PICK n \in ReadSizes :
          /\ sq' = Copied(sq, offs + len, n) /\ len' = len + n /\ got' = got + n
          /\ MaxLen - len >= 2 * MaxRead
    BY <1>5 DEF IdentifyMore
  <2>2. Offered(n) BY <1>1, ReadSizesOffered
  <2>3. n \in Nat /\ n <= MaxRead /\ got + n <= Len(input) /\ Len(input) \in Nat
    <3>1. n \in Nat /\ got + n <= Len(input) BY <2>2 DEF Offered
    <3>2. n <= MaxRead BY <1>2 DEF ReadSizes
    <3> QED BY <1>2, <3>1, <3>2
  <2>4. offs + len + n <= MaxLen BY <1>1, <1>2, <2>1, <2>3
  <2>5. /\ sq' \in [0..MaxLen-1 -> Int]
        /\ \A i \in 0..len+n-1 : sq'[offs + i] = input[got - len + i + 1]
    <3>1. TypeOK /\ offs \in Nat BY <1>1
    <3>2. /\ sq \in [0..MaxLen-1 -> Int] /\ len <= got
          /\ \A i \in 0..len-1 : sq[offs + i] = input[got - len + i + 1]
      BY <1>2
    <3>3. /\ Copied(sq, offs + len, n) \in [0..MaxLen-1 -> Int]
          /\ \A i \in 0..len+n-1 :
               Copied(sq, offs + len, n)[offs + i] = input[got - len + i + 1]
      BY <2>2, <2>4, <3>1, <3>2, CopiedHolds
    <3> QED BY <2>1, <3>3
  <2>6. got' \in 0..Len(input) /\ len' \in 0..MaxLen /\ offs' + len' <= MaxLen
    BY <1>1, <1>2, <1>3, <2>1, <2>3, <2>4
  <2>7. TypeOK' BY <1>1, <1>3, <2>5, <2>6 DEF TypeOK
  <2>8. HoldsTail'
    <3>1. len' <= got' BY <1>2, <2>1, <2>3
    <3>2. got' - len' = got - len BY <1>2, <2>1, <2>3
    <3>3. ASSUME NEW i \in 0..len+n-1
          PROVE  sq'[offs' + i] = input'[got' - len' + i + 1]
      <4>1. sq'[offs + i] = input[got - len + i + 1] BY <2>5
      <4> QED BY <1>3, <3>2, <4>1
    <3>4. ASSUME NEW i \in 0..len'-1
          PROVE  sq'[offs' + i] = input'[got' - len' + i + 1]
      <4>1. i \in 0..len+n-1 BY <1>2, <2>1, <2>3
      <4> QED BY <3>3, <4>1
    <3> QED BY <3>1, <3>4 DEF HoldsTail
  <2> QED BY <1>1, <1>3, <2>7, <2>8 DEF IInv
<1> QED BY <1>4, <1>5 DEF Identify

(* A call of dstf_process_dhav_stream_to_frames() with n cells of data.    *)
LEMMA ProcessIInv ==
  ASSUME IInv, pc \in {"read", "again"}, NEW n, Offered(n),
         eof' \in BOOLEAN, input' = input, Process(n)
  PROVE  IInv'
<1>1. TypeOK /\ HoldsTail /\ pc # "failed" BY DEF IInv
<1>2. /\ len \in Nat /\ MaxLen \in Nat /\ got \in Nat /\ n \in Nat
      /\ input \in Seq(Nat) /\ input \in Seq(Int) /\ got + n <= Len(input)
  BY <1>1, FrameQueueAssumption, DhavFramerAssumption DEF TypeOK, Offered
<1>3. CASE NoRoom(n)
  <2>1. got' \in 0..Len(input') BY <1>2, <1>3 DEF NoRoom
  <2>2. TypeOK' BY <1>1, <1>3, <2>1 DEF TypeOK, NoRoom
  <2> QED BY <1>3, <2>2 DEF IInv, HoldsTail, NoRoom
<1>4. CASE ~NoRoom(n)
  <2> DEFINE q == Contents(n)
  <2>1. n <= MaxLen - len BY <1>4 DEF Process
  <2>2. Len(q) = len + n BY <1>1, <2>1, ContentsType
  <2>3. PICK s \in 0..Len(q) :
          \/ ~Enough(q, s) /\ Settle(n, s, 0, TooShort(q, s))
          \/ Incomplete(q, s) /\ Settle(n, s, 0, 0)
          \/ /\ Whole(q, s)
             /\ IF Advertised(q, s) > MaxDst
                  THEN Settle(n, s, 0, -3)
                  ELSE Settle(n, s, Advertised(q, s), 1)
    BY <1>4 DEF Process
  <2>4. s \in Nat /\ s <= len + n BY <1>2, <2>2, <2>3
  <2> HIDE DEF q
  <2>5. ASSUME NEW r \in {-3, 0, 1, 3}, Settle(n, s, 0, r) PROVE IInv'
    <3>1. s + 0 <= len + n BY <2>4
    <3> QED BY <1>1, <2>1, <2>4, <2>5, <3>1, SettleIInv
  <2>6. TooShort(q, s) \in {0, 3} BY DEF TooShort
  <2>7. ASSUME Whole(q, s), Settle(n, s, Advertised(q, s), 1) PROVE IInv'
    <3>1. s + 4 \in 1..len+n BY <1>2, <2>2, <2>4, <2>7 DEF Whole, AtHeader, Enough
    <3>2. Advertised(q, s) \in Nat
      <4>1. q[s + 4] = Loaded(n)[LoadedOffs(n) + (s + 4) - 1]
        BY <3>1 DEF q, Contents
      <4>2. s + 3 \in 0..len+n-1 BY <1>2, <2>4, <3>1
      <4>3. /\ Loaded(n)[LoadedOffs(n) + (s + 3)] = input[got - len + (s + 3) + 1]
            /\ LoadedOffs(n) \in Nat
        BY <1>1, <2>1, <4>2, LoadedHolds
      <4>4. LoadedOffs(n) + (s + 4) - 1 = LoadedOffs(n) + (s + 3)
        BY <2>4, <4>3
      <4>5. got - len + (s + 3) + 1 \in 1..Len(input)
        BY <1>1, <1>2, <2>4, <4>2 DEF HoldsTail
      <4>6. input[got - len + (s + 3) + 1] \in Nat BY <1>2, <4>5
      <4> QED BY <4>1, <4>3, <4>4, <4>6 DEF Advertised
    <3>3. s + Advertised(q, s) <= len + n BY <2>2, <2>7 DEF Whole
    <3> QED BY <1>1, <2>1, <2>4, <2>7, <3>2, <3>3, SettleIInv
  <2> QED BY <2>3, <2>5, <2>6, <2>7
<1> QED BY <1>3, <1>4

LEMMA NextIInv == IInv /\ [Next]_vars => IInv'
<1> SUFFICES ASSUME IInv, [Next]_vars PROVE IInv' OBVIOUS
<1>1. CASE Identify BY <1>1, IdentifyIInv
<1>2. CASE \E n \in ReadSizes : Read(n) /\ Process(n)
  <2>1. PICK n \in ReadSizes : Read(n) /\ Process(n) BY <1>2
  <2>2. Offered(n) BY ReadSizesOffered DEF IInv
  <2> QED BY <2>1, <2>2, ProcessIInv DEF Read
<1>3. CASE Again /\ Process(0)
  <2>1. Offered(0)
    <3>1. input \in Seq(Int) /\ got \in 0..Len(input)
      BY FrameQueueAssumption DEF IInv, TypeOK
    <3> QED BY <3>1 DEF Offered
  <2>2. eof' \in BOOLEAN BY <1>3 DEF Again, IInv, TypeOK
  <2> QED BY <1>3, <2>1, <2>2, ProcessIInv DEF Again
<1>4. CASE UNCHANGED vars
  BY <1>4 DEF vars, IInv, TypeOK, HoldsTail
<1> QED BY <1>1, <1>2, <1>3, <1>4 DEF Next, Done

LEMMA SpecIInv == Spec => []IInv
BY InitIInv, NextIInv, PTL DEF Spec

(* The type invariant holds of every stream: whatever a header advertises, *)
(* dstf_process_dhav_stream_to_frames() keeps within its queue.            *)
THEOREM FramerTypeCorrect == Spec => []TypeOK
<1>1. IInv => TypeOK BY DEF IInv
<1> QED BY <1>1, SpecIInv, PTL

(* What is queued is the end of what was read, in order, through packing,  *)
(* skipping and delivery: no frame is ever put together from other data.   *)
THEOREM QueueInOrder == Spec => []HoldsTail
<1>1. IInv => HoldsTail BY DEF IInv
<1> QED BY <1>1, SpecIInv, PTL

-----------------------------------------------------------------------------
(***************************************************************************)
(* The frames of a whole stream.                                           *)
(***************************************************************************)
LEMMA NatInduct ==
  ASSUME NEW S, 0 \in S, \A n \in Nat : n \in S => n + 1 \in S
  PROVE  \A n \in Nat : n \in S
<1> DEFINE Bad == Nat \ S
           R == OpToRel(<, Nat)
<1>1. SUFFICES ASSUME Bad # {} PROVE FALSE
  OBVIOUS
<1>2. IsWellFoundedOn(R, Nat)
  BY NatLessThanWellFounded
<1>3. \A x, y \in Nat : x < y => <<x, y>> \in R
  BY DEF OpToRel
<1> HIDE DEF R
<1>4. PICK k \in Bad : \A i \in Bad : <<i, k>> \notin R
  BY <1>1, <1>2, WFMin
<1>5. k \in Nat /\ k # 0 /\ k \notin S
  BY <1>4
<1>6. k - 1 \in Nat /\ k - 1 < k /\ k - 1 + 1 = k
  BY <1>5
<1>7. k - 1 \in Bad
  BY <1>5, <1>6
<1> QED  BY <1>3, <1>4, <1>5, <1>6, <1>7

FrameLists == Seq(Seq(Int))

(* FramesFrom at offset p, if f tells the frames from the offsets behind.  *)
Body(s, f, p) ==
  IF p + 4 > Len(s) \/ AwaitedAt(s, p) THEN <<>>
  ELSE IF IntactAt(s, p)
       THEN <<SubSeq(s, p + 1, p + s[p + 4])>> \o f[p + s[p + 4]]
       ELSE f[p + 1]

LEMMA IntactSize ==
  ASSUME NEW s \in Seq(Int), NEW p \in Nat, IntactAt(s, p)
  PROVE  s[p+4] \in 2..MaxLen /\ s[p+4] \in Nat /\ p + s[p+4] \in p+1..Len(s)
<1>1. PICK n \in 2..MaxLen : p + n <= Len(s) /\ s[p+4] = n
  BY DEF IntactAt
<1>2. MaxLen \in Nat /\ Len(s) \in Nat
  BY FrameQueueAssumption
<1>3. n \in Nat /\ p + n \in p+1..Len(s)
  BY <1>1, <1>2
<1> QED  BY <1>1, <1>3

LEMMA PartType ==
  ASSUME NEW s \in Seq(Int), NEW b \in Nat, NEW e \in Nat, e <= Len(s)
  PROVE  SubSeq(s, b + 1, e) \in Seq(Int)
<1>1. Len(s) \in Nat /\ b + 1 \in Int /\ e \in Int
  OBVIOUS
<1>2. ASSUME NEW i \in b+1..e PROVE s[i] \in Int
  <2>1. i \in 1..Len(s)
    BY <1>1
  <2> QED  BY <2>1, ElementOfSeq
<1> QED  BY <1>1, <1>2, SubSeqProperties

LEMMA BodyAgrees ==
  ASSUME NEW s \in Seq(Int), NEW p \in 0..Len(s), NEW f, NEW g,
         \A j \in p+1..Len(s) : f[j] = g[j]
  PROVE  Body(s, f, p) = Body(s, g, p)
<1>1. Len(s) \in Nat /\ p \in Nat
  OBVIOUS
<1>2. CASE p + 4 > Len(s) \/ AwaitedAt(s, p)
  BY <1>2 DEF Body
<1>3. CASE ~(p + 4 > Len(s) \/ AwaitedAt(s, p)) /\ IntactAt(s, p)
  <2>1. f[p + s[p+4]] = g[p + s[p+4]]
    BY <1>1, <1>3, IntactSize
  <2> QED  BY <1>3, <2>1 DEF Body
<1>4. CASE ~(p + 4 > Len(s) \/ AwaitedAt(s, p)) /\ ~IntactAt(s, p)
  <2>1. p + 1 \in p+1..Len(s)
    BY <1>1, <1>4
  <2> QED  BY <1>4, <2>1 DEF Body
<1> QED  BY <1>2, <1>3, <1>4

LEMMA BodyType ==
  ASSUME NEW s \in Seq(Int), NEW p \in 0..Len(s), NEW f,
         \A j \in p+1..Len(s) : f[j] \in FrameLists
  PROVE  Body(s, f, p) \in FrameLists
<1>1. Len(s) \in Nat /\ p \in Nat
  OBVIOUS
<1>2. CASE p + 4 > Len(s) \/ AwaitedAt(s, p)
  BY <1>2 DEF Body, FrameLists
<1>3. CASE ~(p + 4 > Len(s) \/ AwaitedAt(s, p)) /\ IntactAt(s, p)
  <2> DEFINE e == p + s[p+4]
             d == SubSeq(s, p + 1, e)
  <2>1. e \in p+1..Len(s)
    BY <1>1, <1>3, IntactSize
  <2> HIDE DEF e
  <2>2. d \in Seq(Int) /\ f[e] \in Seq(Seq(Int))
    <3>1. e \in Nat /\ e <= Len(s)
      BY <1>1, <2>1
    <3> QED  BY <1>1, <2>1, <3>1, PartType DEF FrameLists
  <2> HIDE DEF d
  <2>3. <<d>> \o f[e] \in Seq(Seq(Int))
    <3>1. <<d>> \in Seq(Seq(Int))
      BY <2>2
    <3> QED  BY <2>2, <3>1, ConcatProperties
  <2> QED  BY <1>3, <2>3 DEF Body, FrameLists, d, e
<1>4. CASE ~(p + 4 > Len(s) \/ AwaitedAt(s, p)) /\ ~IntactAt(s, p)
  <2>1. p + 1 \in p+1..Len(s)
    BY <1>1, <1>4
  <2> QED  BY <1>4, <2>1 DEF Body
<1> QED  BY <1>2, <1>3, <1>4

(* There is a function as FramesFrom says, defined from the stream's end.  *)
LEMMA FramesExist ==
  ASSUME NEW s \in Seq(Int)
  PROVE  \E f : f = [p \in 0..Len(s) |-> Body(s, f, p)]
<1> DEFINE l == Len(s)
           Good(m, f) == /\ f \in [l-m..l -> FrameLists]
                         /\ \A p \in l-m..l : f[p] = Body(s, f, p)
           S == {m \in Nat : m <= l => \E f : Good(m, f)}
<1>1. l \in Nat
  OBVIOUS
<1>2. 0 \in S
  <2> DEFINE f == [p \in l-0..l |-> <<>>]
  <2>1. <<>> \in FrameLists
    BY DEF FrameLists
  <2>2. f \in [l-0..l -> FrameLists]
    BY <2>1
  <2>3. ASSUME NEW p \in l-0..l PROVE f[p] = Body(s, f, p)
    <3>1. p + 4 > l
      BY <1>1
    <3> QED  BY <3>1 DEF Body
  <2>4. Good(0, f)
    BY <2>2, <2>3
  <2>5. \E g : Good(0, g)
    BY <2>4
  <2> QED  BY <2>5
<1>3. ASSUME NEW m \in Nat, m \in S, m + 1 <= l PROVE \E f : Good(m + 1, f)
  <2>1. m <= l
    BY <1>1, <1>3
  <2>2. PICK f : Good(m, f)
    BY <1>3, <2>1
  <2> DEFINE k == l - (m + 1)
             h == [p \in k..l |-> IF p = k THEN Body(s, f, k) ELSE f[p]]
  <2>3. k \in 0..l /\ k + 1 = l - m /\ \A p \in k..l : p # k => p \in l-m..l
    BY <1>1, <1>3
  <2>4. Body(s, f, k) \in FrameLists
    <3>1. \A j \in k+1..l : f[j] \in FrameLists
      BY <2>2, <2>3
    <3> HIDE DEF k
    <3> QED  BY <2>3, <3>1, BodyType
  <2>5. h \in [k..l -> FrameLists]
    BY <2>2, <2>3, <2>4
  <2>6. ASSUME NEW p \in k..l PROVE h[p] = Body(s, h, p)
    <3>1. p \in 0..l /\ k \in Int
      <4>1. l - (m + 1) \in 0..l
        BY <2>3
      <4> QED  BY <1>1, <4>1
    <3>2. \A j \in p+1..l : f[j] = h[j]
      <4>1. \A j \in p+1..l : j \in k..l /\ j # k
        <5> HIDE DEF k
        <5> QED  BY <1>1, <3>1
      <4> QED  BY <4>1
    <3> HIDE DEF h
    <3>3. Body(s, f, p) = Body(s, h, p)
      BY <3>1, <3>2, BodyAgrees
    <3>4. h[p] = Body(s, f, p)
      <4>1. CASE p = k
        BY <4>1 DEF h
      <4>2. CASE p # k
        BY <2>2, <2>3, <4>2 DEF h
      <4> QED  BY <4>1, <4>2
    <3> QED  BY <3>3, <3>4
  <2>7. Good(m + 1, h)
    BY <2>5, <2>6
  <2> HIDE DEF h, Good
  <2> QED  BY <2>7
<1>4. ASSUME NEW m \in Nat, m \in S PROVE m + 1 \in S
  <2>1. m + 1 <= l => \E f : Good(m + 1, f)
    BY <1>3, <1>4
  <2> HIDE DEF Good
  <2> QED  BY <2>1
<1>5. l \in S
  <2> HIDE DEF S
  <2> QED  BY <1>1, <1>2, <1>4, NatInduct
<1>6. PICK f : Good(l, f)
  <2>1. l <= l
    BY <1>1
  <2> HIDE DEF Good
  <2> QED  BY <1>5, <2>1
<1>7. l - l = 0
  BY <1>1
<1>8. f = [p \in 0..l |-> f[p]]
  BY <1>6, <1>7
<1>9. \A p \in 0..l : f[p] = Body(s, f, p)
  BY <1>6, <1>7
<1>10. f = [p \in 0..l |-> Body(s, f, p)]
  BY <1>8, <1>9
<1> QED  BY <1>10

LEMMA FramesFixed ==
  ASSUME NEW s \in Seq(Int)
  PROVE  FramesFrom(s) = [p \in 0..Len(s) |-> Body(s, FramesFrom(s), p)]
<1> DEFINE P(f) == f = [p \in 0..Len(s) |-> Body(s, f, p)]
<1>1. \E f : P(f)
  BY FramesExist
<1>2. FramesFrom(s) = CHOOSE f : P(f)
  BY DEF FramesFrom, Body
<1> HIDE DEF P
<1>3. P(CHOOSE f : P(f))
  BY <1>1, Zenon
<1>4. P(FramesFrom(s))
  BY <1>2, <1>3
<1> QED  BY <1>4 DEF P

LEMMA FramesAt ==
  ASSUME NEW s \in Seq(Int), NEW p \in 0..Len(s)
  PROVE  FramesFrom(s)[p] = Body(s, FramesFrom(s), p)
<1> DEFINE F == FramesFrom(s)
<1>1. F = [i \in 0..Len(s) |-> Body(s, F, i)]
  BY FramesFixed
<1> HIDE DEF F
<1>2. F[p] = Body(s, F, p)
  BY <1>1
<1> QED  BY <1>2 DEF F

LEMMA FramesType ==
  ASSUME NEW s \in Seq(Int), NEW p \in 0..Len(s)
  PROVE  FramesFrom(s)[p] \in FrameLists
<1> DEFINE l == Len(s)
           F == FramesFrom(s)
           S == {m \in Nat : \A j \in 0..l : j >= l - m => F[j] \in FrameLists}
<1>1. l \in Nat
  OBVIOUS
<1>2. ASSUME NEW i \in 0..l, \A j \in i+1..l : F[j] \in FrameLists PROVE F[i] \in FrameLists
  <2> HIDE DEF F
  <2>1. F[i] = Body(s, F, i)
    BY FramesAt DEF F
  <2> QED  BY <1>2, <2>1, BodyType
<1>3. 0 \in S
  <2>1. l \in 0..l /\ \A j \in l+1..l : FALSE
    BY <1>1
  <2>2. F[l] \in FrameLists
    BY <1>2, <2>1
  <2>3. \A j \in 0..l : j >= l - 0 => j = l
    BY <1>1
  <2> QED  BY <2>2, <2>3
<1>4. ASSUME NEW m \in Nat, m \in S PROVE m + 1 \in S
  <2>1. ASSUME NEW j \in 0..l, j >= l - (m + 1) PROVE F[j] \in FrameLists
    <3>1. \A i \in j+1..l : i \in 0..l /\ i >= l - m
      BY <1>1, <2>1
    <3>2. \A i \in j+1..l : F[i] \in FrameLists
      BY <1>4, <3>1
    <3> HIDE DEF F
    <3> QED  BY <1>2, <3>2
  <2> HIDE DEF F
  <2> QED  BY <2>1
<1>5. l \in S
  <2> HIDE DEF S
  <2> QED  BY <1>1, <1>3, <1>4, NatInduct
<1>6. p >= l - l
  BY <1>1
<1> QED  BY <1>5, <1>6

-----------------------------------------------------------------------------
(***************************************************************************)
(* Where the queue's frames lie in the stream.                             *)
(***************************************************************************)
Passed(s, i) == i + 4 <= Len(s) /\ ~AwaitedAt(s, i) /\ ~IntactAt(s, i)

(* No frame is missed where none begins. *)
LEMMA PassedOver ==
  ASSUME NEW s \in Seq(Int), NEW p \in Nat, NEW k \in Nat, p + k <= Len(s),
         \A i \in p..p+k-1 : Passed(s, i)
  PROVE  FramesFrom(s)[p] = FramesFrom(s)[p+k]
<1> DEFINE F == FramesFrom(s)
           S == {m \in Nat : m <= k => F[p] = F[p+m]}
<1>1. Len(s) \in Nat
  OBVIOUS
<1>2. ASSUME NEW i \in p..p+k-1 PROVE F[i] = F[i+1]
  <2>1. i \in 0..Len(s) /\ Passed(s, i)
    BY <1>1, <1>2
  <2>2. F[i] = Body(s, F, i)
    BY <2>1, FramesAt
  <2>3. ~(i + 4 > Len(s))
    BY <1>1, <2>1 DEF Passed
  <2> HIDE DEF F
  <2> QED  BY <2>1, <2>2, <2>3 DEF Body, Passed
<1> HIDE DEF F
<1>3. 0 \in S
  BY p + 0 = p
<1>4. ASSUME NEW m \in Nat, m \in S PROVE m + 1 \in S
  <2>1. CASE m + 1 <= k
    <3>1. m <= k /\ p + m \in p..p+k-1 /\ p + m + 1 = p + (m + 1)
      BY <2>1
    <3>2. F[p] = F[p+m] /\ F[p+m] = F[p+m+1]
      BY <1>2, <1>4, <3>1
    <3> QED  BY <3>1, <3>2
  <2>2. CASE ~(m + 1 <= k)
    BY <2>2
  <2> QED  BY <2>1, <2>2
<1>5. k \in S
  <2> HIDE DEF S
  <2> QED  BY <1>3, <1>4, NatInduct
<1> QED  BY <1>5 DEF F

LEMMA StreamType ==
  ASSUME TypeOK
  PROVE  /\ input \in Seq(Int) /\ input \in Seq(Nat) /\ Len(input) \in Nat
         /\ len \in Nat /\ offs \in Nat /\ got \in Nat /\ MaxLen \in Nat /\ MaxRead \in Nat
         /\ \A i \in 1..Len(input) : input[i] \in Nat
<1>1. input \in Seq(Int) /\ input \in Seq(Nat)
  BY FrameQueueAssumption, DhavFramerAssumption DEF TypeOK
<1>2. \A i \in 1..Len(input) : input[i] \in Nat
  BY <1>1, ElementOfSeq
<1> QED  BY <1>1, <1>2, FrameQueueAssumption DEF TypeOK

(* What is loaded is the stream from offset got - len on. *)
LEMMA ContentsOf ==
  ASSUME TypeOK, HoldsTail, pc # "failed", NEW n, Offered(n), n <= MaxLen - len
  PROVE  /\ Contents(n) \in Seq(Int) /\ Len(Contents(n)) = len + n /\ len + n \in Nat
         /\ got - len \in Nat /\ (got - len) + (len + n) <= Len(input)
         /\ \A i \in 1..len+n : Contents(n)[i] = input[(got-len)+i]
<1>1. len \in Nat /\ got \in Nat /\ n \in Nat /\ len <= got /\ Len(input) \in Nat /\ got + n <= Len(input)
  BY StreamType DEF HoldsTail, Offered
<1>2. ASSUME NEW i \in 1..len+n PROVE Contents(n)[i] = input[(got-len)+i]
  <2>1. i - 1 \in 0..len+n-1
    BY <1>1
  <2>2. Loaded(n)[LoadedOffs(n)+(i-1)] = input[got-len+(i-1)+1] /\ LoadedOffs(n) \in Nat
    BY <2>1, LoadedHolds
  <2>3. LoadedOffs(n) + (i - 1) = LoadedOffs(n) + i - 1 /\ got - len + (i - 1) + 1 = (got - len) + i
    BY <1>1, <2>2
  <2> QED  BY <2>2, <2>3 DEF Contents
<1> QED  BY <1>1, <1>2, ContentsType

(* The queue shows what the stream is from offset b on. *)
Shows(q, b) ==
  /\ q \in Seq(Int) /\ b \in Nat /\ b + Len(q) <= Len(input)
  /\ \A i \in 1..Len(q) : q[i] = input[b+i]

LEMMA GarbagePassed ==
  ASSUME TypeOK, NEW q, NEW b, Shows(q, b), NEW i \in Nat, Enough(q, i), Garbage(q, i)
  PROVE  Passed(input, b + i)
<1> DEFINE p == b + i
<1>1. Len(q) \in Nat /\ b \in Nat /\ Len(input) \in Nat /\ i + 4 <= Len(q) /\ b + Len(q) <= Len(input)
      /\ MaxLen \in Nat
  BY StreamType DEF Shows, Enough
<1>2. p \in Nat /\ p + 4 <= Len(input)
  BY <1>1
<1>3. q[i+1] = input[p+1] /\ q[i+4] = input[p+4]
  <2>1. i + 1 \in 1..Len(q) /\ i + 4 \in 1..Len(q) /\ b + (i + 1) = p + 1 /\ b + (i + 4) = p + 4
    BY <1>1
  <2> QED  BY <2>1 DEF Shows
<1> HIDE DEF p
<1>4. ASSUME NEW n \in 2..MaxLen, input[p+1] = Header, input[p+4] = n
      PROVE  p + n <= Len(input) /\ i + n <= Len(q) /\ ~Whole(q, i)
  <2>1. AtHeader(q, i) /\ Advertised(q, i) = n /\ n \in Nat
    BY <1>1, <1>3, <1>4 DEF AtHeader, Advertised
  <2>2. i + n <= Len(q)
    BY <1>1, <2>1 DEF Garbage, Incomplete
  <2> QED  BY <1>1, <2>1, <2>2 DEF Garbage, p
<1>5. ~AwaitedAt(input, p)
  <2>1. ASSUME NEW n \in 2..MaxLen, p + n > Len(input), input[p+1] = Header, input[p+4] = n PROVE FALSE
    <3>1. p + n <= Len(input) /\ n \in Nat
      BY <1>1, <1>4, <2>1
    <3> QED  BY <1>1, <1>2, <2>1, <3>1
  <2> QED  BY <2>1 DEF AwaitedAt
<1>6. ~IntactAt(input, p)
  <2>1. ASSUME NEW n \in 2..MaxLen, input[p+1] = Header, input[p+4] = n,
               input[p+n-1] = Trailer, input[p+n] = n
        PROVE  FALSE
    <3>1. i + n <= Len(q) /\ ~Whole(q, i) /\ n \in Nat /\ n >= 2
      BY <1>1, <1>4, <2>1
    <3>2. i + n - 1 \in 1..Len(q) /\ i + n \in 1..Len(q)
          /\ b + (i + n - 1) = p + n - 1 /\ b + (i + n) = p + n
      BY <1>1, <3>1 DEF p
    <3>3. q[i+n-1] = Trailer /\ q[i+n] = n
      BY <2>1, <3>2 DEF Shows
    <3>4. Advertised(q, i) = n /\ AtHeader(q, i)
      BY <1>1, <1>3, <2>1 DEF Advertised, AtHeader
    <3> QED  BY <3>1, <3>3, <3>4 DEF Whole
  <2> QED  BY <2>1 DEF IntactAt
<1> QED  BY <1>2, <1>5, <1>6 DEF Passed, p

LEMMA WholeIntact ==
  ASSUME TypeOK, NEW q, NEW b, Shows(q, b), NEW i \in Nat, Whole(q, i)
  PROVE  LET n == Advertised(q, i) IN
           /\ n \in Nat /\ i + n <= Len(q)
           /\ input[b+i+4] = n /\ b + i + 4 <= Len(input)
           /\ IntactAt(input, b + i) /\ ~AwaitedAt(input, b + i)
           /\ SubSeq(q, i + 1, i + n) = SubSeq(input, b + i + 1, b + i + n)
<1> DEFINE p == b + i
           n == Advertised(q, i)
<1>1. Len(q) \in Nat /\ b \in Nat /\ Len(input) \in Nat /\ i + 4 <= Len(q) /\ b + Len(q) <= Len(input)
      /\ MaxLen \in Nat /\ q \in Seq(Int) /\ input \in Seq(Int)
  BY StreamType DEF Shows, Whole, AtHeader, Enough
<1>2. p \in Nat /\ p + 4 <= Len(input) /\ p + 1 \in 1..Len(input)-3 /\ p + 4 \in 1..Len(input)
  BY <1>1
<1>3. q[i+1] = input[p+1] /\ q[i+4] = input[p+4]
  <2>1. i + 1 \in 1..Len(q) /\ i + 4 \in 1..Len(q) /\ b + (i + 1) = p + 1 /\ b + (i + 4) = p + 4
    BY <1>1
  <2> QED  BY <2>1 DEF Shows
<1>4. n = input[p+4]
  BY <1>3 DEF Advertised
<1>5. q[i+1] = Header /\ n <= MaxLen /\ i + n <= Len(q) /\ q[i+n-1] = Trailer /\ q[i+n] = n
  BY DEF Whole, AtHeader
<1>6. n >= 2
  <2>1. input[p+1+3] >= 2
    BY <1>2, <1>3, <1>5, DhavFramerAssumption DEF TypeOK
  <2>2. p + 1 + 3 = p + 4
    BY <1>2
  <2> QED  BY <1>4, <2>1, <2>2
<1> HIDE DEF n, p
<1>7. n \in Nat
  BY <1>2, <1>4, StreamType
<1>8. n \in 2..MaxLen /\ p + n <= Len(input)
  BY <1>1, <1>5, <1>6, <1>7 DEF p
<1>9. input[p+n-1] = Trailer /\ input[p+n] = n
  <2>1. i + n - 1 \in 1..Len(q) /\ i + n \in 1..Len(q)
        /\ b + (i + n - 1) = p + n - 1 /\ b + (i + n) = p + n
    BY <1>1, <1>5, <1>6, <1>7 DEF p
  <2> QED  BY <1>5, <2>1 DEF Shows
<1>10. IntactAt(input, p)
  BY <1>3, <1>4, <1>5, <1>8, <1>9 DEF IntactAt
<1>11. ~AwaitedAt(input, p)
  <2>1. ASSUME NEW m \in 2..MaxLen, p + m > Len(input), input[p+4] = m PROVE FALSE
    BY <1>1, <1>2, <1>4, <1>8, <2>1
  <2> QED  BY <2>1 DEF AwaitedAt
<1>12. SubSeq(q, i + 1, i + n) = SubSeq(input, p + 1, p + n)
  <2> DEFINE u == i + 1
             v == i + n
             x == p + 1
             y == p + n
  <2>1. u \in Int /\ v \in Int /\ x \in Int /\ y \in Int /\ v - u = y - x /\ u <= v /\ x <= y
    BY <1>1, <1>2, <1>6, <1>7
  <2>2. \A k \in u..v : k \in 1..Len(q)
    BY <1>1, <1>5, <1>7
  <2>3. \A k \in x..y : k \in 1..Len(input)
    BY <1>1, <1>2, <1>7, <1>8
  <2>4. \A k \in 1..v-u+1 : u + k - 1 \in 1..Len(q) /\ b + (u + k - 1) = x + k - 1
    BY <1>1, <1>5, <1>7 DEF p
  <2> HIDE DEF u, v, x, y
  <2>5. /\ SubSeq(q, u, v) \in Seq(Int) /\ Len(SubSeq(q, u, v)) = v - u + 1
        /\ \A k \in 1..v-u+1 : SubSeq(q, u, v)[k] = q[u+k-1]
    <3>1. \A k \in u..v : q[k] \in Int
      BY <1>1, <2>2, ElementOfSeq
    <3> QED  BY <2>1, <3>1, SubSeqProperties
  <2>6. /\ SubSeq(input, x, y) \in Seq(Int) /\ Len(SubSeq(input, x, y)) = y - x + 1
        /\ \A k \in 1..y-x+1 : SubSeq(input, x, y)[k] = input[x+k-1]
    <3>1. \A k \in x..y : input[k] \in Int
      BY <1>1, <2>3, ElementOfSeq
    <3> QED  BY <2>1, <3>1, SubSeqProperties
  <2>7. ASSUME NEW k \in 1..v-u+1 PROVE q[u+k-1] = input[x+k-1]
    BY <2>4 DEF Shows
  <2>8. SubSeq(q, u, v) = SubSeq(input, x, y)
    <3>1. v - u + 1 = y - x + 1
      BY <2>1
    <3> DEFINE s == SubSeq(q, u, v)
               t == SubSeq(input, x, y)
    <3>2. s \in Seq(Int) /\ t \in Seq(Int) /\ Len(s) = v - u + 1 /\ Len(t) = v - u + 1
      BY <2>5, <2>6, <3>1
    <3>3. \A k \in 1..v-u+1 : s[k] = t[k]
      BY <2>5, <2>6, <2>7, <3>1
    <3> HIDE DEF s, t
    <3>4. s = t
      BY ONLY <3>2, <3>3, SeqEqual
    <3> QED  BY <3>4 DEF s, t
  <2> QED  BY <2>8 DEF u, v, x, y
<1>13. n \in Nat /\ i + n <= Len(q) /\ input[p+4] = n
  BY <1>4, <1>5, <1>7
<1> QED  BY <1>2, <1>10, <1>11, <1>12, <1>13 DEF n, p

(* What has been delivered, and what is still to be found from where the   *)
(* queue begins, are the frames of the stream.                             *)
InTurn(fs, p) ==
  p \in 0..Len(input) /\ fs \in FrameLists /\ FramesOf(input) = fs \o FramesFrom(input)[p]

Chain == \E p \in Nat : InTurn(frames, p) /\ (pc # "failed" => p = got - len)

LEMMA InTurnPassed ==
  ASSUME TypeOK, NEW fs, NEW p \in Nat, NEW k \in Nat, p + k <= Len(input),
         InTurn(fs, p), \A i \in p..p+k-1 : Passed(input, i)
  PROVE  InTurn(fs, p + k)
<1>1. input \in Seq(Int) /\ Len(input) \in Nat
  BY StreamType
<1>2. FramesFrom(input)[p] = FramesFrom(input)[p+k]
  BY <1>1, PassedOver
<1>3. p + k \in 0..Len(input)
  BY <1>1
<1> QED  BY <1>2, <1>3 DEF InTurn

LEMMA InTurnDelivered ==
  ASSUME TypeOK, NEW fs, NEW p \in Nat, InTurn(fs, p), p + 4 <= Len(input),
         IntactAt(input, p), ~AwaitedAt(input, p)
  PROVE  InTurn(Append(fs, SubSeq(input, p + 1, p + input[p+4])), p + input[p+4])
<1> DEFINE e == p + input[p+4]
           d == SubSeq(input, p + 1, e)
           F == FramesFrom(input)
<1>1. input \in Seq(Int) /\ Len(input) \in Nat
  BY StreamType
<1>2. e \in p+1..Len(input)
  BY <1>1, IntactSize
<1>3. F[p] = <<d>> \o F[e]
  <2>1. p \in 0..Len(input) /\ ~(p + 4 > Len(input))
    BY <1>1
  <2>2. F[p] = Body(input, F, p)
    BY <1>1, <2>1, FramesAt
  <2> HIDE DEF F
  <2> QED  BY <2>1, <2>2 DEF Body
<1> HIDE DEF e
<1>4. e \in 0..Len(input) /\ e \in Nat /\ e <= Len(input)
  BY <1>1, <1>2
<1>5. d \in Seq(Int) /\ F[e] \in Seq(Seq(Int)) /\ fs \in Seq(Seq(Int))
  BY <1>1, <1>4, PartType, FramesType DEF FrameLists, InTurn
<1> HIDE DEF d, F
<1>6. <<d>> \in Seq(Seq(Int)) /\ Append(fs, d) \in Seq(Seq(Int))
  BY <1>5
<1>7. Append(fs, d) = fs \o <<d>>
  <2>1. \A x \in Seq(Seq(Int)), y \in Seq(Int) : Append(x, y) = x \o <<y>>
    BY AppendIsConcat
  <2>2. fs \in Seq(Seq(Int)) /\ d \in Seq(Int)
    BY <1>5
  <2> QED  BY <2>1, <2>2
<1>8. (fs \o <<d>>) \o F[e] = fs \o (<<d>> \o F[e])
  <2> DEFINE T == Seq(Int)
             y == <<d>>
             z == F[e]
  <2>1. fs \in Seq(T) /\ y \in Seq(T) /\ z \in Seq(T)
    BY <1>5, <1>6
  <2> HIDE DEF T, y, z
  <2>2. (fs \o y) \o z = fs \o (y \o z)
    BY ONLY <2>1, ConcatAssociative, SMT
  <2> QED  BY <2>2 DEF y, z
<1>9. FramesOf(input) = fs \o F[p]
  BY DEF InTurn, F
<1> QED  BY <1>3, <1>4, <1>6, <1>7, <1>8, <1>9 DEF InTurn, FrameLists, F, d, e

LEMMA InitChain == Init => Chain
<1> SUFFICES ASSUME Init PROVE Chain
  OBVIOUS
<1>1. TypeOK
  BY InitIInv DEF IInv
<1>2. input \in Seq(Int) /\ Len(input) \in Nat
  BY <1>1, StreamType
<1>3. 0 \in 0..Len(input)
  BY <1>2
<1>4. FramesFrom(input)[0] \in Seq(Seq(Int))
  BY <1>2, <1>3, FramesType DEF FrameLists
<1>5. <<>> \o FramesFrom(input)[0] = FramesFrom(input)[0]
  BY <1>4, ConcatEmptySeq
<1>6. frames = <<>> /\ got - len = 0
  BY DEF Init
<1>7. <<>> \in FrameLists
  BY DEF FrameLists
<1>8. InTurn(frames, 0)
  BY <1>3, <1>5, <1>6, <1>7 DEF InTurn, FramesOf
<1> QED  BY <1>6, <1>8 DEF Chain

LEMMA ChainNext ==
  ASSUME input' = input, NEW p \in Nat, InTurn(frames', p), pc' # "failed" => p = got' - len'
  PROVE  Chain'
BY DEF Chain, InTurn

LEMMA ProcessChain ==
  ASSUME TypeOK, HoldsTail, pc # "failed", Chain, NEW n, Offered(n), input' = input, Process(n)
  PROVE  Chain'
<1>1. /\ len \in Nat /\ got \in Nat /\ n \in Nat /\ Len(input) \in Nat
  BY StreamType DEF Offered
<1>2. PICK b \in Nat : InTurn(frames, b) /\ b = got - len
  BY DEF Chain
<1>3. CASE NoRoom(n)
  <2>1. frames' = frames /\ pc' = "failed"
    BY <1>3 DEF NoRoom
  <2> QED  BY <1>2, <2>1, ChainNext
<1>4. CASE ~NoRoom(n)
  <2> DEFINE q == Contents(n)
  <2>1. n <= MaxLen - len
    BY <1>4 DEF Process
  <2>2. Shows(q, b) /\ Len(q) = len + n
    BY <1>1, <1>2, <2>1, ContentsOf DEF Shows
  <2>3. PICK s \in 0..Len(q) :
          /\ StopsAt(q, s)
          /\ \/ ~Enough(q, s) /\ Settle(n, s, 0, TooShort(q, s))
             \/ Incomplete(q, s) /\ Settle(n, s, 0, 0)
             \/ /\ Whole(q, s)
                /\ IF Advertised(q, s) > MaxDst
                     THEN Settle(n, s, 0, -3)
                     ELSE Settle(n, s, Advertised(q, s), 1)
    BY <1>4 DEF Process
  <2>4. s \in Nat /\ s <= len + n
    BY <1>1, <2>2, <2>3
  <2>5. ASSUME NEW r, NEW d \in Nat, Settle(n, s, d, r)
        PROVE  /\ got' - len' = got + n - (len + n - s - d)
               /\ r # 1 => frames' = frames
               /\ r = 1 => frames' = Append(frames, SubSeq(q, s + 1, s + d))
    <3>1. got' = got + n /\ len' = len + n - s - d
      BY <2>5 DEF Settle, Left
    <3>2. frames' = IF r = 1 THEN Append(frames, SubSeq(q, s + 1, s + d)) ELSE frames
      BY <2>5 DEF Settle
    <3>3. got' - len' = got + n - (len + n - s - d)
      BY <1>1, <2>4, <3>1
    <3>4. (r # 1 => frames' = frames) /\ (r = 1 => frames' = Append(frames, SubSeq(q, s + 1, s + d)))
      BY <3>2
    <3> QED  BY <3>3, <3>4
  <2> HIDE DEF q
  <2>6. \A i \in b..b+s-1 : Passed(input, i)
    <3>1. ASSUME NEW i \in b..b+s-1 PROVE Passed(input, i)
      <4> DEFINE j == i - b
      <4>1. j \in Nat /\ j \in 0..s-1 /\ b + j = i
        BY <2>4
      <4> HIDE DEF j
      <4>2. Enough(q, j) /\ Garbage(q, j)
        BY <2>3, <4>1 DEF StopsAt
      <4>3. Passed(input, b + j)
        BY <2>2, <4>1, <4>2, GarbagePassed
      <4> QED  BY <4>1, <4>3
    <3> QED  BY <3>1
  <2>7. b + s <= Len(input)
    BY <1>1, <2>2, <2>4 DEF Shows
  <2>8. InTurn(frames, b + s)
    BY <1>2, <2>4, <2>6, <2>7, InTurnPassed
  <2>9. ASSUME NEW r, r # 1, Settle(n, s, 0, r) PROVE Chain'
    <3>1. got' - len' = b + s
      <4>1. got' - len' = got + n - (len + n - s - 0)
        BY <2>5, <2>9
      <4> QED  BY <1>1, <1>2, <2>4, <4>1
    <3>2. frames' = frames /\ b + s \in Nat
      BY <2>4, <2>5, <2>9
    <3> QED  BY <2>8, <3>1, <3>2, ChainNext
  <2>10. ASSUME Whole(q, s), Settle(n, s, Advertised(q, s), 1) PROVE Chain'
    <3> DEFINE a == Advertised(q, s)
               p == b + s
    <3>1. /\ a \in Nat /\ s + a <= Len(q)
          /\ input[p+4] = a /\ p + 4 <= Len(input)
          /\ IntactAt(input, p) /\ ~AwaitedAt(input, p)
          /\ SubSeq(q, s + 1, s + a) = SubSeq(input, p + 1, p + a)
      BY <2>2, <2>4, <2>10, WholeIntact
    <3>2. /\ got' - len' = got + n - (len + n - s - a)
          /\ frames' = Append(frames, SubSeq(q, s + 1, s + a))
      BY <2>5, <2>10, <3>1
    <3> HIDE DEF a
    <3>3. got' - len' = p + a /\ p \in Nat /\ p + a \in Nat
      BY <1>1, <1>2, <2>4, <3>1, <3>2
    <3> HIDE DEF p
    <3>4. InTurn(frames, p)
      BY <2>8 DEF p
    <3>5. InTurn(Append(frames, SubSeq(input, p + 1, p + a)), p + a)
      BY <3>1, <3>3, <3>4, InTurnDelivered
    <3>6. frames' = Append(frames, SubSeq(input, p + 1, p + a))
      BY <3>1, <3>2
    <3> QED  BY <3>3, <3>5, <3>6, ChainNext
  <2>11. TooShort(q, s) # 1
    BY DEF TooShort
  <2> QED  BY <2>3, <2>9, <2>10, <2>11
<1> QED  BY <1>3, <1>4

LEMMA NextChain ==
  ASSUME TypeOK, HoldsTail, Chain, [Next]_vars
  PROVE  Chain'
<1>1. CASE Identify \/ UNCHANGED vars \/ Done
  <2>1. input' = input /\ frames' = frames
    BY <1>1 DEF Identify, IdentifyFull, IdentifyMore, vars, Done
  <2>2. pc' # "failed" => pc # "failed" /\ got' - len' = got - len
    <3>1. CASE IdentifyFull
      BY <3>1 DEF IdentifyFull
    <3>2. CASE UNCHANGED vars \/ Done
      BY <3>2 DEF vars, Done
    <3>3. CASE \E n \in ReadSizes : IdentifyMore(n, IdentifyDhav(Appended(n)))
      <4>1. PICK n \in ReadSizes : got' = got + n /\ len' = len + n /\ pc = "identify"
        BY <3>3 DEF IdentifyMore
      <4>2. n \in Nat /\ got \in Nat /\ len \in Nat
        BY StreamType, ReadSizesOffered DEF Offered
      <4> QED  BY <4>1, <4>2
    <3> QED  BY <1>1, <3>1, <3>2, <3>3 DEF Identify
  <2>3. PICK p \in Nat : InTurn(frames, p) /\ (pc # "failed" => p = got - len)
    BY DEF Chain
  <2> QED  BY <2>1, <2>2, <2>3, ChainNext
<1>2. CASE \E n \in ReadSizes : Read(n) /\ Process(n)
  <2>1. PICK n \in ReadSizes : Read(n) /\ Process(n)
    BY <1>2
  <2>2. Offered(n)
    BY ReadSizesOffered
  <2> QED  BY <2>1, <2>2, ProcessChain DEF Read
<1>3. CASE Again /\ Process(0)
  <2>1. Offered(0)
    BY StreamType DEF Offered, TypeOK
  <2> QED  BY <1>3, <2>1, ProcessChain DEF Again
<1> QED  BY <1>1, <1>2, <1>3 DEF Next

(* The frames delivered are those of the stream, in order and one after    *)
(* the other, however the reads cut it and whatever lies between: garbage  *)
(* and damage never cost dstf_process_dhav_stream_to_frames() a frame.     *)
THEOREM NoFrameLost == Spec => []FramesInOrder
<1>1. Init => Chain
  BY InitChain
<1>2. IInv /\ Chain /\ [Next]_vars => Chain'
  BY NextChain DEF IInv
<1>3. IInv /\ Chain => FramesInOrder
  <2> SUFFICES ASSUME IInv, Chain PROVE FramesInOrder
    OBVIOUS
  <2>1. PICK p \in Nat : InTurn(frames, p)
    BY DEF Chain
  <2> DEFINE rest == FramesFrom(input)[p]
             all == FramesOf(input)
             l == Len(frames)
  <2>2. input \in Seq(Int) /\ p \in 0..Len(input)
    BY <2>1, StreamType DEF IInv, InTurn
  <2>3. rest \in Seq(Seq(Int)) /\ frames \in Seq(Seq(Int)) /\ all = frames \o rest
    BY <2>1, <2>2, FramesType DEF FrameLists, InTurn
  <2> HIDE DEF rest, all
  <2>4. /\ all \in Seq(Seq(Int)) /\ Len(all) = l + Len(rest)
        /\ \A i \in 1..l+Len(rest) : all[i] = IF i <= l THEN frames[i] ELSE rest[i-l]
    BY <2>3, ConcatProperties
  <2>5. l \in Nat /\ Len(rest) \in Nat /\ l <= Len(all)
    BY <2>3, <2>4
  <2>6. \A i \in 1..l : all[i] = frames[i] /\ all[i] \in Seq(Int)
    <3>1. \A i \in 1..l : frames[i] \in Seq(Int)
      BY <2>3, ElementOfSeq
    <3>2. \A i \in 1..l : i \in 1..l+Len(rest) /\ i <= l
      BY <2>5
    <3> QED  BY <2>4, <3>1, <3>2
  <2>7. /\ SubSeq(all, 1, l) \in Seq(Seq(Int)) /\ Len(SubSeq(all, 1, l)) = l
        /\ \A i \in 1..l : SubSeq(all, 1, l)[i] = all[i]
    <3> HIDE DEF l
    <3>1. /\ SubSeq(all, 1, l) \in Seq(Seq(Int))
          /\ Len(SubSeq(all, 1, l)) = IF 1 <= l THEN l - 1 + 1 ELSE 0
          /\ \A i \in 1..l-1+1 : SubSeq(all, 1, l)[i] = all[1+i-1]
      <4>1. 1 \in Int /\ l \in Int /\ \A i \in 1..l : all[i] \in Seq(Int)
        BY <2>5, <2>6
      <4> QED  BY <4>1, SubSeqProperties
    <3>2. (IF 1 <= l THEN l - 1 + 1 ELSE 0) = l /\ l - 1 + 1 = l /\ \A i \in 1..l : 1 + i - 1 = i
      BY <2>5
    <3> QED  BY <3>1, <3>2
  <2>8. SubSeq(all, 1, l) = frames
    BY <2>3, <2>6, <2>7, SeqEqual
  <2> QED  BY <2>5, <2>8 DEF FramesInOrder, all
<1> QED  BY <1>1, <1>2, <1>3, SpecIInv, PTL DEF Spec

-----------------------------------------------------------------------------
(***************************************************************************)
(* Room for another read.                                                  *)
(***************************************************************************)
InUse == [i \in 1..len |-> sq[offs + i - 1]]

Waiting == Incomplete(InUse, 0)

Room ==
  /\ pc = "identify" => len + MaxRead <= MaxLen
  /\ pc = "read" => len + MaxRead <= MaxLen \/ Waiting
  /\ pc = "failed" => ret = -1 /\ Waiting /\ len + MaxRead > MaxLen

LEMMA RoomKept ==
  ASSUME UNCHANGED <<sq, offs, len>>
  PROVE  Waiting' = Waiting
BY DEF Waiting, InUse, Incomplete, AtHeader, Enough, Advertised

(* What is left of the queue is the end of what was loaded.                *)
LEMMA WaitingFor ==
  ASSUME TypeOK, HoldsTail, pc # "failed", NEW n, Offered(n), n <= MaxLen - len,
         NEW s \in Nat, NEW r, Incomplete(Contents(n), s), Settle(n, s, 0, r)
  PROVE  Waiting'
<1> DEFINE q == Contents(n)
           t == [i \in 1..len' |-> sq'[offs' + i - 1]]
           at == LoadedOffs(n)
           m == len + n
<1>1. Len(q) = m /\ m \in Nat /\ q \in Seq(Int)
  BY ContentsOf
<1>2. at \in Nat
  BY LoadedHolds
<1>3. q = [i \in 1..m |-> Loaded(n)[at+i-1]]
  BY DEF Contents
<1>4. Len(q) - s >= 4 /\ q[s+1] = Header /\ q[s+4] <= MaxLen /\ s + q[s+4] > Len(q)
  BY DEF Incomplete, AtHeader, Enough, Advertised
<1>5. sq' = Loaded(n) /\ offs' = at + s + 0 /\ len' = m - s - 0
  <2>1. sq' = Loaded(n) /\ offs' = at + s + 0
    BY DEF Settle
  <2>2. len' = len + (n - s - 0)
    BY DEF Settle, Left
  <2>3. len \in Nat /\ n \in Nat /\ s \in Nat
    BY StreamType DEF Offered
  <2>4. len + (n - s - 0) = (len + n) - s - 0
    BY <2>3
  <2> QED  BY <2>1, <2>2, <2>4
<1> HIDE DEF q, t, at, m
<1>6. offs' = at + s
  BY <1>2, <1>5
<1>7. len' = m - s /\ len' \in Nat /\ len' >= 4
  <2>1. m \in Nat /\ len' = m - s - 0 /\ m - s >= 4
    BY <1>1, <1>4, <1>5
  <2> HIDE DEF m
  <2> QED  BY <2>1
<1>8. q[s+4] \in Int
  <2>1. s + 4 \in 1..Len(q)
    BY <1>1, <1>4
  <2> QED  BY <1>1, <2>1, ElementOfSeq
<1>9. ASSUME NEW i \in 1..len' PROVE t[i] = q[s+i] /\ q[s+i] \in Int
  <2>1. s + i \in 1..m
    BY <1>1, <1>7
  <2>2. at + s + i - 1 = at + (s + i) - 1
    BY <1>2, <1>7
  <2>3. t[i] = sq'[at+s+i-1]
    BY <1>6 DEF t
  <2>4. q[s+i] = Loaded(n)[at+(s+i)-1]
    BY <1>3, <2>1
  <2>5. q[s+i] \in Int
    BY <1>1, <2>1, ElementOfSeq
  <2> QED  BY <1>5, <2>2, <2>3, <2>4, <2>5
<1>10. t \in Seq(Int) /\ Len(t) = len'
  <2>1. t \in [1..len' -> Int]
    BY <1>9 DEF t
  <2> QED  BY <1>7, <2>1, SeqDef, LenProperties
<1>11. t[1] = q[s+1] /\ t[4] = q[s+4]
  <2>1. 1 \in 1..len' /\ 4 \in 1..len'
    BY <1>7
  <2> QED  BY <1>9, <2>1
<1>12. Len(t) - 0 >= 4 /\ 0 + t[4] > Len(t)
  BY <1>1, <1>4, <1>7, <1>8, <1>10, <1>11, SMTT(60)
<1>13. Incomplete(t, 0)
  <2>1. 0 + 1 = 1 /\ 0 + 4 = 4
    OBVIOUS
  <2> QED  BY <1>4, <1>11, <1>12, <2>1 DEF Incomplete, AtHeader, Enough, Advertised
<1> QED  BY <1>13 DEF Waiting, InUse, Incomplete, AtHeader, Enough, Advertised, t

LEMMA ProcessRoom ==
  ASSUME MaxDst >= MaxLen, MaxRead + 3 <= MaxLen,
         TypeOK, HoldsTail, Room, NEW n, Offered(n), Process(n),
         (pc = "read" /\ n <= MaxRead) \/ (pc = "again" /\ n = 0)
  PROVE  Room'
<1>1. /\ len \in Nat /\ MaxLen \in Nat /\ MaxRead \in Nat /\ n \in Nat /\ len <= MaxLen /\ pc # "failed"
      /\ MaxDst \in Int
  BY StreamType, FrameQueueAssumption DEF Offered, TypeOK
<1>2. CASE NoRoom(n)
  <2>1. UNCHANGED <<sq, offs, len>> /\ pc' = "failed" /\ ret' = -1 /\ n > MaxLen - len
    BY <1>2 DEF NoRoom
  <2>2. pc = "read" /\ len + MaxRead > MaxLen
    BY <1>1, <2>1
  <2>3. Waiting'
    BY <1>1, <2>1, <2>2, RoomKept DEF Room
  <2> QED  BY <2>1, <2>2, <2>3 DEF Room
<1>3. CASE ~NoRoom(n)
  <2> DEFINE q == Contents(n)
  <2>1. n <= MaxLen - len
    BY <1>3 DEF Process
  <2>2. Len(q) = len + n
    BY <1>1, <2>1, ContentsOf
  <2>3. PICK s \in 0..Len(q) :
          \/ ~Enough(q, s) /\ Settle(n, s, 0, TooShort(q, s))
          \/ Incomplete(q, s) /\ Settle(n, s, 0, 0)
          \/ /\ Whole(q, s)
             /\ IF Advertised(q, s) > MaxDst
                  THEN Settle(n, s, 0, -3)
                  ELSE Settle(n, s, Advertised(q, s), 1)
    BY <1>3 DEF Process
  <2>4. s \in Nat /\ s <= len + n
    BY <1>1, <2>2, <2>3
  <2> HIDE DEF q
  <2>5. CASE ~Enough(q, s) /\ Settle(n, s, 0, TooShort(q, s))
    <3>1. pc' \in {"again", "end", "read"}
      BY <2>5 DEF Settle, TooShort
    <3>2. len' = len + n - s
      <4>1. len' = len + n - s - 0
        BY <2>5 DEF Settle, Left
      <4> QED  BY <1>1, <2>4, <4>1
    <3>3. len' + MaxRead <= MaxLen
      <4>1. len + n - s < 4
        BY <1>1, <2>2, <2>4, <2>5 DEF Enough
      <4> QED  BY <1>1, <2>4, <3>2, <4>1
    <3> QED  BY <3>1, <3>3 DEF Room
  <2>6. CASE Incomplete(q, s) /\ Settle(n, s, 0, 0)
    <3>1. pc' \in {"end", "read"}
      BY <2>6 DEF Settle
    <3>2. Waiting'
      BY <1>1, <2>1, <2>4, <2>6, WaitingFor DEF q
    <3> QED  BY <3>1, <3>2 DEF Room
  <2>7. CASE Whole(q, s) /\ ~(Advertised(q, s) > MaxDst) /\ Settle(n, s, Advertised(q, s), 1)
    <3>1. pc' = "again"
      BY <2>7 DEF Settle
    <3> QED  BY <3>1 DEF Room
  <2>8. CASE Whole(q, s) /\ Advertised(q, s) > MaxDst
    <3>1. s + 4 \in 1..Len(q) /\ q \in Seq(Int)
      <4>1. Len(q) - s >= 4
        BY <2>8 DEF Whole, AtHeader, Enough
      <4> QED  BY <1>1, <2>1, <2>2, <2>4, <4>1, ContentsOf DEF q
    <3>2. Advertised(q, s) \in Int /\ Advertised(q, s) <= MaxLen
      BY <2>8, <3>1, ElementOfSeq DEF Advertised, Whole, AtHeader
    <3> QED  BY <1>1, <2>8, <3>2
  <2> QED  BY <2>3, <2>5, <2>6, <2>7, <2>8
<1> QED  BY <1>2, <1>3

LEMMA NextRoom ==
  ASSUME MaxDst >= MaxLen, MaxRead + 3 <= MaxLen, TypeOK, HoldsTail, Room, [Next]_vars
  PROVE  Room'
<1>1. len \in Nat /\ MaxLen \in Nat /\ MaxRead \in Nat
  BY StreamType
<1>2. CASE UNCHANGED vars \/ Done
  <2>1. UNCHANGED <<sq, offs, len, ret, pc>>
    BY <1>2 DEF vars, Done
  <2> QED  BY <2>1, RoomKept DEF Room
<1>3. CASE IdentifyFull
  <2>1. UNCHANGED len /\ pc = "identify" /\ pc' = "read"
    BY <1>3 DEF IdentifyFull
  <2> QED  BY <2>1 DEF Room
<1>4. CASE \E n \in ReadSizes : IdentifyMore(n, IdentifyDhav(Appended(n)))
  <2>1. PICK n \in ReadSizes : /\ MaxLen - len >= 2 * MaxRead /\ len' = len + n
                               /\ pc' \in {"read", "identify"}
    BY <1>4 DEF IdentifyMore
  <2>2. n \in Nat /\ n <= MaxRead
    <3>1. n \in Nat
      BY ReadSizesOffered DEF Offered
    <3> QED  BY <1>1, <3>1 DEF ReadSizes
  <2>3. len' + MaxRead <= MaxLen
    BY <1>1, <2>1, <2>2
  <2> QED  BY <2>1, <2>3 DEF Room
<1>5. CASE \E n \in ReadSizes : Read(n) /\ Process(n)
  <2>1. PICK n \in ReadSizes : Read(n) /\ Process(n)
    BY <1>5
  <2>2. Offered(n)
    BY ReadSizesOffered
  <2>3. n <= MaxRead
    BY <1>1 DEF ReadSizes
  <2>4. pc = "read" /\ Process(n)
    BY <2>1 DEF Read
  <2>5. (pc = "read" /\ n <= MaxRead) \/ (pc = "again" /\ n = 0)
    BY <2>3, <2>4
  <2> HIDE DEF Process, Offered, Room
  <2> QED  BY <2>2, <2>4, <2>5, ProcessRoom
<1>6. CASE Again /\ Process(0)
  <2>1. Offered(0)
    BY StreamType DEF Offered, TypeOK
  <2> QED  BY <1>6, <2>1, ProcessRoom DEF Again
<1> QED  BY <1>2, <1>3, <1>4, <1>5, <1>6 DEF Next, Identify

(* With room for the queue's whole contents where frames are copied to     *)
(* (dhav2mkv.c:33, dvrcontrol.c:41), and a queue that takes a read behind  *)
(* three cells, dstf_process_dhav_stream_to_frames() gives up only while   *)
(* it waits for the rest of a frame that leaves no room for a read.        *)
THEOREM OnlyLargeFramesFail ==
  ASSUME MaxDst >= MaxLen, MaxRead + 3 <= MaxLen
  PROVE  Spec => []FailsOnLargeFrame
<1>1. Init => Room
  <2> SUFFICES ASSUME Init PROVE Room
    OBVIOUS
  <2>1. len = 0 /\ pc = "identify"
    BY DEF Init
  <2>2. 0 + MaxRead <= MaxLen
    BY FrameQueueAssumption
  <2> QED  BY <2>1, <2>2 DEF Room
<1>2. IInv /\ Room /\ [Next]_vars => Room'
  BY NextRoom DEF IInv
<1>3. IInv /\ Room => FailsOnLargeFrame
  <2> SUFFICES ASSUME IInv, Room, pc = "failed"
               PROVE  ret = -1 /\ Incomplete(InUse, 0) /\ Advertised(InUse, 0) > MaxLen - MaxRead + 1
    BY DEF FailsOnLargeFrame, InUse
  <2>1. ret = -1 /\ Incomplete(InUse, 0) /\ len + MaxRead > MaxLen
    BY DEF Room, Waiting
  <2>2. len \in Nat /\ offs \in Nat /\ MaxLen \in Nat /\ MaxRead \in Nat
    BY StreamType DEF IInv
  <2>3. InUse \in Seq(Int) /\ Len(InUse) = len
    <3>1. \A i \in 1..len : offs + i - 1 \in 0..MaxLen-1
      BY <2>2 DEF IInv, TypeOK
    <3>2. InUse \in [1..len -> Int]
      BY <3>1 DEF InUse, IInv, TypeOK
    <3> QED  BY <2>2, <3>2, SeqDef, LenProperties
  <2> DEFINE u == InUse
  <2> HIDE DEF u
  <2>4. Len(u) - 0 >= 4 /\ 0 + u[0+4] > Len(u)
    BY <2>1 DEF Incomplete, AtHeader, Enough, Advertised, u
  <2>5. u[4] \in Int
    <3>1. 4 \in 1..Len(u) /\ u \in Seq(Int)
      BY <2>2, <2>3, <2>4 DEF u
    <3> QED  BY <3>1, ElementOfSeq
  <2>6. u[0+4] > MaxLen - MaxRead + 1
    <3>1. Len(u) = len
      BY <2>3 DEF u
    <3> QED  BY <2>1, <2>2, <2>4, <2>5, <3>1
  <2> QED  BY <2>1, <2>6 DEF Advertised, u
<1> QED  BY <1>1, <1>2, <1>3, SpecIInv, PTL DEF Spec

=============================================================================
