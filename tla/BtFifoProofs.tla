---------------------------- MODULE BtFifoProofs ----------------------------
(***************************************************************************)
(* Proofs about the circular FIFO of bufftools.c, for every buffer size,   *)
(* every wmin and streams of every length.                                 *)
(***************************************************************************)
EXTENDS BtFifo, SequenceTheorems, TLAPS

(* `len' bytes lie in order in buf from cell pos on, the first of them the *)
(* stream's byte number start + 1.                                         *)
Holds(buf, pos, len, start) ==
  \A i \in 0..len-1 : buf[Wrap(pos + i)] = start + i + 1

(* Copying n bytes of the stream into cells keeps every cell a byte. *)
LEMMA StoreType ==
  ASSUME NEW buf \in [0..BSize-1 -> Nat], NEW at \in Int, NEW n \in Nat, NEW seen \in Nat
  PROVE  Store(buf, at, n, seen) \in [0..BSize-1 -> Nat]
BY BtFifoAssumption DEF Store

(* A read() into the cells that follow the stored bytes extends them and   *)
(* touches none of them.                                                   *)
LEMMA Fill ==
  ASSUME NEW buf \in [0..BSize-1 -> Nat], NEW pos \in 0..BSize-1,
         NEW len \in 0..BSize, NEW n \in 0..BSize-len, NEW start \in Nat,
         NEW at \in 0..BSize-1, at = Wrap(pos + len), at + n <= BSize,
         Holds(buf, pos, len, start)
  PROVE  Holds(Store(buf, at, n, start + len), pos, len + n, start)
<1> DEFINE nb == Store(buf, at, n, start + len)
<1> SUFFICES ASSUME NEW i \in 0..len+n-1
             PROVE  nb[Wrap(pos + i)] = start + i + 1
  BY DEF Holds
<1>1. Wrap(pos + i) \in 0..BSize-1
  BY BtFifoAssumption DEF Wrap
<1>2. CASE i < len
  <2>1. Wrap(pos + i) \notin at..at+n-1
    BY <1>2, BtFifoAssumption DEF Wrap
  <2>2. nb[Wrap(pos + i)] = buf[Wrap(pos + i)]
    BY <1>1, <2>1 DEF Store
  <2> QED  BY <1>2, <2>2 DEF Holds
<1>3. CASE i >= len
  <2>1. Wrap(pos + i) = at + i - len
    BY <1>3, BtFifoAssumption DEF Wrap
  <2>2. at + i - len \in 0..BSize-1 /\ at + i - len \in at..at+n-1
    BY <1>1, <1>3, <2>1, SMTT(60)
  <2>3. nb[at + i - len] = start + len + (at + i - len) - at + 1
    BY <2>2 DEF Store
  <2>4. start + len + (at + i - len) - at + 1 = start + i + 1
    <3>1. start \in Int /\ len \in Int /\ at \in Int /\ i \in Int
      OBVIOUS
    <3> QED  BY ONLY <3>1
  <2> QED  BY <2>1, <2>3, <2>4
<1> QED  BY <1>2, <1>3

(* Giving up the n oldest bytes leaves the others in order. *)
LEMMA Release ==
  ASSUME NEW pos \in 0..BSize-1, NEW len \in 0..BSize, NEW n \in 0..len,
         NEW start \in Nat, pos + n <= BSize, Holds(b, pos, len, start)
  PROVE  Holds(b, IF pos + n = BSize THEN 0 ELSE pos + n, len - n, start + n)
<1> DEFINE q == IF pos + n = BSize THEN 0 ELSE pos + n
<1> SUFFICES ASSUME NEW i \in 0..len-n-1
             PROVE  b[Wrap(q + i)] = start + n + i + 1
  BY DEF Holds
<1>1. Wrap(q + i) = Wrap(pos + (n + i))
  BY BtFifoAssumption DEF Wrap
<1>2. n + i \in 0..len-1
  OBVIOUS
<1>3. b[Wrap(pos + (n + i))] = start + (n + i) + 1
  BY <1>2 DEF Holds
<1> QED  BY <1>1, <1>3

(* Writing the n bytes in the cells from `at' continues an output in order. *)
LEMMA Emit ==
  ASSUME b \in [0..BSize-1 -> Nat], NEW s \in Seq(Nat), \A i \in 1..Len(s) : s[i] = i,
         NEW at \in 0..BSize-1, NEW n \in Nat, at + n <= BSize,
         NEW len \in 0..BSize, n <= len, Holds(b, at, len, Len(s))
  PROVE  /\ s \o Cells(at, n) \in Seq(Nat)
         /\ Len(s \o Cells(at, n)) = Len(s) + n
         /\ \A i \in 1..Len(s)+n : (s \o Cells(at, n))[i] = i
<1>0. Len(s) \in Nat
  OBVIOUS
<1>1. Cells(at, n) \in Seq(Nat)
  BY BtFifoAssumption DEF Cells
<1>2. Len(Cells(at, n)) = n
  BY DEF Cells
<1>3. \A k \in 1..n : Cells(at, n)[k] = Len(s) + k
  <2> SUFFICES ASSUME NEW k \in 1..n PROVE Cells(at, n)[k] = Len(s) + k
    OBVIOUS
  <2>1. Cells(at, n)[k] = b[at + k - 1]
    BY DEF Cells
  <2>2. k - 1 \in 0..len-1 /\ Wrap(at + (k - 1)) = at + k - 1
    BY BtFifoAssumption DEF Wrap
  <2>3. b[Wrap(at + (k - 1))] = Len(s) + (k - 1) + 1
    BY <2>2 DEF Holds
  <2> QED  BY <2>1, <2>2, <2>3
<1>4. /\ s \o Cells(at, n) \in Seq(Nat)
      /\ Len(s \o Cells(at, n)) = Len(s) + n
      /\ \A i \in 1..Len(s)+n : (s \o Cells(at, n))[i] =
           IF i <= Len(s) THEN s[i] ELSE Cells(at, n)[i - Len(s)]
  BY <1>1, <1>2, ConcatProperties, ZenonT(60)
<1>5. ASSUME NEW i \in 1..Len(s)+n PROVE (s \o Cells(at, n))[i] = i
  <2>1. CASE i <= Len(s)
    BY <1>4, <2>1
  <2>2. CASE i > Len(s)
    <3>1. i - Len(s) \in 1..n
      BY <2>2
    <3> QED  BY <1>3, <1>4, <2>2, <3>1
  <2>3. i <= Len(s) \/ i > Len(s)
    BY <1>0
  <2> QED  BY <2>1, <2>2, <2>3
<1> QED  BY <1>4, <1>5
-----------------------------------------------------------------------------
(* The inductive invariant: the FIFO is in order, and once closed without  *)
(* a failed write it is empty.                                             *)
IInv ==
  /\ TypeOK
  /\ InOrder
  /\ phase = "closed" /\ ~cut => dlen = 0

LEMMA InOrderHolds ==
  InOrder <=> /\ rin = Len(out) + dlen
              /\ \A i \in 1..Len(out) : out[i] = i
              /\ Holds(b, dpos, dlen, Len(out))
BY DEF InOrder, StoredAt, Holds

LEMMA InitIInv == Init => IInv
BY BtFifoAssumption DEF Init, IInv, TypeOK, InOrder

(* Reading into the FIFO keeps it in order: one region, or both. *)
LEMMA FdToFifoIInv == IInv /\ FdToFifo => IInv'
<1> SUFFICES ASSUME IInv, FdToFifo PROVE IInv'
  OBVIOUS
<1> USE BtFifoAssumption
<1>1. /\ TypeOK /\ rin = Len(out) + dlen /\ \A i \in 1..Len(out) : out[i] = i
      /\ Holds(b, dpos, dlen, Len(out)) /\ Len(out) \in Nat /\ phase = "open"
  BY InOrderHolds DEF IInv, TypeOK, FdToFifo
<1>0. /\ BSize \in Nat \ {0} /\ b \in [0..BSize-1 -> Nat] /\ dlen \in 0..BSize /\ dpos \in 0..BSize-1
      /\ rin \in Nat /\ out \in Seq(Nat) /\ phase \in {"open", "closed"} /\ cut \in BOOLEAN
  BY <1>1 DEF TypeOK
<1>2. phase' = phase /\ cut' = cut
  BY DEF FdToFifo
<1> DEFINE Grown(buf, len) ==
      /\ buf \in [0..BSize-1 -> Nat]
      /\ len \in 0..BSize
      /\ Holds(buf, dpos, len, Len(out))
<1>4. ASSUME Grown(b', dlen'), rin' = Len(out) + dlen', dpos' = dpos, out' = out, ret' \in Int
      PROVE  IInv'
  <2>1. TypeOK'
    <3>1. b \in [0..BSize-1 -> Nat] => TypeOK'
      BY <1>0, <1>1, <1>2, <1>4, SMTT(60) DEF TypeOK
    <3> QED  BY <1>0, <3>1
  <2>2. InOrder'
    BY <1>1, <1>4 DEF InOrder, StoredAt, Holds, Wrap
  <2> QED  BY <1>1, <1>2, <2>1, <2>2 DEF IInv
<1>3. CASE FdToFifoFull
  <2>1. b' = b /\ dlen' = dlen /\ rin' = rin /\ dpos' = dpos /\ out' = out /\ ret' = -2
    BY <1>3 DEF FdToFifoFull, Full
  <2>2. Grown(b', dlen')
    BY <1>1, <2>1 DEF TypeOK
  <2> QED  BY <1>1, <1>4, <2>1, <2>2
<1>5. CASE FdToFifoOneRead
  <2> DEFINE len == IF TwoFreeRegions THEN BSize - (dpos + dlen) ELSE FreeLen
             at  == IF TwoFreeRegions THEN dpos + dlen ELSE SecondRegionAt(len)
  <2>1. PICK r \in ReadResults(len, rin, IF TwoFreeRegions THEN ReadFail1 ELSE ReadFail2) :
              /\ b' = Store(b, at, Moved(r), rin)
              /\ dlen' = dlen + Moved(r)
              /\ rin' = rin + Moved(r)
              /\ ret' = r
    BY <1>5 DEF FdToFifoOneRead
  <2>2. len \in 1..BSize-dlen /\ at \in 0..BSize-1 /\ at = Wrap(dpos + dlen) /\ at + len <= BSize
    BY <1>1, <1>5 DEF FdToFifoOneRead, TypeOK, TwoFreeRegions, FreeLen, SecondRegionAt, Wrap
  <2>3. Moved(r) \in 0..len /\ r \in Int
    BY <2>1, <2>2 DEF ReadResults, Moved, Again, ReadFail1, ReadFail2
  <2>4. Holds(b', dpos, dlen + Moved(r), Len(out))
    <3> HIDE DEF at, len
    <3>1. Moved(r) \in 0..BSize-dlen /\ at + Moved(r) <= BSize
      BY ONLY <1>0, <2>2, <2>3, SMTT(60)
    <3> QED  BY <1>1, <2>1, <2>2, <3>1, Fill DEF TypeOK
  <2>5. b' \in [0..BSize-1 -> Nat]
    <3> HIDE DEF at, len
    <3>1. at \in Int /\ Moved(r) \in Nat
      BY <2>2, <2>3
    <3>2. b \in [0..BSize-1 -> Nat] /\ rin \in Nat
      BY <1>1 DEF TypeOK
    <3> QED  BY <2>1, <3>1, <3>2, StoreType
  <2>6. dlen + Moved(r) \in 0..BSize
    <3> HIDE DEF at, len
    <3> QED  BY ONLY <1>0, <2>2, <2>3, SMTT(60)
  <2>7. dpos' = dpos /\ out' = out
    BY <1>5 DEF FdToFifoOneRead
  <2>8. rin' = Len(out) + dlen'
    <3> HIDE DEF at, len
    <3>1. Moved(r) \in Int
      BY <2>3
    <3> QED  BY ONLY <1>0, <1>1, <2>1, <3>1
  <2> QED
    <3> HIDE DEF at, len
    <3> QED  BY <1>4, <2>1, <2>3, <2>4, <2>5, <2>6, <2>7, <2>8
<1>6. CASE FdToFifoTwoReads
  <2> DEFINE len1 == BSize - (dpos + dlen)
             len2 == BSize - (dlen + len1)
             seen == rin + len1
             b1   == Store(b, dpos + dlen, len1, rin)
  <2>1. PICK r \in ReadResults(len2, seen, ReadFail2) :
              /\ b' = Store(b1, SecondRegionAt(len2), Moved(r), seen)
              /\ dlen' = dlen + len1 + Moved(r)
              /\ rin' = seen + Moved(r)
              /\ ret' = r
    BY <1>6 DEF FdToFifoTwoReads
  <2>2. /\ len1 \in 1..BSize-dlen /\ dpos + dlen \in 0..BSize-1
        /\ len2 = dpos /\ len2 \in 1..BSize-1 /\ SecondRegionAt(len2) = 0
        /\ dlen + len1 \in 0..BSize /\ len2 = BSize - (dlen + len1)
    BY <1>1, <1>6 DEF FdToFifoTwoReads, TwoFreeRegions, TypeOK, SecondRegionAt
  <2>3. Moved(r) \in 0..len2 /\ r \in Int
    BY <2>1, <2>2 DEF ReadResults, Moved, Again, ReadFail2
  <2>4. b1 \in [0..BSize-1 -> Nat]
    <3> HIDE DEF len1
    <3>1. dpos + dlen \in Int /\ len1 \in Nat
      BY <1>1, <2>2 DEF TypeOK
    <3>2. b \in [0..BSize-1 -> Nat] /\ rin \in Nat
      BY <1>1 DEF TypeOK
    <3> QED  BY <3>1, <3>2, StoreType
  <2>5. Holds(b1, dpos, dlen + len1, Len(out))
    <3>1. dpos + dlen = Wrap(dpos + dlen) /\ dpos + dlen + len1 <= BSize
      BY <1>1, <2>2 DEF Wrap, TypeOK
    <3>2. b \in [0..BSize-1 -> Nat] /\ dpos \in 0..BSize-1 /\ dlen \in 0..BSize
      BY <1>1 DEF TypeOK
    <3> HIDE DEF len1
    <3>4. Len(out) \in Nat /\ BSize \in Nat \ {0} /\ dpos + dlen \in 0..BSize-1 /\ len1 \in 0..BSize-dlen
      BY <1>0, <1>1, <2>2
    <3>3. Holds(Store(b, dpos + dlen, len1, Len(out) + dlen), dpos, dlen + len1, Len(out))
      BY ONLY <1>1, <2>2, <3>1, <3>2, <3>4, Fill
    <3> QED  BY <1>1, <3>3
  <2>6. Holds(b', dpos, dlen + len1 + Moved(r), Len(out))
    <3> HIDE DEF b1
    <3>1. 0 = Wrap(dpos + (dlen + len1)) /\ 0 + Moved(r) <= BSize
      BY <1>1, <2>2, <2>3 DEF Wrap, TypeOK
    <3>2. seen = Len(out) + (dlen + len1)
      BY <1>1, <2>2 DEF TypeOK
    <3>3. Moved(r) \in 0..BSize-(dlen + len1)
      BY <2>2, <2>3
    <3>4. b' = Store(b1, 0, Moved(r), Len(out) + (dlen + len1))
      BY <2>1, <2>2, <3>2
    <3> HIDE DEF len1, len2, seen
    <3>5. Holds(Store(b1, 0, Moved(r), Len(out) + (dlen + len1)), dpos,
                (dlen + len1) + Moved(r), Len(out))
      <4> DEFINE stored == dlen + len1
      <4>1. dpos \in 0..BSize-1 /\ stored \in 0..BSize /\ 0 \in 0..BSize-1
        BY <1>1, <2>2 DEF TypeOK
      <4>2. Holds(b1, dpos, stored, Len(out)) /\ 0 = Wrap(dpos + stored)
            /\ Moved(r) \in 0..BSize-stored /\ 0 + Moved(r) <= BSize
        BY <2>5, <3>1, <3>3
      <4> HIDE DEF stored
      <4>3. Holds(Store(b1, 0, Moved(r), Len(out) + stored), dpos, stored + Moved(r), Len(out))
        BY <1>1, <2>4, <4>1, <4>2, Fill
      <4> QED  BY <4>3 DEF stored
    <3> QED  BY <3>4, <3>5
  <2>7. b' \in [0..BSize-1 -> Nat]
    <3> HIDE DEF b1
    <3>1. seen \in Nat /\ Moved(r) \in Nat
      BY <1>1, <2>2, <2>3 DEF TypeOK
    <3>2. SecondRegionAt(len2) \in Int
      BY <2>2
    <3> HIDE DEF b1, seen, len2
    <3> QED  BY <2>1, <2>4, <3>1, <3>2, StoreType
  <2>8. dlen + len1 + Moved(r) \in 0..BSize
    BY <1>1, <2>2, <2>3, SMTT(60) DEF TypeOK
  <2>9. dpos' = dpos /\ out' = out
    BY <1>6 DEF FdToFifoTwoReads
  <2>10. rin' = Len(out) + dlen'
    BY <1>1, <2>1, <2>2, <2>3, SMTT(60) DEF TypeOK
  <2> QED  BY <1>4, <2>1, <2>3, <2>6, <2>7, <2>8, <2>9, <2>10
<1> QED  BY <1>3, <1>5, <1>6 DEF FdToFifo

(* Writing from the FIFO keeps it in order, over one region or both. *)
LEMMA DrainInOrder ==
  ASSUME IInv, NEW useWmin \in BOOLEAN, NEW blocking \in BOOLEAN,
         Drain(useWmin, blocking), UNCHANGED <<b, rin>>, phase' \in {"open", "closed"}
  PROVE  TypeOK' /\ InOrder'
<1> USE BtFifoAssumption
<1>1. /\ TypeOK /\ rin = Len(out) + dlen /\ \A i \in 1..Len(out) : out[i] = i
      /\ Holds(b, dpos, dlen, Len(out)) /\ Len(out) \in Nat
  BY InOrderHolds DEF IInv, TypeOK
<1>2. ASSUME out' \in Seq(Nat), \A i \in 1..Len(out') : out'[i] = i, dlen' \in 0..BSize,
             dpos' \in 0..BSize-1, rin = Len(out') + dlen',
             Holds(b, dpos', dlen', Len(out')), ret' \in Int, cut' \in BOOLEAN
      PROVE  TypeOK' /\ InOrder'
  <2>1. TypeOK'
    BY <1>1, <1>2 DEF TypeOK
  <2>2. InOrder'
    BY <1>1, <1>2 DEF InOrder, StoredAt, Holds, Wrap
  <2> QED  BY <2>1, <2>2
<1>3. ASSUME ret' = 0, UNCHANGED <<dlen, dpos, out, cut>>
      PROVE  TypeOK' /\ InOrder'
  BY <1>1, <1>2, <1>3 DEF TypeOK
<1>4. ASSUME dlen # 0,
             NEW r \in WriteResults(IF TwoUsedRegions THEN BSize - dpos ELSE dlen),
             out' = out \o Cells(dpos, Moved(r)), dlen' = dlen - Moved(r),
             dpos' = IF r > 0 THEN Advance(dpos, dlen, r) ELSE dpos,
             ret' = r, cut' \in BOOLEAN
      PROVE  TypeOK' /\ InOrder'
  <2> DEFINE n == Moved(r)
  <2>1. r \in Int /\ n \in 0..dlen /\ n \in Nat /\ n <= dlen /\ dpos + n <= BSize
    BY <1>1, <1>4 DEF WriteResults, Moved, Again, WriteFail, TwoUsedRegions, TypeOK
  <2>2. dpos' = IF dpos + n = BSize THEN 0 ELSE dpos + n
    BY <1>1, <1>4, <2>1 DEF Advance, Moved, TypeOK
  <2> HIDE DEF n
  <2>3. /\ b \in [0..BSize-1 -> Nat] /\ out \in Seq(Nat)
        /\ dpos \in 0..BSize-1 /\ dlen \in 0..BSize
    BY <1>1 DEF TypeOK
  <2>4. out' = out \o Cells(dpos, n) /\ dlen' = dlen - n
    BY <1>4 DEF n
  <2>5. out' \in Seq(Nat) /\ Len(out') = Len(out) + n /\ \A i \in 1..Len(out') : out'[i] = i
    <3>1. /\ out \o Cells(dpos, n) \in Seq(Nat)
          /\ Len(out \o Cells(dpos, n)) = Len(out) + n
          /\ \A i \in 1..Len(out)+n : (out \o Cells(dpos, n))[i] = i
      BY <1>1, <2>1, <2>3, Emit, Zenon
    <3> QED  BY <2>4, <3>1
  <2>6. Holds(b, dpos', dlen - n, Len(out) + n)
    BY <1>1, <2>1, <2>2, <2>3, Release
  <2>7. dlen' \in 0..BSize /\ dpos' \in 0..BSize-1 /\ rin = Len(out') + dlen'
    BY <1>1, <2>1, <2>2, <2>3, <2>4, <2>5
  <2> QED  BY <1>2, <1>4, <2>1, <2>4, <2>5, <2>6, <2>7
<1>5. ASSUME TwoUsedRegions,
             NEW len1, len1 = BSize - dpos, NEW len2, len2 = dlen - len1,
             NEW r \in WriteResults(len2),
             out' = out \o Cells(dpos, len1) \o Cells(0, Moved(r)), dlen' = len2 - Moved(r),
             dpos' = IF r > 0 THEN Advance(0, len2, r) ELSE 0,
             ret' = r, cut' \in BOOLEAN
      PROVE  TypeOK' /\ InOrder'
  <2> DEFINE n == Moved(r)
             o1 == out \o Cells(dpos, len1)
  <2>1. /\ len1 \in Nat /\ len1 \in 0..dlen /\ len1 <= dlen
        /\ dpos + len1 = BSize /\ dpos + len1 <= BSize
        /\ len2 \in 1..BSize-1 /\ len2 = dlen - len1
    BY <1>1, <1>5 DEF TwoUsedRegions, TypeOK
  <2>2. r \in Int /\ n \in 0..len2 /\ n \in Nat /\ n <= len2 /\ 0 + n <= BSize
    BY <1>5, <2>1 DEF WriteResults, Moved, Again, WriteFail
  <2>3. dpos' = IF 0 + n = BSize THEN 0 ELSE 0 + n
    BY <1>5, <2>1, <2>2 DEF Advance, Moved
  <2>4. out' = o1 \o Cells(0, n) /\ dlen' = len2 - n
    BY <1>5
  <2> HIDE DEF n
  <2>5. /\ b \in [0..BSize-1 -> Nat] /\ out \in Seq(Nat)
        /\ dpos \in 0..BSize-1 /\ dlen \in 0..BSize /\ 0 \in 0..BSize-1
    BY <1>1 DEF TypeOK
  <2>6. o1 \in Seq(Nat) /\ Len(o1) = Len(out) + len1 /\ \A i \in 1..Len(o1) : o1[i] = i
    <3>1. /\ out \o Cells(dpos, len1) \in Seq(Nat)
          /\ Len(out \o Cells(dpos, len1)) = Len(out) + len1
          /\ \A i \in 1..Len(out)+len1 : (out \o Cells(dpos, len1))[i] = i
      BY <1>1, <2>1, <2>5, Emit, Zenon
    <3> QED  BY <3>1
  <2>7. Holds(b, 0, len2, Len(out) + len1)
    <3>1. Holds(b, IF dpos + len1 = BSize THEN 0 ELSE dpos + len1, dlen - len1, Len(out) + len1)
      BY <1>1, <2>1, <2>5, Release, Zenon
    <3> QED  BY <2>1, <3>1
  <2> HIDE DEF o1
  <2>8. Holds(b, 0, len2, Len(o1)) /\ Len(o1) \in Nat /\ len2 \in 0..BSize
    BY <1>1, <2>1, <2>6, <2>7
  <2>9. out' \in Seq(Nat) /\ Len(out') = Len(o1) + n /\ \A i \in 1..Len(out') : out'[i] = i
    <3>1. /\ o1 \o Cells(0, n) \in Seq(Nat)
          /\ Len(o1 \o Cells(0, n)) = Len(o1) + n
          /\ \A i \in 1..Len(o1)+n : (o1 \o Cells(0, n))[i] = i
      BY <2>2, <2>5, <2>6, <2>8, Emit, Zenon
    <3> QED  BY <2>4, <3>1
  <2>10. Holds(b, dpos', len2 - n, Len(o1) + n)
    BY <2>2, <2>3, <2>5, <2>8, Release
  <2>11. dlen' \in 0..BSize /\ dpos' \in 0..BSize-1 /\ rin = Len(out') + dlen'
    <3>1. dlen' \in 0..BSize /\ dpos' \in 0..BSize-1
      BY <2>1, <2>2, <2>3, <2>4, <2>5
    <3>2. Len(out') = Len(out) + len1 + n /\ n \in Int
      BY <2>2, <2>6, <2>9
    <3>3. dlen' = dlen - len1 - n
      BY <2>1, <2>4, <2>5, <3>2
    <3>4. Len(out) \in Int /\ dlen \in Int /\ len1 \in Int /\ rin = Len(out) + dlen
      BY <1>1, <2>1, <2>5
    <3>5. rin = (Len(out) + len1 + n) + (dlen - len1 - n)
      BY <3>2, <3>4
    <3> QED  BY <3>1, <3>2, <3>3, <3>5
  <2> QED  BY <1>2, <1>5, <2>2, <2>4, <2>9, <2>10, <2>11
<1>6. cut \in BOOLEAN
  BY <1>1 DEF TypeOK
<1> QED
  BY <1>3, <1>4, <1>5, <1>6 DEF Drain

LEMMA FifoToFdIInv == IInv /\ FifoToFd => IInv'
<1> SUFFICES ASSUME IInv, FifoToFd PROVE IInv'
  OBVIOUS
<1>1. /\ phase = "open" /\ phase' = "open"
      /\ Drain(UseWmin, FALSE) /\ UNCHANGED <<b, rin>>
  BY DEF FifoToFd
<1>2. TypeOK' /\ InOrder'
  BY <1>1, DrainInOrder, BtFifoAssumption
<1> QED  BY <1>1, <1>2 DEF IInv

(* The last flush: what it did not write, it did not write for a reason. *)
LEMMA FlushAndDestroyIInv == IInv /\ FlushAndDestroy => IInv'
<1> SUFFICES ASSUME IInv, FlushAndDestroy PROVE IInv'
  OBVIOUS
<1>1. Drain(FALSE, TRUE) /\ UNCHANGED <<b, rin>> /\ phase' = "closed"
  BY DEF FlushAndDestroy
<1>2. TypeOK' /\ InOrder'
  BY <1>1, DrainInOrder
<1>3. dlen \in 0..BSize /\ dpos \in 0..BSize-1
  BY DEF IInv, TypeOK
<1>4. ASSUME ~cut' PROVE dlen' = 0
  <2>1. CASE dlen = 0 /\ UNCHANGED dlen
    BY <2>1
  <2>2. ASSUME dlen # 0, NEW r, TwoUsedRegions => r # BSize - dpos, dlen' = dlen - Moved(r),
               cut' = (TRUE /\ r # IF TwoUsedRegions THEN BSize - dpos ELSE dlen)
        PROVE  dlen' = 0
    <3>1. r = IF TwoUsedRegions THEN BSize - dpos ELSE dlen
      BY <1>4, <2>2
    <3>2. r = dlen
      BY <2>2, <3>1
    <3>3. Moved(r) = dlen
      BY <1>3, <2>2, <3>2, BtFifoAssumption DEF Moved
    <3> QED  BY <1>3, <2>2, <3>3, BtFifoAssumption
  <2>3. ASSUME TwoUsedRegions, NEW r, dlen' = dlen - (BSize - dpos) - Moved(r),
               cut' = (TRUE /\ r # dlen - (BSize - dpos))
        PROVE  dlen' = 0
    <3>1. r = dlen - (BSize - dpos)
      BY <1>4, <2>3, Zenon
    <3>2. dlen - (BSize - dpos) \in Nat \ {0}
      BY <1>3, <2>3, BtFifoAssumption DEF TwoUsedRegions
    <3> QED  BY <1>3, <2>3, <3>1, <3>2, BtFifoAssumption DEF Moved
  <2> QED  BY <1>1, <1>4, <2>1, <2>2, <2>3 DEF Drain
<1> QED  BY <1>1, <1>2, <1>4 DEF IInv

LEMMA NextIInv == IInv /\ [Next]_vars => IInv'
<1> SUFFICES ASSUME IInv, [Next]_vars PROVE IInv'
  OBVIOUS
<1>1. CASE FdToFifo
  BY <1>1, FdToFifoIInv
<1>2. CASE FifoToFd
  BY <1>2, FifoToFdIInv
<1>3. CASE FlushAndDestroy
  BY <1>3, FlushAndDestroyIInv
<1>4. CASE UNCHANGED vars
  BY <1>4 DEF vars, IInv, TypeOK, InOrder, StoredAt, Wrap
<1> QED  BY <1>1, <1>2, <1>3, <1>4 DEF Next

LEMMA SpecIInv == Spec => []IInv
BY InitIInv, NextIInv, PTL DEF Spec

(* No sequence of reads, writes and failures takes dlen or dpos out of the *)
(* buffer, of any size.                                                    *)
THEOREM TypeCorrect == Spec => []TypeOK
BY SpecIInv, PTL DEF IInv

(* The FIFO of bufftools.c loses, repeats, reorders and overwrites nothing. *)
THEOREM FifoInOrder == Spec => []InOrder
BY SpecIInv, PTL DEF IInv

(* The flush before btfifo_destroy() delivers everything unless a write    *)
(* fails or is cut short.                                                  *)
THEOREM FlushDelivers == Spec => []FlushComplete
<1>1. IInv => FlushComplete
  BY DEF IInv, TypeOK, InOrder, FlushComplete
<1> QED  BY <1>1, SpecIInv, PTL

-----------------------------------------------------------------------------
(***************************************************************************)
(* The FIFO implements a queue of bytes.                                   *)
(***************************************************************************)

(* The refinement mapping's queue. *)
Stored == [i \in 1..dlen |-> StoredAt(i - 1)]

(* The n bytes of the stream that follow the first k. *)
Bytes(k, n) == [i \in 1..n |-> k + i]

LEMMA BytesType ==
  ASSUME NEW k \in Nat, NEW n \in Nat
  PROVE  Bytes(k, n) \in Seq(Nat) /\ Len(Bytes(k, n)) = n
BY DEF Bytes

LEMMA BytesConcat ==
  ASSUME NEW k \in Nat, NEW m \in Nat, NEW n \in Nat
  PROVE  Bytes(k, m) \o Bytes(k + m, n) = Bytes(k, m + n)
<1> DEFINE x == Bytes(k, m)
           y == Bytes(k + m, n)
           z == Bytes(k, m + n)
<1>1. /\ x \in Seq(Nat) /\ Len(x) = m /\ \A i \in 1..m : x[i] = k + i
      /\ y \in Seq(Nat) /\ Len(y) = n /\ \A i \in 1..n : y[i] = (k + m) + i
      /\ z \in Seq(Nat) /\ Len(z) = m + n /\ \A i \in 1..m+n : z[i] = k + i
  BY BytesType DEF Bytes
<1> HIDE DEF x, y, z
<1>2. /\ x \o y \in Seq(Nat) /\ Len(x \o y) = m + n
      /\ \A i \in 1..m+n : (x \o y)[i] = IF i <= m THEN x[i] ELSE y[i - m]
  <2>1. x \in Seq(Nat) /\ y \in Seq(Nat)
    BY <1>1
  <2>2. /\ x \o y \in Seq(Nat) /\ Len(x \o y) = Len(x) + Len(y)
        /\ \A i \in 1..Len(x)+Len(y) : (x \o y)[i] = IF i <= Len(x) THEN x[i] ELSE y[i - Len(x)]
    BY ONLY <2>1, ConcatProperties, Zenon
  <2> QED  BY <1>1, <2>2, Zenon
<1>3. ASSUME NEW i \in 1..m+n PROVE (x \o y)[i] = z[i]
  <2>1. CASE i <= m
    BY <1>1, <1>2, <2>1
  <2>2. CASE i > m
    <3>1. i - m \in 1..n
      BY <2>2
    <3>2. (x \o y)[i] = (k + m) + (i - m)
      BY <1>1, <1>2, <2>2, <3>1, SMTT(60)
    <3> QED  BY <1>1, <3>2
  <2>3. i <= m \/ i > m
    OBVIOUS
  <2> QED  BY <2>1, <2>2, <2>3
<1>4. x \o y = z
  BY <1>1, <1>2, <1>3, SeqEqual
<1> QED  BY <1>4 DEF x, y, z

LEMMA BytesCut ==
  ASSUME NEW k \in Nat, NEW m \in Nat, NEW n \in Nat
  PROVE  /\ SubSeq(Bytes(k, m + n), 1, m) = Bytes(k, m)
         /\ SubSeq(Bytes(k, m + n), m + 1, m + n) = Bytes(k + m, n)
<1> DEFINE s == Bytes(k, m + n)
<1>1. s \in Seq(Nat) /\ Len(s) = m + n /\ \A i \in 1..m+n : s[i] = k + i
  BY BytesType DEF Bytes
<1> HIDE DEF s
<1>2. SubSeq(s, 1, m) = Bytes(k, m)
  <2>1. SubSeq(s, 1, m) = [i \in 1..m |-> s[1 + i - 1]]
    BY <1>1, SubSeqProperties
  <2>2. \A i \in 1..m : s[1 + i - 1] = k + i
    BY <1>1
  <2> QED  BY <2>1, <2>2 DEF Bytes
<1>3. SubSeq(s, m + 1, m + n) = Bytes(k + m, n)
  <2>1. SubSeq(s, m + 1, m + n) = [i \in 1..(m + n)-(m + 1)+1 |-> s[(m + 1) + i - 1]]
    BY <1>1, SubSeqProperties
  <2>2. (m + n) - (m + 1) + 1 = n
    OBVIOUS
  <2>3. \A i \in 1..n : s[(m + 1) + i - 1] = (k + m) + i
    BY <1>1
  <2> QED  BY <2>1, <2>2, <2>3 DEF Bytes
<1> QED  BY <1>2, <1>3 DEF s

(* What is written and what is stored are successive runs of the stream. *)
AsRuns ==
  /\ Len(out) \in Nat /\ dlen \in Nat /\ dlen <= BSize /\ rin = Len(out) + dlen
  /\ out = Bytes(0, Len(out)) /\ Stored = Bytes(Len(out), dlen)

LEMMA Runs == IInv => AsRuns
<1> SUFFICES ASSUME TypeOK, InOrder PROVE AsRuns
  BY DEF IInv
<1>1. Len(out) \in Nat /\ dlen \in Nat /\ dlen <= BSize /\ out \in Seq(Nat)
  BY BtFifoAssumption DEF TypeOK
<1>2. out = Bytes(0, Len(out))
  <2>1. \A i \in 1..Len(out) : out[i] = Bytes(0, Len(out))[i]
    BY DEF InOrder, Bytes
  <2> QED  BY <1>1, <2>1, BytesType, SeqEqual
<1>3. Stored = Bytes(Len(out), dlen)
  <2>1. ASSUME NEW i \in 1..dlen PROVE StoredAt(i - 1) = Len(out) + i
    <3>1. i - 1 \in 0..dlen-1
      BY <1>1
    <3>2. StoredAt(i - 1) = Len(out) + (i - 1) + 1
      BY <3>1 DEF InOrder
    <3> QED  BY <1>1, <3>2
  <2> QED  BY <2>1 DEF Stored, Bytes
<1> QED  BY <1>1, <1>2, <1>3 DEF AsRuns, InOrder

(* An operation only adds to what is stored or only takes from it. *)
LEMMA OneWay ==
  ASSUME IInv, [Next]_vars
  PROVE  (out' = out /\ dlen' >= dlen) \/ (rin' = rin /\ Len(out') >= Len(out))
<1> USE BtFifoAssumption
<1>1. dlen \in 0..BSize /\ dpos \in 0..BSize-1
  BY DEF IInv, TypeOK
<1>2. CASE FdToFifoFull
  BY <1>2 DEF FdToFifoFull
<1>3. CASE FdToFifoOneRead
  BY <1>1, <1>3 DEF FdToFifoOneRead, Moved, ReadResults, Again, ReadFail1, ReadFail2
<1>4. CASE FdToFifoTwoReads
  <2>1. PICK r \in ReadResults(BSize - (dlen + (BSize - (dpos + dlen))),
                               rin + (BSize - (dpos + dlen)), ReadFail2) :
           dlen' = dlen + (BSize - (dpos + dlen)) + Moved(r)
    BY <1>4 DEF FdToFifoTwoReads
  <2>2. Moved(r) \in Nat
    BY <1>1, <1>4, <2>1 DEF FdToFifoTwoReads, TwoFreeRegions, ReadResults, Moved, Again, ReadFail2
  <2>3. dlen' >= dlen
    BY <1>1, <1>4, <2>1, <2>2 DEF FdToFifoTwoReads, TwoFreeRegions
  <2> QED  BY <1>4, <2>3 DEF FdToFifoTwoReads
<1>5. CASE FifoToFd \/ FlushAndDestroy
  <2>1. rin' = rin
    BY <1>5 DEF FifoToFd, FlushAndDestroy
  <2>2. IInv'
    BY <1>5, NextIInv DEF Next
  <2>3. Len(out) \in Nat /\ rin = Len(out) + dlen /\ Len(out') \in Nat /\ rin = Len(out') + dlen'
        /\ dlen' \in 0..BSize
    <3>1. Len(out) \in Nat /\ rin = Len(out) + dlen
      BY DEF IInv, TypeOK, InOrder
    <3>2. Len(out') \in Nat /\ rin' = Len(out') + dlen' /\ dlen' \in 0..BSize
      BY <2>2 DEF IInv, TypeOK, InOrder
    <3> QED  BY <2>1, <3>1, <3>2
  <2>4. dlen' <= dlen
    <3>1. Drain(UseWmin, FALSE) \/ Drain(FALSE, TRUE)
      BY <1>5 DEF FifoToFd, FlushAndDestroy
    <3>2. \/ dlen' = dlen
          \/ \E r : dlen' = dlen - Moved(r) /\ r \in WriteResults(IF TwoUsedRegions THEN BSize - dpos ELSE dlen)
          \/ TwoUsedRegions /\ \E r : /\ dlen' = dlen - (BSize - dpos) - Moved(r)
                                     /\ r \in WriteResults(dlen - (BSize - dpos))
      BY <3>1 DEF Drain
    <3>3. \A r : /\ r \in WriteResults(IF TwoUsedRegions THEN BSize - dpos ELSE dlen) => Moved(r) \in Nat
                 /\ r \in WriteResults(dlen - (BSize - dpos)) => Moved(r) \in Nat
      BY <1>1 DEF WriteResults, Moved, Again, WriteFail
    <3> QED  BY <1>1, <3>2, <3>3
  <2> QED  BY <1>1, <2>1, <2>3, <2>4
<1>6. CASE UNCHANGED vars
  BY <1>1, <1>6 DEF vars
<1> QED  BY <1>2, <1>3, <1>4, <1>5, <1>6 DEF Next, FdToFifo

LEMMA InitRefines == Init => Q!Init
<1> SUFFICES ASSUME Init PROVE Q!Init
  OBVIOUS
<1>1. Stored = <<>> /\ out = <<>>
  BY DEF Init, Stored
<1> QED  BY <1>1 DEF Q!Init, Stored

(* More is stored: the queue accepts the bytes. *)
LEMMA PutStep ==
  ASSUME AsRuns, AsRuns', out' = out, dlen' >= dlen
  PROVE  [Q!Next]_(Q!vars)
<1>1. /\ Len(out) \in Nat /\ dlen \in Nat /\ dlen' \in Nat /\ dlen' <= BSize
      /\ Stored = Bytes(Len(out), dlen) /\ Stored' = Bytes(Len(out), dlen')
  BY DEF AsRuns, Bytes
<1>2. CASE dlen' = dlen
  <2>1. Stored' = Stored
    BY <1>1, <1>2
  <2> QED  BY <2>1 DEF Q!vars, Stored
<1>3. CASE dlen' # dlen
  <2>1. PICK n \in Nat : n >= 1 /\ dlen + n = dlen'
    <3>1. dlen \in Nat /\ dlen' \in Nat
      BY <1>1
    <3>2. dlen' > dlen
      BY <1>3, <3>1
    <3>3. \A x, y \in Nat : y > x => y - x \in Nat /\ y - x >= 1 /\ x + (y - x) = y
      OBVIOUS
    <3>4. dlen' - dlen \in Nat /\ dlen' - dlen >= 1 /\ dlen + (dlen' - dlen) = dlen'
      BY <3>1, <3>2, <3>3
    <3> QED  BY <3>4
  <2>2. n \in 1..BSize
    BY <1>1, <2>1, BtFifoAssumption
  <2>3. Len(Stored) = dlen
    BY <1>1, BytesType
  <2>4. Stored' = Stored \o Bytes(Len(out) + dlen, n)
    BY <1>1, <2>1, BytesConcat, ZenonT(60)
  <2>5. Q!Put(n)
    BY <1>1, <2>1, <2>3, <2>4 DEF Q!Put, Q!Arrived, Stored, Bytes
  <2> QED  BY <2>2, <2>5 DEF Q!Next
<1> QED  BY <1>2, <1>3

(* Bytes are written: the queue hands them on. *)
LEMMA TakeStep ==
  ASSUME AsRuns, AsRuns', rin' = rin, Len(out') >= Len(out)
  PROVE  [Q!Next]_(Q!vars)
<1>1. /\ Len(out) \in Nat /\ dlen \in Nat /\ Len(out') \in Nat /\ dlen' \in Nat
      /\ Len(out') + dlen' = Len(out) + dlen
      /\ out = Bytes(0, Len(out)) /\ out' = Bytes(0, Len(out'))
      /\ Stored = Bytes(Len(out), dlen) /\ Stored' = Bytes(Len(out'), dlen')
  BY DEF AsRuns, Bytes
<1>2. CASE Len(out') = Len(out)
  <2>1. dlen' = dlen
    BY <1>1, <1>2
  <2>2. Stored' = Stored /\ out' = out
    BY <1>1, <1>2, <2>1
  <2> QED  BY <2>2 DEF Q!vars, Stored
<1>3. CASE Len(out') # Len(out)
  <2>1. PICK n \in Nat : n >= 1 /\ Len(out') = Len(out) + n /\ dlen = n + dlen'
    <3> DEFINE d == Len(out') - Len(out)
    <3>1. d \in Nat /\ d >= 1 /\ Len(out') = Len(out) + d /\ dlen = d + dlen'
      BY <1>1, <1>3
    <3> QED  BY <3>1
  <2>2. Len(Stored) = dlen /\ n \in 1..dlen
    <3>1. dlen \in Nat /\ dlen' \in Nat
      BY <1>1
    <3>2. \A x, y \in Nat : y = n + x => n \in 1..y
      BY <2>1
    <3>3. n \in 1..dlen
      BY <2>1, <3>1, <3>2
    <3> QED  BY <1>1, <3>3, BytesType
  <2>3. SubSeq(Stored, 1, n) = Bytes(Len(out), n) /\ SubSeq(Stored, n + 1, dlen) = Stored'
    <3>1. /\ SubSeq(Bytes(Len(out), n + dlen'), 1, n) = Bytes(Len(out), n)
          /\ SubSeq(Bytes(Len(out), n + dlen'), n + 1, n + dlen') = Bytes(Len(out) + n, dlen')
      <4>1. Len(out) \in Nat /\ dlen' \in Nat
        BY <1>1
      <4> HIDE DEF Bytes
      <4> QED  BY <2>1, <4>1, BytesCut, Zenon
    <3>2. Stored = Bytes(Len(out), n + dlen') /\ Stored' = Bytes(Len(out) + n, dlen') /\ dlen = n + dlen'
      BY <1>1, <2>1
    <3> QED  BY <3>1, <3>2, Zenon
  <2>4. out' = out \o Bytes(Len(out), n)
    <3>1. Bytes(0, Len(out)) \o Bytes(0 + Len(out), n) = Bytes(0, Len(out) + n)
      BY <1>1, BytesConcat
    <3>2. 0 + Len(out) = Len(out)
      BY <1>1
    <3> QED  BY <1>1, <2>1, <3>1, <3>2
  <2>5. Q!Take(n)
    BY <2>2, <2>3, <2>4 DEF Q!Take, Stored
  <2> QED  BY <2>2, <2>5 DEF Q!Next, Stored
<1> QED  BY <1>2, <1>3

LEMMA NextRefines ==
  ASSUME IInv, [Next]_vars, AsRuns, AsRuns'
  PROVE  [Q!Next]_(Q!vars)
<1>1. CASE out' = out /\ dlen' >= dlen
  BY <1>1, PutStep
<1>2. CASE rin' = rin /\ Len(out') >= Len(out)
  BY <1>2, TakeStep
<1> QED  BY <1>1, <1>2, OneWay

(* Over its wrap-around, short transfers and failures, the circular buffer *)
(* of bufftools.c is a bounded queue of bytes, for every size of it.       *)
THEOREM FifoIsQueue == Spec => ImplementsByteQueue
<1>1. [](IInv => AsRuns)
  BY Runs, PTL
<1>2. IInv /\ AsRuns /\ AsRuns' /\ [Next]_vars => [Q!Next]_(Q!vars)
  BY NextRefines
<1> QED  BY <1>1, <1>2, InitRefines, SpecIInv, PTL DEF Spec, ImplementsByteQueue, Q!Spec
=============================================================================
