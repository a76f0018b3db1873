---------------------------- MODULE TanidvrProofs ---------------------------
(***************************************************************************)
(* Proofs about the connection that tanidvr opens and reads from, and      *)
(* about its command line, for any command line, addresses and messages,   *)
(* and any room for data.                                                  *)
(***************************************************************************)
EXTENDS Tanidvr, SequenceTheorems, WellFoundedInduction, TLAPS

-----------------------------------------------------------------------------
(***************************************************************************)
(* Network: the addresses.                                                 *)
(***************************************************************************)
LEMMA LeastOf ==
  ASSUME NEW T \in SUBSET Nat, T # {}
  PROVE  \E k \in T : \A i \in T : k <= i
<1> DEFINE R == OpToRel(<, Nat)
<1>1. IsWellFoundedOn(R, Nat)
  BY NatLessThanWellFounded
<1>2. \A x, y \in Nat : <<y, x>> \notin R => x <= y
  BY DEF OpToRel
<1> HIDE DEF R
<1>3. PICK k \in T : \A i \in T : <<i, k>> \notin R
  BY <1>1, WFMin
<1> QED  BY <1>2, <1>3

LEMMA PartOf ==
  ASSUME NEW T, NEW s \in Seq(T), NEW m \in 1..Len(s)+1, NEW n \in m-1..Len(s)
  PROVE  /\ SubSeq(s, m, n) \in Seq(T) /\ Len(SubSeq(s, m, n)) = n - m + 1
         /\ \A i \in 1..n-m+1 : m + i - 1 \in 1..Len(s) /\ SubSeq(s, m, n)[i] = s[m+i-1]
<1>1. Len(s) \in Nat /\ m \in Int /\ n \in Int /\ m <= n + 1 /\ n <= Len(s) /\ 1 <= m
  OBVIOUS
<1>2. \A i \in m..n : i \in 1..Len(s)
  BY <1>1
<1>3. \A i \in m..n : s[i] \in T
  BY <1>2, ElementOfSeq
<1>4. /\ SubSeq(s, m, n) \in Seq(T)
      /\ Len(SubSeq(s, m, n)) = IF m <= n THEN n - m + 1 ELSE 0
      /\ \A i \in 1..n-m+1 : SubSeq(s, m, n)[i] = s[m+i-1]
  BY <1>1, <1>3, SubSeqProperties
<1>5. (IF m <= n THEN n - m + 1 ELSE 0) = n - m + 1
  BY <1>1
<1>6. \A i \in 1..n-m+1 : m + i - 1 \in 1..Len(s)
  BY <1>1
<1> QED  BY <1>4, <1>5, <1>6

LEMMA ConcatAt ==
  ASSUME NEW T, NEW s \in Seq(T), NEW t \in Seq(T)
  PROVE  /\ s \o t \in Seq(T) /\ Len(s \o t) = Len(s) + Len(t)
         /\ \A i \in 1..Len(s) : (s \o t)[i] = s[i]
         /\ \A i \in 1..Len(t) : (s \o t)[Len(s)+i] = t[i]
<1>1. Len(s) \in Nat /\ Len(t) \in Nat
  OBVIOUS
<1>2. /\ s \o t \in Seq(T) /\ Len(s \o t) = Len(s) + Len(t)
      /\ \A i \in 1..Len(s)+Len(t) : (s \o t)[i] = IF i <= Len(s) THEN s[i] ELSE t[i - Len(s)]
  BY ConcatProperties
<1>3. \A i \in 1..Len(s) : i \in 1..Len(s)+Len(t) /\ i <= Len(s)
  BY <1>1
<1>4. \A i \in 1..Len(t) : Len(s) + i \in 1..Len(s)+Len(t) /\ ~(Len(s) + i <= Len(s)) /\ Len(s) + i - Len(s) = i
  BY <1>1
<1>5. ASSUME NEW i \in 1..Len(t) PROVE (s \o t)[Len(s)+i] = t[i]
  <2> DEFINE j == Len(s) + i
  <2>1. j \in 1..Len(s)+Len(t) /\ ~(j <= Len(s)) /\ j - Len(s) = i
    BY <1>4
  <2> HIDE DEF j
  <2>2. (s \o t)[j] = t[j - Len(s)]
    BY <1>2, <2>1
  <2> QED  BY <2>1, <2>2 DEF j
<1> QED  BY <1>2, <1>3, <1>5

(* The entries are the addresses from the first of the family on.          *)
LEMMA EntriesOf ==
  ASSUME NEW list \in Seq(Addresses), Chosen(list) # "none"
  PROVE  LET f == FirstOf(list, Chosen(list))
             e == Entries(list) IN
           /\ f \in DOMAIN list /\ \A k \in Having(list, Chosen(list)) : f <= k
           /\ e \in Seq(Addresses) /\ Len(e) <= MAX_SA_ENTRIES
           /\ \A k \in DOMAIN list :
                f <= k /\ k < f + MAX_SA_ENTRIES => k - f + 1 \in 1..Len(e) /\ e[k-f+1] = list[k]
<1> DEFINE H == Having(list, Chosen(list))
           f == FirstOf(list, Chosen(list))
           n == IF Len(list) < f + MAX_SA_ENTRIES - 1 THEN Len(list) ELSE f + MAX_SA_ENTRIES - 1
<1>1. H \in SUBSET Nat /\ H # {} /\ H \subseteq DOMAIN list /\ DOMAIN list = 1..Len(list) /\ Len(list) \in Nat
  <2>1. H # {}
    BY DEF Chosen
  <2>2. DOMAIN list = 1..Len(list) /\ Len(list) \in Nat
    OBVIOUS
  <2>3. H \subseteq DOMAIN list
    BY DEF Having
  <2> QED  BY <2>1, <2>2, <2>3
<1>2. f \in H /\ \A k \in H : f <= k
  <2>1. \E k \in H : \A i \in H : k <= i
    <3> HIDE DEF H
    <3> QED  BY <1>1, LeastOf
  <2> QED  BY <2>1 DEF FirstOf
<1>3. Entries(list) = SubSeq(list, f, n)
  BY DEF Entries
<1> HIDE DEF f, H
<1>4. f \in 1..Len(list) /\ n \in 1..Len(list) /\ n - f + 1 <= MAX_SA_ENTRIES /\ f <= n
  BY <1>1, <1>2, NetworkAssumption
<1>5. \A k \in 1..Len(list) : k < f + MAX_SA_ENTRIES => k <= n
  BY <1>4, NetworkAssumption
<1> HIDE DEF n
<1>6. \A i \in f..n : list[i] \in Addresses
  BY <1>1, <1>4
<1>7. /\ SubSeq(list, f, n) \in Seq(Addresses) /\ Len(SubSeq(list, f, n)) = n - f + 1
      /\ \A i \in 1..n-f+1 : SubSeq(list, f, n)[i] = list[f+i-1]
  BY <1>4, <1>6, SubSeqProperties
<1>8. ASSUME NEW k \in 1..Len(list), f <= k, k < f + MAX_SA_ENTRIES
      PROVE  k - f + 1 \in 1..n-f+1 /\ f + (k - f + 1) - 1 = k
  BY <1>4, <1>5, <1>8
<1>9. ASSUME NEW k \in 1..Len(list), f <= k, k < f + MAX_SA_ENTRIES
      PROVE  k - f + 1 \in 1..Len(Entries(list)) /\ Entries(list)[k-f+1] = list[k]
  <2> DEFINE j == k - f + 1
  <2>1. j \in 1..n-f+1 /\ f + j - 1 = k
    BY <1>8, <1>9
  <2> HIDE DEF j
  <2>2. SubSeq(list, f, n)[j] = list[k]
    BY <1>7, <2>1
  <2> QED  BY <1>3, <1>7, <2>1, <2>2 DEF j
<1> QED  BY <1>1, <1>2, <1>3, <1>4, <1>7, <1>9 DEF f, H

(* The entries behind those still to be tried lead nowhere. *)
Trying ==
  /\ Chosen(ai) # "none"
  /\ Len(sa) <= Len(Entries(ai))
  /\ \A k \in 1..Len(sa) : sa[k] = Entries(ai)[k]
  /\ \A k \in 1..Len(Entries(ai)) : k > Len(sa) =>
       ~Entries(ai)[k].up \/ Entries(ai)[k].family # Chosen(ai)

NetInv ==
  /\ net \in {"resolve", "connect", "refused", "open", "stdout"}
  /\ ai \in Seq(Addresses)
  /\ sa \in Seq(Addresses) /\ Len(sa) <= MAX_SA_ENTRIES
  /\ net = "resolve" => ai = <<>>
  /\ net = "connect" => Trying
  /\ ReachableIsTried

LEMMA NetInit1 == NetInit => NetInv
BY NetworkAssumption DEF NetInit, NetInv, ReachableIsTried

LEMMA ResolveStep ==
  ASSUME NetInv, Resolve
  PROVE  NetInv'
<1>1. net = "resolve" /\ ai = <<>>
  BY DEF Resolve, NetInv
<1>2. CASE Refuse /\ UNCHANGED ai
  BY <1>1, <1>2 DEF Refuse, NetInv, ReachableIsTried
<1>3. CASE ai' \in SeqOf(Addresses, MaxAddresses) \ {<<>>} /\ ~(Refuse /\ UNCHANGED ai)
  <2>1. ai' \in Seq(Addresses)
    <3>1. PICK m \in 0..MaxAddresses : ai' \in [1..m -> Addresses]
      BY <1>3 DEF SeqOf
    <3> QED  BY <3>1, NetworkAssumption
  <2>2. CASE Chosen(ai') = "none"
    <3>1. net' = "stdout" /\ UNCHANGED sa
      BY <1>3, <2>2 DEF Resolve
    <3> QED  BY <2>1, <3>1 DEF NetInv, ReachableIsTried
  <2>3. CASE Chosen(ai') # "none"
    <3>1. net' = "connect" /\ sa' = Entries(ai')
      BY <1>3, <2>3 DEF Resolve
    <3>2. Entries(ai') \in Seq(Addresses) /\ Len(Entries(ai')) <= MAX_SA_ENTRIES
      BY <2>1, <2>3, EntriesOf
    <3>3. \A k \in 1..Len(sa') : ~(k > Len(sa'))
      <4>1. Len(sa') \in Nat
        BY <3>1, <3>2
      <4> QED  BY <4>1
    <3>4. Len(sa') <= Len(Entries(ai'))
      <4>1. Len(sa') \in Nat
        BY <3>1, <3>2
      <4> QED  BY <3>1, <4>1
    <3>5. Trying'
      BY <2>3, <3>1, <3>3, <3>4 DEF Trying, Chosen, Having, Entries, FirstOf
    <3> QED  BY <2>1, <3>1, <3>2, <3>5 DEF NetInv, ReachableIsTried
  <2> QED  BY <2>2, <2>3
<1> QED  BY <1>2, <1>3 DEF Resolve

LEMMA ConnectStep ==
  ASSUME NetInv, Connect
  PROVE  NetInv'
<1> DEFINE e == Entries(ai)
           f == FirstOf(ai, Chosen(ai))
<1>1. net = "connect" /\ Trying /\ ai \in Seq(Addresses) /\ sa \in Seq(Addresses) /\ Len(sa) \in Nat
  BY DEF Connect, NetInv
<1>2. CASE sa = <<>>
  <2>1. net' = "refused" /\ UNCHANGED <<sa, ai>>
    BY <1>2 DEF Connect, Refuse
  <2>2. \A k \in 1..Len(e) : ~e[k].up \/ e[k].family # Chosen(ai)
    BY <1>1, <1>2 DEF Trying
  <2>3. /\ \A k \in Having(ai, Chosen(ai)) : f <= k
        /\ \A k \in DOMAIN ai : f <= k /\ k < f + MAX_SA_ENTRIES => k - f + 1 \in 1..Len(e) /\ e[k-f+1] = ai[k]
    BY <1>1, EntriesOf DEF Trying
  <2> HIDE DEF e, f
  <2>4. \A k \in Having(ai, Chosen(ai)) : k < f + MAX_SA_ENTRIES => ~ai[k].up
    BY <2>2, <2>3 DEF Having
  <2>5. ReachableIsTried'
    BY <2>1, <2>4 DEF ReachableIsTried, Having, Chosen, FirstOf, f
  <2> QED  BY <1>1, <2>1, <2>5 DEF NetInv
<1>3. CASE sa # <<>> /\ Last(sa).up /\ Last(sa).family = Chosen(ai)
  <2>1. net' = "open" /\ sa' = <<>> /\ ai' = <<>>
    BY <1>3 DEF Connect
  <2> QED  BY <2>1, NetworkAssumption DEF NetInv, ReachableIsTried
<1>4. CASE sa # <<>> /\ ~(Last(sa).up /\ Last(sa).family = Chosen(ai))
  <2>1. sa' = Front(sa) /\ UNCHANGED <<ai, net>>
    BY <1>4 DEF Connect
  <2>2. Len(sa) \in Nat \ {0}
    BY <1>1, <1>4
  <2>3. /\ Front(sa) \in Seq(Addresses) /\ Len(Front(sa)) = Len(sa) - 1
        /\ \A k \in 1..Len(sa)-1 : Front(sa)[k] = sa[k]
    <3> DEFINE n == Len(sa) - 1
    <3>1. 1 \in 1..Len(sa)+1 /\ n \in 1-1..Len(sa) /\ n - 1 + 1 = n /\ \A i \in Nat : 1 + i - 1 = i
      BY <2>2
    <3> HIDE DEF n
    <3>2. /\ SubSeq(sa, 1, n) \in Seq(Addresses) /\ Len(SubSeq(sa, 1, n)) = n
          /\ \A i \in 1..n : SubSeq(sa, 1, n)[i] = sa[i]
      <4>1. /\ SubSeq(sa, 1, n) \in Seq(Addresses) /\ Len(SubSeq(sa, 1, n)) = n - 1 + 1
            /\ \A i \in 1..n-1+1 : SubSeq(sa, 1, n)[i] = sa[1+i-1]
        BY <1>1, <3>1, PartOf
      <4> QED  BY <3>1, <4>1
    <3> QED  BY <3>2 DEF Front, n
  <2> DEFINE n == Len(sa)
  <2>4. Last(sa) = e[n] /\ n <= Len(e)
    BY <1>1, <2>2 DEF Trying, Last
  <2>5. \A k \in 1..Len(e) : k > n - 1 => ~e[k].up \/ e[k].family # Chosen(ai)
    <3> HIDE DEF e
    <3>1. \A k \in 1..Len(e) : k > n => ~e[k].up \/ e[k].family # Chosen(ai)
      BY <1>1 DEF Trying, e
    <3>2. \A k \in 1..Len(e) : k > n - 1 => k = n \/ k > n
      BY <2>2
    <3> QED  BY <1>4, <2>4, <3>1, <3>2
  <2>6. Len(Front(sa)) <= Len(e) /\ Len(Front(sa)) <= MAX_SA_ENTRIES
    <3>1. Len(e) \in Nat /\ n <= MAX_SA_ENTRIES
      BY <1>1, EntriesOf DEF Trying, NetInv
    <3> QED  BY <2>2, <2>3, <2>4, <3>1, NetworkAssumption
  <2>7. \A k \in 1..Len(Front(sa)) : Front(sa)[k] = e[k]
    BY <1>1, <2>2, <2>3, SMTT(60) DEF Trying
  <2> HIDE DEF e, n
  <2>8. Trying'
    <3>1. Chosen(ai)' = Chosen(ai) /\ Entries(ai)' = e /\ Chosen(ai) # "none"
      <4>1. ai' = ai /\ Chosen(ai) # "none"
        BY <1>1, <2>1 DEF Trying
      <4>2. Chosen(ai)' = Chosen(ai)
        BY ONLY <4>1 DEF Chosen, Having
      <4>3. Entries(ai)' = Entries(ai)
        BY ONLY <4>1, <4>2 DEF Entries, FirstOf, Having
      <4> QED  BY <4>1, <4>2, <4>3 DEF e
    <3> QED  BY <2>1, <2>3, <2>5, <2>6, <2>7, <3>1 DEF Trying, n
  <2> QED  BY <1>1, <2>1, <2>3, <2>6, <2>8 DEF NetInv, ReachableIsTried
<1> QED  BY <1>2, <1>3, <1>4

LEMMA NetKept ==
  ASSUME NetInv, UNCHANGED netVars
  PROVE  NetInv'
<1>1. ai' = ai /\ sa' = sa /\ net' = net
  BY DEF netVars
<1>2. Trying' = Trying
  BY <1>1 DEF Trying, Chosen, Having, Entries, FirstOf
<1>3. ReachableIsTried' = ReachableIsTried
  BY <1>1 DEF ReachableIsTried, Chosen, Having, FirstOf
<1> QED  BY <1>1, <1>2, <1>3 DEF NetInv

-----------------------------------------------------------------------------
(***************************************************************************)
(* Wire: how a message is laid out.                                        *)
(***************************************************************************)
LEMMA CellsConcatAt ==
  \A s, t \in Seq(Cells) :
    /\ s \o t \in Seq(Cells) /\ Len(s \o t) = Len(s) + Len(t)
    /\ \A i \in 1..Len(s) : (s \o t)[i] = s[i]
    /\ \A i \in 1..Len(t) : (s \o t)[Len(s)+i] = t[i]
BY ConcatAt

LEMMA BaseType == Base \in Nat /\ Base > 1 /\ MaxExt \in Nat /\ Base - 1 <= MaxExt
<1>1. Base \in Nat /\ Base > 1
  BY WireAssumption
<1>2. Base * Base \in Nat /\ Base <= Base * Base
  BY <1>1
<1> QED  BY <1>1, <1>2 DEF MaxExt

LEMMA Divided ==
  ASSUME NEW v \in Nat, NEW d \in Nat, d > 0
  PROVE  /\ v % d \in 0..d-1 /\ v \div d \in Nat
         /\ v = d * (v \div d) + (v % d)
OBVIOUS

LEMMA DigitsOf ==
  ASSUME NEW v \in 0..MaxExt
  PROVE  /\ v % Base \in Cells /\ v \div Base \in Cells
         /\ (v % Base) + (v \div Base) * Base = v
<1> DEFINE q == v \div Base
           r == v % Base
<1>1. r \in 0..Base-1 /\ q \in Nat /\ v = Base * q + r /\ v \in Nat
  BY BaseType, Divided
<1> HIDE DEF q, r
<1>2. q < Base
  <2>1. \A x, b \in Nat : x >= b => b * x >= b * b
    OBVIOUS
  <2>2. q >= Base => Base * q >= Base * Base
    BY <1>1, <2>1, BaseType
  <2>3. Base * q < Base * Base
    <3>1. Base * q \in Nat /\ Base * Base \in Nat /\ v <= Base * Base - 1
      BY <1>1, BaseType DEF MaxExt
    <3> QED  BY <1>1, <3>1
  <2> QED  BY <1>1, <2>2, <2>3, BaseType
<1>3. r + q * Base = v
  BY <1>1, BaseType
<1> QED  BY <1>1, <1>2, <1>3, BaseType DEF Cells, q, r

LEMMA ValueOf ==
  ASSUME NEW a \in Cells, NEW b \in Cells
  PROVE  a + b * Base \in 0..MaxExt
<1>1. a \in Nat /\ a <= Base - 1 /\ b \in Nat /\ b <= Base - 1
  BY BaseType DEF Cells
<1>2. b * Base <= (Base - 1) * Base /\ b * Base \in Nat /\ (Base - 1) * Base = Base * Base - Base
  BY <1>1, BaseType
<1>3. Base * Base \in Nat
  BY BaseType
<1> QED  BY <1>1, <1>2, <1>3, BaseType DEF MaxExt

Size(m) == HEADER_SIZE + Len(m.ext)
Encoded(m) == <<m.cmd>> \o NV2LM(Len(m.ext)) \o m.ext

LEMMA MessageType ==
  ASSUME NEW m \in Messages
  PROVE  m.cmd \in Cells /\ m.ext \in Seq(Cells) /\ Len(m.ext) \in 0..MaxExt /\ Size(m) \in Nat
<1>1. m.cmd \in Cmds /\ m.ext \in Payloads
  BY DEF Messages
<1>2. m.ext \in Seq(Cells) /\ Len(m.ext) <= MaxExt
  BY <1>1, WireAssumption
<1>3. Len(m.ext) \in Nat
  BY <1>2
<1> QED  BY <1>1, <1>2, <1>3, BaseType, WireAssumption DEF Size, HEADER_SIZE

LEMMA Encoding ==
  ASSUME NEW m \in Messages
  PROVE  /\ Encoded(m) \in Seq(Cells) /\ Len(Encoded(m)) = Size(m)
         /\ Encoded(m)[1] = m.cmd
         /\ Encoded(m)[2] + Encoded(m)[3] * Base = Len(m.ext)
         /\ \A i \in 1..Len(m.ext) : Encoded(m)[3+i] = m.ext[i]
<1> DEFINE c == m.cmd
           x == m.ext
           lo == Len(x) % Base
           hi == Len(x) \div Base
<1>1. c \in Cells /\ x \in Seq(Cells) /\ lo \in Cells /\ hi \in Cells /\ lo + hi * Base = Len(x)
  BY MessageType, DigitsOf
<1>2. Encoded(m) = <<c>> \o <<lo, hi>> \o x
  BY DEF Encoded, NV2LM
<1>3. Size(m) = 3 + Len(x)
  BY DEF Size, HEADER_SIZE
<1> HIDE DEF c, x, lo, hi
<1> DEFINE h == <<c>> \o <<lo, hi>>
<1>4. <<c>> \in Seq(Cells) /\ Len(<<c>>) = 1 /\ <<c>>[1] = c
  BY <1>1
<1>5. <<lo, hi>> \in Seq(Cells) /\ Len(<<lo, hi>>) = 2 /\ <<lo, hi>>[1] = lo /\ <<lo, hi>>[2] = hi
  BY <1>1
<1>6. h \in Seq(Cells) /\ Len(h) = 3 /\ h[1] = c /\ h[2] = lo /\ h[3] = hi
  <2> DEFINE u == <<c>>
             v == <<lo, hi>>
  <2> HIDE DEF u, v
  <2>1. /\ u \o v \in Seq(Cells) /\ Len(u \o v) = Len(u) + Len(v)
        /\ \A i \in 1..Len(u) : (u \o v)[i] = u[i]
        /\ \A i \in 1..Len(v) : (u \o v)[Len(u)+i] = v[i]
    BY <1>4, <1>5, CellsConcatAt DEF u, v
  <2>2. Len(u) = 1 /\ u[1] = c /\ Len(v) = 2 /\ v[1] = lo /\ v[2] = hi
    BY <1>4, <1>5 DEF u, v
  <2>3. (u \o v)[1] = c /\ (u \o v)[1+1] = lo /\ (u \o v)[1+2] = hi
    BY <2>1, <2>2
  <2> QED  BY <2>1, <2>2, <2>3 DEF u, v
<1>7. Encoded(m) = h \o x
  BY <1>2
<1> HIDE DEF h
<1>8. /\ h \o x \in Seq(Cells) /\ Len(h \o x) = 3 + Len(x)
      /\ \A i \in 1..3 : (h \o x)[i] = h[i]
      /\ \A i \in 1..Len(x) : (h \o x)[3+i] = x[i]
  <2>1. /\ h \o x \in Seq(Cells) /\ Len(h \o x) = Len(h) + Len(x)
        /\ \A i \in 1..Len(h) : (h \o x)[i] = h[i]
        /\ \A i \in 1..Len(x) : (h \o x)[Len(h)+i] = x[i]
    <3>1. h \in Seq(Cells) /\ x \in Seq(Cells)
      BY <1>1, <1>6
    <3> QED  BY <3>1, CellsConcatAt
  <2> QED  BY <1>6, <2>1
<1> QED  BY <1>1, <1>3, <1>6, <1>7, <1>8 DEF c, x

(* The messages of s, from the b-th on, lie in the cells r; the k-th lies  *)
(* behind place off[k], which is negative for what has been read of it.    *)
Laid(r, off, s, b) ==
  /\ off \in [Nat -> Int]
  /\ \A k \in b..Len(s) :
       /\ off[k+1] = off[k] + Size(s[k]) /\ off[k+1] <= off[Len(s)+1]
       /\ \A i \in 1..Size(s[k]) : off[k] + i \in 1..Len(r) => r[off[k]+i] = Encoded(s[k])[i]

LEMMA SizeType ==
  ASSUME NEW s \in Seq(Messages), NEW b \in Nat \ {0}, NEW k \in b..Len(s)
  PROVE  k \in 1..Len(s) /\ k \in Nat /\ k + 1 \in Nat /\ s[k] \in Messages /\ Size(s[k]) \in Nat
<1>1. Len(s) \in Nat
  OBVIOUS
<1>2. k \in 1..Len(s) /\ k \in Nat /\ k + 1 \in Nat
  BY <1>1
<1>3. s[k] \in Messages
  BY <1>2, ElementOfSeq
<1> QED  BY <1>2, <1>3, MessageType

LEMMA ShiftedIn ==
  ASSUME NEW n \in Nat, NEW p \in Nat, NEW q \in Nat, q = p - n, NEW i \in Nat, NEW x \in Int
  PROVE  n + ((x - n) + i) = x + i /\ ((x - n) + i \in 1..q => x + i \in 1..p)
OBVIOUS

(* n cells are read. *)
LEMMA LaidShift ==
  ASSUME NEW r \in Seq(Cells), NEW t \in Seq(Cells), NEW n \in Nat, NEW s \in Seq(Messages),
         NEW b \in Nat \ {0}, NEW off, Laid(r, off, s, b),
         Len(t) = Len(r) - n, \A i \in 1..Len(t) : t[i] = r[n+i]
  PROVE  Laid(t, [k \in Nat |-> off[k] - n], s, b)
<1> DEFINE new == [k \in Nat |-> off[k] - n]
<1>0. off \in [Nat -> Int]
  BY DEF Laid
<1>1. new \in [Nat -> Int] /\ \A k \in Nat : new[k] = off[k] - n /\ off[k] \in Int
  BY ONLY <1>0, n \in Nat
<1>2. Len(r) \in Nat /\ Len(t) \in Nat /\ Len(s) \in Nat
  OBVIOUS
<1> HIDE DEF new
<1>3. ASSUME NEW k \in b..Len(s)
      PROVE  /\ new[k+1] = new[k] + Size(s[k]) /\ new[k+1] <= new[Len(s)+1]
             /\ \A i \in 1..Size(s[k]) : new[k] + i \in 1..Len(t) => t[new[k]+i] = Encoded(s[k])[i]
  <2>1. k \in Nat /\ k + 1 \in Nat /\ Size(s[k]) \in Nat
    BY SizeType
  <2> DEFINE z == Size(s[k])
             e == Encoded(s[k])
  <2>2. off[k+1] = off[k] + z /\ \A i \in 1..z : off[k] + i \in 1..Len(r) => r[off[k]+i] = e[i]
    BY DEF Laid
  <2> HIDE DEF z, e
  <2>3. new[k+1] = new[k] + z
    <3>1. new[k+1] = off[k+1] - n /\ new[k] = off[k] - n /\ off[k+1] \in Int /\ off[k] \in Int
      BY <1>1, <2>1
    <3>2. z \in Nat
      BY <2>1 DEF z
    <3>3. \A x, y \in Int : x = y + z => x - n = (y - n) + z
      BY <3>2
    <3> QED  BY <2>2, <3>1, <3>3
  <2>4. ASSUME NEW i \in 1..z, new[k] + i \in 1..Len(t) PROVE t[new[k]+i] = e[i]
    <3>1. off[k] \in Int /\ new[k] = off[k] - n /\ i \in Nat
      BY <1>1, <2>1 DEF z
    <3>2. n + (new[k] + i) = off[k] + i /\ off[k] + i \in 1..Len(r)
      <4>1. \A x \in Int : n + ((x - n) + i) = x + i /\ ((x - n) + i \in 1..Len(t) => x + i \in 1..Len(r))
        BY ONLY <1>2, <3>1, ShiftedIn, n \in Nat, Len(t) = Len(r) - n
      <4> QED  BY <2>4, <3>1, <4>1
    <3> QED  BY <2>2, <2>4, <3>2
  <2>5. new[k+1] <= new[Len(s)+1]
    <3>1. off[k+1] <= off[Len(s)+1]
      BY DEF Laid
    <3>2. Len(s) + 1 \in Nat
      BY <1>2
    <3>3. /\ new[k+1] = off[k+1] - n /\ off[k+1] \in Int
          /\ new[Len(s)+1] = off[Len(s)+1] - n /\ off[Len(s)+1] \in Int
      BY <1>1, <2>1, <3>2
    <3>4. \A x, y \in Int : x <= y => x - n <= y - n
      OBVIOUS
    <3> QED  BY <3>1, <3>3, <3>4
  <2> QED  BY <2>3, <2>4, <2>5 DEF z, e
<1> QED  BY <1>1, <1>3 DEF Laid, new

LEMMA LaidCut ==
  ASSUME NEW r \in Seq(Cells), NEW t \in Seq(Cells), NEW s, NEW b, NEW off, Laid(r, off, s, b),
         Len(t) <= Len(r), \A i \in 1..Len(t) : t[i] = r[i]
  PROVE  Laid(t, off, s, b)
<1>1. \A j \in 1..Len(t) : j \in 1..Len(r)
  <2>1. Len(t) \in Nat /\ Len(r) \in Nat
    OBVIOUS
  <2> QED  BY <2>1
<1> QED  BY <1>1 DEF Laid

LEMMA LaidNext ==
  ASSUME NEW r, NEW off, NEW s \in Seq(Messages), NEW b \in Nat, Laid(r, off, s, b)
  PROVE  Laid(r, off, s, b + 1)
<1>1. \A k \in b+1..Len(s) : k \in b..Len(s)
  <2>1. Len(s) \in Nat
    OBVIOUS
  <2> QED  BY <2>1
<1> QED  BY <1>1 DEF Laid

(* A message is sent behind the others. *)
LEMMA LaidAppend ==
  ASSUME NEW r \in Seq(Cells), NEW s \in Seq(Messages), NEW b \in Nat \ {0}, NEW off, Laid(r, off, s, b),
         b <= Len(s) + 1, Len(r) = off[Len(s)+1], NEW m \in Messages
  PROVE  \E new : /\ Laid(r \o Encoded(m), new, Append(s, m), b)
                  /\ new[b] = off[b]
                  /\ Len(r \o Encoded(m)) = new[Len(s)+2]
<1> DEFINE l == Len(s)
           e == Encoded(m)
           q == r \o e
           a == Append(s, m)
           new == [off EXCEPT ![l+2] = off[l+1] + Size(m)]
<1>1. l \in Nat /\ Len(r) \in Nat /\ Size(m) \in Nat /\ e \in Seq(Cells) /\ Len(e) = Size(m)
  BY MessageType, Encoding
<1>2. off \in [Nat -> Int]
  BY DEF Laid
<1>3. /\ q \in Seq(Cells) /\ Len(q) = Len(r) + Size(m)
      /\ \A i \in 1..Len(r) : q[i] = r[i]
      /\ \A i \in 1..Size(m) : q[Len(r)+i] = e[i]
  <2>1. Len(e) = Size(m) /\ e \in Seq(Cells)
    BY <1>1
  <2> HIDE DEF e
  <2>2. /\ r \o e \in Seq(Cells) /\ Len(r \o e) = Len(r) + Len(e)
        /\ \A i \in 1..Len(r) : (r \o e)[i] = r[i]
        /\ \A i \in 1..Len(e) : (r \o e)[Len(r)+i] = e[i]
    <3>1. e \in Seq(Cells)
      BY <2>1
    <3> QED  BY <3>1, CellsConcatAt
  <2> QED  BY <2>1, <2>2
<1>4. /\ a \in Seq(Messages) /\ Len(a) = l + 1 /\ a[l+1] = m
      /\ \A k \in 1..l : a[k] = s[k]
  OBVIOUS
<1>5. new \in [Nat -> Int] /\ new[l+2] = Len(r) + Size(m) /\ \A k \in Nat : k # l + 2 => new[k] = off[k]
  BY <1>1, <1>2
<1> HIDE DEF new, a, q, e
<1>6. ASSUME NEW k \in b..l+1
      PROVE  /\ new[k+1] = new[k] + Size(a[k]) /\ new[k+1] <= new[l+2]
             /\ \A i \in 1..Size(a[k]) : new[k] + i \in 1..Len(q) => q[new[k]+i] = Encoded(a[k])[i]
  <2>1. CASE k = l + 1
    <3>1. k + 1 = l + 2 /\ k # l + 2 /\ k \in Nat
      BY <1>1, <2>1
    <3>2. new[k+1] = Len(r) + Size(m) /\ new[k] = Len(r) /\ a[k] = m
      BY <1>4, <1>5, <2>1, <3>1
    <3>3. k + 1 = l + 2
      BY <1>1, <2>1
    <3> QED  BY <1>1, <1>3, <3>2, <3>3 DEF e
  <2>2. CASE k # l + 1
    <3>1. k \in b..l /\ k # l + 2 /\ k + 1 # l + 2 /\ k \in Nat /\ k + 1 \in Nat
      BY <1>1, <2>2
    <3>2. new[k+1] = off[k+1] /\ new[k] = off[k] /\ off[k] \in Int
      BY <1>2, <1>5, <3>1
    <3>3. a[k] = s[k] /\ Size(s[k]) \in Nat
      BY <1>4, <3>1, SizeType
    <3>4. off[k+1] = off[k] + Size(s[k])
      BY <3>1 DEF Laid
    <3>5. off[k+1] <= Len(r)
      BY <3>1 DEF Laid
    <3>6. ASSUME NEW i \in 1..Size(s[k]), off[k] + i \in 1..Len(q)
          PROVE  q[off[k]+i] = Encoded(s[k])[i]
      <4>1. CASE off[k] + i \in 1..Len(r)
        BY <1>3, <3>1, <4>1 DEF Laid
      <4>2. i \in Nat /\ i <= Size(s[k]) /\ off[k] + i >= 1
        BY <3>3, <3>6
      <4>3. off[k] + i <= Len(r)
        BY <3>2, <3>3, <3>4, <3>5, <4>2, SMTT(60)
      <4> QED  BY <1>1, <3>2, <4>1, <4>2, <4>3
    <3>7. new[k+1] <= new[l+2]
      <4>1. new[k+1] = off[k+1] /\ new[l+2] = Len(r) + Size(m)
        BY <1>5, <3>2
      <4>2. off[k+1] \in Int /\ Len(r) \in Nat /\ Size(m) \in Nat
        BY <1>1, <1>2, <3>1
      <4> QED  BY ONLY <3>5, <4>1, <4>2
    <3> QED  BY <3>2, <3>3, <3>4, <3>6, <3>7
  <2> QED  BY <2>1, <2>2
<1>7. l + 1 = Len(a) /\ Len(q) = new[l+2]
  BY <1>3, <1>4, <1>5
<1>8. Laid(q, new, a, b)
  <2>1. Len(a) + 1 = l + 2
    BY <1>1, <1>7
  <2> QED  BY <1>5, <1>6, <1>7, <2>1 DEF Laid
<1>9. new[b] = off[b]
  BY <1>1, <1>5
<1> QED  BY <1>7, <1>8, <1>9 DEF a, q, e

-----------------------------------------------------------------------------
(***************************************************************************)
(* Wire: the inductive invariant.  While the reader is in step with the    *)
(* DVR, what has arrived and is on its way is the messages sent, from the  *)
(* one that the reader is about to be done with on, less the cells of it   *)
(* that are read; it ends early only if the DVR closed the connection.     *)
(***************************************************************************)
Within == pc \in {"ext", "unexpected", "error"}
Read == IF Within THEN HEADER_SIZE + (extlen - rem_extlen) ELSE 0
Rest == arrived \o flying

Placed(off) ==
  /\ Laid(Rest, off, sent, taken + 1)
  /\ off[taken+1] = 0 - Read
  /\ Len(Rest) <= off[Len(sent)+1]
  /\ ~closed => Len(Rest) = off[Len(sent)+1]

Up == state = "up" /\ pc # "ended"

InMessage ==
  Within => taken < Len(sent) /\ cmd = sent[taken+1].cmd /\ extlen = Len(sent[taken+1].ext)

InStep ==
  Up => /\ taken <= Len(sent)
        /\ \E off : Placed(off)
        /\ InMessage
        /\ pc = "error" => ~Fits(extlen)

Control ==
  /\ pc \in {"ext", "error"} => cmd = Awaited
  /\ pc = "unexpected" => cmd # Awaited
  /\ pc = "ext" => rem_extlen = extlen

Data == {p \in Seq(Cells) : Len(p) <= BufLen}

DvrType ==
  /\ user \in {"media", "query"} /\ timeouts \in BOOLEAN /\ closed \in BOOLEAN
  /\ sent \in Seq(Messages) /\ flying \in Seq(Cells)

ReaderType ==
  /\ arrived \in Seq(Cells)
  /\ pc \in {"idle", "header", "ext", "unexpected", "error", "ended"}
  /\ cmd \in Cells /\ extlen \in 0..MaxExt /\ rem_extlen \in 0..extlen
  /\ taken \in Nat /\ got \in Seq(Data)
  /\ state \in {"up", "lost"}

IInv == NetInv /\ DvrType /\ ReaderType /\ Control /\ InStep

LEMMA InitHolds == Init => IInv
<1> SUFFICES ASSUME Init PROVE IInv
  OBVIOUS
<1>1. NetInv
  BY NetInit1 DEF Init
<1>2. DvrType
  <2>1. user \in {"media", "query"} /\ closed \in BOOLEAN
    BY DEF Init
  <2>2. timeouts \in BOOLEAN
    BY DEF Init
  <2>3. sent = <<>> /\ flying = <<>>
    BY DEF Init
  <2> QED  BY <2>1, <2>2, <2>3 DEF DvrType
<1>3. 0 \in Cells /\ 0 \in 0..MaxExt
  BY BaseType DEF Cells
<1>4. ReaderType
  BY <1>3 DEF Init, ReaderType
<1>5. Control
  BY DEF Init, Control
<1>6. InStep
  <2> DEFINE off == [k \in Nat |-> 0]
  <2>1. ~Within /\ Read = 0 /\ taken = 0 /\ sent = <<>> /\ pc = "idle"
    BY DEF Init, Within, Read
  <2>2. Rest = <<>>
    BY DEF Init, Rest
  <2>3. off \in [Nat -> Int] /\ off[1] = 0
    OBVIOUS
  <2> HIDE DEF off
  <2>4. Len(<<>>) = 0 /\ 0 + 1 = 1 /\ 0 <= 0
    OBVIOUS
  <2>5. Laid(Rest, off, sent, taken + 1)
    <3>1. taken + 1..Len(sent) = {}
      BY <2>1
    <3> QED  BY <2>3, <3>1 DEF Laid
  <2>6. Placed(off)
    <3>1. 0 - 0 = 0
      OBVIOUS
    <3> QED  BY <2>1, <2>2, <2>3, <2>4, <2>5, <3>1 DEF Placed
  <2> QED  BY <2>1, <2>4, <2>6 DEF InStep, InMessage
<1> QED  BY <1>1, <1>2, <1>4, <1>5, <1>6 DEF IInv

(* What a step that leaves all this alone does to it. *)
LEMMA InStepKept ==
  ASSUME UNCHANGED wireVars
  PROVE  ReaderType' = ReaderType /\ Control' = Control /\ InStep' = InStep
<1>1. /\ UNCHANGED <<sent, flying, closed, arrived>>
      /\ UNCHANGED <<pc, cmd, extlen, rem_extlen, taken, got, state>>
  BY DEF wireVars, dvrVars, readerVars
<1>2. Read' = Read /\ Within' = Within /\ Rest' = Rest
  BY <1>1 DEF Read, Within, Rest
<1>3. \A off : Placed(off)' = Placed(off)
  BY <1>1, <1>2 DEF Placed
<1>4. InStep' = InStep
  BY <1>1, <1>2, <1>3 DEF InStep, Up, InMessage
<1> QED  BY <1>1, <1>4 DEF ReaderType, Control

-----------------------------------------------------------------------------
(***************************************************************************)
(* Wire: the DVR and the network.                                          *)
(***************************************************************************)
LEMMA RestType ==
  ASSUME DvrType, ReaderType
  PROVE  /\ Rest \in Seq(Cells) /\ Len(Rest) = Len(arrived) + Len(flying)
         /\ \A i \in 1..Len(arrived) : Rest[i] = arrived[i]
         /\ \A i \in 1..Len(flying) : Rest[Len(arrived)+i] = flying[i]
         /\ Len(arrived) \in Nat /\ Len(flying) \in Nat /\ Len(Rest) \in Nat
         /\ Len(sent) \in Nat /\ taken \in Nat /\ Read \in Nat
<1>1. arrived \in Seq(Cells) /\ flying \in Seq(Cells) /\ sent \in Seq(Messages)
  BY DEF DvrType, ReaderType
<1>2. Len(arrived) \in Nat /\ Len(flying) \in Nat /\ Len(sent) \in Nat
  BY <1>1
<1>3. /\ Rest \in Seq(Cells) /\ Len(Rest) = Len(arrived) + Len(flying)
      /\ \A i \in 1..Len(arrived) : Rest[i] = arrived[i]
      /\ \A i \in 1..Len(flying) : Rest[Len(arrived)+i] = flying[i]
  BY <1>1, CellsConcatAt DEF Rest
<1>4. extlen - rem_extlen \in Nat
  BY DEF ReaderType
<1>5. Read \in Nat
  BY <1>4 DEF Read, HEADER_SIZE
<1> QED  BY <1>2, <1>3, <1>5 DEF ReaderType

LEMMA SendStep ==
  ASSUME DvrType, ReaderType, InStep, DvrSends
  PROVE  /\ DvrType' /\ InStep'
         /\ \E m \in Messages : sent' = Append(sent, m)
<1>1. PICK m \in Messages : sent' = Append(sent, m) /\ flying' = Encoded(m)
  BY DEF DvrSends, Encoded
<1>2. /\ flying = <<>> /\ ~closed
      /\ UNCHANGED <<user, timeouts, closed, arrived, pc, cmd, extlen, rem_extlen, taken, got, state>>
  BY DEF DvrSends, readerVars
<1>3. Encoded(m) \in Seq(Cells)
  BY Encoding
<1>4. DvrType'
  BY <1>1, <1>2, <1>3 DEF DvrType
<1>5. ASSUME Up PROVE InStep'
  <2>1. PICK off : Placed(off)
    BY <1>5 DEF InStep
  <2>2. taken <= Len(sent) /\ taken \in Nat /\ Len(sent) \in Nat /\ sent \in Seq(Messages)
    BY <1>5, RestType DEF InStep, DvrType
  <2>3. Rest = arrived /\ Rest \in Seq(Cells) /\ Len(Rest) = off[Len(sent)+1]
    <3>1. arrived \in Seq(Cells)
      BY DEF ReaderType
    <3>2. arrived \o <<>> = arrived
      BY <3>1
    <3> QED  BY <1>2, <2>1, <3>1, <3>2 DEF Rest, Placed
  <2>4. Rest' = Rest \o Encoded(m)
    BY <1>1, <1>2, <2>3 DEF Rest
  <2> DEFINE b == taken + 1
             l == Len(sent)
  <2>5. b \in Nat \ {0} /\ b <= l + 1
    BY <2>2
  <2>6. Laid(Rest, off, sent, b) /\ off[b] = 0 - Read
    BY <2>1 DEF Placed
  <2> HIDE DEF b
  <2>7. PICK new : /\ Laid(Rest \o Encoded(m), new, Append(sent, m), b)
                   /\ new[b] = off[b]
                   /\ Len(Rest \o Encoded(m)) = new[Len(sent)+2]
    <3> HIDE DEF l
    <3>1. b <= Len(sent) + 1
      BY <2>5 DEF l
    <3>2. sent \in Seq(Messages) /\ Rest \in Seq(Cells)
      BY <2>2, <2>3
    <3>3. \A r \in Seq(Cells), s \in Seq(Messages), d \in Nat \ {0} :
            Laid(r, off, s, d) /\ d <= Len(s) + 1 /\ Len(r) = off[Len(s)+1] =>
              \E new : /\ Laid(r \o Encoded(m), new, Append(s, m), d)
                      /\ new[d] = off[d]
                      /\ Len(r \o Encoded(m)) = new[Len(s)+2]
      BY LaidAppend
    <3>4. b \in Nat \ {0} /\ Laid(Rest, off, sent, b) /\ Len(Rest) = off[Len(sent)+1]
      BY <2>3, <2>5, <2>6
    <3>5. off[b] = off[b] /\ \E new : /\ Laid(Rest \o Encoded(m), new, Append(sent, m), b)
                                      /\ new[b] = off[b]
                                      /\ Len(Rest \o Encoded(m)) = new[Len(sent)+2]
      BY ONLY <3>1, <3>2, <3>3, <3>4
    <3> QED  BY ONLY <3>5
  <2>8. /\ Len(sent') = l + 1 /\ l + 1 + 1 = l + 2
        /\ \A k \in 1..l : sent'[k] = sent[k]
    BY <1>1, <2>2
  <2>9. Len(Rest') = new[Len(sent')+1]
    BY <2>4, <2>7, <2>8
  <2>10. Read' = Read /\ Within' = Within
    BY <1>2 DEF Read, Within
  <2>11. Placed(new)'
    <3>1. new[Len(sent')+1] \in Int
      BY <2>4, <2>7, <2>8, RestType, <2>3, <1>3, CellsConcatAt, SMTT(60)
    <3>2. Len(Rest') <= new[Len(sent')+1]
      BY <2>9, <3>1
    <3>3. Laid(Rest', new, sent', taken' + 1)
      BY <1>1, <1>2, <2>4, <2>7 DEF b
    <3>4. new[taken'+1] = 0 - Read'
      BY <1>2, <2>6, <2>7, <2>10 DEF b
    <3> QED  BY <2>9, <3>2, <3>3, <3>4 DEF Placed
  <2>12. taken' <= Len(sent')
    BY <1>2, <2>2, <2>8
  <2>13. InMessage'
    <3>1. taken < Len(sent) => taken + 1 \in 1..l /\ taken < l + 1
      BY <2>2
    <3>2. InMessage
      BY <1>5 DEF InStep
    <3> QED  BY <1>2, <2>8, <2>10, <3>1, <3>2 DEF InMessage
  <2>14. pc' = "error" => ~Fits(extlen')
    BY <1>2, <1>5 DEF InStep, Fits
  <2> QED  BY <2>11, <2>12, <2>13, <2>14 DEF InStep
<1>6. ~Up => InStep'
  BY <1>2 DEF InStep, Up
<1> QED  BY <1>1, <1>4, <1>5, <1>6

LEMMA MovedOver ==
  ASSUME NEW s \in Seq(Cells), NEW t \in Seq(Cells), t # <<>>
  PROVE  /\ Append(s, Head(t)) \in Seq(Cells) /\ Tail(t) \in Seq(Cells)
         /\ Append(s, Head(t)) \o Tail(t) = s \o t
<1>1. /\ Head(t) \in Cells /\ Tail(t) \in Seq(Cells) /\ Len(Tail(t)) = Len(t) - 1
      /\ \A i \in 1..Len(t)-1 : Tail(t)[i] = t[i+1]
      /\ Head(t) = t[1] /\ Len(t) \in Nat \ {0} /\ Len(s) \in Nat
  OBVIOUS
<1> DEFINE a == Append(s, Head(t))
           u == Tail(t)
<1>2. /\ a \in Seq(Cells) /\ Len(a) = Len(s) + 1 /\ a[Len(s)+1] = t[1]
      /\ \A i \in 1..Len(s) : a[i] = s[i]
  BY <1>1
<1>3. u \in Seq(Cells) /\ Len(u) = Len(t) - 1 /\ \A i \in 1..Len(u) : u[i] = t[i+1]
  BY <1>1
<1> HIDE DEF a, u
<1>4. /\ a \o u \in Seq(Cells) /\ Len(a \o u) = Len(a) + Len(u)
      /\ \A i \in 1..Len(a) : (a \o u)[i] = a[i]
      /\ \A i \in 1..Len(u) : (a \o u)[Len(a)+i] = u[i]
  BY <1>2, <1>3, CellsConcatAt
<1>5. /\ s \o t \in Seq(Cells) /\ Len(s \o t) = Len(s) + Len(t)
      /\ \A i \in 1..Len(s) : (s \o t)[i] = s[i]
      /\ \A i \in 1..Len(t) : (s \o t)[Len(s)+i] = t[i]
  BY CellsConcatAt
<1> DEFINE x == a \o u
           y == s \o t
<1> HIDE DEF x, y
<1>6. x \in Seq(Cells) /\ y \in Seq(Cells) /\ Len(x) = Len(y) /\ Len(y) = Len(s) + Len(t)
  BY <1>1, <1>2, <1>3, <1>4, <1>5 DEF x, y
<1>7. ASSUME NEW i \in 1..Len(y) PROVE x[i] = y[i]
  <2>1. CASE i <= Len(s)
    <3>1. i \in 1..Len(s) /\ i \in 1..Len(a)
      BY <1>1, <1>2, <2>1
    <3> QED  BY <1>2, <1>4, <1>5, <3>1 DEF x, y
  <2>2. CASE i = Len(s) + 1
    <3>1. Len(s) + 1 \in 1..Len(a) /\ 1 \in 1..Len(t)
      BY <1>1, <1>2
    <3> QED  BY <1>2, <1>4, <1>5, <2>2, <3>1 DEF x, y
  <2>3. CASE i > Len(s) + 1
    <3> DEFINE j == i - Len(a)
    <3>1. j \in 1..Len(u) /\ i = Len(a) + j /\ j + 1 \in 1..Len(t) /\ i = Len(s) + (j + 1)
      BY <1>1, <1>2, <1>3, <1>6, <2>3
    <3> HIDE DEF j
    <3>2. x[i] = u[j] /\ y[i] = t[j+1]
      BY <1>4, <1>5, <3>1 DEF x, y
    <3> QED  BY <1>3, <3>1, <3>2
  <2> QED  BY <1>1, <1>6, <2>1, <2>2, <2>3
<1>8. x = y
  BY <1>6, <1>7, SeqEqual
<1> QED  BY <1>2, <1>3, <1>8 DEF a, u, x, y

LEMMA ArriveStep ==
  ASSUME DvrType, ReaderType, InStep, Arrives
  PROVE  DvrType' /\ ReaderType' /\ InStep'
<1>1. arrived \in Seq(Cells) /\ flying \in Seq(Cells) /\ flying # <<>>
  BY DEF DvrType, ReaderType, Arrives
<1>2. arrived' = Append(arrived, Head(flying)) /\ flying' = Tail(flying)
  BY DEF Arrives
<1>3. UNCHANGED <<user, timeouts, sent, closed, pc, cmd, extlen, rem_extlen, taken, got, state>>
  BY DEF Arrives, readerVars
<1>4. arrived' \in Seq(Cells) /\ flying' \in Seq(Cells) /\ Rest' = Rest
  BY <1>1, <1>2, MovedOver DEF Rest
<1>5. Read' = Read /\ Within' = Within
  BY <1>3 DEF Read, Within
<1>6. \A off : Placed(off)' = Placed(off)
  BY <1>3, <1>4, <1>5 DEF Placed
<1>7. InStep'
  BY <1>3, <1>5, <1>6 DEF InStep, Up, InMessage, Fits
<1> QED  BY <1>3, <1>4, <1>7 DEF DvrType, ReaderType

LEMMA CloseStep ==
  ASSUME DvrType, ReaderType, InStep, DvrCloses
  PROVE  DvrType' /\ InStep'
<1>1. closed' = TRUE /\ flying' \in {flying, <<>>}
  BY DEF DvrCloses
<1>2. UNCHANGED <<user, timeouts, sent, arrived, pc, cmd, extlen, rem_extlen, taken, got, state>>
  BY DEF DvrCloses, readerVars
<1>3. arrived \in Seq(Cells) /\ flying' \in Seq(Cells)
  <2>1. arrived \in Seq(Cells) /\ flying \in Seq(Cells)
    BY DEF DvrType, ReaderType
  <2>2. <<>> \in Seq(Cells)
    OBVIOUS
  <2> QED  BY <1>1, <2>1, <2>2
<1>4. DvrType'
  BY <1>1, <1>2, <1>3 DEF DvrType
<1>5. Read' = Read /\ Within' = Within
  BY <1>2 DEF Read, Within
<1>6. /\ Rest' \in Seq(Cells) /\ Rest \in Seq(Cells) /\ Len(Rest') <= Len(Rest)
      /\ Len(Rest) \in Nat /\ Len(Rest') \in Nat
      /\ \A i \in 1..Len(Rest') : Rest'[i] = Rest[i]
  <2>1. CASE flying' = flying
    <3>1. Rest' = Rest
      BY <1>2, <2>1 DEF Rest
    <3> QED  BY <3>1, RestType
  <2>2. CASE flying' = <<>>
    <3>1. arrived \o <<>> = arrived /\ Len(arrived) \in Nat
      BY <1>3
    <3>2. Rest' = arrived
      BY <1>2, <2>2, <3>1 DEF Rest
    <3> QED  BY <1>3, <3>1, <3>2, RestType
  <2> QED  BY <1>1, <2>1, <2>2
<1>7. ASSUME NEW off, Placed(off), taken <= Len(sent) PROVE Placed(off)'
  <2>1. Laid(Rest', off, sent, taken + 1)
    BY <1>6, <1>7, LaidCut DEF Placed
  <2>2. off[Len(sent)+1] \in Int
    <3>1. Len(sent) + 1 \in Nat
      BY RestType
    <3> QED  BY <1>7, <3>1 DEF Placed, Laid
  <2>3. Len(Rest') <= off[Len(sent)+1]
    BY <1>6, <1>7, <2>2 DEF Placed
  <2> QED  BY <1>1, <1>2, <1>5, <1>7, <2>1, <2>3 DEF Placed
<1>8. InStep'
  BY <1>2, <1>5, <1>7 DEF InStep, Up, InMessage, Fits
<1> QED  BY <1>4, <1>8

-----------------------------------------------------------------------------
(***************************************************************************)
(* Wire: the reader.                                                       *)
(***************************************************************************)
LEMMA ReadCells ==
  ASSUME DvrType, ReaderType, NEW n \in Nat, Reads(n), UNCHANGED flying
  PROVE  /\ arrived' \in Seq(Cells) /\ Rest' \in Seq(Cells)
         /\ n <= Len(arrived)
         /\ Len(Rest') = Len(Rest) - n
         /\ \A i \in 1..Len(Rest') : Rest'[i] = Rest[n+i]
<1> DEFINE a == arrived
           f == flying
           u == SubSeq(a, n + 1, Len(a))
<1>1. a \in Seq(Cells) /\ f \in Seq(Cells) /\ Len(a) \in Nat /\ Len(f) \in Nat /\ n <= Len(a)
  BY DEF DvrType, ReaderType, Reads
<1>2. /\ Len(Rest) = Len(a) + Len(f)
      /\ \A i \in 1..Len(a) : Rest[i] = a[i]
      /\ \A i \in 1..Len(f) : Rest[Len(a)+i] = f[i]
  BY RestType
<1>3. arrived' = u /\ Rest' = u \o f
  BY DEF Reads, Rest
<1>4. u \in Seq(Cells) /\ Len(u) = Len(a) - n /\ \A i \in 1..Len(u) : u[i] = a[n+i]
  <2> DEFINE m == n + 1
             l == Len(a)
  <2>1. m \in 1..l+1 /\ l \in m-1..l /\ l - m + 1 = l - n /\ \A i \in Nat : m + i - 1 = n + i
    BY <1>1
  <2> HIDE DEF a, m, l
  <2>2. /\ SubSeq(a, m, l) \in Seq(Cells) /\ Len(SubSeq(a, m, l)) = l - m + 1
        /\ \A i \in 1..l-m+1 : SubSeq(a, m, l)[i] = a[m+i-1]
    <3>1. a \in Seq(Cells) /\ m \in 1..Len(a)+1 /\ l \in m-1..Len(a)
      BY <1>1, <2>1 DEF l
    <3> QED  BY <3>1, PartOf
  <2>3. u = SubSeq(a, m, l)
    BY DEF m, l
  <2> HIDE DEF u
  <2>4. u \in Seq(Cells) /\ Len(u) = l - n
    BY <2>1, <2>2, <2>3
  <2>5. ASSUME NEW i \in 1..Len(u) PROVE u[i] = a[n+i]
    <3>1. i \in 1..l-m+1 /\ i \in Nat
      BY <2>1, <2>4
    <3> QED  BY <2>1, <2>2, <2>3, <3>1
  <2> QED  BY <2>4, <2>5 DEF l
<1> HIDE DEF u, a, f
<1>5. /\ u \o f \in Seq(Cells) /\ Len(u \o f) = Len(u) + Len(f)
      /\ \A i \in 1..Len(u) : (u \o f)[i] = u[i]
      /\ \A i \in 1..Len(f) : (u \o f)[Len(u)+i] = f[i]
  BY <1>1, <1>4, CellsConcatAt
<1> DEFINE x == u \o f
<1> HIDE DEF x
<1>6. x \in Seq(Cells) /\ Len(x) = Len(Rest) - n
  BY <1>1, <1>2, <1>4, <1>5 DEF x
<1>7. ASSUME NEW i \in 1..Len(x) PROVE x[i] = Rest[n+i]
  <2>1. CASE i <= Len(u)
    <3>1. i \in 1..Len(u) /\ n + i \in 1..Len(a)
      BY <1>1, <1>4, <2>1
    <3> QED  BY <1>2, <1>4, <1>5, <3>1 DEF x
  <2>2. CASE i > Len(u)
    <3> DEFINE j == i - Len(u)
    <3>1. j \in 1..Len(f) /\ i = Len(u) + j /\ n + i = Len(a) + j
      BY <1>1, <1>2, <1>4, <1>6, <2>2
    <3> HIDE DEF j
    <3> QED  BY <1>2, <1>5, <3>1 DEF x
  <2> QED  BY <1>1, <1>4, <2>1, <2>2
<1> QED  BY <1>1, <1>3, <1>4, <1>6, <1>7 DEF x, a

(* Where the messages lie when n cells more are read. *)
LEMMA PlacedShift ==
  ASSUME DvrType, ReaderType, NEW n \in Nat, Reads(n), UNCHANGED <<flying, sent, closed>>,
         NEW off, Placed(off), taken <= Len(sent)
  PROVE  LET new == [k \in Nat |-> off[k] - n] IN
           /\ Laid(Rest', new, sent', taken + 1)
           /\ new[taken+1] = 0 - (Read + n)
           /\ taken < Len(sent) => new[taken+2] = 0 - (Read + n) + Size(sent[taken+1])
           /\ Len(Rest') <= new[Len(sent')+1]
           /\ ~(closed') => Len(Rest') = new[Len(sent')+1]
<1> DEFINE new == [k \in Nat |-> off[k] - n]
           b == taken + 1
           l == Len(sent)
<1>1. /\ Rest \in Seq(Cells) /\ Rest' \in Seq(Cells) /\ Len(Rest') = Len(Rest) - n
      /\ \A i \in 1..Len(Rest') : Rest'[i] = Rest[n+i]
  BY ReadCells, RestType
<1>2. sent \in Seq(Messages) /\ taken \in Nat /\ b \in Nat \ {0} /\ l \in Nat /\ Read \in Nat /\ Len(Rest) \in Nat
  BY RestType DEF DvrType
<1>3. Laid(Rest, off, sent, b) /\ off[b] = 0 - Read /\ off \in [Nat -> Int]
  BY DEF Placed, Laid
<1> HIDE DEF new
<1>4. \A k \in Nat : new[k] = off[k] - n /\ off[k] \in Int
  BY <1>3 DEF new
<1>5. Laid(Rest', new, sent, b)
  <2> HIDE DEF b
  <2>1. \A r \in Seq(Cells), t \in Seq(Cells), s \in Seq(Messages), d \in Nat \ {0} :
          Laid(r, off, s, d) /\ Len(t) = Len(r) - n /\ (\A i \in 1..Len(t) : t[i] = r[n+i]) =>
            Laid(t, new, s, d)
    BY LaidShift DEF new
  <2> QED  BY ONLY <1>1, <1>2, <1>3, <2>1
<1>6. new[b] = 0 - (Read + n)
  BY <1>2, <1>3, <1>4
<1>7. ASSUME taken < Len(sent) PROVE new[taken+2] = 0 - (Read + n) + Size(sent[taken+1])
  <2>1. b \in b..l /\ b + 1 = taken + 2
    BY <1>2, <1>7
  <2>2. new[b+1] = new[b] + Size(sent[b])
    BY <1>5, <2>1 DEF Laid
  <2> QED  BY <1>6, <2>1, <2>2
<1>8. /\ Len(Rest') <= new[l+1]
      /\ ~closed => Len(Rest') = new[l+1]
  <2>1. new[l+1] = off[l+1] - n /\ off[l+1] \in Int
    <3>1. l + 1 \in Nat
      BY <1>2
    <3> QED  BY <1>4, <3>1
  <2>2. Len(Rest) <= off[l+1] /\ (~closed => Len(Rest) = off[l+1])
    BY DEF Placed
  <2>3. \A x \in Int : Len(Rest) <= x => Len(Rest) - n <= x - n
    BY <1>2
  <2> QED  BY <1>1, <2>1, <2>2, <2>3
<1> QED  BY <1>5, <1>6, <1>7, <1>8 DEF new

(* There is a message if there are cells. *)
LEMMA MessageThere ==
  ASSUME DvrType, ReaderType, NEW off, Placed(off), taken <= Len(sent), Len(Rest) > 0
  PROVE  taken < Len(sent)
<1>1. CASE taken = Len(sent)
  <2>1. Len(Rest) <= 0 - Read
    BY <1>1 DEF Placed
  <2>2. Read \in Nat /\ Len(Rest) \in Nat
    BY RestType
  <2> QED  BY <2>1, <2>2
<1>2. taken \in Nat /\ Len(sent) \in Nat
  BY RestType
<1> QED  BY <1>1, <1>2

(* The cells that have arrived are those of the message. *)
LEMMA CellOf ==
  ASSUME DvrType, ReaderType, NEW off, Placed(off), taken < Len(sent),
         NEW j \in 1..Len(arrived), Read + j <= Size(sent[taken+1])
  PROVE  arrived[j] = Encoded(sent[taken+1])[Read+j]
<1> DEFINE b == taken + 1
           l == Len(sent)
           z == Size(sent[b])
           i == Read + j
<1>1. b \in b..l /\ b \in Nat \ {0} /\ sent \in Seq(Messages) /\ Read \in Nat
  BY RestType DEF DvrType
<1>2. z \in Nat
  BY <1>1, SizeType
<1>3. off[b] + i = j /\ i \in 1..z /\ j \in 1..Len(Rest) /\ Rest[j] = arrived[j]
  <2>1. off[b] = 0 - Read
    BY DEF Placed
  <2>2. 0 - Read + i = j
    BY <1>1
  <2>3. i \in 1..z
    BY <1>1, <1>2
  <2>4. j \in 1..Len(Rest) /\ Rest[j] = arrived[j]
    BY RestType
  <2> QED  BY <2>1, <2>2, <2>3, <2>4
<1> HIDE DEF z, i
<1>4. \A k \in 1..Size(sent[b]) : off[b] + k \in 1..Len(Rest) => Rest[off[b]+k] = Encoded(sent[b])[k]
  BY <1>1 DEF Placed, Laid
<1>5. Rest[j] = Encoded(sent[b])[i]
  BY <1>3, <1>4 DEF z
<1> QED  BY <1>3, <1>5 DEF i

(* What each step is for the user of the channel. *)
ChannelStep == [Promise!Next]_(Promise!vars)

LEMMA Stutter ==
  ASSUME UNCHANGED <<user, sent, taken, got>>, ChannelState' = ChannelState
  PROVE  ChannelStep
BY DEF ChannelStep, Promise!vars

LEMMA Quiet ==
  ASSUME UNCHANGED <<user, sent, taken, got, state>>, pc # "ended", pc' # "ended"
  PROVE  ChannelStep
BY Stutter DEF ChannelState

LEMMA HeaderRead ==
  ASSUME DvrType, ReaderType, InStep, GetHeader, Reads(HEADER_SIZE)
  PROVE  /\ arrived[1] \in Cells
         /\ LM2NV(SubSeq(arrived, 2, HEADER_SIZE)) \in 0..MaxExt
         /\ Up => /\ taken < Len(sent)
                  /\ arrived[1] = sent[taken+1].cmd
                  /\ LM2NV(SubSeq(arrived, 2, HEADER_SIZE)) = Len(sent[taken+1].ext)
<1> DEFINE a == arrived
           s2 == SubSeq(a, 2, 3)
<1>1. a \in Seq(Cells) /\ Len(a) \in Nat /\ 3 <= Len(a)
  BY DEF ReaderType, Reads, HEADER_SIZE
<1>2. 1 \in 1..Len(a) /\ 2 \in 1..Len(a) /\ 3 \in 1..Len(a)
  BY <1>1
<1>3. a[1] \in Cells /\ a[2] \in Cells /\ a[3] \in Cells
  BY <1>1, <1>2, ElementOfSeq
<1>4. s2[1] = a[2] /\ s2[2] = a[3]
  <2> HIDE DEF a
  <2>1. 2 \in 1..Len(a)+1 /\ 3 \in 2-1..Len(a) /\ 1 \in 1..3-2+1 /\ 2 \in 1..3-2+1
    BY <1>1
  <2>2. \A i \in 1..3-2+1 : SubSeq(a, 2, 3)[i] = a[2+i-1]
    BY <1>1, <2>1, PartOf
  <2>3. 2 + 1 - 1 = 2 /\ 2 + 2 - 1 = 3
    OBVIOUS
  <2> QED  BY <2>1, <2>2, <2>3
<1>5. LM2NV(SubSeq(arrived, 2, HEADER_SIZE)) = a[2] + a[3] * Base
  BY <1>4 DEF LM2NV, HEADER_SIZE
<1>6. ASSUME Up
      PROVE  taken < Len(sent) /\ a[1] = sent[taken+1].cmd /\ a[2] + a[3] * Base = Len(sent[taken+1].ext)
  <2>1. PICK off : Placed(off) /\ taken <= Len(sent)
    BY <1>6 DEF InStep
  <2>2. Len(Rest) > 0
    BY <1>1, RestType
  <2>3. taken < Len(sent)
    BY <2>1, <2>2, MessageThere
  <2> DEFINE m == sent[taken+1]
  <2>4. m \in Messages
    <3>1. taken + 1 \in 1..Len(sent) /\ sent \in Seq(Messages)
      BY <2>3, RestType DEF DvrType
    <3> QED  BY <3>1, ElementOfSeq
  <2>5. Read = 0
    BY DEF GetHeader, Read, Within
  <2>6. Size(m) >= 3
    BY <2>4, MessageType DEF Size, HEADER_SIZE
  <2> HIDE DEF m
  <2>7. \A j \in 1..3 : j \in 1..Len(a) /\ Read + j = j /\ Read + j <= Size(m)
    <3>1. Size(m) \in Nat
      BY <2>4, MessageType
    <3> QED  BY <1>1, <2>5, <2>6, <3>1
  <2>8. \A j \in 1..3 : a[j] = Encoded(m)[j]
    <3>1. \A j \in 1..3 : a[j] = Encoded(m)[Read+j]
      BY <2>1, <2>3, <2>7, CellOf DEF m
    <3> QED  BY <2>7, <3>1
  <2>9. Encoded(m)[1] = m.cmd /\ Encoded(m)[2] + Encoded(m)[3] * Base = Len(m.ext)
    BY <2>4, Encoding
  <2>10. 1 \in 1..3 /\ 2 \in 1..3 /\ 3 \in 1..3
    OBVIOUS
  <2>11. a[1] = Encoded(m)[1] /\ a[2] = Encoded(m)[2] /\ a[3] = Encoded(m)[3]
    BY <2>8, <2>10
  <2> QED  BY <2>3, <2>9, <2>11 DEF m
<1> QED  BY <1>3, <1>5, <1>6, ValueOf

LEMMA HeaderStep ==
  ASSUME DvrType, ReaderType, Control, InStep, GetHeader
  PROVE  DvrType' /\ ReaderType' /\ Control' /\ InStep' /\ ChannelStep
<1>1. pc = "header" /\ UNCHANGED <<user, timeouts, sent, flying, closed, taken, got>>
  BY DEF GetHeader, dvrVars
<1>2. DvrType'
  BY <1>1 DEF DvrType
<1>3. CASE Reads(HEADER_SIZE) /\ cmd' = arrived[1] /\ extlen' = LM2NV(SubSeq(arrived, 2, HEADER_SIZE))
           /\ rem_extlen' = extlen' /\ pc' = After(cmd', extlen') /\ UNCHANGED state
  <2>1. /\ cmd' \in Cells /\ extlen' \in 0..MaxExt
        /\ Up => taken < Len(sent) /\ cmd' = sent[taken+1].cmd /\ extlen' = Len(sent[taken+1].ext)
    BY <1>3, HeaderRead
  <2>2. /\ pc' \in {"ext", "unexpected", "error"}
        /\ pc' = "unexpected" <=> cmd' # Awaited
        /\ pc' = "error" => ~Fits(extlen')
    <3>1. cmd' # Awaited => pc' = "unexpected"
      BY <1>3 DEF After
    <3>2. cmd' = Awaited => pc' = IF user = "media" /\ ~Fits(extlen') THEN "error" ELSE "ext"
      BY <1>3 DEF After
    <3> QED  BY <3>1, <3>2
  <2>3. 3 \in Nat /\ HEADER_SIZE = 3
    BY DEF HEADER_SIZE
  <2>4. extlen' \in Nat
    BY <2>1, BaseType
  <2>5. ReaderType'
    <3>1. arrived' \in Seq(Cells)
      BY <1>1, <1>3, <2>3, ReadCells
    <3>2. rem_extlen' \in 0..extlen'
      BY <1>3, <2>4
    <3> QED  BY <1>1, <1>3, <2>1, <2>2, <3>1, <3>2 DEF ReaderType
  <2>6. Control'
    BY <1>3, <2>2 DEF Control
  <2>7. ASSUME Up' PROVE InStep'
    <3>1. Up
      BY <1>1, <1>3, <2>7 DEF Up
    <3>2. PICK off : Placed(off) /\ taken <= Len(sent)
      BY <3>1 DEF InStep
    <3> DEFINE new == [k \in Nat |-> off[k] - 3]
    <3>3. /\ Laid(Rest', new, sent', taken + 1)
          /\ new[taken+1] = 0 - (Read + 3)
          /\ Len(Rest') <= new[Len(sent')+1]
          /\ ~(closed') => Len(Rest') = new[Len(sent')+1]
      BY <1>1, <1>3, <2>3, <3>2, PlacedShift
    <3>4. Read = 0 /\ Read' = 3 /\ Within'
      <4>1. Read = 0 /\ Within'
        BY <1>1, <2>2 DEF Read, Within
      <4>2. extlen' - rem_extlen' = 0
        BY <1>3, <2>4
      <4>3. Read' = 3 + 0
        BY <2>3, <4>1, <4>2 DEF Read, HEADER_SIZE
      <4> QED  BY <4>1, <4>3
    <3> HIDE DEF new
    <3>5. Placed(new)'
      <4>1. new[taken'+1] = 0 - Read'
        <5>1. Read + 3 = 3
          BY <3>4
        <5> QED  BY <1>1, <3>3, <3>4, <5>1
      <4> QED  BY <1>1, <3>3, <4>1 DEF Placed
    <3>6. InMessage'
      BY <1>1, <2>1, <3>1 DEF InMessage
    <3> QED  BY <1>1, <2>2, <3>2, <3>5, <3>6 DEF InStep
  <2>8. ChannelStep
    BY <1>1, <1>3, <2>2, Quiet
  <2> QED  BY <1>2, <2>5, <2>6, <2>7, <2>8 DEF InStep
<1>4. CASE /\ ReadFails(HEADER_SIZE) /\ Return(1)
           /\ state' = IF arrived = <<>> THEN state ELSE "lost"
           /\ UNCHANGED <<cmd, extlen, rem_extlen>>
  <2>1. pc' = IF user = "media" THEN "ended" ELSE "idle"
    BY <1>4 DEF Return
  <2>2. arrived' = <<>> /\ <<>> \in Seq(Cells)
    BY <1>4 DEF ReadFails
  <2>3. ReaderType'
    BY <1>1, <1>4, <2>1, <2>2 DEF ReaderType
  <2>4. Control'
    BY <2>1 DEF Control
  <2>5. ASSUME Up' PROVE InStep'
    <3>1. state = "up" /\ arrived = <<>>
      BY <1>4, <2>5 DEF Up
    <3>2. Up
      BY <1>1, <3>1 DEF Up
    <3>3. Rest' = Rest /\ Read' = Read /\ ~Within'
      BY <1>1, <2>1, <2>2, <3>1 DEF Rest, Read, Within
    <3>4. \A off : Placed(off)' = Placed(off)
      BY <1>1, <3>3 DEF Placed
    <3> QED  BY <1>1, <2>1, <3>2, <3>3, <3>4 DEF InStep, InMessage
  <2>6. ChannelStep
    <3>1. CASE user = "media"
      <4>1. ChannelState' = "ended" /\ ChannelState # "ended"
        <5>1. state # "ended"
          BY DEF ReaderType
        <5> QED  BY <1>1, <2>1, <3>1, <5>1 DEF ChannelState
      <4>2. Promise!End
        BY <1>1, <3>1, <4>1 DEF Promise!End
      <4> QED  BY <4>2 DEF ChannelStep, Promise!Next
    <3>2. CASE user # "media" /\ arrived = <<>>
      BY <1>1, <1>4, <2>1, <3>2, Quiet
    <3>3. CASE user # "media" /\ arrived # <<>> /\ state = "lost"
      BY <1>1, <1>4, <2>1, <3>3, Quiet
    <3>4. CASE user # "media" /\ arrived # <<>> /\ state = "up"
      <4>1. PICK off : Placed(off) /\ taken <= Len(sent)
        BY <1>1, <3>4 DEF InStep, Up
      <4>2. Len(Rest) > 0
        <5>1. arrived \in Seq(Cells)
          BY DEF ReaderType
        <5>2. Len(arrived) > 0
          BY <3>4, <5>1, EmptySeq
        <5> QED  BY <5>2, RestType
      <4>3. taken < Len(sent)
        BY <4>1, <4>2, MessageThere
      <4>4. ChannelState = "up" /\ ChannelState' = "lost"
        BY <1>1, <1>4, <2>1, <3>4 DEF ChannelState
      <4>5. Promise!Cut
        BY <1>1, <3>4, <4>3, <4>4 DEF Promise!Cut
      <4> QED  BY <4>5 DEF ChannelStep, Promise!Next
    <3>5. state \in {"up", "lost"}
      BY DEF ReaderType
    <3> QED  BY <3>1, <3>2, <3>3, <3>4, <3>5
  <2> QED  BY <1>2, <2>3, <2>4, <2>5, <2>6 DEF InStep
<1> QED  BY <1>3, <1>4 DEF GetHeader

(* The reader is done with a message, of which it reads the last n cells. *)
LEMMA NextPlaced ==
  ASSUME DvrType, ReaderType, NEW n \in Nat, Reads(n), UNCHANGED <<flying, sent, closed>>,
         NEW off, Placed(off), taken < Len(sent), Read + n = Size(sent[taken+1]),
         taken' = taken + 1, Read' = 0
  PROVE  Placed([k \in Nat |-> off[k] - n])' /\ taken' <= Len(sent')
<1> DEFINE new == [k \in Nat |-> off[k] - n]
<1>1. taken \in Nat /\ Len(sent) \in Nat /\ sent \in Seq(Messages) /\ Read \in Nat
  BY RestType DEF DvrType
<1>2. taken <= Len(sent) /\ taken' <= Len(sent')
  BY <1>1
<1>3. /\ Laid(Rest', new, sent', taken + 1)
      /\ new[taken+2] = 0 - (Read + n) + Size(sent[taken+1])
      /\ Len(Rest') <= new[Len(sent')+1]
      /\ ~(closed') => Len(Rest') = new[Len(sent')+1]
  BY <1>2, PlacedShift
<1> HIDE DEF new
<1>4. new[taken+2] = 0
  <2>1. \A x \in Int : 0 - x + x = 0
    OBVIOUS
  <2> QED  BY <1>1, <1>3, <2>1
<1>5. Laid(Rest', new, sent', taken + 1 + 1)
  BY <1>1, <1>3, LaidNext
<1>6. taken' + 1 = taken + 2 /\ taken + 1 + 1 = taken' + 1
  BY <1>1
<1>7. new[taken'+1] = 0 - Read'
  <2>1. 0 - Read' = 0
    BY <1>1
  <2> QED  BY <1>4, <1>6, <2>1
<1>8. Placed(new)'
  BY <1>3, <1>5, <1>6, <1>7 DEF Placed
<1> QED  BY <1>2, <1>8 DEF new

LEMMA DataRead ==
  ASSUME DvrType, ReaderType, Control, InStep, pc = "ext", Reads(extlen), Fits(extlen)
  PROVE  /\ SubSeq(arrived, 1, extlen) \in Data
         /\ Up => /\ taken < Len(sent) /\ Len(sent[taken+1].ext) = extlen
                  /\ sent[taken+1].cmd = Awaited
                  /\ Read + extlen = Size(sent[taken+1])
                  /\ SubSeq(arrived, 1, extlen) = sent[taken+1].ext
<1> DEFINE a == arrived
           n == extlen
           d == SubSeq(a, 1, n)
<1>1. a \in Seq(Cells) /\ Len(a) \in Nat /\ n \in Nat /\ n <= Len(a)
  BY BaseType DEF ReaderType, Reads
<1>2. d \in Seq(Cells) /\ Len(d) = n /\ \A i \in 1..n : d[i] = a[i]
  <2> HIDE DEF a, n
  <2>1. 1 \in 1..Len(a)+1 /\ n \in 1-1..Len(a) /\ n - 1 + 1 = n /\ \A i \in 1..n : 1 + i - 1 = i
    BY <1>1
  <2>2. /\ d \in Seq(Cells) /\ Len(d) = n - 1 + 1
        /\ \A i \in 1..n-1+1 : d[i] = a[1+i-1]
    BY <1>1, <2>1, PartOf
  <2> QED  BY <2>1, <2>2
<1>3. d \in Data
  BY <1>2 DEF Data, Fits
<1>4. ASSUME Up
      PROVE  /\ taken < Len(sent) /\ Len(sent[taken+1].ext) = n
             /\ sent[taken+1].cmd = Awaited
             /\ Read + n = Size(sent[taken+1])
             /\ d = sent[taken+1].ext
  <2>1. PICK off : Placed(off) /\ taken <= Len(sent)
    BY <1>4 DEF InStep
  <2> DEFINE m == sent[taken+1]
  <2>2. taken < Len(sent) /\ m.cmd = Awaited /\ n = Len(m.ext)
    BY <1>4 DEF InStep, InMessage, Within, Control
  <2>3. m \in Messages
    <3>1. taken + 1 \in 1..Len(sent) /\ sent \in Seq(Messages)
      BY <2>2, RestType DEF DvrType
    <3> QED  BY <3>1, ElementOfSeq
  <2>4. Read = 3
    <3>1. extlen - rem_extlen = 0
      BY <1>1 DEF Control
    <3>2. Read = 3 + 0
      BY <3>1 DEF Read, Within, HEADER_SIZE
    <3> QED  BY <3>2
  <2>5. Read + n = Size(m)
    BY <2>2, <2>4 DEF Size, HEADER_SIZE
  <2> HIDE DEF m, d, a, n
  <2>6. m.ext \in Seq(Cells)
    BY <2>3, MessageType
  <2>7. ASSUME NEW j \in 1..n PROVE d[j] = m.ext[j]
    <3>1. j \in 1..Len(a) /\ Read + j <= Size(m)
      BY <1>1, <2>4, <2>5
    <3>2. a[j] = Encoded(m)[Read+j]
      BY <2>1, <2>2, <3>1, CellOf DEF m, a
    <3>3. Encoded(m)[3+j] = m.ext[j]
      BY <2>2, <2>3, Encoding
    <3> QED  BY <1>2, <2>4, <3>2, <3>3
  <2>8. d = m.ext
    BY <1>2, <2>2, <2>6, <2>7, SeqEqual
  <2> QED  BY <2>2, <2>5, <2>8 DEF m
<1> QED  BY <1>3, <1>4

LEMMA ExtdataStep ==
  ASSUME DvrType, ReaderType, Control, InStep, GetExtdata
  PROVE  DvrType' /\ ReaderType' /\ Control' /\ InStep' /\ ChannelStep
<1>1. pc = "ext" /\ UNCHANGED <<user, timeouts, sent, flying, closed, cmd, extlen>>
  BY DEF GetExtdata, dvrVars
<1>2. DvrType'
  BY <1>1 DEF DvrType
<1>3. extlen \in Nat /\ state \in {"up", "lost"} /\ taken \in Nat
  BY BaseType DEF ReaderType
<1>4. CASE /\ Fits(extlen) /\ Reads(extlen)
           /\ got' = Append(got, SubSeq(arrived, 1, extlen)) /\ taken' = taken + 1
           /\ Return(0)
           /\ UNCHANGED <<rem_extlen, state>>
  <2>1. pc' = "idle"
    BY <1>4 DEF Return
  <2>2. /\ SubSeq(arrived, 1, extlen) \in Data
        /\ Up => /\ taken < Len(sent) /\ Len(sent[taken+1].ext) = extlen
                 /\ sent[taken+1].cmd = Awaited
                 /\ Read + extlen = Size(sent[taken+1])
                 /\ SubSeq(arrived, 1, extlen) = sent[taken+1].ext
    BY <1>1, <1>4, DataRead
  <2>3. ReaderType'
    <3>1. arrived' \in Seq(Cells)
      BY <1>1, <1>3, <1>4, ReadCells
    <3>2. got' \in Seq(Data)
      BY <1>4, <2>2 DEF ReaderType
    <3>3. taken' \in Nat
      BY <1>3, <1>4
    <3> QED  BY <1>1, <1>4, <2>1, <3>1, <3>2, <3>3 DEF ReaderType
  <2>4. Control'
    BY <2>1 DEF Control
  <2>5. Read' = 0 /\ ~Within'
    BY <2>1 DEF Read, Within
  <2>6. ASSUME Up' PROVE InStep'
    <3>1. Up
      BY <1>1, <1>4, <2>6 DEF Up
    <3>2. PICK off : Placed(off)
      BY <3>1 DEF InStep
    <3>3. Placed([k \in Nat |-> off[k] - extlen])' /\ taken' <= Len(sent')
      BY <1>1, <1>3, <1>4, <2>2, <2>5, <3>1, <3>2, NextPlaced
    <3> QED  BY <2>1, <2>5, <3>3 DEF InStep, InMessage
  <2>7. ChannelStep
    <3>1. ChannelState = state /\ ChannelState' = state
      BY <1>1, <1>4, <2>1 DEF ChannelState
    <3>2. CASE state = "up"
      <4>1. Promise!ForUser
        <5>1. Len(sent[taken+1].ext) <= BufLen
          BY <1>1, <1>4, <2>2, <3>2 DEF Up, Fits
        <5> QED  BY <1>1, <2>2, <3>2, <5>1 DEF Promise!ForUser, Promise!Next1, Up
      <4>2. got' = Append(got, sent[taken+1].ext)
        BY <1>1, <1>4, <2>2, <3>2 DEF Up
      <4>3. Promise!Deliver
        BY <1>1, <1>4, <2>2, <3>1, <3>2, <4>1, <4>2 DEF Promise!Deliver, Promise!Next1, Up
      <4> QED  BY <4>3 DEF ChannelStep, Promise!Next
    <3>3. CASE state = "lost"
      <4>1. Promise!Anything
        BY <1>1, <3>1, <3>3 DEF Promise!Anything
      <4> QED  BY <4>1 DEF ChannelStep, Promise!Next
    <3> QED  BY <1>3, <3>2, <3>3
  <2> QED  BY <1>2, <2>3, <2>4, <2>6, <2>7 DEF InStep
<1>5. CASE /\ Fits(extlen) /\ ReadFails(extlen)
           /\ state' = "lost"
           /\ IF user = "media" THEN Return(11) ELSE pc' = "error"
           /\ UNCHANGED <<rem_extlen, taken, got>>
  <2>1. pc' = IF user = "media" THEN "ended" ELSE "error"
    BY <1>5 DEF Return
  <2>2. arrived' = <<>> /\ <<>> \in Seq(Cells)
    BY <1>5 DEF ReadFails
  <2>3. ReaderType'
    BY <1>1, <1>5, <2>1, <2>2 DEF ReaderType
  <2>4. Control'
    BY <1>1, <2>1 DEF Control
  <2>5. InStep'
    BY <1>5 DEF InStep, Up
  <2>6. ChannelStep
    <3>1. CASE user = "media"
      <4>1. ChannelState' = "ended" /\ ChannelState # "ended"
        BY <1>1, <1>3, <2>1, <3>1 DEF ChannelState
      <4>2. Promise!End
        BY <1>1, <1>5, <3>1, <4>1 DEF Promise!End
      <4> QED  BY <4>2 DEF ChannelStep, Promise!Next
    <3>2. CASE user # "media" /\ state = "lost"
      BY <1>1, <1>5, <2>1, <3>2, Quiet
    <3>3. CASE user # "media" /\ state = "up"
      <4>1. taken < Len(sent)
        BY <1>1, <3>3 DEF InStep, InMessage, Within, Up
      <4>2. ChannelState = "up" /\ ChannelState' = "lost"
        BY <1>1, <1>5, <2>1, <3>3 DEF ChannelState
      <4>3. Promise!Cut
        BY <1>1, <1>5, <3>3, <4>1, <4>2 DEF Promise!Cut
      <4> QED  BY <4>3 DEF ChannelStep, Promise!Next
    <3> QED  BY <1>3, <3>1, <3>2, <3>3
  <2> QED  BY <1>2, <2>3, <2>4, <2>5, <2>6
<1>6. CASE /\ ~Fits(extlen)
           /\ pc' = "error"
           /\ UNCHANGED <<arrived, rem_extlen, taken, got, state>>
  <2>1. ReaderType'
    BY <1>1, <1>6 DEF ReaderType
  <2>2. Control'
    BY <1>1, <1>6 DEF Control
  <2>3. Read' = Read /\ Within' /\ Within /\ Rest' = Rest
    BY <1>1, <1>6 DEF Read, Within, Rest
  <2>4. \A off : Placed(off)' = Placed(off)
    BY <1>1, <1>6, <2>3 DEF Placed
  <2>5. Up' => Up
    BY <1>1, <1>6 DEF Up
  <2>6. InStep'
    BY <1>1, <1>6, <2>3, <2>4, <2>5 DEF InStep, InMessage, Fits
  <2>7. ChannelStep
    BY <1>1, <1>6, Quiet
  <2> QED  BY <1>2, <2>1, <2>2, <2>6, <2>7
<1> QED  BY <1>4, <1>5, <1>6 DEF GetExtdata

(* A chunk is not more than what remains, so that nothing wraps around. *)
LEMMA ChunkOf ==
  ASSUME ReaderType, rem_extlen # 0
  PROVE  /\ ToRead(rem_extlen) \in Nat
         /\ rem_extlen - ToRead(rem_extlen) \in 0..extlen
         /\ (rem_extlen - ToRead(rem_extlen)) % (MaxExt + 1) = rem_extlen - ToRead(rem_extlen)
<1> DEFINE r == rem_extlen
           c == ToRead(rem_extlen)
<1>1. r \in Nat /\ extlen \in Nat /\ r <= extlen /\ extlen <= MaxExt /\ MaxExt \in Nat
  BY BaseType DEF ReaderType
<1>2. c \in Nat /\ c <= r
  BY <1>1, WireAssumption DEF ToRead
<1> HIDE DEF r, c
<1>3. r - c \in 0..extlen /\ r - c \in 0..MaxExt
  BY <1>1, <1>2
<1>4. \A x \in 0..MaxExt : x % (MaxExt + 1) = x
  BY <1>1
<1>5. (r - c) % (MaxExt + 1) = r - c
  BY <1>3, <1>4
<1> QED  BY <1>2, <1>3, <1>5 DEF r, c

(* An unexpected message is discarded, or one with too much data. *)
LEMMA DiscardEnds ==
  ASSUME DvrType, ReaderType, Control, InStep, Discard, rem_extlen = 0,
         Discarded, taken' = taken + 1, UNCHANGED <<arrived, rem_extlen, state>>
  PROVE  DvrType' /\ ReaderType' /\ Control' /\ InStep' /\ ChannelStep
<1>1. /\ pc \in {"unexpected", "error"}
      /\ UNCHANGED <<user, timeouts, sent, flying, closed, cmd, extlen, got>>
  BY DEF Discard, dvrVars
<1>2. DvrType'
  BY <1>1 DEF DvrType
<1>3. extlen \in Nat /\ state \in {"up", "lost"} /\ taken \in Nat /\ arrived \in Seq(Cells)
  BY BaseType DEF ReaderType
<1>4. /\ pc' \in {"header", "idle", "ended"}
      /\ pc = "unexpected" => pc' = "header"
      /\ pc = "error" => pc' = IF user = "media" THEN "ended" ELSE "idle"
  BY <1>1 DEF Discarded, Return
<1>5. ReaderType'
  <2>1. taken' \in Nat
    BY <1>3
  <2> QED  BY <1>1, <1>4, <2>1 DEF ReaderType
<1>6. Control'
  BY <1>4 DEF Control
<1>7. Read' = 0 /\ ~Within' /\ Within
  BY <1>1, <1>4 DEF Read, Within
<1>8. Up => taken < Len(sent) /\ cmd = sent[taken+1].cmd /\ extlen = Len(sent[taken+1].ext)
  BY <1>7 DEF InStep, InMessage
<1>9. ASSUME Up' PROVE InStep'
  <2>1. Up
    BY <1>1, <1>9 DEF Up
  <2>2. PICK off : Placed(off)
    BY <2>1 DEF InStep
  <2>3. 0 \in Nat /\ Reads(0)
    <3>1. SubSeq(arrived, 1, Len(arrived)) = arrived /\ Len(arrived) \in Nat
      BY <1>3, SubSeqFull
    <3>2. 0 + 1 = 1
      OBVIOUS
    <3> QED  BY <3>1, <3>2 DEF Reads
  <2>4. Read + 0 = Size(sent[taken+1])
    <3>1. extlen - rem_extlen = extlen
      BY <1>3
    <3>2. Read = 3 + extlen
      BY <1>7, <3>1 DEF Read, HEADER_SIZE
    <3>3. Size(sent[taken+1]) = 3 + extlen
      BY <1>8, <2>1 DEF Size, HEADER_SIZE
    <3>4. 3 + extlen + 0 = 3 + extlen
      BY <1>3
    <3> QED  BY <3>2, <3>3, <3>4
  <2>5. Placed([k \in Nat |-> off[k] - 0])' /\ taken' <= Len(sent')
    BY <1>1, <1>7, <1>8, <2>1, <2>2, <2>3, <2>4, NextPlaced
  <2>6. pc' # "error"
    BY <1>4
  <2> QED  BY <1>7, <2>5, <2>6 DEF InStep, InMessage
<1>10. ChannelStep
  <2>1. ChannelState = state /\ ChannelState' = IF pc' = "ended" THEN "ended" ELSE state
    BY <1>1 DEF ChannelState
  <2>2. CASE state = "up"
    <3>1. Up
      BY <1>1, <2>2 DEF Up
    <3>2. pc = "unexpected" => sent[taken+1].cmd # Awaited
      BY <1>8, <3>1 DEF Control
    <3>3. pc = "error" => sent[taken+1].cmd = Awaited /\ ~(Len(sent[taken+1].ext) <= BufLen)
      BY <1>8, <3>1 DEF Control, InStep, Fits
    <3>4. ~Promise!ForUser
      BY <1>1, <3>2, <3>3 DEF Promise!ForUser, Promise!Next1
    <3>5. ChannelState' = IF user = "media" /\ sent[taken+1].cmd = Awaited THEN "ended" ELSE "up"
      BY <1>1, <1>4, <2>1, <2>2, <3>2, <3>3
    <3>6. Promise!Skip
      BY <1>1, <1>8, <2>1, <2>2, <3>1, <3>4, <3>5 DEF Promise!Skip, Promise!Next1
    <3> QED  BY <3>6 DEF ChannelStep, Promise!Next
  <2>3. CASE state = "lost"
    <3>1. Promise!Anything
      BY <1>1, <2>1, <2>3 DEF Promise!Anything
    <3> QED  BY <3>1 DEF ChannelStep, Promise!Next
  <2> QED  BY <1>3, <2>2, <2>3
<1> QED  BY <1>2, <1>5, <1>6, <1>9, <1>10 DEF InStep

LEMMA DiscardStep ==
  ASSUME DvrType, ReaderType, Control, InStep, Discard
  PROVE  DvrType' /\ ReaderType' /\ Control' /\ InStep' /\ ChannelStep
<1>1. /\ pc \in {"unexpected", "error"}
      /\ UNCHANGED <<user, timeouts, sent, flying, closed, cmd, extlen, got>>
  BY DEF Discard, dvrVars
<1>2. DvrType'
  BY <1>1 DEF DvrType
<1>3. extlen \in Nat /\ state \in {"up", "lost"} /\ taken \in Nat
  BY BaseType DEF ReaderType
<1>4. CASE rem_extlen = 0 /\ Discarded /\ taken' = taken + 1 /\ UNCHANGED <<arrived, rem_extlen, state>>
  BY <1>4, DiscardEnds
<1>5. CASE /\ rem_extlen # 0 /\ Reads(ToRead(rem_extlen))
           /\ rem_extlen' = (rem_extlen - ToRead(rem_extlen)) % (MaxExt + 1)
           /\ UNCHANGED <<pc, taken, state>>
  <2> DEFINE c == ToRead(rem_extlen)
  <2>1. c \in Nat /\ rem_extlen' = rem_extlen - c /\ rem_extlen' \in 0..extlen
    BY <1>5, ChunkOf
  <2> HIDE DEF c
  <2>2. Reads(c)
    BY <1>5 DEF c
  <2>3. ReaderType'
    <3>1. arrived' \in Seq(Cells)
      BY <1>1, <2>1, <2>2, ReadCells
    <3> QED  BY <1>1, <1>5, <2>1, <3>1 DEF ReaderType
  <2>4. Control'
    BY <1>1, <1>5 DEF Control
  <2>5. Within /\ Within' /\ Read' = Read + c
    <3>1. Within /\ Within'
      BY <1>1, <1>5 DEF Within
    <3>2. rem_extlen \in Nat /\ extlen' = extlen
      BY <1>1, <1>3 DEF ReaderType
    <3>3. Read = 3 + (extlen - rem_extlen) /\ Read' = 3 + (extlen - rem_extlen')
      BY <1>1, <3>1 DEF Read, HEADER_SIZE
    <3> QED  BY <1>3, <2>1, <3>1, <3>2, <3>3
  <2>6. ASSUME Up' PROVE InStep'
    <3>1. Up
      BY <1>1, <1>5, <2>6 DEF Up
    <3>2. PICK off : Placed(off) /\ taken <= Len(sent)
      BY <3>1 DEF InStep
    <3>3. PICK new : /\ Laid(Rest', new, sent', taken + 1)
                     /\ new[taken+1] = 0 - (Read + c)
                     /\ Len(Rest') <= new[Len(sent')+1]
                     /\ ~(closed') => Len(Rest') = new[Len(sent')+1]
      BY <1>1, <2>1, <2>2, <3>2, PlacedShift
    <3>4. Placed(new)'
      <4>1. taken' = taken
        BY <1>5
      <4>2. new[taken'+1] = 0 - Read'
        BY <2>5, <3>3, <4>1
      <4> QED  BY <3>3, <4>1, <4>2 DEF Placed
    <3>5. InMessage' /\ (pc' = "error" => ~Fits(extlen'))
      BY <1>1, <1>5, <2>5, <3>1 DEF InStep, InMessage, Fits
    <3> QED  BY <1>1, <1>5, <3>2, <3>4, <3>5 DEF InStep
  <2>7. ChannelStep
    BY <1>1, <1>5, Quiet
  <2> QED  BY <1>2, <2>3, <2>4, <2>6, <2>7 DEF InStep
<1>6. CASE /\ rem_extlen # 0 /\ ReadFails(ToRead(rem_extlen))
           /\ Discarded
           /\ state' = "lost"
           /\ UNCHANGED <<rem_extlen, taken>>
  <2>1. /\ pc' \in {"header", "idle", "ended"}
        /\ pc = "unexpected" => pc' = "header"
        /\ pc = "error" => pc' = IF user = "media" THEN "ended" ELSE "idle"
    BY <1>1, <1>6 DEF Discarded, Return
  <2>2. arrived' = <<>> /\ <<>> \in Seq(Cells)
    BY <1>6 DEF ReadFails
  <2>3. ReaderType'
    BY <1>1, <1>6, <2>1, <2>2 DEF ReaderType
  <2>4. Control'
    BY <2>1 DEF Control
  <2>5. InStep'
    BY <1>6 DEF InStep, Up
  <2>6. ChannelStep
    <3>1. CASE pc' = "ended"
      <4>1. ChannelState' = "ended" /\ ChannelState # "ended" /\ user = "media"
        BY <1>1, <1>3, <2>1, <3>1 DEF ChannelState
      <4>2. Promise!End
        BY <1>1, <1>6, <4>1 DEF Promise!End
      <4> QED  BY <4>2 DEF ChannelStep, Promise!Next
    <3>2. CASE pc' # "ended" /\ state = "lost"
      BY <1>1, <1>6, <3>2, Quiet
    <3>3. CASE pc' # "ended" /\ state = "up"
      <4>1. taken < Len(sent) /\ cmd = sent[taken+1].cmd
        BY <1>1, <3>3 DEF InStep, InMessage, Within, Up
      <4>2. user = "media" => sent[taken+1].cmd # Awaited
        BY <1>1, <2>1, <3>3, <4>1 DEF Control
      <4>3. ChannelState = "up" /\ ChannelState' = "lost"
        BY <1>1, <1>6, <3>3 DEF ChannelState
      <4>4. Promise!Cut
        BY <1>1, <1>6, <4>1, <4>2, <4>3 DEF Promise!Cut, Promise!Next1
      <4> QED  BY <4>4 DEF ChannelStep, Promise!Next
    <3> QED  BY <1>3, <3>1, <3>2, <3>3
  <2> QED  BY <1>2, <2>3, <2>4, <2>5, <2>6
<1> QED  BY <1>4, <1>5, <1>6 DEF Discard

-----------------------------------------------------------------------------
(***************************************************************************)
(* The steps of the whole program.                                         *)
(***************************************************************************)
LEMMA NextKeeps ==
  ASSUME IInv, Next
  PROVE  IInv' /\ ChannelStep
<1> USE DEF IInv
<1>1. CASE NetNext /\ UNCHANGED <<user, timeouts, wireVars>>
  <2>1. NetInv'
    BY <1>1, ResolveStep, ConnectStep DEF NetNext
  <2>2. ReaderType' /\ Control' /\ InStep'
    BY <1>1, InStepKept
  <2>3. UNCHANGED <<user, timeouts, sent, flying, closed, pc, taken, got, state>>
    BY <1>1 DEF wireVars, dvrVars, readerVars
  <2>4. DvrType'
    BY <2>3 DEF DvrType
  <2>5. ChannelStep
    BY <2>3, Stutter DEF ChannelState
  <2> QED  BY <2>1, <2>2, <2>4, <2>5
<1>2. CASE ~(NetNext /\ UNCHANGED <<user, timeouts, wireVars>>)
  <2>1. DvrSends \/ Arrives \/ DvrCloses \/ Call \/ GetHeader \/ GetExtdata \/ Discard
    BY <1>2 DEF Next
  <2>2. UNCHANGED netVars
    BY <2>1 DEF DvrSends, Arrives, DvrCloses, Call, GetHeader, GetExtdata, Discard
  <2>3. NetInv'
    BY <2>2, NetKept
  <2>4. CASE DvrSends
    <3>1. DvrType' /\ InStep' /\ \E m \in Messages : sent' = Append(sent, m)
      BY <2>4, SendStep
    <3>2. UNCHANGED <<user, arrived, pc, cmd, extlen, rem_extlen, taken, got, state>>
      BY <2>4 DEF DvrSends, readerVars
    <3>3. ReaderType' /\ Control'
      BY <3>2 DEF ReaderType, Control
    <3>4. Promise!Send
      BY <3>1, <3>2 DEF Promise!Send, ChannelState
    <3>5. ChannelStep
      BY <3>4 DEF ChannelStep, Promise!Next
    <3> QED  BY <2>3, <3>1, <3>3, <3>5
  <2>5. CASE Arrives
    <3>1. DvrType' /\ ReaderType' /\ InStep'
      BY <2>5, ArriveStep
    <3>2. UNCHANGED <<user, sent, pc, cmd, extlen, rem_extlen, taken, got, state>>
      BY <2>5 DEF Arrives, readerVars
    <3>3. Control' /\ ChannelStep
      BY <3>2, Stutter DEF Control, ChannelState
    <3> QED  BY <2>3, <3>1, <3>3
  <2>6. CASE DvrCloses
    <3>1. DvrType' /\ InStep'
      BY <2>6, CloseStep
    <3>2. UNCHANGED <<user, sent, arrived, pc, cmd, extlen, rem_extlen, taken, got, state>>
      BY <2>6 DEF DvrCloses, readerVars
    <3>3. ReaderType' /\ Control'
      BY <3>2 DEF ReaderType, Control
    <3>4. ChannelStep
      BY <3>2, Stutter DEF ChannelState
    <3> QED  BY <2>3, <3>1, <3>3, <3>4
  <2>7. CASE Call
    <3>1. /\ pc = "idle" /\ pc' = "header"
          /\ UNCHANGED <<user, timeouts, sent, flying, closed, arrived>>
          /\ UNCHANGED <<cmd, extlen, rem_extlen, taken, got, state>>
      BY <2>7 DEF Call, dvrVars
    <3>2. DvrType' /\ ReaderType' /\ Control'
      BY <3>1 DEF DvrType, ReaderType, Control
    <3>3. Read' = Read /\ ~Within' /\ Rest' = Rest
      BY <3>1 DEF Read, Within, Rest
    <3>4. \A off : Placed(off)' = Placed(off)
      BY <3>1, <3>3 DEF Placed
    <3>5. InStep'
      BY <3>1, <3>3, <3>4 DEF InStep, InMessage, Up
    <3>6. ChannelStep
      BY <3>1, Quiet
    <3> QED  BY <2>3, <3>2, <3>5, <3>6
  <2> QED  BY <2>1, <2>3, <2>4, <2>5, <2>6, <2>7, HeaderStep, ExtdataStep, DiscardStep
<1> QED  BY <1>1, <1>2

LEMMA TanidvrKeeps ==
  ASSUME IInv, [TanidvrNext]_<<mainVars, vars>>
  PROVE  IInv' /\ ChannelStep
<1>1. CASE Process \/ UNCHANGED <<mainVars, vars>>
  <2>1. UNCHANGED <<netVars, user, timeouts, wireVars>>
    BY <1>1 DEF Process, vars
  <2>2. UNCHANGED <<sent, flying, closed, pc, taken, got, state>>
    BY <2>1 DEF wireVars, dvrVars, readerVars
  <2>3. NetInv'
    BY <2>1, NetKept DEF IInv
  <2>4. DvrType'
    BY <2>1, <2>2 DEF IInv, DvrType
  <2>5. ChannelStep
    BY <2>1, <2>2, Stutter DEF ChannelState
  <2> QED  BY <2>1, <2>3, <2>4, <2>5, InStepKept DEF IInv
<1>2. CASE OpenSession
  <2>1. UNCHANGED <<netVars, user, wireVars>>
    BY <1>2 DEF OpenSession
  <2>2. timeouts' \in BOOLEAN
    BY <1>2 DEF OpenSession
  <2>3. UNCHANGED <<sent, flying, closed, pc, taken, got, state>>
    BY <2>1 DEF wireVars, dvrVars, readerVars
  <2>4. NetInv'
    BY <2>1, NetKept DEF IInv
  <2>5. DvrType'
    BY <2>1, <2>2, <2>3 DEF IInv, DvrType
  <2>6. ChannelStep
    BY <2>1, <2>3, Stutter DEF ChannelState
  <2> QED  BY <2>1, <2>4, <2>5, <2>6, InStepKept DEF IInv
<1>3. CASE main = "session" /\ Next /\ UNCHANGED mainVars
  BY <1>3, NextKeeps
<1> QED  BY <1>1, <1>2, <1>3 DEF TanidvrNext

LEMMA Invariant == TanidvrSpec => []IInv
<1>1. TanidvrInit => IInv
  BY InitHolds DEF TanidvrInit
<1>2. IInv /\ [TanidvrNext]_<<mainVars, vars>> => IInv'
  BY TanidvrKeeps
<1> QED  BY <1>1, <1>2, PTL DEF TanidvrSpec

(* What is received keeps to its types and its room: whatever the DVR      *)
(* sends and however the network cuts it, no data longer than the buffer   *)
(* gets into it (llp_get_extdata_sbuff()), what remains of a discard never *)
(* wraps around, and the array of addresses never overflows.               *)
THEOREM TypeCorrect == TanidvrSpec => []TypeOK
<1>1. IInv => TypeOK
  <2> SUFFICES ASSUME IInv PROVE TypeOK
    OBVIOUS
  <2>1. \A k \in DOMAIN got : got[k] \in Seq(Cells) /\ Len(got[k]) <= BufLen
    <3>1. got \in Seq(Data)
      BY DEF IInv, ReaderType
    <3>2. \A k \in 1..Len(got) : got[k] \in Data
      BY <3>1, ElementOfSeq
    <3>3. DOMAIN got = 1..Len(got)
      BY <3>1
    <3> QED  BY <3>2, <3>3 DEF Data
  <2> QED  BY <2>1 DEF IInv, NetInv, DvrType, ReaderType, TypeOK
<1> QED  BY <1>1, Invariant, PTL

(* net_open() does not give a host up while an address of the family that  *)
(* it chose answers, unless it lies behind the array's end.                *)
THEOREM HostNotGivenUp == TanidvrSpec => []ReachableIsTried
<1>1. IInv => ReachableIsTried
  BY DEF IInv, NetInv
<1> QED  BY <1>1, Invariant, PTL

(* The cells of the connection, read as they come, are the channel that    *)
(* llprotocol.h promises: messages in the order sent, each whole or not at *)
(* all, up to a read that stopped within one.                              *)
THEOREM WireIsChannel == TanidvrSpec => ImplementsChannel
<1>1. TanidvrInit => Promise!Init
  <2> SUFFICES ASSUME TanidvrInit PROVE Promise!Init
    OBVIOUS
  <2>1. /\ user \in {"media", "query"}
        /\ sent = <<>> /\ taken = 0 /\ got = <<>> /\ state = "up" /\ pc = "idle"
    BY DEF TanidvrInit, Init
  <2> QED  BY <2>1 DEF Promise!Init, ChannelState
<1>2. IInv /\ [TanidvrNext]_<<mainVars, vars>> => [Promise!Next]_(Promise!vars)
  BY TanidvrKeeps DEF ChannelStep
<1> QED  BY <1>1, <1>2, Invariant, PTL DEF TanidvrSpec, ImplementsChannel, Promise!Spec

-----------------------------------------------------------------------------
(***************************************************************************)
(* The command line, option by option.                                     *)
(***************************************************************************)
Args == [opt : STRING, num : BOOLEAN, val : Int, int : Int]

LEMMA ArgumentsAre ==
  ASSUME NEW arg \in Arguments
  PROVE  arg \in Args /\ (arg.val \in Ints => arg.int = arg.val)
<1>1. arg \in Args /\ arg.int \in Scans(arg.val)
  BY DEF Arguments, Args
<1>2. ASSUME arg.val \in Ints PROVE arg.int = arg.val
  <2>1. Scans(arg.val) = {arg.val}
    BY <1>2 DEF Scans
  <2> QED  BY <1>1, <2>1
<1> QED  BY <1>1, <1>2

LEMMA NatInduct ==
  ASSUME NEW S, 0 \in S, \A n \in Nat : n \in S => n + 1 \in S
  PROVE  \A n \in Nat : n \in S
<1>1. SUFFICES ASSUME Nat \ S # {} PROVE FALSE
  OBVIOUS
<1>2. PICK k \in Nat \ S : \A i \in Nat \ S : k <= i
  BY <1>1, LeastOf
<1>3. k # 0 /\ k - 1 \in Nat /\ ~(k <= k - 1) /\ k - 1 + 1 = k
  BY <1>2
<1> QED  BY <1>2, <1>3

LEMMA MaxOf ==
  ASSUME NEW T \in SUBSET Int, NEW k \in T, \A i \in T : k >= i
  PROVE  Max(T) = k
<1> DEFINE P(x) == x \in T /\ \A y \in T : x >= y
<1>1. Max(T) = CHOOSE x : P(x)
  BY DEF Max
<1>2. P(k)
  OBVIOUS
<1>3. P(CHOOSE x : P(x))
  <2> HIDE DEF P
  <2> QED  BY <1>2, Zenon
<1> DEFINE m == CHOOSE x : P(x)
<1>4. m \in T /\ \A y \in T : m >= y
  BY <1>3
<1> HIDE DEF m
<1>5. m >= k /\ k >= m /\ m \in Int /\ k \in Int
  BY <1>4
<1>6. m = k
  BY <1>5
<1> QED  BY <1>1, <1>6 DEF m

(* FoldLeft takes the elements in their order. *)
IterBody(b, a, f, s) == IF s = {} THEN b ELSE Option(f[s \ {Max(s)}], a[Max(s)])

LEMMA FoldIs ==
  ASSUME NEW b, NEW a
  PROVE  FoldLeft(Option, b, a) =
           (CHOOSE f : f = [s \in SUBSET DOMAIN a |-> IterBody(b, a, f, s)])[DOMAIN a]
BY DEF FoldLeft, MapThenFoldSet, IterBody

LEMMA FoldExists ==
  ASSUME NEW b, NEW a, NEW n \in Nat
  PROVE  \E f : f = [s \in SUBSET (1..n) |-> IterBody(b, a, f, s)]
<1> DEFINE Good(k, f) == f = [s \in SUBSET (1..k) |-> IterBody(b, a, f, s)]
           S == {k \in Nat : \E f : Good(k, f)}
<1>1. 0 \in S
  <2> DEFINE f == [s \in SUBSET (1..0) |-> b]
  <2>1. \A s \in SUBSET (1..0) : s = {}
    OBVIOUS
  <2>2. \A s \in SUBSET (1..0) : IterBody(b, a, f, s) = b
    BY <2>1 DEF IterBody
  <2>3. Good(0, f)
    BY <2>2
  <2> HIDE DEF Good, f
  <2> QED  BY <2>3
<1>2. ASSUME NEW k \in Nat, k \in S PROVE k + 1 \in S
  <2>1. PICK f : Good(k, f)
    BY <1>2
  <2> DEFINE h == [s \in SUBSET (1..k+1) |->
                     IF k + 1 \in s THEN Option(f[s \ {k+1}], a[k+1]) ELSE f[s]]
  <2>2. ASSUME NEW s \in SUBSET (1..k+1) PROVE h[s] = IterBody(b, a, h, s)
    <3>1. CASE k + 1 \in s
      <4>1. Max(s) = k + 1
        <5>1. \A i \in s : k + 1 >= i
          OBVIOUS
        <5>2. s \in SUBSET Int
          OBVIOUS
        <5> QED  BY <3>1, <5>1, <5>2, MaxOf
      <4>2. s \ {k+1} \in SUBSET (1..k+1) /\ k + 1 \notin s \ {k+1}
        OBVIOUS
      <4>3. h[s \ {k+1}] = f[s \ {k+1}]
        BY <4>2
      <4>4. h[s] = Option(f[s \ {k+1}], a[k+1])
        BY <3>1
      <4> HIDE DEF h
      <4> QED  BY <3>1, <4>1, <4>3, <4>4 DEF IterBody
    <3>2. CASE k + 1 \notin s
      <4>1. s \in SUBSET (1..k)
        BY <3>2
      <4>2. h[s] = f[s]
        BY <3>2
      <4>3. f[s] = IterBody(b, a, f, s)
        BY <2>1, <4>1
      <4>4. h[s \ {Max(s)}] = f[s \ {Max(s)}]
        <5> DEFINE r == s \ {Max(s)}
        <5>1. r \in SUBSET (1..k+1) /\ k + 1 \notin r
          BY <3>2
        <5> HIDE DEF r
        <5>2. h[r] = f[r]
          BY <5>1
        <5> QED  BY <5>2 DEF r
      <4> HIDE DEF h
      <4> QED  BY <4>2, <4>3, <4>4 DEF IterBody
    <3> QED  BY <3>1, <3>2
  <2>3. h = [s \in SUBSET (1..k+1) |-> h[s]]
    OBVIOUS
  <2>4. Good(k + 1, h)
    <3> HIDE DEF h
    <3> QED  BY <2>2, <2>3
  <2> HIDE DEF h, Good
  <2> QED  BY <2>4
<1>3. n \in S
  <2> HIDE DEF S
  <2> QED  BY <1>1, <1>2, NatInduct
<1> QED  BY <1>3

LEMMA FoldSteps ==
  ASSUME NEW b, NEW T, NEW a \in Seq(T)
  PROVE  \E g : /\ g[0] = b
                /\ \A k \in 1..Len(a) : g[k] = Option(g[k-1], a[k])
                /\ g[Len(a)] = FoldLeft(Option, b, a)
<1> DEFINE n == Len(a)
           P(f) == f = [s \in SUBSET (1..n) |-> IterBody(b, a, f, s)]
           F == CHOOSE f : P(f)
<1>1. n \in Nat /\ DOMAIN a = 1..n
  OBVIOUS
<1>2. FoldLeft(Option, b, a) = F[1..n]
  BY <1>1, FoldIs
<1>3. P(F)
  <2>1. \E f : P(f)
    BY <1>1, FoldExists
  <2> HIDE DEF P
  <2> QED  BY <2>1, Zenon
<1> HIDE DEF F, n
<1>4. \A s \in SUBSET (1..n) : F[s] = IterBody(b, a, F, s)
  BY <1>3
<1>5. F[1..0] = b
  <2>1. 1..0 = {} /\ {} \in SUBSET (1..n)
    OBVIOUS
  <2> QED  BY <1>4, <2>1 DEF IterBody
<1>6. ASSUME NEW k \in 1..n PROVE F[1..k] = Option(F[1..k-1], a[k])
  <2>1. 1..k \in SUBSET (1..n) /\ k \in 1..k /\ (1..k) \ {k} = 1..k-1 /\ 1..k \in SUBSET Int
        /\ \A i \in 1..k : k >= i
    BY <1>1
  <2>2. Max(1..k) = k
    BY <2>1, MaxOf
  <2>3. 1..k # {}
    BY <2>1
  <2> QED  BY <1>4, <2>1, <2>2, <2>3 DEF IterBody
<1> DEFINE g == [k \in 0..n |-> F[1..k]]
<1>7. g[0] = b
  BY <1>1, <1>5
<1>8. \A k \in 1..n : g[k] = Option(g[k-1], a[k])
  <2>1. \A k \in 1..n : k \in 0..n /\ k - 1 \in 0..n
    BY <1>1
  <2> QED  BY <1>6, <2>1
<1>9. g[n] = FoldLeft(Option, b, a)
  BY <1>1, <1>2
<1> HIDE DEF g
<1> QED  BY <1>7, <1>8, <1>9 DEF n

-----------------------------------------------------------------------------
Outcomes ==
  [exit : {"no", "0", "1"}, p : Int, opts : [Numeric -> Int], ntsc_exact_60hz : BOOLEAN,
   given : SUBSET STRING, user : Int, password : Int]

(* The bounds, none of which the provers are to calculate with again. *)
LEMMA BoundsAre ==
  /\ MAX_PORT \in Nat /\ MAX_CHANNEL \in Nat /\ MAX_TIME \in Nat /\ MAX_UINT_TIME \in Nat
  /\ MAX_TIME <= MAX_UINT_TIME /\ DEFAULT_PORT \in 1..MAX_PORT
  /\ 100 <= MAX_UINT_TIME /\ 5000 <= MAX_UINT_TIME
<1>1. DEFAULT_PORT \in Nat /\ 1 <= DEFAULT_PORT /\ DEFAULT_PORT <= MAX_PORT
  BY SMT DEF DEFAULT_PORT, MAX_PORT
<1>2. MAX_PORT \in Nat /\ MAX_CHANNEL \in Nat
  BY SMT DEF MAX_PORT, MAX_CHANNEL
<1>3. MAX_TIME <= MAX_UINT_TIME /\ MAX_TIME \in Nat
  BY SMT DEF MAX_TIME, MAX_UINT_TIME
<1>4. MAX_UINT_TIME \in Nat /\ 100 <= MAX_UINT_TIME /\ 5000 <= MAX_UINT_TIME
  BY SMT DEF MAX_UINT_TIME
<1> QED  BY <1>1, <1>2, <1>3, <1>4

LEMMA DefaultsAre == Defaults \in [Numeric -> Int] /\ \A opt \in Numeric : Defaults[opt] \in Documented[opt]
<1>1. Defaults \in [Numeric -> Int]
  BY BoundsAre DEF Defaults, Numeric
<1>2. Documented["k"] = 0..MAX_UINT_TIME /\ Documented["e"] = 0..MAX_UINT_TIME
  BY DEF Documented
<1>3. Defaults["k"] = 100
  BY DEF Defaults
<1>4. Defaults["e"] = 5000
  BY DEF Defaults
<1>5. 100 \in 0..MAX_UINT_TIME /\ 5000 \in 0..MAX_UINT_TIME
  BY BoundsAre
<1>6. Defaults["p"] \in Documented["p"]
  BY BoundsAre DEF Defaults, Documented
<1>7. ASSUME NEW opt \in {"a", "m", "c", "s", "n", "r"} PROVE Defaults[opt] \in Documented[opt]
  BY BoundsAre DEF Defaults, Documented
<1>8. Defaults["k"] \in Documented["k"]
  BY <1>2, <1>3, <1>5
<1>9. Defaults["e"] \in Documented["e"]
  BY <1>2, <1>4, <1>5
<1>10. \A opt \in Numeric : Defaults[opt] \in Documented[opt]
  BY <1>6, <1>7, <1>8, <1>9 DEF Numeric
<1> QED  BY <1>1, <1>10

(* What is accepted is documented. *)
LEMMA ValidIs ==
  ASSUME NEW opt \in Numeric, NEW v \in Int, Valid(opt, v)
  PROVE  v \in Documented[opt]
BY BoundsAre DEF Valid, Documented, Numeric

LEMMA ScannedIs ==
  ASSUME NEW st \in Outcomes, NEW arg \in Args, arg.opt \in Numeric
  PROVE  Scanned(st, arg) \in Int /\ (arg.num => Scanned(st, arg) = arg.int)
BY DEF Outcomes, Args, Scanned

(* One turn of the loop: an option that lets it go on. *)
LEMMA NumberStep ==
  ASSUME NEW st \in Outcomes, NEW arg \in Args, arg.opt \in Numeric, st.exit = "no"
  PROVE  LET v == Scanned(st, arg)  new == Number(st, arg) IN
         /\ new \in Outcomes
         /\ new.exit = "no" => /\ Valid(arg.opt, v) /\ new.given = st.given \cup {arg.opt}
                               /\ new.opts = [st.opts EXCEPT ![arg.opt] = v]
<1> DEFINE v == Scanned(st, arg)
           new == Number(st, arg)
           e == IF Valid(arg.opt, v) THEN "no" ELSE "1"
           q == IF arg.opt \in ViaP THEN v ELSE st.p
           o == [st.opts EXCEPT ![arg.opt] = IF Valid(arg.opt, v) THEN v ELSE @]
           g == st.given \cup {arg.opt}
<1>1. v \in Int
  BY ScannedIs
<1>2. new = [st EXCEPT !.exit = e, !.p = q, !.opts = o, !.given = g]
  BY DEF Number, Outcomes
<1>3. e \in {"no", "0", "1"} /\ q \in Int
  BY <1>1 DEF Outcomes
<1>4. o \in [Numeric -> Int]
  BY <1>1 DEF Outcomes
<1>5. g \in SUBSET STRING
  BY DEF Outcomes, Args
<1>6. e = "no" => Valid(arg.opt, v)
  OBVIOUS
<1>7. Valid(arg.opt, v) => o = [st.opts EXCEPT ![arg.opt] = v]
  OBVIOUS
<1> HIDE DEF v, e, q, o, g
<1>8. new \in Outcomes /\ new.exit = e /\ new.opts = o /\ new.given = g
  BY <1>2, <1>3, <1>4, <1>5 DEF Outcomes
<1> QED  BY <1>6, <1>7, <1>8 DEF v, g

LEMMA OptionStep ==
  ASSUME NEW st \in Outcomes, NEW arg \in Args
  PROVE  LET new == Option(st, arg) IN
         /\ new \in Outcomes
         /\ new.exit = "no" =>
              /\ st.exit = "no" /\ new.given \subseteq st.given \cup {arg.opt}
              /\ \/ /\ arg.opt \in Numeric /\ Valid(arg.opt, Scanned(st, arg))
                    /\ new.opts = [st.opts EXCEPT ![arg.opt] = Scanned(st, arg)]
                 \/ arg.opt \notin Numeric /\ new.opts = st.opts
<1> DEFINE new == Option(st, arg)
<1>1. CASE st.exit # "no"
  BY <1>1 DEF Option
<1>2. CASE st.exit = "no" /\ arg.opt \in Numeric
  <2>1. new = Number(st, arg)
    BY <1>2 DEF Option, Numeric, Strings
  <2> QED  BY <1>2, <2>1, NumberStep
<1>3. CASE st.exit = "no" /\ arg.opt \in Strings
  <2>1. new = String(st, arg) /\ arg.opt \notin Numeric
    BY <1>3 DEF Option, Numeric, Strings
  <2> DEFINE u == IF arg.opt = "u" THEN arg.val ELSE st.user
             w == IF arg.opt = "w" THEN arg.val ELSE st.password
             g == st.given \cup {arg.opt}
  <2>2. new = [st EXCEPT !.given = g, !.user = u, !.password = w]
    BY <2>1 DEF String, Outcomes
  <2>3. u \in Int /\ w \in Int
    BY DEF Outcomes, Args
  <2>4. g \in SUBSET STRING
    BY DEF Outcomes, Args
  <2> HIDE DEF u, w, g
  <2>5. new \in Outcomes /\ new.opts = st.opts /\ new.given = g
    BY <2>2, <2>3, <2>4 DEF Outcomes
  <2> QED  BY <1>3, <2>1, <2>5 DEF g
<1>4. CASE st.exit = "no" /\ arg.opt \notin Numeric /\ arg.opt \notin Strings
  <2>1. CASE arg.opt = "x"
    <3>1. new = [st EXCEPT !.ntsc_exact_60hz = TRUE]
      BY <1>4, <2>1 DEF Option
    <3>2. new \in Outcomes /\ new.opts = st.opts /\ new.given = st.given
      BY <3>1 DEF Outcomes
    <3> QED  BY <1>4, <3>2
  <2>2. CASE arg.opt # "x"
    <3>1. new = [st EXCEPT !.exit = "0"] \/ new = [st EXCEPT !.exit = "1"]
      BY <1>4, <2>2 DEF Option
    <3>2. new \in Outcomes /\ new.exit # "no"
      BY <3>1 DEF Outcomes
    <3> QED  BY <3>2
  <2> QED  BY <2>1, <2>2
<1> QED  BY <1>1, <1>2, <1>3, <1>4

(* Of the first k arguments, the last one of an option with the number it  *)
(* is set to.                                                              *)
LastSet(a, k, opt, v) ==
  \/ \E i \in 1..k : a[i].opt = opt /\ v = a[i].int /\ \A j \in i+1..k : a[j].opt # opt
  \/ v = Defaults[opt] /\ \A i \in 1..k : a[i].opt # opt

Taken(a, k, st) ==
  /\ st \in Outcomes
  /\ st.exit = "no" =>
       /\ \A opt \in st.given : \E i \in 1..k : a[i].opt = opt
       /\ \A opt \in Numeric : st.opts[opt] \in Documented[opt]
       /\ \A i \in 1..k : a[i].opt \in Numeric /\ a[i].num => a[i].int \in Documented[a[i].opt]
       /\ (\A i \in 1..k : a[i].opt \in Numeric => a[i].num) =>
            \A opt \in Numeric : LastSet(a, k, opt, st.opts[opt])

LEMMA TakenStep ==
  ASSUME NEW a, NEW k \in Nat, NEW st, a[k+1] \in Args, Taken(a, k, st)
  PROVE  Taken(a, k + 1, Option(st, a[k+1]))
<1> DEFINE arg == a[k+1]
           new == Option(st, arg)
<1>1. st \in Outcomes /\ arg \in Args
  BY DEF Taken
<1>2. /\ new \in Outcomes
      /\ new.exit = "no" =>
           /\ st.exit = "no" /\ new.given \subseteq st.given \cup {arg.opt}
           /\ \/ /\ arg.opt \in Numeric /\ Valid(arg.opt, Scanned(st, arg))
                 /\ new.opts = [st.opts EXCEPT ![arg.opt] = Scanned(st, arg)]
              \/ arg.opt \notin Numeric /\ new.opts = st.opts
  BY <1>1, OptionStep
<1> HIDE DEF new
<1>3. SUFFICES ASSUME new.exit = "no"
      PROVE  /\ \A opt \in new.given : \E i \in 1..k+1 : a[i].opt = opt
             /\ \A opt \in Numeric : new.opts[opt] \in Documented[opt]
             /\ \A i \in 1..k+1 : a[i].opt \in Numeric /\ a[i].num => a[i].int \in Documented[a[i].opt]
             /\ (\A i \in 1..k+1 : a[i].opt \in Numeric => a[i].num) =>
                  \A opt \in Numeric : LastSet(a, k + 1, opt, new.opts[opt])
  BY <1>2 DEF Taken, new
<1>4. /\ \A opt \in st.given : \E i \in 1..k : a[i].opt = opt
      /\ \A opt \in Numeric : st.opts[opt] \in Documented[opt]
      /\ \A i \in 1..k : a[i].opt \in Numeric /\ a[i].num => a[i].int \in Documented[a[i].opt]
      /\ (\A i \in 1..k : a[i].opt \in Numeric => a[i].num) =>
           \A opt \in Numeric : LastSet(a, k, opt, st.opts[opt])
  BY <1>2, <1>3 DEF Taken
<1>5. k + 1 \in 1..k+1 /\ \A i \in 1..k : i \in 1..k+1
  OBVIOUS
<1>6. \A i \in 1..k+1 : i \in 1..k \/ i = k + 1
  OBVIOUS
<1>7. ASSUME NEW opt \in new.given PROVE \E i \in 1..k+1 : a[i].opt = opt
  <2>1. opt \in st.given \/ opt = arg.opt
    BY <1>2, <1>3
  <2>2. CASE opt \in st.given
    BY <1>4, <1>5, <2>2
  <2>3. CASE opt = arg.opt
    BY <1>5, <2>3
  <2> QED  BY <2>1, <2>2, <2>3
<1>8. st.opts \in [Numeric -> Int]
  BY <1>1 DEF Outcomes
<1>9. ASSUME NEW opt \in Numeric
      PROVE  \/ opt = arg.opt /\ Valid(opt, new.opts[opt]) /\ new.opts[opt] \in Int
                /\ (arg.num => new.opts[opt] = arg.int)
             \/ opt # arg.opt /\ new.opts[opt] = st.opts[opt]
  <2>1. CASE arg.opt \notin Numeric
    BY <1>2, <1>3, <2>1
  <2>2. CASE arg.opt \in Numeric
    <3>1. Valid(arg.opt, Scanned(st, arg)) /\ new.opts = [st.opts EXCEPT ![arg.opt] = Scanned(st, arg)]
      BY <1>2, <1>3, <2>2
    <3>2. Scanned(st, arg) \in Int /\ (arg.num => Scanned(st, arg) = arg.int)
      BY <1>1, <2>2, ScannedIs
    <3> DEFINE v == Scanned(st, arg)
    <3> HIDE DEF v, arg
    <3>3. new.opts[opt] = IF opt = arg.opt THEN v ELSE st.opts[opt]
      BY <1>8, <3>1 DEF v
    <3> QED  BY <3>1, <3>2, <3>3 DEF v
  <2> QED  BY <2>1, <2>2
<1>10. ASSUME NEW opt \in Numeric PROVE new.opts[opt] \in Documented[opt]
  BY <1>4, <1>9, ValidIs
<1>11. ASSUME \A i \in 1..k+1 : a[i].opt \in Numeric => a[i].num, NEW opt \in Numeric
       PROVE  LastSet(a, k + 1, opt, new.opts[opt])
  <2>1. CASE opt = arg.opt
    <3>1. new.opts[opt] = arg.int
      BY <1>5, <1>9, <1>11, <2>1
    <3>2. \A j \in (k+1)+1..k+1 : FALSE
      OBVIOUS
    <3> QED  BY <1>5, <2>1, <3>1, <3>2 DEF LastSet
  <2>2. CASE opt # arg.opt
    <3>1. new.opts[opt] = st.opts[opt]
      BY <1>9, <2>2
    <3>2. LastSet(a, k, opt, st.opts[opt])
      BY <1>4, <1>5, <1>11
    <3>3. CASE \A i \in 1..k : a[i].opt # opt
      <4>1. \A i \in 1..k+1 : a[i].opt # opt
        BY <1>6, <2>2, <3>3
      <4> QED  BY <3>1, <3>2, <3>3, <4>1 DEF LastSet
    <3>4. CASE \E i \in 1..k : /\ a[i].opt = opt /\ st.opts[opt] = a[i].int
                               /\ \A j \in i+1..k : a[j].opt # opt
      <4>1. PICK i \in 1..k : /\ a[i].opt = opt /\ st.opts[opt] = a[i].int
                              /\ \A j \in i+1..k : a[j].opt # opt
        BY <3>4
      <4>2. \A j \in i+1..k+1 : j \in i+1..k \/ j = k + 1
        OBVIOUS
      <4>3. \A j \in i+1..k+1 : a[j].opt # opt
        BY <2>2, <4>1, <4>2
      <4> QED  BY <1>5, <3>1, <4>1, <4>3 DEF LastSet
    <3> QED  BY <3>2, <3>3, <3>4 DEF LastSet
  <2> QED  BY <2>1, <2>2
<1>12. ASSUME NEW i \in 1..k+1, a[i].opt \in Numeric, a[i].num
       PROVE  a[i].int \in Documented[a[i].opt]
  <2>1. CASE i \in 1..k
    BY <1>4, <1>12, <2>1
  <2>2. CASE i = k + 1
    <3>1. arg.opt \in Numeric /\ arg.num
      BY <1>12, <2>2
    <3>2. new.opts[arg.opt] = arg.int /\ new.opts[arg.opt] \in Documented[arg.opt]
      BY <1>9, <1>10, <3>1
    <3> QED  BY <2>2, <3>2
  <2> QED  BY <1>6, <2>1, <2>2
<1> QED  BY <1>7, <1>10, <1>11, <1>12

LEMMA BeginTaken ==
  ASSUME NEW a, NEW p \in Int
  PROVE  Taken(a, 0, Begin(p))
<1> DEFINE st == Begin(p)
<1>1. st.opts = Defaults /\ st.given = {}
  BY DEF Begin
<1>2. st \in Outcomes
  <2>1. Defaults \in [Numeric -> Int] /\ FALSE \in BOOLEAN /\ {} \in SUBSET STRING
    BY DefaultsAre
  <2> QED  BY <2>1 DEF Begin, Outcomes
<1>3. \A opt \in Numeric : LastSet(a, 0, opt, Defaults[opt])
  BY DEF LastSet
<1> HIDE DEF st
<1> QED  BY <1>1, <1>2, <1>3, DefaultsAre DEF Taken, st

LEMMA AllTaken ==
  ASSUME NEW a \in Seq(Args), NEW p \in Int
  PROVE  Taken(a, Len(a), FoldLeft(Option, Begin(p), a))
<1> DEFINE n == Len(a)
<1>1. n \in Nat /\ \A k \in 1..n : a[k] \in Args
  BY ElementOfSeq
<1>2. PICK g : /\ g[0] = Begin(p)
               /\ \A k \in 1..Len(a) : g[k] = Option(g[k-1], a[k])
               /\ g[Len(a)] = FoldLeft(Option, Begin(p), a)
  BY FoldSteps
<1> DEFINE S == {k \in Nat : k <= n => Taken(a, k, g[k])}
<1>3. 0 \in S
  BY <1>2, BeginTaken
<1>4. ASSUME NEW k \in Nat, k \in S PROVE k + 1 \in S
  <2>1. CASE k + 1 <= n
    <3>1. k <= n /\ k + 1 \in 1..Len(a) /\ k + 1 - 1 = k
      BY <1>1, <2>1
    <3>2. g[k+1] = Option(g[k], a[k+1])
      BY <1>2, <3>1
    <3>3. Taken(a, k, g[k]) /\ a[k+1] \in Args
      BY <1>1, <1>4, <3>1
    <3>4. Taken(a, k + 1, g[k+1])
      BY <3>2, <3>3, TakenStep
    <3> QED  BY <3>4
  <2> QED  BY <2>1
<1>5. n \in S
  <2> HIDE DEF S, n
  <2>1. n \in Nat
    BY <1>1
  <2> QED  BY <1>3, <1>4, <2>1, NatInduct
<1>6. n <= n
  BY <1>1
<1> QED  BY <1>2, <1>5, <1>6

(* The last argument of an option is what Asked() finds, if it has room.   *)
LEMMA AskedIs ==
  ASSUME NEW opt \in Numeric, NEW v, LastSet(argv, Len(argv), opt, v), argv \in Seq(Args),
         \A k \in DOMAIN argv : argv[k].val \in Ints => argv[k].int = argv[k].val,
         \A k \in DOMAIN argv : argv[k].opt \in Numeric => argv[k].num,
         Asked(opt) \in Ints
  PROVE  Asked(opt) = v
<1> DEFINE I == {i \in 1..Len(argv) : argv[i].opt = opt /\ argv[i].num}
<1>1. Len(argv) \in Nat /\ DOMAIN argv = 1..Len(argv) /\ I \in SUBSET Int
  OBVIOUS
<1>2. \A i \in 1..Len(argv) : argv[i].opt = opt => i \in I
  BY <1>1
<1>3. SelectLastInSeq(argv, LAMBDA arg : arg.opt = opt /\ arg.num) = IF I # {} THEN Max(I) ELSE 0
  BY DEF SelectLastInSeq
<1>4. Asked(opt) = LET k == IF I # {} THEN Max(I) ELSE 0
                   IN  IF k = 0 THEN Defaults[opt] ELSE argv[k].val
  BY <1>3 DEF Asked
<1>5. CASE \A i \in 1..Len(argv) : argv[i].opt # opt
  <2>1. I = {} /\ v = Defaults[opt]
    BY <1>5 DEF LastSet
  <2> QED  BY <1>4, <2>1
<1>6. CASE \E i \in 1..Len(argv) : /\ argv[i].opt = opt /\ v = argv[i].int
                                   /\ \A j \in i+1..Len(argv) : argv[j].opt # opt
  <2>1. PICK i \in 1..Len(argv) : /\ argv[i].opt = opt /\ v = argv[i].int
                                  /\ \A j \in i+1..Len(argv) : argv[j].opt # opt
    BY <1>6
  <2>2. i \in I /\ i # 0
    BY <1>2, <2>1
  <2>3. \A j \in I : i >= j
    <3>1. \A j \in I : j \in 1..Len(argv) /\ argv[j].opt = opt
      OBVIOUS
    <3>2. \A j \in 1..Len(argv) : i >= j \/ j \in i+1..Len(argv)
      BY <1>1
    <3> QED  BY <2>1, <3>1, <3>2
  <2> HIDE DEF I
  <2>4. Max(I) = i
    BY <1>1, <2>2, <2>3, MaxOf
  <2>5. Asked(opt) = argv[i].val
    BY <1>4, <2>2, <2>4
  <2>6. argv[i].int = argv[i].val
    BY <1>1, <2>5
  <2> QED  BY <2>1, <2>5, <2>6
<1> QED  BY <1>5, <1>6 DEF LastSet

(* What main() has before and behind process_command_line_arguments().     *)
MainInv ==
  /\ main \in {"start", "parsed"} => argv \in Seq(Arguments)
  /\ main = "parsed" => \E p \in Int : outcome = Parsed(argv, p)

LEMMA MainKeeps ==
  ASSUME MainInv, [TanidvrNext]_<<mainVars, vars>>
  PROVE  MainInv'
<1>1. CASE Process
  <2>1. PICK p \in Junk : outcome' = Parsed(argv, p)
    BY <1>1 DEF Process
  <2>2. argv' = argv /\ main = "start"
    BY <1>1 DEF Process
  <2>3. p \in Int
    BY TanidvrAssumption DEF Ints
  <2> QED  BY <2>1, <2>2, <2>3 DEF MainInv
<1>2. CASE OpenSession
  BY <1>2 DEF OpenSession, MainInv
<1>3. CASE UNCHANGED mainVars
  BY <1>3 DEF MainInv, mainVars
<1> QED  BY <1>1, <1>2, <1>3 DEF TanidvrNext

(* process_command_line_arguments() stores nothing that the help does not  *)
(* offer, nothing mandatory is missing, numbers that an int has room for   *)
(* are refused when out of range, and taken as they were last given: for   *)
(* every command line, whatever its variable p held before it was set and  *)
(* whatever sscanf() makes of numbers that an int has no room for.         *)
THEOREM OptionsAsAsked == TanidvrSpec => []AsAsked
<1>1. TanidvrInit => MainInv
  BY TanidvrAssumption DEF TanidvrInit, MainInv
<1>2. MainInv /\ [TanidvrNext]_<<mainVars, vars>> => MainInv'
  BY MainKeeps
<1>3. MainInv => AsAsked
  <2> SUFFICES ASSUME MainInv, main = "parsed", outcome.exit = "no"
               PROVE  /\ Missing = {}
                      /\ \A opt \in Numeric : outcome.opts[opt] \in Documented[opt]
                      /\ \A k \in DOMAIN argv :
                           argv[k].opt \in Numeric /\ argv[k].num /\ argv[k].val \in Ints =>
                             argv[k].val \in Documented[argv[k].opt]
                      /\ (\A k \in DOMAIN argv : argv[k].opt \in Numeric => argv[k].num) =>
                           \A opt \in Numeric : Asked(opt) \in Ints => outcome.opts[opt] = Asked(opt)
    BY DEF AsAsked
  <2>1. PICK p \in Int : outcome = Parsed(argv, p)
    BY DEF MainInv
  <2>0. argv \in Seq(Arguments)
    BY DEF MainInv
  <2>2. /\ argv \in Seq(Args) /\ Len(argv) \in Nat /\ DOMAIN argv = 1..Len(argv)
        /\ \A k \in DOMAIN argv : argv[k].val \in Ints => argv[k].int = argv[k].val
    <3>1. Len(argv) \in Nat /\ DOMAIN argv = 1..Len(argv) /\ \A k \in 1..Len(argv) : argv[k] \in Arguments
      BY <2>0, ElementOfSeq
    <3>2. Arguments \subseteq Args
      BY ArgumentsAre
    <3>3. argv \in Seq(Args)
      BY <2>0, <3>2
    <3>4. \A k \in DOMAIN argv : argv[k].val \in Ints => argv[k].int = argv[k].val
      BY <3>1, ArgumentsAre
    <3> QED  BY <3>1, <3>3, <3>4
  <2> DEFINE st == FoldLeft(Option, Begin(p), argv)
  <2>3. Taken(argv, Len(argv), st)
    BY <2>2, AllTaken
  <2>4. outcome = Complete(st)
    BY <2>1 DEF Parsed
  <2> HIDE DEF st
  <2>5. outcome = st /\ Mandatory \subseteq st.given
    <3>1. st \in Outcomes
      BY <2>3 DEF Taken
    <3>2. [st EXCEPT !.exit = "1"].exit = "1"
      BY <3>1 DEF Outcomes
    <3> QED  BY <2>4, <3>2 DEF Complete
  <2>6. /\ \A opt \in st.given : \E i \in 1..Len(argv) : argv[i].opt = opt
        /\ \A opt \in Numeric : st.opts[opt] \in Documented[opt]
        /\ \A i \in 1..Len(argv) :
             argv[i].opt \in Numeric /\ argv[i].num => argv[i].int \in Documented[argv[i].opt]
        /\ (\A i \in 1..Len(argv) : argv[i].opt \in Numeric => argv[i].num) =>
             \A opt \in Numeric : LastSet(argv, Len(argv), opt, st.opts[opt])
    BY <2>3, <2>5 DEF Taken
  <2>7. Missing = {}
    BY <2>2, <2>5, <2>6 DEF Missing
  <2>8. ASSUME \A k \in DOMAIN argv : argv[k].opt \in Numeric => argv[k].num, NEW opt \in Numeric,
               Asked(opt) \in Ints
        PROVE  st.opts[opt] = Asked(opt)
    <3>1. LastSet(argv, Len(argv), opt, st.opts[opt])
      BY <2>2, <2>6, <2>8
    <3> QED  BY <2>2, <2>8, <3>1, AskedIs
  <2>9. ASSUME NEW k \in DOMAIN argv, argv[k].opt \in Numeric, argv[k].num, argv[k].val \in Ints
        PROVE  argv[k].val \in Documented[argv[k].opt]
    <3>1. argv[k].int = argv[k].val
      BY <2>2, <2>9
    <3>2. argv[k].int \in Documented[argv[k].opt]
      BY <2>2, <2>6, <2>9
    <3> QED  BY <3>1, <3>2
  <2> QED  BY <2>5, <2>6, <2>7, <2>8, <2>9
<1> QED  BY <1>1, <1>2, <1>3, PTL DEF TanidvrSpec
=============================================================================
