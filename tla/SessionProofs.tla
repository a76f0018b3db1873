--------------------------- MODULE SessionProofs ----------------------------
(***************************************************************************)
(* Proofs about a session with the DVR, for any options, any queries of    *)
(* open_session(), any number of unasked messages and any size of the      *)
(* socket's buffer.                                                        *)
(***************************************************************************)
EXTENDS Session, SequenceTheorems, TLAPS

Reqs == [cmd : Commands, arg : 0..255]
Note == Message("note", NoteType, TRUE)

LEMMA MessageType ==
  ASSUME NEW c \in Commands, NEW n \in Nat, NEW g \in BOOLEAN
  PROVE  Message(c, n, g) \in Messages
BY DEF Message, Messages

LEMMA RequestType ==
  ASSUME NEW c \in Commands, NEW n \in 0..255
  PROVE  Request(c, n) \in Reqs
BY DEF Request, Reqs

LEMMA BoundsType ==
  /\ NetCap \in Nat \ {0} /\ N \in Nat \ {0}
  /\ Infos \in Seq(0..255) /\ Script \in Seq(Reqs)
<1>1. Script \in Seq([cmd : {"status", "info", "alarm", "query"}, arg : 0..255])
  BY SessionAssumption
<1>2. [cmd : {"status", "info", "alarm", "query"}, arg : 0..255] \subseteq Reqs
  BY DEF Reqs, Commands
<1> QED  BY <1>1, <1>2, SeqMonotonic, SessionAssumption

-----------------------------------------------------------------------------
(***************************************************************************)
(* Sequences of requests and of messages that lose their head or grow.     *)
(***************************************************************************)
LEMMA TailAt ==
  ASSUME NEW T, NEW s \in Seq(T), s # <<>>
  PROVE  /\ Tail(s) \in Seq(T) /\ Len(s) \in Nat \ {0} /\ DOMAIN s = 1..Len(s)
         /\ DOMAIN Tail(s) = 1..Len(s)-1 /\ Len(Tail(s)) = Len(s) - 1
         /\ Head(s) = s[1]
         /\ \A k \in 1..Len(s)-1 : k + 1 \in 1..Len(s) /\ Tail(s)[k] = s[k+1]
OBVIOUS

LEMMA AppendAt ==
  ASSUME NEW T, NEW s \in Seq(T), NEW m \in T
  PROVE  /\ Append(s, m) \in Seq(T) /\ Len(s) \in Nat /\ DOMAIN s = 1..Len(s)
         /\ DOMAIN Append(s, m) = 1..Len(s)+1 /\ Len(Append(s, m)) = Len(s) + 1
         /\ \A k \in 1..Len(s) : Append(s, m)[k] = s[k]
         /\ Append(s, m)[Len(s)+1] = m
OBVIOUS

LEMMA ConcatAt ==
  ASSUME NEW T, NEW s \in Seq(T), NEW t \in Seq(T)
  PROVE  /\ s \o t \in Seq(T) /\ DOMAIN s = 1..Len(s) /\ DOMAIN t = 1..Len(t)
         /\ Len(s) \in Nat /\ Len(t) \in Nat
         /\ DOMAIN (s \o t) = 1..Len(s)+Len(t)
         /\ \A k \in 1..Len(s) : (s \o t)[k] = s[k]
         /\ \A k \in 1..Len(s)+Len(t) : k \notin 1..Len(s) => k - Len(s) \in 1..Len(t) /\ (s \o t)[k] = t[k - Len(s)]
OBVIOUS

LEMMA TailCounts ==
  ASSUME NEW T, NEW s \in Seq(T), s # <<>>, NEW c
  PROVE  /\ Absent(s, c) => Absent(Tail(s), c)
         /\ AtMostOne(s, c) => AtMostOne(Tail(s), c)
         /\ AtMostOne(s, c) /\ Head(s).cmd = c => Absent(Tail(s), c)
<1> USE TailAt
<1>1. Absent(s, c) => Absent(Tail(s), c)
  BY DEF Absent
<1>2. AtMostOne(s, c) => AtMostOne(Tail(s), c)
  BY DEF AtMostOne
<1>3. ASSUME AtMostOne(s, c), Head(s).cmd = c PROVE Absent(Tail(s), c)
  BY <1>3 DEF Absent, AtMostOne
<1> QED  BY <1>1, <1>2, <1>3

LEMMA AppendCounts ==
  ASSUME NEW T, NEW s \in Seq(T), NEW m \in T, NEW c
  PROVE  /\ Absent(s, c) /\ m.cmd # c => Absent(Append(s, m), c)
         /\ AtMostOne(s, c) /\ m.cmd # c => AtMostOne(Append(s, m), c)
         /\ Absent(s, c) => AtMostOne(Append(s, m), c)
<1> USE AppendAt
<1>1. Absent(s, c) /\ m.cmd # c => Absent(Append(s, m), c)
  BY DEF Absent
<1>2. AtMostOne(s, c) /\ m.cmd # c => AtMostOne(Append(s, m), c)
  BY DEF AtMostOne
<1>3. Absent(s, c) => AtMostOne(Append(s, m), c)
  BY DEF Absent, AtMostOne
<1> QED  BY <1>1, <1>2, <1>3

LEMMA ConcatCounts ==
  ASSUME NEW T, NEW s \in Seq(T), NEW t \in Seq(T), NEW c
  PROVE  /\ Absent(s, c) /\ Absent(t, c) => Absent(s \o t, c)
         /\ Absent(s, c) /\ AtMostOne(t, c) => AtMostOne(s \o t, c)
         /\ Absent(s \o t, c) => Absent(s, c)
         /\ AtMostOne(s \o t, c) => AtMostOne(s, c)
<1> USE ConcatAt
<1>1. Absent(s, c) /\ Absent(t, c) => Absent(s \o t, c)
  BY DEF Absent
<1>2. ASSUME Absent(s, c), AtMostOne(t, c) PROVE AtMostOne(s \o t, c)
  <2>1. ASSUME NEW k \in 1..Len(s)+Len(t), (s \o t)[k].cmd = c
        PROVE  k - Len(s) \in 1..Len(t) /\ t[k - Len(s)].cmd = c
    BY <1>2, <2>1 DEF Absent
  <2> QED  BY <1>2, <2>1, SMTT(60) DEF AtMostOne
<1>3. Absent(s \o t, c) => Absent(s, c)
  BY SMTT(60) DEF Absent
<1>4. AtMostOne(s \o t, c) => AtMostOne(s, c)
  BY SMTT(60) DEF AtMostOne
<1> QED  BY <1>1, <1>2, <1>3, <1>4

(* A message taken is a frame written or none at all. *)
After(s, l) == IF Head(s).cmd = "media" THEN Head(s).arg ELSE l

LEMMA PrecedesTail ==
  ASSUME NEW T, NEW s \in Seq(T), s # <<>>, NEW l, NEW n, NEW k \in 1..Len(s), Precedes(s, k + 1, n, l)
  PROVE  Precedes(Tail(s), k, n, After(s, l))
<1> DEFINE B == {i \in 1..(k+1)-1 : s[i].cmd = "media"}
           R == {i \in 1..k-1 : Tail(s)[i].cmd = "media"}
<1>1. \A i \in 1..k-1 : i \in R <=> i + 1 \in B
  BY TailAt
<1>2. 1 \in B <=> Head(s).cmd = "media"
  BY TailAt
<1>3. \A i \in B : i \in 1..k /\ (i # 1 => i - 1 \in R)
  <2>1. \A i \in B : i \in 1..k
    OBVIOUS
  <2>2. ASSUME NEW i \in B, i # 1 PROVE i - 1 \in 1..k-1 /\ (i - 1) + 1 = i
    BY <2>1, <2>2
  <2> QED  BY <1>1, <2>1, <2>2
<1>4. CASE B = {} /\ n = l
  <2>1. R = {}
    BY <1>1, <1>4
  <2> QED  BY <1>2, <1>4, <2>1 DEF Precedes, After
<1>5. CASE \E j \in B : n = s[j].arg /\ \A i \in B : i <= j
  <2>1. PICK j \in B : n = s[j].arg /\ \A i \in B : i <= j
    BY <1>5
  <2>2. CASE j = 1
    <3>1. R = {}
      <4>1. \A i \in R : i \in 1..k-1 /\ i + 1 <= j
        BY <1>1, <2>1
      <4> QED  BY <2>2, <4>1
    <3> QED  BY <1>2, <2>1, <2>2, <3>1, TailAt DEF Precedes, After
  <2>3. CASE j # 1
    <3>1. j - 1 \in R /\ j \in 1..k
      BY <1>3, <2>3
    <3>2. \A i \in R : i <= j - 1
      <4>1. \A i \in R : i \in 1..k-1 /\ i + 1 <= j
        BY <1>1, <2>1
      <4> QED  BY <3>1, <4>1
    <3>3. n = Tail(s)[j-1].arg
      <4>1. j - 1 \in 1..Len(s)-1 /\ (j - 1) + 1 = j
        BY <2>3, <3>1, TailAt
      <4> QED  BY <2>1, <4>1, TailAt
    <3> QED  BY <3>1, <3>2, <3>3 DEF Precedes
  <2> QED  BY <2>2, <2>3
<1> QED  BY <1>4, <1>5 DEF Precedes

(* What comes behind does not matter. *)
LEMMA PrecedesSame ==
  ASSUME NEW s, NEW t, NEW l, NEW n, NEW k \in Nat, \A i \in 1..k-1 : t[i] = s[i], Precedes(s, k, n, l)
  PROVE  Precedes(t, k, n, l)
<1>1. {i \in 1..k-1 : t[i].cmd = "media"} = {i \in 1..k-1 : s[i].cmd = "media"}
  OBVIOUS
<1> QED  BY <1>1 DEF Precedes

LEMMA OrderTail ==
  ASSUME NEW T, NEW s \in Seq(T), s # <<>>, NEW l, InOrder(s, l)
  PROVE  InOrder(Tail(s), After(s, l))
<1>1. ASSUME NEW k \in 1..Len(s)-1, Tail(s)[k].cmd = "media"
      PROVE  \E n \in 0..N-1 : Precedes(Tail(s), k, n, After(s, l)) /\ Tail(s)[k].arg = (n + 1) % N
  <2>1. k + 1 \in 1..Len(s) /\ Tail(s)[k] = s[k+1] /\ k \in 1..Len(s) /\ DOMAIN s = 1..Len(s)
    BY TailAt
  <2>2. PICK n \in 0..N-1 : Precedes(s, k + 1, n, l) /\ s[k+1].arg = (n + 1) % N
    BY <1>1, <2>1 DEF InOrder
  <2>3. Precedes(Tail(s), k, n, After(s, l))
    BY <2>1, <2>2, PrecedesTail
  <2> QED  BY <2>1, <2>2, <2>3
<1> QED  BY <1>1, TailAt DEF InOrder

LEMMA OrderPrefix ==
  ASSUME NEW T, NEW s \in Seq(T), NEW t \in Seq(T), NEW l, InOrder(s \o t, l)
  PROVE  InOrder(s, l)
<1>1. ASSUME NEW k \in 1..Len(s), s[k].cmd = "media"
      PROVE  \E n \in 0..N-1 : Precedes(s, k, n, l) /\ s[k].arg = (n + 1) % N
  <2>1. k \in DOMAIN (s \o t) /\ (s \o t)[k] = s[k] /\ \A i \in 1..k-1 : s[i] = (s \o t)[i]
    BY ConcatAt
  <2>2. PICK n \in 0..N-1 : Precedes(s \o t, k, n, l) /\ s[k].arg = (n + 1) % N
    BY <1>1, <2>1 DEF InOrder
  <2>3. Precedes(s, k, n, l)
    <3>1. k \in Nat /\ Precedes(s \o t, k, n, l)
      BY <2>2
    <3> QED  BY <2>1, <3>1, PrecedesSame
  <2> QED  BY <2>2, <2>3
<1> QED  BY <1>1, ConcatAt DEF InOrder

LEMMA OrderAppend ==
  ASSUME NEW T, NEW s \in Seq(T), NEW m \in T, NEW l, NEW n \in 0..N-1,
         InOrder(s, l), Precedes(s, Len(s) + 1, n, l),
         m.cmd = "media" => m.arg = (n + 1) % N
  PROVE  /\ InOrder(Append(s, m), l)
         /\ Precedes(Append(s, m), Len(s) + 2, IF m.cmd = "media" THEN m.arg ELSE n, l)
<1> DEFINE a == Append(s, m)
<1>0. /\ Len(s) \in Nat /\ DOMAIN a = 1..Len(s)+1 /\ DOMAIN s = 1..Len(s)
      /\ a[Len(s)+1] = m /\ \A i \in 1..Len(s) : a[i] = s[i]
  BY AppendAt
<1> HIDE DEF a
<1>1. \A k \in 1..Len(s)+1 : \A x : Precedes(s, k, x, l) => Precedes(a, k, x, l)
  <2> SUFFICES ASSUME NEW k \in 1..Len(s)+1, NEW x, Precedes(s, k, x, l) PROVE Precedes(a, k, x, l)
    OBVIOUS
  <2>1. k \in Nat /\ \A i \in 1..k-1 : a[i] = s[i]
    BY <1>0
  <2> QED  BY <2>1, PrecedesSame
<1>2. InOrder(a, l)
  <2>1. ASSUME NEW k \in 1..Len(s), a[k].cmd = "media"
        PROVE  \E x \in 0..N-1 : Precedes(a, k, x, l) /\ a[k].arg = (x + 1) % N
    <3>1. k \in DOMAIN s /\ a[k] = s[k] /\ k \in 1..Len(s)+1
      BY <1>0
    <3>2. PICK x \in 0..N-1 : Precedes(s, k, x, l) /\ s[k].arg = (x + 1) % N
      BY <2>1, <3>1 DEF InOrder
    <3> QED  BY <1>1, <3>1, <3>2
  <2>2. ASSUME m.cmd = "media"
        PROVE  \E x \in 0..N-1 : Precedes(a, Len(s) + 1, x, l) /\ m.arg = (x + 1) % N
    <3>1. Precedes(a, Len(s) + 1, n, l)
      BY <1>0, <1>1
    <3> QED  BY <2>2, <3>1
  <2>3. \A k \in 1..Len(s)+1 : k \in 1..Len(s) \/ k = Len(s) + 1
    BY <1>0
  <2> QED  BY <1>0, <2>1, <2>2, <2>3 DEF InOrder
<1>3. Precedes(a, Len(s) + 2, IF m.cmd = "media" THEN m.arg ELSE n, l)
  <2> DEFINE B == {i \in 1..(Len(s)+2)-1 : a[i].cmd = "media"}
             R == {i \in 1..(Len(s)+1)-1 : a[i].cmd = "media"}
  <2>1. CASE m.cmd = "media"
    <3>1. Len(s) + 1 \in B /\ \A i \in B : i <= Len(s) + 1
      BY <1>0, <2>1
    <3> QED  BY <1>0, <2>1, <3>1 DEF Precedes
  <2>2. CASE m.cmd # "media"
    <3>1. B = R
      <4>1. \A i \in 1..(Len(s)+2)-1 : i \in 1..(Len(s)+1)-1 \/ i = Len(s) + 1
        BY <1>0
      <4>2. \A i \in 1..(Len(s)+1)-1 : i \in 1..(Len(s)+2)-1
        BY <1>0
      <4> QED  BY <1>0, <2>2, <4>1, <4>2
    <3>2. Precedes(a, Len(s) + 1, n, l)
      BY <1>0, <1>1
    <3> QED  BY <2>2, <3>1, <3>2 DEF Precedes
  <2> QED  BY <2>1, <2>2
<1> QED  BY <1>2, <1>3 DEF a
-----------------------------------------------------------------------------
(***************************************************************************)
(* What reading and writing do to what is on its way.                      *)
(***************************************************************************)
Chans ==
  /\ net \in [Conns -> Seq(Messages)] /\ buf \in [Conns -> Seq(Messages)]
  /\ req \in Seq(Reqs)

LEMMA ArrivedType ==
  ASSUME Chans, NEW c \in Conns
  PROVE  Arrived(c) \in Seq(Messages)
BY ConcatProperties DEF Chans, Arrived

LEMMA TakeMoves ==
  ASSUME Chans, NEW c \in Conns, Take(c)
  PROVE  /\ Chans' /\ req' = req
         /\ Arrived(c) # <<>> /\ Arrived(c)' = Tail(Arrived(c))
         /\ \A d \in Conns \ {c} : Arrived(d)' = Arrived(d)
<1> DEFINE b == buf[c]
           s == net[c]
<1>0. b \in Seq(Messages) /\ s \in Seq(Messages) /\ Len(s) \in Nat
  BY DEF Chans
<1>1. CASE b # <<>>
  <2>1. buf' = [buf EXCEPT ![c] = Tail(b)] /\ net' = net /\ req' = req
    BY <1>1 DEF Take
  <2>2. Tail(b) \in Seq(Messages)
    BY <1>0, <1>1
  <2>3. Chans' /\ buf'[c] = Tail(b) /\ \A d \in Conns \ {c} : buf'[d] = buf[d]
    BY <2>1, <2>2 DEF Chans
  <2> HIDE DEF b, s
  <2>4. b \o s # <<>> /\ Tail(b \o s) = Tail(b) \o s
    <3>1. b \o s # <<>>
      BY <1>0, <1>1
    <3>2. Tail(b \o s) \in Seq(Messages) /\ Tail(b) \o s \in Seq(Messages)
      BY <1>0, <1>1, <2>2, <3>1, ConcatProperties, HeadTailProperties
    <3>3. Len(Tail(b \o s)) = Len(Tail(b) \o s)
      BY <1>0, <1>1, <2>2, <3>1
    <3>4. \A k \in 1..Len(Tail(b \o s)) : Tail(b \o s)[k] = (Tail(b) \o s)[k]
      BY <1>0, <1>1, <2>2, <3>1
    <3> QED  BY <3>2, <3>3, <3>4, SeqEqual
  <2> QED  BY <2>1, <2>3, <2>4 DEF Arrived, b, s
<1>2. CASE b = <<>>
  <2>1. PICK n \in 1..Len(s) :
          /\ buf' = [buf EXCEPT ![c] = SubSeq(s, 2, n)]
          /\ net' = [net EXCEPT ![c] = SubSeq(s, n + 1, Len(s))]
          /\ req' = req
    BY <1>2 DEF Take
  <2> DEFINE x == SubSeq(s, 2, n)
             y == SubSeq(s, n + 1, Len(s))
  <2>2. x \in Seq(Messages) /\ y \in Seq(Messages)
    <3> HIDE DEF s
    <3>1. \A i \in 1..Len(s) : s[i] \in Messages
      BY <1>0
    <3>2. n \in Int /\ n + 1 \in Int /\ Len(s) \in Int /\ 2 \in Int
      BY <1>0
    <3>3. (\A i \in 2..n : s[i] \in Messages) /\ \A i \in n+1..Len(s) : s[i] \in Messages
      BY <1>0, <3>1, <3>2
    <3> QED  BY <3>2, <3>3, SubSeqProperties
  <2>3. /\ Chans' /\ buf'[c] = x /\ net'[c] = y
        /\ \A d \in Conns \ {c} : buf'[d] = buf[d] /\ net'[d] = net[d]
    <3> HIDE DEF x, y
    <3> QED  BY <2>1, <2>2 DEF Chans, x, y
  <2>4. s # <<>> /\ x \o y = Tail(s)
    <3> HIDE DEF s
    <3>1. s # <<>>
      BY <1>0
    <3>2. 2 \in 1..Len(s)+1 /\ n \in 2-1..Len(s) /\ Len(s) \in n..Len(s)
      BY <1>0
    <3>3. x \o y = SubSeq(s, 2, Len(s))
      BY <1>0, <3>2, ConcatAdjacentSubSeq
    <3> QED  BY <1>0, <3>1, <3>3, TailIsSubSeq
  <2>5. b \o s = s
    BY <1>0, <1>2
  <2> HIDE DEF x, y, b, s
  <2> QED  BY <2>1, <2>3, <2>4, <2>5 DEF Arrived, b, s
<1> QED  BY <1>1, <1>2

LEMMA SendMoves ==
  ASSUME Chans, NEW rs \in Seq(Reqs), Send(rs)
  PROVE  /\ Chans' /\ req' \in {req, req \o rs}
         /\ \A c \in Conns : Arrived(c)' = Arrived(c)
<1>1. req' \in Seq(Reqs) /\ net' = net /\ buf' = buf /\ req' \in {req, req \o rs}
  BY ConcatProperties DEF Send, Chans
<1> QED  BY <1>1 DEF Chans, Arrived

LEMMA NothingMoves ==
  ASSUME Chans, UNCHANGED chanVars
  PROVE  Chans' /\ req' = req /\ \A c \in Conns : Arrived(c)' = Arrived(c)
BY DEF Chans, chanVars, Arrived

LEMMA SendsMoves ==
  ASSUME Chans, NEW c \in Conns, NEW m \in Messages, Sends(c, m), buf' = buf, req' \in Seq(Reqs)
  PROVE  /\ Chans' /\ Arrived(c)' = Append(Arrived(c), m)
         /\ \A d \in Conns \ {c} : Arrived(d)' = Arrived(d)
<1> DEFINE b == buf[c]
           s == net[c]
           t == Append(s, m)
<1>0. b \in Seq(Messages) /\ s \in Seq(Messages)
  BY DEF Chans
<1>1. t \in Seq(Messages) /\ net' = [net EXCEPT ![c] = t]
  BY <1>0, AppendProperties DEF Sends
<1>2. Chans' /\ net'[c] = t /\ \A d \in Conns \ {c} : net'[d] = net[d]
  <2> HIDE DEF t
  <2> QED  BY <1>1 DEF Chans
<1>3. b \o Append(s, m) = Append(b \o s, m)
  <2> HIDE DEF b, s
  <2>1. b \o Append(s, m) \in Seq(Messages) /\ Append(b \o s, m) \in Seq(Messages)
    BY <1>0, AppendProperties, ConcatProperties
  <2>2. Len(b \o Append(s, m)) = Len(Append(b \o s, m))
    BY <1>0
  <2>3. \A k \in 1..Len(b \o Append(s, m)) : (b \o Append(s, m))[k] = Append(b \o s, m)[k]
    BY <1>0
  <2> QED  BY <2>1, <2>2, <2>3, SeqEqual
<1> QED
  <2> HIDE DEF b, s
  <2> QED  BY <1>2, <1>3 DEF Arrived, b, s

(* A connection that is reset takes with it what was in the socket. *)
LEMMA CloseMoves ==
  ASSUME Chans, net' \in {net, [c \in Conns |-> <<>>]}, buf' = buf, req' = <<>>
  PROVE  /\ Chans'
         /\ \A c \in Conns :
              Arrived(c)' = Arrived(c) \/ (Arrived(c) = Arrived(c)' \o net[c] /\ net[c] \in Seq(Messages))
<1>1. CASE net' = net
  BY <1>1 DEF Chans, Arrived
<1>2. CASE net' = [c \in Conns |-> <<>>]
  <2>1. Chans'
    BY <1>2 DEF Chans
  <2>2. ASSUME NEW c \in Conns
        PROVE  Arrived(c)' = buf[c] /\ net[c] \in Seq(Messages)
    <3>1. buf[c] \in Seq(Messages) /\ net[c] \in Seq(Messages) /\ net'[c] = <<>>
      BY <1>2 DEF Chans
    <3>2. buf[c] \o <<>> = buf[c]
      BY <3>1
    <3> QED  BY <3>1, <3>2 DEF Arrived
  <2> QED  BY <2>1, <2>2 DEF Arrived
<1> QED  BY <1>1, <1>2
-----------------------------------------------------------------------------
(***************************************************************************)
(* What is on its way on the control connection.                           *)
(***************************************************************************)

(* But for what comes unasked, only these commands are on their way. *)
CalmIn(cs) ==
  /\ \A k \in DOMAIN req : req[k].cmd \in cs
  /\ \A k \in DOMAIN Arrived("ctrl") :
       Arrived("ctrl")[k] = Note \/ Arrived("ctrl")[k].cmd \in cs

(* The DVR has done what it says it has. *)
AlarmsReal ==
  \A k \in DOMAIN Arrived("ctrl") :
    Arrived("ctrl")[k].cmd = "alarm" => Arrived("ctrl")[k].arg \in enabled

(* What all steps but the sending of a request keep up. *)
Steady ==
  /\ \A cs \in SUBSET Commands : CalmIn(cs) => CalmIn(cs)'
  /\ \A c \in Commands \ {"note"} : (Once(c) => Once(c)') /\ (None(c) => None(c)')
  /\ AlarmsReal => AlarmsReal'

LEMMA RestIsSteady ==
  ASSUME req' = req, Arrived("ctrl")' = Arrived("ctrl"), enabled' = enabled
  PROVE  Steady
BY DEF Steady, CalmIn, Once, None, AlarmsReal

LEMMA TakeIsSteady ==
  ASSUME Chans, Take("ctrl"), enabled' = enabled
  PROVE  Steady /\ \A c : Once(c) /\ Head(Arrived("ctrl")).cmd = c => None(c)'
<1> DEFINE a == Arrived("ctrl")
<1>1. req' = req /\ a # <<>> /\ a' = Tail(a) /\ a \in Seq(Messages)
  BY TakeMoves, ArrivedType DEF Conns
<1> HIDE DEF a
<1>2. \A cs \in SUBSET Commands : CalmIn(cs) => CalmIn(cs)'
  BY <1>1, TailAt DEF CalmIn, a
<1>3. AlarmsReal => AlarmsReal'
  BY <1>1, TailAt DEF AlarmsReal, a
<1>4. ASSUME NEW c
      PROVE  /\ None(c) => None(c)'
             /\ Once(c) => Once(c)'
             /\ Once(c) /\ Head(a).cmd = c => None(c)'
  <2>1. /\ Absent(a, c) => Absent(Tail(a), c)
        /\ AtMostOne(a, c) => AtMostOne(Tail(a), c)
        /\ AtMostOne(a, c) /\ Head(a).cmd = c => Absent(Tail(a), c)
    BY <1>1, TailCounts
  <2>2. Head(a).cmd = c => ~Absent(a, c)
    BY <1>1, TailAt DEF Absent
  <2>3. Absent(req, c)' = Absent(req, c) /\ AtMostOne(req, c)' = AtMostOne(req, c)
    BY <1>1 DEF Absent, AtMostOne
  <2>4. Absent(a, c)' = Absent(Tail(a), c) /\ AtMostOne(a, c)' = AtMostOne(Tail(a), c)
    BY <1>1 DEF Absent, AtMostOne
  <2> QED  BY <2>1, <2>2, <2>3, <2>4 DEF None, Once, a
<1> QED  BY <1>2, <1>3, <1>4 DEF Steady, a

(* A request leaves the queue and, maybe, a reply with its command comes. *)
LEMMA AnswerIsSteady ==
  ASSUME Chans, DvrAnswers
  PROVE  /\ Steady /\ Chans' /\ enabled \subseteq enabled'
         /\ Arrived("stream")' = Arrived("stream")
<1> DEFINE a == Arrived("ctrl")
           r == Head(req)
<1>1. /\ req # <<>> /\ req' = Tail(req) /\ buf' = buf
      /\ enabled' = enabled \cup (IF r.cmd = "alarm" THEN {r.arg} ELSE {})
      /\ net' = net \/ \E g \in BOOLEAN : Sends("ctrl", Message(r.cmd, r.arg, g))
  BY DEF DvrAnswers
<1>2. req \in Seq(Reqs) /\ r \in Reqs /\ Tail(req) \in Seq(Reqs) /\ a \in Seq(Messages)
  BY <1>1, ArrivedType DEF Chans, Conns
<1> HIDE DEF r
<1>3. \A g \in BOOLEAN : Message(r.cmd, r.arg, g) \in Messages
  <2>1. r.cmd \in Commands /\ r.arg \in Nat
    <3>1. r.arg \in 0..255
      BY <1>2 DEF Reqs
    <3>2. r.cmd \in Commands
      BY <1>2 DEF Reqs
    <3> QED  BY <3>1, <3>2
  <2> QED  BY <2>1, MessageType
<1>4. CASE net' = net
  <2>1. a' = a /\ Chans' /\ Arrived("stream")' = Arrived("stream")
    BY <1>1, <1>2, <1>4 DEF Arrived, Chans
  <2> HIDE DEF a
  <2>2. \A cs \in SUBSET Commands : CalmIn(cs) => CalmIn(cs)'
    BY <1>1, <1>2, <2>1, TailAt DEF CalmIn, a
  <2>3. AlarmsReal => AlarmsReal'
    BY <1>1, <2>1 DEF AlarmsReal, a
  <2>4. ASSUME NEW c
        PROVE  (Once(c) => Once(c)') /\ (None(c) => None(c)')
    <3>1. /\ Absent(req, c) => Absent(req', c)
          /\ AtMostOne(req, c) => AtMostOne(req', c)
      BY <1>1, <1>2, TailCounts
    <3>2. Absent(a, c)' = Absent(a, c) /\ AtMostOne(a, c)' = AtMostOne(a, c)
      BY <2>1 DEF Absent, AtMostOne
    <3>3. Absent(req, c)' = Absent(req', c) /\ AtMostOne(req, c)' = AtMostOne(req', c)
      BY DEF Absent, AtMostOne
    <3> QED  BY <3>1, <3>2, <3>3 DEF None, Once, a
  <2> QED  BY <1>1, <2>1, <2>2, <2>3, <2>4 DEF Steady
<1>5. CASE \E g \in BOOLEAN : Sends("ctrl", Message(r.cmd, r.arg, g))
  <2>1. PICK g \in BOOLEAN : Sends("ctrl", Message(r.cmd, r.arg, g))
    BY <1>5
  <2> DEFINE m == Message(r.cmd, r.arg, g)
  <2>2. m \in Messages /\ m.cmd = r.cmd /\ m.arg = r.arg
    BY <1>3 DEF Message
  <2> HIDE DEF m
  <2>3. a' = Append(a, m) /\ Chans' /\ Arrived("stream")' = Arrived("stream")
    <3>1. Sends("ctrl", m) /\ buf' = buf /\ req' \in Seq(Reqs)
      BY <1>1, <1>2, <2>1 DEF m
    <3> QED  BY <2>2, <3>1, SendsMoves DEF Conns
  <2> HIDE DEF a
  <2>4. req[1] = r /\ DOMAIN req = 1..Len(req) /\ 1 \in DOMAIN req
    BY <1>1, <1>2 DEF r
  <2>5. ASSUME NEW cs \in SUBSET Commands, CalmIn(cs) PROVE CalmIn(cs)'
    <3>1. \A k \in DOMAIN req' : req'[k].cmd \in cs
      BY <1>1, <1>2, <2>5, TailAt DEF CalmIn
    <3>2. r.cmd \in cs
      BY <2>4, <2>5 DEF CalmIn
    <3>3. \A k \in DOMAIN a' : a'[k] = Note \/ a'[k].cmd \in cs
      <4>1. \A k \in 1..Len(a) : a[k] = Note \/ a[k].cmd \in cs
        BY <1>2, <2>5, AppendAt DEF CalmIn, a
      <4>2. \A k \in 1..Len(a)+1 : k \in 1..Len(a) \/ k = Len(a) + 1
        BY <1>2
      <4> QED  BY <1>2, <2>2, <2>3, <3>2, <4>1, <4>2, AppendAt
    <3> QED  BY <3>1, <3>3 DEF CalmIn, a
  <2>6. ASSUME AlarmsReal PROVE AlarmsReal'
    <3>1. \A k \in 1..Len(a) : a[k].cmd = "alarm" => a[k].arg \in enabled
      BY <1>2, <2>6, AppendAt DEF AlarmsReal, a
    <3>2. \A k \in 1..Len(a)+1 : k \in 1..Len(a) \/ k = Len(a) + 1
      BY <1>2
    <3>3. m.cmd = "alarm" => m.arg \in enabled'
      BY <1>1, <2>2
    <3>4. \A k \in 1..Len(a)+1 : a'[k].cmd = "alarm" => a'[k].arg \in enabled'
      BY <1>1, <1>2, <2>2, <2>3, <3>1, <3>2, <3>3, AppendAt
    <3>5. DOMAIN a' = 1..Len(a)+1
      BY <1>2, <2>2, <2>3, AppendAt
    <3> QED  BY <3>4, <3>5 DEF AlarmsReal, a
  <2>7. ASSUME NEW c
        PROVE  (Once(c) => Once(c)') /\ (None(c) => None(c)')
    <3>1. /\ Absent(req, c) => Absent(Tail(req), c)
          /\ AtMostOne(req, c) => AtMostOne(Tail(req), c)
          /\ AtMostOne(req, c) /\ r.cmd = c => Absent(Tail(req), c)
      BY <1>1, <1>2, TailCounts DEF r
    <3>2. /\ Absent(a, c) /\ m.cmd # c => Absent(Append(a, m), c)
          /\ AtMostOne(a, c) /\ m.cmd # c => AtMostOne(Append(a, m), c)
          /\ Absent(a, c) => AtMostOne(Append(a, m), c)
      BY <1>2, <2>2, AppendCounts
    <3>3. r.cmd = c => ~Absent(req, c)
      BY <2>4 DEF Absent
    <3>4. Absent(a, c)' = Absent(Append(a, m), c) /\ AtMostOne(a, c)' = AtMostOne(Append(a, m), c)
      BY <2>3 DEF Absent, AtMostOne
    <3>5. Absent(req, c)' = Absent(Tail(req), c) /\ AtMostOne(req, c)' = AtMostOne(Tail(req), c)
      BY <1>1 DEF Absent, AtMostOne
    <3>6. None(c) => None(c)'
      BY <2>2, <3>1, <3>2, <3>3, <3>4, <3>5 DEF None, a
    <3>7. Once(c) => Once(c)'
      BY <2>2, <3>1, <3>2, <3>3, <3>4, <3>5 DEF Once, a
    <3> QED  BY <3>6, <3>7
  <2> QED  BY <1>1, <2>3, <2>5, <2>6, <2>7 DEF Steady
<1> QED  BY <1>1, <1>4, <1>5

(* A message without a request, on one of the connections. *)
NoteOn(c) == DvrNote /\ Sends(c, Note)

LEMMA NoteIsSteady ==
  ASSUME Chans, NoteOn("ctrl")
  PROVE  Steady /\ Chans' /\ Arrived("stream")' = Arrived("stream")
<1> DEFINE a == Arrived("ctrl")
<1>1. Note \in Messages /\ Note.cmd = "note"
  BY DEF Note, Message, Messages, Commands, NoteType, HD
<1>2. req' = req /\ buf' = buf /\ enabled' = enabled /\ Sends("ctrl", Note)
  BY DEF NoteOn, DvrNote
<1>3. a' = Append(a, Note) /\ a \in Seq(Messages) /\ Chans' /\ Arrived("stream")' = Arrived("stream")
  BY <1>1, <1>2, SendsMoves, ArrivedType DEF Conns, Chans
<1> HIDE DEF a
<1>4. \A k \in 1..Len(a)+1 : k \in 1..Len(a) \/ k = Len(a) + 1
  BY <1>3
<1>5. /\ DOMAIN a = 1..Len(a) /\ DOMAIN a' = 1..Len(a)+1
      /\ \A k \in 1..Len(a)+1 : a'[k] = Note \/ (k \in 1..Len(a) /\ a'[k] = a[k])
  <2>1. /\ DOMAIN Append(a, Note) = 1..Len(a)+1 /\ DOMAIN a = 1..Len(a)
        /\ \A k \in 1..Len(a) : Append(a, Note)[k] = a[k]
        /\ Append(a, Note)[Len(a)+1] = Note
    BY <1>1, <1>3, AppendAt
  <2>2. ASSUME NEW k \in 1..Len(a)+1 PROVE a'[k] = Note \/ (k \in 1..Len(a) /\ a'[k] = a[k])
    <3>1. CASE k \in 1..Len(a)
      BY <1>3, <2>1, <3>1
    <3>2. CASE k = Len(a) + 1
      BY <1>3, <2>1, <3>2
    <3> QED  BY <1>4, <3>1, <3>2
  <2>3. DOMAIN a' = 1..Len(a)+1
    BY <1>3, <2>1
  <2> QED  BY <2>1, <2>2, <2>3
<1>6. \A cs \in SUBSET Commands : CalmIn(cs) => CalmIn(cs)'
  BY <1>2, <1>5 DEF CalmIn, a
<1>7. AlarmsReal => AlarmsReal'
  BY <1>1, <1>2, <1>5 DEF AlarmsReal, a
<1>8. ASSUME NEW c \in Commands \ {"note"}
      PROVE  (Once(c) => Once(c)') /\ (None(c) => None(c)')
  <2>1. /\ Absent(a, c) => Absent(Append(a, Note), c)
        /\ AtMostOne(a, c) => AtMostOne(Append(a, Note), c)
    BY <1>1, <1>3, AppendCounts
  <2>2. Absent(a, c)' = Absent(Append(a, Note), c) /\ AtMostOne(a, c)' = AtMostOne(Append(a, Note), c)
    BY <1>3 DEF Absent, AtMostOne
  <2>3. Absent(req, c)' = Absent(req, c) /\ AtMostOne(req, c)' = AtMostOne(req, c)
    BY <1>2 DEF Absent, AtMostOne
  <2> QED  BY <2>1, <2>2, <2>3 DEF None, Once, a
<1> QED  BY <1>3, <1>6, <1>7, <1>8 DEF Steady

LEMMA CloseIsSteady ==
  ASSUME Chans, DvrCloses
  PROVE  Steady /\ Chans'
<1> DEFINE a == Arrived("ctrl")
           z == net["ctrl"]
<1>1. /\ net' \in {net, [c \in Conns |-> <<>>]} /\ buf' = buf /\ req' = <<>> /\ enabled' = enabled
  BY DEF DvrCloses
<1>2. Chans' /\ (a' = a \/ (a = a' \o z /\ z \in Seq(Messages)))
  BY <1>1, CloseMoves DEF Conns
<1>3. a \in Seq(Messages) /\ a' \in Seq(Messages)
  <2>1. a \in Seq(Messages)
    BY ArrivedType DEF Conns
  <2>2. a' \in Seq(Messages)
    BY <1>2, ConcatProperties DEF Chans, Arrived, Conns
  <2> QED  BY <2>1, <2>2
<1> HIDE DEF a, z
<1>4. \A k \in DOMAIN a' : k \in DOMAIN a /\ a'[k] = a[k]
  <2>1. CASE a' = a
    BY <2>1
  <2>2. CASE a = a' \o z /\ z \in Seq(Messages)
    BY <1>3, <2>2, ConcatAt
  <2> QED  BY <1>2, <2>1, <2>2
<1>5. \A cs \in SUBSET Commands : CalmIn(cs) => CalmIn(cs)'
  BY <1>1, <1>4 DEF CalmIn, a
<1>6. AlarmsReal => AlarmsReal'
  BY <1>1, <1>4 DEF AlarmsReal, a
<1>7. ASSUME NEW c
      PROVE  (Once(c) => Once(c)') /\ (None(c) => None(c)')
  <2>1. /\ Absent(a, c) => Absent(a, c)'
        /\ AtMostOne(a, c) => AtMostOne(a, c)'
    BY <1>4 DEF Absent, AtMostOne
  <2>2. Absent(req, c)' /\ AtMostOne(req, c)'
    BY <1>1 DEF Absent, AtMostOne
  <2> QED  BY <2>1, <2>2 DEF None, Once, a
<1> QED  BY <1>2, <1>5, <1>6, <1>7 DEF Steady

(* Requests that leave, or are lost. *)
LEMMA SendKeeps ==
  ASSUME Chans, NEW rs \in Seq(Reqs), Send(rs)
  PROVE  /\ \A cs \in SUBSET Commands :
              CalmIn(cs) /\ (\A k \in DOMAIN rs : rs[k].cmd \in cs) => CalmIn(cs)'
         /\ \A c : None(c) /\ Absent(rs, c) => None(c)'
         /\ \A c : None(c) /\ AtMostOne(rs, c) => Once(c)'
         /\ enabled' = enabled => (AlarmsReal => AlarmsReal')
<1> DEFINE a == Arrived("ctrl")
<1>1. req' \in {req, req \o rs} /\ a' = a /\ req \in Seq(Reqs)
  BY SendMoves DEF Conns, Chans
<1> HIDE DEF a
<1>2. ASSUME NEW cs \in SUBSET Commands, CalmIn(cs), \A k \in DOMAIN rs : rs[k].cmd \in cs PROVE CalmIn(cs)'
  <2>1. \A k \in DOMAIN req' : req'[k].cmd \in cs
    <3>1. CASE req' = req
      BY <1>2, <3>1 DEF CalmIn
    <3>2. CASE req' = req \o rs
      BY <1>1, <1>2, <3>2, ConcatAt DEF CalmIn
    <3> QED  BY <1>1, <3>1, <3>2
  <2> QED  BY <1>1, <1>2, <2>1 DEF CalmIn, a
<1>3. ASSUME NEW c, None(c)
      PROVE  (Absent(rs, c) => None(c)') /\ (AtMostOne(rs, c) => Once(c)')
  <2>1. Absent(req, c) /\ Absent(a, c)
    BY <1>3 DEF None, a
  <2>2. Absent(a, c)' /\ AtMostOne(a, c)'
    BY <1>1, <2>1 DEF Absent, AtMostOne
  <2>3. AtMostOne(req, c)
    BY <2>1 DEF Absent, AtMostOne
  <2>4. (Absent(rs, c) => Absent(req', c)) /\ (AtMostOne(rs, c) => AtMostOne(req', c))
    <3>1. Absent(rs, c) => Absent(req \o rs, c)
      BY <1>1, <2>1, ConcatCounts
    <3>2. AtMostOne(rs, c) => AtMostOne(req \o rs, c)
      BY <1>1, <2>1, ConcatCounts
    <3> QED  BY <1>1, <2>1, <2>3, <3>1, <3>2
  <2>5. Absent(req, c)' = Absent(req', c) /\ AtMostOne(req, c)' = AtMostOne(req', c)
    BY DEF Absent, AtMostOne
  <2> QED  BY <2>2, <2>4, <2>5 DEF None, Once, a
<1>4. enabled' = enabled => (AlarmsReal => AlarmsReal')
  BY <1>1 DEF AlarmsReal, a
<1> QED  BY <1>2, <1>3, <1>4
-----------------------------------------------------------------------------
(***************************************************************************)
(* The inductive invariant.                                                *)
(***************************************************************************)
Pcs == Awaiting \cup {"connect", "open", "collect", "logout", "bye", "nop", "tie", "request",
                      "wait", "media", "control", "keepalive", "timeout", "ended"}

StateType ==
  /\ opt \in Options
  /\ closed \in BOOLEAN /\ tied \in {"no", "asked", "answered"}
  /\ playing \in BOOLEAN /\ synced \in BOOLEAN
  /\ pc \in Pcs
  /\ step \in 1..Len(Script) + 1
  /\ due \in [ka : BOOLEAN, to : BOOLEAN]
  /\ ret \in {-1, 0, 1, 2, 3, 4, 6, 7, 8, 9, 105}
  /\ (ret # -1) = (pc = "ended")
  /\ pc = "answer" => opt.dialect = 1 /\ step <= Len(Script)

(* Frames are on their way one by one, and the DVR goes on behind them. *)
Stream ==
  /\ sent \in 0..N-1 /\ last \in 0..N-1
  /\ MediaInOrder
  /\ pc # "ended" /\ ~closed =>
       Precedes(Arrived("stream"), Len(Arrived("stream")) + 1, sent, last)

Info ==
  /\ \A f \in Fields : devinfo[f] \in Messages \cup {Nothing} /\ devinfo[f].good
  /\ InfoIsOwn

Alarms == AlarmsReal /\ AlarmConfirmed

Quiet == {"tie", "request", "first", "wait", "media", "frame", "control", "keepalive", "timeout"}

(* What may be on its way depends on where the process is, and behind      *)
(* open_session() on whether that saw the reply to its NOP.                *)
Phases ==
  /\ pc = "connect" => CalmIn({})
  /\ pc = "login" => CalmIn({"login"}) /\ Once("login")
  /\ pc = "open" /\ opt.dialect = 0 => CalmIn({})
  /\ pc = "collect" => CalmIn({"status", "info"}) /\ Once("status")
  /\ pc \in {"connect", "login", "open", "collect", "answer"} => ~synced
  /\ synced /\ pc \in Quiet => None("status")
  /\ synced /\ pc = "alive" => Once("status")

IInv == Chans /\ StateType /\ Stream /\ Info /\ Alarms /\ Phases

-----------------------------------------------------------------------------
(***************************************************************************)
(* What suffices for the parts of the invariant.                           *)
(***************************************************************************)

(* The stream as it was. *)
LEMMA StreamRests ==
  ASSUME Stream, Arrived("stream")' = Arrived("stream"), UNCHANGED <<sent, last, closed>>, pc # "ended"
  PROVE  Stream'
BY DEF Stream, MediaInOrder, InOrder, Precedes

(* A session that has ended has nothing to say of the stream. *)
LEMMA StreamEnds ==
  ASSUME Stream, UNCHANGED <<sent, last>>, pc' = "ended"
  PROVE  Stream'
BY DEF Stream, MediaInOrder

(* Its head taken, and written if it is a frame. *)
LEMMA StreamTaken ==
  ASSUME Chans, Stream, Take("stream"), UNCHANGED <<sent, closed>>, pc # "ended",
         last' = After(Arrived("stream"), last)
  PROVE  Stream'
<1> DEFINE s == Arrived("stream")
<1>1. s \in Seq(Messages) /\ s # <<>> /\ s' = Tail(s)
  BY TakeMoves, ArrivedType DEF Conns
<1>2. InOrder(s, last) /\ (~closed => Precedes(s, Len(s) + 1, sent, last))
  BY DEF Stream, MediaInOrder
<1> HIDE DEF s
<1>3. last' \in 0..N-1
  <2>1. CASE s[1].cmd = "media"
    <3>1. 1 \in DOMAIN s
      BY <1>1, TailAt
    <3>2. PICK n \in 0..N-1 : s[1].arg = (n + 1) % N
      BY <1>2, <2>1, <3>1 DEF InOrder
    <3>3. N \in Nat \ {0} /\ n + 1 \in Nat
      BY BoundsType
    <3>4. (n + 1) % N \in 0..N-1
      BY <3>3
    <3> QED  BY <1>1, <2>1, <3>2, <3>4, TailAt DEF After, s
  <2>2. CASE s[1].cmd # "media"
    BY <1>1, <2>2, TailAt DEF After, s, Stream
  <2> QED  BY <2>1, <2>2
<1>4. InOrder(Tail(s), last')
  BY <1>1, <1>2, OrderTail DEF s
<1>5. ~closed => Precedes(Tail(s), Len(Tail(s)) + 1, sent, last')
  <2>1. Len(s) \in 1..Len(s) /\ Len(Tail(s)) + 1 = Len(s)
    BY <1>1, TailAt
  <2> QED  BY <1>1, <1>2, <2>1, PrecedesTail DEF s
<1>6. InOrder(s, last)'
  BY <1>1, <1>4 DEF InOrder, Precedes
<1>7. ~closed' => Precedes(s, Len(s) + 1, sent, last)'
  BY <1>1, <1>5 DEF Precedes
<1>8. sent' \in 0..N-1
  BY DEF Stream
<1> QED  BY <1>3, <1>6, <1>7, <1>8 DEF Stream, MediaInOrder, s

LEMMA PhasesKept ==
  ASSUME Phases, Steady, UNCHANGED <<opt, synced>>,
         pc' = pc \/ (pc \in Quiet /\ pc' \in Quiet)
  PROVE  Phases'
<1>1. /\ \A cs \in {{}, {"login"}, {"status", "info"}} : CalmIn(cs) => CalmIn(cs)'
      /\ \A c \in {"login", "status"} : (Once(c) => Once(c)') /\ (None(c) => None(c)')
  BY DEF Steady, Commands
<1>2. CASE pc' = pc
  BY <1>1, <1>2 DEF Phases
<1>3. CASE pc \in Quiet /\ pc' \in Quiet
  BY <1>1, <1>3 DEF Phases, Quiet
<1> QED  BY <1>2, <1>3

(* Where nothing is claimed of what is on its way. *)
LEMMA PhasesFree ==
  ASSUME synced' = synced, opt' = opt,
         \/ pc' \in {"logout", "bye", "nop", "ended"}
         \/ ~synced /\ pc' \in {"tie", "answer"}
         \/ ~synced /\ pc' = "open" /\ opt.dialect # 0
  PROVE  Phases'
BY DEF Phases, Quiet

(* No information comes in, and no alarm. *)
LEMMA InfoKept ==
  ASSUME Info, devinfo' = devinfo
  PROVE  Info'
BY DEF Info, InfoIsOwn

LEMMA AlarmsKept ==
  ASSUME Alarms, AlarmsReal => AlarmsReal', enabled \subseteq enabled', alarms' = alarms
  PROVE  Alarms'
BY DEF Alarms, AlarmConfirmed

(* A message is stored in the fields of its type only. *)
LEMMA StoredInfo ==
  ASSUME Info, NEW m \in Messages, m.good, m = Note \/ m.cmd = "info", Stored(m)
  PROVE  Info'
<1>1. ASSUME NEW f \in Fields
      PROVE  /\ devinfo'[f] = devinfo[f] \/ (devinfo'[f] = m /\ f \in FieldsOf(m.arg))
  BY DEF Stored
<1>2. ASSUME NEW f \in Fields \ {HD, 19, 20}, f \in FieldsOf(m.arg)
      PROVE  m = Message("info", f, TRUE)
  <2>1. m.arg = f
    BY <1>2 DEF FieldsOf
  <2>2. m.cmd = "info"
    BY <1>2, <2>1 DEF Note, Message, NoteType
  <2>3. m = [cmd |-> m.cmd, arg |-> m.arg, good |-> m.good] /\ m.good \in BOOLEAN
    BY DEF Messages
  <2>4. m.good = TRUE
    BY <2>3
  <2> QED  BY <2>1, <2>2, <2>3, <2>4, Zenon DEF Message
<1>3. \A f \in Fields : devinfo'[f] \in Messages \cup {Nothing} /\ devinfo'[f].good
  BY <1>1 DEF Info
<1>4. \A f \in Fields \ {HD, 19, 20} : devinfo'[f] \in {Nothing, Message("info", f, TRUE)}
  BY <1>1, <1>2 DEF Info, InfoIsOwn
<1> QED  BY <1>3, <1>4 DEF Info, InfoIsOwn

(* A timer that runs out, or is started again, is still a timer. *)
LEMMA DueKept ==
  ASSUME due \in [ka : BOOLEAN, to : BOOLEAN]
  PROVE  \A v \in BOOLEAN : /\ [due EXCEPT !.ka = v] \in [ka : BOOLEAN, to : BOOLEAN]
                            /\ [due EXCEPT !.to = v] \in [ka : BOOLEAN, to : BOOLEAN]
OBVIOUS

LEMMA DueMoved ==
  ASSUME StateType,
         \/ due' = due
         \/ \E v \in BOOLEAN : due' = [due EXCEPT !.ka = v] \/ due' = [due EXCEPT !.to = v]
  PROVE  due' \in [ka : BOOLEAN, to : BOOLEAN]
<1>1. due \in [ka : BOOLEAN, to : BOOLEAN]
  BY DEF StateType
<1> QED  BY ONLY <1>1, DueKept, \/ due' = due
                                \/ \E v \in BOOLEAN : \/ due' = [due EXCEPT !.ka = v]
                                                      \/ due' = [due EXCEPT !.to = v]
-----------------------------------------------------------------------------
(***************************************************************************)
(* Every step keeps the invariant up.                                      *)
(***************************************************************************)
LEMMA NextState ==
  ASSUME StateType, [Next]_vars
  PROVE  StateType'
<1> USE BoundsType DEF StateType, Pcs, Awaiting, Goto, End
<1>0. Len(Script) \in Nat /\ opt.dialect \in {0, 1}
  BY SessionAssumption
<1>1. CASE Connect \/ Login
  BY <1>1 DEF Connect, Login, dvrVars, dataVars
<1>2. CASE AskAll
  BY <1>2 DEF AskAll, Opened, dvrVars, dataVars
<1>3. CASE Ask
  BY <1>0, <1>3, SMTT(60) DEF Ask, Opened, dvrVars, dataVars
<1>4. CASE Answer
  BY <1>0, <1>4 DEF Answer, dvrVars
<1>5. CASE Logout \/ Bye
  BY <1>5 DEF Logout, Bye, dvrVars, dataVars
<1>6. CASE Tie
  BY <1>6 DEF Tie, dataVars
<1>7. CASE MediaRequest
  BY <1>7 DEF MediaRequest, dvrVars, dataVars
<1>8. CASE FirstFrame
  <2>1. due' \in [ka : BOOLEAN, to : BOOLEAN]
    BY <1>8 DEF FirstFrame
  <2> QED  BY <1>8, <2>1 DEF FirstFrame, Collected, dvrVars, dataVars
<1>9. CASE Discard
  BY <1>9 DEF Discard, dvrVars, dataVars, procVars
<1>10. CASE Wait \/ Control \/ KeepAlive \/ Timeout
  BY <1>10 DEF Wait, Control, KeepAlive, Timeout, dvrVars, dataVars
<1>11. CASE Media
  <2>1. due' = due \/ due' = [due EXCEPT !.to = FALSE]
    BY ONLY <1>11 DEF Media
  <2>2. due' \in [ka : BOOLEAN, to : BOOLEAN]
    BY ONLY <2>1, StateType, DueMoved
  <2> QED  BY <1>11, <2>2 DEF Media, dvrVars, dataVars
<1>12. CASE Frame
  BY <1>12 DEF Frame, Collected, dvrVars, dataVars
<1>13. CASE Alive
  <2>1. due' = [due EXCEPT !.ka = FALSE] \/ due' = due
    BY ONLY <1>13 DEF Alive
  <2>2. due' \in [ka : BOOLEAN, to : BOOLEAN]
    BY ONLY <2>1, StateType, DueMoved
  <2> QED  BY <1>13, <2>2 DEF Alive, dvrVars, dataVars
<1>14. CASE KaExpires \/ ToExpires
  <2>1. due' = [due EXCEPT !.ka = TRUE] \/ due' = [due EXCEPT !.to = TRUE]
    BY ONLY <1>14 DEF KaExpires, ToExpires
  <2>2. due' \in [ka : BOOLEAN, to : BOOLEAN]
    BY ONLY <2>1, StateType, DueMoved
  <2> QED  BY <1>14, <2>2 DEF KaExpires, ToExpires, dvrVars, dataVars
<1>15. CASE DvrAnswers
  BY <1>15 DEF DvrAnswers, procVars, dataVars
<1>16. CASE DvrTies \/ DvrMedia \/ DvrCloses
  <2>1. closed' \in BOOLEAN /\ playing' = playing
    BY <1>16 DEF DvrTies, DvrMedia, DvrCloses
  <2>2. tied' \in {tied, "answered"} /\ UNCHANGED <<opt, synced, pc, step, due, ret>>
    BY <1>16 DEF DvrTies, DvrMedia, DvrCloses, procVars, dataVars
  <2> QED  BY <2>1, <2>2
<1>17. CASE DvrNote
  BY <1>17 DEF DvrNote, procVars, dataVars
<1>18. CASE Collect
  <2>1. synced' \in BOOLEAN
    BY <1>18 DEF Collect
  <2>2. /\ pc' \in {"collect", "logout", "tie"} /\ ret' = ret /\ pc = "collect"
        /\ UNCHANGED <<opt, closed, tied, playing, step, due>>
    BY <1>18 DEF Collect, Opened, dvrVars
  <2> QED  BY <2>1, <2>2
<1>19. CASE UNCHANGED vars
  BY <1>19 DEF vars, dvrVars, procVars, dataVars
<1> QED
  BY <1>1, <1>2, <1>3, <1>4, <1>5, <1>6, <1>7, <1>8, <1>9, <1>10, <1>11, <1>12, <1>13,
     <1>14, <1>15, <1>16, <1>17, <1>18, <1>19 DEF Next, Process, Dvr

(* A step that leaves the stream alone, and of the control connection      *)
(* takes a message at most.                                                *)
LEMMA CtrlSteps ==
  ASSUME IInv, UNCHANGED chanVars \/ Take("ctrl"), UNCHANGED <<closed, sent, enabled, last>>, pc # "ended"
  PROVE  Chans' /\ Stream' /\ Steady
<1>1. Chans' /\ Arrived("stream")' = Arrived("stream")
  BY NothingMoves, TakeMoves DEF IInv, Conns
<1>2. Steady
  <2>1. CASE UNCHANGED chanVars
    BY <2>1, NothingMoves, RestIsSteady DEF IInv, Conns
  <2>2. CASE Take("ctrl")
    BY <2>2, TakeIsSteady DEF IInv
  <2> QED  BY <2>1, <2>2
<1>3. Stream'
  BY <1>1, StreamRests DEF IInv
<1> QED  BY <1>1, <1>2, <1>3

(* Waiting, time, and what the loop decides. *)
LEMMA LoopSteps ==
  ASSUME IInv, Wait \/ Media \/ Control \/ Timeout \/ KaExpires \/ ToExpires
  PROVE  IInv'
<1>1. /\ UNCHANGED chanVars \/ Take("ctrl")
      /\ UNCHANGED <<opt, dvrVars, synced, devinfo, alarms, last>> /\ pc # "ended"
      /\ pc' = pc \/ (pc \in Quiet /\ pc' \in Quiet) \/ pc' = "ended"
  <2>1. CASE Wait \/ Media \/ Timeout
    BY <2>1 DEF Wait, Media, Timeout, Goto, End, dataVars, Quiet
  <2>2. CASE Control
    BY <2>2 DEF Control, Goto, End, dataVars, Quiet, ReadFails
  <2>3. CASE KaExpires \/ ToExpires
    BY <2>3 DEF KaExpires, ToExpires, InLoop, dataVars
  <2> QED  BY <2>1, <2>2, <2>3
<1>2. Chans' /\ Stream' /\ Steady
  BY <1>1, CtrlSteps DEF dvrVars
<1>3. Phases'
  BY <1>1, <1>2, PhasesKept, PhasesFree DEF IInv
<1>4. Info' /\ Alarms'
  BY <1>1, <1>2, InfoKept, AlarmsKept DEF IInv, Steady, dvrVars
<1>5. StateType'
  BY NextState DEF IInv, Next, Process
<1> QED  BY <1>2, <1>3, <1>4, <1>5 DEF IInv

(* A step that may send requests. *)
LEMMA SendSteps ==
  ASSUME IInv, NEW rs \in Seq(Reqs), UNCHANGED chanVars \/ Send(rs),
         UNCHANGED <<opt, closed, sent, enabled, synced, devinfo, alarms, last>>, pc # "ended"
  PROVE  Chans' /\ Stream' /\ Info' /\ Alarms'
<1>1. /\ Chans' /\ Arrived("stream")' = Arrived("stream")
      /\ AlarmsReal => AlarmsReal'
  <2>1. CASE UNCHANGED chanVars
    BY <2>1, NothingMoves, RestIsSteady DEF IInv, Conns, Steady
  <2>2. CASE Send(rs)
    BY <2>2, SendMoves, SendKeeps DEF IInv, Conns
  <2> QED  BY <2>1, <2>2
<1>2. Stream'
  BY <1>1, StreamRests DEF IInv
<1>3. Info' /\ Alarms'
  BY <1>1, InfoKept, AlarmsKept DEF IInv
<1> QED  BY <1>1, <1>2, <1>3

LEMMA SingleRequest ==
  ASSUME NEW r \in Reqs
  PROVE  /\ <<r>> \in Seq(Reqs) /\ \A k \in DOMAIN <<r>> : <<r>>[k] = r
         /\ \A c : (r.cmd # c => Absent(<<r>>, c)) /\ AtMostOne(<<r>>, c)
<1>1. <<r>> \in Seq(Reqs) /\ DOMAIN <<r>> = {1} /\ <<r>>[1] = r
  OBVIOUS
<1> QED  BY <1>1, Zenon DEF Absent, AtMostOne

(* The queries of AskAll, with the one NOP that tells the end. *)
LEMMA AllQueries ==
  LET rs == [k \in DOMAIN Infos |-> Query(Infos[k])] \o <<Status>> IN
    /\ rs \in Seq(Reqs) /\ AtMostOne(rs, "status")
    /\ \A k \in DOMAIN rs : rs[k].cmd \in {"status", "info"}
<1> DEFINE q == [k \in DOMAIN Infos |-> Query(Infos[k])]
<1>1. Infos \in Seq(0..255) /\ DOMAIN Infos = 1..Len(Infos) /\ Len(Infos) \in Nat
  BY BoundsType
<1>2. \A k \in 1..Len(Infos) : Query(Infos[k]) \in Reqs /\ Query(Infos[k]).cmd = "info"
  <2>1. ASSUME NEW k \in 1..Len(Infos) PROVE Query(Infos[k]) \in Reqs
    <3>1. Infos[k] \in 0..255
      BY <1>1, ElementOfSeq
    <3>2. "info" \in Commands
      BY DEF Commands
    <3> QED  BY <3>1, <3>2, RequestType DEF Query
  <2> QED  BY <2>1 DEF Query, Request
<1>3. q \in Seq(Reqs) /\ DOMAIN q = 1..Len(Infos) /\ \A k \in DOMAIN q : q[k].cmd = "info"
  <2>1. q \in [1..Len(Infos) -> Reqs] /\ \A k \in 1..Len(Infos) : q[k] = Query(Infos[k])
    BY <1>1, <1>2
  <2> HIDE DEF q
  <2>2. q \in Seq(Reqs)
    BY <1>1, <2>1
  <2> QED  BY <1>2, <2>1, <2>2
<1> HIDE DEF q
<1>4. Status \in Reqs /\ Status.cmd = "status"
  BY DEF Status, Request, Reqs, Commands
<1>5. <<Status>> \in Seq(Reqs) /\ Len(<<Status>>) = 1 /\ <<Status>>[1] = Status /\ AtMostOne(<<Status>>, "status")
  BY <1>4, SingleRequest
<1>6. Absent(q, "status")
  BY <1>3 DEF Absent
<1>7. AtMostOne(q \o <<Status>>, "status")
  BY <1>3, <1>5, <1>6, ConcatCounts
<1>8. \A k \in DOMAIN (q \o <<Status>>) : (q \o <<Status>>)[k].cmd \in {"status", "info"}
  <2>1. \A k \in 1..Len(q) : (q \o <<Status>>)[k] = q[k] /\ k \in DOMAIN q
    BY <1>3, <1>5, ConcatAt
  <2>2. \A k \in 1..Len(q)+1 : k \notin 1..Len(q) => (q \o <<Status>>)[k] = Status
    <3>1. Len(q) \in Nat
      BY <1>3
    <3>2. \A k \in 1..Len(q)+1 : k \notin 1..Len(q) => k = Len(q) + 1
      BY <3>1
    <3>3. (q \o <<Status>>)[Len(q)+1] = Status
      BY <1>3, <1>5, <3>1
    <3> QED  BY <3>2, <3>3
  <2>3. DOMAIN (q \o <<Status>>) = 1..Len(q)+1
    BY <1>3, <1>5, ConcatAt
  <2> QED  BY <1>3, <1>4, <2>1, <2>2, <2>3
<1>9. q \o <<Status>> \in Seq(Reqs)
  BY <1>3, <1>5, ConcatProperties
<1> QED  BY <1>7, <1>8, <1>9 DEF q
(* Behind open_session() nothing is claimed but of NOPs and keep-alives.   *)
LEMMA OpenSteps ==
  ASSUME IInv, Connect \/ AskAll \/ Ask
  PROVE  IInv'
<1>0. /\ {} \in SUBSET Commands /\ {"login"} \in SUBSET Commands /\ {"status", "info"} \in SUBSET Commands
      /\ "login" \in Commands /\ "status" \in Commands
  BY DEF Commands
<1>1. CASE Connect
  <2> DEFINE rs == <<Request("login", 0)>>
  <2>1. /\ rs \in Seq(Reqs) /\ AtMostOne(rs, "login")
        /\ \A k \in DOMAIN rs : rs[k].cmd = "login"
    <3>1. Request("login", 0) \in Reqs
      BY <1>0, RequestType
    <3>2. Request("login", 0).cmd = "login"
      BY DEF Request
    <3> QED  BY <3>1, <3>2, SingleRequest
  <2>2. /\ UNCHANGED <<opt, closed, sent, enabled, synced, devinfo, alarms, last>> /\ pc = "connect"
        /\ \/ Send(rs) /\ pc' = "login"
           \/ UNCHANGED chanVars /\ pc' = "ended"
    BY <1>1 DEF Connect, Goto, End, dvrVars, dataVars
  <2> HIDE DEF rs
  <2>3. CalmIn({}) /\ ~synced
    BY <2>2 DEF IInv, Phases
  <2>4. Phases'
    <3>1. CASE Send(rs) /\ pc' = "login"
      <4>1. CalmIn({"login"}) /\ None("login")
        BY <2>3 DEF CalmIn, None, Absent, Note, Message
      <4>2. CalmIn({"login"})' /\ Once("login")'
        BY <1>0, <2>1, <3>1, <4>1, SendKeeps DEF IInv
      <4> QED  BY <2>2, <2>3, <3>1, <4>2 DEF Phases, Quiet
    <3>2. CASE pc' = "ended"
      BY <2>2, <3>2, PhasesFree
    <3> QED  BY <2>2, <3>1, <3>2
  <2> QED  BY <2>1, <2>2, <2>4, SendSteps, NextState DEF IInv, Next, Process
<1>2. CASE AskAll
  <2> DEFINE rs == [k \in DOMAIN Infos |-> Query(Infos[k])] \o <<Status>>
  <2>1. /\ rs \in Seq(Reqs) /\ AtMostOne(rs, "status")
        /\ \A k \in DOMAIN rs : rs[k].cmd \in {"status", "info"}
    BY AllQueries
  <2>2. /\ UNCHANGED <<opt, closed, sent, enabled, synced, devinfo, alarms, last>>
        /\ pc = "open" /\ opt.dialect = 0
        /\ \/ Send(rs) /\ pc' = "collect"
           \/ UNCHANGED chanVars /\ pc' \in {"logout", "tie"}
    BY <1>2 DEF AskAll, SendFails, Opened, Goto, End, dvrVars, dataVars
  <2> HIDE DEF rs
  <2>3. CalmIn({}) /\ ~synced
    BY <2>2 DEF IInv, Phases
  <2>4. Phases'
    <3>1. CASE Send(rs) /\ pc' = "collect"
      <4>1. CalmIn({"status", "info"}) /\ None("status")
        BY <2>3 DEF CalmIn, None, Absent, Note, Message
      <4>2. CalmIn({"status", "info"})' /\ Once("status")'
        BY <1>0, <2>1, <3>1, <4>1, SendKeeps DEF IInv
      <4> QED  BY <2>2, <2>3, <3>1, <4>2 DEF Phases, Quiet
    <3>2. CASE pc' \in {"logout", "tie"}
      BY <2>2, <2>3, <3>2, PhasesFree
    <3> QED  BY <2>2, <3>1, <3>2
  <2> QED  BY <2>1, <2>2, <2>4, SendSteps, NextState DEF IInv, Next, Process
<1>3. CASE Ask
  <2>1. /\ UNCHANGED <<opt, closed, sent, enabled, synced, devinfo, alarms, last>>
        /\ pc = "open" /\ opt.dialect = 1
        /\ pc' \in {"answer", "open", "logout", "tie"}
    BY <1>3 DEF Ask, Opened, Goto, dvrVars, dataVars
  <2>2. UNCHANGED chanVars \/ (step \in 1..Len(Script) /\ Send(<<Script[step]>>))
    <3>1. UNCHANGED chanVars \/ (step <= Len(Script) /\ Send(<<Script[step]>>))
      BY <1>3 DEF Ask, SendFails
    <3>2. step \in Nat \ {0} /\ Len(Script) \in Nat
      BY BoundsType DEF IInv, StateType
    <3> QED  BY <3>1, <3>2
  <2>3. PICK rs \in Seq(Reqs) : UNCHANGED chanVars \/ Send(rs)
    <3>1. CASE UNCHANGED chanVars
      <4>1. <<>> \in Seq(Reqs)
        OBVIOUS
      <4> QED  BY <3>1, <4>1
    <3>2. CASE step \in 1..Len(Script) /\ Send(<<Script[step]>>)
      <4>1. Script[step] \in Reqs
        BY <3>2, BoundsType
      <4>2. <<Script[step]>> \in Seq(Reqs)
        BY <4>1
      <4> QED  BY <3>2, <4>2
    <3> QED  BY <2>2, <3>1, <3>2
  <2>4. ~synced
    BY <2>1 DEF IInv, Phases
  <2>5. Phases'
    BY <2>1, <2>4, PhasesFree
  <2> QED  BY <2>1, <2>3, <2>5, SendSteps, NextState DEF IInv, Next, Process
<1> QED  BY <1>1, <1>2, <1>3

LEMMA RequestSteps ==
  ASSUME IInv, Logout \/ MediaRequest \/ KeepAlive
  PROVE  IInv'
<1>1. CASE Logout
  <2>1. <<Request("logout", 0), Status>> \in Seq(Reqs)
    <3>1. Request("logout", 0) \in Reqs /\ Status \in Reqs
      BY RequestType DEF Status, Commands
    <3> QED  BY <3>1
  <2>2. /\ UNCHANGED <<opt, closed, sent, enabled, synced, devinfo, alarms, last>>
        /\ pc = "logout" /\ pc' = "bye"
        /\ UNCHANGED chanVars \/ Send(<<Request("logout", 0), Status>>)
    BY <1>1 DEF Logout, SendFails, Goto, dvrVars, dataVars
  <2>3. Phases'
    BY <2>2, PhasesFree
  <2> QED  BY <2>1, <2>2, <2>3, SendSteps, NextState DEF IInv, Next, Process
<1>2. CASE MediaRequest
  <2> DEFINE rs == <<Request("media", 0)>>
  <2>1. rs \in Seq(Reqs) /\ Absent(rs, "status")
    <3>1. Request("media", 0) \in Reqs
      BY RequestType DEF Commands
    <3>2. Request("media", 0).cmd # "status"
      BY DEF Request
    <3> QED  BY <3>1, <3>2, SingleRequest
  <2>2. /\ UNCHANGED <<opt, closed, sent, enabled, synced, devinfo, alarms, last>> /\ pc = "request"
        /\ \/ Send(rs) /\ pc' = "first"
           \/ UNCHANGED chanVars /\ pc' = "ended"
    BY <1>2 DEF MediaRequest, SendFails, Goto, End, dvrVars, dataVars
  <2> HIDE DEF rs
  <2>3. Phases'
    <3>1. CASE Send(rs) /\ pc' = "first"
      <4>1. synced => None("status")'
        BY <2>1, <2>2, <3>1, SendKeeps DEF IInv, Phases, Quiet
      <4> QED  BY <2>2, <3>1, <4>1 DEF Phases
    <3>2. CASE pc' = "ended"
      BY <2>2, <3>2, PhasesFree
    <3> QED  BY <2>2, <3>1, <3>2
  <2> QED  BY <2>1, <2>2, <2>3, SendSteps, NextState DEF IInv, Next, Process
<1>3. CASE KeepAlive
  <2> DEFINE rs == <<Status>>
  <2>1. rs \in Seq(Reqs) /\ AtMostOne(rs, "status")
    <3>1. Status \in Reqs
      BY RequestType DEF Status, Commands
    <3> QED  BY <3>1, SingleRequest
  <2>2. /\ UNCHANGED <<opt, closed, sent, enabled, synced, devinfo, alarms, last>> /\ pc = "keepalive"
        /\ \/ Send(rs) /\ pc' = "alive"
           \/ UNCHANGED chanVars /\ pc' \in {"timeout", "ended"}
    BY <1>3 DEF KeepAlive, SendFails, Goto, End, dvrVars, dataVars
  <2> HIDE DEF rs
  <2>3. Phases'
    <3>1. CASE Send(rs) /\ pc' = "alive"
      <4>1. synced => Once("status")'
        BY <2>1, <2>2, <3>1, SendKeeps DEF IInv, Phases, Quiet
      <4> QED  BY <2>2, <3>1, <4>1 DEF Phases, Quiet
    <3>2. CASE UNCHANGED chanVars /\ pc' = "timeout"
      <4>1. Steady
        BY <2>2, <3>2, NothingMoves, RestIsSteady DEF IInv, Conns
      <4> QED  BY <2>2, <3>2, <4>1, PhasesKept DEF IInv, Quiet
    <3>3. CASE pc' = "ended"
      BY <2>2, <3>3, PhasesFree
    <3> QED  BY <2>2, <3>1, <3>2, <3>3
  <2> QED  BY <2>1, <2>2, <2>3, SendSteps, NextState DEF IInv, Next, Process
<1> QED  BY <1>1, <1>2, <1>3
(* The message that is waited for, on the connection it is waited for on.  *)
LEMMA Got ==
  ASSUME IInv, Received
  PROVE  /\ Conn \in Conns /\ Take(Conn)
         /\ Reply \in Messages /\ Reply = Arrived(Conn)[1] /\ 1 \in DOMAIN Arrived(Conn)
         /\ Reply.cmd = Awaited /\ (Reply.cmd = "alarm" => Reply.arg = Script[step].arg)
<1>1. Conn \in Conns
  BY DEF Conn, Conns
<1>2. Arrived(Conn) \in Seq(Messages) /\ Arrived(Conn) # <<>> /\ Take(Conn)
  BY <1>1, ArrivedType DEF IInv, Received
<1>3. IsAwaited(Reply)
  BY DEF Received
<1>4. Head(Arrived(Conn)) = Arrived(Conn)[1] /\ 1 \in DOMAIN Arrived(Conn) /\ Head(Arrived(Conn)) \in Messages
  <2> DEFINE a == Arrived(Conn)
  <2> HIDE DEF a
  <2>1. Head(a) = a[1] /\ 1 \in DOMAIN a /\ Head(a) \in Messages
    BY <1>2 DEF a
  <2> QED  BY <2>1 DEF a
<1> QED  BY <1>1, <1>2, <1>3, <1>4 DEF Reply, IsAwaited

LEMMA LoginStep ==
  ASSUME IInv, Login
  PROVE  IInv'
<1>0. {"login"} \in SUBSET Commands /\ {} \in SUBSET Commands
  BY DEF Commands
<1>1. /\ UNCHANGED <<opt, closed, sent, enabled, synced, devinfo, alarms, last>>
      /\ pc = "login" /\ Conn = "ctrl"
      /\ \/ UNCHANGED chanVars /\ pc' = "ended"
         \/ Received /\ pc' \in {"open", "ended"}
  BY DEF Login, ReadFails, Goto, End, dvrVars, dataVars, Conn
<1>2. UNCHANGED chanVars \/ Take("ctrl")
  BY <1>1, Got
<1>3. Chans' /\ Stream' /\ Steady
  BY <1>1, <1>2, CtrlSteps
<1>4. Phases'
  <2>1. CASE pc' = "ended"
    BY <1>1, <2>1, PhasesFree
  <2>2. CASE Received /\ pc' = "open"
    <3>1. CalmIn({"login"}) /\ Once("login") /\ ~synced
      BY <1>1 DEF IInv, Phases
    <3>2. Head(Arrived("ctrl")).cmd = "login" /\ Take("ctrl")
      BY <1>1, <2>2, Got DEF Reply, Awaited
    <3>3. None("login")'
      BY <1>1, <3>1, <3>2, TakeIsSteady DEF IInv
    <3>4. CalmIn({"login"})'
      BY <1>0, <1>3, <3>1 DEF Steady
    <3>5. CalmIn({})'
      BY <3>3, <3>4 DEF CalmIn, None, Absent
    <3> QED  BY <1>1, <2>2, <3>1, <3>5 DEF Phases, Quiet
  <2> QED  BY <1>1, <2>1, <2>2
<1>5. Info' /\ Alarms'
  BY <1>1, <1>3, InfoKept, AlarmsKept DEF IInv, Steady
<1> QED  BY <1>3, <1>4, <1>5, NextState DEF IInv, Next, Process

LEMMA CollectStep ==
  ASSUME IInv, Collect
  PROVE  IInv'
<1> DEFINE a == Arrived("ctrl")
           m == Head(a)
           fails == pc' \in {"logout", "tie"} /\ UNCHANGED <<synced, devinfo>>
           ends == m.cmd = "status" /\ pc' \in {"logout", "tie"} /\ UNCHANGED devinfo
           stores == m.good /\ m.cmd # "status" /\ Stored(m) /\ UNCHANGED <<synced, pc>>
<1>1. /\ UNCHANGED <<opt, closed, sent, enabled, alarms, last>> /\ pc = "collect"
      /\ \/ UNCHANGED chanVars /\ fails
         \/ Take("ctrl") /\ (fails \/ ends \/ stores)
  <2>1. UNCHANGED <<opt, closed, sent, enabled, alarms, last>> /\ pc = "collect"
    BY DEF Collect, dvrVars
  <2>2. CASE ReadFails("ctrl") /\ Opened /\ UNCHANGED <<devinfo, synced>>
    BY <2>1, <2>2 DEF ReadFails, Opened, Goto
  <2>3. CASE /\ Take("ctrl")
             /\ \/ ~m.good /\ Opened /\ UNCHANGED <<devinfo, synced>>
                \/ m.good /\ m.cmd = "status" /\ Opened /\ synced' = TRUE /\ UNCHANGED devinfo
                \/ m.good /\ m.cmd # "status" /\ Stored(m) /\ UNCHANGED <<pc, ret, synced>>
    BY <2>1, <2>3 DEF Opened, Goto
  <2> QED  BY <2>2, <2>3 DEF Collect
<1>2. Chans' /\ Stream' /\ Steady
  BY <1>1, CtrlSteps
<1>3. CalmIn({"status", "info"}) /\ Once("status") /\ ~synced
  BY <1>1 DEF IInv, Phases
<1>4. Phases' /\ Info'
  <2>1. CASE fails
    BY <1>1, <1>3, <2>1, PhasesFree, InfoKept DEF IInv
  <2>2. CASE Take("ctrl") /\ ends
    <3>1. None("status")'
      BY <1>1, <1>3, <2>2, TakeIsSteady DEF IInv
    <3> QED  BY <2>2, <3>1, InfoKept DEF IInv, Phases, Quiet
  <2>3. CASE Take("ctrl") /\ stores
    <3>1. Phases'
      BY <1>1, <1>2, <2>3, PhasesKept DEF IInv
    <3>2. a \in Seq(Messages) /\ a # <<>>
      BY <2>3, ArrivedType, TakeMoves DEF IInv, Conns
    <3>3. m \in Messages /\ (m = Note \/ m.cmd = "info")
      <4> HIDE DEF a
      <4>1. m \in Messages /\ m = a[1] /\ 1 \in DOMAIN a
        BY <3>2
      <4>2. a[1] = Note \/ a[1].cmd \in {"status", "info"}
        BY <1>3, <4>1 DEF CalmIn, a
      <4> QED  BY <2>3, <4>1, <4>2
    <3> HIDE DEF m
    <3> QED  BY <2>3, <3>1, <3>3, StoredInfo DEF IInv
  <2> QED  BY <1>1, <2>1, <2>2, <2>3
<1>5. Alarms'
  BY <1>1, <1>2, AlarmsKept DEF IInv, Steady
<1> QED  BY <1>2, <1>4, <1>5, NextState DEF IInv, Next, Process

(* hlp_set_alarm() returns 0 for what the DVR has enabled. *)
LEMMA AnswerStep ==
  ASSUME IInv, Answer
  PROVE  IInv'
<1>1. /\ UNCHANGED <<opt, closed, sent, enabled, synced, last>>
      /\ pc = "answer" /\ pc' = "open" /\ Conn = "ctrl"
      /\ \/ UNCHANGED <<chanVars, devinfo, alarms>>
         \/ /\ Received
            /\ IF Reply.cmd = "info" /\ Reply.good THEN Stored(Reply) ELSE UNCHANGED devinfo
            /\ alarms' = alarms \cup (IF Reply.cmd = "alarm" THEN {Script[step].arg} ELSE {})
  BY DEF Answer, ReadFails, Goto, dvrVars, Conn
<1>2. UNCHANGED chanVars \/ Take("ctrl")
  BY <1>1, Got
<1>3. Chans' /\ Stream' /\ Steady
  BY <1>1, <1>2, CtrlSteps
<1>4. Phases'
  <2>1. ~synced /\ opt.dialect # 0
    BY <1>1 DEF IInv, Phases, StateType
  <2> QED  BY <1>1, <2>1, PhasesFree
<1>5. Info'
  <2>1. CASE devinfo' = devinfo
    BY <2>1, InfoKept DEF IInv
  <2>2. CASE Received /\ Reply.cmd = "info" /\ Reply.good /\ Stored(Reply)
    <3>1. Reply \in Messages
      BY <2>2, Got
    <3> QED  BY <2>2, <3>1, StoredInfo DEF IInv
  <2> QED  BY <1>1, <2>1, <2>2
<1>6. Alarms'
  <2>1. AlarmsReal' /\ alarms \subseteq enabled /\ enabled' = enabled
    BY <1>1, <1>3 DEF IInv, Alarms, AlarmConfirmed, Steady
  <2>2. CASE alarms' = alarms
    BY <2>1, <2>2 DEF Alarms, AlarmConfirmed
  <2>3. CASE Received /\ Reply.cmd = "alarm" /\ alarms' = alarms \cup {Script[step].arg}
    <3>1. Reply.arg \in enabled
      BY <1>1, <2>3, Got DEF IInv, Alarms, AlarmsReal
    <3>2. Reply.arg = Script[step].arg
      BY <2>3, Got
    <3> QED  BY <2>1, <2>3, <3>1, <3>2 DEF Alarms, AlarmConfirmed
  <2> QED  BY <1>1, <2>2, <2>3
<1> QED  BY <1>3, <1>4, <1>5, <1>6, NextState DEF IInv, Next, Process

(* Steps that take a message of the control connection at most, and store  *)
(* nothing.                                                                *)
LEMMA CtrlReads ==
  ASSUME IInv, Bye \/ Alive \/ Tie
  PROVE  IInv'
<1>1. /\ UNCHANGED chanVars \/ Take("ctrl")
      /\ UNCHANGED <<opt, closed, sent, enabled, synced, devinfo, alarms, last>> /\ pc # "ended"
  <2>1. CASE Bye
    BY <2>1 DEF Bye, ReadFails, dvrVars, dataVars
  <2>2. CASE Alive
    <3>1. Conn = "ctrl"
      BY <2>2 DEF Alive, Conn
    <3> QED  BY <2>2, <3>1, Got DEF Alive, ReadFails, dvrVars, dataVars
  <2>3. CASE Tie
    BY <2>3 DEF Tie, dataVars
  <2> QED  BY <2>1, <2>2, <2>3
<1>2. Chans' /\ Stream' /\ Steady
  BY <1>1, CtrlSteps
<1>3. Phases'
  <2>1. CASE Bye
    <3>1. pc' \in {"nop", "ended"}
      BY <2>1 DEF Bye, Goto, End
    <3> QED  BY <1>1, <3>1, PhasesFree
  <2>2. CASE Alive
    <3>1. pc = "alive" /\ ((Received /\ pc' = "timeout") \/ pc' = "ended")
      BY <2>2 DEF Alive, Goto, End
    <3>2. CASE Received /\ pc' = "timeout"
      <4>1. Conn = "ctrl" /\ Awaited = "status"
        BY <3>1 DEF Conn, Awaited
      <4>2. Head(Arrived("ctrl")).cmd = "status" /\ Take("ctrl")
        BY <3>2, <4>1, Got DEF Reply
      <4>3. synced => None("status")'
        BY <1>1, <3>1, <4>2, TakeIsSteady DEF IInv, Phases
      <4> QED  BY <1>1, <3>2, <4>3 DEF Phases
    <3>3. CASE pc' = "ended"
      BY <1>1, <3>3, PhasesFree
    <3> QED  BY <3>1, <3>2, <3>3
  <2>3. CASE Tie
    <3>1. pc = "tie" /\ pc' \in {"request", "ended"}
      BY <2>3 DEF Tie, Goto, End
    <3> QED  BY <1>1, <1>2, <3>1, PhasesKept, PhasesFree DEF IInv, Quiet
  <2> QED  BY <2>1, <2>2, <2>3
<1>4. Info' /\ Alarms'
  BY <1>1, <1>2, InfoKept, AlarmsKept DEF IInv, Steady
<1> QED  BY <1>2, <1>3, <1>4, NextState DEF IInv, Next, Process

(* A step that takes a message of the stream leaves the other connection   *)
(* alone.                                                                  *)
LEMMA StreamTakeRests ==
  ASSUME IInv, Take("stream"), enabled' = enabled
  PROVE  Chans' /\ Steady
<1>1. Chans' /\ req' = req /\ Arrived("ctrl")' = Arrived("ctrl")
  BY TakeMoves DEF IInv, Conns
<1> QED  BY <1>1, RestIsSteady

(* A frame is written as it comes, or the session ends. *)
LEMMA FrameSteps ==
  ASSUME IInv, FirstFrame \/ Frame
  PROVE  IInv'
<1>1. PICK next \in {"wait", "control", "media"}, fails \in {3, 6} : Collected(next, fails)
  BY DEF FirstFrame, Frame
<1>2. /\ UNCHANGED <<opt, dvrVars, synced, devinfo, alarms>> /\ pc \in {"first", "frame"}
      /\ Conn = "stream" /\ Awaited = "media"
  BY DEF FirstFrame, Frame, dataVars, Conn, Awaited
<1>3. \/ Received /\ last' = Reply.arg /\ pc' \in Quiet
      \/ Received /\ last' = last /\ pc' = "ended"
      \/ UNCHANGED <<chanVars, last>> /\ pc' = "ended"
  BY <1>1 DEF Collected, ReadFails, Goto, End, Quiet
<1>4. Chans' /\ Steady /\ Stream' /\ Phases'
  <2>1. CASE Received /\ last' = Reply.arg /\ pc' \in Quiet
    <3>1. Take("stream") /\ last' = After(Arrived("stream"), last)
      BY <1>2, <2>1, Got DEF After, Reply
    <3>2. Chans' /\ Steady
      BY <1>2, <3>1, StreamTakeRests DEF dvrVars
    <3>3. Stream'
      BY <1>2, <3>1, StreamTaken DEF IInv, dvrVars
    <3>4. Phases'
      BY <1>2, <2>1, <3>2, PhasesKept DEF IInv, Quiet
    <3> QED  BY <3>2, <3>3, <3>4
  <2>2. CASE last' = last /\ pc' = "ended" /\ (Received \/ UNCHANGED chanVars)
    <3>1. Take("stream") \/ UNCHANGED chanVars
      BY <1>2, <2>2, Got
    <3>2. Chans' /\ Steady
      BY <1>2, <3>1, StreamTakeRests, NothingMoves, RestIsSteady DEF IInv, Conns, dvrVars
    <3>3. Stream' /\ Phases'
      BY <1>2, <2>2, StreamEnds, PhasesFree DEF IInv, dvrVars
    <3> QED  BY <3>2, <3>3
  <2> QED  BY <1>3, <2>1, <2>2
<1>5. Info' /\ Alarms'
  BY <1>2, <1>4, InfoKept, AlarmsKept DEF IInv, Steady, dvrVars
<1> QED  BY <1>4, <1>5, NextState DEF IInv, Next, Process

(* What hlp_get_header() discards on the stream is no frame. *)
LEMMA DiscardStep ==
  ASSUME IInv, Discard
  PROVE  IInv'
<1>1. /\ UNCHANGED <<opt, dvrVars, pc, synced, devinfo, alarms, last>> /\ pc \in Awaiting
      /\ Take(Conn) /\ ~IsAwaited(Reply)
  BY DEF Discard, procVars, dataVars
<1>2. Chans' /\ Stream' /\ Steady
  <2>1. CASE Conn = "ctrl"
    BY <1>1, <2>1, CtrlSteps DEF dvrVars, Awaiting
  <2>2. CASE Conn = "stream"
    <3>1. pc \in {"first", "frame"} /\ Awaited = "media"
      BY <1>1, <2>2 DEF Conn, Awaited
    <3>2. last' = After(Arrived("stream"), last)
      BY <1>1, <2>2, <3>1 DEF After, IsAwaited, Reply
    <3>3. Stream'
      BY <1>1, <2>2, <3>1, <3>2, StreamTaken DEF IInv, dvrVars
    <3> QED  BY <1>1, <2>2, <3>3, StreamTakeRests DEF dvrVars
  <2> QED  BY <2>1, <2>2 DEF Conn
<1>3. Phases' /\ Info' /\ Alarms'
  BY <1>1, <1>2, PhasesKept, InfoKept, AlarmsKept DEF IInv, Steady, dvrVars
<1> QED  BY <1>2, <1>3, NextState DEF IInv, Next, Process

(* The DVR sends the next frame, or something else. *)
LEMMA StreamSends ==
  ASSUME IInv, DvrTies \/ DvrMedia \/ NoteOn("stream")
  PROVE  Chans' /\ Stream' /\ Steady
<1> DEFINE a == Arrived("stream")
<1>1. /\ ~closed /\ pc # "ended" /\ UNCHANGED <<req, buf, closed, enabled, pc, last>>
  BY DEF DvrTies, DvrMedia, NoteOn, DvrNote, Up, procVars
<1>2. PICK m \in Messages :
        /\ Sends("stream", m)
        /\ m.cmd = "media" => m.arg = (sent + 1) % N
        /\ sent' = IF m.cmd = "media" THEN m.arg ELSE sent
  <2>1. CASE DvrTies
    <3>1. Message("tie", 0, TRUE) \in Messages
      BY MessageType DEF Commands
    <3>2. Message("tie", 0, TRUE).cmd = "tie"
      BY DEF Message
    <3> QED  BY <2>1, <3>1, <3>2 DEF DvrTies
  <2>2. CASE DvrMedia
    <3>1. PICK g \in BOOLEAN : Sends("stream", Message("media", sent', g))
      BY <2>2 DEF DvrMedia
    <3>2. sent' = (sent + 1) % N /\ sent' \in Nat
      <4>1. sent' = (sent + 1) % N
        BY <2>2 DEF DvrMedia
      <4>2. sent \in 0..N-1 /\ N \in Nat \ {0}
        BY BoundsType DEF IInv, Stream
      <4> QED  BY <4>1, <4>2
    <3>3. Message("media", sent', g) \in Messages
      BY <3>2, MessageType DEF Commands
    <3>4. Message("media", sent', g).cmd = "media" /\ Message("media", sent', g).arg = sent'
      BY DEF Message
    <3> QED  BY <3>1, <3>2, <3>3, <3>4
  <2>3. CASE NoteOn("stream")
    <3>1. Note \in Messages /\ Note.cmd = "note"
      BY DEF Note, Message, Messages, Commands, NoteType, HD
    <3> QED  BY <2>3, <3>1 DEF NoteOn, DvrNote
  <2> QED  BY <2>1, <2>2, <2>3
<1>3. Chans' /\ a' = Append(a, m) /\ Arrived("ctrl")' = Arrived("ctrl") /\ a \in Seq(Messages)
  <2>1. req' \in Seq(Reqs)
    BY <1>1 DEF IInv, Chans
  <2> QED  BY <1>1, <1>2, <2>1, SendsMoves, ArrivedType DEF IInv, Conns
<1>4. InOrder(a, last) /\ Precedes(a, Len(a) + 1, sent, last) /\ sent \in 0..N-1 /\ last \in 0..N-1
  BY <1>1 DEF IInv, Stream, MediaInOrder
<1> HIDE DEF a
<1>5. InOrder(Append(a, m), last) /\ Precedes(Append(a, m), Len(a) + 2, sent', last)
  BY <1>2, <1>3, <1>4, OrderAppend
<1>6. Len(Append(a, m)) + 1 = Len(a) + 2
  BY <1>3, AppendAt
<1>7. InOrder(a, last)' /\ Precedes(a, Len(a) + 1, sent, last)'
  BY <1>1, <1>3, <1>5, <1>6 DEF InOrder, Precedes
<1>8. sent' \in 0..N-1
  <2>1. N \in Nat \ {0} /\ sent + 1 \in Nat
    BY <1>4, BoundsType
  <2>2. (sent + 1) % N \in 0..N-1
    BY <2>1
  <2> QED  BY <1>2, <1>4, <2>2
<1>9. Stream'
  BY <1>1, <1>4, <1>7, <1>8 DEF Stream, MediaInOrder, a
<1> QED  BY <1>1, <1>3, <1>9, RestIsSteady

(* Frames are lost from the end only as the DVR closes. *)
LEMMA StreamCloses ==
  ASSUME IInv, DvrCloses
  PROVE  Stream'
<1> DEFINE a == Arrived("stream")
           z == net["stream"]
<1>1. pc # "ended" /\ closed' = TRUE /\ UNCHANGED <<sent, last>>
  BY DEF DvrCloses, Up, procVars
<1>2. Chans' /\ (a' = a \/ (a = a' \o z /\ z \in Seq(Messages)))
  BY CloseMoves DEF DvrCloses, IInv, Conns
<1>3. a' \in Seq(Messages)
  BY <1>2, ConcatProperties DEF Chans, Arrived, Conns
<1>4. InOrder(a, last)
  BY <1>1 DEF IInv, Stream, MediaInOrder
<1> HIDE DEF a, z
<1>5. InOrder(a', last)
  <2>1. CASE a' = a
    BY <1>4, <2>1
  <2>2. CASE a = a' \o z /\ z \in Seq(Messages)
    <3>1. InOrder(a' \o z, last)
      BY <1>4, <2>2
    <3> QED  BY <1>3, <2>2, <3>1, OrderPrefix
  <2> QED  BY <1>2, <2>1, <2>2
<1>6. InOrder(a, last)'
  BY <1>1, <1>5 DEF InOrder, Precedes
<1> QED  BY <1>1, <1>6 DEF IInv, Stream, MediaInOrder, a

LEMMA DvrSteps ==
  ASSUME IInv, Dvr
  PROVE  IInv'
<1>1. /\ UNCHANGED <<opt, pc, synced, devinfo, alarms, last>> /\ pc # "ended"
      /\ enabled \subseteq enabled'
  BY DEF Dvr, DvrAnswers, DvrTies, DvrMedia, DvrNote, DvrCloses, Up, procVars, dataVars
<1>2. Chans' /\ Stream' /\ Steady
  <2>1. CASE DvrAnswers
    <3>1. Chans' /\ Steady /\ Arrived("stream")' = Arrived("stream")
      BY <2>1, AnswerIsSteady DEF IInv
    <3>2. UNCHANGED <<sent, last, closed>>
      BY <2>1 DEF DvrAnswers, procVars
    <3> QED  BY <1>1, <3>1, <3>2, StreamRests DEF IInv
  <2>2. CASE DvrTies \/ DvrMedia \/ NoteOn("stream")
    BY <2>2, StreamSends
  <2>3. CASE NoteOn("ctrl")
    <3>1. Chans' /\ Steady /\ Arrived("stream")' = Arrived("stream")
      BY <2>3, NoteIsSteady DEF IInv
    <3>2. UNCHANGED <<sent, last, closed>>
      BY <2>3 DEF NoteOn, DvrNote, procVars
    <3> QED  BY <1>1, <3>1, <3>2, StreamRests DEF IInv
  <2>4. CASE DvrCloses
    BY <2>4, CloseIsSteady, StreamCloses DEF IInv
  <2>5. DvrNote => NoteOn("ctrl") \/ NoteOn("stream")
    BY DEF NoteOn, DvrNote, Conns, Note
  <2> QED  BY <2>1, <2>2, <2>3, <2>4, <2>5 DEF Dvr
<1>3. Phases' /\ Info' /\ Alarms'
  BY <1>1, <1>2, PhasesKept, InfoKept, AlarmsKept DEF IInv, Steady
<1> QED  BY <1>2, <1>3, NextState DEF IInv, Next

LEMMA StutterStep ==
  ASSUME IInv, UNCHANGED vars
  PROVE  IInv'
<1>1. UNCHANGED chanVars /\ UNCHANGED <<opt, closed, sent, enabled, pc, synced, devinfo, alarms, last>>
  BY DEF vars, dvrVars, procVars, dataVars
<1>2. Chans' /\ Steady /\ Arrived("stream")' = Arrived("stream")
  BY <1>1, NothingMoves, RestIsSteady DEF IInv, Conns
<1>3. Stream'
  BY <1>1, <1>2 DEF IInv, Stream, MediaInOrder, InOrder, Precedes
<1>4. Phases' /\ Info' /\ Alarms'
  BY <1>1, <1>2, PhasesKept, InfoKept, AlarmsKept DEF IInv, Steady
<1> QED  BY <1>2, <1>3, <1>4, NextState DEF IInv

LEMMA InitIInv == Init => IInv
<1> SUFFICES ASSUME Init PROVE IInv
  OBVIOUS
<1>1. /\ net = [c \in Conns |-> <<>>] /\ buf = [c \in Conns |-> <<>>] /\ req = <<>>
  BY DEF Init
<1>2. Chans
  BY <1>1 DEF Chans
<1>3. Arrived("ctrl") = <<>> /\ Arrived("stream") = <<>>
  BY <1>1 DEF Arrived, Conns
<1>4. 0 \in 0..N-1 /\ 1 \in 1..Len(Script)+1
  BY BoundsType
<1>5. StateType
  <2>1. closed \in BOOLEAN /\ playing \in BOOLEAN /\ synced \in BOOLEAN /\ due \in [ka : BOOLEAN, to : BOOLEAN]
    BY DEF Init
  <2>2. opt \in Options /\ tied = "no" /\ pc = "connect" /\ step = 1 /\ ret = -1
    BY DEF Init
  <2> QED  BY <1>4, <2>1, <2>2, BoundsType DEF StateType, Pcs
<1>6. Stream
  <2>1. InOrder(<<>>, 0) /\ Precedes(<<>>, 1, 0, 0)
    BY DEF InOrder, Precedes
  <2>2. sent = 0 /\ last = 0 /\ Len(Arrived("stream")) + 1 = 1
    BY <1>3 DEF Init
  <2> QED  BY <1>3, <1>4, <2>1, <2>2 DEF Stream, MediaInOrder
<1>7. Info
  <2>1. \A f \in Fields : devinfo[f] = Nothing
    BY DEF Init
  <2>2. Nothing.good
    BY DEF Nothing, Message
  <2> QED  BY <2>1, <2>2 DEF Info, InfoIsOwn
<1>8. Alarms
  BY <1>3 DEF Init, Alarms, AlarmsReal, AlarmConfirmed
<1>9. Phases
  BY <1>1, <1>3 DEF Init, Phases, CalmIn, Quiet
<1> QED  BY <1>2, <1>5, <1>6, <1>7, <1>8, <1>9 DEF IInv

LEMMA SpecIInv == Spec => []IInv
<1>1. IInv /\ [Next]_vars => IInv'
  <2> SUFFICES ASSUME IInv, [Next]_vars PROVE IInv'
    OBVIOUS
  <2>1. CASE Process
    BY <2>1, OpenSteps, LoginStep, CollectStep, AnswerStep, RequestSteps, CtrlReads, LoopSteps,
       FrameSteps, DiscardStep DEF Process
  <2>2. CASE KaExpires \/ ToExpires
    BY <2>2, LoopSteps
  <2>3. CASE Dvr
    BY <2>3, DvrSteps
  <2>4. CASE UNCHANGED vars
    BY <2>4, StutterStep
  <2> QED  BY <2>1, <2>2, <2>3, <2>4 DEF Next
<1> QED  BY <1>1, InitIInv, PTL DEF Spec

-----------------------------------------------------------------------------
(* Every variable keeps a value of its type, no text that did not fit gets *)
(* into devinfo, and a session has a result just when it has ended.        *)
THEOREM TypeCorrect == Spec => []TypeOK
<1>1. IInv => TypeOK
  <2> SUFFICES ASSUME IInv PROVE TypeOK
    OBVIOUS
  <2>1. /\ \A c \in Conns : net[c] \in Seq(Messages) /\ buf[c] \in Seq(Messages)
        /\ req \in Seq([cmd : Commands, arg : 0..255])
    BY DEF IInv, Chans, Reqs
  <2>2. sent \in 0..N-1 /\ last \in 0..N-1
    BY DEF IInv, Stream
  <2>3. \A f \in Fields : devinfo[f] \in Messages \cup {Nothing} /\ devinfo[f].good
    BY DEF IInv, Info
  <2>4. StateType
    BY DEF IInv
  <2> QED  BY <2>1, <2>2, <2>3, <2>4 DEF TypeOK, StateType, Pcs
<1> QED  BY <1>1, SpecIInv, PTL

(* Frames reach the pipe in the order in which the DVR sent them, without  *)
(* a gap for as long as the session lasts.                                 *)
THEOREM FramesFollow == Spec => []MediaInOrder
<1>1. IInv => MediaInOrder
  BY DEF IInv, Stream
<1> QED  BY <1>1, SpecIInv, PTL

(* What tanidvr shows of the DVR is the DVR's reply about just that. *)
THEOREM TextsAreOwn == Spec => []InfoIsOwn
<1>1. IInv => InfoIsOwn
  BY DEF IInv, Info
<1> QED  BY <1>1, SpecIInv, PTL

(* hlp_set_alarm() returns 0 for alarms that are enabled. *)
THEOREM AlarmsAreEnabled == Spec => []AlarmConfirmed
<1>1. IInv => AlarmConfirmed
  BY DEF IInv, Alarms
<1> QED  BY <1>1, SpecIInv, PTL

(* Once open_session() saw the reply to its NOP, no reply that is taken    *)
(* for that to a keep-alive is another's.                                  *)
THEOREM KeepAlivesMatch == Spec => []KeepAliveIsOwn
<1>1. IInv => KeepAliveIsOwn
  BY DEF IInv, Phases, KeepAliveIsOwn, InLoop, Quiet
<1> QED  BY <1>1, SpecIInv, PTL
=============================================================================
