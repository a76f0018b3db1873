-------------------------- MODULE ConverterProofs ---------------------------
(***************************************************************************)
(* Proofs about what becomes of a frame when the output is Matroska, for   *)
(* streams of every length, all frame rates, heights and frame sizes, and  *)
(* an output buffer of any size that holds the main header.                *)
(***************************************************************************)
EXTENDS Converter, SequenceTheorems, WellFoundedInduction, TLAPS

(* What a chunk is made of. *)
Chunks ==
  [head : BOOLEAN, kind : {"I", "P"}, body : Nat, dst_len : Nat,
   rate : Int \X Int, fps : Int, ntsc : BOOLEAN, period : Int \X Int,
   time : Int, nth : Nat]

WrittenType == written \in Seq(Chunks)

(* The variables that the properties are about. *)
StateType ==
  /\ mc_format_in \in {"DHAV", "H264"} /\ tsproc \in BOOLEAN /\ ntsc_exact_60hz \in BOOLEAN
  /\ has_v_parms \in BOOLEAN /\ v_first_frame \in BOOLEAN /\ tsc_first \in BOOLEAN
  /\ header_pending \in BOOLEAN /\ NTSC_timings \in BOOLEAN
  /\ dhav_fps \in Int /\ v_timestamp \in Int /\ tsc_timestamp \in Int
  /\ timed \in Nat

(* The main header is due as long as nothing was written, unless the loop  *)
(* has ended, maybe by a write that failed.                                *)
HeaderDue == pc = "run" => (header_pending <=> written = <<>>)

(* Whose business the timestamps are. *)
Corrected == tsproc /\ mc_format_in = "DHAV"

(* The timestamp counts the frames timed behind the first, whoever makes   *)
(* it, and both makers agree on which frame was the first.                 *)
Clock ==
  /\ v_first_frame => timed = 0
  /\ ~v_first_frame => v_timestamp = timed
  /\ Corrected => tsc_first = v_first_frame
  /\ Corrected /\ ~tsc_first => tsc_timestamp = timed

(* What is written of a frame's timing is what was known of it then. *)
TimingKept(c) ==
  /\ c.time = c.nth
  /\ c.period = NoPeriod \/ c.period = RefPeriod(c.fps, c.ntsc)
  /\ c.head => c.rate = MkvFps(c.fps, c.ntsc)
  /\ c.dst_len = PayloadLen(c.head, c.body) /\ c.dst_len <= MaxDst

AllKept == \A k \in 1..Len(written) : TimingKept(written[k])

IInv ==
  /\ StateType /\ WrittenType
  /\ HeaderDue /\ HeaderOnce
  /\ Clock
  /\ AllKept

-----------------------------------------------------------------------------
LEMMA FrameType ==
  ASSUME NEW f \in Frames
  PROVE  f.kind \in {"I", "P", "audio", "config", "other"} /\ f.fps \in Int /\ f.height \in Int /\ f.body \in Nat
BY ConverterAssumption DEF Frames, FrameOf, Kinds, ParmsKind

(* A frame's rate stays a number, whatever frame comes. *)
LEMMA CollectType ==
  ASSUME StateType, NEW f \in Frames, Collect(f)
  PROVE  /\ dhav_fps' \in Int /\ NTSC_timings' \in BOOLEAN /\ has_v_parms' \in BOOLEAN
         /\ frame_type' \in {"I", "P"} => Times(f)
<1>1. f.fps \in Int
  BY FrameType
<1>2. GuessNtsc(f.height, f.fps) \in BOOLEAN /\ GuessNtsc(f.height, 20) \in BOOLEAN
  BY DEF GuessNtsc
<1>3. CASE mc_format_in = "DHAV"
  <2>1. CollectDhav(f)
    BY <1>3 DEF Collect
  <2>2. dhav_fps' \in Int
    BY <1>1, <2>1 DEF CollectDhav, StateType
  <2>3. NTSC_timings' \in BOOLEAN
    BY <1>2, <2>1, Zenon DEF CollectDhav, StateType
  <2>4. has_v_parms' \in BOOLEAN
    BY <2>1, Zenon DEF CollectDhav
  <2>5. frame_type' \in {"I", "P"} => Times(f)
    BY <1>3, <2>1 DEF CollectDhav, Times
  <2> QED  BY <2>2, <2>3, <2>4, <2>5
<1>4. CASE mc_format_in # "DHAV"
  <2>1. CollectRaw(f)
    BY <1>4 DEF Collect
  <2>2. dhav_fps' \in Int
    BY <2>1 DEF CollectRaw, StateType
  <2>3. NTSC_timings' \in BOOLEAN
    BY <1>2, <2>1, Zenon DEF CollectRaw, StateType
  <2>4. has_v_parms' \in BOOLEAN
    BY <2>1, Zenon DEF CollectRaw
  <2>5. frame_type' \in {"I", "P"} => Times(f)
    BY <1>4, <2>1 DEF CollectRaw, Times
  <2> QED  BY <2>2, <2>3, <2>4, <2>5
<1> QED  BY <1>3, <1>4

(* A frame and the clocks: both count what is timed. *)
LEMMA FrameClock ==
  ASSUME StateType, Clock, NEW f \in Frames, NEW last, Frame(f, last)
  PROVE  /\ Clock' /\ timed' \in Nat
         /\ v_timestamp' \in Int /\ tsc_timestamp' \in Int
         /\ v_first_frame' \in BOOLEAN /\ tsc_first' \in BOOLEAN
         /\ Times(f) => v_timestamp' = timed'
<1>1. /\ v_first_frame' = (v_first_frame /\ ~Times(f))
      /\ timed' = (IF Times(f) /\ ~v_first_frame THEN timed + 1 ELSE timed)
      /\ tsc_first' = (tsc_first /\ ~Processed(f))
      /\ tsc_timestamp' = TscTimestamp(f) /\ v_timestamp' = Timestamp(f)
      /\ UNCHANGED <<mc_format_in, tsproc>>
  BY DEF Frame, setup
<1>2. Corrected => (Processed(f) <=> Times(f))
  BY DEF Corrected, Processed, Times
<1>3. timed \in Nat /\ v_timestamp \in Int /\ tsc_timestamp \in Int
      /\ v_first_frame \in BOOLEAN /\ tsc_first \in BOOLEAN
  BY DEF StateType
<1>4. v_first_frame' \in BOOLEAN /\ tsc_first' \in BOOLEAN
  BY <1>1, Zenon
<1>5. timed' \in Nat /\ tsc_timestamp' \in Int /\ v_timestamp' \in Int
  BY <1>1, <1>3 DEF TscTimestamp, Timestamp, Collected
<1>6. Corrected' <=> Corrected
  BY <1>1 DEF Corrected
<1>7. v_first_frame' => timed' = 0
  BY <1>1 DEF Clock
<1>8. CASE Corrected
  <2>1. tsc_first = v_first_frame /\ (~tsc_first => tsc_timestamp = timed)
    BY <1>8 DEF Clock
  <2>2. tsc_first' = v_first_frame'
    BY <1>1, <1>2, <1>8, <2>1
  <2>3. ~tsc_first' => tsc_timestamp' = timed'
    BY <1>1, <1>2, <1>3, <1>8, <2>1 DEF TscTimestamp, Clock
  <2>4. v_timestamp' = tsc_timestamp'
    BY <1>1, <1>8 DEF Timestamp, Corrected
  <2>5. Times(f) => ~tsc_first'
    BY <1>1, <1>2, <1>8
  <2> QED  BY <1>4, <1>5, <1>6, <1>7, <1>8, <2>2, <2>3, <2>4, <2>5 DEF Clock
<1>9. CASE ~Corrected
  <2>1. v_timestamp' = Collected(f)
    BY <1>1, <1>9 DEF Timestamp, Corrected
  <2>2. ~v_first_frame' => v_timestamp' = timed'
    BY <1>1, <1>3, <2>1 DEF Collected, Clock
  <2>3. Times(f) => ~v_first_frame'
    BY <1>1
  <2> QED  BY <1>4, <1>5, <1>6, <1>7, <1>9, <2>2, <2>3 DEF Clock
<1> QED  BY <1>8, <1>9

(* What is made of a frame that is written. *)
LEMMA ChunkTiming ==
  ASSUME StateType, StateType', NEW f \in Frames, NEW last, Frame(f, last), dtconv_ret' = 0,
         Times(f) => v_timestamp' = timed'
  PROVE  /\ Chunk(f) \in Chunks /\ TimingKept(Chunk(f)) /\ Chunk(f).head = header_pending
<1> DEFINE c == Chunk(f)
<1>1. Collect(f) /\ dtconv_ret' = Converted(f) /\ UNCHANGED <<mc_format_in, tsproc, ntsc_exact_60hz>>
  BY DEF Frame, setup
<1>2. frame_type' \in {"I", "P"} /\ Fits(f)
  BY <1>1 DEF Converted
<1>3. Times(f)
  BY <1>1, <1>2, CollectType
<1>4. f.body \in Nat
  BY FrameType
<1>5. PayloadLen(header_pending, f.body) \in Nat
  BY <1>4 DEF PayloadLen, ClusterLoad, SimpleBlockLoad, MainHeaderLoad
<1>6. /\ c.head = header_pending /\ c.kind = frame_type' /\ c.body = f.body
      /\ c.dst_len = PayloadLen(header_pending, f.body)
      /\ c.rate = (IF header_pending THEN MkvFps(dhav_fps', NTSC_timings') ELSE NoPeriod)
      /\ c.fps = dhav_fps' /\ c.ntsc = NTSC_timings' /\ c.period = Period(f)
      /\ c.time = v_timestamp' /\ c.nth = timed'
  BY DEF Chunk
<1>7. MkvFps(dhav_fps', NTSC_timings') \in Int \X Int /\ NoPeriod \in Int \X Int
      /\ RefPeriod(dhav_fps', NTSC_timings') \in Int \X Int
  BY DEF MkvFps, NoPeriod, RefPeriod, StateType
<1>8. Period(f) = NoPeriod \/ Period(f) = RefPeriod(dhav_fps', NTSC_timings')
  BY DEF Period
<1>9. c \in Chunks
  <2>1. /\ header_pending \in BOOLEAN /\ NTSC_timings' \in BOOLEAN /\ dhav_fps' \in Int
        /\ v_timestamp' \in Int /\ timed' \in Nat
    BY DEF StateType
  <2> QED  BY <1>2, <1>4, <1>5, <1>7, <1>8, <2>1 DEF Chunk, Chunks
<1>10. TimingKept(c)
  BY <1>2, <1>3, <1>6, <1>8 DEF TimingKept, Fits
<1> QED  BY <1>6, <1>9, <1>10

LEMMA KeptOn ==
  ASSUME ntsc_exact_60hz' = ntsc_exact_60hz, \A k \in 1..Len(written') : TimingKept(written'[k])
  PROVE  AllKept'
<1>1. ASSUME NEW fps, NEW ntsc
      PROVE  RefPeriod(fps, ntsc)' = RefPeriod(fps, ntsc) /\ MkvFps(fps, ntsc)' = MkvFps(fps, ntsc)
  BY DEF RefPeriod, MkvFps
<1>2. ASSUME NEW c, TimingKept(c) PROVE TimingKept(c)'
  BY <1>1, <1>2, Zenon DEF TimingKept
<1>3. ASSUME NEW k \in 1..Len(written'), NEW c, c = written'[k] PROVE TimingKept(c)'
  BY <1>2, <1>3
<1> QED  BY <1>3, Zenon DEF AllKept

LEMMA FrameIInv ==
  ASSUME IInv, NEW f \in Frames, NEW last \in BOOLEAN, Frame(f, last)
  PROVE  IInv'
<1>1. /\ Collect(f) /\ dtconv_ret' = Converted(f) /\ header_pending' = PendingAfter(dtconv_ret')
      /\ UNCHANGED <<mc_format_in, tsproc, ntsc_exact_60hz>> /\ pc = "run"
  BY DEF Frame, setup
<1>2. /\ Clock' /\ timed' \in Nat /\ v_timestamp' \in Int /\ tsc_timestamp' \in Int
      /\ v_first_frame' \in BOOLEAN /\ tsc_first' \in BOOLEAN
      /\ Times(f) => v_timestamp' = timed'
  BY FrameClock DEF IInv
<1>3. header_pending' \in BOOLEAN
  BY <1>1, Zenon DEF PendingAfter
<1>4. StateType'
  <2>1. dhav_fps' \in Int /\ NTSC_timings' \in BOOLEAN /\ has_v_parms' \in BOOLEAN
    BY <1>1, CollectType DEF IInv
  <2> QED  BY <1>1, <1>2, <1>3, <2>1 DEF IInv, StateType
<1>5. written \in Seq(Chunks) /\ Len(written) \in Nat
  BY DEF IInv, WrittenType
<1>6. CASE written' = written /\ (pc' = "ended" \/ dtconv_ret' # 0)
  <2>1. HeaderDue'
    BY <1>1, <1>6 DEF IInv, HeaderDue, PendingAfter
  <2>2. HeaderOnce'
    BY <1>6 DEF IInv, HeaderOnce
  <2>3. AllKept'
    BY <1>1, <1>6, KeptOn DEF IInv, AllKept
  <2> QED  BY <1>2, <1>4, <1>5, <1>6, <2>1, <2>2, <2>3 DEF IInv, WrittenType
<1>7. CASE written' = Append(written, Chunk(f)) /\ dtconv_ret' = 0
  <2> DEFINE c == Chunk(f)
  <2>1. c \in Chunks /\ TimingKept(c) /\ c.head = header_pending
    BY <1>2, <1>4, <1>7, ChunkTiming DEF IInv
  <2> HIDE DEF c
  <2>2. /\ written' \in Seq(Chunks) /\ written' # <<>> /\ Len(written') = Len(written) + 1
        /\ \A k \in 1..Len(written) : written'[k] = written[k]
        /\ written'[Len(written) + 1] = c
    BY <1>5, <1>7, <2>1, AppendProperties DEF c
  <2>3. HeaderDue'
    BY <1>1, <1>7, <2>2 DEF HeaderDue, PendingAfter
  <2>4. c.head <=> Len(written) = 0
    BY <1>1, <1>5, <2>1, EmptySeq DEF IInv, HeaderDue, StateType
  <2>5. ASSUME NEW k \in 1..Len(written') PROVE (written'[k].head <=> k = 1) /\ TimingKept(written'[k])
    <3>1. CASE k \in 1..Len(written)
      <4>1. k \in DOMAIN written
        BY <1>5, <3>1
      <4>2. written'[k] = written[k] /\ TimingKept(written[k])
        BY <2>2, <3>1 DEF IInv, AllKept
      <4>3. written[k].head <=> k = 1
        BY <4>1 DEF IInv, HeaderOnce
      <4> QED  BY <4>2, <4>3
    <3>2. CASE k = Len(written) + 1
      BY <1>5, <2>1, <2>2, <2>4, <3>2
    <3> QED  BY <1>5, <2>2, <3>1, <3>2
  <2>6. HeaderOnce'
    <3>1. DOMAIN written' = 1..Len(written')
      BY <2>2
    <3> QED  BY <2>5, <3>1 DEF HeaderOnce
  <2>7. AllKept'
    BY <1>1, <2>5, KeptOn
  <2> QED  BY <1>2, <1>4, <2>2, <2>3, <2>6, <2>7 DEF IInv, WrittenType
<1>8. \/ written' = written /\ (pc' = "ended" \/ dtconv_ret' # 0)
      \/ written' = Append(written, Chunk(f)) /\ dtconv_ret' = 0
  BY DEF Frame
<1> QED  BY <1>6, <1>7, <1>8

(* A crash leaves what was written, and nothing runs on. *)
LEMMA CrashIInv ==
  ASSUME IInv, NEW f \in Frames, Crash(f)
  PROVE  IInv'
<1>1. /\ Collect(f) /\ pc' = "crashed"
      /\ UNCHANGED <<setup, v_first_frame, v_timestamp, tsc, header_pending, written, timed>>
  BY DEF Crash
<1>2. dhav_fps' \in Int /\ NTSC_timings' \in BOOLEAN /\ has_v_parms' \in BOOLEAN
  BY <1>1, CollectType DEF IInv
<1>3. StateType'
  BY <1>1, <1>2 DEF IInv, StateType, setup, tsc
<1>4. HeaderDue' /\ HeaderOnce' /\ WrittenType'
  BY <1>1 DEF IInv, HeaderDue, HeaderOnce, WrittenType
<1>5. Clock'
  BY <1>1 DEF IInv, Clock, Corrected, setup, tsc
<1>6. AllKept'
  BY <1>1, KeptOn DEF IInv, AllKept, setup
<1> QED  BY <1>3, <1>4, <1>5, <1>6 DEF IInv

LEMMA InitIInv == Init => IInv
<1> SUFFICES ASSUME Init PROVE IInv
  OBVIOUS
<1>1. StateType
  <2>1. /\ mc_format_in \in {"DHAV", "H264"} /\ tsproc \in BOOLEAN /\ ntsc_exact_60hz \in BOOLEAN
        /\ {has_v_parms, NTSC_timings, v_first_frame, tsc_first, header_pending} \subseteq BOOLEAN
    BY DEF Init
  <2>2. dhav_fps = -1 /\ v_timestamp = 0 /\ tsc_timestamp = -1 /\ timed = 0
    BY DEF Init, Junk
  <2> QED  BY <2>1, <2>2 DEF StateType
<1>2. WrittenType /\ HeaderDue /\ HeaderOnce
  BY DEF Init, WrittenType, HeaderDue, HeaderOnce
<1>3. Clock
  BY DEF Init, Clock, Corrected
<1>4. AllKept
  BY DEF Init, AllKept
<1> QED  BY <1>1, <1>2, <1>3, <1>4 DEF IInv

LEMMA NextIInv == IInv /\ [Next]_vars => IInv'
<1> SUFFICES ASSUME IInv, [Next]_vars PROVE IInv'
  OBVIOUS
<1>1. CASE UNCHANGED vars
  <2>1. UNCHANGED <<mc_format_in, tsproc, ntsc_exact_60hz, has_v_parms, dhav_fps, NTSC_timings, v_first_frame,
                    v_timestamp, tsc_first, tsc_timestamp, header_pending, written, timed, pc>>
    BY <1>1 DEF vars, setup, mc_parms, tsc
  <2>2. StateType' /\ Clock'
    BY <2>1 DEF IInv, StateType, Clock, Corrected
  <2>3. HeaderDue' /\ HeaderOnce' /\ WrittenType'
    BY <2>1 DEF IInv, HeaderDue, HeaderOnce, WrittenType
  <2>4. AllKept'
    BY <2>1, KeptOn DEF IInv, AllKept
  <2> QED  BY <2>2, <2>3, <2>4 DEF IInv
<1> QED  BY <1>1, FrameIInv, CrashIInv DEF Next

LEMMA SpecIInv == Spec => []IInv
BY InitIInv, NextIInv, PTL DEF Spec

-----------------------------------------------------------------------------
(* The first chunk of a file, and no other, begins with the main header,   *)
(* whatever frames come first and however often the conversion fails.      *)
THEOREM MainHeaderOnce == Spec => []HeaderOnce
BY SpecIInv, PTL DEF IInv

(* Every chunk has its own frame's timestamp, with tsproc and without:     *)
(* t_mc_parms and t_mc_tsproc never disagree on how many frames there were.*)
THEOREM TimestampsOwn == Spec => []TimeIsOwn
<1>1. IInv => TimeIsOwn
  BY DEF IInv, AllKept, WrittenType, TimeIsOwn, TimingKept
<1> QED  BY <1>1, SpecIInv, PTL

(* dt_tsproc_process() and transform_fps_to_mkvfps() agree on the rate of  *)
(* NTSC video, for every frame rate.                                       *)
THEOREM NtscRatesAgree == Spec => []NtscRateAgrees
<1>1. ASSUME IInv PROVE NtscRateAgrees
  <2> SUFFICES ASSUME NEW k \in DOMAIN written, written[k].period # NoPeriod, written[k].ntsc,
                      written[1].ntsc, written[k].fps = written[1].fps
               PROVE  written[1].rate[1] * written[k].period[1] = written[1].rate[2] * written[k].period[2]
    BY DEF NtscRateAgrees
  <2>1. Len(written) \in Nat /\ k \in 1..Len(written) /\ 1 \in DOMAIN written /\ 1 \in 1..Len(written)
    BY <1>1 DEF IInv, WrittenType
  <2>2. written[1].head /\ TimingKept(written[k]) /\ TimingKept(written[1])
    BY <1>1, <2>1 DEF IInv, HeaderOnce, AllKept
  <2>3. written[k].fps \in Int /\ written[k].ntsc \in BOOLEAN /\ written[1].ntsc \in BOOLEAN
    <3>1. written[k] \in Chunks /\ written[1] \in Chunks
      BY <1>1, <2>1 DEF IInv, WrittenType
    <3> QED  BY <3>1 DEF Chunks
  <2> DEFINE r == written[k].fps
  <2>4. /\ written[1].rate = MkvFps(r, TRUE)
        /\ written[k].period = RefPeriod(r, TRUE)
    BY <2>2, <2>3 DEF TimingKept
  <2> QED  BY <2>3, <2>4 DEF MkvFps, RefPeriod
<1> QED  BY <1>1, SpecIInv, PTL

-----------------------------------------------------------------------------
(***************************************************************************)
(* Running sums, by which Matroska counts bytes.                           *)
(***************************************************************************)
LEMMA NatInduct ==
  ASSUME NEW S, 0 \in S, \A n \in Nat : n \in S => n + 1 \in S
  PROVE  \A n \in Nat : n \in S
<1> DEFINE Bad == Nat \ S
           R == OpToRel(<, Nat)
<1>1. SUFFICES ASSUME Bad # {} PROVE FALSE
  OBVIOUS
<1>2. IsWellFoundedOn(R, Nat)
  BY NatLessThanWellFounded
<1>3. \A x, y \in Nat : x < y => <<x, y>> \in R
  BY DEF OpToRel
<1> HIDE DEF R
<1>4. PICK k \in Bad : \A i \in Bad : <<i, k>> \notin R
  BY <1>1, <1>2, WFMin
<1>5. k \in Nat /\ k # 0 /\ k \notin S
  BY <1>4
<1>6. k - 1 \in Nat /\ k - 1 < k /\ k - 1 + 1 = k
  BY <1>5
<1>7. k - 1 \in Bad
  BY <1>5, <1>6
<1> QED  BY <1>3, <1>4, <1>5, <1>6, <1>7

(* f[i] is the sum of the first i of e, up to the n-th. *)
Sums(f, e, n) == f[0] = 0 /\ \A i \in 1..n : f[i] = f[i-1] + e[i]

LEMMA SumsExist ==
  ASSUME NEW n \in Nat, NEW e, \A i \in 1..n : e[i] \in Int
  PROVE  \E f \in [0..n -> Int] : Sums(f, e, n)
<1> DEFINE Good(f, m) == f \in [0..m -> Int] /\ Sums(f, e, m)
           S == {m \in Nat : m <= n => \E f : Good(f, m)}
<1>1. 0 \in S
  <2> DEFINE f == [i \in 0..0 |-> 0]
  <2>1. Good(f, 0)
    BY DEF Sums
  <2> HIDE DEF f, Good
  <2> QED  BY <2>1
<1>2. ASSUME NEW m \in Nat, m \in S, m + 1 <= n PROVE \E f : Good(f, m + 1)
  <2>1. PICK f : Good(f, m)
    BY <1>2
  <2> DEFINE g == [i \in 0..m+1 |-> IF i = m + 1 THEN f[m] + e[m+1] ELSE f[i]]
  <2>2. f[m] + e[m+1] \in Int
    <3>1. m + 1 \in 1..n /\ m \in 0..m
      BY <1>2
    <3> QED  BY <2>1, <3>1
  <2>3. g \in [0..m+1 -> Int]
    BY <2>1, <2>2
  <2>4. g[0] = 0
    BY <2>1 DEF Sums
  <2>5. ASSUME NEW i \in 1..m+1 PROVE g[i] = g[i-1] + e[i]
    <3>1. CASE i = m + 1
      <4>1. i - 1 = m /\ m \in 0..m+1 /\ m # m + 1 /\ i \in 0..m+1
        BY <3>1
      <4> QED  BY <3>1, <4>1
    <3>2. CASE i # m + 1
      <4>1. i \in 1..m /\ i - 1 \in 0..m+1 /\ i - 1 # m + 1 /\ i \in 0..m+1
        BY <3>2
      <4> QED  BY <2>1, <3>2, <4>1 DEF Sums
    <3> QED  BY <3>1, <3>2
  <2>6. Good(g, m + 1)
    BY <2>3, <2>4, <2>5 DEF Sums
  <2> HIDE DEF g, Good
  <2> QED  BY <2>6
<1>3. ASSUME NEW m \in Nat, m \in S PROVE m + 1 \in S
  <2>1. m + 1 <= n => \E f : Good(f, m + 1)
    BY <1>2, <1>3
  <2> HIDE DEF Good
  <2> QED  BY <2>1
<1>4. n \in S
  <2> HIDE DEF S
  <2> QED  BY <1>1, <1>3, NatInduct
<1> QED  BY <1>4

LEMMA SumsType ==
  ASSUME NEW n \in Nat, NEW e, \A i \in 1..n : e[i] \in Int, NEW f, Sums(f, e, n)
  PROVE  \A i \in 0..n : f[i] \in Int
<1> DEFINE S == {m \in Nat : m <= n => f[m] \in Int}
<1>1. 0 \in S
  BY DEF Sums
<1>2. ASSUME NEW m \in Nat, m \in S PROVE m + 1 \in S
  <2>1. CASE m + 1 <= n
    <3>1. m + 1 \in 1..n /\ m + 1 - 1 = m /\ m <= n
      BY <2>1
    <3>2. f[m+1] = f[m] + e[m+1]
      BY <3>1 DEF Sums
    <3> QED  BY <1>2, <3>1, <3>2
  <2> QED  BY <2>1
<1>3. \A m \in Nat : m \in S
  <2> HIDE DEF S
  <2> QED  BY <1>1, <1>2, NatInduct
<1> QED  BY <1>3

(* Two of the same numbers are equal as far as both go. *)
LEMMA SumsAgree ==
  ASSUME NEW n \in Nat, NEW e, NEW g, NEW f, NEW h, \A i \in 1..n : e[i] = g[i],
         Sums(f, e, n), Sums(h, g, n)
  PROVE  \A i \in 0..n : f[i] = h[i]
<1> DEFINE S == {m \in Nat : m <= n => f[m] = h[m]}
<1>1. 0 \in S
  BY DEF Sums
<1>2. ASSUME NEW m \in Nat, m \in S PROVE m + 1 \in S
  <2>1. CASE m + 1 <= n
    <3>1. m + 1 \in 1..n /\ m + 1 - 1 = m /\ m <= n
      BY <2>1
    <3>2. f[m+1] = f[m] + e[m+1] /\ h[m+1] = h[m] + g[m+1]
      BY <3>1 DEF Sums
    <3> QED  BY <1>2, <3>1, <3>2
  <2> QED  BY <2>1
<1>3. \A m \in Nat : m \in S
  <2> HIDE DEF S
  <2> QED  BY <1>1, <1>2, NatInduct
<1> QED  BY <1>3

(* Zeros do not count. *)
LEMMA SumsFlat ==
  ASSUME NEW n \in Nat, NEW e, \A i \in 1..n : e[i] \in Int, NEW f, Sums(f, e, n),
         NEW a \in 0..n, NEW b \in a..n, \A i \in a+1..b : e[i] = 0
  PROVE  f[b] = f[a]
<1> DEFINE S == {m \in Nat : a + m <= b => f[a+m] = f[a]}
<1>1. 0 \in S
  <2>1. a + 0 = a
    OBVIOUS
  <2> QED  BY <2>1
<1>2. ASSUME NEW m \in Nat, m \in S PROVE m + 1 \in S
  <2>1. CASE a + (m + 1) <= b
    <3> DEFINE i == a + (m + 1)
    <3>1. i \in 1..n /\ i \in a+1..b /\ i - 1 = a + m /\ a + m <= b /\ a \in 0..n
      BY <2>1
    <3> HIDE DEF i
    <3>2. f[i] = f[i-1] + e[i] /\ e[i] = 0
      BY <3>1 DEF Sums
    <3>3. f[a] \in Int
      BY <3>1, SumsType
    <3> QED  BY <1>2, <3>1, <3>2, <3>3 DEF i
  <2> QED  BY <2>1
<1>3. \A m \in Nat : m \in S
  <2> HIDE DEF S
  <2> QED  BY <1>1, <1>2, NatInduct
<1>4. b - a \in Nat /\ a + (b - a) = b /\ a + (b - a) <= b
  OBVIOUS
<1>5. b - a \in S
  BY <1>3, <1>4
<1> QED  BY <1>4, <1>5

-----------------------------------------------------------------------------
(***************************************************************************)
(* The bytes of elements, and those of the elements within one.            *)
(***************************************************************************)
Numbers(els, n) ==
  \A i \in 1..n : els[i].head \in Int /\ els[i].size \in Int /\ els[i].own \in Int

Bytes(els, n) == [i \in 1..n |-> els[i].head + els[i].own]

Within(els, name) ==
  [i \in 1..Len(els) |-> IF els[i].in = name THEN els[i].head + els[i].size ELSE 0]

LEMMA BytesSum ==
  ASSUME NEW els, NEW n \in Nat, Numbers(els, n)
  PROVE  \E f : Sums(f, Bytes(els, n), n) /\ f[n] = BytesOf(els, n)
<1> DEFINE e == Bytes(els, n)
           Fixed(f) == f = [i \in 0..n |-> IF i = 0 THEN 0 ELSE f[i-1] + els[i].head + els[i].own]
<1>1. \A i \in 1..n : e[i] = els[i].head + els[i].own /\ e[i] \in Int
  BY DEF Bytes, Numbers
<1> HIDE DEF e
<1>2. ASSUME NEW f, \A i \in 1..n : f[i-1] \in Int, NEW i \in 1..n
      PROVE  f[i-1] + els[i].head + els[i].own = f[i-1] + e[i]
  <2>1. f[i-1] \in Int /\ els[i].head \in Int /\ els[i].own \in Int
    BY <1>2 DEF Numbers
  <2> QED  BY <1>1, <2>1
<1>3. \E f : Fixed(f)
  <2>1. PICK f \in [0..n -> Int] : Sums(f, e, n)
    BY <1>1, SumsExist
  <2>2. \A i \in 1..n : i - 1 \in 0..n /\ f[i-1] \in Int
    BY <2>1
  <2>3. \A i \in 0..n : f[i] = IF i = 0 THEN 0 ELSE f[i-1] + els[i].head + els[i].own
    <3>1. \A i \in 1..n : f[i] = f[i-1] + els[i].head + els[i].own
      BY <1>2, <2>1, <2>2 DEF Sums
    <3>2. \A i \in 0..n : i # 0 => i \in 1..n
      OBVIOUS
    <3> QED  BY <2>1, <3>1, <3>2 DEF Sums
  <2>4. f = [i \in 0..n |-> f[i]]
    BY <2>1
  <2>5. Fixed(f)
    BY <2>3, <2>4
  <2> HIDE DEF Fixed
  <2> QED  BY <2>5
<1> DEFINE F == CHOOSE f : Fixed(f)
<1>4. Fixed(F)
  <2> HIDE DEF Fixed
  <2> QED  BY <1>3, Zenon
<1>5. F[n] = BytesOf(els, n)
  BY DEF BytesOf
<1> HIDE DEF F
<1>6. F[0] = 0 /\ \A i \in 1..n : F[i] = F[i-1] + els[i].head + els[i].own
  <2>1. 0 \in 0..n /\ \A i \in 1..n : i \in 0..n /\ i # 0
    OBVIOUS
  <2>2. \A i \in 0..n : F[i] = IF i = 0 THEN 0 ELSE F[i-1] + els[i].head + els[i].own
    BY <1>4
  <2> QED  BY <2>1, <2>2
<1>7. \A i \in Nat : i <= n => F[i] \in Int
  <2> DEFINE S == {m \in Nat : m <= n => F[m] \in Int}
  <2>1. 0 \in S
    BY <1>6
  <2>2. ASSUME NEW m \in Nat, m \in S PROVE m + 1 \in S
    <3>1. CASE m + 1 <= n
      <4>1. m + 1 \in 1..n /\ m + 1 - 1 = m /\ m <= n
        BY <3>1
      <4>2. F[m+1] = F[m] + els[m+1].head + els[m+1].own
        BY <1>6, <4>1
      <4>3. els[m+1].head \in Int /\ els[m+1].own \in Int
        BY <4>1 DEF Numbers
      <4> QED  BY <2>2, <4>1, <4>2, <4>3
    <3> QED  BY <3>1
  <2>3. \A m \in Nat : m \in S
    <3> HIDE DEF S
    <3> QED  BY <2>1, <2>2, NatInduct
  <2> QED  BY <2>3
<1>8. \A i \in 1..n : F[i-1] \in Int
  <2>1. \A i \in 1..n : i - 1 \in Nat /\ i - 1 <= n
    OBVIOUS
  <2> QED  BY <1>7, <2>1
<1>9. \A i \in 1..n : F[i] = F[i-1] + e[i]
  BY <1>2, <1>6, <1>8
<1>10. Sums(F, e, n)
  BY <1>6, <1>9 DEF Sums
<1> QED  BY <1>5, <1>10 DEF e

LEMMA WithinSum ==
  ASSUME NEW els, NEW name, Len(els) \in Nat, Numbers(els, Len(els))
  PROVE  /\ \E f : Sums(f, Within(els, name), Len(els)) /\ f[Len(els)] = SizeWithin(els, name)
         /\ \A i \in 1..Len(els) : Within(els, name)[i] \in Int
<1> DEFINE n == Len(els)
           e == Within(els, name)
           Fixed(f) == f = [i \in 0..n |->
                              IF i = 0 THEN 0
                              ELSE f[i-1] + (IF els[i].in = name THEN els[i].head + els[i].size ELSE 0)]
<1>1. \A i \in 1..n : /\ e[i] = (IF els[i].in = name THEN els[i].head + els[i].size ELSE 0)
                      /\ e[i] \in Int
  BY DEF Within, Numbers
<1> HIDE DEF e
<1>2. \E f : Fixed(f)
  <2>1. PICK f \in [0..n -> Int] : Sums(f, e, n)
    BY <1>1, SumsExist
  <2>2. \A i \in 0..n : f[i] = IF i = 0 THEN 0
                        ELSE f[i-1] + (IF els[i].in = name THEN els[i].head + els[i].size ELSE 0)
    <3>1. \A i \in 0..n : i # 0 => i \in 1..n
      OBVIOUS
    <3> QED  BY <1>1, <2>1, <3>1 DEF Sums
  <2>3. f = [i \in 0..n |-> f[i]]
    BY <2>1
  <2>4. Fixed(f)
    BY <2>2, <2>3
  <2> HIDE DEF Fixed
  <2> QED  BY <2>4
<1> DEFINE F == CHOOSE f : Fixed(f)
<1>3. Fixed(F)
  <2> HIDE DEF Fixed
  <2> QED  BY <1>2, Zenon
<1>4. F[n] = SizeWithin(els, name)
  BY DEF SizeWithin
<1> HIDE DEF F
<1>5. Sums(F, e, n)
  <2>1. 0 \in 0..n /\ \A i \in 1..n : i \in 0..n /\ i # 0
    OBVIOUS
  <2>2. \A i \in 0..n : F[i] = IF i = 0 THEN 0
                        ELSE F[i-1] + (IF els[i].in = name THEN els[i].head + els[i].size ELSE 0)
    BY <1>3
  <2> QED  BY <1>1, <2>1, <2>2 DEF Sums
<1> QED  BY <1>1, <1>4, <1>5 DEF e

-----------------------------------------------------------------------------
(***************************************************************************)
(* The table of the main header, and a chunk.                              *)
(***************************************************************************)
HeadTable == 1..25
Containers == {2, 4, 10, 11, 19}
Parents == {"file", "Segment", "Info", "Tracks", "TrackEntry", "Video", "Cluster"}

LEMMA HeadLength == MkvHead \in Seq({MkvHead[k] : k \in HeadTable}) /\ Len(MkvHead) = 25
<1>1. DOMAIN MkvHead = 1..25 /\ Len(MkvHead) = 25 /\ MkvHead = [k \in 1..25 |-> MkvHead[k]]
  BY DEF MkvHead
<1>2. MkvHead \in [1..25 -> {MkvHead[k] : k \in 1..25}]
  BY ONLY <1>1
<1>3. 25 \in Nat
  OBVIOUS
<1> QED  BY ONLY <1>1, <1>2, <1>3 DEF HeadTable

LEMMA HeadNumbers ==
  \A k \in HeadTable : MkvHead[k].head \in Nat /\ MkvHead[k].size \in Int /\ MkvHead[k].own \in Nat
BY DEF MkvHead, HeadTable, Leaf, Master, Element, Unknown

LEMMA HeadPlaces ==
  \A k \in HeadTable :
    MkvHead[k].in = IF k <= 2 THEN "file" ELSE IF k \in {3, 4, 10} THEN "Segment"
                    ELSE IF k \in 5..9 THEN "Info" ELSE IF k = 11 THEN "Tracks"
                    ELSE IF k \in 20..24 THEN "Video" ELSE "TrackEntry"
BY DEF MkvHead, HeadTable, Leaf, Master, Element

LEMMA HeadLeaves ==
  \A k \in HeadTable \ Containers : MkvHead[k].own = MkvHead[k].size /\ MkvHead[k].name \notin Parents
BY DEF MkvHead, HeadTable, Containers, Parents, Leaf, Master, Element

LEMMA HeadContainers ==
  /\ MkvHead[2].size = Unknown
  /\ MkvHead[4].name = "Info" /\ MkvHead[4].size = 69 /\ MkvHead[4].own = 0
  /\ MkvHead[10].name = "Tracks" /\ MkvHead[10].size = 112 /\ MkvHead[10].own = 0
  /\ MkvHead[11].name = "TrackEntry" /\ MkvHead[11].size = 103 /\ MkvHead[11].own = 0
  /\ MkvHead[19].name = "Video" /\ MkvHead[19].size = 26 /\ MkvHead[19].own = 0
BY DEF MkvHead, Master, Element

(* The table, an element at a time. *)
LEMMA HeadAt ==
  /\ MkvHead[1] = Leaf("EBML", "file", 12, 35)
  /\ MkvHead[2] = Master("Segment", "file", 12, Unknown)
  /\ MkvHead[3] = Leaf("Void", "Segment", 9, 147)
  /\ MkvHead[4] = Master("Info", "Segment", 12, 69)
  /\ MkvHead[5] = Leaf("TimecodeScale", "Info", 4, 3)
  /\ MkvHead[6] = Leaf("MuxingApp", "Info", 3, 13)
  /\ MkvHead[7] = Leaf("WritingApp", "Info", 3, 13)
  /\ MkvHead[8] = Leaf("SegmentUID", "Info", 3, 16)
  /\ MkvHead[9] = Leaf("Duration", "Info", 3, 8)
  /\ MkvHead[10] = Master("Tracks", "Segment", 12, 112)
  /\ MkvHead[11] = Master("TrackEntry", "Tracks", 9, 103)
  /\ MkvHead[12] = Leaf("TrackNumber", "TrackEntry", 2, 1)
  /\ MkvHead[13] = Leaf("TrackUID", "TrackEntry", 3, 1)
  /\ MkvHead[14] = Leaf("FlagLacing", "TrackEntry", 2, 1)
  /\ MkvHead[15] = Leaf("Language", "TrackEntry", 4, 3)
  /\ MkvHead[16] = Leaf("FlagDefault", "TrackEntry", 2, 1)
  /\ MkvHead[17] = Leaf("CodecID", "TrackEntry", 2, 15)
  /\ MkvHead[18] = Leaf("TrackType", "TrackEntry", 2, 1)
  /\ MkvHead[19] = Master("Video", "TrackEntry", 9, 26)
  /\ MkvHead[20] = Leaf("PixelWidth", "Video", 2, 2)
  /\ MkvHead[21] = Leaf("PixelHeight", "Video", 2, 2)
  /\ MkvHead[22] = Leaf("DisplayWidth", "Video", 3, 2)
  /\ MkvHead[23] = Leaf("DisplayHeight", "Video", 3, 2)
  /\ MkvHead[24] = Leaf("FrameRate", "Video", 4, 4)
  /\ MkvHead[25] = Leaf("CodecPrivate", "TrackEntry", 3, 25)
BY DEF MkvHead

LEMMA LeafSizes ==
  \A name, in, head, size : /\ Leaf(name, in, head, size).head = head
                            /\ Leaf(name, in, head, size).size = size
                            /\ Leaf(name, in, head, size).own = size
BY DEF Leaf, Element

LEMMA MasterSizes ==
  \A name, in, head, size : /\ Master(name, in, head, size).head = head
                            /\ Master(name, in, head, size).size = size
                            /\ Master(name, in, head, size).own = 0
BY DEF Master, Element

(* What the table says of the elements. *)
LEMMA HeadSizes ==
  /\ MkvHead[1].head = 12 /\ MkvHead[1].own = 35 /\ MkvHead[1].size = 35
  /\ MkvHead[2].head = 12 /\ MkvHead[2].own = 0
  /\ MkvHead[3].head = 9 /\ MkvHead[3].own = 147 /\ MkvHead[3].size = 147
  /\ MkvHead[4].head = 12 /\ MkvHead[4].own = 0 /\ MkvHead[4].size = 69
  /\ MkvHead[5].head = 4 /\ MkvHead[5].own = 3 /\ MkvHead[5].size = 3
  /\ MkvHead[6].head = 3 /\ MkvHead[6].own = 13 /\ MkvHead[6].size = 13
  /\ MkvHead[7].head = 3 /\ MkvHead[7].own = 13 /\ MkvHead[7].size = 13
  /\ MkvHead[8].head = 3 /\ MkvHead[8].own = 16 /\ MkvHead[8].size = 16
  /\ MkvHead[9].head = 3 /\ MkvHead[9].own = 8 /\ MkvHead[9].size = 8
  /\ MkvHead[10].head = 12 /\ MkvHead[10].own = 0 /\ MkvHead[10].size = 112
  /\ MkvHead[11].head = 9 /\ MkvHead[11].own = 0 /\ MkvHead[11].size = 103
  /\ MkvHead[12].head = 2 /\ MkvHead[12].own = 1 /\ MkvHead[12].size = 1
  /\ MkvHead[13].head = 3 /\ MkvHead[13].own = 1 /\ MkvHead[13].size = 1
  /\ MkvHead[14].head = 2 /\ MkvHead[14].own = 1 /\ MkvHead[14].size = 1
  /\ MkvHead[15].head = 4 /\ MkvHead[15].own = 3 /\ MkvHead[15].size = 3
  /\ MkvHead[16].head = 2 /\ MkvHead[16].own = 1 /\ MkvHead[16].size = 1
  /\ MkvHead[17].head = 2 /\ MkvHead[17].own = 15 /\ MkvHead[17].size = 15
  /\ MkvHead[18].head = 2 /\ MkvHead[18].own = 1 /\ MkvHead[18].size = 1
  /\ MkvHead[19].head = 9 /\ MkvHead[19].own = 0 /\ MkvHead[19].size = 26
  /\ MkvHead[20].head = 2 /\ MkvHead[20].own = 2 /\ MkvHead[20].size = 2
  /\ MkvHead[21].head = 2 /\ MkvHead[21].own = 2 /\ MkvHead[21].size = 2
  /\ MkvHead[22].head = 3 /\ MkvHead[22].own = 2 /\ MkvHead[22].size = 2
  /\ MkvHead[23].head = 3 /\ MkvHead[23].own = 2 /\ MkvHead[23].size = 2
  /\ MkvHead[24].head = 4 /\ MkvHead[24].own = 4 /\ MkvHead[24].size = 4
  /\ MkvHead[25].head = 3 /\ MkvHead[25].own = 25 /\ MkvHead[25].size = 25
<1>1. /\ MkvHead[1].head = 12 /\ MkvHead[1].own = 35 /\ MkvHead[1].size = 35
      /\ MkvHead[2].head = 12 /\ MkvHead[2].own = 0
      /\ MkvHead[3].head = 9 /\ MkvHead[3].own = 147 /\ MkvHead[3].size = 147
      /\ MkvHead[4].head = 12 /\ MkvHead[4].own = 0 /\ MkvHead[4].size = 69
      /\ MkvHead[5].head = 4 /\ MkvHead[5].own = 3 /\ MkvHead[5].size = 3
  BY ONLY HeadAt, LeafSizes, MasterSizes
<1>2. /\ MkvHead[6].head = 3 /\ MkvHead[6].own = 13 /\ MkvHead[6].size = 13
      /\ MkvHead[7].head = 3 /\ MkvHead[7].own = 13 /\ MkvHead[7].size = 13
      /\ MkvHead[8].head = 3 /\ MkvHead[8].own = 16 /\ MkvHead[8].size = 16
      /\ MkvHead[9].head = 3 /\ MkvHead[9].own = 8 /\ MkvHead[9].size = 8
      /\ MkvHead[10].head = 12 /\ MkvHead[10].own = 0 /\ MkvHead[10].size = 112
  BY ONLY HeadAt, LeafSizes, MasterSizes
<1>3. /\ MkvHead[11].head = 9 /\ MkvHead[11].own = 0 /\ MkvHead[11].size = 103
      /\ MkvHead[12].head = 2 /\ MkvHead[12].own = 1 /\ MkvHead[12].size = 1
      /\ MkvHead[13].head = 3 /\ MkvHead[13].own = 1 /\ MkvHead[13].size = 1
      /\ MkvHead[14].head = 2 /\ MkvHead[14].own = 1 /\ MkvHead[14].size = 1
      /\ MkvHead[15].head = 4 /\ MkvHead[15].own = 3 /\ MkvHead[15].size = 3
  BY ONLY HeadAt, LeafSizes, MasterSizes
<1>4. /\ MkvHead[16].head = 2 /\ MkvHead[16].own = 1 /\ MkvHead[16].size = 1
      /\ MkvHead[17].head = 2 /\ MkvHead[17].own = 15 /\ MkvHead[17].size = 15
      /\ MkvHead[18].head = 2 /\ MkvHead[18].own = 1 /\ MkvHead[18].size = 1
      /\ MkvHead[19].head = 9 /\ MkvHead[19].own = 0 /\ MkvHead[19].size = 26
      /\ MkvHead[20].head = 2 /\ MkvHead[20].own = 2 /\ MkvHead[20].size = 2
  BY ONLY HeadAt, LeafSizes, MasterSizes
<1>5. /\ MkvHead[21].head = 2 /\ MkvHead[21].own = 2 /\ MkvHead[21].size = 2
      /\ MkvHead[22].head = 3 /\ MkvHead[22].own = 2 /\ MkvHead[22].size = 2
      /\ MkvHead[23].head = 3 /\ MkvHead[23].own = 2 /\ MkvHead[23].size = 2
      /\ MkvHead[24].head = 4 /\ MkvHead[24].own = 4 /\ MkvHead[24].size = 4
      /\ MkvHead[25].head = 3 /\ MkvHead[25].own = 25 /\ MkvHead[25].size = 25
  BY ONLY HeadAt, LeafSizes, MasterSizes
<1> QED  BY ONLY <1>1, <1>2, <1>3, <1>4, <1>5

(* What the elements take, head and contents. *)
LEMMA HeadSpans ==
  LET w == [k \in HeadTable |-> MkvHead[k].head + MkvHead[k].size] IN
  /\ w[5] = 7 /\ w[6] = 16 /\ w[7] = 16 /\ w[8] = 19 /\ w[9] = 11
  /\ w[11] = 112
  /\ w[12] = 3 /\ w[13] = 4 /\ w[14] = 3 /\ w[15] = 7 /\ w[16] = 3 /\ w[17] = 17 /\ w[18] = 3
  /\ w[19] = 35 /\ w[25] = 28
  /\ w[20] = 4 /\ w[21] = 4 /\ w[22] = 5 /\ w[23] = 5 /\ w[24] = 8
<1> DEFINE w == [k \in HeadTable |-> MkvHead[k].head + MkvHead[k].size]
<1>1. \A k \in 1..25 : w[k] = MkvHead[k].head + MkvHead[k].size
  BY DEF HeadTable
<1> HIDE DEF w
<1>2. w[5] = 7 /\ w[6] = 16 /\ w[7] = 16 /\ w[8] = 19 /\ w[9] = 11 /\ w[11] = 112
  BY ONLY <1>1, HeadSizes
<1>3. w[12] = 3 /\ w[13] = 4 /\ w[14] = 3 /\ w[15] = 7 /\ w[16] = 3 /\ w[17] = 17
  BY ONLY <1>1, HeadSizes
<1>4. w[18] = 3 /\ w[19] = 35 /\ w[20] = 4 /\ w[21] = 4
  BY ONLY <1>1, HeadSizes
<1>5. w[22] = 5 /\ w[23] = 5 /\ w[24] = 8 /\ w[25] = 28
  BY ONLY <1>1, HeadSizes
<1>6. /\ w[5] = 7 /\ w[6] = 16 /\ w[7] = 16 /\ w[8] = 19 /\ w[9] = 11
      /\ w[11] = 112
      /\ w[12] = 3 /\ w[13] = 4 /\ w[14] = 3 /\ w[15] = 7 /\ w[16] = 3 /\ w[17] = 17 /\ w[18] = 3
      /\ w[19] = 35 /\ w[25] = 28
      /\ w[20] = 4 /\ w[21] = 4 /\ w[22] = 5 /\ w[23] = 5 /\ w[24] = 8
  BY ONLY <1>2, <1>3, <1>4, <1>5
<1> QED  BY ONLY <1>6, Zenon DEF w

(* How many bytes there are in front of each. *)
LEMMA HeadOffsets ==
  ASSUME NEW f, Sums(f, Bytes(MkvHead, 25), 25)
  PROVE  /\ f[4] = 227 /\ f[5] = 234 /\ f[6] = 250 /\ f[14] = 327 /\ f[16] = 337
         /\ f[19] = 366 /\ f[20] = 370 /\ f[21] = 374 /\ f[22] = 379 /\ f[23] = 384
         /\ f[25] = MainHeaderLoad
<1> DEFINE e == Bytes(MkvHead, 25)
<1>0. \A k \in 1..25 : e[k] = MkvHead[k].head + MkvHead[k].own
  BY DEF Bytes
<1> HIDE DEF e
<1>1. /\ e[1] = 47 /\ e[2] = 12 /\ e[3] = 156 /\ e[4] = 12 /\ e[5] = 7 /\ e[6] = 16 /\ e[7] = 16
      /\ e[8] = 19 /\ e[9] = 11 /\ e[10] = 12 /\ e[11] = 9 /\ e[12] = 3 /\ e[13] = 4
  <2>1. e[1] = 47 /\ e[2] = 12 /\ e[3] = 156 /\ e[4] = 12 /\ e[5] = 7
    BY ONLY <1>0, HeadSizes
  <2>2. e[6] = 16 /\ e[7] = 16 /\ e[8] = 19 /\ e[9] = 11
    BY ONLY <1>0, HeadSizes
  <2>3. e[10] = 12 /\ e[11] = 9 /\ e[12] = 3 /\ e[13] = 4
    BY ONLY <1>0, HeadSizes
  <2> QED  BY ONLY <2>1, <2>2, <2>3
<1>2. /\ e[14] = 3 /\ e[15] = 7 /\ e[16] = 3 /\ e[17] = 17 /\ e[18] = 3 /\ e[19] = 9 /\ e[20] = 4
      /\ e[21] = 4 /\ e[22] = 5 /\ e[23] = 5 /\ e[24] = 8 /\ e[25] = 28
  <2>1. e[14] = 3 /\ e[15] = 7 /\ e[16] = 3 /\ e[17] = 17
    BY ONLY <1>0, HeadSizes
  <2>2. e[18] = 3 /\ e[19] = 9 /\ e[20] = 4 /\ e[21] = 4
    BY ONLY <1>0, HeadSizes
  <2>3. e[22] = 5 /\ e[23] = 5 /\ e[24] = 8 /\ e[25] = 28
    BY ONLY <1>0, HeadSizes
  <2> QED  BY ONLY <2>1, <2>2, <2>3
<1>3. f[0] = 0 /\ \A i \in 1..25 : f[i] = f[i-1] + e[i]
  BY DEF Sums, e
<1>4. /\ f[1] = f[0] + e[1] /\ f[2] = f[1] + e[2] /\ f[3] = f[2] + e[3] /\ f[4] = f[3] + e[4]
      /\ f[5] = f[4] + e[5] /\ f[6] = f[5] + e[6] /\ f[7] = f[6] + e[7] /\ f[8] = f[7] + e[8]
      /\ f[9] = f[8] + e[9] /\ f[10] = f[9] + e[10] /\ f[11] = f[10] + e[11] /\ f[12] = f[11] + e[12]
      /\ f[13] = f[12] + e[13] /\ f[14] = f[13] + e[14] /\ f[15] = f[14] + e[15] /\ f[16] = f[15] + e[16]
  BY <1>3
<1>5. /\ f[17] = f[16] + e[17] /\ f[18] = f[17] + e[18] /\ f[19] = f[18] + e[19] /\ f[20] = f[19] + e[20]
      /\ f[21] = f[20] + e[21] /\ f[22] = f[21] + e[22] /\ f[23] = f[22] + e[23] /\ f[24] = f[23] + e[24]
      /\ f[25] = f[24] + e[25]
  BY <1>3
<1>6. f[14] = 327 /\ f[4] = 227 /\ f[5] = 234 /\ f[6] = 250 /\ f[16] = 337
  BY <1>1, <1>2, <1>3, <1>4
<1> QED  BY <1>2, <1>5, <1>6 DEF MainHeaderLoad

LEMMA HeadBytes ==
  ASSUME NEW k \in 0..25
  PROVE  \A f : Sums(f, Bytes(MkvHead, 25), 25) => BytesOf(MkvHead, k) = f[k]
<1> SUFFICES ASSUME NEW f, Sums(f, Bytes(MkvHead, 25), 25) PROVE BytesOf(MkvHead, k) = f[k]
  OBVIOUS
<1>1. Numbers(MkvHead, 25) /\ Numbers(MkvHead, k) /\ k \in Nat
  BY HeadNumbers DEF Numbers, HeadTable
<1>2. PICK h : Sums(h, Bytes(MkvHead, k), k) /\ h[k] = BytesOf(MkvHead, k)
  BY <1>1, BytesSum
<1>3. \A i \in 1..k : Bytes(MkvHead, k)[i] = Bytes(MkvHead, 25)[i]
  BY DEF Bytes
<1>4. Sums(f, Bytes(MkvHead, 25), k)
  BY DEF Sums
<1>5. h[k] = f[k]
  <2> DEFINE e == Bytes(MkvHead, k)
             g == Bytes(MkvHead, 25)
  <2>1. Sums(h, e, k) /\ Sums(f, g, k) /\ \A i \in 1..k : e[i] = g[i]
    BY <1>2, <1>3, <1>4
  <2> HIDE DEF e, g
  <2>2. \A i \in 0..k : h[i] = f[i]
    BY <1>1, <2>1, SumsAgree
  <2>3. k \in 0..k
    BY <1>1
  <2> QED  BY <2>2, <2>3
<1> QED  BY <1>2, <1>5

(* dt_convert_frame_to_mkv() writes where the table has the fields. *)
LEMMA PatchesLandThere == PatchesLand
<1>1. PICK f : Sums(f, Bytes(MkvHead, 25), 25)
  <2>1. Numbers(MkvHead, 25)
    BY HeadNumbers DEF Numbers, HeadTable
  <2> QED  BY <2>1, BytesSum
<1>2. \A k \in 0..25 : BytesOf(MkvHead, k) = f[k]
  BY <1>1, HeadBytes
<1>3. DOMAIN MkvHead = 1..25
  BY DEF MkvHead
<1> DEFINE Lands(k, p) == /\ MkvHead[k].name = p.name /\ MkvHead[k].own = p.len
                          /\ p.at = BytesOf(MkvHead, k - 1) + MkvHead[k].head
<1>4. /\ f[4] = 227 /\ f[5] = 234 /\ f[6] = 250 /\ f[14] = 327 /\ f[16] = 337
      /\ f[19] = 366 /\ f[20] = 370 /\ f[21] = 374 /\ f[22] = 379 /\ f[23] = 384
  BY <1>1, HeadOffsets
<1>5. /\ BytesOf(MkvHead, 4) = 227 /\ BytesOf(MkvHead, 5) = 234 /\ BytesOf(MkvHead, 6) = 250
      /\ BytesOf(MkvHead, 14) = 327 /\ BytesOf(MkvHead, 16) = 337 /\ BytesOf(MkvHead, 19) = 366
      /\ BytesOf(MkvHead, 20) = 370 /\ BytesOf(MkvHead, 21) = 374 /\ BytesOf(MkvHead, 22) = 379
      /\ BytesOf(MkvHead, 23) = 384
  BY <1>2, <1>4
<1>6. ASSUME NEW p \in Patches PROVE \E k \in 1..25 : Lands(k, p)
  <2>1. p = Patch("CodecID", 339, 15) => Lands(17, p)
    BY <1>5 DEF Patch, MkvHead, Leaf, Master, Element
  <2>2. p = Patch("PixelWidth", 366 + 2, 2) => Lands(20, p)
    BY <1>5 DEF Patch, MkvHead, Leaf, Master, Element
  <2>3. p = Patch("PixelHeight", 370 + 2, 2) => Lands(21, p)
    BY <1>5 DEF Patch, MkvHead, Leaf, Master, Element
  <2>4. p = Patch("DisplayWidth", 374 + 3, 2) => Lands(22, p)
    BY <1>5 DEF Patch, MkvHead, Leaf, Master, Element
  <2>5. p = Patch("DisplayHeight", 379 + 3, 2) => Lands(23, p)
    BY <1>5 DEF Patch, MkvHead, Leaf, Master, Element
  <2>6. p = Patch("FrameRate", 384 + 4, 4) => Lands(24, p)
    BY <1>5 DEF Patch, MkvHead, Leaf, Master, Element
  <2>7. p = Patch("MuxingApp", 234 + 3, 13) => Lands(6, p)
    BY <1>5 DEF Patch, MkvHead, Leaf, Master, Element
  <2>8. p = Patch("WritingApp", 250 + 3, 13) => Lands(7, p)
    BY <1>5 DEF Patch, MkvHead, Leaf, Master, Element
  <2>9. p = Patch("Language", 327 + 4, 3) => Lands(15, p)
    BY <1>5 DEF Patch, MkvHead, Leaf, Master, Element
  <2>10. p = Patch("TimecodeScale", 227 + 4, 3) => Lands(5, p)
    BY <1>5 DEF Patch, MkvHead, Leaf, Master, Element
  <2> HIDE DEF Lands
  <2> QED  BY <2>1, <2>2, <2>3, <2>4, <2>5, <2>6, <2>7, <2>8, <2>9, <2>10 DEF Patches
<1> QED  BY <1>3, <1>6 DEF PatchesLand

(* The elements of a chunk: those of the table, if it has them, and the    *)
(* cluster's.                                                              *)
HeadLen(head) == IF head THEN 25 ELSE 0
Cluster(body) == Master("Cluster", "Segment", 12, ClusterLen(body))
Timecode == Leaf("Timecode", "Cluster", 2, 8)
SimpleBlock(body) == Element("SimpleBlock", "Cluster", 9, BlockLen(body), 4 + body)

ChunkElements(els, b, body) ==
  /\ Len(els) = b + 3 /\ DOMAIN els = 1..b+3
  /\ \A k \in 1..b : els[k] = MkvHead[k]
  /\ els[b+1] = Cluster(body) /\ els[b+2] = Timecode /\ els[b+3] = SimpleBlock(body)

(* u is h, of the table's length, and t behind it. *)
Behind(u, h, t) ==
  /\ Len(u) = 28 /\ DOMAIN u = 1..28
  /\ \A k \in 1..25 : u[k] = h[k]
  /\ u[26] = t[1] /\ u[27] = t[2] /\ u[28] = t[3]

LEMMA BehindTable ==
  ASSUME NEW E, NEW h, NEW t, h \in Seq(E), t \in Seq(E), Len(h) = 25, Len(t) = 3
  PROVE  Behind(h \o t, h, t)
<1> DEFINE u == h \o t
<1>1. /\ u \in Seq(E) /\ Len(u) = Len(h) + Len(t)
      /\ \A k \in 1..Len(h)+Len(t) : u[k] = IF k <= Len(h) THEN h[k] ELSE t[k-Len(h)]
  BY ConcatProperties
<1> HIDE DEF u
<1>2. Len(u) = 28 /\ \A k \in 1..28 : u[k] = IF k <= 25 THEN h[k] ELSE t[k-25]
  BY <1>1
<1>3. DOMAIN u = 1..28
  BY <1>1, <1>2
<1>4. \A k \in 1..25 : u[k] = h[k]
  <2>1. \A k \in 1..25 : k \in 1..28 /\ k <= 25
    OBVIOUS
  <2> QED  BY <1>2, <2>1
<1>5. u[26] = t[1] /\ u[27] = t[2] /\ u[28] = t[3]
  <2>1. u[26] = t[26-25] /\ u[27] = t[27-25] /\ u[28] = t[28-25]
    BY <1>2
  <2> QED  BY <2>1
<1> QED  BY <1>2, <1>3, <1>4, <1>5 DEF u, Behind

LEMMA ElementsAre ==
  ASSUME NEW head \in BOOLEAN, NEW body \in Nat
  PROVE  ChunkElements(ElementsOf(head, body), HeadLen(head), body)
<1> DEFINE t == <<Cluster(body), Timecode, SimpleBlock(body)>>
           E == {MkvHead[k] : k \in HeadTable} \cup {Cluster(body), Timecode, SimpleBlock(body)}
<1>1. t \in Seq(E) /\ Len(t) = 3 /\ t[1] = Cluster(body) /\ t[2] = Timecode /\ t[3] = SimpleBlock(body)
  OBVIOUS
<1>2. MkvHead \in Seq(E) /\ Len(MkvHead) = 25
  <2> DEFINE H == {MkvHead[k] : k \in HeadTable}
  <2>1. MkvHead \in Seq(H) /\ Len(MkvHead) = 25 /\ H \subseteq E
    BY HeadLength
  <2> HIDE DEF H, E
  <2> QED  BY <2>1
<1>3. ElementsOf(head, body) = (IF head THEN MkvHead ELSE <<>>) \o t
  BY DEF ElementsOf, Cluster, Timecode, SimpleBlock
<1> HIDE DEF t, E
<1>4. CASE head
  <2> DEFINE u == MkvHead \o t
  <2>1. Behind(u, MkvHead, t)
    <3>1. MkvHead \in Seq(E) /\ t \in Seq(E) /\ Len(MkvHead) = 25 /\ Len(t) = 3
      BY <1>1, <1>2
    <3> QED  BY <3>1, BehindTable
  <2>2. ElementsOf(head, body) = u /\ HeadLen(head) = 25
    BY <1>3, <1>4 DEF HeadLen
  <2> HIDE DEF u
  <2>3. 25 + 1 = 26 /\ 25 + 2 = 27 /\ 25 + 3 = 28
    OBVIOUS
  <2> QED  BY <1>1, <2>1, <2>2, <2>3 DEF ChunkElements, Behind
<1>5. CASE ~head
  <2>1. ElementsOf(head, body) = t /\ HeadLen(head) = 0
    <3>1. <<>> \o t = t
      BY <1>1, ConcatEmptySeq
    <3> QED  BY <1>3, <1>5, <3>1 DEF HeadLen
  <2>2. DOMAIN t = 1..3
    BY <1>1
  <2> QED  BY <1>1, <2>1, <2>2 DEF ChunkElements
<1> QED  BY <1>4, <1>5

LEMMA ChunkNumbers ==
  ASSUME NEW els, NEW b \in {0, 25}, NEW body \in Nat, ChunkElements(els, b, body)
  PROVE  Len(els) \in Nat /\ Numbers(els, Len(els))
<1>1. Len(els) = b + 3
  BY DEF ChunkElements
<1>2. ASSUME NEW i \in 1..b+3 PROVE els[i].head \in Int /\ els[i].size \in Int /\ els[i].own \in Int
  <2>1. CASE i \in 1..b
    <3>1. i \in HeadTable /\ els[i] = MkvHead[i]
      BY <2>1 DEF HeadTable, ChunkElements
    <3> QED  BY <3>1, HeadNumbers
  <2>2. CASE i \in {b+1, b+2, b+3}
    <3>1. ClusterLen(body) \in Int /\ BlockLen(body) \in Int /\ 4 + body \in Int
      BY DEF ClusterLen, BlockLen, ClusterLoad, SimpleBlockLoad
    <3>2. els[i] \in {Cluster(body), Timecode, SimpleBlock(body)}
      BY <2>2 DEF ChunkElements
    <3>3. \A x \in {Cluster(body), Timecode, SimpleBlock(body)} :
            x.head \in Int /\ x.size \in Int /\ x.own \in Int
      BY <3>1 DEF Cluster, Timecode, SimpleBlock, Leaf, Master, Element
    <3> QED  BY <3>2, <3>3
  <2>3. i \in 1..b \/ i \in {b+1, b+2, b+3}
    OBVIOUS
  <2> QED  BY <2>1, <2>2, <2>3
<1> QED  BY <1>1, <1>2 DEF Numbers

(* Nothing lies within an element of which no other says so. *)
LEMMA NothingWithin ==
  ASSUME NEW els, NEW name, Len(els) \in Nat, Numbers(els, Len(els)),
         \A i \in 1..Len(els) : els[i].in # name
  PROVE  SizeWithin(els, name) = 0
<1> DEFINE n == Len(els)
           e == Within(els, name)
<1>1. PICK f : Sums(f, e, n) /\ f[n] = SizeWithin(els, name)
  BY WithinSum
<1>2. \A i \in 1..n : e[i] = 0
  BY DEF Within
<1> HIDE DEF e, n
<1>3. n \in Nat /\ 0 \in 0..n /\ n \in 0..n /\ \A i \in 0+1..n : i \in 1..n
  BY DEF n
<1>4. \A i \in 1..n : e[i] \in Int
  BY <1>2
<1>5. f[n] = f[0]
  BY <1>1, <1>2, <1>3, <1>4, SumsFlat
<1> QED  BY <1>1, <1>5 DEF Sums

(* Where the elements of a chunk lie. *)
LEMMA ChunkPlaces ==
  ASSUME NEW els, NEW b \in {0, 25}, NEW body \in Nat, ChunkElements(els, b, body)
  PROVE  /\ \A i \in 1..b+3 : els[i].in \in Parents
         /\ \A i \in 1..b : els[i].in = MkvHead[i].in /\ els[i].in # "Cluster"
         /\ els[b+1].in = "Segment" /\ els[b+2].in = "Cluster" /\ els[b+3].in = "Cluster"
<1>1. ASSUME NEW i \in 1..b
      PROVE  els[i].in \in Parents /\ els[i].in = MkvHead[i].in /\ els[i].in # "Cluster"
  <2>1. i \in HeadTable /\ els[i] = MkvHead[i]
    BY DEF HeadTable, ChunkElements
  <2>2. MkvHead[i].in \in {"file", "Segment", "Info", "Tracks", "Video", "TrackEntry"}
    BY <2>1, HeadPlaces
  <2> QED  BY <2>1, <2>2 DEF Parents
<1>2. els[b+1].in = "Segment" /\ els[b+2].in = "Cluster" /\ els[b+3].in = "Cluster"
  BY DEF ChunkElements, Cluster, Timecode, SimpleBlock, Leaf, Master, Element
<1>3. ASSUME NEW i \in 1..b+3 PROVE els[i].in \in Parents
  <2>1. i \in 1..b \/ i = b + 1 \/ i = b + 2 \/ i = b + 3
    OBVIOUS
  <2> QED  BY <1>1, <1>2, <2>1 DEF Parents
<1> QED  BY <1>1, <1>2, <1>3

LEMMA ClusterNests ==
  ASSUME NEW els, NEW b \in {0, 25}, NEW body \in Nat, ChunkElements(els, b, body)
  PROVE  SizeWithin(els, "Cluster") = ClusterLen(body)
<1> DEFINE e == Within(els, "Cluster")
           n == b + 3
<1>1. Len(els) = n /\ n \in Nat /\ Numbers(els, n)
  BY ChunkNumbers DEF ChunkElements
<1>2. PICK f : Sums(f, e, n) /\ f[n] = SizeWithin(els, "Cluster")
  BY <1>1, WithinSum
<1>3. \A i \in 1..n : e[i] \in Int
  BY <1>1, WithinSum
<1>4. \A i \in 1..b+1 : e[i] = 0
  <2>1. \A i \in 1..b+1 : i \in 1..n /\ (i \in 1..b \/ i = b + 1)
    OBVIOUS
  <2>2. \A i \in 1..b+1 : els[i].in # "Cluster"
    <3>1. els[b+1].in = "Segment" /\ \A i \in 1..b : els[i].in # "Cluster"
      <4>1. /\ \A i \in 1..b+3 : els[i].in \in Parents
            /\ \A i \in 1..b : els[i].in = MkvHead[i].in /\ els[i].in # "Cluster"
            /\ els[b+1].in = "Segment" /\ els[b+2].in = "Cluster" /\ els[b+3].in = "Cluster"
        BY ChunkPlaces, Zenon
      <4> QED  BY ONLY <4>1
    <3>2. els[b+1].in # "Cluster"
      BY <3>1
    <3> QED  BY <2>1, <3>1, <3>2
  <2> QED  BY <1>1, <2>1, <2>2 DEF Within
<1>5. e[b+2] = 10 /\ e[b+3] = 9 + BlockLen(body)
  <2>1. els[b+2].in = "Cluster" /\ els[b+3].in = "Cluster"
    BY ChunkPlaces
  <2>2. els[b+2].head = 2 /\ els[b+2].size = 8 /\ els[b+3].head = 9 /\ els[b+3].size = BlockLen(body)
    BY DEF ChunkElements, Timecode, SimpleBlock, Leaf, Element
  <2>3. b + 2 \in 1..Len(els) /\ b + 3 \in 1..Len(els)
    BY <1>1
  <2> QED  BY <2>1, <2>2, <2>3 DEF Within
<1> HIDE DEF e
<1>6. f[b+1] = 0
  <2>1. 0 \in 0..n /\ b + 1 \in 0..n /\ \A i \in 0+1..b+1 : i \in 1..b+1
    OBVIOUS
  <2>2. f[b+1] = f[0]
    BY <1>1, <1>2, <1>3, <1>4, <2>1, SumsFlat
  <2> QED  BY <1>2, <2>2 DEF Sums
<1>7. f[b+2] = f[b+1] + e[b+2] /\ f[b+3] = f[b+2] + e[b+3]
  <2>1. b + 2 \in 1..n /\ b + 3 \in 1..n /\ b + 2 - 1 = b + 1 /\ b + 3 - 1 = b + 2
    OBVIOUS
  <2>2. \A i \in 1..n : f[i] = f[i-1] + e[i]
    BY <1>2 DEF Sums
  <2> HIDE DEF n
  <2>3. f[b+2] = f[b+2-1] + e[b+2] /\ f[b+3] = f[b+3-1] + e[b+3]
    BY <2>1, <2>2
  <2> QED  BY <2>1, <2>3
<1>8. BlockLen(body) = body + 4 /\ ClusterLen(body) = body + 23
  BY DEF BlockLen, ClusterLen, ClusterLoad, SimpleBlockLoad
<1> QED  BY <1>2, <1>5, <1>6, <1>7, <1>8

(* What the elements of the table take, head and contents, and of those    *)
(* the ones within the one called name.                                    *)
Span == [k \in HeadTable |-> MkvHead[k].head + MkvHead[k].size]
Placed(name) == [k \in HeadTable |-> IF MkvHead[k].in = name THEN Span[k] ELSE 0]

LEMMA PlacedType == \A name : \A k \in 1..25 : Placed(name)[k] \in Int
<1>1. \A k \in HeadTable : Span[k] \in Int
  BY HeadNumbers DEF Span
<1> QED  BY <1>1 DEF Placed, HeadTable

LEMMA PlacedAt ==
  ASSUME NEW name, NEW k \in 1..25
  PROVE  /\ MkvHead[k].in = name => Placed(name)[k] = Span[k]
         /\ MkvHead[k].in # name => Placed(name)[k] = 0
BY DEF Placed, HeadTable

(* No element of the cluster lies within one of the table. *)
LEMMA TableWithin ==
  ASSUME NEW els, NEW body \in Nat, ChunkElements(els, 25, body),
         NEW name, name # "Segment", name # "Cluster"
  PROVE  \E f : Sums(f, Placed(name), 25) /\ f[25] = SizeWithin(els, name)
<1> DEFINE e == Within(els, name)
           g == Placed(name)
<1>1. Len(els) = 28 /\ Numbers(els, 28) /\ Len(els) \in Nat
  <2>1. Len(els) = 25 + 3 /\ Numbers(els, Len(els))
    BY ChunkNumbers DEF ChunkElements
  <2> QED  BY <2>1
<1>2. PICK f : Sums(f, e, 28) /\ f[28] = SizeWithin(els, name)
  BY <1>1, WithinSum
<1>3. \A i \in 1..28 : e[i] \in Int
  BY <1>1, WithinSum
<1>4. \A i \in 1..25 : e[i] = g[i]
  <2>1. \A i \in 1..25 : els[i] = MkvHead[i] /\ i \in HeadTable
    BY DEF ChunkElements, HeadTable
  <2>2. \A i \in 1..25 : i \in 1..Len(els)
    BY <1>1
  <2> QED  BY <2>1, <2>2 DEF Within, Placed, Span
<1>5. \A i \in 25+1..28 : e[i] = 0
  <2>1. els[25+1].in = "Segment" /\ els[25+2].in = "Cluster" /\ els[25+3].in = "Cluster"
    BY ChunkPlaces
  <2>2. els[26].in # name /\ els[27].in # name /\ els[28].in # name
    BY <2>1
  <2>3. \A i \in 25+1..28 : (i = 26 \/ i = 27 \/ i = 28) /\ i \in 1..Len(els)
    BY <1>1
  <2> QED  BY <2>2, <2>3 DEF Within
<1> HIDE DEF e, g
<1>6. f[28] = f[25]
  <2>1. ASSUME NEW a \in 0..28, NEW c \in a..28 PROVE (\A i \in a+1..c : e[i] = 0) => f[c] = f[a]
    <3> DEFINE n == 28
    <3>1. n \in Nat /\ a \in 0..n /\ c \in a..n
      OBVIOUS
    <3>2. Sums(f, e, n) /\ \A i \in 1..n : e[i] \in Int
      BY <1>2, <1>3
    <3> HIDE DEF n
    <3> QED  BY <2>1, <3>1, <3>2, SumsFlat
  <2>2. 25 \in 0..28 /\ 28 \in 25..28
    OBVIOUS
  <2>3. (\A i \in 25+1..28 : e[i] = 0) => f[28] = f[25]
    BY ONLY <2>1, <2>2
  <2> QED  BY ONLY <1>5, <2>3
<1>7. Sums(f, g, 25)
  BY <1>2, <1>4 DEF Sums
<1> QED  BY <1>2, <1>6, <1>7 DEF g

(* The containers of the table, each of which has its elements behind it.  *)
LEMMA ContainerSizes ==
  ASSUME NEW name, NEW f, Sums(f, Placed(name), 25)
  PROVE  /\ name = "Info" => f[25] = 69
         /\ name = "Tracks" => f[25] = 112
         /\ name = "TrackEntry" => f[25] = 103
         /\ name = "Video" => f[25] = 26
<1> DEFINE e == Placed(name)
<1>1. \A i \in 1..25 : e[i] \in Int
  BY PlacedType
<1>2. \A i \in 1..25 : /\ MkvHead[i].in = name => e[i] = Span[i]
                       /\ MkvHead[i].in # name => e[i] = 0
  BY PlacedAt
<1>3. f[0] = 0 /\ \A i \in 1..25 : f[i] = f[i-1] + e[i]
  BY DEF Sums
<1>4. ASSUME NEW a \in 0..25, NEW c \in a..25
      PROVE  (\A i \in a+1..c : MkvHead[i].in # name) => f[c] = f[a]
  <2> SUFFICES ASSUME \A i \in a+1..c : MkvHead[i].in # name PROVE f[c] = f[a]
    OBVIOUS
  <2>1. \A i \in a+1..c : i \in 1..25 /\ e[i] = 0
    BY <1>2
  <2> HIDE DEF e
  <2>2. 25 \in Nat /\ Sums(f, e, 25)
    BY DEF e
  <2>3. a \in 0..25 /\ c \in a..25 /\ \A i \in a+1..c : e[i] = 0
    BY ONLY <2>1, a \in 0..25, c \in a..25
  <2>4. \A x \in 0..25 : \A y \in x..25 : (\A i \in x+1..y : e[i] = 0) => f[y] = f[x]
    <3> DEFINE m == 25
    <3>1. m \in Nat /\ Sums(f, e, m) /\ \A i \in 1..m : e[i] \in Int
      BY ONLY <1>1, <2>2
    <3> HIDE DEF m
    <3>2. \A x \in 0..m : \A y \in x..m : (\A i \in x+1..y : e[i] = 0) => f[y] = f[x]
      BY ONLY <3>1, SumsFlat
    <3> QED  BY ONLY <3>2 DEF m
  <2> QED  BY ONLY <2>3, <2>4
<1> HIDE DEF e
<1>5. \A i \in 1..25 : MkvHead[i].in = IF i <= 2 THEN "file" ELSE IF i \in {3, 4, 10} THEN "Segment"
                                       ELSE IF i \in 5..9 THEN "Info" ELSE IF i = 11 THEN "Tracks"
                                       ELSE IF i \in 20..24 THEN "Video" ELSE "TrackEntry"
  BY HeadPlaces DEF HeadTable
<1>6. /\ Span[5] = 7 /\ Span[6] = 16 /\ Span[7] = 16 /\ Span[8] = 19 /\ Span[9] = 11
      /\ Span[11] = 112
      /\ Span[12] = 3 /\ Span[13] = 4 /\ Span[14] = 3 /\ Span[15] = 7 /\ Span[16] = 3 /\ Span[17] = 17
      /\ Span[18] = 3 /\ Span[19] = 35 /\ Span[25] = 28
      /\ Span[20] = 4 /\ Span[21] = 4 /\ Span[22] = 5 /\ Span[23] = 5 /\ Span[24] = 8
  BY HeadSpans DEF Span
<1>7. CASE name = "Info"
  <2>1. f[4] = f[0]
    <3>1. \A i \in 0+1..4 : i \in 1..25 /\ i < 5
      OBVIOUS
    <3>2. \A i \in 0+1..4 : MkvHead[i].in # name
      BY <1>5, <1>7, <3>1
    <3>3. 0 \in 0..25 /\ 4 \in 0..25
      OBVIOUS
    <3>4. (\A i \in 0+1..4 : MkvHead[i].in # name) => f[4] = f[0]
      BY ONLY <1>4, <3>3
    <3> QED  BY ONLY <3>2, <3>4
  <2>2. f[25] = f[9]
    <3>1. \A i \in 9+1..25 : i \in 1..25 /\ i > 9
      OBVIOUS
    <3>2. \A i \in 9+1..25 : MkvHead[i].in # name
      BY <1>5, <1>7, <3>1
    <3>3. 9 \in 0..25 /\ 25 \in 9..25
      OBVIOUS
    <3>4. (\A i \in 9+1..25 : MkvHead[i].in # name) => f[25] = f[9]
      BY ONLY <1>4, <3>3
    <3> QED  BY ONLY <3>2, <3>4
  <2>3. \A i \in 5..9 : i \in 1..25 /\ MkvHead[i].in = name
    BY <1>5, <1>7
  <2>4. e[5] = 7 /\ e[6] = 16 /\ e[7] = 16 /\ e[8] = 19 /\ e[9] = 11
    BY <1>2, <1>6, <2>3
  <2>5. f[5] = f[4] + e[5] /\ f[6] = f[5] + e[6] /\ f[7] = f[6] + e[7] /\ f[8] = f[7] + e[8]
        /\ f[9] = f[8] + e[9]
    BY <1>3
  <2>6. f[25] = 69
    BY <1>3, <2>1, <2>2, <2>4, <2>5
  <2> QED  BY <1>7, <2>6
<1>8. CASE name = "Tracks"
  <2>1. f[10] = f[0]
    <3>1. \A i \in 0+1..10 : i \in 1..25 /\ i < 11
      OBVIOUS
    <3>2. \A i \in 0+1..10 : MkvHead[i].in # name
      BY <1>5, <1>8, <3>1
    <3>3. 0 \in 0..25 /\ 10 \in 0..25
      OBVIOUS
    <3>4. (\A i \in 0+1..10 : MkvHead[i].in # name) => f[10] = f[0]
      BY ONLY <1>4, <3>3
    <3> QED  BY ONLY <3>2, <3>4
  <2>2. f[25] = f[11]
    <3>1. \A i \in 11+1..25 : i \in 1..25 /\ i > 11
      OBVIOUS
    <3>2. \A i \in 11+1..25 : MkvHead[i].in # name
      BY <1>5, <1>8, <3>1
    <3>3. 11 \in 0..25 /\ 25 \in 11..25
      OBVIOUS
    <3>4. (\A i \in 11+1..25 : MkvHead[i].in # name) => f[25] = f[11]
      BY ONLY <1>4, <3>3
    <3> QED  BY ONLY <3>2, <3>4
  <2>3. e[11] = 112
    BY <1>2, <1>5, <1>6, <1>8
  <2>4. f[11] = f[10] + e[11]
    BY <1>3
  <2>5. f[25] = 112
    BY <1>3, <2>1, <2>2, <2>3, <2>4
  <2> QED  BY <1>8, <2>5
<1>9. CASE name = "TrackEntry"
  <2>1. f[11] = f[0]
    <3>1. \A i \in 0+1..11 : i \in 1..25 /\ i < 12
      OBVIOUS
    <3>2. \A i \in 0+1..11 : MkvHead[i].in # name
      BY <1>5, <1>9, <3>1
    <3>3. 0 \in 0..25 /\ 11 \in 0..25
      OBVIOUS
    <3>4. (\A i \in 0+1..11 : MkvHead[i].in # name) => f[11] = f[0]
      BY ONLY <1>4, <3>3
    <3> QED  BY ONLY <3>2, <3>4
  <2>2. f[24] = f[19]
    <3>1. \A i \in 19+1..24 : i \in 1..25 /\ i \in 20..24
      OBVIOUS
    <3>2. \A i \in 19+1..24 : MkvHead[i].in # name
      BY <1>5, <1>9, <3>1
    <3>3. 19 \in 0..25 /\ 24 \in 19..25
      OBVIOUS
    <3>4. (\A i \in 19+1..24 : MkvHead[i].in # name) => f[24] = f[19]
      BY ONLY <1>4, <3>3
    <3> QED  BY ONLY <3>2, <3>4
  <2>3. \A i \in 12..19 : i \in 1..25 /\ MkvHead[i].in = name
    BY <1>5, <1>9
  <2>4. e[12] = 3 /\ e[13] = 4 /\ e[14] = 3 /\ e[15] = 7 /\ e[16] = 3 /\ e[17] = 17 /\ e[18] = 3
        /\ e[19] = 35
    BY <1>2, <1>6, <2>3
  <2>5. e[25] = 28
    BY <1>2, <1>5, <1>6, <1>9
  <2>6. f[12] = f[11] + e[12] /\ f[13] = f[12] + e[13] /\ f[14] = f[13] + e[14] /\ f[15] = f[14] + e[15]
        /\ f[16] = f[15] + e[16] /\ f[17] = f[16] + e[17] /\ f[18] = f[17] + e[18] /\ f[19] = f[18] + e[19]
        /\ f[25] = f[24] + e[25]
    BY <1>3
  <2>7. f[25] = 103
    BY <1>3, <2>1, <2>2, <2>4, <2>5, <2>6
  <2> QED  BY <1>9, <2>7
<1>10. CASE name = "Video"
  <2>1. f[19] = f[0]
    <3>1. \A i \in 0+1..19 : i \in 1..25 /\ i < 20
      OBVIOUS
    <3>2. \A i \in 0+1..19 : MkvHead[i].in # name
      BY <1>5, <1>10, <3>1
    <3>3. 0 \in 0..25 /\ 19 \in 0..25
      OBVIOUS
    <3>4. (\A i \in 0+1..19 : MkvHead[i].in # name) => f[19] = f[0]
      BY ONLY <1>4, <3>3
    <3> QED  BY ONLY <3>2, <3>4
  <2>2. f[25] = f[24]
    <3>1. \A i \in 24+1..25 : i \in 1..25 /\ i = 25
      OBVIOUS
    <3>2. \A i \in 24+1..25 : MkvHead[i].in # name
      BY <1>5, <1>10, <3>1
    <3>3. 24 \in 0..25 /\ 25 \in 24..25
      OBVIOUS
    <3>4. (\A i \in 24+1..25 : MkvHead[i].in # name) => f[25] = f[24]
      BY ONLY <1>4, <3>3
    <3> QED  BY ONLY <3>2, <3>4
  <2>3. \A i \in 20..24 : i \in 1..25 /\ MkvHead[i].in = name
    BY <1>5, <1>10
  <2>4. e[20] = 4 /\ e[21] = 4 /\ e[22] = 5 /\ e[23] = 5 /\ e[24] = 8
    BY <1>2, <1>6, <2>3
  <2>5. f[20] = f[19] + e[20] /\ f[21] = f[20] + e[21] /\ f[22] = f[21] + e[22] /\ f[23] = f[22] + e[23]
        /\ f[24] = f[23] + e[24]
    BY <1>3
  <2>6. f[25] = 26
    BY <1>3, <2>1, <2>2, <2>4, <2>5
  <2> QED  BY <1>10, <2>6
<1> QED  BY <1>7, <1>8, <1>9, <1>10

LEMMA TableNests ==
  ASSUME NEW els, NEW body \in Nat, ChunkElements(els, 25, body)
  PROVE  /\ SizeWithin(els, "Info") = 69 /\ SizeWithin(els, "Tracks") = 112
         /\ SizeWithin(els, "TrackEntry") = 103 /\ SizeWithin(els, "Video") = 26
<1>1. ASSUME NEW name \in {"Info", "Tracks", "TrackEntry", "Video"}
      PROVE  \E f : Sums(f, Placed(name), 25) /\ f[25] = SizeWithin(els, name)
  BY TableWithin
<1> QED  BY <1>1, ContainerSizes

(* Every size field of a chunk is right, for video of every length. *)
LEMMA ChunkNests ==
  ASSUME NEW head \in BOOLEAN, NEW body \in Nat
  PROVE  SizesNest(ElementsOf(head, body))
<1> DEFINE els == ElementsOf(head, body)
           b == HeadLen(head)
<1>1. b \in {0, 25} /\ ChunkElements(els, b, body)
  BY ElementsAre DEF HeadLen
<1> HIDE DEF els, b
<1>2. Len(els) \in Nat /\ Numbers(els, Len(els)) /\ Len(els) = b + 3 /\ DOMAIN els = 1..b+3
  BY <1>1, ChunkNumbers DEF ChunkElements
<1>3. \A i \in 1..Len(els) : els[i].in \in Parents
  BY <1>1, <1>2, ChunkPlaces
<1>4. ASSUME NEW name, name \notin Parents PROVE SizeWithin(els, name) = 0
  BY <1>2, <1>3, <1>4, NothingWithin
<1>5. ASSUME NEW k \in 1..b, els[k].size # Unknown
      PROVE  els[k].size = els[k].own + SizeWithin(els, els[k].name)
  <2>1. b = 25 /\ k \in HeadTable /\ els[k] = MkvHead[k]
    BY <1>1 DEF HeadTable, ChunkElements
  <2>2. CASE k \notin Containers
    <3>1. els[k].own = els[k].size /\ els[k].name \notin Parents /\ els[k].size \in Int
      BY <2>1, <2>2, HeadLeaves, HeadNumbers
    <3>2. SizeWithin(els, els[k].name) = 0
      BY <1>4, <3>1
    <3> QED  BY <3>1, <3>2
  <2>3. CASE k \in Containers
    <3>1. /\ SizeWithin(els, "Info") = 69 /\ SizeWithin(els, "Tracks") = 112
          /\ SizeWithin(els, "TrackEntry") = 103 /\ SizeWithin(els, "Video") = 26
      BY <1>1, <2>1, TableNests
    <3>2. k \in {4, 10, 11, 19}
      BY <1>5, <2>1, <2>3, HeadContainers DEF Containers
    <3> QED  BY <2>1, <3>1, <3>2, HeadContainers
  <2> QED  BY <2>2, <2>3
<1>6. els[b+1].size = els[b+1].own + SizeWithin(els, els[b+1].name)
  <2>1. els[b+1].name = "Cluster" /\ els[b+1].size = ClusterLen(body) /\ els[b+1].own = 0
    BY <1>1 DEF ChunkElements, Cluster, Master, Element
  <2>2. SizeWithin(els, "Cluster") = ClusterLen(body) /\ ClusterLen(body) \in Int
    BY <1>1, ClusterNests DEF ClusterLen, ClusterLoad, SimpleBlockLoad
  <2> QED  BY <2>1, <2>2
<1>7. els[b+2].size = els[b+2].own + SizeWithin(els, els[b+2].name)
  <2>1. els[b+2].name = "Timecode" /\ els[b+2].size = 8 /\ els[b+2].own = 8
    BY <1>1 DEF ChunkElements, Timecode, Leaf, Element
  <2>2. SizeWithin(els, "Timecode") = 0
    BY <1>4 DEF Parents
  <2> QED  BY <2>1, <2>2
<1>8. els[b+3].size = els[b+3].own + SizeWithin(els, els[b+3].name)
  <2>1. els[b+3].name = "SimpleBlock" /\ els[b+3].size = BlockLen(body) /\ els[b+3].own = 4 + body
    BY <1>1 DEF ChunkElements, SimpleBlock, Element
  <2>2. SizeWithin(els, "SimpleBlock") = 0
    BY <1>4 DEF Parents
  <2>3. BlockLen(body) = 4 + body
    BY DEF BlockLen, SimpleBlockLoad
  <2> QED  BY <2>1, <2>2, <2>3
<1>9. \A k \in 1..b+3 : k \in 1..b \/ k = b + 1 \/ k = b + 2 \/ k = b + 3
  BY <1>1
<1>10. SizesNest(els)
  <2>1. ASSUME NEW k \in 1..b+3, els[k].size # Unknown
        PROVE  els[k].size = els[k].own + SizeWithin(els, els[k].name)
    BY <1>5, <1>6, <1>7, <1>8, <1>9, <2>1
  <2> QED  BY <1>2, <2>1 DEF SizesNest
<1> QED  BY <1>10 DEF els

(* What is written is what the sizes add up to. *)
LEMMA ChunkBytes ==
  ASSUME NEW head \in BOOLEAN, NEW body \in Nat
  PROVE  LET els == ElementsOf(head, body) IN BytesOf(els, Len(els)) = PayloadLen(head, body)
<1> DEFINE els == ElementsOf(head, body)
           b == HeadLen(head)
           n == b + 3
           e == Bytes(els, n)
<1>1. b \in {0, 25} /\ ChunkElements(els, b, body)
  BY ElementsAre DEF HeadLen
<1> HIDE DEF els, b
<1>2. Len(els) = n /\ n \in Nat /\ Numbers(els, n)
  BY <1>1, ChunkNumbers DEF ChunkElements
<1>3. PICK f : Sums(f, e, n) /\ f[n] = BytesOf(els, n)
  BY <1>2, BytesSum
<1>4. f[b] = IF head THEN MainHeaderLoad ELSE 0
  <2>1. CASE ~head
    <3>1. b = 0
      BY <2>1 DEF b, HeadLen
    <3> QED  BY <1>3, <2>1, <3>1 DEF Sums
  <2>2. CASE head
    <3>1. b = 25
      BY <2>2 DEF b, HeadLen
    <3>2. \A i \in 1..25 : e[i] = Bytes(MkvHead, 25)[i] /\ i \in 1..n
      BY <1>1, <3>1 DEF ChunkElements, Bytes
    <3> HIDE DEF e
    <3>3. Sums(f, Bytes(MkvHead, 25), 25)
      BY <1>3, <3>2 DEF Sums
    <3> QED  BY <2>2, <3>1, <3>3, HeadOffsets
  <2> QED  BY <2>1, <2>2
<1>5. e[b+1] = 12 /\ e[b+2] = 10 /\ e[b+3] = 13 + body
  <2>1. els[b+1].head = 12 /\ els[b+1].own = 0 /\ els[b+2].head = 2 /\ els[b+2].own = 8
        /\ els[b+3].head = 9 /\ els[b+3].own = 4 + body
    BY <1>1 DEF ChunkElements, Cluster, Timecode, SimpleBlock, Leaf, Master, Element
  <2>2. b + 1 \in 1..n /\ b + 2 \in 1..n /\ b + 3 \in 1..n
    BY <1>1
  <2>3. e[b+1] = 12 + 0 /\ e[b+2] = 2 + 8 /\ e[b+3] = 9 + (4 + body)
    BY <2>1, <2>2 DEF Bytes
  <2> QED  BY <2>3
<1> HIDE DEF e
<1>6. f[b+1] = f[b] + e[b+1] /\ f[b+2] = f[b+1] + e[b+2] /\ f[b+3] = f[b+2] + e[b+3]
  <2>1. b + 1 \in 1..n /\ b + 2 \in 1..n /\ b + 3 \in 1..n
        /\ b + 1 - 1 = b /\ b + 2 - 1 = b + 1 /\ b + 3 - 1 = b + 2
    BY <1>1
  <2>2. \A i \in 1..n : f[i] = f[i-1] + e[i]
    BY <1>3 DEF Sums
  <2> HIDE DEF n
  <2>3. f[b+1] = f[b+1-1] + e[b+1] /\ f[b+2] = f[b+2-1] + e[b+2] /\ f[b+3] = f[b+3-1] + e[b+3]
    BY <1>1, <2>1, <2>2
  <2> QED  BY <1>1, <2>1, <2>3
<1>7. f[b+3] = PayloadLen(head, body)
  BY <1>4, <1>5, <1>6 DEF PayloadLen, ClusterLoad, SimpleBlockLoad, MainHeaderLoad
<1> QED  BY <1>2, <1>3, <1>7 DEF els

(* A file is well formed, whatever the lengths of its frames: the sizes in *)
(* dt_convert_frame_to_mkv()'s chunks fill each other, what is written is  *)
(* as long as they say and as dst_len does, it stays within the buffer,    *)
(* and every patched field of the main header is the whole of the field.   *)
THEOREM FileWellFormed == Spec => []ChunksWellFormed
<1>1. ASSUME IInv, NEW k \in DOMAIN written
      PROVE  LET c == written[k]  els == ElementsOf(c.head, c.body) IN
               /\ SizesNest(els)
               /\ BytesOf(els, Len(els)) = c.dst_len /\ c.dst_len <= MaxDst
               /\ c.head => PatchesLand
  <2> DEFINE c == written[k]
  <2>1. k \in 1..Len(written) /\ c \in Chunks
    BY <1>1 DEF IInv, WrittenType
  <2>2. c.head \in BOOLEAN /\ c.body \in Nat
    BY <2>1 DEF Chunks
  <2>3. c.dst_len = PayloadLen(c.head, c.body) /\ c.dst_len <= MaxDst
    BY <1>1, <2>1 DEF IInv, AllKept, TimingKept
  <2> HIDE DEF c
  <2>4. SizesNest(ElementsOf(c.head, c.body))
    BY <2>2, ChunkNests
  <2>5. BytesOf(ElementsOf(c.head, c.body), Len(ElementsOf(c.head, c.body))) = PayloadLen(c.head, c.body)
    BY <2>2, ChunkBytes
  <2> QED  BY <2>3, <2>4, <2>5, PatchesLandThere DEF c
<1>2. IInv => ChunksWellFormed
  BY <1>1 DEF ChunksWellFormed
<1> QED  BY <1>2, SpecIInv, PTL
=============================================================================
