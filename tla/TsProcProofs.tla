---------------------------- MODULE TsProcProofs ----------------------------
(***************************************************************************)
(* Proofs about dt_tsproc_process() for every frame rate, every damping    *)
(* and streams of any length and any timestamps.                           *)
(***************************************************************************)
EXTENDS TsProc, TLAPS

(* Multiples of a reference period. *)
LEMMA Multiple ==
  ASSUME NEW q \in Int, NEW r \in Nat \ {0}
  PROVE  /\ q * r \in Int
         /\ (-q) * r = -(q * r)
         /\ q >= 0 => q * r >= 0
         /\ q >= 3 => q * r >= 3 * r
<1>1. q * r \in Int OBVIOUS
<1>2. (-q) * r = -(q * r) OBVIOUS
<1>3. q >= 0 => q * r >= 0 OBVIOUS
<1>4. q >= 3 => q * r >= 3 * r OBVIOUS
<1> QED BY <1>1, <1>2, <1>3, <1>4

(* The quotient of two naturals. *)
LEMMA Quotient ==
  ASSUME NEW a \in Nat, NEW r \in Nat \ {0}
  PROVE  /\ a \div r \in Nat
         /\ (a \div r) * r <= a /\ a < (a \div r) * r + r
<1>1. a \div r \in Int OBVIOUS
<1>2. r * (a \div r) <= a /\ a < r * (a \div r) + r OBVIOUS
<1>3. r * (a \div r) = (a \div r) * r BY <1>1
<1>4. a \div r >= 0
  <2> SUFFICES ASSUME a \div r <= -1 PROVE FALSE BY <1>1
  <2>1. -(a \div r) >= 1 BY <1>1
  <2>2. (-(a \div r)) * r >= r BY <1>1, <2>1
  <2>3. (-(a \div r)) * r = -((a \div r) * r) BY <1>1, Multiple
  <2>4. (a \div r) * r \in Int BY <1>1
  <2> QED BY <1>2, <1>3, <2>2, <2>3, <2>4
<1> QED BY <1>1, <1>2, <1>3, <1>4

(* What Trunc() takes off is of the sign of a and leaves less than r.      *)
LEMMA TruncBounds ==
  ASSUME NEW a \in Int, NEW r \in Nat \ {0}
  PROVE  /\ Trunc(a, r) \in Int /\ Trunc(a, r) * r \in Int
         /\ a >= 0 => 0 <= Trunc(a, r) * r /\ Trunc(a, r) * r <= a
                      /\ a < Trunc(a, r) * r + r
         /\ a < 0 => Trunc(a, r) * r <= 0 /\ a <= Trunc(a, r) * r
                     /\ Trunc(a, r) * r - r < a
         /\ a >= 0 /\ Abs(Trunc(a, r)) > 2 => Trunc(a, r) * r >= 3 * r
         /\ a < 0 /\ Abs(Trunc(a, r)) > 2 => Trunc(a, r) * r <= -(3 * r)
<1>1. CASE a >= 0
  <2> DEFINE q == a \div r
  <2>1. Trunc(a, r) = q BY <1>1 DEF Trunc
  <2>2. q \in Nat /\ q * r <= a /\ a < q * r + r BY <1>1, Quotient
  <2>3. Abs(q) > 2 => q >= 3 BY <2>2 DEF Abs
  <2> HIDE DEF q
  <2>4. q * r \in Int /\ q * r >= 0 /\ (q >= 3 => q * r >= 3 * r)
    BY <2>2, Multiple
  <2> QED BY <1>1, <2>1, <2>2, <2>3, <2>4
<1>2. CASE a < 0
  <2> DEFINE q == (-a) \div r
  <2>1. Trunc(a, r) = -q BY <1>2 DEF Trunc
  <2>2. -a \in Nat BY <1>2
  <2>3. q \in Nat /\ q * r <= -a /\ -a < q * r + r BY <2>2, Quotient
  <2> HIDE DEF q
  <2>4. Abs(-q) > 2 => q >= 3 BY <2>3 DEF Abs
  <2>5. /\ q * r \in Int /\ (-q) * r = -(q * r) /\ q * r >= 0
        /\ q >= 3 => q * r >= 3 * r
    BY <2>3, Multiple
  <2>6. -q \in Int BY <2>3
  <2> QED BY <1>2, <2>1, <2>3, <2>4, <2>5, <2>6
<1> QED BY <1>1, <1>2
-----------------------------------------------------------------------------
(***************************************************************************)
(* Type correctness, for changing frame rates too.  The result does not    *)
(* fall below 0 as it never falls below where it stood when the statistics *)
(* were last reset, sdc_eff ago.                                           *)
(***************************************************************************)
TInv == TypeOK /\ sdc_eff <= v_ts

LEMMA InitTInv == Init => TInv
BY TsProcAssumption DEF Init, TInv, TypeOK

(* What each branch of dt_tsproc_process() has in common. *)
Timed(ts, r, lapse) ==
  /\ ts \in 0..Wrap-1 /\ r \in RefPeriods /\ lapse \in 0..Wrap-1
  /\ frame' = frame + 1 /\ first' = first
  /\ dhav_ts' = ts /\ ref' = r

LEMMA NextFrameTimed ==
  ASSUME TypeOK, NextFrame
  PROVE  \E ts, r, lapse :
           /\ Timed(ts, r, lapse)
           /\ \/ EpochJump(r)
              \/ FastDrift(r, lapse)
              \/ InStep(r, lapse)
              \/ SlowDriftLarge(r, lapse)
              \/ SlowDriftOne(r, lapse)
<1>1. PICK ts \in {(dhav_ts + l) % Wrap : l \in Lapses}, r \in RefPeriods :
        /\ dhav_ts' = ts /\ ref' = r
        /\ \/ EpochJump(r)
           \/ FastDrift(r, (ts - dhav_ts) % Wrap)
           \/ InStep(r, (ts - dhav_ts) % Wrap)
           \/ SlowDriftLarge(r, (ts - dhav_ts) % Wrap)
           \/ SlowDriftOne(r, (ts - dhav_ts) % Wrap)
  BY DEF NextFrame
<1>2. PICK l \in Lapses : ts = (dhav_ts + l) % Wrap BY <1>1
<1>3. dhav_ts \in Int /\ l \in Int /\ Wrap \in Nat \ {0}
  BY TsProcAssumption DEF TypeOK
<1>4. ts \in 0..Wrap-1 BY <1>2, <1>3
<1>5. (ts - dhav_ts) % Wrap \in 0..Wrap-1 BY <1>3, <1>4
<1>6. frame' = frame + 1 /\ first' = first BY DEF NextFrame
<1>7. Timed(ts, r, (ts - dhav_ts) % Wrap) BY <1>1, <1>4, <1>5, <1>6 DEF Timed
<1> QED BY <1>1, <1>7

LEMMA NextTInv == TInv /\ [Next]_vars => TInv'
<1> SUFFICES ASSUME TInv, [Next]_vars PROVE TInv' OBVIOUS
<1>1. /\ TypeOK /\ v_ts \in Nat /\ v_dhav \in Nat /\ frame \in Nat
      /\ sdc_dhav \in Nat /\ sdc_eff \in Nat /\ sdc_frames \in Nat /\ sdc_eff <= v_ts
  BY DEF TInv, TypeOK
<1>2. CASE FirstFrame
  <2>1. v_ts' = 0 /\ v_dhav' = 0 /\ sdc_dhav' = 0 /\ sdc_eff' = 0 /\ sdc_frames' = 0
    BY <1>2 DEF FirstFrame, ResetStats
  <2>2. frame' \in Nat /\ path' = "first"
    BY <1>1, <1>2 DEF FirstFrame
  <2>4. first' \in BOOLEAN BY <1>2, Zenon DEF FirstFrame
  <2>3. dhav_ts' \in 0..Wrap-1 /\ ref' \in RefPeriods
    BY <1>1, <1>2 DEF FirstFrame, TypeOK
  <2> QED BY <2>1, <2>2, <2>3, <2>4 DEF TInv, TypeOK
<1>3. CASE NextFrame
  <2>1. PICK ts, r, lapse :
          /\ Timed(ts, r, lapse)
          /\ \/ EpochJump(r)
             \/ FastDrift(r, lapse)
             \/ InStep(r, lapse)
             \/ SlowDriftLarge(r, lapse)
             \/ SlowDriftOne(r, lapse)
    BY <1>1, <1>3, NextFrameTimed
  <2>2. r \in Nat \ {0} /\ lapse \in Nat BY <2>1, TsProcAssumption DEF Timed
  <2>3. ASSUME /\ v_ts' \in Nat /\ v_dhav' \in Nat
               /\ sdc_dhav' \in Nat /\ sdc_eff' \in Nat /\ sdc_frames' \in Nat
               /\ sdc_eff' <= v_ts'
               /\ path' \in {"step", "epoch", "fast",
                             "slow_large", "slow_ahead", "slow_behind"}
        PROVE  TInv'
    <3>1. first' \in BOOLEAN /\ dhav_ts' \in 0..Wrap-1 /\ ref' \in RefPeriods
      BY <1>1, <2>1 DEF Timed, TypeOK
    <3>2. frame' \in Nat BY <1>1, <2>1 DEF Timed
    <3> QED BY <2>3, <3>1, <3>2 DEF TInv, TypeOK
  <2>4. CASE EpochJump(r)
    BY <1>1, <2>2, <2>3, <2>4 DEF EpochJump, AfterCorrection, ResetStats
  <2>5. CASE FastDrift(r, lapse)
    <3> DEFINE d == Drift(r, lapse)
               p == Trunc(d, r) * r
    <3>1. d \in Int /\ d = (v_dhav + lapse) - (v_ts + r) BY <1>1, <2>2 DEF Drift
    <3>2. v_ts' = v_ts + (r + p) /\ v_dhav' = v_dhav + lapse
      BY <2>5 DEF FastDrift, Advance
    <3> HIDE DEF d
    <3>3. p \in Int /\ (d >= 0 => p >= 0) /\ (d < 0 => p >= d)
      BY <3>1, <2>2, TruncBounds
    <3> HIDE DEF p
    <3>4. v_ts' \in Nat /\ v_dhav' \in Nat BY <1>1, <2>2, <3>1, <3>2, <3>3
    <3> QED BY <2>3, <2>5, <3>4 DEF FastDrift, AfterCorrection, ResetStats
  <2>6. CASE InStep(r, lapse)
    BY <1>1, <2>2, <2>3, <2>6 DEF InStep, Advance
  <2>7. CASE SlowDriftLarge(r, lapse)
    <3> DEFINE d == SlowDiff(r, lapse)
               p == Trunc(d, r) * r
    <3>1. d \in Int /\ d = (sdc_dhav + lapse) - (sdc_eff + r)
      BY <1>1, <2>2 DEF SlowDiff
    <3>2. v_ts' = v_ts + (r + p) /\ v_dhav' = v_dhav + lapse
      BY <2>7 DEF SlowDriftLarge, Advance
    <3> HIDE DEF d
    <3>3. p \in Int /\ (d >= 0 => p >= 0) /\ (d < 0 => p >= d)
      BY <3>1, <2>2, TruncBounds
    <3> HIDE DEF p
    <3>4. v_ts' \in Nat /\ v_dhav' \in Nat BY <1>1, <2>2, <3>1, <3>2, <3>3
    <3> QED BY <2>3, <2>7, <3>4 DEF SlowDriftLarge, AfterCorrection, ResetStats
  <2>8. CASE SlowDriftOne(r, lapse)
    BY <1>1, <2>2, <2>3, <2>8 DEF SlowDriftOne, Advance, OnePeriod
  <2> QED BY <2>1, <2>4, <2>5, <2>6, <2>7, <2>8
<1>4. CASE UNCHANGED vars
  BY <1>4, <1>1 DEF vars, TInv, TypeOK
<1> QED BY <1>2, <1>3, <1>4 DEF Next

LEMMA SpecTInv == Spec => []TInv
BY InitTInv, NextTInv, PTL DEF Spec

(* No correction takes the unsigned result below 0, whatever timestamps    *)
(* and frame rates the DVR sends.                                          *)
THEOREM TimestampsTypeCorrect == Spec => []TypeOK
<1>1. TInv => TypeOK BY DEF TInv
<1> QED BY <1>1, SpecTInv, PTL
-----------------------------------------------------------------------------
(***************************************************************************)
(* With the source's damping limit and frame rates that may change with    *)
(* every I-frame, of which one has the longest period (a frame rate is a   *)
(* byte).  The argument: a fast drift is corrected beyond four periods, a  *)
(* slow one by the statistics from three on.  So what a slow correction    *)
(* leaves over is within 4 - 3 periods of what the clocks tell, and the    *)
(* statistics are never farther than the longest period from the clocks,   *)
(* whatever periods they were collected in.                                *)
(***************************************************************************)
SourceRates == Damping = 4 /\ \E r \in RefPeriods : \A s \in RefPeriods : s <= r

(* Frame rates of which none is more than half as high again as another.   *)
NearRates == SourceRates /\ \A r, s \in RefPeriods : 2 * s <= 3 * r

CInv == TInv /\ StaysClose /\ StatsFollowClocks

LEMMA TheRates ==
  ASSUME SourceRates
  PROVE  /\ MaxRef \in RefPeriods /\ MaxRef \in Nat \ {0}
         /\ (Damping + 1) * MaxRef = 5 * MaxRef
         /\ \A r \in RefPeriods : r \in Nat \ {0} /\ r <= MaxRef /\ Damping * r = 4 * r
<1>1. Damping = 4 BY DEF SourceRates
<1>2. MaxRef \in RefPeriods /\ \A s \in RefPeriods : s <= MaxRef
  BY DEF SourceRates, MaxRef
<1>3. \A r \in RefPeriods : r \in Nat \ {0} BY TsProcAssumption
<1> HIDE DEF MaxRef
<1> QED BY <1>1, <1>2, <1>3

(* One call, as the two differences before and after it: d of the clocks,  *)
(* s of the statistics, with this frame's lapse and one period r counted.  *)
Call(r, d, s) ==
  /\ d - s <= MaxRef /\ s - d <= MaxRef
  /\ v_dhav' - (v_ts + ref') \in Int
  /\ \/ path' = "epoch" /\ v_dhav' - v_ts' = 0 /\ sdc_dhav' - sdc_eff' = 0
     \/ /\ path' = "fast" /\ d = v_dhav' - (v_ts + ref')
        /\ \E p \in Int :
             /\ d >= 0 => 0 <= p /\ p <= d /\ d < p + r
             /\ d < 0 => p <= 0 /\ d <= p /\ p - r < d
             /\ v_dhav' - v_ts' = d - p /\ sdc_dhav' - sdc_eff' = 0
     \/ /\ path' = "step" /\ d <= 4 * r /\ -d <= 4 * r
        /\ v_dhav' - v_ts' = d /\ sdc_dhav' - sdc_eff' = s
     \/ /\ path' = "slow_large" /\ d = v_dhav' - (v_ts + ref')
        /\ d <= 4 * r /\ -d <= 4 * r
        /\ \E p \in Int :
             /\ s >= 0 => 3 * r <= p /\ p <= s /\ s < p + r
             /\ s < 0 => p <= -(3 * r) /\ s <= p /\ p - r < s
             /\ v_dhav' - v_ts' = d - p /\ sdc_dhav' - sdc_eff' = 0
     \/ /\ path' \in {"slow_ahead", "slow_behind"}
        /\ path' = "slow_ahead" => s > 2 * r
        /\ d = v_dhav' - (v_ts + ref')
        /\ d <= 4 * r /\ -d <= 4 * r
        /\ v_dhav' - v_ts' = d - r /\ sdc_dhav' - sdc_eff' = s - r

LEMMA OneCall ==
  ASSUME SourceRates, CInv, NextFrame
  PROVE  \E r \in RefPeriods, d \in Int, s \in Int : Call(r, d, s)
<1> DEFINE m == MaxRef
<1>1. /\ TypeOK /\ v_ts \in Nat /\ v_dhav \in Nat
      /\ sdc_dhav \in Nat /\ sdc_eff \in Nat
  BY DEF CInv, TInv, TypeOK
<1>3. PICK ts, r, lapse :
        /\ Timed(ts, r, lapse)
        /\ \/ EpochJump(r)
           \/ FastDrift(r, lapse)
           \/ InStep(r, lapse)
           \/ SlowDriftLarge(r, lapse)
           \/ SlowDriftOne(r, lapse)
  BY <1>1, NextFrameTimed
<1>4. r \in RefPeriods /\ lapse \in Nat /\ ref' = r BY <1>3, TsProcAssumption DEF Timed
<1>2. /\ r \in Nat \ {0} /\ m \in Nat \ {0} /\ r <= m
      /\ Damping * r = 4 * r
  BY <1>4, TheRates
<1> DEFINE d == Drift(r, lapse)
           s == SlowDiff(r, lapse)
<1>5. /\ d \in Int /\ d = (v_dhav + lapse) - (v_ts + r)
      /\ s \in Int /\ s = (sdc_dhav + lapse) - (sdc_eff + r)
  BY <1>1, <1>2, <1>4 DEF Drift, SlowDiff
<1>6. d - s <= m /\ s - d <= m
  <2>1. Abs((v_dhav - v_ts) - (sdc_dhav - sdc_eff)) <= m BY DEF CInv, StatsFollowClocks
  <2>2. d - s = (v_dhav - v_ts) - (sdc_dhav - sdc_eff) BY <1>1, <1>2, <1>4, <1>5
  <2>3. Abs(d - s) <= m BY <2>1, <2>2
  <2> QED BY <1>2, <1>5, <2>3 DEF Abs
<1>7. /\ Drifted(r, lapse) <=> Abs(d) > 4 * r
      /\ SlowDrifted(r, lapse) => Abs(s) > 2 * r
  BY <1>2 DEF Drifted, SlowDrifted
<1> HIDE DEF d, s, m
<1>8. ~Drifted(r, lapse) => d <= 4 * r /\ -d <= 4 * r
  BY <1>2, <1>5, <1>7 DEF Abs
<1> SUFFICES Call(r, d, s)
  BY <1>4, <1>5
<1>9. CASE EpochJump(r)
  <2>1. /\ path' = "epoch" /\ v_dhav' = v_ts + r /\ v_ts' = v_ts + r
        /\ sdc_dhav' = 0 /\ sdc_eff' = 0
    BY <1>4, <1>9 DEF EpochJump, AfterCorrection, ResetStats
  <2> QED BY <1>1, <1>2, <1>4, <1>5, <1>6, <2>1 DEF Call, m
<1>10. CASE FastDrift(r, lapse)
  <2> DEFINE p == Trunc(d, r) * r
  <2>1. /\ path' = "fast" /\ v_dhav' = v_dhav + lapse /\ v_ts' = v_ts + (r + p)
        /\ sdc_dhav' = 0 /\ sdc_eff' = 0
    BY <1>4, <1>10 DEF FastDrift, Advance, AfterCorrection, ResetStats, d
  <2>2. /\ p \in Int
        /\ d >= 0 => 0 <= p /\ p <= d /\ d < p + r
        /\ d < 0 => p <= 0 /\ d <= p /\ p - r < d
    BY <1>2, <1>5, TruncBounds
  <2> HIDE DEF p
  <2>3. v_dhav' - v_ts' = d - p /\ d = v_dhav' - (v_ts + ref')
    BY <1>1, <1>2, <1>4, <1>5, <2>1, <2>2
  <2> QED BY <1>4, <1>5, <1>6, <2>1, <2>2, <2>3 DEF Call, m
<1>11. CASE InStep(r, lapse)
  <2>1. /\ path' = "step" /\ v_dhav' = v_dhav + lapse /\ v_ts' = v_ts + r
        /\ sdc_dhav' = sdc_dhav + lapse /\ sdc_eff' = sdc_eff + r
        /\ ~Drifted(r, lapse)
    BY <1>4, <1>11 DEF InStep, Advance
  <2>2. /\ v_dhav' - v_ts' = d /\ sdc_dhav' - sdc_eff' = s
        /\ v_dhav' - (v_ts + ref') \in Int
    BY <1>1, <1>2, <1>4, <1>5, <2>1
  <2> QED BY <1>4, <1>5, <1>6, <1>8, <2>1, <2>2 DEF Call, m
<1>12. CASE SlowDriftLarge(r, lapse)
  <2> DEFINE p == Trunc(s, r) * r
  <2>1. /\ path' = "slow_large" /\ v_dhav' = v_dhav + lapse /\ v_ts' = v_ts + (r + p)
        /\ sdc_dhav' = 0 /\ sdc_eff' = 0
        /\ ~Drifted(r, lapse) /\ Abs(Trunc(s, r)) > 2
    BY <1>4, <1>12 DEF SlowDriftLarge, Advance, AfterCorrection, ResetStats, s
  <2>2. /\ p \in Int
        /\ s >= 0 => 3 * r <= p /\ p <= s /\ s < p + r
        /\ s < 0 => p <= -(3 * r) /\ s <= p /\ p - r < s
    BY <1>2, <1>5, <2>1, TruncBounds
  <2> HIDE DEF p
  <2>3. v_dhav' - v_ts' = d - p /\ d = v_dhav' - (v_ts + ref')
    BY <1>1, <1>2, <1>4, <1>5, <2>1, <2>2
  <2> QED BY <1>4, <1>5, <1>6, <1>8, <2>1, <2>2, <2>3 DEF Call, m
<1>13. CASE SlowDriftOne(r, lapse)
  <2>1. /\ v_dhav' = v_dhav + lapse /\ v_ts' = v_ts + (r + r)
        /\ sdc_dhav' = sdc_dhav + lapse /\ sdc_eff' = sdc_eff + r + r
        /\ ~Drifted(r, lapse) /\ SlowDrifted(r, lapse)
        /\ path' = IF s > 0 THEN "slow_ahead" ELSE "slow_behind"
    BY <1>4, <1>13 DEF SlowDriftOne, Advance, OnePeriod, s
  <2>2. Abs(s) > 2 * r BY <1>7, <2>1
  <2>3. /\ path' \in {"slow_ahead", "slow_behind"}
        /\ path' = "slow_ahead" => s > 2 * r
    BY <1>2, <1>5, <2>1, <2>2 DEF Abs
  <2>4. /\ v_dhav' - v_ts' = d - r /\ sdc_dhav' - sdc_eff' = s - r
        /\ d = v_dhav' - (v_ts + ref')
    BY <1>1, <1>2, <1>4, <1>5, <2>1
  <2> QED BY <1>4, <1>5, <1>6, <1>8, <2>1, <2>3, <2>4 DEF Call, m
<1> QED BY <1>3, <1>9, <1>10, <1>11, <1>12, <1>13

LEMMA InitCInv == ASSUME SourceRates, Init PROVE CInv
<1>1. MaxRef \in Nat \ {0} /\ (Damping + 1) * MaxRef = 5 * MaxRef BY TheRates
<1>2. TInv BY InitTInv
<1>3. StaysClose /\ StatsFollowClocks
  BY <1>1 DEF Init, StaysClose, StatsFollowClocks, Abs
<1> QED BY <1>2, <1>3 DEF CInv

LEMMA NextCInv == ASSUME SourceRates, CInv, [Next]_vars PROVE CInv'
<1> DEFINE m == MaxRef
<1>1. m \in Nat \ {0} /\ (Damping + 1) * m = 5 * m BY TheRates
<1>2. TInv' BY NextTInv DEF CInv
<1>3. /\ v_dhav' - v_ts' \in Int /\ sdc_dhav' - sdc_eff' \in Int
  BY <1>2 DEF TInv, TypeOK
<1>0. \A r \in RefPeriods : r \in Nat \ {0} /\ r <= m BY TheRates
<1> HIDE DEF m
<1>4. ASSUME NEW c \in Int, NEW t \in Int,
             c = v_dhav' - v_ts', t = sdc_dhav' - sdc_eff',
             c <= 5 * m, -c <= 5 * m, c - t <= m, t - c <= m
      PROVE  CInv'
  <2>1. Abs(c) <= (Damping + 1) * m BY <1>1, <1>4 DEF Abs
  <2>2. Abs(c - t) <= m BY <1>1, <1>4 DEF Abs
  <2>3. StaysClose' BY <1>4, <2>1 DEF StaysClose, m
  <2>4. StatsFollowClocks' BY <1>4, <2>2 DEF StatsFollowClocks, m
  <2> QED BY <1>2, <2>3, <2>4 DEF CInv
<1>5. CASE FirstFrame
  <2>1. v_dhav' - v_ts' = 0 /\ sdc_dhav' - sdc_eff' = 0
    BY <1>5 DEF FirstFrame, ResetStats
  <2> QED BY <1>1, <1>4, <2>1
<1>6. CASE NextFrame
  <2>0. PICK r \in RefPeriods, d \in Int, s \in Int : Call(r, d, s)
    BY <1>6, OneCall
  <2>1.
    /\ d - s <= m /\ s - d <= m
    /\ \/ v_dhav' - v_ts' = 0 /\ sdc_dhav' - sdc_eff' = 0
       \/ /\ \E p \in Int :
               /\ d >= 0 => 0 <= p /\ p <= d /\ d < p + r
               /\ d < 0 => p <= 0 /\ d <= p /\ p - r < d
               /\ v_dhav' - v_ts' = d - p /\ sdc_dhav' - sdc_eff' = 0
       \/ /\ d <= 4 * r /\ -d <= 4 * r
          /\ v_dhav' - v_ts' = d /\ sdc_dhav' - sdc_eff' = s
       \/ /\ d <= 4 * r /\ -d <= 4 * r
          /\ \E p \in Int :
               /\ s >= 0 => 3 * r <= p /\ p <= s /\ s < p + r
               /\ s < 0 => p <= -(3 * r) /\ s <= p /\ p - r < s
               /\ v_dhav' - v_ts' = d - p /\ sdc_dhav' - sdc_eff' = 0
       \/ /\ d <= 4 * r /\ -d <= 4 * r
          /\ v_dhav' - v_ts' = d - r /\ sdc_dhav' - sdc_eff' = s - r
    BY ONLY <2>0, Zenon DEF Call, m
  <2>7. r \in Nat \ {0} /\ r <= m BY <1>0, <2>1
  <2>2. CASE v_dhav' - v_ts' = 0 /\ sdc_dhav' - sdc_eff' = 0
    BY <1>1, <1>4, <2>2
  <2>3. ASSUME NEW p \in Int,
               d >= 0 => 0 <= p /\ p <= d /\ d < p + r,
               d < 0 => p <= 0 /\ d <= p /\ p - r < d,
               v_dhav' - v_ts' = d - p, sdc_dhav' - sdc_eff' = 0
        PROVE  CInv'
    <3>1. d - p <= m /\ -(d - p) <= m BY <1>1, <2>3, <2>7
    <3> QED BY <1>1, <1>3, <1>4, <2>3, <3>1
  <2>4. ASSUME d <= 4 * r, -d <= 4 * r,
               v_dhav' - v_ts' = d, sdc_dhav' - sdc_eff' = s
        PROVE  CInv'
    <3>1. d <= 5 * m /\ -d <= 5 * m BY <1>1, <2>4, <2>7
    <3> QED BY <1>4, <2>1, <2>4, <3>1
  <2>5. ASSUME d <= 4 * r, -d <= 4 * r, NEW p \in Int,
               s >= 0 => 3 * r <= p /\ p <= s /\ s < p + r,
               s < 0 => p <= -(3 * r) /\ s <= p /\ p - r < s,
               v_dhav' - v_ts' = d - p, sdc_dhav' - sdc_eff' = 0
        PROVE  CInv'
    <3>1. d - p <= m /\ -(d - p) <= m BY <1>1, <2>1, <2>5, <2>7
    <3> QED BY <1>1, <1>3, <1>4, <2>5, <3>1
  <2>6. ASSUME d <= 4 * r, -d <= 4 * r,
               v_dhav' - v_ts' = d - r, sdc_dhav' - sdc_eff' = s - r
        PROVE  CInv'
    <3>1. d - r <= 5 * m /\ -(d - r) <= 5 * m BY <1>1, <2>6, <2>7
    <3>2. (d - r) - (s - r) <= m /\ (s - r) - (d - r) <= m BY <1>1, <2>1, <2>7
    <3> QED BY <1>1, <1>3, <1>4, <2>6, <3>1, <3>2
  <2> QED BY <2>1, <2>2, <2>3, <2>4, <2>5, <2>6
<1>7. CASE UNCHANGED vars
  BY <1>7, <1>2 DEF vars, CInv, StaysClose, StatsFollowClocks
<1> QED BY <1>5, <1>6, <1>7 DEF Next

LEMMA SpecCInv == ASSUME SourceRates PROVE Spec => []CInv
BY InitCInv, NextCInv, PTL DEF Spec

(* The timestamps given to the converter stay within five periods of the   *)
(* DVR's clock, periods of the lowest frame rate if it changes.            *)
THEOREM TimestampsStayClose == ASSUME SourceRates PROVE Spec => []StaysClose
<1>1. CInv => StaysClose BY DEF CInv
<1> QED BY <1>1, SpecCInv, PTL

(* The leftovers of the corrections do not add up, at changing frame rates *)
(* either.                                                                 *)
THEOREM StatisticsFollow == ASSUME SourceRates PROVE Spec => []StatsFollowClocks
<1>1. CInv => StatsFollowClocks BY DEF CInv
<1> QED BY <1>1, SpecCInv, PTL

(* A correction moves the result toward the DVR's clock, not away from it, *)
(* unless the statistics are of frame rates far from the present one.      *)
THEOREM CorrectionsDoHelp == ASSUME NearRates PROVE Spec => CorrectionsHelp
<1> DEFINE m == MaxRef
           Help == path' \in {"fast", "slow_large", "slow_ahead"} =>
                     Abs(v_dhav' - v_ts') <= Abs(v_dhav' - (v_ts + ref'))
<1>0. SourceRates BY DEF NearRates
<1>1. m \in Nat \ {0} BY <1>0, TheRates
<1>3. \A r \in RefPeriods : r \in Nat \ {0} /\ r <= m /\ 2 * m <= 3 * r
  BY <1>0, TheRates DEF NearRates
<1>2. ASSUME CInv, [Next]_vars PROVE [Help]_vars
  <2>1. CASE FirstFrame BY <2>1 DEF FirstFrame
  <2>2. CASE NextFrame
    <3>0. PICK r \in RefPeriods, d \in Int, s \in Int : Call(r, d, s)
      BY <1>0, <1>2, <2>2, OneCall
    <3>1.
      /\ d - s <= m /\ s - d <= m
      /\ \/ path' \in {"epoch", "step", "slow_behind"}
         \/ /\ d = v_dhav' - (v_ts + ref')
            /\ \E p \in Int :
                 /\ d >= 0 => 0 <= p /\ p <= d /\ d < p + r
                 /\ d < 0 => p <= 0 /\ d <= p /\ p - r < d
                 /\ v_dhav' - v_ts' = d - p
         \/ /\ d = v_dhav' - (v_ts + ref') /\ d <= 4 * r /\ -d <= 4 * r
            /\ \E p \in Int :
                 /\ s >= 0 => 3 * r <= p /\ p <= s /\ s < p + r
                 /\ s < 0 => p <= -(3 * r) /\ s <= p /\ p - r < s
                 /\ v_dhav' - v_ts' = d - p
         \/ /\ s > 2 * r /\ d = v_dhav' - (v_ts + ref')
            /\ v_dhav' - v_ts' = d - r
      BY ONLY <3>0, Zenon DEF Call, m
    <3> HIDE DEF m
    <3>7. r \in Nat \ {0} /\ r <= m /\ 2 * m <= 3 * r BY <1>3, <3>1
    <3>2. ASSUME NEW c \in Int, Abs(c) <= Abs(d),
                 d = v_dhav' - (v_ts + ref'), v_dhav' - v_ts' = c
          PROVE  Help
      BY <3>2
    <3>3. ASSUME d = v_dhav' - (v_ts + ref'), NEW p \in Int,
                 d >= 0 => 0 <= p /\ p <= d /\ d < p + r,
                 d < 0 => p <= 0 /\ d <= p /\ p - r < d,
                 v_dhav' - v_ts' = d - p
          PROVE  Help
      <4>1. Abs(d - p) <= Abs(d) BY <3>3, <3>7 DEF Abs
      <4> QED BY <3>2, <3>3, <4>1
    <3>4. ASSUME d = v_dhav' - (v_ts + ref'), d <= 4 * r, -d <= 4 * r, NEW p \in Int,
                 s >= 0 => 3 * r <= p /\ p <= s /\ s < p + r,
                 s < 0 => p <= -(3 * r) /\ s <= p /\ p - r < s,
                 v_dhav' - v_ts' = d - p
          PROVE  Help
      <4>1. Abs(d - p) <= Abs(d) BY <1>1, <3>1, <3>4, <3>7 DEF Abs
      <4> QED BY <3>2, <3>4, <4>1
    <3>5. ASSUME s > 2 * r, d = v_dhav' - (v_ts + ref'), v_dhav' - v_ts' = d - r
          PROVE  Help
      <4>1. Abs(d - r) <= Abs(d) /\ d - r \in Int BY <1>1, <3>1, <3>5, <3>7 DEF Abs
      <4> QED BY <3>2, <3>5, <4>1
    <3>6. CASE path' \in {"epoch", "step", "slow_behind"} BY <3>6
    <3> QED BY <3>1, <3>3, <3>4, <3>5, <3>6
  <2>3. CASE UNCHANGED vars BY <2>3
  <2> QED BY <1>2, <2>1, <2>2, <2>3 DEF Next
<1> QED BY <1>0, <1>2, SpecCInv, PTL DEF Spec, CorrectionsHelp
=============================================================================
