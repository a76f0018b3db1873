------------------------------- MODULE TsProc -------------------------------
(***************************************************************************)
(* dt_tsproc_process() of mctools.c, which makes regular timestamps out of *)
(* the DVR's: a frame's timestamp is that of the frame before plus one     *)
(* reference period, unless the DVR's clock has drifted away from the      *)
(* result, at once or slowly; then whole periods are added or taken off.   *)
(*                                                                         *)
(* Time is in the DVR's milliseconds, and so is a reference period: the    *)
(* divisions of the code that matter, by a reference period, are modelled  *)
(* as they are, toward zero; that of a second by the frame rate is not.    *)
(***************************************************************************)
EXTENDS Integers

CONSTANTS
  Wrap,        \* a frame's timestamp wraps around here (65536)
  Damping,     \* TIMESTAMP_JITTER_DAMPING_LIMIT (4)
  MinSamples,  \* SLOW_DRIFT_EVAL_MIN_SAMPLES (1000)
  RefPeriods,  \* reference periods of the frame rates that I-frames name
  Lapses,      \* what a frame's timestamp may be ahead of the last one's
  MaxFrames    \* bound: video frames in the stream

ASSUME TsProcAssumption ==
  /\ Wrap \in Nat \ {0} /\ Damping \in Nat \ {0} /\ MinSamples \in Nat \ {0}
  /\ RefPeriods \subseteq Nat \ {0}
  /\ Lapses \subseteq 0..Wrap-1
  /\ MaxFrames \in Nat

VARIABLES
  first,        \* v_first_frame
  v_ts,         \* v_timestamp, the result; a uint64_t in the code
  v_dhav,       \* v_dhav_timestamp, where the DVR's clock is by its lapses
  dhav_ts,      \* v_dhav_ts, the last frame's own timestamp
  sdc_dhav, sdc_eff, sdc_frames,   \* sdc_t_*, the slow drift's statistics
  ref,          \* the reference period the last frame was given
  frame,        \* frames so far
  path          \* which way dt_tsproc_process() took last

vars == <<first, v_ts, v_dhav, dhav_ts, sdc_dhav, sdc_eff, sdc_frames, ref, frame, path>>

stats == <<sdc_dhav, sdc_eff, sdc_frames>>

Abs(x) == IF x >= 0 THEN x ELSE -x

(* The quotient of C's /, for a positive b. *)
Trunc(a, b) == IF a >= 0 THEN a \div b ELSE -((-a) \div b)

(* dt_tsproc_init() sets v_first_frame and leaves the rest to the first    *)
(* frame.                                                                  *)
Init ==
  /\ first = TRUE
  /\ v_ts = 0 /\ v_dhav = 0
  /\ dhav_ts \in {0, Wrap - 1}
  /\ sdc_dhav = 0 /\ sdc_eff = 0 /\ sdc_frames = 0
  /\ ref \in RefPeriods
  /\ frame = 0
  /\ path = "none"

FirstFrame ==
  /\ first /\ frame < MaxFrames
  /\ first' = FALSE
  /\ v_ts' = 0 /\ v_dhav' = 0
  /\ sdc_dhav' = 0 /\ sdc_eff' = 0 /\ sdc_frames' = 0
  /\ frame' = frame + 1
  /\ path' = "first"
  /\ UNCHANGED <<dhav_ts, ref>>

ResetStats == sdc_dhav' = 0 /\ sdc_eff' = 0 /\ sdc_frames' = 0

(* Mutant: the statistics go on over a correction. *)
KeepStats == UNCHANGED stats

(* The statistics after a correction that p_reset_sf goes with.            *)
AfterCorrection == ResetStats

(* Every frame but the first ends with both clocks moving on.              *)
Advance(period, lapse) ==
  /\ v_ts' = v_ts + period
  /\ v_dhav' = v_dhav + lapse

-----------------------------------------------------------------------------
(***************************************************************************)
(* The DVR's epoch went back or jumped ahead by more than                  *)
(* EPOCH_MAX_FORWARD_JUMP: one period, and its clock is as good as ours.   *)
(* (The correction by the epoch's difference behind the inner test is dead *)
(* code: a difference above 30 is above 5.)                                *)
(***************************************************************************)
EpochJump(r) ==
  /\ path' = "epoch"
  /\ v_ts' = v_ts + r
  /\ v_dhav' = v_ts + r
  /\ AfterCorrection

(* How far the DVR's clock would be ahead of the result. *)
Drift(r, lapse) == (v_dhav + lapse) - (v_ts + r)

(* Mutant: only a DVR that falls behind is noticed. *)
DriftedBehind(r, lapse) == -Drift(r, lapse) > Damping * r

Drifted(r, lapse) == Abs(Drift(r, lapse)) > Damping * r

(* More than Damping periods at once: as many whole ones as there are.     *)
FastDrift(r, lapse) ==
  /\ Drifted(r, lapse)
  /\ path' = "fast"
  /\ Advance(r + Trunc(Drift(r, lapse), r) * r, lapse)
  /\ AfterCorrection

(* The slow drift, with this frame counted. *)
SlowDiff(r, lapse) == (sdc_dhav + lapse) - (sdc_eff + r)

SlowDrifted(r, lapse) ==
  /\ Abs(SlowDiff(r, lapse)) > 2 * r
  /\ sdc_frames + 1 >= MinSamples

InStep(r, lapse) ==
  /\ ~Drifted(r, lapse) /\ ~SlowDrifted(r, lapse)
  /\ path' = "step"
  /\ Advance(r, lapse)
  /\ sdc_dhav' = sdc_dhav + lapse
  /\ sdc_eff' = sdc_eff + r
  /\ sdc_frames' = sdc_frames + 1

(* Three periods or more by the statistics: corrected like a fast drift.   *)
SlowDriftLarge(r, lapse) ==
  /\ ~Drifted(r, lapse) /\ SlowDrifted(r, lapse)
  /\ Abs(Trunc(SlowDiff(r, lapse), r)) > 2
  /\ path' = "slow_large"
  /\ Advance(r + Trunc(SlowDiff(r, lapse), r) * r, lapse)
  /\ AfterCorrection

(* Mutant: the correction is not counted in sdc_t_eff. *)
OnePeriodUncounted(r) == 0

(* What is added to the statistics for the period added to the result.     *)
OnePeriod(r) == r

(* Two: one is added, whether the DVR is ahead or behind.                  *)
SlowDriftOne(r, lapse) ==
  /\ ~Drifted(r, lapse) /\ SlowDrifted(r, lapse)
  /\ Abs(Trunc(SlowDiff(r, lapse), r)) <= 2
  /\ path' = IF SlowDiff(r, lapse) > 0 THEN "slow_ahead" ELSE "slow_behind"
  /\ Advance(r + r, lapse)
  /\ sdc_dhav' = sdc_dhav + lapse
  /\ sdc_eff' = sdc_eff + r + OnePeriod(r)
  /\ sdc_frames' = sdc_frames + 1

(* A video frame behind the first, after dt_collect_dhav_frame_info() has  *)
(* taken its timestamp and, from an I-frame, the frame rate.               *)
NextFrame ==
  /\ ~first /\ frame < MaxFrames
  /\ frame' = frame + 1
  /\ first' = first
  /\ \E ts \in {(dhav_ts + l) % Wrap : l \in Lapses}, r \in RefPeriods :
       LET lapse == (ts - dhav_ts) % Wrap
       IN  /\ dhav_ts' = ts
           /\ ref' = r
           /\ \/ EpochJump(r)
              \/ FastDrift(r, lapse)
              \/ InStep(r, lapse)
              \/ SlowDriftLarge(r, lapse)
              \/ SlowDriftOne(r, lapse)

(* Frames without video, or before the first I-frame, change nothing. *)
Next == FirstFrame \/ NextFrame

Spec == Init /\ [][Next]_vars
-----------------------------------------------------------------------------
MaxRef == CHOOSE r \in RefPeriods : \A s \in RefPeriods : s <= r

(* Timestamps and statistics are of their type.  The result is unsigned in *)
(* the code: no correction, however far the DVR falls behind, takes it     *)
(* below 0, from where it would be far in the future.                      *)
TypeOK ==
  /\ first \in BOOLEAN
  /\ v_ts \in Nat /\ v_dhav \in Nat
  /\ dhav_ts \in 0..Wrap-1
  /\ sdc_dhav \in Nat /\ sdc_eff \in Nat /\ sdc_frames \in Nat
  /\ ref \in RefPeriods
  /\ frame \in Nat
  /\ path \in {"none", "first", "step", "epoch", "fast",
               "slow_large", "slow_ahead", "slow_behind"}

(* What the converter is given never strays from the DVR's own clock by    *)
(* more than the damping limit and one frame, in either direction.         *)
StaysClose == Abs(v_dhav - v_ts) <= (Damping + 1) * MaxRef

(* The slow drift's statistics tell the difference between the two clocks  *)
(* to within the longest period, though they are reset apart from the      *)
(* clocks and go on over changes of the frame rate: what the corrections   *)
(* leave over does not add up.                                             *)
StatsFollowClocks == Abs((v_dhav - v_ts) - (sdc_dhav - sdc_eff)) <= MaxRef

(* Nor does a correction leave the result farther from the DVR's clock     *)
(* than no correction would have: the statistics do not mislead it, as     *)
(* long as no frame rate is more than half as high again as another.       *)
(* (The one that adds a frame to a result already ahead is the exception,  *)
(* see JIsTwo.)                                                            *)
CorrectionsHelp ==
  [][path' \in {"fast", "slow_large", "slow_ahead"} =>
       Abs(v_dhav' - v_ts') <= Abs(v_dhav' - (v_ts + ref'))]_vars

(* The claim of mctools.c:1104 that a slow drift corrected by one frame is *)
(* always j == 2, a DVR that runs ahead.                                   *)
JIsTwo == path # "slow_behind"
=============================================================================
