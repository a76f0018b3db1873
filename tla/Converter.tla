----------------------------- MODULE Converter ------------------------------
(***************************************************************************)
(* What becomes of a frame in dvrcontrol.c and dhav2mkv.c when the output  *)
(* is Matroska: dt_collect_*_frame_info() takes down what the frame tells, *)
(* dt_tsproc_process() makes a timestamp of it, dt_convert_frame_to_mkv()  *)
(* wraps it up and outfile_write() writes the result.  The three share     *)
(* t_mc_parms, where what an earlier frame left stays in force.            *)
(*                                                                         *)
(* A timestamp is the number of video frames timed before it, or what      *)
(* malloc() left.  What becomes of jitter is the business of TsProc.       *)
(***************************************************************************)
EXTENDS Matroska

CONSTANTS
  MaxFrames,  \* bound: frames in the stream
  Rates,      \* bound: frame rates that I-frames name
  Heights,    \* bound: heights of pictures
  Bodies,     \* bound: bytes of video in a frame
  MaxDst      \* size of the output buffer, max_dst_len

ASSUME ConverterAssumption ==
  /\ MaxFrames \in Nat
  /\ Rates \subseteq 0..255 /\ Heights \subseteq {8 * h : h \in 0..255}
  /\ Bodies \subseteq Nat
  /\ MaxDst \in Nat /\ MaxDst >= MainHeaderLoad

Junk == -1       \* what is not initialised

VARIABLES
  mc_format_in,  \* of the input, "DHAV" or "H264" (raw)
  tsproc,        \* tsproc is on, which DHAV input alone goes through
  ntsc_exact_60hz, \* NTSC video is taken to have 60 and not 59.94 fields
  has_v_parms,   \* of t_mc_parms: video parameters are known
  frame_type,    \* FT_VIDEO_I_FRAME "I", FT_VIDEO_FRAME "P", "audio", "undefined"
  dhav_fps,      \* the frame rate last seen
  NTSC_timings,  \* the video is taken for NTSC
  v_first_frame, \* no frame has been timed yet
  v_timestamp,   \* the frame's timestamp
  tsc_first,     \* of t_mc_tsproc: v_first_frame
  tsc_timestamp, \* and v_timestamp
  header_pending, \* main_mkv_header_pending
  dtconv_ret,    \* the last result of dt_convert_frame_to_mkv()
  written,       \* chunks in the output file
  timed,         \* video frames timed so far
  count,         \* frames so far
  pc             \* "run", "ended", or "crashed": a division by zero

setup == <<mc_format_in, tsproc, ntsc_exact_60hz>>
mc_parms == <<has_v_parms, frame_type, dhav_fps, NTSC_timings, v_first_frame>>
tsc == <<tsc_first, tsc_timestamp>>
vars == <<setup, mc_parms, v_timestamp, tsc, header_pending, dtconv_ret, written, timed, count, pc>>

Kinds == IF mc_format_in = "DHAV" THEN {"I", "P", "audio", "other"}
                                  ELSE {"I", "P", "config", "other"}

(* Where the parameters of the picture are. *)
ParmsKind == IF mc_format_in = "DHAV" THEN "I" ELSE "config"

(* A frame: its kind, the video in it and, in kind ParmsKind, what it says *)
(* of the picture.                                                         *)
FrameOf(k, fps, height, body) == [kind |-> k, fps |-> fps, height |-> height, body |-> body]
Frames ==
  {FrameOf(ParmsKind, r, h, b) : r \in Rates, h \in Heights, b \in Bodies}
    \cup {FrameOf(k, 0, 0, b) : k \in Kinds \ {ParmsKind}, b \in Bodies}

Init ==
  /\ mc_format_in \in {"DHAV", "H264"} /\ tsproc \in BOOLEAN /\ ntsc_exact_60hz \in BOOLEAN
  /\ has_v_parms = FALSE /\ frame_type = "undefined" /\ dhav_fps = Junk /\ NTSC_timings = FALSE
  /\ v_first_frame = TRUE /\ v_timestamp = 0
  /\ tsc_first = TRUE /\ tsc_timestamp = Junk
  /\ header_pending = TRUE
  /\ dtconv_ret = 0
  /\ written = <<>>
  /\ timed = 0 /\ count = 0
  /\ pc = "run"

-----------------------------------------------------------------------------
(* Of the picture's height, and of the frame rate where the height does    *)
(* not tell, is guessed whether the video is NTSC.                         *)
NtscHeights == {60, 120, 160, 240, 480}
PalHeights == {72, 144, 192, 288, 576}
GuessNtsc(height, fps) ==
  height \in NtscHeights \/ (height \notin PalHeights /\ fps \in {60, 30, 15})

(* dt_collect_dhav_frame_info(): an I-frame without a frame rate is given  *)
(* up before anything else is taken from it, P-frames before the first     *)
(* usable I-frame are passed over, other kinds have no timing.             *)
NoFps(f) == f.kind = "I" /\ f.fps = 0

DhavType(f) ==
  CASE NoFps(f) -> "undefined"
    [] f.kind = "I" -> "I"
    [] f.kind = "P" /\ has_v_parms -> "P"
    [] f.kind = "audio" -> "audio"
    [] OTHER -> "undefined"

CollectDhav(f) ==
  /\ frame_type' = DhavType(f)
  /\ dhav_fps' = IF f.kind = "I" THEN f.fps ELSE dhav_fps
  /\ NTSC_timings' = IF DhavType(f) = "I" THEN GuessNtsc(f.height, f.fps) ELSE NTSC_timings
  /\ has_v_parms' = (has_v_parms \/ DhavType(f) = "I")

(* dt_collect_raw_h264_frame_info(): the picture's size comes in a frame   *)
(* of its own, the frame rate is made up.                                  *)
CollectRaw(f) ==
  /\ frame_type' = IF f.kind \in {"I", "P"} THEN f.kind ELSE "undefined"
  /\ dhav_fps' = IF f.kind = "config" THEN 20 ELSE dhav_fps
  /\ NTSC_timings' = IF f.kind = "config" THEN GuessNtsc(f.height, 20) ELSE NTSC_timings
  /\ has_v_parms' = (has_v_parms \/ f.kind = "config")

Collect(f) == IF mc_format_in = "DHAV" THEN CollectDhav(f) ELSE CollectRaw(f)

(* The frames that move the timestamp on: of raw input the one with the    *)
(* size does, as `if (NAL_type = 0xb6)' assigns instead of comparing.      *)
Times(f) ==
  IF mc_format_in = "DHAV" THEN DhavType(f) \in {"I", "P"}
                     ELSE f.kind \in {"I", "P", "config"}

(* The width over the height is what the aspect ratio is guessed from.     *)
DividesByHeight(f) ==
  /\ f.height = 0
  /\ IF mc_format_in = "DHAV" THEN DhavType(f) = "I" ELSE f.kind = "config"

(* What dt_collect_*_frame_info() makes of v_timestamp. *)
Collected(f) ==
  IF ~Times(f) THEN v_timestamp ELSE IF v_first_frame THEN 0 ELSE v_timestamp + 1

-----------------------------------------------------------------------------
(* dt_tsproc_process(), behind the above: the period is that of dhav_fps.  *)
Processed(f) ==
  tsproc /\ mc_format_in = "DHAV" /\ DhavType(f) \in {"I", "P"}

DividesByFps(f) == Processed(f) /\ ~tsc_first /\ dhav_fps' = 0

TscTimestamp(f) ==
  IF ~Processed(f) THEN tsc_timestamp ELSE IF tsc_first THEN 0 ELSE tsc_timestamp + 1

(* Mutant: what dt_tsproc_process() made of the frame before is taken. *)
StaleTimestamp(f) == IF tsproc /\ mc_format_in = "DHAV" THEN tsc_timestamp ELSE Collected(f)

(* The result replaces the collected timestamp, also behind a frame that   *)
(* was none of its business.                                               *)
Timestamp(f) ==
  IF tsproc /\ mc_format_in = "DHAV" THEN TscTimestamp(f) ELSE Collected(f)

(* Fractions of a second.  The reference period of NTSC video is stretched *)
(* unless it has exactly 60 fields.                                        *)
NoPeriod == <<0, 1>>
RefPeriod(fps, ntsc) == <<IF ntsc /\ ~ntsc_exact_60hz THEN 1001 ELSE 1000, 1000 * fps>>

Period(f) ==
  IF Processed(f) /\ ~tsc_first THEN RefPeriod(dhav_fps', NTSC_timings') ELSE NoPeriod

-----------------------------------------------------------------------------
(* Mutant: the switch is taken the wrong way round. *)
MkvFpsSwapped(fps, ntsc) ==
  IF ntsc /\ ~ntsc_exact_60hz THEN <<fps, 1>> ELSE <<1000 * fps, 1001>>

(* transform_fps_to_mkvfps(): frames per second for the main header, the   *)
(* float a fraction.                                                       *)
MkvFps(fps, ntsc) ==
  IF ntsc /\ ntsc_exact_60hz THEN <<fps, 1>> ELSE <<1000 * fps, 1001>>

Fits(f) == PayloadLen(header_pending, f.body) <= MaxDst

(* The result of dt_convert_frame_to_mkv(). *)
Converted(f) ==
  IF frame_type' \notin {"I", "P"} THEN 2
  ELSE IF ~has_v_parms' THEN 1
  ELSE IF ~Fits(f) THEN -4
  ELSE 0

(* Mutant: the header is done with once it was asked for. *)
PendingUntilTried(r) == header_pending /\ r \in {1, 2}

PendingAfter(r) == header_pending /\ r # 0

(* What is in the chunk: the rate is in the main header. *)
Chunk(f) ==
  [head |-> header_pending, kind |-> frame_type', body |-> f.body,
   dst_len |-> PayloadLen(header_pending, f.body),
   rate |-> IF header_pending THEN MkvFps(dhav_fps', NTSC_timings') ELSE NoPeriod,
   fps |-> dhav_fps', ntsc |-> NTSC_timings', period |-> Period(f),
   time |-> v_timestamp', nth |-> timed']

(* A frame in one turn of the inner loop.  Only the last turn's results    *)
(* are looked at: `last' tells that no other frame is in the queue.  A     *)
(* write may fail, which ends the loop at once.                            *)
Frame(f, last) ==
  /\ pc = "run" /\ count < MaxFrames
  /\ ~DividesByHeight(f)
  /\ count' = count + 1
  /\ Collect(f)
  /\ ~DividesByFps(f)
  /\ v_first_frame' = (v_first_frame /\ ~Times(f))
  /\ timed' = IF Times(f) /\ ~v_first_frame THEN timed + 1 ELSE timed
  /\ tsc_first' = (tsc_first /\ ~Processed(f))
  /\ tsc_timestamp' = TscTimestamp(f)
  /\ v_timestamp' = Timestamp(f)
  /\ dtconv_ret' = Converted(f)
  /\ header_pending' = PendingAfter(dtconv_ret')
  /\ \/ /\ written' = IF dtconv_ret' = 0 THEN Append(written, Chunk(f)) ELSE written
        /\ pc' = IF last /\ dtconv_ret' < 0 THEN "ended" ELSE "run"
     \/ /\ written' = written
        /\ pc' = "ended"
  /\ UNCHANGED setup

Crash(f) ==
  /\ pc = "run" /\ count < MaxFrames
  /\ Collect(f)
  /\ DividesByHeight(f) \/ DividesByFps(f)
  /\ pc' = "crashed"
  /\ count' = count + 1
  /\ UNCHANGED <<setup, v_first_frame, v_timestamp, tsc, header_pending, dtconv_ret, written, timed>>

Next ==
  \E f \in Frames : Crash(f) \/ \E last \in BOOLEAN : Frame(f, last)

Spec == Init /\ [][Next]_vars
-----------------------------------------------------------------------------
(* The first chunk of the file, and no other, begins with the main header, *)
(* also when conversion of the first frames fails: "this function must be  *)
(* called with first_frame==true until it returns ==0".                    *)
HeaderOnce == \A k \in DOMAIN written : written[k].head <=> k = 1

(* The file can be parsed: in every chunk each element's size is that of   *)
(* what lies within it, the bytes written are as many as the sizes add up  *)
(* to, and none goes past the buffer.  The fields of the main header are   *)
(* filled in where the table has them.                                     *)
ChunksWellFormed ==
  \A k \in DOMAIN written :
    LET c == written[k]  els == ElementsOf(c.head, c.body) IN
      /\ SizesNest(els)
      /\ BytesOf(els, Len(els)) = c.dst_len /\ c.dst_len <= MaxDst
      /\ c.head => PatchesLand

(* The frame rate in the main header is the one that the corrected         *)
(* timestamps of NTSC video go by, for as long as the video keeps its      *)
(* parameters: dt_tsproc_process() and transform_fps_to_mkvfps() make      *)
(* something of ntsc_exact_60hz each for itself.  They do not agree about  *)
(* PAL video, whose FrameRate is off by 1000/1001.                         *)
NtscRateAgrees ==
  \A k \in DOMAIN written :
    LET c == written[k]  first == written[1] IN
      c.period # NoPeriod /\ c.ntsc /\ first.ntsc /\ c.fps = first.fps
        => first.rate[1] * c.period[1] = first.rate[2] * c.period[2]

(* Every chunk has the timestamp of its own frame: not that of one before, *)
(* and never one that was not initialised.                                 *)
TimeIsOwn == \A k \in DOMAIN written : written[k].time = written[k].nth

-----------------------------------------------------------------------------
(***************************************************************************)
(* What comments say and the code does not do.                             *)
(***************************************************************************)

(* The claim of mctools.c:580 about a result below 0 of                    *)
(* dt_collect_dhav_frame_info(), its answer to a frame rate of 0: it is    *)
(* fatal.  The callers drop it and the next P-frame is divided by 0.       *)
NoFpsIsFatal == ~(pc = "crashed" /\ dhav_fps = 0)
=============================================================================
