------------------------------ MODULE Capture ------------------------------
(***************************************************************************)
(* The three processes of a capture (dvrcontrol.c, mptools.c, shtools.c).  *)
(*                                                                         *)
(*   streamer --inq--> buffer [fifo] --outq--> main --> output file        *)
(*                                                                         *)
(* main runs stream_media_dvr_to_file(), the buffer process                *)
(* stream_dvr_subprocess_to_pipe() with buffered_tunnel_pipe() inside, and *)
(* it forks a DVR streamer, stream_media_dvr_to_pipe(), again whenever the *)
(* last one ended or was given up.  A system call is a step of its own     *)
(* when what it sees can change before the next one; signals come between  *)
(* any two steps.  The fifo is the queue of module ByteQueue.              *)
(*                                                                         *)
(* An item <<g, k>> is the k-th piece of data streamer number g writes.    *)
(***************************************************************************)
EXTENDS Integers, Sequences, SequencesExt

CONSTANTS
  PipeCap,     \* room in a pipe
  FifoCap,     \* room in the FIFO, btfifo->bsize
  MaxGen,      \* bound: streamers that ever write; later ones stay silent
  MaxPerGen,   \* bound: items one streamer writes before it is silent
  MaxSignals   \* bound: termination signals from outside

ASSUME CaptureAssumption ==
  /\ {PipeCap, FifoCap, MaxGen, MaxPerGen} \subseteq Nat \ {0}
  /\ MaxSignals \in Nat

VARIABLES
  timeout,  \* dvrctl->timeout_us # 0
  \* the DVR streamer in the buffer process's ppfk_child, and killed ones
  child,    \* "none", "starting" (signals blocked), "running" or "zombie"
  term,     \* SIGTERM is on its way to it
  old,      \* streamers killed, still alive and no longer waited for
  gen,      \* number of the last streamer, MaxGen + 1 from there on
  sent,     \* items it wrote
  \* the pipes
  inq, outq,
  \* the buffer process
  bpc,      \* where it is
  fifo,
  rev,      \* revents of the last poll(), Junk before the first
  tret,     \* what buffered_tunnel_pipe() returned last
  bchld,    \* its sht_fl_sigchld
  \* the main process
  mpc,      \* where it is
  ident,    \* the container in the stream is identified
  got,      \* items read from outq
  mterm,    \* its sht_fl_terminate_nicely
  mchld,    \* its sht_fl_sigchld
  \* the outside
  signals   \* termination signals sent so far

streamerVars == <<timeout, child, term, old, gen, sent>>
bufferVars == <<bpc, fifo, rev, tret, bchld>>
mainVars == <<mpc, ident, got, mterm, mchld>>
vars == <<streamerVars, bufferVars, mainVars, inq, outq, signals>>

Items == (1..MaxGen) \X (1..MaxPerGen)
Flags == {"in", "ihup", "out", "oerr"}
NoFlags == [f \in Flags |-> FALSE]
Junk == <<>>     \* revents that are not initialised

Live == child \in {"starting", "running"}
InClosed == ~Live                      \* nobody can write to inq
OutClosed == mpc \in {"kill", "wait", "done"}  \* nobody can read from outq
OutEof == bpc = "exited"               \* nobody can write to outq
MainActive == mpc \in {"poll", "read", "work"}

(* Mutant: a transfer is not limited by the room there is. *)
PortionUnlimited(q, room) == 1..Len(q)

(* How many of the items a transfer may move from q to where there is room. *)
Portion(q, room) == 1..(IF Len(q) < room THEN Len(q) ELSE room)
(* A transfer that does not wait may move nothing. *)
Transfers(q, room) == IF Portion(q, room) = {} THEN {0} ELSE Portion(q, room)
First(q, n) == SubSeq(q, 1, n)
(* Mutant: the last item that moved stays behind, too. *)
RestOffByOne(q, n) == SubSeq(q, IF n = 0 THEN 1 ELSE n, Len(q))
Rest(q, n) == SubSeq(q, n + 1, Len(q))

Init ==
  /\ timeout \in BOOLEAN
  /\ child = "none" /\ term = FALSE /\ old = 0 /\ gen = 0 /\ sent = 0
  /\ inq = <<>> /\ outq = <<>>
  /\ bpc = "fork" /\ fifo = <<>> /\ rev = Junk /\ tret = 0 /\ bchld = FALSE
  /\ mpc = "poll" /\ ident = FALSE /\ got = <<>> /\ mterm = FALSE /\ mchld = FALSE
  /\ signals = 0

-----------------------------------------------------------------------------
(***************************************************************************)
(* The DVR streamer.                                                       *)
(***************************************************************************)

(* What poll() reports: POLLIN and POLLOUT if asked for, the rest always.  *)
(* A pipe with room and no reader is both writable and in error.           *)
Revents ==
  [NoFlags EXCEPT
     !["in"]   = Len(fifo) < FifoCap /\ inq # <<>>,
     !["ihup"] = InClosed,
     !["out"]  = fifo # <<>> /\ Len(outq) < PipeCap,
     !["oerr"] = OutClosed]

(* The kernel tells the buffer process of a child's death. *)
SigChld == bchld' = (bchld \/ bpc # "exited")

(* A signal makes a poll() that waits return with EINTR, which is no error *)
(* for buffered_tunnel_pipe(): it goes on with the revents it has.  At the *)
(* end of a child that holds the pipe open the hangup comes first.         *)
PollInterrupted ==
  /\ bpc = "poll" /\ Revents = NoFlags
  /\ bpc' = "out"
  /\ rev' \in IF rev = Junk THEN [Flags -> BOOLEAN] ELSE {rev}

(* Mutant: every end of the tunnel is taken for recoverable. *)
AfterWaitRetries == "fork"

(* What follows the waitpid() for a streamer: whatever the tunnel returned,*)
(* less than 0 is fatal (retcode 102), anything else means another one.    *)
AfterWait == IF tret < 0 THEN "flush" ELSE "fork"

(* What a signal interrupts in the buffer process, whose handlers are      *)
(* without SA_RESTART and do nothing but set flags: the waitpid() for a    *)
(* streamer, which is left behind then, the last write(), a poll(), or     *)
(* nothing of consequence.  Of earlier ones, n are left.                   *)
InterruptBuffer(n) ==
  \/ /\ bpc = "wait" /\ child # "zombie"
     /\ bpc' = AfterWait
     /\ child' = "none" /\ term' = FALSE /\ old' = n + 1
     /\ UNCHANGED rev
  \/ /\ bpc = "flush" /\ bpc' = "exit"
     /\ old' = n /\ UNCHANGED <<child, term, rev>>
  \/ /\ PollInterrupted
     /\ old' = n /\ UNCHANGED <<child, term>>
  \/ old' = n /\ UNCHANGED <<bpc, child, term, rev>>

(* Mutant: signals are not blocked around fork(), the handler inherited    *)
(* from the buffer process swallows the SIGTERM.                           *)
StreamerReadySwallows ==
  /\ child = "starting"
  /\ child' = "running" /\ term' = FALSE
  /\ UNCHANGED <<timeout, old, gen, sent, bufferVars, mainVars, inq, outq, signals>>

(* sht_init(SHT_DVRCTL_PROC) gives SIGTERM its default action, only then   *)
(* are the signals that were blocked before fork() let through.            *)
StreamerReady ==
  /\ child = "starting"
  /\ IF term THEN child' = "zombie" /\ SigChld
             ELSE child' = "running" /\ UNCHANGED bchld
  /\ UNCHANGED <<timeout, term, old, gen, sent, bpc, fifo, rev, tret, mainVars, inq, outq, signals>>

(* Media data goes to the pipe, with a write() that waits for room. *)
StreamerWrite ==
  /\ child = "running" /\ ~term
  /\ gen <= MaxGen /\ sent < MaxPerGen /\ Len(inq) < PipeCap
  /\ inq' = Append(inq, <<gen, sent + 1>>)
  /\ sent' = sent + 1
  /\ UNCHANGED <<timeout, child, term, old, gen, bufferVars, mainVars, outq, signals>>

(* The DVR fails, drops the connection or times out; or SIGTERM strikes. *)
StreamerEnds ==
  /\ child = "running"
  /\ child' = "zombie" /\ SigChld
  /\ UNCHANGED <<timeout, term, old, gen, sent, bpc, fifo, rev, tret, mainVars, inq, outq, signals>>

StreamerKilled == term /\ StreamerEnds
StreamerQuits == ~term /\ StreamerEnds

(* One that was left behind dies at last.  Its SIGCHLD, too, may cut short *)
(* the waitpid() for the present one, which is left behind in its place.   *)
OldStreamerKilled ==
  /\ old > 0
  /\ InterruptBuffer(old - 1) /\ SigChld
  /\ UNCHANGED <<timeout, gen, sent, fifo, tret, mainVars, inq, outq, signals>>

Streamer == StreamerReady \/ StreamerWrite \/ StreamerKilled \/ StreamerQuits \/ OldStreamerKilled

-----------------------------------------------------------------------------
(***************************************************************************)
(* The buffer process: stream_dvr_subprocess_to_pipe().                    *)
(***************************************************************************)

(* mptools_create_pipedfork(), both outcomes, and sleep(1). *)
Fork ==
  /\ bpc = "fork"
  /\ \/ /\ child' = "starting" /\ term' = FALSE
        /\ gen' = (IF gen <= MaxGen THEN gen + 1 ELSE gen)
        /\ sent' = 0
        /\ bpc' = "poll" /\ rev' = Junk
     \/ bpc' = "flush" /\ UNCHANGED <<child, term, gen, sent, rev>>
  /\ UNCHANGED <<timeout, old, fifo, tret, bchld, mainVars, inq, outq, signals>>

(* buffered_tunnel_pipe() returns r. *)
Leave(r) == tret' = r /\ bpc' = "destroy"

Poll ==
  /\ bpc = "poll" /\ Revents # NoFlags
  /\ rev' = Revents
  /\ bpc' = "out"
  /\ UNCHANGED <<streamerVars, fifo, tret, bchld, mainVars, inq, outq, signals>>

(* Mutant: a timeout without a death is passed over in any case. *)
PollTimeoutHeedsDeath ==
  /\ bpc = "poll" /\ Revents = NoFlags
  /\ bchld /\ Leave(6) /\ bchld' = FALSE
  /\ UNCHANGED <<streamerVars, fifo, rev, mainVars, inq, outq, signals>>

(* Nothing happened for timeout_us or, without a timeout, for a second. *)
PollTimeout ==
  /\ bpc = "poll" /\ Revents = NoFlags
  /\ \/ timeout /\ Leave(1) /\ UNCHANGED bchld
     \/ ~timeout /\ bchld /\ Leave(6) /\ bchld' = FALSE
  /\ UNCHANGED <<streamerVars, fifo, rev, mainVars, inq, outq, signals>>

PollFails ==
  /\ bpc = "poll"
  /\ Leave(2)
  /\ UNCHANGED <<streamerVars, fifo, rev, bchld, mainVars, inq, outq, signals>>

(* FIFO -> fd_out.  Without a reader the write fails: SIGPIPE is ignored. *)
FifoOut ==
  /\ bpc = "out"
  /\ \/ /\ rev["out"] /\ (OutClosed => fifo = <<>>)
        /\ \E n \in Transfers(fifo, PipeCap - Len(outq)) :
             outq' = outq \o First(fifo, n) /\ fifo' = Rest(fifo, n)
        /\ bpc' = "in" /\ UNCHANGED tret
     \/ /\ rev["out"] /\ OutClosed /\ fifo # <<>>
        /\ Leave(4) /\ UNCHANGED <<fifo, outq>>
     \/ /\ ~rev["out"] /\ rev["oerr"]
        /\ Leave(-5) /\ UNCHANGED <<fifo, outq>>
     \/ /\ ~rev["out"] /\ ~rev["oerr"]
        /\ bpc' = "in" /\ UNCHANGED <<fifo, outq, tret>>
  /\ UNCHANGED <<streamerVars, rev, bchld, mainVars, inq, signals>>

(* Mutant: a hangup of fd_in is passed over. *)
FifoInIgnoresHangup ==
  /\ bpc = "in"
  /\ \/ /\ rev["in"]
        /\ \E n \in Transfers(inq, FifoCap - Len(fifo)) :
             fifo' = fifo \o First(inq, n) /\ inq' = Rest(inq, n)
     \/ ~rev["in"] /\ UNCHANGED <<fifo, inq>>
  /\ bpc' = "poll"
  /\ UNCHANGED <<streamerVars, rev, tret, bchld, mainVars, outq, signals>>

(* fd_in -> FIFO. *)
FifoIn ==
  /\ bpc = "in"
  /\ \/ /\ rev["in"]
        /\ \E n \in Transfers(inq, FifoCap - Len(fifo)) :
             fifo' = fifo \o First(inq, n) /\ inq' = Rest(inq, n)
        /\ bpc' = "poll" /\ UNCHANGED tret
     \/ /\ ~rev["in"] /\ rev["ihup"]
        /\ Leave(10) /\ UNCHANGED <<fifo, inq>>
     \/ /\ ~rev["in"] /\ ~rev["ihup"]
        /\ bpc' = "poll" /\ UNCHANGED <<fifo, inq, tret>>
  /\ UNCHANGED <<streamerVars, rev, bchld, mainVars, outq, signals>>

(* mptools_destroy_pipedfork(): close the pipe, kill the child...          *)
Destroy ==
  /\ bpc = "destroy"
  /\ inq' = <<>>
  /\ term' = Live
  /\ bpc' = "wait"
  /\ UNCHANGED <<timeout, child, old, gen, sent, fifo, rev, tret, bchld, mainVars, outq, signals>>

(* Mutant: the FIFO is created anew for each streamer. *)
ReapNewFifo ==
  /\ bpc = "wait" /\ child = "zombie"
  /\ child' = "none" /\ term' = FALSE
  /\ bpc' = AfterWait /\ fifo' = <<>>
  /\ UNCHANGED <<timeout, old, gen, sent, rev, tret, bchld, mainVars, inq, outq, signals>>

(* ...and wait for its end. *)
Reap ==
  /\ bpc = "wait" /\ child = "zombie"
  /\ child' = "none" /\ term' = FALSE
  /\ bpc' = AfterWait
  /\ UNCHANGED <<timeout, old, gen, sent, fifo, rev, tret, bchld, mainVars, inq, outq, signals>>

(* The last btfifo_fifo_to_fd(), blocking. *)
Flush ==
  /\ bpc = "flush"
  /\ \/ /\ fifo # <<>> /\ ~OutClosed
        /\ \E n \in Portion(fifo, PipeCap - Len(outq)) :
             outq' = outq \o First(fifo, n) /\ fifo' = Rest(fifo, n)
        /\ UNCHANGED bpc
     \/ /\ fifo = <<>> \/ OutClosed
        /\ bpc' = "exit" /\ UNCHANGED <<fifo, outq>>
  /\ UNCHANGED <<streamerVars, rev, tret, bchld, mainVars, inq, signals>>

BufferExit ==
  /\ bpc = "exit"
  /\ bpc' = "exited"
  /\ mchld' = TRUE
  /\ UNCHANGED <<streamerVars, fifo, rev, tret, bchld, mpc, ident, got, mterm, inq, outq, signals>>

Buffer ==
  Fork \/ Poll \/ PollTimeout \/ FifoOut \/ FifoIn \/ Destroy \/ Reap \/ Flush \/ BufferExit

-----------------------------------------------------------------------------
(***************************************************************************)
(* The main process: stream_media_dvr_to_file().                           *)
(***************************************************************************)

(* poll_pipe_read(): data, 100 ms without any and an interruption all lead *)
(* to the read(); only the end of the pipe does not.                       *)
MainPoll ==
  /\ mpc = "poll"
  /\ mpc' = (IF outq = <<>> /\ OutEof THEN "stop" ELSE "read")
  /\ UNCHANGED <<streamerVars, bufferVars, ident, got, mterm, mchld, inq, outq, signals>>

(* read() waits for data or for the end of the pipe. *)
MainRead ==
  /\ mpc = "read"
  /\ outq # <<>> \/ OutEof
  /\ got' = got \o outq /\ outq' = <<>>
  /\ mpc' = "work"
  /\ UNCHANGED <<streamerVars, bufferVars, ident, mterm, mchld, inq, signals>>

(* Mutant: of the two flags only the death of the buffer process counts. *)
MainWorkForChild ==
  /\ mpc = "work"
  /\ \/ ~ident /\ ident' \in BOOLEAN /\ mpc' = "poll"
     \/ ident /\ mpc' = (IF mchld THEN "stop" ELSE "poll") /\ UNCHANGED ident
  /\ UNCHANGED <<streamerVars, bufferVars, got, mterm, mchld, inq, outq, signals>>

(* Frames are converted and written.  The loop that identifies the         *)
(* container does not look at the flags, the main loop does.               *)
MainWork ==
  /\ mpc = "work"
  /\ \/ ~ident /\ ident' \in BOOLEAN /\ mpc' = "poll"
     \/ ident /\ mpc' = (IF mterm \/ mchld THEN "stop" ELSE "poll") /\ UNCHANGED ident
  /\ UNCHANGED <<streamerVars, bufferVars, got, mterm, mchld, inq, outq, signals>>

(* poll(), the conversion or the output file fails. *)
MainFails ==
  /\ mpc \in {"poll", "work"}
  /\ mpc' = "stop"
  /\ UNCHANGED <<streamerVars, bufferVars, ident, got, mterm, mchld, inq, outq, signals>>

(* mptools_destroy_pipedfork(): close the pipe, which the buffer process   *)
(* may notice before it is told to terminate...                            *)
MainClose ==
  /\ mpc = "stop"
  /\ mpc' = "kill"
  /\ UNCHANGED <<streamerVars, bufferVars, ident, got, mterm, mchld, inq, outq, signals>>

(* ...kill the buffer process... *)
MainKill ==
  /\ mpc = "kill"
  /\ mpc' = "wait"
  /\ InterruptBuffer(old)
  /\ UNCHANGED <<timeout, gen, sent, fifo, tret, bchld, ident, got, mterm, mchld, inq, outq, signals>>

(* ...and wait for its end. *)
MainReap ==
  /\ mpc = "wait" /\ bpc = "exited"
  /\ mpc' = "done"
  /\ UNCHANGED <<streamerVars, bufferVars, ident, got, mterm, mchld, inq, outq, signals>>

Main == MainPoll \/ MainRead \/ MainWork \/ MainClose \/ MainKill \/ MainReap

-----------------------------------------------------------------------------
(***************************************************************************)
(* Termination signals: sht_handler() sets a flag, and a system call that  *)
(* waits returns with EINTR (no SA_RESTART).                               *)
(***************************************************************************)
SignalMain ==
  /\ signals < MaxSignals /\ mpc # "done"
  /\ signals' = signals + 1
  /\ mterm' = TRUE
  /\ mpc' = CASE mpc = "read" /\ outq = <<>> /\ ~OutEof -> "stop"
              [] mpc = "wait" /\ bpc # "exited"         -> "done"
              [] OTHER                                  -> mpc

(* A SIGTERM for the main process. *)
Terminate ==
  /\ SignalMain
  /\ UNCHANGED <<streamerVars, bufferVars, ident, got, mchld, inq, outq>>

(* The terminal hangs up: SIGHUP for all, by default deadly for the        *)
(* streamer.                                                               *)
Hangup ==
  /\ SignalMain
  /\ \/ /\ Live /\ ~term
        /\ term' = TRUE
        /\ PollInterrupted \/ UNCHANGED <<bpc, rev>>
        /\ UNCHANGED <<child, old>>
     \/ ~(Live /\ ~term) /\ InterruptBuffer(old)
  /\ UNCHANGED <<timeout, gen, sent, fifo, tret, bchld, ident, got, mchld, inq, outq>>

Next ==
  \/ Streamer
  \/ Buffer \/ PollFails
  \/ Main \/ MainFails
  \/ Terminate \/ Hangup

(***************************************************************************)
(* Every process runs on when it can and a killed one dies.  What fails,   *)
(* quits or writes need not, and poll() does not fail for ever.            *)
(***************************************************************************)
Fairness ==
  /\ WF_vars(Buffer) /\ SF_vars(Poll)
  /\ WF_vars(Main)
  /\ WF_vars(StreamerReady) /\ WF_vars(StreamerKilled) /\ WF_vars(OldStreamerKilled)

Spec == Init /\ [][Next]_vars
FairSpec == Spec /\ Fairness

-----------------------------------------------------------------------------
TypeOK ==
  /\ timeout \in BOOLEAN
  /\ child \in {"none", "starting", "running", "zombie"}
  /\ term \in BOOLEAN
  /\ old \in 0..MaxSignals+1
  /\ gen \in 0..MaxGen+1 /\ sent \in 0..MaxPerGen
  /\ inq \in Seq(Items) /\ Len(inq) <= PipeCap
  /\ outq \in Seq(Items) /\ Len(outq) <= PipeCap
  /\ fifo \in Seq(Items) /\ Len(fifo) <= FifoCap
  /\ bpc \in {"fork", "poll", "out", "in", "destroy", "wait", "flush", "exit", "exited"}
  /\ rev = Junk \/ rev \in [Flags -> BOOLEAN]
  /\ tret \in {0, 1, 2, 4, -5, 6, 10}
  /\ bchld \in BOOLEAN
  /\ mpc \in {"poll", "read", "work", "stop", "kill", "wait", "done"}
  /\ ident \in BOOLEAN /\ got \in Seq(Items)
  /\ mterm \in BOOLEAN /\ mchld \in BOOLEAN
  /\ signals \in 0..MaxSignals

(* From the DVR to the output file nothing is doubled or reordered, and a  *)
(* gap lies only where a streamer was replaced: of each streamer the file  *)
(* gets a beginning (dvrcontrol.c: the FIFO outlives the streamers).       *)
Follows(x, y) == y = <<x[1], x[2] + 1>> \/ (y[1] > x[1] /\ y[2] = 1)

OnlySessionsLoseTails ==
  LET s == got \o outq \o fifo \o inq
  IN /\ s # <<>> => s[1][2] = 1
     /\ \A i \in 2..Len(s) : Follows(s[i - 1], s[i])

(* mptools_destroy_pipedfork() in the buffer process never waits for a     *)
(* streamer that would not die: a SIGTERM sent before sht_init() gave it   *)
(* its default action is not lost (sht_signalblock_mgr() around the fork). *)
WaitedForDies == bpc = "wait" => child = "zombie" \/ (Live /\ term)

(* A streamer that died is replaced while the main process captures        *)
(* (buffered_tunnel_pipe() notices the hangup behind the last data).       *)
DeadStreamerReplaced == child = "zombie" ~> child = "starting" \/ ~MainActive

(* With a timeout, a streamer that went silent is replaced.                *)
SilentStreamerReplaced ==
  \A g \in 1..MaxGen : timeout /\ gen = g ~> gen > g \/ ~MainActive

(* What reached the FIFO reaches the main process, whatever becomes of the *)
(* streamer it came from.                                                  *)
FifoReachesMain ==
  \A x \in Items : x \in ToSet(fifo) ~> x \in ToSet(got) \/ ~MainActive

(* A termination signal that found the main process on its way into the    *)
(* read(), where it would wait with the flag set, is heeded as soon as     *)
(* there is data, and no other data is awaited then.  The loop that        *)
(* identifies the container is excepted: it does not look at the flags.    *)
TerminationHeeded == mterm /\ ident /\ outq # <<>> ~> ~MainActive

(* Once the main process closed its pipe, a buffer process that has        *)
(* nothing to write ends, and so does the capture.                         *)
ShutdownOnceDrained ==
  mpc = "wait" /\ bpc = "poll" /\ fifo = <<>> ~> mpc = "done"

-----------------------------------------------------------------------------
(***************************************************************************)
(* What comments say and the code does not do.                             *)
(***************************************************************************)

(* dvrcontrol.c:450-452: when the parent broke the pipe the function       *)
(* returns, so the parent that waits for it ends.                          *)
BrokenPipeEnds == mpc = "wait" ~> mpc = "done"
=============================================================================
