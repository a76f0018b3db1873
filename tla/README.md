# TaniDVR in TLA+

TaniDVR records live video of networked DVRs: `tanidvr` logs in, asks for the
media of a channel and writes it to a file as it comes (DHAV or raw H.264) or
as Matroska; `dhav2mkv` converts a recording afterwards. These modules model the
command line, the connection to the DVR and
what happens between its data coming in and the file on disk. They are
checked with TLC on small instances; the safety properties and the two
refinements that the runs check are then proved, with TLAPS, for every value of the
constants (section 4).

All paths below are in `src/` of the repository; a bare file name is in
`src/src/`.

## 1. The system

```
 DVR ==control, media==> streamer --pipe--> buffer [FIFO] --pipe--> main --> file
        sockets          hlprotocol.c       bufftools.c             mctools.c
                         llprotocol.c       dvrcontrol.c            filetools.c
                         network.c
      (forked again and again by buffer)   (forked once by main)
```

`main` forks the *buffer* process once; the buffer process forks a *streamer*
whenever the last one ended or was given up. The FIFO outlives the streamers, so
that main never notices a new DVR session other than by the data.
`dhav2mkv` is a single process: a read loop around the same framers and
converter.

| Component | Files | State | Operations |
|---|---|---|---|
| Circular byte FIFO | `bufftools.c` | buffer, `dlen`, `dpos` | create, fd to FIFO, FIFO to fd, lengths, destroy |
| Capture processes | `dvrcontrol.c`, `mptools.c`, `shtools.c` | three processes, two pipes, signal flags | fork, poll, transfer, time out, kill, wait, flush, terminate |
| Frame queue, DHAV framer | `mctools.c` 160-411, loops of `dvrcontrol.c`, `dhav2mkv.c` | `sq_p`, `sq_offs`, `sq_len` | identify the container, take data, deliver one frame |
| Raw H.264 framer | `mctools.c` 413-532 | the same queue | the same |
| Timestamp correction | `mctools.c` 890-1145 | two clocks, statistics | one video frame |
| Frame information, Matroska | `mctools.c` 560-885, 1180-1324 | `t_mc_parms`, `main_mkv_header_pending` | take down a frame's data, timestamp it, convert, write |
| DVR session | `hlprotocol.c`, `dvrcontrol.c` 91-345 | two connections, keep-alive and timeout timers, `t_devinfo` | login, queries, logout, relationship, media loop, keep-alive |
| Low-level protocol, sockets | `llprotocol.c`, `network.c` | addresses, stdio streams on sockets | look up, connect, send, receive, discard, poll |
| Command lines | `tanidvr.c`, `dhav2mkv.c` | `command_options` | take an option, check, start |
| Device information | `devinfo.c` | strings | create, free |
| Files, log, timers | `filetools.c`, `log.c`, `timertools.c` | streams, a start time | open, read, write, log, measure |
| Byte order | `bintools.h` | none | conversions |

How they interact: the processes by pipes (byte streams of limited room, whose
end is noticed by a hangup or an error in `poll()`), by `SIGTERM` and `SIGCHLD`
(flags set in `sht_handler()`, looked at in some places only) and by
`waitpid()`. Within main: `read()` hands bytes to the framer, the framer frames
to the collector, which leaves what it learned in `t_mc_parms` for the timestamp
correction and the converter.

What is hard in it:

* *concurrency*: signals between any two system calls, one of them in a window
  between `fork()` and `sht_init()`; a streamer replaced while its data is under
  way; a shutdown in which every process waits for another;
* *failure*: every transfer may be short, fail for now or for good; streamers
  die, fall silent, hang; forks fail; the DVR's data is damaged;
* *ordering*: data is cut at arbitrary places by three pipes; the FIFO wraps
  around; the framer's queue is packed now and then, with frames half received;
* *numbers*: DVR clocks that wrap at 65536 ms, stand still, jump; an unsigned
  timestamp that is corrected downward; frame rates of 0;
* *long histories*: captures are meant to run for months, and statistics and
  leftovers of corrections must not add up.

What makes each component correct: the FIFO is a queue and the flush at the end
complete; what reaches main is, of each session, a beginning, in order, streamers
that die or are silent are replaced, and a capture that is told to end does; the
framer delivers exactly the frames of the stream wherever it was cut;
timestamps stay close to the DVR's clock and corrections bring them closer; a
Matroska file has one header, at its beginning, elements that fill each other, and
every frame its own time; a host is given up only when none of its addresses answers;
options are what the user asked for; a connection hands on whole messages wherever the
network cut them; in a session no reply is taken for another, frames are written in order and none is left out,
keep-alives are sent however busy the stream is, and a dead session ends.

## 2. Modules

| Module | Models | EXTENDS / INSTANCE |
|---|---|---|
| `ByteQueue` | what `bufftools.h` promises: a bounded queue of bytes | abstract |
| `BtFifo` | `bufftools.c` and the last flush | INSTANCE `ByteQueue` |
| `BtFifoProofs` | theorems about `BtFifo` | `BtFifo` |
| `Capture` | the three processes | uses the FIFO as the queue `ByteQueue` describes |
| `CaptureProofs` | theorems about `Capture` | `Capture` |
| `FrameQueue` | `dstf_t`, identification, the loops around the framer | - |
| `DhavFramer`, `RawFramer` | the two framers | `FrameQueue` |
| `MCDhavFramer`, `MCRawFramer` | their streams for TLC | |
| `FramerProofs`, `RawFramerProofs` | theorems about `DhavFramer` and `RawFramer`, the queue of `FrameQueue` included | `DhavFramer`, `RawFramer` |
| `TsProc` | `dt_tsproc_process()` | - |
| `TsProcProofs` | theorems about `TsProc` | `TsProc` |
| `Session` | `hlprotocol.c`, `llprotocol.c` and the streamer's part of `dvrcontrol.c` | - |
| `MCSession` | options and queries of its instance for TLC | `Session` |
| `SessionProofs` | theorems about `Session` | `Session` |
| `Matroska` | the layout of a chunk of the output | - |
| `Converter` | from a frame to a chunk of the file | `Matroska`; takes a timestamp as what `TsProc` counts |
| `ConverterProofs` | theorems about `Converter` and `Matroska` | `Converter` |
| `Network` | `net_open()`: the search for an address | - |
| `Channel` | what the reader of a connection is promised: whole messages | abstract |
| `Wire` | headers and data as they are read, in parts | `Network`, INSTANCE `Channel` |
| `CommandLine` | the options of `tanidvr`: operators, no state | - |
| `Tanidvr` | `tanidvr` from its command line to the messages of a connection | `Wire`, `CommandLine` |
| `TanidvrProofs` | theorems about `Network`, `Wire` and `CommandLine`, as `Tanidvr` uses them | `Tanidvr` |
| `MCTanidvr` | messages and command lines for TLC | `Tanidvr` |

A definition that begins with a comment "Mutant:" is not part of a model: it
is the next definition with a plausible mistake, and exists to show that the
property named for it in `PROJECT.json` notices the mistake.

### BtFifo

The state is that of `btfifo_t` (`b`, `dlen`, `dpos`) with the history `rin`
(how many bytes were read) and `out` (what was written). The k-th byte of the
stream is the number k, so that bytes that get lost, doubled, swapped or
overwritten show. An action is a call; the results of the one or two `read()`
and `write()` calls in it are chosen freely: any number of bytes up to what was
asked for, 0, `EAGAIN`/`EINTR`, or failure. `Advance` has the code's order: the
test for an empty FIFO (bufftools.c:176) precedes the subtraction, so that its
reset of `dpos` never applies after a write; the wrap-around test does the rest.
The preliminary `poll()` of both functions is left out: the one caller sets
`BTFIFO_F_ASSUME_FD_READY`. `BTFIFO_F_USE_WMIN` is a constant; `dvrcontrol.c`
does not set it, the run does not either, and the theorems cover both.

### Capture

One variable per process says where it is: `bpc` in
`stream_dvr_subprocess_to_pipe()` and `buffered_tunnel_pipe()`, `mpc` in
`stream_media_dvr_to_file()`, `child` for the life of the streamer. Whatever can
change between two system calls makes them two steps: what `poll()` saw is kept
in `rev` and may be stale when it is acted on (after `EINTR` it is that of the
poll before, or not initialised). `old` counts streamers that were killed but, as
a signal cut `waitpid()` short, not waited for. No handler has `SA_RESTART` (shtools.c:194), so that
every signal may cut a `waitpid()`, the last `write()` or a `poll()` of the buffer process
(`InterruptBuffer`): one from outside, main's `SIGTERM` and the `SIGCHLD` of a streamer left behind earlier
(`OldStreamerKilled`), which then has the next one left behind in its place. `MainClose` and `MainKill`
are two steps, as the buffer process may see the broken pipe before the signal. The data are items `<<g, k>>`,
the k-th of streamer g.

Abstracted: the session inside a streamer, which may write, stay silent or end at
any time (it is in `Session`); conversion, which may fail or not; the timers, which may run
out whenever nothing happens. Two terminations are distinguished: a `SIGTERM` for
main, and a hangup of the terminal, which all processes get.

### Session

A connection is a socket queue `net[c]`, which `poll()` sees (`Pending`), and a stdio
buffer `buf[c]`, which it does not; `fread()` (`Take`) moves as many messages as happen to
be in the socket. `req` holds requests that the DVR has not handled. `pc` is where the
process is: "login", "answer", "first", "frame" and "alive" wait in `hlp_get_header()`,
whose discarding loop is `Discard`, "collect" in `hlp_get_system_information_multiple()`, "bye" and "nop"
in `hlp_get_header_and_extdata()`. `Ask` and `Answer` are all the queries of the OEM client's
dialect, one at a time, of the kinds `Script` lists; those whose reply is thrown away are all
"query". `due` says which of the two timers has run out. `ret` is the result of
`stream_media_dvr_to_pipe()`. `opt.mode` is "info" for a session that tanidvr.c opens
only to learn about the device and then closes, "capture" for a streamer's.

The DVR is what the code allows for: it handles requests in order, replies or not and as late as
it likes, refuses a login, sends texts and frames that are too large, answers the relationship or
not, sends on either connection unasked and without end, stops for ever (there is no fairness for
it) or closes, with or without a reset. Messages come whole: those that the network cuts, and
timeouts in the middle of one, are in `Wire`. The pipe takes each frame or fails: the waiting is in
`Capture`.

### Network, Wire, Channel

`Network` has the list that `getaddrinfo()` found (`ai`), the array of `network.c` that
is tried from its end (`sa`) and what became of it (`net`). `Resolve` is the lookup with the
choice of a family: IPv4 if there is one such address, and what follows the first of them
in the list, other families included; `Connect` is one turn of the loop. A host
without an address of either family gives the result 1 ("stdout"), which the caller
takes for a descriptor; nothing is modelled behind that.

`Wire` goes on where the connection is open. `flying` are the cells of a message on their
way, `arrived` those that `fread()` can have. A cell is a byte with `Base` instead of 256 values; a
header is one cell for the command and two for `extlen`, least significant first, of the 32 bytes
of the code. Cells arrive one by one, the DVR may close the connection in the middle of a message, and what
is under way may be lost with it. A read either has all it wants or, at a timeout
or behind the end, fails and keeps what did arrive (`ReadFails`): the next read begins in the
middle of a message. Reading is `GetHeader`, `GetExtdata` and `Discard`; the two users are
`hlp_collect_media_data()`, which its caller gives up after the first error, and
`hlp_get_system_information()`, whose caller goes on with the next question. What the DVR would send
while a message is on its way is sent later, which no reader can tell.

`Channel` says what that amounts to: messages are delivered whole and in order, or skipped whole,
until a read stops within one (`Cut`). From then on, `state` "lost", anything may be
taken for a message. A user of media data learns of it, unless the cut was in
a message that was only being discarded: `hlp_get_header()` drops the result of
`llp_get_discard_extdata()` (hlprotocol.c:92). The mapping is the identity but for `state`,
which is "ended" when the user stopped.

### CommandLine, Tanidvr

An argument is an option with a number, a text that is no number, or a string of which at
most the length counts. With a number comes what `sscanf("%d")` makes of it (`Scans`): the number, if an `int` has
room for it, and else any `int`, as that is undefined in C; glibc keeps the low bits. `Option` is one turn of the loop over `getopt_long()`, `Complete` what
follows it. Numbers are read into the variable `p` of the function by some options and directly into
`command_options` by others (`ViaP`): a word that is no number leaves there what an earlier
option read, or what was never initialised (`Junk`).

`Tanidvr` has three phases, in `main`. `Process` is the whole of
`process_command_line_arguments()`; `OpenSession` hands the timeout on to the sockets,
whose reads can then fail without an end of the connection; then `Wire` and `Network` take their steps. That is all that
connects the options with the connection here: the others' effects are in `Session` (`opt`) and `Converter`
(`tsproc`, `ntsc_exact_60hz`).

### FrameQueue, DhavFramer, RawFramer

The state is `dstf_t`, cell by cell, and the stream, which is chosen at the
beginning. `Read` takes an arbitrary piece of it, which goes to `Process`, `Again`
is the inner loop that calls `Process` with no new data while the result is
positive, `Identify` is the loop before them. `Process` is one whole call: packing and appending
(`Loaded`), skipping (`StopsAt` says where the skipping loop of the code stops),
and delivering (`Settle`). In `DhavFramer` a cell is four bytes, the size of
every field that matters; what the code skips byte by byte, the model skips by
such words. In `RawFramer` a cell is a byte, since a start code is cut anywhere.

`DhavFramerAssumption` excludes frames that claim a length below 8 bytes, for
which `dhav_offset` (mctools.c:344) wraps around. `RawFramerAssumption` excludes raw streams whose first
start code is not read while the format is being identified, whole and in front of `Dahua_ZH`: of such a one
`dstf_process_raw_h264_stream_to_frames()` may drop a part (mctools.c:480), and with it the first frame.
`FramesFrom` is what the framers are measured by: the frames of a stream that is looked at as a whole, from each offset on.

### TsProc

`v_ts` and `v_dhav` are `v_timestamp` and `v_dhav_timestamp`, `sdc_*` the
statistics of the slow drift (`sdc_t_ref` is only logged). Divisions round toward
zero as in C (`Trunc`). There is one action per branch of the code. Time is
in milliseconds instead of nanoseconds, and the reference period is given rather
than computed from the frame rate. An epoch jump may come with any frame.
`sdc_t_frames` and the clocks are 64 bits wide in the code; at a thousand frames a
second and in nanoseconds they last for centuries, and are not wrapped here.

### Converter, Matroska

One action, `Frame`, is one turn of the inner loop of `dvrcontrol.c` 727-769 or
of `dhav2mkv.c` 260-301: collect, correct the timestamp, convert, write.
A timestamp is the number of frames timed before, `Junk` what `malloc()` left.
`Crash` is the division by zero, by the height in the collectors or by the frame
rate in `dt_tsproc_process()`. A frame has a kind, the length of the video in it and, where
the format has them, a frame rate and a height, of which `GuessNtsc` makes what the code does. Frame
rates and periods are fractions, so that `MkvFps` and `RefPeriod` can be compared
exactly.

`Matroska` is the table `mkv_head[]` as a list of elements: in which other element each one lies, what
its size field says, and how many bytes it has. `Patches` are the places where
`dt_convert_frame_to_mkv()` overwrites it, at the offsets of the macros `MKV_HOFF_*`.

## 3. Runs

| Run | Shows | Distinct states |
|---|---|---|
| `BtFifo` | `TypeOK`, `InOrder`, `FlushComplete`, `ImplementsByteQueue` | 904 |
| `Capture` | `TypeOK`, `OnlySessionsLoseTails`, `WaitedForDies` | 3.6 million |
| `CaptureLive` | `SilentStreamerReplaced`, `DeadStreamerReplaced`, `FifoReachesMain`, `TerminationHeeded`, `ShutdownOnceDrained` | 200 thousand |
| `DhavFramer` | `TypeOK`, `HoldsTail`, `FramesInOrder`, `FailsOnLargeFrame`, `EveryFrameDelivered` | 33 thousand |
| `RawFramer` | `FramesInOrder`, `EveryFrameDelivered` | 34 thousand |
| `TsProc` | `TypeOK`, `StaysClose`, `StatsFollowClocks`, `CorrectionsHelp` | 981 thousand |
| `Converter` | `HeaderOnce`, `TimeIsOwn`, `ChunksWellFormed`, `NtscRateAgrees` | 109 thousand |
| `Session` | `TypeOK`, `MediaInOrder`, `InfoIsOwn`, `AlarmConfirmed`, `KeepAliveIsOwn`, `KeepAliveDespiteMedia`, `ClosedSessionEnds`, `SilentSessionEnds` | 494 thousand |
| `Tanidvr` | `TypeOK`, `ReachableIsTried`, `AsAsked`, `ImplementsChannel` | 3.6 million |
| `CaptureBrokenPipe`, `TsProcSlow`, `ConverterNoFps` | a counterexample each, section 5 | |

Bounds, and why they are enough:

* `BtFifo`: 5 cells and 16 bytes let every pair of `dpos` and `dlen` come up with
  each of one and two regions on both sides, and the position wrap around three
  times. The theorems cover every other size.
* `Capture`: room for 1 item in a pipe and 2 in the FIFO: a full pipe, a FIFO
  that is full, half full or empty, and a transfer that cannot move all. Two streamers
  that write three items each, so that a gap within a session could be told from one
  between sessions; behind them silent ones without limit. One signal from outside;
  with two, `waitpid()` is interrupted more often and `old` grows, nothing else. One streamer left behind is
  enough for its `SIGCHLD` to cut the next `waitpid()`, and so on.
* `CaptureLive`: one streamer that writes, two items, as the graph for liveness is larger.
* `DhavFramer`: a queue of 10 words, reads of up to 3, streams of up to three
  of nine pieces: whole frames of three lengths, one with a header inside; stray data,
  no trailer, a different second length, a frame cut off, one longer than the
  queue, one as long as the queue. Every read size at every place makes every cut;
  the queue is packed in most streams.
* `RawFramer`: a queue of 18 bytes, reads of up to 3, up to three pieces behind
  the frame that the format is recognised by, start codes side by side and cut in two.
  The queue is larger than twice the longest frame, as it is in the code, where it
  holds megabytes.
* `TsProc`: a wrap-around of 16, reference periods 2 and 3, which may change with any frame, lapses 0
  (stands still), 1, 7, 8 and 13, that is up to beyond the damping limit of 4 periods; 3 samples instead
  of 1000 before a slow drift counts; nine frames, enough for a slow drift after a
  correction of one. `TsProcSlow` has one period and eleven frames. The theorems are about any number of frames.
* `Converter`: four frames of four kinds, in which a header that waits, a first frame, a change of
  parameters and a frame too large can follow each other; frame rates of 0, 25 and 30; heights of none, of NTSC,
  of PAL and of neither, where the frame rate decides; 10, 100 or 500 bytes of video and
  room for 500, so that the first fits with the main header, the second without it only,
  and the third never.
* `Tanidvr`: every host of up to four addresses of three families, with an array of three
  (instead of 10), so that it is also too short; three messages of two commands, with data that is empty, that looks like
  a header, or that is longer than the buffer of 3; chunks of 2 in the discard, so that the last one is cut.
  29,189 command lines: every one or two options with numbers below, at and above the limits, with one beyond
  `INT_MAX` or with a word instead, in front of the mandatory ones, of which one may be missing. Two options are enough for
  one to leave `p` to the other, and for the second to replace the first. `INT_MAX` is 2^23-1 instead of 2^31-1, as TLC's
  own numbers end there; that is still beyond every limit. The number beyond it is read as 1, which is its low bits, or as `INT_MAX`.
* `Session`: two frames in the socket, so that `fread()` can leave one in the buffer, numbered modulo 3,
  so that one or two missing ones show, one that is rejected, which ends the session, alone in the socket; messages unasked without
  limit, each when nothing else is on its way on that connection. The OEM client's dialect is run up to the logout, with two texts
  and two alarms that may be confused, the common one up to the logout and with the media loop,
  there with both timers and with none. In every text query of the common dialect the reply may be
  too large.

`CHECK_DEADLOCK FALSE` is set where the modelled program ends or a bound is
reached: `BtFifo` (destroyed), `Capture` (done), `TsProc` and `Converter` (no
more frames), `Session` (ended, or waiting for a DVR without a timeout), `Tanidvr` (exited, host given up, or
waiting without a timeout). `DhavFramer` and `RawFramer` have the step `Done` instead.

Fairness:

* `Capture`: the buffer process and main take their next step when they can,
  which is what a scheduler does; killed streamers die, and a streamer that was
  forked gets through `sht_init()`. `SF_vars(Poll)` says that a `poll()` for which
  something is ready again and again returns at some time, rather than time out
  or be interrupted each time. Nothing is assumed of what the outside does: streamers need
  not write or end, forks and polls and conversions may fail or not, signals need not come.
* `DhavFramer`, `RawFramer`: the loop goes on (`WF_vars(Next)`). A read returns 0 at
  the end of the stream; on a live pipe it waits instead, which is not modelled here.
* `Session`: the process takes its next step when it can, and timers run out (`WF_vars(Process)`,
  `KaExpires`, `ToExpires`). A read with nothing to read fails at last only if there is a timeout
  (`SO_RCVTIMEO`, network.c:210) or the connection is closed. Nothing is assumed of the DVR:
  `SilentSessionEnds` says that a session with a timeout ends unless the DVR does something again and again.
  `KeepAliveDespiteMedia` needs the timeout as well: without it the wait for one frame, or for a
  keep-alive's reply, may last for ever. And it needs the DVR not to send messages unasked for ever
  (`[]<><<DvrNote>>_vars` is excepted): `hlp_get_header()` and `hlp_discard_incoming_data()` discard them
  for as long as they come (hlprotocol.c:85-96, :942). Without the exception TLC finds the property violated, in the wait
  for the reply to a keep-alive.
* `Tanidvr` has safety properties only and states no fairness.

`TerminationHeeded` says what the code can keep: a signal that finds main between its look at the
flags and the blocking `read()` (dvrcontrol.c:717) is not forgotten, but it waits for data. The
loop that identifies the container is excepted, as it has no look at the flags at all.

## 4. What is proved

TLAPS proves every safety property that a run checks, and that `BtFifo` implements `ByteQueue` and
`Wire` implements `Channel`, with no bound on sizes, lengths of streams, numbers of streamers, frames or
messages, or steps. The bounds of the runs stay in the modules, as constants of which no more is assumed than that they are
numbers. Each proof follows one argument: an inductive invariant that implies the property,
one lemma per action that keeps it, and `PTL` for the step to the temporal formula.

* `BtFifoProofs`: `TypeCorrect`, `FifoInOrder`, `FlushDelivers`, `FifoIsQueue`. The inductive
  invariant `IInv` is `TypeOK`, `InOrder` and "closed and not cut short, hence
  empty". `InOrder` carries the proof: it says what each stored cell holds. Four
  lemmas say what it needs of cells on a ring: filling behind the stored bytes
  (`Fill`) touches none of them, giving up the oldest (`Release`) and writing a run of
  cells (`Emit`) keep order. The two-region cases apply them twice.
  `FifoIsQueue` maps the initial states and each step, under the same invariant, to one of the abstract queue or a stutter.
  Assumed: `BtFifoAssumption` (a buffer of at least one byte).
* `CaptureProofs`: `TypeCorrect`, `NeverWaitsInVain`, `OnlyTailsAreLost`. `Ctl` says where the
  buffer process is while there is a streamer and how many of them it may have left unwaited for (`OldCounted`: at most
  one for each signal, and one for the end of main; the `SIGCHLD` of a streamer left behind may cut the next `waitpid()`, but
  then there is one less and one more);
  without it `WaitedForDies` is not inductive, as it speaks of one place only. `Order` strengthens
  `OnlySessionsLoseTails`, which is about what main has, to all that is under way (`All`: got, second pipe, FIFO,
  first pipe), and adds that the next item of the present streamer continues it (`Writable`). This is where it matters that
  the pipe is new for every streamer.
* `FramerProofs`, for `DhavFramer` and every set of streams, damaged ones included but for lengths below 8 bytes: `FramerTypeCorrect`,
  `QueueInOrder`, `NoFrameLost`, `OnlyLargeFramesFail`. `IInv` adds to `TypeOK` and `HoldsTail` that
  identification leaves `sq_offs` at 0: without it the loop that appends without
  looking (dvrcontrol.c:683) is not known to stay within `sq_p[]`, since its condition
  is on `sq_len` alone. `NoFrameLost` needs `Chain`: what was delivered, and the frames
  found in the stream from where the queue begins, are the frames of the whole stream. A step moves the beginning of the queue past
  offsets at which no frame can begin (`PassedOver`), or past one frame (`InTurnDelivered`); both rest on
  lemmas about `FramesFrom`. `OnlyLargeFramesFail` needs `Room`: when the loop is about to read, there is
  room for a read, or the queue begins with a frame that is not complete. It is a theorem about `MaxDst >= MaxLen` and
  `MaxRead + 3 <= MaxLen`, which is the code's case: the queue holds `T_MC_PARMS_DHAV_STF`, 1000000 bytes (mctools.h:28), the buffer
  for a frame 2000000 in `dhav2mkv` ("this buffer MUST be > than T_MC_PARMS_DHAV_STF", dhav2mkv.c:33) and 1000000 in `tanidvr` (dvrcontrol.c:41), and a
  read is a hundredth or a quarter of it.
  Assumed: `FrameQueueAssumption` (two reads fit into the queue) and `DhavFramerAssumption`.
* `RawFramerProofs`: `NoFrameLost` for `RawFramer`. `Chain` has to say more here, as start codes are cut in two: the next one is either where the queue
  begins or was read to its last byte (`Found`). The framer drops a queue with no start code in it, so
  an invariant without this does not exclude that a beginning of one goes with it. During identification nothing is
  dropped, and `Mark` was not read. Assumed: `FrameQueueAssumption` and `RawFramerAssumption`; without the latter TLC finds the property
  violated: behind `Dahua_ZH` and stray bytes a read ends within the first start code, and its beginning is dropped.
* `TsProcProofs`: `TimestampsTypeCorrect` for any frame rates, changing ones too.
  `TInv` adds `sdc_eff <= v_ts`: a correction by the statistics takes off at most what
  was added since they were reset. `TimestampsStayClose` and `StatisticsFollow` hold for changing rates, too,
  under `SourceRates`: the damping limit is the code's 4 and there is a longest
  reference period, as a frame rate is a byte. `CInv` is the conjunction of the two with `TInv`; neither is
  inductive alone, as a slow drift is corrected by the statistics and the
  statistics are right only while the clocks are close. What a call does to the two differences is said
  once, in `Call`. `CorrectionsDoHelp` needs `NearRates`, that no rate is more than half as high again as another.
* `ConverterProofs`: `MainHeaderOnce`, `TimestampsOwn`, `NtscRatesAgree`, `FileWellFormed`. `IInv` adds to the
  properties that the header is due as long as nothing was written (`HeaderDue`), whatever conversions fail, and that the timestamp counts the frames timed behind
  the first (`Clock`), in `TsProc`'s variable or in the collector's, whichever of the two is in use. `FileWellFormed` goes through the table of elements:
  the end of each is computed for the chunk with and without the main header, for video of any length. Assumed: `ConverterAssumption`.
* `SessionProofs`: `TypeCorrect`, `FramesFollow`, `TextsAreOwn`, `AlarmsAreEnabled`, `KeepAlivesMatch`. The properties are about what
  was taken; the invariant extends them to what is on its way, in the socket or in the stdio buffer (`Arrived`): the frames there go
  on from the last one written up to the last one sent (`Stream`), alarms there are of enabled types (`Alarms`), and for each place in the program `Phases` says which replies
  may be there and how many. That at most one reply to a status query is under way carries
  `KeepAlivesMatch`, and only for sessions that saw the reply to the NOP (section 5 has the others).
* `TanidvrProofs`: `TypeCorrect`, `HostNotGivenUp`, `WireIsChannel`, `OptionsAsAsked`. `HostNotGivenUp` is about any number of addresses: `NetInv`
  says, while the loop runs, that what of `sa[]` is already tried did not answer and the rest is still there. `WireIsChannel` rests on `InStep`: as long as
  no read was cut, what has arrived and what is flying are the cells of messages sent but not taken, but for a beginning whose length the
  reader knows. `OptionsAsAsked` is an induction over the arguments (`Taken`), which follows `Option` from one to the next, with the variable
  `p` that may keep what an earlier option read. That a number is stored as it was given is claimed of numbers that an `int` has
  room for; what is stored is in range for all. Assumed: `NetworkAssumption`, `WireAssumption`, `TanidvrAssumption` (arguments are arguments).

`NearRates` is needed: with reference periods 3 and 5, or 1 and 3, in one stream TLC finds a correction that
leads away from the DVR's clock, as the statistics go on over a change of the rate and were collected in periods of another
length. With 2 and 3, as the run has them, none does: the limit is where the theorem puts it.

Induction over data is done by hand, as the library's induction theorems cannot be instantiated here: for `FramesFrom`, defined backward from the end of
the stream, and for the fold over the arguments, a set of counterexamples has a least member by the well-foundedness of the numbers
(`WFMin` in `WellFoundedInduction`), and that is refuted (`NatInduct`). `CHOOSE` of a least offset is unfolded once (`LeastOf`).

Only model-checked: liveness, which is out of the prover's reach as it needs fairness and `ENABLED`. That is
`EveryFrameDelivered` of both framers, `SilentStreamerReplaced`, `DeadStreamerReplaced`, `FifoReachesMain`,
`TerminationHeeded` and `ShutdownOnceDrained` of `Capture`, and `KeepAliveDespiteMedia`, `ClosedSessionEnds` and `SilentSessionEnds` of `Session`.

## 5. Where the code and what is said of it differ

With a run (each property states the claim, TLC finds the counterexample):

* `CaptureBrokenPipe`, `BrokenPipeEnds`. When main closes its pipe while the FIFO is not
  empty, the write fails and `buffered_tunnel_pipe()` returns 4, a recoverable
  condition: another streamer is forked, and so on, while main waits for the buffer
  process. dvrcontrol.c:450-452 lists "parent broke pipe" as unrecoverable. With an
  empty FIFO it is (`ShutdownOnceDrained`).
* `TsProcSlow`, `JIsTwo`. mctools.c:1104 says "here, j == 2  always"; it is also -2,
  and then a period is added where one should be taken off.
* `ConverterNoFps`, `NoFpsIsFatal`. A frame rate of 0 is reported as fatal
  (mctools.c:580), both callers drop the result, and the next P-frame divides by it.

Noticed while modelling, without a run:

* bufftools.c:50-53 and 112-115 say that no data was transferred when a result is
  negative, but the first of two regions may have been; the models have it, nothing is lost
  by it, and the only caller does not rely on the comment.
* The reset of `dpos` in bufftools.c:174-177 comes too early ever to apply after a write.
* `sht_fl_sigchld` may be left over from a streamer killed earlier: the next one is then
  given up for dead (dvrcontrol.c:407-412) at its first silent second.
* A timeout also strikes when the FIFO is full and the streamer cannot write; a hangup then
  loses what is in the pipe (dvrcontrol.c:434-436).
* After 100 ms without data main goes into a blocking `read()` (dvrcontrol.c:714-717), where it no
  longer looks at its flags; it ends with the next data (`TerminationHeeded`), or not at all.
* `poll()` with `EINTR` leaves `revents` as they were, at first uninitialised
  (dvrcontrol.c:399-400); `fd_in` and `fd_out` are unset if the first `fork()` fails
  (dvrcontrol.c:562).
* A DHAV frame that would leave no room for another read is waited for until the queue is full, which
  is fatal (`FailsOnLargeFrame`); mctools.c:348-350 skips only those longer than the queue.
* `dstf_process_dhav_stream_to_frames()` returns 3, which its comment (mctools.c:286-291)
  does not list; the callers handle it.
* Of several conversions of one read only the last one's -4 ends the program
  (dvrcontrol.c:784), though mctools.c:1175 calls every result below 0 fatal.
* The correction by an epoch's difference (mctools.c:1031-1043) is unreachable.
* Before its first start code the raw framer drops everything, half a start code at
  the end included (mctools.c:480).
* hlprotocol.c:607-615: cases 11 and 19 fall through, so that the text about the chipset is stored as
  split-screen capability and languages, too, until replies about these come. `InfoIsOwn` leaves these fields out.
* hlprotocol.c:760: what is neither information nor the reply to the NOP is stored as information all the
  same, if `raw[8]` happens to be one of the types; for a message about an alarm it is 2, the type of the
  disk. `InfoIsOwn` leaves this field out.
* After a reply that is too large (hlprotocol.c:743) the reply to the NOP, also `0xb1`, is still to come:
  the first `hlp_keep_alive()` may take it for its own, unless `hlp_discard_incoming_data()` was
  faster. The same goes for a status query that timed out. `KeepAliveIsOwn` is about sessions where the reply
  to the NOP was seen.
* hlprotocol.c:958-965 and 934-956 speak of pending data; `poll()` sees what is in the socket and not
  what stdio has buffered. Frames may lie in the buffer until more data comes.
* The DVR may keep the wait for a keep-alive's reply or for a frame going with messages that are
  discarded, and the timeout, which is per read, never strikes: the premise of `KeepAliveDespiteMedia`.
* dvrcontrol.c:409-410 says "(total children <= 1) always". After an interrupted `waitpid()` (mptools.c:92) there
  may be two for a while, and when the first dies its `SIGCHLD` may cut the next `waitpid()`.
* A read that times out within a message leaves the stream out of step (llprotocol.c:38, :67); `Channel`
  says who learns of it. hlprotocol.c:76 promises "return ==0 ok, !=0 error or timeout (no valid
  header data)" of `hlp_get_header()`, which after a discard that timed out goes on and may return 0 with
  data for a header.
* network.c:172 returns 1 for a host with no address of a known family; every caller takes it for
  a descriptor, that of the standard output. IPv6 is not tried when there is an IPv4 address, be it
  unreachable.
* `-a 0` is refused (tanidvr.c:239), though 0 is what the dialect is without the option and what the help
  gives as its default.
* The results of `sscanf()` are dropped: `-p 80 -k x` sets keep-alive to 80, and `-k x` alone
  tests an uninitialised variable. A number beyond `int` may pass for another: with glibc `-p 4294967377` is
  port 81 (tanidvr.c:263; likewise :238, :308, :316, :327 and the options read in place).
* `di_init()` does not initialise `dev_type_chipset`, which tanidvr.c:106 prints.
* mctools.c:875 assigns `NAL_type` where it means to compare: every frame that gets there, the one with the
  picture's size included, moves the timestamp of raw video.
* The frame rate of PAL video is written with the factor 1000/1001 (mctools.c:1162), while
  its reference period has none (line 991). `NtscRateAgrees` is about NTSC, where the two agree.
* The main header is copied to the output (mctools.c:1217) before the size is tested (line 1258). The
  buffers of both callers have room for it, which `ConverterAssumption` says.
* The macro `MKV_HOFF_CodecID` (mctools.c:40) is 2 behind the place; nothing uses it. The case of height 60
  (line 672) cannot come: heights are multiples of 8.
* Raw video is said to have 20 frames per second and timed with 60 ms per frame (mctools.c:880).
* hlprotocol.c:453: the channel number is 0 for channel 255; line 852 looks at the request where it means the
  reply; line 710 copies `infotype` before it is set.
* tanidvr.c:352-357 logs that keep-alive must be shorter than the timeout and goes on.

## 6. Not modelled, and the plan

Not modelled: widths and the guess of the aspect ratio, and native output, which is a copy; which
channels a device has, and the display of what is known about it; the options of `dhav2mkv`, a subset
of the same form; the log, files and timers, wrappers of the library; failures to allocate;
frames that claim fewer than 8 bytes (mctools.c:344) or a header longer than the frame. `Session` and
`Wire` are two views of one connection and not composed: the first has all messages, whole, the second their bytes and one
kind of user at a time. The one hazard that is not covered, mctools.c:344, has a note in `PROJECT.json`.

Order of the work, the most important behaviour first; 1 to 8 and 10 are done.

1. `BtFifo` with `ByteQueue`; type, order and flush, proved.
2. `Capture`: order over sessions, replacement, shutdown.
3. `FrameQueue` with `DhavFramer` and `RawFramer`; the queue's invariants, proved.
4. `TsProc`; closeness of the clocks, proved.
5. `Converter`: header and timestamps.
6. `Session`: the two connections, the queries and the media loop with its timers.
7. `Matroska` in `Converter`; termination of `Capture` behind the blocking read.
8. `Wire` with `Channel` and `Network`; `CommandLine`; both in `Tanidvr`.
9. Composition of `Session` with `Capture`'s streamer: every behaviour of the media loop is one of
   `StreamerWrite`, silence, or `StreamerEnds`.
10. Proofs of the safety properties and of both refinements; done, section 4.

What is left: 9.
