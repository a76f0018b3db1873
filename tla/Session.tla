------------------------------ MODULE Session -------------------------------
(***************************************************************************)
(* A session with the DVR: hlprotocol.c over llprotocol.c, open_session(), *)
(* close_session() and stream_media_dvr_to_pipe() of dvrcontrol.c.         *)
(*                                                                         *)
(* There are two TCP connections.  Requests go out on "ctrl" (req), their  *)
(* replies come back on it; media data comes on "stream".  What comes      *)
(* waits in the socket (net), where poll() sees it, until fread() moves it *)
(* to the buffer of the stdio stream (buf), where poll() does not.         *)
(*                                                                         *)
(* A message is a command, what it is about (the number of a frame, a type *)
(* of information or of alarm), and whether its receiver likes it: not so  *)
(* a refused login, a text larger than the buffer for it, a frame larger   *)
(* than its buffer or with an error code.  A request and its reply have    *)
(* the same command here; "status" is 0xa1 and 0xb1, which serves as NOP   *)
(* and as keep-alive, too.  Messages come whole.                           *)
(***************************************************************************)
EXTENDS Integers, Sequences, SequencesExt

CONSTANTS
  Options,   \* bound: the options considered
  NetCap,    \* bound: media data in the socket of the stream
  N,         \* bound: frames are numbered modulo N, so that N - 1 missing ones show
  Infos,     \* what open_session() asks of any DVR, in its order
  Script     \* what it asks in the OEM client's dialect, in its order

Message(c, a, g) == [cmd |-> c, arg |-> a, good |-> g]
Request(c, a) == [cmd |-> c, arg |-> a]
Query(t) == Request("info", t)
Status == Request("status", 0)

ASSUME SessionAssumption ==
  /\ NetCap \in Nat \ {0}
  /\ N \in Nat \ {0}
  /\ Options \subseteq [mode : {"info", "capture"}, dialect : {0, 1}, timeout : BOOLEAN, keepalive : BOOLEAN]
  /\ Infos \in Seq(0..255)
  /\ Script \in Seq([cmd : {"status", "info", "alarm", "query"}, arg : 0..255])

VARIABLES
  opt,      \* options: mode, dialect, timeout_us # 0 and keep_alive_us # 0
  \* the two connections
  net, buf, req,
  \* the DVR
  closed,   \* it has closed its connections
  tied,     \* the relationship of the connections: "no", "asked" or "answered"
  playing,  \* it sends media data
  sent,     \* the last frame it sent
  enabled,  \* alarms it has enabled
  \* the process in the session
  pc,
  step,     \* of Script
  synced,   \* hlp_get_system_information_multiple() returned 0
  devinfo,  \* per field, the message it was taken from
  alarms,   \* those for which hlp_set_alarm() returned 0
  last,     \* the last frame written to the pipe
  due,      \* ka_timer and to_timer are past their time
  ret       \* what the session ended with

chanVars == <<net, buf, req>>
dvrVars == <<closed, tied, playing, sent, enabled>>
dataVars == <<synced, devinfo, alarms>>
procVars == <<pc, step, dataVars, last, due, ret>>
vars == <<opt, chanVars, dvrVars, procVars>>

Conns == {"ctrl", "stream"}
Commands == {"login", "status", "info", "alarm", "query", "media", "logout", "tie", "note"}
Nothing == Message("none", 0, TRUE)
Messages == [cmd : Commands, arg : Nat, good : BOOLEAN]
HD == 2   \* the type of information that is not a text
NoteType == HD   \* raw[8] of a message about an alarm happens to be 2

(* The fields that a reply about type t is stored in: there is no break    *)
(* behind the cases 11 and 19.                                             *)
FieldsOf(t) == CASE t = 11 -> {11, 19, 20}
                 [] t = 19 -> {19, 20}
                 [] OTHER -> {t}
Fields == {HD} \cup Range(Infos) \cup {Script[k].arg : k \in {j \in DOMAIN Script : Script[j].cmd = "info"}}

Init ==
  /\ opt \in Options
  /\ net = [c \in Conns |-> <<>>] /\ buf = [c \in Conns |-> <<>>] /\ req = <<>>
  /\ closed = FALSE /\ tied = "no" /\ playing = FALSE
  /\ sent = 0 /\ enabled = {}
  /\ pc = "connect" /\ step = 1 /\ synced = FALSE
  /\ devinfo = [f \in Fields |-> Nothing] /\ alarms = {}
  /\ last = 0 /\ due = [ka |-> FALSE, to |-> FALSE] /\ ret = -1

-----------------------------------------------------------------------------
(***************************************************************************)
(* Reading and writing.                                                    *)
(***************************************************************************)

Arrived(c) == buf[c] \o net[c]

(* fread() of the next message: out of the buffer if there is one, else it *)
(* reads as many messages as there happen to be from the socket.           *)
Take(c) ==
  \/ /\ buf[c] # <<>>
     /\ buf' = [buf EXCEPT ![c] = Tail(@)]
     /\ UNCHANGED <<net, req>>
  \/ /\ buf[c] = <<>>
     /\ \E n \in 1..Len(net[c]) :
          /\ buf' = [buf EXCEPT ![c] = SubSeq(net[c], 2, n)]
          /\ net' = [net EXCEPT ![c] = SubSeq(@, n + 1, Len(@))]
     /\ UNCHANGED req

(* Mutant: sockets have no SO_RCVTIMEO, a read waits for ever. *)
ReadFailsNeverTimesOut(c) == Arrived(c) = <<>> /\ closed /\ UNCHANGED chanVars

(* The end of the stream, or SO_RCVTIMEO. *)
ReadFails(c) == Arrived(c) = <<>> /\ (closed \/ opt.timeout) /\ UNCHANGED chanVars

(* Mutant: the loop asks how much data there is, not poll(). *)
PendingDataOnly(c) == net[c] # <<>>

(* What poll() reports of a socket; at its end it is readable, too. *)
Pending(c) == net[c] # <<>> \/ closed

(* Requests leave together; those to a DVR that has closed come to nothing,*)
(* which may go unnoticed.  SIGPIPE is ignored.                            *)
Send(rs) ==
  /\ req' = IF closed THEN req ELSE req \o rs
  /\ UNCHANGED <<net, buf>>
SendFails == closed /\ UNCHANGED chanVars

Goto(p) == pc' = p /\ UNCHANGED ret
End(r) == pc' = "ended" /\ ret' = r

-----------------------------------------------------------------------------
(***************************************************************************)
(* hlp_get_header(): what the process waits for, on which connection, and  *)
(* what it discards until that comes.                                      *)
(***************************************************************************)

Awaiting == {"login", "answer", "first", "frame", "alive"}
Awaited == CASE pc = "login" -> "login"
             [] pc = "answer" -> Script[step].cmd
             [] pc \in {"first", "frame"} -> "media"
             [] pc = "alive" -> "status"
Conn == IF pc \in {"first", "frame"} THEN "stream" ELSE "ctrl"

(* Mutant: hlp_set_alarm() takes the reply about any alarm. *)
IsAwaitedAnyAlarm(m) == m.cmd = Awaited

(* hlp_set_alarm() goes on until the reply is about its alarm. *)
IsAwaited(m) == m.cmd = Awaited /\ (m.cmd = "alarm" => m.arg = Script[step].arg)

Reply == Head(Arrived(Conn))
Received == Arrived(Conn) # <<>> /\ IsAwaited(Reply) /\ Take(Conn)

Discard ==
  /\ pc \in Awaiting /\ Arrived(Conn) # <<>> /\ ~IsAwaited(Reply) /\ Take(Conn)
  /\ UNCHANGED <<opt, dvrVars, procVars>>

-----------------------------------------------------------------------------
(***************************************************************************)
(* open_session() and close_session().                                     *)
(***************************************************************************)

(* 4 stands for the exit(1) of tanidvr, too. *)
Connect ==
  /\ pc = "connect"
  /\ \/ Send(<<Request("login", 0)>>) /\ Goto("login")
     \/ UNCHANGED chanVars /\ End(4)
  /\ UNCHANGED <<opt, dvrVars, step, dataVars, last, due>>

Login ==
  /\ pc = "login"
  /\ \/ Received /\ IF Reply.good THEN Goto("open") ELSE End(4)
     \/ ReadFails(Conn) /\ End(4)
  /\ UNCHANGED <<opt, dvrVars, step, dataVars, last, due>>

(* open_session() is done, whatever became of its queries. *)
Opened == Goto(IF opt.mode = "info" THEN "logout" ELSE "tie")

(* Mutant: stored under the type that was asked for. *)
StoredAsAsked(m) ==
  devinfo' = [f \in Fields |-> IF f \in FieldsOf(Script[step].arg) THEN m ELSE devinfo[f]]

(* update_devinfo_from_system_information(); what the reply to the login   *)
(* says of the device is not modelled.                                     *)
Stored(m) == devinfo' = [f \in Fields |-> IF f \in FieldsOf(m.arg) THEN m ELSE devinfo[f]]

(* hlp_get_system_information_multiple(): all requests at once and a NOP. *)
AskAll ==
  /\ pc = "open" /\ opt.dialect = 0
  /\ \/ Send([k \in DOMAIN Infos |-> Query(Infos[k])] \o <<Status>>) /\ Goto("collect")
     \/ SendFails /\ Opened
  /\ UNCHANGED <<opt, dvrVars, step, dataVars, last, due>>

(* Mutant: the length of the text is not compared with its buffer. *)
CollectUnchecked ==
  /\ pc = "collect"
  /\ \/ /\ Arrived("ctrl") # <<>> /\ Take("ctrl")
        /\ LET m == Head(Arrived("ctrl")) IN
             \/ m.cmd = "status" /\ Opened /\ synced' = TRUE /\ UNCHANGED devinfo
             \/ m.cmd # "status" /\ Stored(m) /\ UNCHANGED <<pc, ret, synced>>
     \/ ReadFails("ctrl") /\ Opened /\ UNCHANGED <<devinfo, synced>>
  /\ UNCHANGED <<opt, dvrVars, step, alarms, last, due>>

(* What comes up to the reply to the NOP, and is no such reply itself, is  *)
(* stored, whether it is information or not.  One that is too large is the *)
(* end.                                                                    *)
Collect ==
  /\ pc = "collect"
  /\ \/ /\ Arrived("ctrl") # <<>> /\ Take("ctrl")
        /\ LET m == Head(Arrived("ctrl")) IN
             \/ ~m.good /\ Opened /\ UNCHANGED <<devinfo, synced>>
             \/ m.good /\ m.cmd = "status" /\ Opened /\ synced' = TRUE /\ UNCHANGED devinfo
             \/ m.good /\ m.cmd # "status" /\ Stored(m) /\ UNCHANGED <<pc, ret, synced>>
     \/ ReadFails("ctrl") /\ Opened /\ UNCHANGED <<devinfo, synced>>
  /\ UNCHANGED <<opt, dvrVars, step, alarms, last, due>>

(* The OEM client's dialect: one query after the other. *)
Ask ==
  /\ pc = "open" /\ opt.dialect = 1
  /\ \/ /\ step <= Len(Script)
        /\ \/ Send(<<Script[step]>>) /\ Goto("answer") /\ UNCHANGED step
           \/ SendFails /\ step' = step + 1 /\ UNCHANGED <<pc, ret>>
     \/ step > Len(Script) /\ Opened /\ UNCHANGED <<chanVars, step>>
  /\ UNCHANGED <<opt, dvrVars, dataVars, last, due>>

(* Its result is ignored. *)
Answer ==
  /\ pc = "answer"
  /\ \/ /\ Received
        /\ IF Reply.cmd = "info" /\ Reply.good THEN Stored(Reply) ELSE UNCHANGED devinfo
        /\ alarms' = alarms \cup (IF Reply.cmd = "alarm" THEN {Script[step].arg} ELSE {})
     \/ ReadFails(Conn) /\ UNCHANGED <<devinfo, alarms>>
  /\ step' = step + 1 /\ Goto("open")
  /\ UNCHANGED <<opt, dvrVars, synced, last, due>>

(* hlp_logout(): a request that may have no reply, so a NOP follows. *)
Logout ==
  /\ pc = "logout"
  /\ \/ Send(<<Request("logout", 0), Status>>) /\ Goto("bye")
     \/ SendFails /\ Goto("bye")
  /\ UNCHANGED <<opt, dvrVars, step, dataVars, last, due>>

(* hlp_get_header_and_extdata(): one message, and if it is the reply one   *)
(* more.  Its result is ignored.                                           *)
Bye ==
  /\ pc \in {"bye", "nop"}
  /\ \/ /\ Arrived("ctrl") # <<>> /\ Take("ctrl")
        /\ IF pc = "bye" /\ Head(Arrived("ctrl")).cmd = "logout" THEN Goto("nop") ELSE End(0)
     \/ ReadFails("ctrl") /\ End(0)
  /\ UNCHANGED <<opt, dvrVars, step, dataVars, last, due>>

-----------------------------------------------------------------------------
(***************************************************************************)
(* stream_media_dvr_to_pipe().                                             *)
(***************************************************************************)

(* hlp_open() of the stream and hlp_connection_relationship(), which does  *)
(* not wait for the reply.                                                 *)
Tie ==
  /\ pc = "tie"
  /\ \/ Goto("request") /\ tied' = "asked"
     \/ End(1) /\ UNCHANGED tied
     \/ closed /\ End(2) /\ UNCHANGED tied
  /\ UNCHANGED <<opt, chanVars, closed, playing, sent, enabled, step, dataVars, last, due>>

MediaRequest ==
  /\ pc = "request"
  /\ \/ Send(<<Request("media", 0)>>) /\ Goto("first")
     \/ SendFails /\ End(3)
  /\ UNCHANGED <<opt, dvrVars, step, dataVars, last, due>>

(* Mutant: a frame that is too large is skipped and the session goes on.   *)
CollectedAll(next, fails) ==
  \/ Received /\ last' = (IF Reply.good THEN Reply.arg ELSE last) /\ Goto(next)
  \/ ReadFails(Conn) /\ End(fails) /\ UNCHANGED last

(* hlp_collect_media_data() and write() to the pipe, at whose other end    *)
(* there may be nobody any more.                                           *)
Collected(next, fails) ==
  \/ Received /\ Reply.good /\ last' = Reply.arg /\ Goto(next)
  \/ Received /\ Reply.good /\ End(105) /\ UNCHANGED last
  \/ Received /\ ~Reply.good /\ End(fails) /\ UNCHANGED last
  \/ ReadFails(Conn) /\ End(fails) /\ UNCHANGED last

FirstFrame ==
  /\ pc = "first"
  /\ Collected("wait", 3)
  /\ due' = [ka |-> FALSE, to |-> FALSE]
  /\ UNCHANGED <<opt, dvrVars, step, dataVars>>

(* The poll() of the loop: with or without data. *)
Wait ==
  /\ pc = "wait"
  /\ Goto(IF \E c \in Conns : Pending(c) THEN "media" ELSE "keepalive")
  /\ UNCHANGED <<opt, chanVars, dvrVars, step, dataVars, last, due>>

Media ==
  /\ pc = "media"
  /\ \/ Pending("stream") /\ due' = [due EXCEPT !.to = FALSE] /\ Goto("frame")
     \/ ~Pending("stream") /\ Goto("control") /\ UNCHANGED due
  /\ UNCHANGED <<opt, chanVars, dvrVars, step, dataVars, last>>

KeepAliveDue == opt.keepalive /\ due.ka

(* Mutant: the inner loop goes on for as long as there is data. *)
FrameGoesOn ==
  /\ pc = "frame"
  /\ Collected("media", 6)
  /\ UNCHANGED <<opt, dvrVars, step, dataVars, due>>

Frame ==
  /\ pc = "frame"
  /\ Collected(IF KeepAliveDue THEN "control" ELSE "media", 6)
  /\ UNCHANGED <<opt, dvrVars, step, dataVars, due>>

(* hlp_discard_incoming_data() *)
Control ==
  /\ pc = "control"
  /\ \/ Pending("ctrl") /\ Arrived("ctrl") # <<>> /\ Take("ctrl") /\ UNCHANGED <<pc, ret>>
     \/ Pending("ctrl") /\ ReadFails("ctrl") /\ End(7)
     \/ ~Pending("ctrl") /\ Goto("keepalive") /\ UNCHANGED chanVars
  /\ UNCHANGED <<opt, dvrVars, step, dataVars, last, due>>

KeepAlive ==
  /\ pc = "keepalive"
  /\ \/ KeepAliveDue /\ Send(<<Status>>) /\ Goto("alive")
     \/ KeepAliveDue /\ SendFails /\ End(8)
     \/ ~KeepAliveDue /\ Goto("timeout") /\ UNCHANGED chanVars
  /\ UNCHANGED <<opt, dvrVars, step, dataVars, last, due>>

(* Mutant: a keep-alive without an answer is no error. *)
AliveLenient ==
  /\ pc = "alive"
  /\ Received \/ ReadFails(Conn)
  /\ due' = [due EXCEPT !.ka = FALSE] /\ Goto("timeout")
  /\ UNCHANGED <<opt, dvrVars, step, dataVars, last>>

Alive ==
  /\ pc = "alive"
  /\ \/ Received /\ due' = [due EXCEPT !.ka = FALSE] /\ Goto("timeout")
     \/ ReadFails(Conn) /\ End(8) /\ UNCHANGED due
  /\ UNCHANGED <<opt, dvrVars, step, dataVars, last>>

Timeout ==
  /\ pc = "timeout"
  /\ IF opt.timeout /\ due.to THEN End(9) ELSE Goto("wait")
  /\ UNCHANGED <<opt, chanVars, dvrVars, step, dataVars, last, due>>

InLoop == pc \in {"wait", "media", "frame", "control", "keepalive", "alive", "timeout"}

(* Time passes.  A timer without effect is left alone. *)
KaExpires ==
  /\ InLoop /\ opt.keepalive /\ ~due.ka
  /\ due' = [due EXCEPT !.ka = TRUE]
  /\ UNCHANGED <<opt, chanVars, dvrVars, pc, step, dataVars, last, ret>>

ToExpires ==
  /\ InLoop /\ opt.timeout /\ ~due.to
  /\ due' = [due EXCEPT !.to = TRUE]
  /\ UNCHANGED <<opt, chanVars, dvrVars, pc, step, dataVars, last, ret>>

-----------------------------------------------------------------------------
(***************************************************************************)
(* The DVR, as the code allows for it.                                     *)
(***************************************************************************)

Up == ~closed /\ pc # "ended"
Sends(c, m) == net' = [net EXCEPT ![c] = Append(@, m)]

(* It handles requests in order and replies to some of them, late maybe. *)
DvrAnswers ==
  /\ Up /\ req # <<>>
  /\ LET r == Head(req) IN
       /\ req' = Tail(req)
       /\ enabled' = enabled \cup (IF r.cmd = "alarm" THEN {r.arg} ELSE {})
       /\ playing' = (playing \/ r.cmd = "media")
       /\ \/ UNCHANGED net
          \/ /\ r.cmd # "media"
             /\ \E g \in BOOLEAN :
                  /\ ~g => r.cmd \in {"login", "info"}
                  /\ Sends("ctrl", Message(r.cmd, r.arg, g))
  /\ UNCHANGED <<opt, buf, closed, tied, sent, procVars>>

(* The relationship is on the other connection; many a DVR does not reply. *)
DvrTies ==
  /\ Up /\ tied = "asked"
  /\ tied' = "answered" /\ Sends("stream", Message("tie", 0, TRUE))
  /\ UNCHANGED <<opt, buf, req, closed, playing, sent, enabled, procVars>>

(* Bound: a frame that is rejected, which ends the session, is alone in    *)
(* the socket.                                                             *)
DvrMedia ==
  /\ Up /\ playing /\ Len(net["stream"]) < NetCap
  /\ \A k \in DOMAIN net["stream"] : net["stream"][k].good
  /\ sent' = (sent + 1) % N
  /\ \E g \in BOOLEAN :
       /\ g \/ net["stream"] = <<>>
       /\ Sends("stream", Message("media", sent', g))
  /\ UNCHANGED <<opt, buf, req, closed, tied, playing, enabled, procVars>>

(* It may send things unasked without end, on either connection.  Bound:   *)
(* only if nothing else is on its way there.                               *)
DvrNote ==
  /\ Up
  /\ \E c \in Conns : Arrived(c) = <<>> /\ Sends(c, Message("note", NoteType, TRUE))
  /\ UNCHANGED <<opt, buf, req, closed, tied, playing, sent, enabled, procVars>>

(* What is on its way arrives, or is lost as the connection is reset. *)
DvrCloses ==
  /\ Up /\ closed' = TRUE /\ req' = <<>>
  /\ net' \in {net, [c \in Conns |-> <<>>]}
  /\ UNCHANGED <<opt, buf, tied, playing, sent, enabled, procVars>>

-----------------------------------------------------------------------------
Process ==
  \/ Connect \/ Login \/ AskAll \/ Collect \/ Ask \/ Answer \/ Logout \/ Bye
  \/ Tie \/ MediaRequest \/ FirstFrame \/ Discard
  \/ Wait \/ Media \/ Frame \/ Control \/ KeepAlive \/ Alive \/ Timeout
Dvr == DvrAnswers \/ DvrTies \/ DvrMedia \/ DvrNote \/ DvrCloses
Next == Process \/ KaExpires \/ ToExpires \/ Dvr

Spec == Init /\ [][Next]_vars

(* The process runs on and its clock with it; the DVR owes nothing. *)
Fairness == WF_vars(Process) /\ WF_vars(KaExpires) /\ WF_vars(ToExpires)
FairSpec == Spec /\ Fairness

-----------------------------------------------------------------------------
(***************************************************************************)
(* Properties.                                                             *)
(***************************************************************************)

(* Every variable has its type, no field of devinfo holds a text that did  *)
(* not fit its buffer (hlprotocol.c:740), and what has ended, and only     *)
(* that, has a result.                                                     *)
TypeOK ==
  /\ \A c \in Conns : net[c] \in Seq(Messages) /\ buf[c] \in Seq(Messages)
  /\ req \in Seq([cmd : Commands, arg : 0..255])
  /\ closed \in BOOLEAN /\ tied \in {"no", "asked", "answered"}
  /\ playing \in BOOLEAN /\ synced \in BOOLEAN
  /\ sent \in 0..N-1 /\ last \in 0..N-1
  /\ pc \in Awaiting \cup {"connect", "open", "collect", "logout", "bye", "nop", "tie", "request",
                           "wait", "media", "control", "keepalive", "timeout", "ended"}
  /\ step \in 1..Len(Script) + 1
  /\ \A f \in Fields : devinfo[f] \in Messages \cup {Nothing} /\ devinfo[f].good
  /\ due \in [ka : BOOLEAN, to : BOOLEAN]
  /\ ret \in {-1, 0, 1, 2, 3, 4, 6, 7, 8, 9, 105}
  /\ (ret # -1) = (pc = "ended")

(* The last frame before the k-th message of s, or else l, is n. *)
Precedes(s, k, n, l) ==
  LET before == {i \in 1..k-1 : s[i].cmd = "media"} IN
    \/ before = {} /\ n = l
    \/ \E j \in before : n = s[j].arg /\ \A i \in before : i <= j

(* The frames in s come one by one behind l. *)
InOrder(s, l) ==
  \A k \in DOMAIN s : s[k].cmd = "media" =>
    \E n \in 0..N-1 : Precedes(s, k, n, l) /\ s[k].arg = (n + 1) % N

(* While the session lasts, the frames on their way follow the last one    *)
(* that was written, one by one: hlp_get_header() has discarded none, the  *)
(* stdio buffer has kept their order, and a frame that cannot be written   *)
(* is not left out but ends the session (hlprotocol.c:414,                 *)
(* dvrcontrol.c:288).                                                      *)
MediaInOrder == pc # "ended" => InOrder(Arrived("stream"), last)

(* A text shown by tanidvr is the DVR's reply about just that text, however*)
(* late it came and whatever was asked meanwhile.  Left out are the fields *)
(* that other texts are stored in, too, for want of a break, and the type  *)
(* of the disk, which hlp_get_system_information_multiple() takes from any *)
(* message with a 2 in the right place (hlprotocol.c:584, :607, :760).     *)
InfoIsOwn ==
  \A f \in Fields \ {HD, 19, 20} : devinfo[f] \in {Nothing, Message("info", f, TRUE)}

(* An alarm for which hlp_set_alarm() returned 0 is enabled in the DVR,    *)
(* though the reply to an earlier one may come late, after a timeout       *)
(* (hlprotocol.c:847).                                                     *)
AlarmConfirmed == alarms \subseteq enabled

Absent(s, c) == \A k \in DOMAIN s : s[k].cmd # c
AtMostOne(s, c) == \A j, k \in DOMAIN s : s[j].cmd = c /\ s[k].cmd = c => j = k

(* Nothing with command c is on its way; a request or its reply at most. *)
None(c) == Absent(req, c) /\ Absent(Arrived("ctrl"), c)
Once(c) ==
  /\ AtMostOne(req, c) /\ AtMostOne(Arrived("ctrl"), c)
  /\ Absent(req, c) \/ Absent(Arrived("ctrl"), c)

(* If hlp_get_system_information_multiple() saw the reply to its NOP, then *)
(* a reply taken for that to a keep-alive is one: in the loop no other     *)
(* 0xa1 or 0xb1 is on its way (hlprotocol.c:754, dvrcontrol.c:323).        *)
KeepAliveIsOwn ==
  synced /\ InLoop => IF pc = "alive" THEN Once("status") ELSE None("status")

(* With a timeout, a keep-alive that is due is sent and answered, or the   *)
(* session ends, even if there is always more media data                   *)
(* (dvrcontrol.c:300): unless the DVR keeps the process busy with messages *)
(* that nobody asked for, as those are discarded for as long as they come, *)
(* each with a timeout of its own (hlprotocol.c:85-96, :942).              *)
KeepAliveDespiteMedia ==
  \/ []<><<DvrNote>>_vars
  \/ opt.timeout /\ due.ka /\ pc # "ended" ~> ~due.ka \/ pc = "ended"

(* A session whose DVR has closed the connections ends, and with a timeout *)
(* one whose DVR does nothing any more, wherever that strikes              *)
(* (dvrcontrol.c:284, network.c:41).                                       *)
ClosedSessionEnds == closed ~> pc = "ended"
SilentSessionEnds == opt.timeout => []<><<Dvr>>_vars \/ <>(pc = "ended")

=============================================================================
