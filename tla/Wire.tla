-------------------------------- MODULE Wire --------------------------------
(***************************************************************************)
(* Messages as the connection carries them: a header that names a command  *)
(* and how much data follows (llprotocol.c), cell by cell, read with       *)
(* fread() by hlp_get_header() and by its callers hlp_collect_media_data() *)
(* and hlp_get_system_information() in hlprotocol.c.                       *)
(*                                                                         *)
(* A cell holds 0..Base-1, a byte that is; a header is a cell for the      *)
(* command and two, not four, for extlen.  The other bytes of a header and *)
(* what the user makes of the data are the business of module Session.     *)
(***************************************************************************)
EXTENDS Network

CONSTANTS
  Base,      \* values of a cell
  Cmds,      \* commands of the DVR's messages
  Awaited,   \* the command that the user waits for, 0xbc or 0xb4
  Payloads,  \* bound: data of the DVR's messages
  BufLen,    \* room for data: max_len, SYSINFO_ED_LEN
  DISCARD_CHUNK_SIZE,
  MaxMsgs    \* bound: messages of the DVR

Cells == 0..Base-1
MaxExt == Base * Base - 1
HEADER_SIZE == 3

ASSUME WireAssumption ==
  /\ Base \in Nat \ {0, 1}
  /\ Cmds \subseteq Cells /\ Awaited \in Cells
  /\ BufLen \in Nat /\ DISCARD_CHUNK_SIZE \in Nat \ {0} /\ MaxMsgs \in Nat
  /\ \A p \in Payloads : p \in Seq(Cells) /\ Len(p) <= MaxExt

Messages == [cmd : Cmds, ext : Payloads]

VARIABLES
  user,     \* "media": hlp_collect_media_data() until it fails; "query":
            \* hlp_get_system_information(), whatever came of the last one
  timeouts, \* the sockets have timeouts, dvrctl->timeout_us # 0
  sent,     \* the messages sent
  flying,   \* cells of the last one on their way
  arrived,  \* cells that can be read
  closed,   \* the DVR closed the connection
  pc,       \* "idle", "header", "ext", "unexpected", "error" (the two discards), "ended"
  cmd, extlen,  \* of ll_header
  rem_extlen,   \* of llp_get_discard_extdata()
  taken,    \* messages that the reader is done with
  got,      \* data handed to the user
  state     \* "lost" since a read stopped within a message, or else "up"

dvrVars == <<sent, flying, closed>>
readerVars == <<pc, cmd, extlen, rem_extlen, taken, got, state>>
wireVars == <<dvrVars, arrived, readerVars>>
vars == <<netVars, user, timeouts, wireVars>>

(* BT_NV2LM_U32 and BT_LM2NV_U32, bintools.h. *)
NV2LM(v) == <<v % Base, v \div Base>>
LM2NV(c) == c[1] + c[2] * Base

Init ==
  /\ NetInit
  /\ user \in {"media", "query"} /\ timeouts \in BOOLEAN
  /\ sent = <<>> /\ flying = <<>> /\ arrived = <<>> /\ closed = FALSE
  /\ pc = "idle" /\ cmd = 0 /\ extlen = 0 /\ rem_extlen = 0
  /\ taken = 0 /\ got = <<>> /\ state = "up"

-----------------------------------------------------------------------------
(***************************************************************************)
(* The DVR and the network.  What is sent while a message is on its way    *)
(* comes behind it, which is the same as being sent later.                 *)
(***************************************************************************)
Open == net = "open"

DvrSends ==
  /\ Open /\ ~closed /\ flying = <<>> /\ Len(sent) < MaxMsgs
  /\ \E m \in Messages :
       /\ sent' = Append(sent, m)
       /\ flying' = <<m.cmd>> \o NV2LM(Len(m.ext)) \o m.ext
  /\ UNCHANGED <<netVars, user, timeouts, closed, arrived, readerVars>>

Arrives ==
  /\ Open /\ flying # <<>>
  /\ arrived' = Append(arrived, Head(flying)) /\ flying' = Tail(flying)
  /\ UNCHANGED <<netVars, user, timeouts, sent, closed, readerVars>>

(* What is on its way may be lost. *)
DvrCloses ==
  /\ Open /\ ~closed
  /\ closed' = TRUE
  /\ flying' \in {flying, <<>>}
  /\ UNCHANGED <<netVars, user, timeouts, sent, arrived, readerVars>>

-----------------------------------------------------------------------------
(***************************************************************************)
(* fread(): n cells, or fewer at a timeout or at the end, and those are    *)
(* read all the same.                                                      *)
(***************************************************************************)
Reads(n) ==
  /\ Len(arrived) >= n
  /\ arrived' = SubSeq(arrived, n + 1, Len(arrived))

ReadFails(n) ==
  /\ Len(arrived) < n
  /\ timeouts \/ (closed /\ flying = <<>>)
  /\ arrived' = <<>>

(* A function of the user's returned: media data is read up to an error. *)
Return(ret) == pc' = IF user = "media" /\ ret # 0 THEN "ended" ELSE "idle"

(* hlp_collect_media_data() or hlp_get_system_information() is called. *)
Call ==
  /\ Open /\ pc = "idle"
  /\ pc' = "header"
  /\ UNCHANGED <<netVars, user, timeouts, dvrVars, arrived, cmd, extlen, rem_extlen, taken, got, state>>

(* Mutant: data that does not fit is read. *)
FitsAlways(n) == TRUE

Fits(n) == n <= BufLen

(* What is done next about a message with n bytes of data: media data that *)
(* is too long is discarded at once, a reply's later.                      *)
After(c, n) ==
  CASE c # Awaited -> "unexpected"
    [] c = Awaited /\ user = "media" /\ ~Fits(n) -> "error"
    [] OTHER -> "ext"

(* llp_get_header() in hlp_get_header(). *)
GetHeader ==
  /\ pc = "header"
  /\ \/ /\ Reads(HEADER_SIZE)
        /\ cmd' = arrived[1]
        /\ extlen' = LM2NV(SubSeq(arrived, 2, HEADER_SIZE))
        /\ rem_extlen' = extlen'
        /\ pc' = After(cmd', extlen')
        /\ UNCHANGED state
     \/ /\ ReadFails(HEADER_SIZE)
        /\ Return(1)
        /\ state' = IF arrived = <<>> THEN state ELSE "lost"
        /\ UNCHANGED <<cmd, extlen, rem_extlen>>
  /\ UNCHANGED <<netVars, user, timeouts, dvrVars, taken, got>>

(* llp_get_extdata_sbuff(). *)
GetExtdata ==
  /\ pc = "ext"
  /\ \/ /\ Fits(extlen) /\ Reads(extlen)
        /\ got' = Append(got, SubSeq(arrived, 1, extlen)) /\ taken' = taken + 1
        /\ Return(0)
        /\ UNCHANGED <<rem_extlen, state>>
     \/ /\ Fits(extlen) /\ ReadFails(extlen)
        /\ state' = "lost"
        /\ IF user = "media" THEN Return(11) ELSE pc' = "error"
        /\ UNCHANGED <<rem_extlen, taken, got>>
     \/ /\ ~Fits(extlen)
        /\ pc' = "error"
        /\ UNCHANGED <<arrived, rem_extlen, taken, got, state>>
  /\ UNCHANGED <<netVars, user, timeouts, dvrVars, cmd, extlen>>

(* Mutant: the last chunk is not cut to what remains. *)
WholeChunk(rem) == DISCARD_CHUNK_SIZE

ToRead(rem) == IF rem > DISCARD_CHUNK_SIZE THEN DISCARD_CHUNK_SIZE ELSE rem

(* Back from llp_get_discard_extdata(): hlp_get_header() goes on whatever  *)
(* came of it, the other two return with an error.                         *)
Discarded == IF pc = "unexpected" THEN pc' = "header" ELSE Return(3)

(* A turn of the loop in llp_get_discard_extdata(), or its end. *)
Discard ==
  /\ pc \in {"unexpected", "error"}
  /\ \/ /\ rem_extlen = 0
        /\ Discarded
        /\ taken' = taken + 1
        /\ UNCHANGED <<arrived, rem_extlen, state>>
     \/ /\ rem_extlen # 0 /\ Reads(ToRead(rem_extlen))
        /\ rem_extlen' = (rem_extlen - ToRead(rem_extlen)) % (MaxExt + 1)
        /\ UNCHANGED <<pc, taken, state>>
     \/ /\ rem_extlen # 0 /\ ReadFails(ToRead(rem_extlen))
        /\ Discarded
        /\ state' = "lost"
        /\ UNCHANGED <<rem_extlen, taken>>
  /\ UNCHANGED <<netVars, user, timeouts, dvrVars, cmd, extlen, got>>

Next ==
  \/ NetNext /\ UNCHANGED <<user, timeouts, wireVars>>
  \/ DvrSends \/ Arrives \/ DvrCloses
  \/ Call \/ GetHeader \/ GetExtdata \/ Discard

Spec == Init /\ [][Next]_vars
-----------------------------------------------------------------------------
TypeOK ==
  /\ user \in {"media", "query"} /\ timeouts \in BOOLEAN
  /\ net \in {"resolve", "connect", "refused", "open", "stdout"}
  /\ sa \in Seq(Addresses) /\ Len(sa) <= MAX_SA_ENTRIES
  /\ sent \in Seq(Messages) /\ closed \in BOOLEAN
  /\ flying \in Seq(Cells) /\ arrived \in Seq(Cells)
  /\ pc \in {"idle", "header", "ext", "unexpected", "error", "ended"}
  /\ cmd \in Cells /\ extlen \in 0..MaxExt /\ rem_extlen \in 0..extlen
  /\ taken \in Nat
  /\ \A k \in DOMAIN got : got[k] \in Seq(Cells) /\ Len(got[k]) <= BufLen
  /\ state \in {"up", "lost"}

(* Whatever way the network cuts the cells, the user gets whole messages,  *)
(* in order, over discarded ones and such that are too long, up to a read  *)
(* that stopped within a message; a read that timed out between two costs  *)
(* nothing.  The loss is not noticed if it happened in a message nobody    *)
(* waited for: hlp_get_header() drops the result of its discard.           *)
ChannelState == IF pc = "ended" THEN "ended" ELSE state
Promise == INSTANCE Channel WITH state <- ChannelState
ImplementsChannel == Promise!Spec
=============================================================================
