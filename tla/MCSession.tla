----------------------------- MODULE MCSession ------------------------------
(* What is asked of the DVR in the instances of Session: a query of every  *)
(* kind, and two of the kinds whose replies may be confused.  The OEM      *)
(* client's dialect is looked at up to the logout, the common one with     *)
(* media data behind it.                                                   *)
EXTENDS Session

Opt(m, d, t, k) == [mode |-> m, dialect |-> d, timeout |-> t, keepalive |-> k]
MCOptions == {Opt("info", 0, TRUE, FALSE), Opt("info", 1, TRUE, FALSE),
              Opt("capture", 0, TRUE, TRUE), Opt("capture", 0, FALSE, FALSE)}
MCInfos == <<7>>
MCScript == <<Status, Query(7), Query(11), Request("alarm", 1), Request("alarm", 2)>>

=============================================================================
