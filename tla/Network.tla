------------------------------ MODULE Network -------------------------------
(***************************************************************************)
(* net_open() with open_client_socket(), network.c: the addresses of a     *)
(* host are looked up and tried, one after the other, on one socket.       *)
(***************************************************************************)
EXTENDS Integers, Sequences, SequencesExt

CONSTANTS
  MAX_SA_ENTRIES,  \* addresses that are tried
  MaxAddresses     \* bound: addresses of a host

ASSUME NetworkAssumption == MAX_SA_ENTRIES \in Nat \ {0} /\ MaxAddresses \in Nat

VARIABLES
  ai,   \* what getaddrinfo() found: [family, up], up if a connect() gets through
  sa,   \* the addresses still to be tried, the next one last
  net   \* "resolve", "connect", "refused", "open", or "stdout"

netVars == <<ai, sa, net>>

Families == {"v4", "v6", "other"}
Addresses == [family : Families, up : BOOLEAN]

NetInit == ai = <<>> /\ sa = <<>> /\ net = "resolve"

Having(list, f) == {k \in DOMAIN list : list[k].family = f}

(* IPv4 if there is any of it, or else IPv6. *)
Chosen(list) ==
  CASE Having(list, "v4") # {} -> "v4"
    [] Having(list, "v4") = {} /\ Having(list, "v6") # {} -> "v6"
    [] OTHER -> "none"

FirstOf(list, f) == CHOOSE k \in Having(list, f) : \A i \in Having(list, f) : k <= i

(* The array takes what follows the first address of the family, those of  *)
(* other families, too, with the length of the first one.                  *)
Entries(list) ==
  LET f == FirstOf(list, Chosen(list))
  IN  SubSeq(list, f, IF Len(list) < f + MAX_SA_ENTRIES - 1 THEN Len(list) ELSE f + MAX_SA_ENTRIES - 1)

Refuse == net' = "refused" /\ UNCHANGED sa

(* getaddrinfo() and socket() may fail.  Without an address of a known     *)
(* family the result is 1, which net_open() takes for a descriptor.        *)
Resolve ==
  /\ net = "resolve"
  /\ \/ Refuse /\ UNCHANGED ai
     \/ /\ ai' \in SeqOf(Addresses, MaxAddresses) \ {<<>>}
        /\ CASE Chosen(ai') = "none" -> net' = "stdout" /\ UNCHANGED sa
             [] OTHER -> net' = "connect" /\ sa' = Entries(ai')

(* Mutant: the array's first entry is never tried. *)
ConnectPreDecrement ==
  /\ net = "connect"
  /\ IF Len(sa) <= 1
     THEN Refuse /\ UNCHANGED ai
     ELSE IF Last(sa).up /\ Last(sa).family = Chosen(ai)
     THEN net' = "open" /\ sa' = <<>> /\ ai' = <<>>
     ELSE sa' = Front(sa) /\ UNCHANGED <<ai, net>>

(* One turn of `while (sa_entries--)'.  An address of another family is    *)
(* none for this socket.  Connected, there is no more use for the list.    *)
Connect ==
  /\ net = "connect"
  /\ IF sa = <<>>
     THEN Refuse /\ UNCHANGED ai
     ELSE IF Last(sa).up /\ Last(sa).family = Chosen(ai)
     THEN net' = "open" /\ sa' = <<>> /\ ai' = <<>>
     ELSE sa' = Front(sa) /\ UNCHANGED <<ai, net>>

NetNext == Resolve \/ Connect
-----------------------------------------------------------------------------
(* A host is not given up while an address of the family chosen answers,   *)
(* unless there are more than the array takes: "try each returned IP of    *)
(* that hostname", network.c:205, whatever else lies between them.         *)
ReachableIsTried ==
  net = "refused" /\ ai # <<>> =>
    \A k \in Having(ai, Chosen(ai)) :
      k < FirstOf(ai, Chosen(ai)) + MAX_SA_ENTRIES => ~ai[k].up
=============================================================================
