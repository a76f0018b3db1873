----------------------------- MODULE MCTanidvr ------------------------------
EXTENDS Tanidvr

(* Messages: data that is empty, that looks like the header of an awaited  *)
(* message, and that is longer than the buffer.                            *)
MCCmds == {1, 2}
MCPayloads == {<<>>, <<1, 0, 0>>, <<2, 1, 0, 2, 1>>}

(* Command lines: any two options in front of the mandatory ones, of which *)
(* one may be missing; numbers at the limits, and one that has no room in  *)
(* an int, of which sscanf() keeps the low bits, or makes the largest int. *)
Limits == {-1, 0, 1, 1000000, 5000000}
Beyond == 2 * (INT_MAX + 1) + 1
Args ==
  {Arg(opt, TRUE, val, val) : opt \in Numeric, val \in Limits}
    \cup {Arg(opt, TRUE, Beyond, int) : opt \in Numeric, int \in {1, INT_MAX}}
    \cup {Arg(opt, FALSE, 0, 0) : opt \in Numeric \cup {"f", "x", "h", "?"}}

Text(opt, len) == Arg(opt, FALSE, len, len)
Required == <<Arg("m", TRUE, 1, 1), Text("t", 0), Text("u", 125), Text("w", 125)>>

MCArgLists ==
  {front \o rest : front \in SeqOf(Args, 2),
                   rest \in {Required} \cup {RemoveAt(Required, k) : k \in 1..4}}
    \cup {Append(Required, Text("w", 126))}

MCJunk == {-1, 0, 77}
=============================================================================
