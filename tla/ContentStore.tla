---------------------------- MODULE ContentStore ----------------------------
(***************************************************************************)
(* What the artifact store promises to any number of writers: reading the   *)
(* name of a content gives nothing or all of it, a put that returned has    *)
(* stored its content, and only a power loss may take a name away again.    *)
(***************************************************************************)
CONSTANT Contents

VARIABLES
  dest,                \* what reading a content's name gives: "absent" or "whole"
  acked                \* contents a put has returned the digest of since the boot

Init == dest = [c \in Contents |-> "absent"] /\ acked = {}

Store(c) ==
  /\ dest[c] = "absent" /\ dest' = [dest EXCEPT ![c] = "whole"]
  /\ acked' \in {acked, acked \union {c}}

Acknowledge(c) == dest[c] = "whole" /\ acked' = acked \union {c} /\ UNCHANGED dest

PowerLoss ==
  /\ \E lost \in SUBSET Contents :
       dest' = [c \in Contents |-> IF c \in lost THEN "absent" ELSE dest[c]]
  /\ acked' = {}

Next == (\E c \in Contents : Store(c) \/ Acknowledge(c)) \/ PowerLoss

Spec == Init /\ [][Next]_<<dest, acked>>
=============================================================================
