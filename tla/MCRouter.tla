-------------------------------- MODULE MCRouter --------------------------------
(***************************************************************************)
(* Small routers.  Forwarding: two clients, a gateway g, a remote r behind *)
(* it that the second lease puts on the link, tables of one entry.         *)
(* Neighbors: no transit, a third host h, two MACs, tables of two entries. *)
(***************************************************************************)
EXTENDS Router

CONSTANTS g, h, r, c1, c2

TwoFlows == {[lan |-> c1, remote |-> r], [lan |-> c2, remote |-> g]}
OneFlow  == {[lan |-> c1, remote |-> r]}

\* A lease with a gateway, and one without that has r on its link.
TwoLeases == {[subnet |-> {g, h} \cap WanHost, gw |-> g], [subnet |-> {r}, gw |-> None]}
================================================================================
