------------------------------ MODULE MCConntrack ------------------------------
(***************************************************************************)
(* A two-slot table over four WAN ids: three flows are enough for every    *)
(* flow to be evicted by another, four ids for the cursor to lap.  The TCP *)
(* and the UDP flow of hostA share a LAN endpoint.                          *)
(***************************************************************************)
EXTENDS Conntrack

CONSTANTS hostA, hostB, peer

MCFlow == {[proto |-> "tcp",  lan |-> hostA, remote |-> peer],
           [proto |-> "udp",  lan |-> hostA, remote |-> peer],
           [proto |-> "icmp", lan |-> hostB, remote |-> peer]}
================================================================================
