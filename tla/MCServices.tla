------------------------------- MODULE MCServices -------------------------------
(***************************************************************************)
(* Small services.  Two leases each: the NIC's second one has neither      *)
(* resolver nor gateway, the router's another resolver.                    *)
(***************************************************************************)
EXTENDS Services

CONSTANTS a, b, gw, d, e

Usual == [addr |-> a, gw |-> gw, servers |-> <<d>>]
PlainLeases    == {Usual, [addr |-> b, gw |-> None, servers |-> <<>>]}
ResolverLeases == {Usual, [addr |-> b, gw |-> gw, servers |-> <<e>>]}
WanLeases      == PlainLeases \cup ResolverLeases
================================================================================
