--------------------------------- MODULE MCLink ---------------------------------
(***************************************************************************)
(* Link with bytes of four bits, frames of three and four bytes, and the   *)
(* real guard of the carrier program.                                      *)
(***************************************************************************)
EXTENDS Link

MCHeaders == {[ip |-> TRUE, length |-> 2], [ip |-> TRUE, length |-> 4], [ip |-> FALSE, length |-> 2]}

\* Leads of 2 to 4 samples, and middle edges 5 to 7 apart.
MCShapes ==
  {[bit |-> b, lead |-> p[1], half |-> p[2]] :
     b \in {0, 1}, p \in {<<3, 3>>, <<2, 3>>, <<4, 2>>, <<4, 3>>}}
================================================================================
