--------------------------- MODULE AddressTranslation ---------------------------
(***************************************************************************)
(* What the connection-tracking table promises to the forwarder: a set of  *)
(* bindings between flows and WAN ids, one to one and at most Cap of them. *)
(* A binding is made for a flow that has none, under an id that has none,  *)
(* and costs another flow its binding only when Cap are held.  Bindings    *)
(* otherwise only lapse; none is ever handed from one flow to another.     *)
(***************************************************************************)
EXTENDS Integers, FiniteSets

CONSTANTS
  Flow,    \* LAN-side flows
  WanId,   \* ids to bind them to
  Cap,     \* most bindings held at once
  None     \* no flow

VARIABLE bound   \* bound[id] is the flow bound to the id, or None

BoundIds   == {id \in WanId : bound[id] # None}
Unbound(t) == \A id \in WanId : bound[id] # t

Bind(t, id) ==
  /\ Unbound(t) /\ bound[id] = None
  /\ \E victims \in SUBSET BoundIds :
       /\ Cardinality(victims) = IF Cardinality(BoundIds) < Cap THEN 0 ELSE 1
       /\ bound' = [i \in WanId |-> IF i = id THEN t
                                    ELSE IF i \in victims THEN None ELSE bound[i]]

Lapse(S) == bound' = [i \in WanId |-> IF i \in S THEN None ELSE bound[i]]

Init == bound = [id \in WanId |-> None]
Next == (\E t \in Flow, id \in WanId : Bind(t, id)) \/ (\E S \in SUBSET BoundIds : Lapse(S))
Spec == Init /\ [][Next]_bound
================================================================================
