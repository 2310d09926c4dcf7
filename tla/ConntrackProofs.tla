---------------------------- MODULE ConntrackProofs ----------------------------
(***************************************************************************)
(* Safety of the connection-tracking table for every capacity, id range,   *)
(* set of flows and choice of timeouts, under ConntrackAssumption.         *)
(*                                                                         *)
(* TypeOK, UniqueWanIds, UniqueFlows, OwnerExact and LiveGauge are         *)
(* inductive together: a new flow's id is unused (AllocId), its 5-tuple is *)
(* absent (OutboundNew's guard), and the overwritten slot is the only one  *)
(* whose contribution to the gauge can change.                             *)
(*                                                                         *)
(* On that invariant rest three more results: LapInv, by which the cursor  *)
(* cannot lap an id within Window allocations (IdQuarantine); the fairness *)
(* of eviction; and the refinement of AddressTranslation.                  *)
(***************************************************************************)
EXTENDS Conntrack, TLAPS, FiniteSetTheorems, WellFoundedInduction

IInv == TypeOK /\ UniqueWanIds /\ UniqueFlows /\ OwnerExact /\ LiveGauge

--------------------------------------------------------------------------------
\* The probe sequence

\* A probe never leaves the id range, so neither does the cursor.
LEMMA ProbeInRange ==
  ASSUME cursor \in WanId, NEW k \in 0 .. Span
  PROVE  Probe(k) \in WanId
BY ConntrackAssumption DEF Probe, WanId, Span

\* Span probes visit every id.
LEMMA ProbeCovers ==
  ASSUME cursor \in WanId, NEW id \in WanId
  PROVE  \E k \in Probes : Probe(k) = id
<1>1. CASE id >= cursor
  <2>1. id - cursor \in Probes
    BY <1>1, ConntrackAssumption DEF Probes, WanId, Span
  <2>2. Probe(id - cursor) = id
    BY <1>1, ConntrackAssumption DEF Probe, WanId, Span
  <2> QED
    BY <2>1, <2>2
<1>2. CASE id < cursor
  <2>1. id - cursor + Span \in Probes
    BY <1>2, ConntrackAssumption DEF Probes, WanId, Span
  <2>2. Probe(id - cursor + Span) = id
    BY <1>2, ConntrackAssumption DEF Probe, WanId, Span
  <2> QED
    BY <2>1, <2>2
<1> QED
  BY <1>1, <1>2, ConntrackAssumption DEF WanId

--------------------------------------------------------------------------------
\* The used slots

LEMMA UsedIsFinite ==
  /\ IsFiniteSet(Slot) /\ Cardinality(Slot) = Cap
  /\ IsFiniteSet(Used) /\ Cardinality(Used) \in 0 .. Cap
<1>1. IsFiniteSet(Slot) /\ Cardinality(Slot) = Cap
  <2>1. 0 \in Int /\ Cap - 1 \in Int /\ ~(0 > Cap - 1) /\ (Cap - 1) - 0 + 1 = Cap
    BY ConntrackAssumption
  <2>2. IsFiniteSet(0 .. Cap - 1) /\ Cardinality(0 .. Cap - 1) = (Cap - 1) - 0 + 1
    BY <2>1, FS_Interval, Zenon
  <2> QED
    BY <2>1, <2>2 DEF Slot
<1>2. Used \in SUBSET Slot
  BY DEF Used
<1> QED
  BY <1>1, <1>2, FS_Subset, FS_CardinalityType, ConntrackAssumption

\* The same bound on the used slots of the next state.
LEMMA FewUsedNext == Cardinality(Used') \in 0 .. Cap
<1>1. Used' \in SUBSET Slot
  BY DEF Used
<1> QED
  BY <1>1, UsedIsFinite, FS_Subset, FS_CardinalityType, ConntrackAssumption

\* With fewer slots than ids some id is unused: each used slot holds one id.
LEMMA SomeIdUnused ==
  ASSUME TypeOK
  PROVE  \E id \in WanId : ~IdInUse(id)
<1> SUFFICES ASSUME \A id \in WanId : IdInUse(id)
             PROVE  FALSE
  OBVIOUS
<1> DEFINE holder == [id \in WanId |-> CHOOSE s \in Used : slots[s].wan_id = id]
<1>1. \A id \in WanId : holder[id] \in Used /\ slots[holder[id]].wan_id = id
  BY DEF IdInUse
<1>2. holder \in [WanId -> Used]
  BY <1>1
<1>3. IsFiniteSet(WanId) /\ Cardinality(WanId) = Span
  <2>1. NatLo \in Int /\ NatHi \in Int /\ ~(NatLo > NatHi)
    BY ConntrackAssumption DEF Span
  <2> QED
    BY <2>1, FS_Interval, Zenon DEF WanId, Span
<1>4. Cardinality(Used) < Cardinality(WanId)
  BY <1>3, UsedIsFinite, ConntrackAssumption DEF Span
<1>5. PICK i, j \in WanId : i # j /\ holder[i] = holder[j]
  <2> HIDE DEF holder
  <2> QED
    BY <1>2, <1>3, <1>4, UsedIsFinite, FS_PigeonHole
<1> QED
  BY <1>1, <1>5

\* alloc_id never fails: the probe NAT_DROP counts cannot happen.
THEOREM AllocAlwaysSucceeds == TypeOK => AllocSucceeds
<1> SUFFICES ASSUME TypeOK
             PROVE  AllocSucceeds
  OBVIOUS
<1> DEFINE Good == {k \in Probes : ~IdInUse(Probe(k))}
<1>1. PICK id \in WanId : ~IdInUse(id)
  BY SomeIdUnused
<1>2. PICK k \in Probes : Probe(k) = id
  BY ProbeCovers DEF TypeOK
<1>3. Good \in SUBSET Nat /\ k \in Good
  BY <1>1, <1>2 DEF Probes
<1>4. PICK m \in Good : \A j \in Good : m <= j
  <2> DEFINE Prefixes == {0 .. j : j \in Good}
             Shorter  == StrictSubsetOrdering(Probes)
  <2>1. IsFiniteSet(Probes)
    <3>1. 0 \in Int /\ Span - 1 \in Int
      BY ConntrackAssumption DEF Span
    <3> QED
      BY <3>1, FS_Interval, Zenon DEF Probes
  <2>2. Prefixes \subseteq FiniteSubsetsOf(Probes) /\ Prefixes # {}
    <3>1. \A j \in Good : 0 .. j \in SUBSET Probes
      BY ConntrackAssumption DEF Probes, Span
    <3>2. \A j \in Good : IsFiniteSet(0 .. j)
      BY <2>1, <3>1, FS_Subset
    <3> QED
      BY <1>3, <3>1, <3>2 DEF FiniteSubsetsOf
  <2>3. IsWellFoundedOn(Shorter, FiniteSubsetsOf(Probes))
    BY FS_StrictSubsetOrderingWellFounded
  <2>4. PICK X \in Prefixes : \A Y \in Prefixes : <<Y, X>> \notin Shorter
    <3> HIDE DEF Prefixes, Shorter
    <3> QED
      BY <2>2, <2>3, WFMin
  <2>5. PICK m \in Good : X = 0 .. m
    OBVIOUS
  <2>6. ASSUME NEW j \in Good, j < m
        PROVE  FALSE
    <3>1. 0 .. j \in SUBSET Probes /\ 0 .. m \in SUBSET Probes
      BY ConntrackAssumption DEF Probes, Span
    <3>2. 0 .. j \subseteq 0 .. m /\ 0 .. j # 0 .. m
      <4>1. j \in Nat /\ m \in Nat /\ m \in 0 .. m /\ m \notin 0 .. j
        BY <1>3, <2>6
      <4> QED
        BY <2>6, <4>1
    <3>3. <<0 .. j, 0 .. m>> \in Shorter
      BY <3>1, <3>2 DEF StrictSubsetOrdering
    <3> QED
      BY <2>4, <2>5, <3>3
  <2> QED
    BY <1>3, <2>6
<1>5. m \in Probes /\ ~IdInUse(Probe(m))
  OBVIOUS
<1>6. \A j \in 0 .. m - 1 : IdInUse(Probe(j))
  <2> SUFFICES ASSUME NEW j \in 0 .. m - 1, ~IdInUse(Probe(j))
               PROVE  FALSE
    OBVIOUS
  <2>1. j \in Probes /\ j < m
    BY <1>5, ConntrackAssumption DEF Probes, Span
  <2> QED
    BY <1>4, <1>5, <2>1 DEF Probes
<1>7. AllocId(m)
  BY <1>5, <1>6 DEF AllocId
<1> QED
  BY <1>5, <1>7 DEF AllocSucceeds, Probes

--------------------------------------------------------------------------------
\* What the actions do to the keys of the table

LEMMA NextTcpStateType ==
  ASSUME NEW cur \in TcpStates, NEW f \in Flags
  PROVE  NextTcpState(cur, f) \in TcpStates
BY DEF NextTcpState, TcpStates, Flags

\* A refresh changes neither which slots are used nor a flow or an id in them.
LEMMA TouchKeepsKeys ==
  ASSUME TypeOK, NEW s \in Used, NEW f \in Flags, Touch(s, f)
  PROVE  /\ slots' \in [Slot -> Entry \cup {Free}]
         /\ Used' = Used
         /\ \A r \in Used : slots'[r].flow = slots[r].flow /\ slots'[r].wan_id = slots[r].wan_id
<1> DEFINE e == [flow |-> slots[s].flow, wan_id |-> slots[s].wan_id,
                 last_seen |-> now, tcp |-> NextTcpState(slots[s].tcp, f)]
<1>1. s \in Slot /\ slots[s] \in Entry
  BY DEF Used, TypeOK
<1>2. e \in Entry
  <2>1. slots[s].flow \in Flow /\ slots[s].wan_id \in WanId /\ slots[s].tcp \in TcpStates
    BY <1>1 DEF Entry
  <2>2. now \in Nat
    BY ConntrackAssumption DEF TypeOK
  <2> QED
    BY <2>1, <2>2, NextTcpStateType DEF Entry
<1>3. e # Free /\ e.flow = slots[s].flow /\ e.wan_id = slots[s].wan_id
  BY <1>2, ConntrackAssumption
<1>4. slots' = [slots EXCEPT ![s] = e]
  BY DEF Touch
<1> QED
  <2> HIDE DEF e
  <2> QED
    BY <1>1, <1>2, <1>3, <1>4 DEF Used, TypeOK

LEMMA TouchKeepsInvariant ==
  ASSUME IInv, NEW s \in Used, NEW f \in Flags, Touch(s, f),
         UNCHANGED <<cursor, nat_live, now, recent>>,
         owner' = owner \/ owner' = [owner EXCEPT ![slots[s].wan_id] = slots[s].flow]
  PROVE  IInv'
<1> USE DEF IInv
<1>1. /\ slots' \in [Slot -> Entry \cup {Free}]
      /\ Used' = Used
      /\ \A r \in Used : slots'[r].flow = slots[r].flow /\ slots'[r].wan_id = slots[r].wan_id
  BY TouchKeepsKeys
<1>2. s \in Slot /\ slots[s].flow \in Flow /\ slots[s].wan_id \in WanId
  BY DEF Used, TypeOK, Entry
<1>3. owner' = owner
  BY <1>2 DEF OwnerExact, TypeOK
<1>4. TypeOK'
  BY <1>1, <1>3 DEF TypeOK, Window
<1>5. UniqueWanIds' /\ UniqueFlows' /\ OwnerExact'
  BY <1>1, <1>3 DEF UniqueWanIds, UniqueFlows, OwnerExact
<1>6. LiveGauge'
  BY <1>1 DEF LiveGauge
<1> QED
  BY <1>4, <1>5, <1>6

--------------------------------------------------------------------------------
\* A new flow

LEMMA NewFlowKeepsInvariant ==
  ASSUME IInv, NEW t \in Flow, NEW f \in Flags, OutboundNew(t, f)
  PROVE  IInv'
<1> USE DEF IInv
<1>1. PICK k \in Probes, s \in Slot :
        /\ AllocId(k)
        /\ PickSlot(s)
        /\ cursor' = Probe(k + 1)
        /\ slots' = [slots EXCEPT ![s] = [flow |-> t, wan_id |-> Probe(k), last_seen |-> now,
                                          tcp |-> NextTcpState("New", f)]]
        /\ CountLive(s)
        /\ owner' = [owner EXCEPT ![Probe(k)] = t]
        /\ recent' = LET r == Append(recent, Probe(k))
                     IN  IF Len(r) > Window THEN Tail(r) ELSE r
        /\ UNCHANGED now
  BY Zenon DEF OutboundNew
<1> DEFINE id == Probe(k)
           e  == [flow |-> t, wan_id |-> id, last_seen |-> now, tcp |-> NextTcpState("New", f)]
<1>2. id \in WanId /\ Probe(k + 1) \in WanId
  <2>1. k \in 0 .. Span /\ k + 1 \in 0 .. Span
    BY ConntrackAssumption DEF Probes, Span
  <2> QED
    BY <2>1, ProbeInRange DEF TypeOK
<1>3. e \in Entry
  <2>1. now \in Nat /\ "New" \in TcpStates
    BY ConntrackAssumption DEF TypeOK, TcpStates
  <2> QED
    BY <1>2, <2>1, NextTcpStateType DEF Entry
<1>4. e # Free /\ e.flow = t /\ e.wan_id = id
  BY <1>3, ConntrackAssumption
<1>5. slots' = [slots EXCEPT ![s] = e] /\ owner' = [owner EXCEPT ![id] = t]
  BY <1>1
<1>6. \A r \in Used : slots[r].wan_id # id
  BY <1>1 DEF AllocId, IdInUse
<1>7. \A r \in Used : slots[r].flow # t
  BY DEF OutboundNew, Holds, Used
<1>8. slots' \in [Slot -> Entry \cup {Free}] /\ owner' \in [WanId -> Flow \cup {Free}]
  <2> HIDE DEF e, id
  <2> QED
    BY <1>2, <1>3, <1>5 DEF TypeOK
<1>9. /\ Used' = Used \cup {s}
      /\ slots'[s] = e
      /\ \A r \in Used : r # s => slots'[r] = slots[r]
  <2> HIDE DEF e
  <2> QED
    BY <1>4, <1>5 DEF Used, TypeOK
<1>10. UniqueWanIds' /\ UniqueFlows'
  <2> HIDE DEF e, id
  <2> QED
    BY <1>4, <1>6, <1>7, <1>9 DEF UniqueWanIds, UniqueFlows
<1>11. OwnerExact'
  <2> SUFFICES ASSUME NEW r \in Used'
               PROVE  owner'[slots'[r].wan_id] = slots'[r].flow
    BY DEF OwnerExact
  <2> HIDE DEF e, id
  <2>1. CASE r = s
    BY <1>2, <1>4, <1>5, <1>9, <2>1 DEF TypeOK
  <2>2. CASE r # s
    <3>1. r \in Used /\ slots'[r] = slots[r]
      BY <1>9, <2>2
    <3>2. slots[r].wan_id \in WanId /\ slots[r].wan_id # id
      BY <1>6, <3>1 DEF Used, TypeOK, Entry
    <3> QED
      BY <1>2, <1>5, <3>1, <3>2 DEF TypeOK, OwnerExact
  <2> QED
    BY <2>1, <2>2
<1>12. LiveGauge'
  <2>1. CASE slots[s] = Free
    <3>1. s \notin Used
      BY <2>1 DEF Used
    <3>2. Cardinality(Used \cup {s}) = Cardinality(Used) + 1
      BY <3>1, UsedIsFinite, FS_AddElement
    <3> QED
      BY <1>1, <1>9, <2>1, <3>2 DEF LiveGauge, CountLive
  <2>2. CASE slots[s] # Free
    <3>1. Used \cup {s} = Used
      BY <2>2 DEF Used
    <3> QED
      BY <1>1, <1>9, <2>2, <3>1 DEF LiveGauge, CountLive
  <2> QED
    BY <2>1, <2>2
<1>13. nat_live' \in 0 .. Cap
  BY <1>8, <1>12, UsedIsFinite, FewUsedNext DEF LiveGauge
<1>14. recent' \in Seq(WanId) /\ Len(recent') <= Window
  <2> DEFINE r == Append(recent, id)
  <2>1. r \in Seq(WanId) /\ Len(r) = Len(recent) + 1 /\ r # << >>
    BY <1>2 DEF TypeOK
  <2>2. Window \in Nat
    BY ConntrackAssumption DEF Window, Span
  <2>3. recent' = IF Len(r) > Window THEN Tail(r) ELSE r
    BY <1>1
  <2>4. Tail(r) \in Seq(WanId) /\ Len(Tail(r)) = Len(recent)
    <3> HIDE DEF r
    <3>1. Len(recent) \in Nat
      BY DEF TypeOK
    <3> QED
      BY <2>1, <3>1
  <2>5. Len(recent) \in Nat /\ Len(recent) <= Window
    BY DEF TypeOK
  <2> HIDE DEF r
  <2> QED
    BY <2>1, <2>2, <2>3, <2>4, <2>5
<1>15. TypeOK'
  BY <1>1, <1>2, <1>8, <1>13, <1>14 DEF TypeOK, Window
<1> QED
  BY <1>10, <1>11, <1>12, <1>15

--------------------------------------------------------------------------------
\* The sweep and the clock

LEMMA ReapKeepsInvariant ==
  ASSUME IInv, Reap
  PROVE  IInv'
<1> USE DEF IInv
<1>1. slots' = [r \in Slot |-> IF r \in Reapable THEN Free ELSE slots[r]]
  BY DEF Reap
<1>2. Reapable \subseteq Used
  BY DEF Reapable, ExpiredSlots
<1>3. /\ slots' \in [Slot -> Entry \cup {Free}]
      /\ Used' = Used \ Reapable
      /\ \A r \in Used' : slots'[r] = slots[r]
  <2> HIDE DEF IInv
  <2>1. TypeOK
    BY DEF IInv
  <2> QED
    BY <1>1, <1>2, <2>1 DEF TypeOK, Used
<1>4. UniqueWanIds' /\ UniqueFlows' /\ OwnerExact'
  BY <1>3 DEF Reap, UniqueWanIds, UniqueFlows, OwnerExact
<1>5. LiveGauge'
  <2>1. Cardinality(Used \ Reapable) = Cardinality(Used) - Cardinality(Used \cap Reapable)
    BY UsedIsFinite, FS_Difference
  <2>2. Used \cap Reapable = Reapable
    BY <1>2
  <2> QED
    BY <1>3, <2>1, <2>2 DEF Reap, LiveGauge
<1>6. nat_live' \in 0 .. Cap
  BY <1>5, FewUsedNext DEF LiveGauge
<1>7. TypeOK'
  BY <1>3, <1>6 DEF Reap, TypeOK, Window
<1> QED
  BY <1>4, <1>5, <1>7

LEMMA TickKeepsInvariant ==
  ASSUME IInv, Tick
  PROVE  IInv'
BY ConntrackAssumption DEF IInv, Tick, TypeOK, UniqueWanIds, UniqueFlows, OwnerExact, LiveGauge, Used, Window

--------------------------------------------------------------------------------
\* The theorems

LEMMA InitEstablishes == Init => IInv
<1> SUFFICES ASSUME Init
             PROVE  IInv
  OBVIOUS
<1>1. Used = {}
  BY DEF Init, Used
<1>2. Cardinality({}) = 0
  BY FS_EmptySet
<1>3. TypeOK
  BY ConntrackAssumption DEF Init, TypeOK, WanId, Window, Span
<1>4. UniqueWanIds /\ UniqueFlows /\ OwnerExact /\ LiveGauge
  BY <1>1, <1>2 DEF Init, UniqueWanIds, UniqueFlows, OwnerExact, LiveGauge
<1> QED
  BY <1>3, <1>4 DEF IInv

LEMMA StepKeeps == IInv /\ [Next]_vars => IInv'
<1> SUFFICES ASSUME IInv, [Next]_vars
             PROVE  IInv'
  OBVIOUS
<1>1. ASSUME NEW t \in Flow, NEW f \in Flags, OutboundKnown(t, f)
      PROVE  IInv'
  <2>1. PICK s \in Slot : /\ Holds(s, t)
                          /\ Touch(s, f)
                          /\ owner' = [owner EXCEPT ![slots[s].wan_id] = t]
                          /\ UNCHANGED <<cursor, nat_live, now, recent>>
    BY <1>1 DEF OutboundKnown, FirstOf
  <2>2. s \in Used /\ slots[s].flow = t
    BY <2>1 DEF Holds, Used
  <2> QED
    BY <2>1, <2>2, TouchKeepsInvariant
<1>2. ASSUME NEW t \in Flow, NEW f \in Flags, OutboundNew(t, f)
      PROVE  IInv'
  BY <1>2, NewFlowKeepsInvariant
<1>3. ASSUME NEW t \in Flow, NEW id \in WanId, NEW f \in Flags,
             Inbound(t.proto, t.remote, id, f)
      PROVE  IInv'
  <2>1. PICK s \in Slot : /\ s \in Used
                          /\ Touch(s, f)
                          /\ UNCHANGED <<cursor, nat_live, now, owner, recent>>
    BY <1>3 DEF Inbound, FirstOf
  <2> QED
    BY <2>1, TouchKeepsInvariant
<1>4. CASE Reap
  BY <1>4, ReapKeepsInvariant
<1>5. CASE Tick
  BY <1>5, TickKeepsInvariant
<1>6. CASE UNCHANGED vars
  BY <1>6 DEF vars, IInv, TypeOK, UniqueWanIds, UniqueFlows, OwnerExact, LiveGauge, Used, Window
<1> QED
  BY <1>1, <1>2, <1>3, <1>4, <1>5, <1>6 DEF Next, Outbound

LEMMA Invariance == Spec => []IInv
BY InitEstablishes, StepKeeps, PTL DEF Spec

\* Spec => []TypeOK. The cursor and every id in the table stay in the id range, and the gauge
\* between 0 and Cap, so fetch_sub in reap never wraps.
THEOREM TypeCorrect == Spec => []TypeOK
BY Invariance, PTL DEF IInv

\* Spec => []UniqueWanIds. No two entries ever share a WAN id (alloc_id, outbound).
THEOREM WanIdsUnique == Spec => []UniqueWanIds
BY Invariance, PTL DEF IInv

\* Spec => []UniqueFlows. outbound never creates a second entry for a 5-tuple.
THEOREM FlowsUnique == Spec => []UniqueFlows
BY Invariance, PTL DEF IInv

\* Spec => []OwnerExact. inbound rewrites a reply to the client that last sent under its id.
THEOREM RepliesReachTheirOwner == Spec => []OwnerExact
BY Invariance, PTL DEF IInv

\* Spec => []LiveGauge. NAT_LIVE is exact after every outbound, eviction and sweep.
THEOREM GaugeExact == Spec => []LiveGauge
BY Invariance, PTL DEF IInv

\* Spec => []AllocSucceeds. outbound never returns None, whatever the traffic.
THEOREM NatDropIsDead == Spec => []AllocSucceeds
BY TypeCorrect, AllocAlwaysSucceeds, PTL

\* Spec => EvictsOnlyTheStalest. pick_slot sacrifices a live flow only when every slot holds
\* one, and then the least recently used.
THEOREM EvictionOrder == Spec => EvictsOnlyTheStalest
<1>1. ASSUME IInv, [Next]_vars, NEW s \in Used, ~Expired(s), LosesItsSlot(s)
      PROVE  StalestOfAll(s)
  <2>1. s \in Slot /\ slots[s] # Free
    BY DEF Used
  <2>2. ~(slots'[s] # Free /\ slots'[s].flow = slots[s].flow)
    BY <1>1, <2>1 DEF LosesItsSlot
  <2>3. ASSUME NEW q \in Used, NEW f \in Flags, Touch(q, f)
        PROVE  FALSE
    <3>1. Used' = Used /\ slots'[s].flow = slots[s].flow
      BY <1>1, <2>3, TouchKeepsKeys DEF IInv
    <3> QED
      BY <1>1, <2>2, <3>1 DEF Used
  <2>4. ASSUME NEW t \in Flow, NEW f \in Flags, OutboundKnown(t, f)
        PROVE  FALSE
    BY <2>3, <2>4 DEF OutboundKnown, FirstOf, Holds, Used
  <2>5. ASSUME NEW t \in Flow, NEW id \in WanId, NEW f \in Flags,
               Inbound(t.proto, t.remote, id, f)
        PROVE  FALSE
    BY <2>3, <2>5 DEF Inbound, FirstOf, Used
  <2>6. ASSUME NEW t \in Flow, NEW f \in Flags, OutboundNew(t, f)
        PROVE  StalestOfAll(s)
    <3>1. PICK q \in Slot : PickSlot(q) /\ \E e : slots' = [slots EXCEPT ![q] = e]
      BY <2>6 DEF OutboundNew
    <3>2. q = s
      BY <1>1, <2>1, <2>2, <3>1 DEF IInv, TypeOK
    <3>3. FreeSlots = {}
      BY <1>1, <2>1, <3>1, <3>2 DEF PickSlot, FirstOf, FreeSlots
    <3>4. ExpiredSlots = {}
      BY <1>1, <3>1, <3>2, <3>3 DEF PickSlot, FirstOf, ExpiredSlots
    <3>5. s \in OldestSlots
      BY <3>1, <3>2, <3>3, <3>4 DEF PickSlot, FirstOf
    <3> QED
      BY <3>3, <3>4, <3>5 DEF FreeSlots, ExpiredSlots, OldestSlots, Used, StalestOfAll
  <2>7. CASE Reap
    BY <1>1, <2>1, <2>2, <2>7 DEF Reap, Reapable, ExpiredSlots
  <2>8. CASE Tick \/ UNCHANGED vars
    BY <2>1, <2>2, <2>8 DEF Tick, vars
  <2> QED
    BY <1>1, <2>4, <2>5, <2>6, <2>7, <2>8 DEF Next, Outbound
<1>2. IInv /\ [Next]_vars => [EvictionIsFair]_vars
  BY <1>1 DEF EvictionIsFair
<1> QED
  BY <1>2, Invariance, PTL DEF Spec, EvictsOnlyTheStalest
--------------------------------------------------------------------------------
\* The quarantine. Back is how far behind the cursor an id lies, the cursor's own id a whole
\* lap behind. Since id was allocated the cursor has passed the ids nearer than it; Fresh are
\* the unused ones it has yet to come to. Each allocation takes one of them.

Back(id, c) == IF id < c THEN c - id ELSE c - id + Span
UsedIds     == {slots[s].wan_id : s \in Used}
Fresh(id, c, ids) == {x \in WanId \ ids : Back(id, c) < Back(x, c)}

LapInv ==
  /\ \A i, j \in DOMAIN recent : i < j => Back(recent[j], cursor) < Back(recent[i], cursor)
  /\ \A i \in DOMAIN recent :
       Cardinality(Fresh(recent[i], cursor, UsedIds)) >= Window - (Len(recent) - i + 1)

LEMMA BackInRange ==
  ASSUME NEW c \in WanId, NEW id \in WanId
  PROVE  Back(id, c) \in 1 .. Span
BY ConntrackAssumption DEF Back, WanId, Span

LEMMA BackIsInjective ==
  ASSUME NEW c \in WanId, NEW x \in WanId, NEW y \in WanId, Back(x, c) = Back(y, c)
  PROVE  x = y
BY ConntrackAssumption DEF Back, WanId, Span

\* Every id is probed, the sooner the further behind it lies.
LEMMA BackOfProbe ==
  ASSUME cursor \in WanId, NEW x \in WanId
  PROVE  Span - Back(x, cursor) \in Probes /\ Probe(Span - Back(x, cursor)) = x
BY ConntrackAssumption DEF Back, Probe, Probes, WanId, Span

\* An allocation at probe k puts every id k + 1 steps further behind, until a lap is full.
LEMMA BackMoves ==
  ASSUME cursor \in WanId, NEW k \in Probes, NEW x \in WanId
  PROVE  /\ Back(x, cursor) + k + 1 <= Span => Back(x, Probe(k + 1)) = Back(x, cursor) + k + 1
         /\ Back(Probe(k), cursor) = Span - k
         /\ Back(Probe(k), Probe(k + 1)) = 1
BY ConntrackAssumption DEF Back, Probe, Probes, WanId, Span

LEMMA UsedIdsAreFew ==
  ASSUME TypeOK
  PROVE  /\ UsedIds \in SUBSET WanId /\ IsFiniteSet(UsedIds)
         /\ Cardinality(UsedIds) <= Cap
<1>1. UsedIds \in SUBSET WanId
  BY DEF UsedIds, Used, TypeOK, Entry
<1>2. IsFiniteSet(UsedIds) /\ Cardinality(UsedIds) <= Cardinality(Used)
  <2> DEFINE Id(s) == slots[s].wan_id
             h == [s \in Used |-> slots[s].wan_id]
  <2>1. h \in Surjection(Used, UsedIds)
    BY DEF UsedIds, Surjection
  <2> HIDE DEF h
  <2> QED
    BY <2>1, UsedIsFinite, FS_Surjection
<1> QED
  BY <1>1, <1>2, UsedIsFinite, FS_CardinalityType, ConntrackAssumption

LEMMA IdsAreFinite == IsFiniteSet(WanId) /\ Cardinality(WanId) = Span
<1>1. NatLo \in Int /\ NatHi \in Int /\ ~(NatLo > NatHi)
  BY ConntrackAssumption DEF Span
<1> QED
  BY <1>1, FS_Interval, Zenon DEF WanId, Span

\* Fewer ids in use can only leave more of them fresh.
LEMMA FreshGrows ==
  ASSUME NEW id, NEW c, NEW ids, NEW ids2 \in SUBSET ids
  PROVE  Cardinality(Fresh(id, c, ids)) <= Cardinality(Fresh(id, c, ids2))
<1>1. Fresh(id, c, ids) \subseteq Fresh(id, c, ids2) /\ Fresh(id, c, ids2) \subseteq WanId
  BY DEF Fresh
<1> QED
  BY <1>1, IdsAreFinite, FS_Subset

\* An id with something fresh left is not reached by the next allocation, which takes at most
\* one of its fresh ids.
LEMMA AllocationSpares ==
  ASSUME TypeOK, NEW k, AllocId(k), NEW id \in WanId,
         Cardinality(Fresh(id, cursor, UsedIds)) >= 1
  PROVE  /\ Back(id, cursor) + k + 1 <= Span
         /\ Back(id, Probe(k + 1)) = Back(id, cursor) + k + 1
         /\ \A ids \in SUBSET (UsedIds \cup {Probe(k)}) :
              Cardinality(Fresh(id, Probe(k + 1), ids))
                >= Cardinality(Fresh(id, cursor, UsedIds)) - 1
<1> DEFINE F == Fresh(id, cursor, UsedIds)
<1>1. k \in Probes /\ cursor \in WanId /\ Probe(k) \in WanId
  BY ProbeInRange, ConntrackAssumption DEF AllocId, Probes, TypeOK, Span
<1>2. F \in SUBSET WanId /\ IsFiniteSet(F)
  BY IdsAreFinite, FS_Subset DEF Fresh
<1>3. ASSUME NEW x \in F
      PROVE  Back(id, cursor) < Back(x, cursor) /\ Back(x, cursor) <= Span - k
  <2>1. x \in WanId /\ x \notin UsedIds /\ Back(id, cursor) < Back(x, cursor)
    BY DEF Fresh
  <2>2. ~IdInUse(x)
    BY <2>1 DEF IdInUse, UsedIds
  <2>3. /\ Span - Back(x, cursor) \in Probes
        /\ Probe(Span - Back(x, cursor)) = x
        /\ Back(x, cursor) \in 1 .. Span
    BY <1>1, <2>1, BackOfProbe, BackInRange
  <2>4. ~(Span - Back(x, cursor) \in 0 .. k - 1)
    BY <2>2, <2>3 DEF AllocId
  <2> QED
    BY <1>1, <2>1, <2>3, <2>4, ConntrackAssumption DEF Probes, Span
<1>4. PICK x \in F : TRUE
  BY <1>2, FS_EmptySet
<1>5. Back(id, cursor) \in 1 .. Span
  BY <1>1, BackInRange
<1>6. Back(id, cursor) + k + 1 <= Span
  <2>1. Back(x, cursor) \in 1 .. Span /\ Span \in Int /\ k \in Int
    BY <1>1, <1>2, BackInRange, ConntrackAssumption DEF Probes, Span
  <2> QED
    BY <1>3, <1>4, <1>5, <2>1
<1>7. Back(id, Probe(k + 1)) = Back(id, cursor) + k + 1
  BY <1>1, <1>6, BackMoves
<1>8. ASSUME NEW ids \in SUBSET (UsedIds \cup {Probe(k)})
      PROVE  Cardinality(Fresh(id, Probe(k + 1), ids)) >= Cardinality(F) - 1
  <2> DEFINE G == Fresh(id, Probe(k + 1), ids)
  <2>1. F \ {Probe(k)} \subseteq G
    <3> SUFFICES ASSUME NEW y \in F, y # Probe(k)
                 PROVE  y \in G
      OBVIOUS
    <3>1. y \in WanId /\ y \notin ids
      BY DEF Fresh
    <3>2. Back(y, cursor) \in 1 .. Span /\ Span \in Int /\ k \in Int
      BY <1>1, <3>1, BackInRange, ConntrackAssumption DEF Probes, Span
    <3>3. Back(y, cursor) # Span - k
      BY <1>1, <3>1, BackMoves, BackIsInjective
    <3>4. Back(y, cursor) + k + 1 <= Span
      BY <1>3, <3>2, <3>3
    <3>5. Back(y, Probe(k + 1)) = Back(y, cursor) + k + 1
      BY <1>1, <3>1, <3>4, BackMoves
    <3>6. Back(id, Probe(k + 1)) < Back(y, Probe(k + 1))
      BY <1>3, <1>5, <1>7, <3>2, <3>5
    <3> QED
      BY <3>1, <3>6 DEF Fresh
  <2>2. IsFiniteSet(G)
    BY IdsAreFinite, FS_Subset DEF Fresh
  <2>3. IsFiniteSet(F \ {Probe(k)}) /\ Cardinality(F \ {Probe(k)}) >= Cardinality(F) - 1
    <3> HIDE DEF F
    <3>1. /\ IsFiniteSet(F \ {Probe(k)})
          /\ Cardinality(F \ {Probe(k)}) = IF Probe(k) \in F THEN Cardinality(F) - 1
                                                           ELSE Cardinality(F)
      BY <1>2, FS_RemoveElement
    <3>2. Cardinality(F) \in Nat
      BY <1>2, FS_CardinalityType
    <3> QED
      BY <3>1, <3>2
  <2>4. Cardinality(F \ {Probe(k)}) <= Cardinality(G)
    <3> HIDE DEF F, G
    <3> QED
      BY <2>1, <2>2, FS_Subset
  <2> HIDE DEF F, G
  <2>5. Cardinality(F) \in Nat /\ Cardinality(G) \in Nat /\ Cardinality(F \ {Probe(k)}) \in Nat
    BY <1>2, <2>2, <2>3, FS_CardinalityType
  <2>6. Cardinality(G) >= Cardinality(F) - 1
    BY <2>3, <2>4, <2>5
  <2> QED
    BY <2>6 DEF G
<1> QED
  BY <1>6, <1>7, <1>8

\* The newest id has all but the used ids ahead of it.
LEMMA NewestHasALap ==
  ASSUME TypeOK, NEW k, AllocId(k), NEW ids \in SUBSET WanId, IsFiniteSet(ids),
         Cardinality(ids) <= Cap, Probe(k) \in ids
  PROVE  Cardinality(Fresh(Probe(k), Probe(k + 1), ids)) >= Window - 1
<1>1. k \in Probes /\ cursor \in WanId /\ Probe(k) \in WanId /\ Probe(k + 1) \in WanId
  <2>1. k \in Probes /\ k \in 0 .. Span /\ k + 1 \in 0 .. Span
    BY ConntrackAssumption DEF AllocId, Probes, Span
  <2> QED
    BY <2>1, ProbeInRange DEF TypeOK
<1>2. Back(Probe(k), Probe(k + 1)) = 1
  BY <1>1, BackMoves
<1>3. WanId \ ids \subseteq Fresh(Probe(k), Probe(k + 1), ids)
  <2> SUFFICES ASSUME NEW x \in WanId, x \notin ids
               PROVE  x \in Fresh(Probe(k), Probe(k + 1), ids)
    OBVIOUS
  <2>1. Back(x, Probe(k + 1)) # 1
    BY <1>1, <1>2, BackIsInjective
  <2>2. Back(x, Probe(k + 1)) \in 1 .. Span
    BY <1>1, BackInRange
  <2> QED
    BY <1>2, <2>1, <2>2, ConntrackAssumption DEF Fresh, Span
<1>4. IsFiniteSet(Fresh(Probe(k), Probe(k + 1), ids))
  BY IdsAreFinite, FS_Subset DEF Fresh
<1>5. Cardinality(WanId \ ids) <= Cardinality(Fresh(Probe(k), Probe(k + 1), ids))
  BY <1>3, <1>4, FS_Subset
<1>6. Cardinality(WanId \ ids) = Span - Cardinality(ids)
  <2>1. WanId \cap ids = ids
    OBVIOUS
  <2> QED
    BY <2>1, IdsAreFinite, FS_Difference
<1>7. /\ Cardinality(ids) \in Nat /\ Cardinality(WanId \ ids) \in Nat
      /\ Cardinality(Fresh(Probe(k), Probe(k + 1), ids)) \in Nat
  BY <1>4, IdsAreFinite, FS_CardinalityType, FS_Difference
<1> QED
  BY <1>5, <1>6, <1>7, ConntrackAssumption DEF Window, Span

LEMMA LapWithoutAllocation ==
  ASSUME TypeOK, LapInv, UNCHANGED <<cursor, recent>>, UsedIds' \in SUBSET UsedIds
  PROVE  LapInv'
<1>1. ASSUME NEW i \in DOMAIN recent
      PROVE  Cardinality(Fresh(recent[i], cursor, UsedIds')) >= Window - (Len(recent) - i + 1)
  <2>1. Cardinality(Fresh(recent[i], cursor, UsedIds))
          <= Cardinality(Fresh(recent[i], cursor, UsedIds'))
    BY FreshGrows
  <2>2. /\ Cardinality(Fresh(recent[i], cursor, UsedIds)) \in Nat
        /\ Cardinality(Fresh(recent[i], cursor, UsedIds')) \in Nat
    BY IdsAreFinite, FS_Subset, FS_CardinalityType DEF Fresh
  <2>3. Window \in Int /\ Len(recent) \in Int /\ i \in Int
    BY ConntrackAssumption DEF Window, Span, TypeOK
  <2>4. Cardinality(Fresh(recent[i], cursor, UsedIds)) >= Window - (Len(recent) - i + 1)
    BY DEF LapInv
  <2> QED
    BY <2>1, <2>2, <2>3, <2>4
<1> QED
  BY <1>1 DEF LapInv

\* Where the ids of recent' come from: the newest is the one just allocated, the others have
\* moved up by one when the oldest was forgotten.
LEMMA RecentShifts ==
  ASSUME TypeOK, NEW id \in WanId,
         recent' = LET r == Append(recent, id) IN IF Len(r) > Window THEN Tail(r) ELSE r
  PROVE  \E o \in {0, 1} :
           /\ Len(recent') = Len(recent) + 1 - o
           /\ recent' \in Seq(WanId) /\ Len(recent') >= 1
           /\ recent'[Len(recent')] = id
           /\ \A i \in 1 .. Len(recent') - 1 : /\ i + o \in DOMAIN recent
                                               /\ recent'[i] = recent[i + o]
           /\ Len(recent') <= Window
<1> DEFINE r == Append(recent, id)
<1>1. /\ r \in Seq(WanId) /\ Len(r) = Len(recent) + 1 /\ r[Len(r)] = id
      /\ \A i \in DOMAIN recent : r[i] = recent[i]
  BY DEF TypeOK
<1>2. /\ recent \in Seq(WanId) /\ Len(recent) \in Nat /\ DOMAIN recent = 1 .. Len(recent)
      /\ Len(recent) <= Window /\ Window \in Nat /\ Window >= 2
  BY ConntrackAssumption DEF TypeOK, Window, Span
<1>3. recent' = IF Len(r) > Window THEN Tail(r) ELSE r
  OBVIOUS
<1> HIDE DEF r
<1>4. CASE Len(r) > Window
  <2>1. recent' = Tail(r) /\ r # << >>
    BY <1>1, <1>2, <1>3, <1>4
  <2>2. /\ Tail(r) \in Seq(WanId) /\ Len(Tail(r)) = Len(r) - 1
        /\ \A i \in 1 .. Len(r) - 1 : Tail(r)[i] = r[i + 1]
    BY <1>1, <2>1
  <2>3. \A i \in 1 .. Len(recent') - 1 : i + 1 \in DOMAIN recent /\ recent'[i] = recent[i + 1]
    BY <1>1, <1>2, <2>1, <2>2
  <2>4. recent'[Len(recent')] = id /\ Len(recent') = Len(recent) /\ Len(recent) >= 1
    BY <1>1, <1>2, <1>4, <2>1, <2>2
  <2>5. /\ Len(recent') = Len(recent) + 1 - 1 /\ recent' \in Seq(WanId)
        /\ Len(recent') >= 1 /\ Len(recent') <= Window
    <3> DEFINE n == Len(recent')
               m == Len(recent)
    <3>1. n = m /\ m \in Nat /\ m >= 1 /\ m <= Window /\ recent' \in Seq(WanId)
      BY <1>2, <2>1, <2>2, <2>4, Zenon
    <3>2. n = m + 1 - 1 /\ n >= 1 /\ n <= Window
      <4> HIDE DEF n, m
      <4> QED
        BY <3>1, <1>2
    <3> QED
      BY <3>1, <3>2
  <2> QED
    BY <2>3, <2>4, <2>5
<1>5. CASE ~(Len(r) > Window)
  <2>1. recent' = r
    BY <1>3, <1>5
  <2>2. \A i \in 1 .. Len(recent') - 1 : i + 0 \in DOMAIN recent /\ recent'[i] = recent[i + 0]
    <3> DEFINE n == Len(recent')
               m == Len(recent)
    <3>0. n = m + 1 /\ m \in Nat
      BY <1>1, <1>2, <2>1, Zenon
    <3>1. n - 1 = m
      <4> HIDE DEF n, m
      <4> QED
        BY <3>0
    <3>2. \A i \in 1 .. Len(recent) : i + 0 = i /\ i \in DOMAIN recent /\ r[i] = recent[i]
      BY <1>1, <1>2
    <3> QED
      BY <2>1, <3>1, <3>2
  <2>3. /\ Len(recent') = Len(recent) + 1 - 0 /\ recent' \in Seq(WanId)
        /\ Len(recent') >= 1 /\ Len(recent') <= Window /\ recent'[Len(recent')] = id
    BY <1>1, <1>2, <1>5, <2>1
  <2> QED
    BY <2>2, <2>3
<1> QED
  BY <1>4, <1>5

LEMMA NewFlowKeepsLaps ==
  ASSUME IInv, IInv', LapInv, NEW t \in Flow, NEW f \in Flags, OutboundNew(t, f)
  PROVE  LapInv'
<1>1. PICK k \in Probes, s \in Slot :
        /\ AllocId(k)
        /\ cursor' = Probe(k + 1)
        /\ slots' = [slots EXCEPT ![s] = [flow |-> t, wan_id |-> Probe(k), last_seen |-> now,
                                          tcp |-> NextTcpState("New", f)]]
        /\ recent' = LET r == Append(recent, Probe(k))
                     IN  IF Len(r) > Window THEN Tail(r) ELSE r
  BY Zenon DEF OutboundNew
<1> DEFINE id == Probe(k)
<1>2. TypeOK /\ TypeOK' /\ id \in WanId /\ cursor \in WanId /\ cursor' \in WanId /\ k \in Nat
  BY ProbeInRange, ConntrackAssumption DEF IInv, TypeOK, Probes, Span
<1>3. /\ UsedIds' \in SUBSET (UsedIds \cup {id}) /\ id \in UsedIds'
      /\ UsedIds' \in SUBSET WanId /\ IsFiniteSet(UsedIds') /\ Cardinality(UsedIds') <= Cap
  <2> DEFINE e == [flow |-> t, wan_id |-> id, last_seen |-> now, tcp |-> NextTcpState("New", f)]
  <2>1. e.wan_id = id /\ slots' = [slots EXCEPT ![s] = e]
    BY <1>1
  <2>2. e # Free
    <3>1. now \in Nat /\ "New" \in TcpStates
      BY <1>2, ConntrackAssumption DEF TypeOK, TcpStates
    <3>2. e \in Entry
      BY <1>2, <3>1, NextTcpStateType DEF Entry
    <3> QED
      BY <3>2, ConntrackAssumption
  <2> HIDE DEF e, id
  <2>3. slots'[s] = e /\ (\A q \in Slot \ {s} : slots'[q] = slots[q]) /\ s \in Used'
    BY <1>2, <2>1, <2>2 DEF Used, TypeOK
  <2>4. UsedIds' \in SUBSET (UsedIds \cup {id}) /\ id \in UsedIds'
    BY <2>1, <2>3 DEF UsedIds, Used
  <2>5. UsedIds' \in SUBSET WanId /\ IsFiniteSet(UsedIds') /\ Cardinality(UsedIds') <= Cap
    <3>1. UsedIds' \in SUBSET WanId
      BY <1>2 DEF UsedIds, Used, TypeOK, Entry
    <3>2. Used' \in SUBSET Slot
      BY DEF Used
    <3>3. IsFiniteSet(Used') /\ Cardinality(Used') <= Cap
      BY <3>2, FewUsedNext, UsedIsFinite, FS_Subset
    <3> DEFINE h == [q \in Used' |-> slots'[q].wan_id]
    <3>4. h \in Surjection(Used', UsedIds')
      BY DEF UsedIds, Surjection
    <3> HIDE DEF h
    <3>5. IsFiniteSet(UsedIds') /\ Cardinality(UsedIds') <= Cardinality(Used')
      BY <3>3, <3>4, FS_Surjection
    <3> QED
      BY <3>1, <3>3, <3>5, FewUsedNext, FS_CardinalityType, ConntrackAssumption
  <2> QED
    BY <2>4, <2>5
<1>4. PICK o \in {0, 1} :
        /\ Len(recent') = Len(recent) + 1 - o
        /\ recent' \in Seq(WanId) /\ Len(recent') >= 1
        /\ recent'[Len(recent')] = id
        /\ \A i \in 1 .. Len(recent') - 1 : i + o \in DOMAIN recent /\ recent'[i] = recent[i + o]
        /\ Len(recent') <= Window
  BY <1>1, <1>2, RecentShifts
<1> DEFINE m == Len(recent)
           n == Len(recent')
<1>5. /\ m \in Nat /\ n \in Nat /\ DOMAIN recent = 1 .. m /\ DOMAIN recent' = 1 .. n
      /\ Window \in Nat /\ o \in Nat /\ n = m + 1 - o /\ n >= 1 /\ n <= Window
  <2>1. recent \in Seq(WanId) /\ recent' \in Seq(WanId)
    BY <1>2 DEF TypeOK
  <2>2. m \in Nat /\ n \in Nat /\ DOMAIN recent = 1 .. m /\ DOMAIN recent' = 1 .. n
    BY <2>1
  <2>3. Window \in Nat /\ o \in Nat
    BY ConntrackAssumption DEF Window, Span
  <2> QED
    BY <1>4, <2>2, <2>3
\* A retained id still has something fresh: it is not the oldest of a full window.
<1>6. ASSUME NEW i \in 1 .. n - 1
      PROVE  /\ recent'[i] = recent[i + o] /\ i + o \in DOMAIN recent
             /\ Back(recent'[i], cursor) + k + 1 <= Span
             /\ Back(recent'[i], cursor') = Back(recent'[i], cursor) + k + 1
             /\ Back(recent'[i], cursor) \in 1 .. Span
             /\ Cardinality(Fresh(recent'[i], cursor', UsedIds')) >= Window - (n - i + 1)
  <2> DEFINE a == recent'[i]
             before == Cardinality(Fresh(a, cursor, UsedIds))
             after  == Cardinality(Fresh(a, cursor', UsedIds'))
  <2>1. a = recent[i + o] /\ i + o \in DOMAIN recent
    BY <1>4
  <2>2. a \in WanId
    BY <1>2, <2>1 DEF TypeOK
  <2>3. before \in Nat /\ after \in Nat
    BY IdsAreFinite, FS_Subset, FS_CardinalityType DEF Fresh
  <2>4. before >= Window - (m - (i + o) + 1)
    BY <2>1 DEF LapInv
  <2>5. before >= Window - (n - i)
    <3> HIDE DEF before, m, n
    <3>1. m - (i + o) + 1 = n - i
      BY <1>5
    <3> QED
      BY <2>4, <3>1
  <2>6. before >= 1
    <3> HIDE DEF before, m, n
    <3> QED
      BY <1>5, <2>3, <2>5
  <2>7. /\ Back(a, cursor) + k + 1 <= Span
        /\ Back(a, cursor') = Back(a, cursor) + k + 1
        /\ after >= before - 1
    BY <1>1, <1>2, <1>3, <2>2, <2>6, AllocationSpares
  <2>8. after >= Window - (n - i + 1)
    <3> HIDE DEF before, after, m, n
    <3> QED
      BY <1>5, <2>3, <2>5, <2>7
  <2> QED
    BY <1>2, <2>1, <2>2, <2>7, <2>8, BackInRange
<1>7. /\ Back(recent'[n], cursor') = 1
      /\ Cardinality(Fresh(recent'[n], cursor', UsedIds')) >= Window - (n - n + 1)
  <2>1. recent'[n] = id
    BY <1>4
  <2>2. k \in Probes /\ Back(id, cursor') = 1
    BY <1>1, <1>2, BackMoves
  <2>3. Cardinality(Fresh(id, cursor', UsedIds')) >= Window - 1
    BY <1>1, <1>2, <1>3, NewestHasALap
  <2>4. n - n + 1 = 1
    BY <1>5
  <2> QED
    BY <2>1, <2>2, <2>3, <2>4
<1>8. ASSUME NEW i \in DOMAIN recent', NEW j \in DOMAIN recent', i < j
      PROVE  Back(recent'[j], cursor') < Back(recent'[i], cursor')
  <2>1. i \in 1 .. n - 1 /\ j \in 1 .. n
    BY <1>5, <1>8
  <2>2. /\ Back(recent'[i], cursor') = Back(recent'[i], cursor) + k + 1
        /\ Back(recent'[i], cursor) \in 1 .. Span
    BY <1>6, <2>1
  <2>3. CASE j = n
    BY <1>2, <1>7, <2>2, <2>3, ConntrackAssumption DEF Span
  <2>4. CASE j # n
    <3>1. j \in 1 .. n - 1
      BY <1>5, <2>1, <2>4
    <3>2. /\ Back(recent'[j], cursor') = Back(recent'[j], cursor) + k + 1
          /\ Back(recent'[j], cursor) \in 1 .. Span
      BY <1>6, <3>1
    <3>3. i + o \in DOMAIN recent /\ j + o \in DOMAIN recent /\ i + o < j + o
      BY <1>5, <1>6, <1>8, <2>1, <3>1
    <3>4. Back(recent[j + o], cursor) < Back(recent[i + o], cursor)
      BY <3>3 DEF LapInv
    <3>5. recent'[i] = recent[i + o] /\ recent'[j] = recent[j + o]
      BY <1>6, <2>1, <3>1
    <3> QED
      BY <1>2, <2>2, <3>2, <3>4, <3>5, ConntrackAssumption DEF Span
  <2> QED
    BY <2>3, <2>4
<1>9. ASSUME NEW i \in DOMAIN recent'
      PROVE  Cardinality(Fresh(recent'[i], cursor', UsedIds')) >= Window - (n - i + 1)
  <2>1. i \in 1 .. n - 1 \/ i = n
    BY <1>5
  <2> QED
    BY <1>6, <1>7, <2>1
<1> QED
  BY <1>8, <1>9 DEF LapInv

LEMMA LapStep == IInv /\ IInv' /\ LapInv /\ [Next]_vars => LapInv'
<1> SUFFICES ASSUME IInv, IInv', LapInv, [Next]_vars
             PROVE  LapInv'
  OBVIOUS
<1> USE DEF IInv
<1>1. ASSUME NEW q \in Used, NEW f \in Flags, Touch(q, f), UNCHANGED <<cursor, recent>>
      PROVE  LapInv'
  <2>1. /\ Used' = Used
        /\ \A r \in Used : slots'[r].flow = slots[r].flow /\ slots'[r].wan_id = slots[r].wan_id
    BY <1>1, TouchKeepsKeys
  <2>2. UsedIds' = UsedIds
    BY <2>1 DEF UsedIds
  <2> QED
    BY <1>1, <2>2, LapWithoutAllocation
<1>2. ASSUME NEW t \in Flow, NEW f \in Flags, OutboundKnown(t, f)
      PROVE  LapInv'
  BY <1>1, <1>2 DEF OutboundKnown, FirstOf, Holds, Used
<1>3. ASSUME NEW t \in Flow, NEW f \in Flags, OutboundNew(t, f)
      PROVE  LapInv'
  BY <1>3, NewFlowKeepsLaps
<1>4. ASSUME NEW t \in Flow, NEW id \in WanId, NEW f \in Flags,
             Inbound(t.proto, t.remote, id, f)
      PROVE  LapInv'
  BY <1>1, <1>4 DEF Inbound, FirstOf, Used
<1>5. CASE Reap
  <2>1. UsedIds' \in SUBSET UsedIds
    BY <1>5 DEF Reap, UsedIds, Used
  <2> QED
    BY <1>5, <2>1, LapWithoutAllocation DEF Reap
<1>6. CASE Tick \/ UNCHANGED vars
  <2>1. UsedIds' \in SUBSET UsedIds /\ UNCHANGED <<cursor, recent>>
    BY <1>6 DEF Tick, vars, UsedIds, Used
  <2> QED
    BY <2>1, LapWithoutAllocation
<1> QED
  BY <1>2, <1>3, <1>4, <1>5, <1>6 DEF Next, Outbound

\* Spec => []IdQuarantine. alloc_id's rolling cursor hands out Window = Span - Cap + 1 ids
\* before it repeats one, however many ids in use it has to step over and whatever entries are
\* evicted or reaped meanwhile.
THEOREM Quarantine == Spec => []IdQuarantine
<1>1. Init => LapInv
  BY DEF Init, LapInv
<1>2. IInv /\ LapInv => IdQuarantine
  <2> SUFFICES ASSUME IInv, LapInv, NEW i \in DOMAIN recent, NEW j \in DOMAIN recent, i # j
               PROVE  recent[i] # recent[j]
    BY DEF IdQuarantine
  <2>1. /\ i \in Int /\ j \in Int /\ cursor \in WanId
        /\ recent[i] \in WanId /\ recent[j] \in WanId
    BY DEF IInv, TypeOK
  <2>2. Back(recent[i], cursor) \in 1 .. Span /\ Back(recent[j], cursor) \in 1 .. Span
    BY <2>1, BackInRange
  <2>3. /\ i < j => Back(recent[j], cursor) < Back(recent[i], cursor)
        /\ j < i => Back(recent[i], cursor) < Back(recent[j], cursor)
    BY DEF LapInv
  <2>4. Back(recent[i], cursor) # Back(recent[j], cursor)
    BY <2>1, <2>2, <2>3, ConntrackAssumption DEF Span
  <2> QED
    BY <2>4
<1> QED
  BY <1>1, <1>2, LapStep, Invariance, PTL DEF Spec

--------------------------------------------------------------------------------
\* The refinement: under the invariant the used slots and the bindings are in
\* one-to-one correspondence, so the table is full exactly when Cap bindings are
\* held and every step of the table is a binding, a lapse or no change at all.

SlotBindings ==
  /\ \A s \in Used : slots[s].wan_id \in WanId /\ Bindings[slots[s].wan_id] = slots[s].flow
  /\ \A id \in WanId : ~IdInUse(id) => Bindings[id] = Free

\* The instance has a Cardinality of its own, by the same definition.
LEMMA SameCardinality ==
  ASSUME NEW S
  PROVE  Translation!Cardinality(S) = Cardinality(S)
BY DEF Cardinality, Translation!Cardinality, IsFiniteSet, Translation!IsFiniteSet

LEMMA BindingsOfSlots == TypeOK /\ UniqueWanIds => SlotBindings
<1> SUFFICES ASSUME TypeOK, UniqueWanIds
             PROVE  SlotBindings
  OBVIOUS
<1>1. ASSUME NEW s \in Used
      PROVE  slots[s].wan_id \in WanId /\ Bindings[slots[s].wan_id] = slots[s].flow
  <2> DEFINE id == slots[s].wan_id
             c  == CHOOSE r \in Used : slots[r].wan_id = id
  <2>1. id \in WanId
    BY DEF Used, TypeOK, Entry
  <2>2. c \in Used /\ slots[c].wan_id = id
    OBVIOUS
  <2>3. c = s
    BY <2>2 DEF UniqueWanIds
  <2>4. IdInUse(id)
    BY DEF IdInUse
  <2> QED
    BY <2>1, <2>3, <2>4 DEF Bindings
<1>2. \A id \in WanId : ~IdInUse(id) => Bindings[id] = Free
  BY DEF Bindings
<1> QED
  BY <1>1, <1>2 DEF SlotBindings

LEMMA SlotFlowsAreFlows ==
  ASSUME TypeOK, NEW s \in Used
  PROVE  slots[s].flow \in Flow /\ slots[s].flow # Free
BY ConntrackAssumption DEF TypeOK, Used, Entry

\* An id is bound when a used slot holds it, and only then.
LEMMA BoundIdsAreInUse ==
  ASSUME TypeOK, UniqueWanIds
  PROVE  Translation!BoundIds = {id \in WanId : IdInUse(id)}
<1>1. SlotBindings
  BY BindingsOfSlots
<1>2. ASSUME NEW id \in WanId, IdInUse(id)
      PROVE  Bindings[id] # Free
  BY <1>1, <1>2, SlotFlowsAreFlows DEF SlotBindings, IdInUse
<1> QED
  BY <1>1, <1>2 DEF SlotBindings, Translation!BoundIds

\* As many bindings as used slots.
LEMMA BindingsCount ==
  ASSUME TypeOK, UniqueWanIds
  PROVE  Cardinality(Translation!BoundIds) = Cardinality(Used)
<1> DEFINE idOf == [s \in Used |-> slots[s].wan_id]
           Ids  == Translation!BoundIds
<1>1. Ids = {id \in WanId : IdInUse(id)}
  BY BoundIdsAreInUse
<1>2. idOf \in [Used -> Ids]
  BY <1>1 DEF IdInUse, TypeOK, Used, Entry
<1>3. idOf \in Surjection(Used, Ids)
  BY <1>1, <1>2 DEF Surjection, IdInUse
<1>4. idOf \in Injection(Used, Ids)
  BY <1>2 DEF Injection, IsInjective, UniqueWanIds
<1>5. ExistsBijection(Used, Ids)
  <2> HIDE DEF idOf, Ids
  <2> QED
    BY <1>3, <1>4 DEF ExistsBijection, Bijection
<1> QED
  BY <1>5, UsedIsFinite, FS_Bijection

--------------------------------------------------------------------------------
\* Steps

LEMMA TouchKeepsBindings ==
  ASSUME IInv, IInv', NEW s \in Used, NEW f \in Flags, Touch(s, f)
  PROVE  Bindings' = Bindings
<1>1. /\ Used' = Used
      /\ \A r \in Used : slots'[r].flow = slots[r].flow /\ slots'[r].wan_id = slots[r].wan_id
  BY TouchKeepsKeys DEF IInv
<1>2. SlotBindings /\ SlotBindings'
  BY BindingsOfSlots, PTL DEF IInv
<1>3. ASSUME NEW id \in WanId
      PROVE  Bindings'[id] = Bindings[id]
  <2>1. CASE IdInUse(id)
    BY <1>1, <1>2, <2>1 DEF SlotBindings, IdInUse
  <2>2. CASE ~IdInUse(id)
    BY <1>1, <1>2, <2>2 DEF SlotBindings, IdInUse
  <2> QED
    BY <2>1, <2>2
<1> QED
  BY <1>3 DEF Bindings

\* The table is full exactly when Cap bindings are held.
LEMMA FullTable == Cardinality(Used) < Cap <=> FreeSlots # {}
<1>1. Used \in SUBSET Slot
  BY DEF Used
<1>2. Cardinality(Used) <= Cap /\ (Cardinality(Used) = Cap => Used = Slot)
  BY <1>1, UsedIsFinite, FS_Subset
<1>3. Used = Slot => Cardinality(Used) = Cap
  BY UsedIsFinite
<1>4. Cardinality(Used) \in Nat /\ Cap \in Nat
  BY UsedIsFinite, ConntrackAssumption
<1> QED
  BY <1>1, <1>2, <1>3, <1>4 DEF FreeSlots

LEMMA NewFlowBinds ==
  ASSUME IInv, IInv', NEW t \in Flow, NEW f \in Flags, OutboundNew(t, f)
  PROVE  \E id \in WanId : Translation!Bind(t, id)
<1> USE DEF IInv
<1>1. PICK k \in Probes, s \in Slot :
        /\ AllocId(k)
        /\ PickSlot(s)
        /\ slots' = [slots EXCEPT ![s] = [flow |-> t, wan_id |-> Probe(k), last_seen |-> now,
                                          tcp |-> NextTcpState("New", f)]]
  BY Zenon DEF OutboundNew
<1> DEFINE id == Probe(k)
           e  == [flow |-> t, wan_id |-> id, last_seen |-> now, tcp |-> NextTcpState("New", f)]
<1>2. id \in WanId /\ ~IdInUse(id)
  <2>1. k \in 0 .. Span
    BY ConntrackAssumption DEF Probes, Span
  <2> QED
    BY <1>1, <2>1, ProbeInRange DEF TypeOK, AllocId
<1>3. e \in Entry /\ e # Free
  <2>1. now \in Nat /\ "New" \in TcpStates
    BY ConntrackAssumption DEF TypeOK, TcpStates
  <2>2. e \in Entry
    BY <1>2, <2>1, NextTcpStateType DEF Entry
  <2> QED
    BY <2>2, ConntrackAssumption
<1>4. /\ Used' = Used \cup {s}
      /\ slots'[s].flow = t /\ slots'[s].wan_id = id
      /\ \A r \in Used : r # s => slots'[r] = slots[r]
  <2>1. slots' = [slots EXCEPT ![s] = e] /\ e.flow = t /\ e.wan_id = id
    BY <1>1
  <2> HIDE DEF e
  <2> QED
    BY <1>3, <2>1 DEF Used, TypeOK
<1>5. SlotBindings /\ SlotBindings'
  BY BindingsOfSlots, PTL
<1>6. t # Free
  BY ConntrackAssumption
<1>7. Translation!Unbound(t)
  <2> SUFFICES ASSUME NEW i \in WanId
               PROVE  Bindings[i] # t
    BY DEF Translation!Unbound
  <2>1. CASE IdInUse(i)
    <3>1. PICK r \in Used : slots[r].wan_id = i
      BY <2>1 DEF IdInUse
    <3>2. slots[r].flow # t
      BY DEF OutboundNew, Holds, Used
    <3> QED
      BY <1>5, <3>1, <3>2 DEF SlotBindings
  <2>2. CASE ~IdInUse(i)
    BY <1>5, <1>6, <2>2 DEF SlotBindings
  <2> QED
    BY <2>1, <2>2
<1> DEFINE victims == IF slots[s] # Free THEN {slots[s].wan_id} ELSE {}
<1>8. victims \in SUBSET Translation!BoundIds
  BY BoundIdsAreInUse DEF IdInUse, Used, TypeOK, Entry
<1>9. Cardinality(victims) = IF Cardinality(Translation!BoundIds) < Cap THEN 0 ELSE 1
  <2>1. slots[s] # Free <=> FreeSlots = {}
    <3>1. FreeSlots # {} => slots[s] = Free
      BY <1>1 DEF PickSlot, FirstOf, FreeSlots, Used
    <3>2. FreeSlots = {} => slots[s] # Free
      BY DEF FreeSlots, Used
    <3> QED
      BY <3>1, <3>2
  <2>2. Cardinality(victims) = IF FreeSlots # {} THEN 0 ELSE 1
    BY <2>1, FS_EmptySet, FS_Singleton
  <2> QED
    BY <2>2, FullTable, BindingsCount
<1>10. ASSUME NEW i \in WanId
       PROVE  Bindings'[i] = IF i = id THEN t ELSE IF i \in victims THEN Free ELSE Bindings[i]
  <2> HIDE DEF e, id
  <2>1. CASE i = id
    BY <1>4, <1>5, <2>1 DEF SlotBindings
  <2>2. CASE i # id /\ i \in victims
    <3>1. \A r \in Used' : slots'[r].wan_id # i
      BY <1>4, <2>2 DEF UniqueWanIds, Used
    <3> QED
      BY <1>5, <2>2, <3>1 DEF SlotBindings, IdInUse
  <2>3. CASE i # id /\ i \notin victims /\ IdInUse(i)
    <3>1. PICK r \in Used : slots[r].wan_id = i
      BY <2>3 DEF IdInUse
    <3>2. r # s
      BY <2>3, <3>1 DEF Used
    <3> QED
      BY <1>4, <1>5, <2>3, <3>1, <3>2 DEF SlotBindings
  <2>4. CASE i # id /\ i \notin victims /\ ~IdInUse(i)
    <3>1. \A r \in Used' : slots'[r].wan_id # i
      BY <1>4, <2>4 DEF IdInUse
    <3> QED
      BY <1>5, <2>4, <3>1 DEF SlotBindings, IdInUse
  <2> QED
    BY <2>1, <2>2, <2>3, <2>4
<1>11. Bindings' = [i \in WanId |-> IF i = id THEN t
                                   ELSE IF i \in victims THEN Free ELSE Bindings[i]]
  BY <1>10 DEF Bindings
<1>12. Bindings[id] = Free
  BY <1>2, <1>5 DEF SlotBindings
<1> HIDE DEF e, id, victims
<1>13. Translation!Cardinality(victims)
         = IF Translation!Cardinality(Translation!BoundIds) < Cap THEN 0 ELSE 1
  BY <1>9, SameCardinality
<1>14. Translation!Bind(t, id)
  BY <1>7, <1>8, <1>11, <1>12, <1>13 DEF Translation!Bind
<1> QED
  BY <1>2, <1>14

LEMMA ReapLapses ==
  ASSUME IInv, IInv', Reap
  PROVE  \E S \in SUBSET Translation!BoundIds : Translation!Lapse(S)
<1> USE DEF IInv
<1> DEFINE S == {id \in WanId : \E s \in Reapable : slots[s].wan_id = id}
<1>1. Reapable \subseteq Used
  BY DEF Reapable, ExpiredSlots
<1>2. Used' = Used \ Reapable /\ \A r \in Used' : slots'[r] = slots[r]
  BY <1>1 DEF Reap, Used, TypeOK
<1>3. S \in SUBSET Translation!BoundIds
  BY <1>1, BoundIdsAreInUse DEF IdInUse
<1>4. SlotBindings /\ SlotBindings'
  BY BindingsOfSlots, PTL
<1>5. ASSUME NEW i \in WanId
      PROVE  Bindings'[i] = IF i \in S THEN Free ELSE Bindings[i]
  <2>1. CASE i \in S
    <3>1. \A r \in Used' : slots'[r].wan_id # i
      BY <1>1, <1>2, <2>1 DEF UniqueWanIds
    <3> QED
      BY <1>4, <2>1, <3>1 DEF SlotBindings, IdInUse
  <2>2. CASE i \notin S /\ IdInUse(i)
    <3>1. PICK r \in Used : slots[r].wan_id = i
      BY <2>2 DEF IdInUse
    <3>2. r \in Used'
      BY <1>2, <2>2, <3>1
    <3> QED
      BY <1>2, <1>4, <2>2, <3>1, <3>2 DEF SlotBindings
  <2>3. CASE i \notin S /\ ~IdInUse(i)
    <3>1. \A r \in Used' : slots'[r].wan_id # i
      BY <1>2, <2>3 DEF IdInUse
    <3> QED
      BY <1>4, <2>3, <3>1 DEF SlotBindings, IdInUse
  <2> QED
    BY <2>1, <2>2, <2>3
<1>6. Bindings' = [i \in WanId |-> IF i \in S THEN Free ELSE Bindings[i]]
  BY <1>5 DEF Bindings
<1> HIDE DEF S
<1> QED
  BY <1>3, <1>6 DEF Translation!Lapse

--------------------------------------------------------------------------------
\* The theorem

LEMMA InitImplements == Init => Translation!Init
<1> SUFFICES ASSUME Init
             PROVE  Translation!Init
  OBVIOUS
<1>1. Used = {}
  BY DEF Init, Used
<1> QED
  BY <1>1 DEF Translation!Init, Bindings, IdInUse

LEMMA StepImplements == IInv /\ IInv' /\ [Next]_vars => [Translation!Next]_Bindings
<1> SUFFICES ASSUME IInv, IInv', [Next]_vars
             PROVE  Translation!Next \/ Bindings' = Bindings
  OBVIOUS
<1>1. ASSUME NEW q \in Used, NEW f \in Flags, Touch(q, f)
      PROVE  Bindings' = Bindings
  BY <1>1, TouchKeepsBindings
<1>2. ASSUME NEW t \in Flow, NEW f \in Flags, OutboundKnown(t, f)
      PROVE  Bindings' = Bindings
  BY <1>1, <1>2 DEF OutboundKnown, FirstOf, Holds, Used
<1>3. ASSUME NEW t \in Flow, NEW f \in Flags, OutboundNew(t, f)
      PROVE  Translation!Next
  BY <1>3, NewFlowBinds DEF Translation!Next
<1>4. ASSUME NEW t \in Flow, NEW id \in WanId, NEW f \in Flags,
             Inbound(t.proto, t.remote, id, f)
      PROVE  Bindings' = Bindings
  BY <1>1, <1>4 DEF Inbound, FirstOf, Used
<1>5. CASE Reap
  BY <1>5, ReapLapses DEF Translation!Next
<1>6. CASE Tick \/ UNCHANGED vars
  BY <1>6 DEF Tick, vars, Bindings, IdInUse, Used
<1> QED
  BY <1>2, <1>3, <1>4, <1>5, <1>6 DEF Next, Outbound

\* Spec => ImplementsTranslation. Whatever slots, cursor and timeouts do, outbound, inbound and
\* reap together behave as the one-to-one set of bindings the forwarder is written against.
THEOREM Refinement == Spec => ImplementsTranslation
BY InitImplements, StepImplements, Invariance, PTL DEF Spec, ImplementsTranslation, Translation!Spec
================================================================================
