------------------------------- MODULE Conntrack -------------------------------
(***************************************************************************)
(* The NAPT connection-tracking table of the router, src/conntrack.rs:     *)
(* a fixed array of slots, a rolling WAN-id cursor, per-protocol idle      *)
(* timeouts and three entry points.                                        *)
(*                                                                         *)
(*   outbound  a LAN frame on its way out: find or create its flow         *)
(*   inbound   a WAN frame: match it to a live flow, or to nothing         *)
(*   reap      the once-a-second sweep of idle flows                       *)
(*                                                                         *)
(* The table is owned by one task, so every entry point is one atomic      *)
(* action; what is hard is the order in which LAN traffic, late replies,   *)
(* the sweep and the clock meet.  Addresses and ports are opaque: a flow   *)
(* is a member of the set Flow, keyed by protocol, LAN endpoint (ip, id)   *)
(* and WAN peer (ip, id).  A free slot is the value Free: `used = false`   *)
(* hides every other field of an entry from the code.                      *)
(***************************************************************************)
EXTENDS Integers, FiniteSets, Sequences

CONSTANTS
  Flow,          \* the LAN-side 5-tuples that occur
  Cap,           \* CT_CAP, slots in the table
  NatLo, NatHi,  \* the WAN id range handed out
  TTcpEst, TTcpTrans, TUdp, TIcmp,  \* idle timeouts
  Free,          \* an unused slot
  MaxNow         \* bound: the clock stops here

Protos    == {"tcp", "udp", "icmp"}
TcpStates == {"New", "Established", "Closing"}
Flags     == {"fin", "syn", "ack"}   \* FIN or RST; SYN without them; neither
Slot      == 0 .. Cap - 1
WanId     == NatLo .. NatHi
Span      == NatHi - NatLo + 1

Entry == [flow : Flow, wan_id : WanId, last_seen : Nat, tcp : TcpStates]

ASSUME ConntrackAssumption ==
  /\ Cap \in Nat \ {0}
  /\ NatLo \in Nat /\ NatHi \in Nat
  /\ Cap < Span
  /\ {TTcpEst, TTcpTrans, TUdp, TIcmp} \subseteq Nat \ {0}
  /\ MaxNow \in Nat
  /\ Free \notin Entry /\ Free \notin Flow
  /\ \A t \in Flow : t.proto \in Protos

VARIABLES
  slots,      \* the table
  cursor,     \* next WAN id to probe
  nat_live,   \* the NAT_LIVE gauge
  now,        \* milliseconds since boot, in ticks
  owner,      \* history: the flow each WAN id was last sent under
  recent      \* history: the latest ids allocated, at most Window of them

vars == <<slots, cursor, nat_live, now, owner, recent>>

(***************************************************************************)
(* Window consecutive allocations is what the rolling cursor promises to   *)
(* keep distinct: one lap of the range, less the ids a full table holds.   *)
(***************************************************************************)
Window == Span - Cap + 1

--------------------------------------------------------------------------------
\* Entries

TimeoutMs(e) ==
  CASE e.flow.proto = "udp"  -> TUdp
    [] e.flow.proto = "icmp" -> TIcmp
    [] OTHER -> IF e.tcp = "Established" THEN TTcpEst ELSE TTcpTrans

Idle(e) == IF now >= e.last_seen THEN now - e.last_seen ELSE 0

Used       == {s \in Slot : slots[s] # Free}
Expired(s) == slots[s] # Free /\ Idle(slots[s]) >= TimeoutMs(slots[s])

NextTcpState(cur, f) ==
  CASE f = "fin" -> "Closing"
    [] f = "syn" -> IF cur = "Closing" THEN "Closing" ELSE "New"
    [] OTHER     -> "Established"

--------------------------------------------------------------------------------
\* Allocation of WAN ids and of slots

\* The id the cursor reaches after k steps of the wrap-around probe, 0 <= k <= Span.
ProbeNoWrap(k)    == cursor + k
ProbeFromStart(k) == IF k = Span THEN NatLo ELSE NatLo + k
Probe(k) == IF cursor + k <= NatHi THEN cursor + k ELSE cursor + k - Span

IdInUseFirstSlot(id) == 0 \in Used /\ slots[0].wan_id = id
IdInUse(id) == \E s \in Used : slots[s].wan_id = id

ProbeOnce == {0}
Probes        == 0 .. Span - 1

\* alloc_id succeeds at probe k: every id before it is taken, this one is not.
AllocId(k) ==
  /\ k \in Probes
  /\ ~IdInUse(Probe(k))
  /\ \A j \in 0 .. k - 1 : IdInUse(Probe(j))

FreeSlots    == Slot \ Used
ExpiredSlots == {s \in Used : Expired(s)}
OldestSlots  == {s \in Used : \A r \in Used : slots[s].last_seen <= slots[r].last_seen}

\* The first member of a set of slots, in table order.
FirstOf(S, s) == s \in S /\ \A r \in S : s <= r

\* A free slot, else an expired one, else the least recently used.
PickSlotLruOnly(s) ==
  IF FreeSlots # {} THEN FirstOf(FreeSlots, s) ELSE FirstOf(OldestSlots, s)
PickSlot(s) ==
  IF FreeSlots # {} THEN FirstOf(FreeSlots, s)
  ELSE IF ExpiredSlots # {} THEN FirstOf(ExpiredSlots, s)
  ELSE FirstOf(OldestSlots, s)

--------------------------------------------------------------------------------
\* The entry points

\* A refresh never depends on whether the entry has expired.
Touch(s, f) ==
  slots' = [slots EXCEPT ![s] = [flow |-> slots[s].flow, wan_id |-> slots[s].wan_id,
                                 last_seen |-> now, tcp |-> NextTcpState(slots[s].tcp, f)]]

\* outbound on a known flow, expired or not: refresh it, keep its id.
HoldsLanSide(s, t)   == slots[s] # Free /\ slots[s].flow.lan = t.lan
HoldsUnexpired(s, t) == slots[s] # Free /\ slots[s].flow = t /\ ~Expired(s)
Holds(s, t)          == slots[s] # Free /\ slots[s].flow = t

OutboundKnown(t, f) ==
  \E s \in Slot :
    /\ FirstOf({r \in Slot : Holds(r, t)}, s)
    /\ Touch(s, f)
    /\ owner' = [owner EXCEPT ![slots[s].wan_id] = t]
    /\ UNCHANGED <<cursor, nat_live, now, recent>>

\* NAT_LIVE counts a slot that was not in use before; an eviction leaves it alone.
CountLiveAlways(s) == nat_live' = nat_live + 1
CountLive(s) == nat_live' = IF slots[s] = Free THEN nat_live + 1 ELSE nat_live

\* outbound on a new flow: a WAN id, then a slot, whose entry (if any) is overwritten.
\* When no id is free the frame is dropped and the table is left as it was.
OutboundNew(t, f) ==
  /\ \A s \in Slot : ~Holds(s, t)
  /\ \E k \in Probes, s \in Slot :
       /\ AllocId(k)
       /\ PickSlot(s)
       /\ cursor' = Probe(k + 1)
       /\ slots' = [slots EXCEPT ![s] = [flow |-> t, wan_id |-> Probe(k), last_seen |-> now,
                                         tcp |-> NextTcpState("New", f)]]
       /\ CountLive(s)
       /\ owner' = [owner EXCEPT ![Probe(k)] = t]
       /\ recent' = LET r == Append(recent, Probe(k))
                    IN  IF Len(r) > Window THEN Tail(r) ELSE r
       /\ UNCHANGED now

Outbound(t, f) == OutboundKnown(t, f) \/ OutboundNew(t, f)

\* inbound: a reply from `remote` to WAN id `id` refreshes the live flow it belongs to.
\* A miss changes nothing.
Inbound(proto, remote, id, f) ==
  \E s \in Slot :
    /\ FirstOf({r \in Used : /\ slots[r].flow.proto = proto
                             /\ slots[r].flow.remote = remote
                             /\ slots[r].wan_id = id
                             /\ ~Expired(r)}, s)
    /\ Touch(s, f)
    /\ UNCHANGED <<cursor, nat_live, now, owner, recent>>

\* reap: one sweep over the whole table.
ReapableButLast == ExpiredSlots \ {Cap - 1}
Reapable        == ExpiredSlots

Reap ==
  /\ slots' = [s \in Slot |-> IF s \in Reapable THEN Free ELSE slots[s]]
  /\ nat_live' = nat_live - Cardinality(Reapable)
  /\ UNCHANGED <<cursor, now, owner, recent>>

\* The millisecond clock, monotonic across the task's calls; MaxNow bounds it.
Tick == now < MaxNow /\ now' = now + 1 /\ UNCHANGED <<slots, cursor, nat_live, owner, recent>>

Init ==
  /\ slots = [s \in Slot |-> Free]
  /\ cursor = NatLo
  /\ nat_live = 0
  /\ now = 0
  /\ owner = [id \in WanId |-> Free]
  /\ recent = <<>>

Next ==
  \/ \E t \in Flow, f \in Flags : Outbound(t, f)
  \/ \E t \in Flow, id \in WanId, f \in Flags : Inbound(t.proto, t.remote, id, f)
  \/ Reap
  \/ Tick

Spec == Init /\ [][Next]_vars

\* wan_task calls reap once a second for ever, whatever the traffic does.
FairSpec == Spec /\ WF_vars(Reap)

--------------------------------------------------------------------------------
\* Properties

TypeOK ==
  /\ slots \in [Slot -> Entry \cup {Free}]
  /\ cursor \in WanId
  /\ nat_live \in 0 .. Cap
  /\ now \in 0 .. MaxNow
  /\ owner \in [WanId -> Flow \cup {Free}]
  /\ recent \in Seq(WanId) /\ Len(recent) <= Window

\* No two live flows share a WAN id, so a reply's id names one LAN client: what alloc_id's
\* probe against every used slot, expired ones included, has to guarantee.
UniqueWanIds ==
  \A r, s \in Used : r # s => slots[r].wan_id # slots[s].wan_id

\* A LAN 5-tuple has at most one entry: outbound finds an entry before it creates one, and an
\* idle entry that no sweep has freed yet still counts.
UniqueFlows ==
  \A r, s \in Used : r # s => slots[r].flow # slots[s].flow

\* The flow a slot translates replies to is the flow the WAN last saw under that id. A reply
\* is never rewritten to a client other than the one that sent from its id most recently.
OwnerExact ==
  \A s \in Used : owner[slots[s].wan_id] = slots[s].flow

\* NAT_LIVE, kept by increments and decrements scattered over three functions, is the number
\* of used slots.
LiveGauge == nat_live = Cardinality(Used)

\* The rolling cursor quarantines ids: among any Window consecutive allocations no id occurs
\* twice. Within that distance a late reply to an evicted flow is not taken for a new flow's;
\* nothing in the code keeps it so beyond.
IdQuarantine ==
  \A i, j \in DOMAIN recent : i # j => recent[i] # recent[j]

\* The id space never runs out: with fewer slots than ids, outbound's probe always finds one
\* and the NAT_DROP path is dead.
AllocSucceeds == \E k \in 0 .. Span - 1 : AllocId(k)

\* A live flow loses its slot only to a newcomer that found the table full of live flows, all
\* used no earlier than it.
LosesItsSlot(s) == \A r \in Slot : slots'[r] # Free => slots'[r].flow # slots[s].flow
StalestOfAll(s) == \A r \in Slot : /\ slots[r] # Free
                                   /\ ~Expired(r)
                                   /\ slots[s].last_seen <= slots[r].last_seen
EvictionIsFair == \A s \in Used : ~Expired(s) /\ LosesItsSlot(s) => StalestOfAll(s)
EvictsOnlyTheStalest == [][EvictionIsFair]_vars

\* An idle flow does not keep its slot for ever: it is freed, replaced or used again.
IdleFlowsFreed == \A s \in Slot : Expired(s) ~> ~Expired(s)

\* The table implements the bindings the forwarder relies on (AddressTranslation): forgetting
\* slots, order, clock and timeouts, each entry point makes one binding, lets some lapse, or
\* changes none.
Bindings ==
  [id \in WanId |-> IF IdInUse(id) THEN slots[CHOOSE s \in Used : slots[s].wan_id = id].flow
                    ELSE Free]
Translation == INSTANCE AddressTranslation WITH bound <- Bindings, None <- Free
ImplementsTranslation == Translation!Spec

\* A flow that has seen FIN or RST stays on the closing timeout while it lives. The code
\* does not do this: see ClosingSticky's run.
ClosingSticky ==
  [][\A s \in Used :
       /\ slots[s].flow.proto = "tcp" /\ slots[s].tcp = "Closing"
       /\ slots'[s] # Free /\ slots'[s].wan_id = slots[s].wan_id
       => slots'[s].tcp = "Closing"]_vars
================================================================================
