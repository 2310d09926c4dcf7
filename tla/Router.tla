--------------------------------- MODULE Router ---------------------------------
(***************************************************************************)
(* Forwarding between the wireless LAN and the 10BASE-T WAN, src/forward.rs *)
(* with the loops of net_task and wan_task in src/wireless.rs: two devices *)
(* that divert transit frames into each other's queue, two neighbor tables *)
(* learned from passing traffic, NAPT on the WAN side and the lease that   *)
(* enables it.                                                             *)
(*                                                                         *)
(* Both tasks share one cooperative executor: a task runs from one await   *)
(* to the next, so a poll and the drain after it are never interleaved     *)
(* with the other task's.  `at` is where the executor is.  What is hard is *)
(* that a frame is classified by one task and leaves by the other, with    *)
(* lease, neighbors and bindings changing in between.                      *)
(*                                                                         *)
(* A flow stands for a LAN client's connection with one WAN endpoint; the  *)
(* connection table is AddressTranslation, which Conntrack implements.  An *)
(* entry that has expired is found by outbound and not by inbound, hence   *)
(* WanLocal beside WanReply.                                               *)
(***************************************************************************)
EXTENDS Integers, Sequences, FiniteSets

CONSTANTS
  Client,      \* LAN hosts
  WanHost,     \* hosts on the WAN side, on its link or beyond the gateway
  Mac,         \* MAC addresses on the WAN link
  Flow,        \* [lan : Client, remote : WanHost]
  Lease,       \* leases the DHCP server may give: [subnet : SUBSET WanHost, gw]
  WanId, NatCap,           \* conntrack's id range and capacity
  None,        \* no host, no lease, no flow, no MAC
  NeighCap,    \* NEIGH_CAP
  ChanDepth,   \* CHAN_DEPTH
  TxCap,       \* cyw43 transmit buffers
  MaxFrames    \* bound: transit frames that arrive

Iface == {"lan", "wan"}

\* l4: TCP, UDP or ICMP echo.  plain: any other protocol.  dying: l4 with its last TTL or a bad
\* header, which egress finds out only after translating it.
Kind == {"l4", "plain", "dying"}

LanFrame == [flow : Flow, kind : Kind]                                        \* LAN to WAN
WanFrame == [to : Client, from : WanHost, id : WanId \cup {None}, kind : Kind] \* WAN to LAN

ASSUME RouterAssumption ==
  /\ Flow \subseteq [lan : Client, remote : WanHost]
  /\ \A l \in Lease : l.subnet \subseteq WanHost /\ l.gw \in l.subnet \cup {None}
  /\ None \notin Client \cup WanHost \cup Mac /\ None \notin Flow /\ None \notin Lease
  /\ None \notin WanId
  /\ {NatCap, NeighCap, ChanDepth, TxCap} \subseteq Nat \ {0} /\ MaxFrames \in Nat

VARIABLES
  at,        \* the executor: idle, or a task's poll or drain phase
  cfg,       \* the WAN device's address, subnet and gateway: a lease once it has had one
  wan,       \* WanState: the lease held now
  prev_gw,   \* wan_task's local
  bound,     \* the connection table
  neigh,     \* LAN_NEIGH and WAN_NEIGH: entries and the next one to overwrite
  chan,      \* LAN_TO_WAN ("lan") and WAN_TO_LAN ("wan"), by the device that fills them
  lanTx,     \* cyw43 transmit buffers in use
  cnt,       \* FWD_SENT, FWD_DROP and its breakdown
  asked,     \* external: the host an unanswered ARP request is for
  seen,      \* history: frames classified as transit or refused
  heard,     \* history: the MAC each WAN host last used while on the leased subnet
  translated \* history: the flows sent out and the ids they were sent under

vars == <<at, cfg, wan, prev_gw, bound, neigh, chan, lanTx, cnt, asked, seen, heard, translated>>
tables == <<bound, neigh, heard, translated>>
lease  == <<cfg, wan, prev_gw, asked>>

Napt == INSTANCE AddressTranslation WITH Cap <- NatCap

--------------------------------------------------------------------------------
\* Neighbor tables

NoNeighbors == [entry |-> <<>>, next |-> 0]

EntriesFor(tab, ip) == {i \in DOMAIN tab.entry : tab.entry[i].ip = ip}
FirstIndex(S) == CHOOSE i \in S : \A j \in S : i <= j

InsertFresh(tab, e) ==
  IF Len(tab.entry) < NeighCap
  THEN [tab EXCEPT !.entry = Append(@, e)]
  ELSE [entry |-> [tab.entry EXCEPT ![tab.next + 1] = e], next |-> (tab.next + 1) % NeighCap]

InsertAlwaysFresh(tab, ip, mac) == InsertFresh(tab, [ip |-> ip, mac |-> mac])
Insert(tab, ip, mac) ==
  LET e == [ip |-> ip, mac |-> mac]
  IN  IF EntriesFor(tab, ip) # {}
      THEN [tab EXCEPT !.entry[FirstIndex(EntriesFor(tab, ip))] = e]
      ELSE InsertFresh(tab, e)

Lookup(tab, ip) ==
  IF EntriesFor(tab, ip) = {} THEN None ELSE tab.entry[FirstIndex(EntriesFor(tab, ip))].mac

\* The WAN subnet is 0.0.0.0/0 until the first lease, so every host is on it.
Subnet    == IF cfg = None THEN WanHost ELSE cfg.subnet
OnLink(h) == cfg # None /\ h \in cfg.subnet

\* learn, at the head of every WAN reception: on-subnet sources, once there is an address.
MayLearnUnleased(h) == h \in Subnet
MayLearn(h) == cfg # None /\ h \in Subnet

LearnWan(h, mac) ==
  /\ neigh' = IF MayLearn(h) THEN [neigh EXCEPT !.wan = Insert(@, h, mac)] ELSE neigh
  /\ heard' = IF OnLink(h) THEN [heard EXCEPT ![h] = mac] ELSE heard
LearnLan(c) ==
  neigh' = [neigh EXCEPT !.lan = Insert(@, c, c)] /\ UNCHANGED heard

--------------------------------------------------------------------------------
\* Counters and queues

Counter == {"sent", "drop", "qfull", "nonh", "txbusy", "other"}

Sent(c)         == [c EXCEPT !.sent = @ + 1]
DropReasonOnly(c, reason) == [c EXCEPT ![reason] = @ + 1]
Drop(c, reason) == [c EXCEPT !.drop = @ + 1, ![reason] = @ + 1]

\* receive: a transit frame is queued for the other task, or dropped when the queue is full.
Divert(dev, f) ==
  /\ seen < MaxFrames /\ seen' = seen + 1
  /\ IF Len(chan[dev]) < ChanDepth
     THEN chan' = [chan EXCEPT ![dev] = Append(@, f)] /\ UNCHANGED cnt
     ELSE cnt' = Drop(cnt, "qfull") /\ UNCHANGED chan

--------------------------------------------------------------------------------
\* net_task: poll the LAN device, then send what the WAN side has queued

LanWake == at = "idle" /\ at' = "lan.poll" /\ UNCHANGED <<lease, tables, chan, lanTx, cnt, seen>>

\* The cyw43 driver hands out a frame only together with a free transmit buffer.
LanTransit(t, k) ==
  /\ at = "lan.poll" /\ lanTx < TxCap
  /\ LearnLan(t.lan)
  /\ Divert("lan", [flow |-> t, kind |-> k])
  /\ UNCHANGED <<at, lease, bound, translated, lanTx>>

\* A frame for the router itself; smoltcp may answer it.
LanLocal(c) ==
  /\ at = "lan.poll" /\ lanTx < TxCap
  /\ LearnLan(c)
  /\ lanTx' \in {lanTx, lanTx + 1}
  /\ UNCHANGED <<at, lease, bound, translated, chan, cnt, seen>>

\* The poll ends with whatever smoltcp's own sockets have to send.
LanPolled ==
  /\ at = "lan.poll" /\ at' = "lan.drain"
  /\ lanTx' \in lanTx .. TxCap
  /\ UNCHANGED <<lease, tables, chan, cnt, seen>>

\* egress on the LAN device: no NAPT, every destination is on the subnet.
LanEgress ==
  /\ at = "lan.drain" /\ chan.wan # <<>>
  /\ LET f == Head(chan.wan)
     IN  CASE f.kind = "dying"                  -> cnt' = Drop(cnt, "other") /\ UNCHANGED lanTx
           [] f.kind # "dying" /\ Lookup(neigh.lan, f.to) = None
                                                -> cnt' = Drop(cnt, "nonh") /\ UNCHANGED lanTx
           [] f.kind # "dying" /\ Lookup(neigh.lan, f.to) # None /\ lanTx = TxCap
                                                -> cnt' = Drop(cnt, "txbusy") /\ UNCHANGED lanTx
           [] OTHER                             -> cnt' = Sent(cnt) /\ lanTx' = lanTx + 1
  /\ chan' = [chan EXCEPT !.wan = Tail(@)]
  /\ UNCHANGED <<at, lease, tables, seen>>

LanSleep == /\ at = "lan.drain" /\ chan.wan = <<>> /\ at' = "idle"
            /\ UNCHANGED <<lease, tables, chan, lanTx, cnt, seen>>

\* The cyw43 runner, external: sends a buffer while both tasks sleep.
CywSend == /\ at = "idle" /\ lanTx > 0 /\ lanTx' = lanTx - 1
           /\ UNCHANGED <<at, lease, tables, chan, cnt, seen>>

--------------------------------------------------------------------------------
\* wan_task: poll the WAN device, follow the lease, then send what the LAN side has queued

WanWake == at = "idle" /\ at' = "wan.poll" /\ UNCHANGED <<lease, tables, chan, lanTx, cnt, seen>>

\* inbound matches the id, the peer and (in Flow) the protocol.
ForAnyPeer(id, h)    == bound[id] # None
FromBoundPeer(id, h) == bound[id] # None /\ bound[id].remote = h

\* A frame for our address that matches a live flow: to its client.
WanReply(h, mac, id, k) ==
  /\ at = "wan.poll" /\ cfg # None /\ k # "plain"
  /\ FromBoundPeer(id, h)
  /\ LearnWan(h, mac)
  /\ Divert("wan", [to |-> bound[id].lan, from |-> h, id |-> id, kind |-> k])
  /\ UNCHANGED <<at, lease, bound, translated, lanTx>>

\* A frame for a LAN address passes the ingress filter as it is.
WanDirect(h, mac, c, k) ==
  /\ at = "wan.poll" /\ cfg # None
  /\ LearnWan(h, mac)
  /\ Divert("wan", [to |-> c, from |-> h, id |-> None, kind |-> k])
  /\ UNCHANGED <<at, lease, bound, translated, lanTx>>

\* A frame for any other address is refused.
WanForeign(h, mac) ==
  /\ at = "wan.poll" /\ cfg # None
  /\ LearnWan(h, mac)
  /\ seen < MaxFrames /\ seen' = seen + 1
  /\ cnt' = Drop(cnt, "other")
  /\ UNCHANGED <<at, lease, bound, translated, chan, lanTx>>

\* ARP, broadcast, a frame for our own stack, a reply that matches no live flow, and
\* everything before the first lease.  It may answer the request that is out.
WanLocal(h, mac) ==
  /\ at = "wan.poll"
  /\ LearnWan(h, mac)
  /\ asked' \in {asked, IF asked = h THEN None ELSE asked}
  /\ UNCHANGED <<at, cfg, wan, prev_gw, bound, translated, chan, lanTx, cnt, seen>>

GatewayOf(l) == IF l = None THEN None ELSE l.gw
Known(gw) == Lookup(neigh.wan, gw) # None

\* A new gateway is asked for at once, an unknown one again each second.
ArpOnNew(gw, due) == gw # prev_gw
ArpNow(gw, due)   == gw # prev_gw \/ (due /\ ~Known(gw))

\* From the end of the poll to the drain: the lease l that dhcp_apply leaves (the one before,
\* a new one, or none once it is lost), ARP for the gateway and, once a second, nat_reap. The
\* device keeps its old address and gateway when the lease is lost.  The request may be lost.
WanApply(l, due, lost) ==
  /\ at = "wan.poll" /\ at' = "wan.drain"
  /\ wan' = l
  /\ cfg' = IF l # None THEN l ELSE cfg
  /\ prev_gw' = GatewayOf(l)
  /\ asked' = IF GatewayOf(l) # None /\ ArpNow(GatewayOf(l), due) /\ ~lost
              THEN GatewayOf(l) ELSE asked
  /\ \/ UNCHANGED bound
     \/ due /\ \E S \in SUBSET Napt!BoundIds : Napt!Lapse(S)
  /\ UNCHANGED <<neigh, heard, translated, chan, lanTx, cnt, seen>>

NextHop(h) == IF h \in Subnet THEN h ELSE GatewayOf(cfg)

\* outbound: the flow's id, or a new binding.  It always succeeds (Conntrack's AllocSucceeds).
Translate(t) ==
  \E id \in WanId :
    /\ \/ bound[id] = t /\ UNCHANGED bound
       \/ Napt!Bind(t, id)
    /\ translated' = translated \cup {<<t, id>>}

\* egress on the WAN device: NAPT first, whatever becomes of the frame; then TTL, next hop and
\* its MAC.  The 10BASE-T transmitter is never busy.
WanEgress ==
  /\ at = "wan.drain" /\ chan.lan # <<>>
  /\ LET f  == Head(chan.lan)
         nh == NextHop(f.flow.remote)
     IN  /\ IF f.kind = "plain" THEN UNCHANGED <<bound, translated>> ELSE Translate(f.flow)
         /\ cnt' = CASE f.kind = "dying" -> Drop(cnt, "other")
                     [] f.kind # "dying" /\ (nh = None \/ ~Known(nh)) -> Drop(cnt, "nonh")
                     [] OTHER -> Sent(cnt)
  /\ chan' = [chan EXCEPT !.lan = Tail(@)]
  /\ UNCHANGED <<at, lease, neigh, heard, lanTx, seen>>

WanSleep == /\ at = "wan.drain" /\ chan.lan = <<>> /\ at' = "idle"
            /\ UNCHANGED <<lease, tables, chan, lanTx, cnt, seen>>

--------------------------------------------------------------------------------

Init ==
  /\ at = "idle"
  /\ cfg = None /\ wan = None /\ prev_gw = None /\ asked = None
  /\ bound = [id \in WanId |-> None]
  /\ neigh = [i \in Iface |-> NoNeighbors]
  /\ chan = [i \in Iface |-> <<>>]
  /\ lanTx = 0
  /\ cnt = [c \in Counter |-> 0]
  /\ seen = 0
  /\ heard = [h \in WanHost |-> None]
  /\ translated = {}

LanTask ==
  \/ LanWake \/ LanPolled \/ LanEgress \/ LanSleep
  \/ \E t \in Flow, k \in Kind : LanTransit(t, k)
  \/ \E c \in Client : LanLocal(c)

WanTask ==
  \/ WanWake \/ WanEgress \/ WanSleep
  \/ \E h \in WanHost, m \in Mac :
       \/ \E id \in WanId, k \in Kind : WanReply(h, m, id, k)
       \/ \E c \in Client, k \in Kind : WanDirect(h, m, c, k)
       \/ WanForeign(h, m)
       \/ WanLocal(h, m)
  \/ \E l \in Lease \cup {None}, due, lost \in BOOLEAN : WanApply(l, due, lost)

Next == LanTask \/ WanTask \/ CywSend

Spec == Init /\ [][Next]_vars

(***************************************************************************)
(* The executor polls every task whose timer has fired, polls come to an   *)
(* end, next_ping falls due once a second, not every request is lost, and  *)
(* a gateway that is asked again and again answers.                        *)
(***************************************************************************)
SecondPasses   == \E l \in Lease \cup {None} : WanApply(l, TRUE, FALSE)
GatewayAnswers == asked # None /\ \E m \in Mac : WanLocal(asked, m) /\ asked' = None

Fairness ==
  /\ SF_vars(WanWake) /\ SF_vars(SecondPasses) /\ WF_vars(WanEgress) /\ WF_vars(WanSleep)
  /\ SF_vars(LanWake) /\ WF_vars(LanPolled) /\ WF_vars(LanEgress) /\ WF_vars(LanSleep)
  /\ SF_vars(GatewayAnswers)
FairSpec == Spec /\ Fairness

--------------------------------------------------------------------------------
\* Properties

NeighTable(I, M) == [entry : Seq([ip : I, mac : M]), next : 0 .. NeighCap - 1]

TypeOK ==
  /\ at \in {"idle", "lan.poll", "lan.drain", "wan.poll", "wan.drain"}
  /\ {cfg, wan} \subseteq Lease \cup {None}
  /\ {prev_gw, asked} \subseteq WanHost \cup {None}
  /\ bound \in [WanId -> Flow \cup {None}]
  /\ neigh \in [Iface -> NeighTable(Client, Client) \cup NeighTable(WanHost, Mac)]
  /\ neigh.lan \in NeighTable(Client, Client) /\ neigh.wan \in NeighTable(WanHost, Mac)
  /\ \A i \in Iface : Len(neigh[i].entry) <= NeighCap
  /\ chan \in [Iface -> Seq(LanFrame) \cup Seq(WanFrame)]
  /\ chan.lan \in Seq(LanFrame) /\ chan.wan \in Seq(WanFrame)
  /\ \A i \in Iface : Len(chan[i]) <= ChanDepth
  /\ lanTx \in 0 .. TxCap
  /\ cnt \in [Counter -> 0 .. MaxFrames]
  /\ seen \in 0 .. MaxFrames
  /\ heard \in [WanHost -> Mac \cup {None}]
  /\ translated \subseteq Flow \X WanId

\* Every transit frame is sent, dropped or still queued, and is counted once; FWD_DROP is the
\* sum of its breakdown. egress has five ways out and receive three.
FramesAccounted ==
  /\ TypeOK
  /\ seen = cnt.sent + cnt.drop + Len(chan.lan) + Len(chan.wan)
  /\ cnt.drop = cnt.qfull + cnt.nonh + cnt.txbusy + cnt.other

\* No translated frame leaves with source 0.0.0.0, although egress runs, translates and looks
\* for a next hop before there is a lease: all that stops it is that nothing was learned.
MaskedSource ==
  [][/\ at = "wan.drain" /\ cnt'.sent > cnt.sent
     /\ Head(chan.lan).kind # "plain"
     => cfg # None]_vars

\* A frame that was translated on its way in goes to a client that has sent to that very peer
\* under that very id, also when the binding has lapsed while the frame was queued.
RightClient ==
  \A f \in {chan.wan[i] : i \in DOMAIN chan.wan} :
    f.id # None => \E t \in Flow : t.lan = f.to /\ t.remote = f.from /\ <<t, f.id>> \in translated

\* Traffic is sent to the MAC its next hop used last while on our subnet, across overwritten
\* entries, changed MACs and changed leases: never to an older one, nor to a gateway's MAC
\* taken for a host's.
NeighborsCurrent == \A h \in WanHost : Lookup(neigh.wan, h) \in {None, heard[h]}

\* While a lease is held its gateway does not stay unknown, though subnet chatter may overwrite
\* its entry at any time.
GatewayRelearned ==
  \A l \in Lease : wan = l /\ l.gw # None /\ ~Known(l.gw) ~> wan # l \/ Known(l.gw)
================================================================================
