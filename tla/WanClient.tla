------------------------------- MODULE WanClient -------------------------------
(***************************************************************************)
(* The WAN client of src/wan.rs: what one poll of its loop makes of the    *)
(* DHCP lease, the ping probe and the DNS probe.  smoltcp is external: a   *)
(* DHCP client that reports a configuration only when it changed, a DNS    *)
(* socket with a fixed number of query slots, each taken from start_query  *)
(* until get_query_result frees it, and an ICMP socket.  The interface's   *)
(* address and default route are set with wan.addr and wan.gw and are not  *)
(* kept twice.                                                             *)
(*                                                                         *)
(* The hard part: a query's slot, its handle in WanState and the servers   *)
(* it was started under live in three places that a lease event changes    *)
(* while the query, or an echo, is still in flight.                        *)
(***************************************************************************)
EXTENDS Naturals, Sequences, FiniteSets

CONSTANTS
  Lease,     \* leases the WAN may give: [addr, gw, servers : a sequence]
  None,      \* no lease, address, gateway, server or query
  Slot,      \* the DNS socket's query slots
  EchoRoom,  \* requests the ICMP socket queues
  MaxPings   \* bound: echoes sent since the last reset, with those a reset forgot

Addr == {l.addr : l \in Lease}
Servers == {l.servers : l \in Lease} \cup {<<>>}
Query == [state : {"pending", "done", "failed"}, under : Servers]

ASSUME WanAssumption ==
  /\ None \notin Lease /\ None \notin Slot /\ None \notin Query
  /\ \A l \in Lease : l.addr # None /\ None \notin {l.servers[i] : i \in DOMAIN l.servers}
  /\ IsFiniteSet(Slot) /\ {EchoRoom, MaxPings} \subseteq Nat

First(s) == IF s = <<>> THEN None ELSE Head(s)

VARIABLES
  dhcp,    \* the dhcpv4 socket: lease held, and whether that is yet to be reported
  dns,     \* the dns socket: servers, and each slot free (None) or [state, servers it started under]
  icmp,    \* echoes queued to send, under way by source address, and replies to read
  wan,     \* WanState
  carried  \* history: echoes unanswered when WanState was last reset

wanVars == <<dhcp, dns, icmp, wan, carried>>

WanNew == [addr |-> None, gw |-> None, dns0 |-> None, ping_sent |-> 0, ping_ok |-> 0,
           dns_query |-> None, resolved |-> FALSE]

WanInit ==
  /\ dhcp = [lease |-> None, changed |-> TRUE]
  /\ dns = [servers |-> <<>>, slot |-> [i \in Slot |-> None]]
  /\ icmp = [tx |-> 0, out |-> [a \in Addr |-> 0], rx |-> 0]
  /\ wan = WanNew
  /\ carried = 0

\* Echoes that may still raise ping_ok; those under way are told apart by source and number.
UnderWay(i) == {e \in Addr \X (1 .. MaxPings) : e[2] <= i.out[e[1]]}
Unanswered(i) == i.tx + i.rx + Cardinality(UnderWay(i))

(***************************************************************************)
(* One poll.  Each operator takes and returns the client's part of the     *)
(* state, s: [wan, dns, icmp, carried].                                    *)
(***************************************************************************)
Deconfigured(s) ==
  [s EXCEPT !.wan = WanNew, !.dns.servers = <<>>, !.carried = Unanswered(s.icmp)]

ConfiguredInFlight(s, l) ==
  [s EXCEPT !.dns.servers = l.servers,
            !.wan = [s.wan EXCEPT !.addr = l.addr, !.gw = l.gw, !.dns0 = First(l.servers)]]

Configured(s, l) ==
  [s EXCEPT !.dns.servers = l.servers,
            !.wan = [s.wan EXCEPT !.addr = l.addr, !.gw = l.gw, !.dns0 = First(l.servers),
                                  !.dns_query = None]]

dhcp_apply(s) ==
  IF ~dhcp.changed THEN s
  ELSE IF dhcp.lease = None THEN Deconfigured(s) ELSE Configured(s, dhcp.lease)

ping_drain(s) == [s EXCEPT !.wan.ping_ok = @ + s.icmp.rx, !.icmp.rx = 0]

dns_harvestNoFree(s) ==
  LET q == s.wan.dns_query IN
  IF q = None \/ s.dns.slot[q].state = "pending" THEN s ELSE [s EXCEPT !.wan.dns_query = None]

dns_harvestDone(s) ==
  LET q == s.wan.dns_query IN
  IF q = None \/ s.dns.slot[q].state # "done" THEN s
  ELSE [s EXCEPT !.wan.dns_query = None, !.dns.slot[q] = None, !.wan.resolved = TRUE]

dns_harvest(s) ==
  LET q == s.wan.dns_query IN
  IF q = None \/ s.dns.slot[q].state = "pending" THEN s
  ELSE [s EXCEPT !.wan.dns_query = None, !.dns.slot[q] = None,
                 !.wan.resolved = IF s.dns.slot[q].state = "done" THEN TRUE ELSE @]

ping_sendUncounted(s) == IF s.icmp.tx >= EchoRoom THEN s ELSE [s EXCEPT !.icmp.tx = @ + 1]

ping_send(s) ==
  IF s.icmp.tx >= EchoRoom \/ s.wan.ping_sent + s.carried >= MaxPings THEN s
  ELSE [s EXCEPT !.icmp.tx = @ + 1, !.wan.ping_sent = @ + 1]

\* start_query takes the first free slot.  Which one does not matter, CHOOSE does.
dns_start(s) ==
  LET free == {i \in Slot : s.dns.slot[i] = None}
      i == CHOOSE j \in free : TRUE IN
  IF s.wan.dns_query # None \/ s.wan.dns0 = None \/ free = {} THEN s
  ELSE [s EXCEPT !.wan.dns_query = i,
                 !.dns.slot[i] = [state |-> "pending", under |-> s.dns.servers]]

\* Once a second, and only with a lease.
Probe(s, second) == IF second /\ s.wan.addr # None THEN dns_start(ping_send(s)) ELSE s

WanPoll(second) ==
  LET s == [wan |-> wan, dns |-> dns, icmp |-> icmp, carried |-> carried]
      t == Probe(dns_harvest(ping_drain(dhcp_apply(s))), second) IN
  /\ wan' = t.wan /\ dns' = t.dns /\ icmp' = t.icmp /\ carried' = t.carried
  /\ dhcp' = [dhcp EXCEPT !.changed = FALSE]

(***************************************************************************)
(* What iface.poll makes of the wire and of time.                          *)
(***************************************************************************)
\* An ACK, first or renewing: reported when it differs from the lease held.
DhcpAck(l) ==
  /\ dhcp' = [lease |-> l, changed |-> dhcp.changed \/ l # dhcp.lease]
  /\ UNCHANGED <<dns, icmp, wan, carried>>

\* A NAK, or the lease ran out.
DhcpLost ==
  /\ dhcp.lease # None
  /\ dhcp' = [lease |-> None, changed |-> TRUE]
  /\ UNCHANGED <<dns, icmp, wan, carried>>

\* A reply is accepted from any of the current servers.
DnsEnds(i, how) ==
  /\ dns.slot[i] # None /\ dns.slot[i].state = "pending"
  /\ how = "done" => dns.servers # <<>>
  /\ dns' = [dns EXCEPT !.slot[i].state = how]
  /\ UNCHANGED <<dhcp, icmp, wan, carried>>

\* The request leaves with the interface's address, or is dropped for want of one.
EchoLeaves ==
  /\ icmp.tx > 0
  /\ icmp' = IF wan.addr = None THEN [icmp EXCEPT !.tx = @ - 1]
             ELSE [icmp EXCEPT !.tx = @ - 1, !.out[wan.addr] = @ + 1]
  /\ UNCHANGED <<dhcp, dns, wan, carried>>

\* The reply arrives and is taken if it is addressed to the interface, or it is lost.
EchoEnds(a, taken) ==
  /\ icmp.out[a] > 0
  /\ taken => wan.addr = a
  /\ icmp' = [icmp EXCEPT !.out[a] = @ - 1, !.rx = IF taken THEN @ + 1 ELSE @]
  /\ UNCHANGED <<dhcp, dns, wan, carried>>

\* offered: the leases there are.
WanEnv(offered) ==
  \/ \E l \in offered : DhcpAck(l)
  \/ DhcpLost
  \/ \E i \in Slot, how \in {"done", "failed"} : DnsEnds(i, how)
  \/ EchoLeaves
  \/ \E a \in Addr, taken \in BOOLEAN : EchoEnds(a, taken)

(***************************************************************************)
(* Correctness                                                             *)
(***************************************************************************)
WanTypeOK ==
  /\ dhcp \in [lease : Lease \cup {None}, changed : BOOLEAN]
  /\ dns.servers \in Servers
  /\ dns.slot \in [Slot -> {None} \cup Query]
  /\ icmp \in [tx : 0 .. MaxPings, out : [Addr -> 0 .. MaxPings], rx : 0 .. MaxPings]
  /\ wan \in [addr : Addr \cup {None}, gw : {l.gw : l \in Lease} \cup {None},
              dns0 : {First(s) : s \in Servers}, ping_sent : 0 .. MaxPings, ping_ok : 0 .. MaxPings,
              dns_query : Slot \cup {None}, resolved : BOOLEAN]
  /\ carried \in 0 .. MaxPings

\* Slots nobody will ever harvest: get_query_result is the only way to free one.
Leaked == {i \in Slot : dns.slot[i] # None /\ wan.dns_query # i}

\* The handle in WanState never dangles (get_query_result on a free slot panics) and the query it
\* names was asked under the servers of the lease held now; without a lease nothing is in flight
\* and nothing is shown as resolved.  (dhcp_apply, dns_start, dns_harvest)
QueryIsOurs ==
  /\ wan.dns_query # None =>
       /\ dns.slot[wan.dns_query] # None
       /\ dns.slot[wan.dns_query].under = dns.servers
  /\ wan.addr = None => wan.dns_query = None /\ ~wan.resolved
  /\ wan.dns0 = First(dns.servers)

\* A reply is counted once: what ping_ok has and what can still come never exceed the requests
\* counted in ping_sent and those a reset of WanState forgot (the status line may then read
\* ping=1/0).  (ping_send, ping_drain and the reset in dhcp_apply)
PingBalance ==
  /\ WanTypeOK
  /\ wan.ping_ok + Unanswered(icmp) <= wan.ping_sent + carried

\* A query slot is abandoned only by a lease event, one per event, and then for good.
\* (dhcp_apply forgets the handle, no call frees the slot)
LeaksOnlyOnLeaseEvent ==
  [][Leaked' # Leaked => /\ dhcp.changed /\ Leaked \subseteq Leaked'
                         /\ Cardinality(Leaked') = Cardinality(Leaked) + 1]_wanVars

\* A query of the client's own is on the wire; there can be none without a resolver or a slot.
ProbeUnderWay ==
  \/ wan.dns0 = None \/ Leaked = Slot
  \/ wan.dns_query # None /\ dns.slot[wan.dns_query].state = "pending"
================================================================================
