---------------------------- MODULE ServicesProofs ----------------------------
(***************************************************************************)
(* The WAN client and the LAN's DHCP server, in every build that has them. *)
(* The client's query handle never dangles and never survives the servers  *)
(* it was asked under (WanInv), its echoes are counted once (PingInv), and *)
(* no two clients of the LAN share an address (LanInv), for all leases,    *)
(* slots, clients, pools, queues and interleavings.                        *)
(*                                                                         *)
(* One poll of the server answers a batch of requests and one pass of the  *)
(* radio delivers a queue of replies: both are recursive functions, and    *)
(* what they end with is shown by induction over a set of numbers.         *)
(***************************************************************************)
EXTENDS Services, FiniteSetTheorems, WellFoundedInduction, TLAPS

Wan == [addr : Addr \cup {None}, gw : {l.gw : l \in Lease} \cup {None},
        dns0 : {First(q) : q \in Servers}, ping_sent : Nat, ping_ok : Nat,
        dns_query : Slot \cup {None}, resolved : BOOLEAN]
Dns == [servers : Servers, slot : [Slot -> {None} \cup Query]]
Icmp == [tx : Nat, out : [Addr -> Nat], rx : Nat]

\* What one operator of WanPoll takes and returns
IsClient(s) == s \in [wan : Wan, dns : Dns, icmp : Icmp, carried : {s.carried}]

\* QueryIsOurs of the client's state w and the socket's d
HandleGood(w, d) ==
  /\ w.dns_query # None =>
       /\ d.slot[w.dns_query] # None
       /\ d.slot[w.dns_query].under = d.servers
  /\ w.addr = None => w.dns_query = None /\ ~w.resolved
  /\ w.dns0 = First(d.servers)

\* Slots in use that the client's handle does not name
LeakedIn(w, d) == {i \in Slot : d.slot[i] # None /\ w.dns_query # i}

WanInv ==
  /\ dhcp \in [lease : Lease \cup {None}, changed : BOOLEAN]
  /\ wan \in Wan /\ dns \in Dns /\ icmp \in Icmp
  /\ HandleGood(wan, dns)

--------------------------------------------------------------------------------
\* One poll, operator by operator: each keeps the handle good, and says what it leaks.

LEMMA LeaseFacts ==
  ASSUME NEW l \in Lease
  PROVE  l.addr # None /\ l.servers \in Servers
BY WanAssumption DEF Servers

\* A client t put together from its parts
IsMade(t, w, d, i) == t \in [wan : {w}, dns : {d}, icmp : {i}, carried : {t.carried}]

LEMMA MadeGood ==
  ASSUME NEW t, NEW w \in Wan, NEW d \in Dns, NEW i \in Icmp, IsMade(t, w, d, i), HandleGood(w, d)
  PROVE  IsClient(t) /\ HandleGood(t.wan, t.dns) /\ LeakedIn(t.wan, t.dns) = LeakedIn(w, d) /\ t.wan = w
<1>1. IsClient(t)
  BY DEF IsClient, IsMade
<1>2. t.wan = w /\ t.dns = d
  BY DEF IsMade
<1> QED
  BY <1>1, <1>2, Zenon

\* The handle is dropped and the slots stay as they are.
Forgets(w, d, w2, d2) == w2.dns_query = None /\ d2.slot = d.slot

\* It leaks the slot it named, if any.
LEMMA Forgotten ==
  ASSUME NEW w \in Wan, NEW d \in Dns, NEW w2, NEW d2, HandleGood(w, d), Forgets(w, d, w2, d2)
  PROVE  \/ LeakedIn(w2, d2) = LeakedIn(w, d)
         \/ \E q \in Slot \ LeakedIn(w, d) : LeakedIn(w2, d2) = LeakedIn(w, d) \cup {q}
<1>1. w.dns_query \in Slot \cup {None}
  BY DEF Wan
<1>2. CASE w.dns_query = None
  BY <1>2, WanAssumption DEF LeakedIn, Forgets
<1>3. CASE w.dns_query # None
  <2>1. w.dns_query \in Slot \ LeakedIn(w, d)
    BY <1>1, <1>3 DEF LeakedIn
  <2>2. LeakedIn(w2, d2) = LeakedIn(w, d) \cup {w.dns_query}
    BY <1>1, <1>3, WanAssumption DEF LeakedIn, Forgets, HandleGood
  <2> QED
    BY <2>1, <2>2
<1> QED
  BY <1>2, <1>3

LEMMA ApplyGood ==
  ASSUME NEW s, IsClient(s), HandleGood(s.wan, s.dns), dhcp.lease \in Lease \cup {None}
  PROVE  /\ IsClient(dhcp_apply(s))
         /\ HandleGood(dhcp_apply(s).wan, dhcp_apply(s).dns)
         /\ \/ LeakedIn(dhcp_apply(s).wan, dhcp_apply(s).dns) = LeakedIn(s.wan, s.dns)
            \/ dhcp.changed /\ \E q \in Slot \ LeakedIn(s.wan, s.dns) :
                 LeakedIn(dhcp_apply(s).wan, dhcp_apply(s).dns) = LeakedIn(s.wan, s.dns) \cup {q}
<1>1. s.wan \in Wan /\ s.dns \in Dns /\ s.icmp \in Icmp
  BY DEF IsClient
<1>2. CASE ~dhcp.changed
  BY <1>2 DEF dhcp_apply
<1>3. CASE dhcp.changed /\ dhcp.lease = None
  <2> DEFINE d == [s.dns EXCEPT !.servers = <<>>]
  <2>1. WanNew \in Wan
    BY DEF WanNew, Wan, First, Servers
  <2>2. d \in Dns
    BY <1>1 DEF Dns, Servers
  <2>3. HandleGood(WanNew, d)
    BY <1>1 DEF WanNew, HandleGood, First, Dns
  <2>4. IsMade(Deconfigured(s), WanNew, d, s.icmp)
    BY DEF Deconfigured, IsClient, IsMade
  <2>5. Forgets(s.wan, s.dns, WanNew, d)
    BY <1>1 DEF Forgets, WanNew, Dns
  <2>6. dhcp_apply(s) = Deconfigured(s)
    BY <1>3 DEF dhcp_apply
  <2>. HIDE DEF d
  <2> QED
    BY <1>1, <1>3, <2>1, <2>2, <2>3, <2>4, <2>5, <2>6, MadeGood, Forgotten
<1>4. CASE dhcp.changed /\ dhcp.lease # None
  <2> DEFINE l == dhcp.lease
             w == [s.wan EXCEPT !.addr = l.addr, !.gw = l.gw, !.dns0 = First(l.servers), !.dns_query = None]
             d == [s.dns EXCEPT !.servers = l.servers]
  <2>1. l \in Lease /\ l.addr # None /\ l.servers \in Servers
    BY <1>4, LeaseFacts
  <2>2. w \in Wan /\ d \in Dns
    BY <1>1, <2>1 DEF Wan, Dns, Addr
  <2>3. HandleGood(w, d)
    BY <1>1, <2>1 DEF Wan, Dns, HandleGood
  <2>4. IsMade(dhcp_apply(s), w, d, s.icmp)
    BY <1>4 DEF dhcp_apply, Configured, IsClient, IsMade
  <2>5. Forgets(s.wan, s.dns, w, d)
    BY <1>1 DEF Forgets, Wan, Dns
  <2>. HIDE DEF w, d
  <2>6. /\ IsClient(dhcp_apply(s)) /\ HandleGood(dhcp_apply(s).wan, dhcp_apply(s).dns)
        /\ LeakedIn(dhcp_apply(s).wan, dhcp_apply(s).dns) = LeakedIn(w, d)
    BY <1>1, <2>2, <2>3, <2>4, MadeGood
  <2>7. \/ LeakedIn(w, d) = LeakedIn(s.wan, s.dns)
        \/ \E q \in Slot \ LeakedIn(s.wan, s.dns) : LeakedIn(w, d) = LeakedIn(s.wan, s.dns) \cup {q}
    BY <1>1, <2>5, Forgotten
  <2> QED
    BY <1>4, <2>6, <2>7
<1> QED
  BY <1>2, <1>3, <1>4

LEMMA DrainGood ==
  ASSUME NEW s, IsClient(s), HandleGood(s.wan, s.dns)
  PROVE  /\ IsClient(ping_drain(s))
         /\ HandleGood(ping_drain(s).wan, ping_drain(s).dns)
         /\ LeakedIn(ping_drain(s).wan, ping_drain(s).dns) = LeakedIn(s.wan, s.dns)
<1> DEFINE w == [s.wan EXCEPT !.ping_ok = @ + s.icmp.rx]
           i == [s.icmp EXCEPT !.rx = 0]
<1>1. s.wan \in Wan /\ s.dns \in Dns /\ s.icmp \in Icmp
  BY DEF IsClient
<1>2. w \in Wan /\ i \in Icmp
  BY <1>1 DEF Wan, Icmp
<1>3. HandleGood(w, s.dns)
  BY <1>1 DEF Wan, HandleGood
<1>4. IsMade(ping_drain(s), w, s.dns, i)
  BY DEF ping_drain, IsClient, IsMade
<1>5. LeakedIn(w, s.dns) = LeakedIn(s.wan, s.dns)
  BY <1>1 DEF LeakedIn, Wan
<1>. HIDE DEF w, i
<1> QED
  BY <1>1, <1>2, <1>3, <1>4, <1>5, MadeGood

LEMMA HarvestGood ==
  ASSUME NEW s, IsClient(s), HandleGood(s.wan, s.dns)
  PROVE  /\ IsClient(dns_harvest(s))
         /\ HandleGood(dns_harvest(s).wan, dns_harvest(s).dns)
         /\ LeakedIn(dns_harvest(s).wan, dns_harvest(s).dns) = LeakedIn(s.wan, s.dns)
<1> DEFINE q == s.wan.dns_query
           w == [s.wan EXCEPT !.dns_query = None, !.resolved = IF s.dns.slot[q].state = "done" THEN TRUE ELSE @]
           d == [s.dns EXCEPT !.slot[q] = None]
<1>1. s.wan \in Wan /\ s.dns \in Dns /\ s.icmp \in Icmp
  BY DEF IsClient
<1>2. CASE q = None \/ s.dns.slot[q].state = "pending"
  BY <1>2 DEF dns_harvest
<1>3. CASE ~(q = None \/ s.dns.slot[q].state = "pending")
  <2>1. w \in Wan /\ d \in Dns
    BY <1>1 DEF Wan, Dns
  <2>2. HandleGood(w, d)
    BY <1>1, <1>3 DEF Wan, Dns, HandleGood
  <2>3. IsMade(dns_harvest(s), w, d, s.icmp)
    BY <1>1, <1>3 DEF dns_harvest, IsClient, IsMade
  <2>4. LeakedIn(w, d) = LeakedIn(s.wan, s.dns)
    BY <1>1, <1>3, WanAssumption DEF LeakedIn, Wan, Dns
  <2>. HIDE DEF w, d
  <2> QED
    BY <1>1, <2>1, <2>2, <2>3, <2>4, MadeGood
<1> QED
  BY <1>2, <1>3

LEMMA SendGood ==
  ASSUME NEW s, IsClient(s), HandleGood(s.wan, s.dns)
  PROVE  /\ IsClient(ping_send(s))
         /\ HandleGood(ping_send(s).wan, ping_send(s).dns)
         /\ LeakedIn(ping_send(s).wan, ping_send(s).dns) = LeakedIn(s.wan, s.dns)
         /\ ping_send(s).wan.addr = s.wan.addr
<1> DEFINE w == [s.wan EXCEPT !.ping_sent = @ + 1]
           i == [s.icmp EXCEPT !.tx = @ + 1]
<1>1. s.wan \in Wan /\ s.dns \in Dns /\ s.icmp \in Icmp
  BY DEF IsClient
<1>2. w \in Wan /\ i \in Icmp
  BY <1>1 DEF Wan, Icmp
<1>3. HandleGood(w, s.dns)
  BY <1>1 DEF Wan, HandleGood
<1>4. ping_send(s) = s \/ IsMade(ping_send(s), w, s.dns, i)
  BY DEF ping_send, IsClient, IsMade
<1>5. LeakedIn(w, s.dns) = LeakedIn(s.wan, s.dns)
  BY <1>1 DEF LeakedIn, Wan
<1>6. w.addr = s.wan.addr
  BY <1>1 DEF Wan
<1>. HIDE DEF w, i
<1> QED
  BY <1>1, <1>2, <1>3, <1>4, <1>5, <1>6, MadeGood

LEMMA StartGood ==
  ASSUME NEW s, IsClient(s), HandleGood(s.wan, s.dns), s.wan.addr # None
  PROVE  /\ IsClient(dns_start(s))
         /\ HandleGood(dns_start(s).wan, dns_start(s).dns)
         /\ LeakedIn(dns_start(s).wan, dns_start(s).dns) = LeakedIn(s.wan, s.dns)
<1> DEFINE free == {j \in Slot : s.dns.slot[j] = None}
           i == CHOOSE j \in free : TRUE
           q == [state |-> "pending", under |-> s.dns.servers]
           w == [s.wan EXCEPT !.dns_query = i]
           d == [s.dns EXCEPT !.slot[i] = q]
<1>1. s.wan \in Wan /\ s.dns \in Dns /\ s.icmp \in Icmp
  BY DEF IsClient
<1>2. CASE s.wan.dns_query # None \/ s.wan.dns0 = None \/ free = {}
  BY <1>2 DEF dns_start
<1>3. CASE ~(s.wan.dns_query # None \/ s.wan.dns0 = None \/ free = {})
  <2>1. i \in Slot
    BY <1>3
  <2>2. q \in Query /\ q # None
    BY <1>1, WanAssumption DEF Query, Dns
  <2>3. IsMade(dns_start(s), w, d, s.icmp)
    BY <1>1, <1>3 DEF dns_start, IsClient, IsMade
  <2>. HIDE DEF i
  <2>4. w \in Wan /\ w.dns_query = i /\ w.addr = s.wan.addr /\ w.dns0 = s.wan.dns0
    BY <1>1, <2>1 DEF Wan
  <2>. HIDE DEF w, q
  <2>5. /\ d \in Dns /\ d.slot[i] = q /\ d.servers = s.dns.servers
        /\ \A j \in Slot \ {i} : d.slot[j] = s.dns.slot[j]
    BY <1>1, <2>1, <2>2 DEF Dns
  <2>6. q.under = s.dns.servers
    BY DEF q
  <2>8. s.dns.slot[i] = None
    BY <1>3 DEF i
  <2>. HIDE DEF d
  <2>9. LeakedIn(w, d) = LeakedIn(s.wan, s.dns)
    BY <1>3, <2>1, <2>4, <2>5, <2>8, WanAssumption DEF LeakedIn
  <2>7. HandleGood(w, d)
    BY <2>2, <2>4, <2>5, <2>6 DEF HandleGood
  <2> QED
    BY <1>1, <2>3, <2>4, <2>5, <2>7, <2>9, MadeGood
<1> QED
  BY <1>2, <1>3
--------------------------------------------------------------------------------
\* One step.

\* What a poll leaves behind is good, and it leaks at most the slot a lease event abandons.
LEMMA PollGood ==
  ASSUME WanInv, NEW second, WanPoll(second)
  PROVE  /\ WanInv'
         /\ \/ Leaked' = Leaked
            \/ dhcp.changed /\ \E q \in Slot \ Leaked : Leaked' = Leaked \cup {q}
<1> DEFINE s == [wan |-> wan, dns |-> dns, icmp |-> icmp, carried |-> carried]
           a == dhcp_apply(s)
           h == dns_harvest(ping_drain(a))
           t == Probe(h, second)
<1>1. /\ IsClient(s) /\ HandleGood(s.wan, s.dns) /\ dhcp.lease \in Lease \cup {None}
      /\ LeakedIn(s.wan, s.dns) = Leaked
  BY DEF WanInv, IsClient, Leaked, LeakedIn
<1>2. t.wan = wan' /\ t.dns = dns' /\ t.icmp = icmp' /\ dhcp' = [dhcp EXCEPT !.changed = FALSE]
  BY DEF WanPoll
<1>3. LeakedIn(wan', dns') = Leaked'
  BY DEF Leaked, LeakedIn
<1>. HIDE DEF s
<1>4. /\ IsClient(a) /\ HandleGood(a.wan, a.dns)
      /\ \/ LeakedIn(a.wan, a.dns) = Leaked
         \/ dhcp.changed /\ \E q \in Slot \ Leaked : LeakedIn(a.wan, a.dns) = Leaked \cup {q}
  BY <1>1, ApplyGood
<1>. HIDE DEF a
<1>5. /\ IsClient(h) /\ HandleGood(h.wan, h.dns)
      /\ LeakedIn(h.wan, h.dns) = LeakedIn(a.wan, a.dns)
  BY <1>4, DrainGood, HarvestGood
<1>. HIDE DEF h
<1>6. /\ IsClient(t) /\ HandleGood(t.wan, t.dns)
      /\ LeakedIn(t.wan, t.dns) = LeakedIn(h.wan, h.dns)
  <2>1. CASE second /\ h.wan.addr # None
    <3>1. /\ IsClient(ping_send(h)) /\ HandleGood(ping_send(h).wan, ping_send(h).dns)
          /\ LeakedIn(ping_send(h).wan, ping_send(h).dns) = LeakedIn(h.wan, h.dns)
          /\ ping_send(h).wan.addr = h.wan.addr
      BY <1>5, SendGood
    <3>2. t = dns_start(ping_send(h))
      BY <2>1 DEF Probe
    <3> QED
      BY <2>1, <3>1, <3>2, StartGood
  <2>2. CASE ~(second /\ h.wan.addr # None)
    BY <1>5, <2>2 DEF Probe
  <2> QED
    BY <2>1, <2>2
<1>. HIDE DEF t
<1>7. wan' \in Wan /\ dns' \in Dns /\ icmp' \in Icmp
  BY <1>2, <1>6 DEF IsClient
<1>8. dhcp' \in [lease : Lease \cup {None}, changed : BOOLEAN]
  BY <1>2 DEF WanInv
<1>9. WanInv'
  BY <1>2, <1>6, <1>7, <1>8 DEF WanInv
<1> QED
  BY <1>2, <1>3, <1>4, <1>5, <1>6, <1>9

\* The wire and time change no handle and free no slot.
LEMMA EnvGood ==
  ASSUME WanInv, NEW offered \in SUBSET Lease, WanEnv(offered)
  PROVE  WanInv' /\ Leaked' = Leaked
<1>1. ASSUME NEW l \in offered, DhcpAck(l)
      PROVE  WanInv' /\ Leaked' = Leaked
  BY <1>1 DEF DhcpAck, WanInv, HandleGood, Leaked
<1>2. ASSUME DhcpLost
      PROVE  WanInv' /\ Leaked' = Leaked
  BY <1>2 DEF DhcpLost, WanInv, HandleGood, Leaked
<1>3. ASSUME NEW i \in Slot, NEW how \in {"done", "failed"}, DnsEnds(i, how)
      PROVE  WanInv' /\ Leaked' = Leaked
  <2> DEFINE q == [dns.slot[i] EXCEPT !.state = how]
  <2>1. dns.slot[i] # None /\ dns \in Dns /\ wan' = wan /\ icmp' = icmp /\ dhcp' = dhcp
    BY <1>3 DEF DnsEnds, WanInv
  <2>2. q \in Query /\ q.under = dns.slot[i].under /\ q # None
    BY <2>1, WanAssumption DEF Query, Dns
  <2>3. dns' = [dns EXCEPT !.slot[i] = q]
    BY <1>3 DEF DnsEnds
  <2>. HIDE DEF q
  <2>4. /\ dns' \in Dns /\ dns'.servers = dns.servers /\ dns'.slot[i] = q
        /\ \A j \in Slot \ {i} : dns'.slot[j] = dns.slot[j]
    BY <2>1, <2>2, <2>3 DEF Dns
  <2>5. HandleGood(wan, dns')
    BY <2>1, <2>2, <2>4 DEF HandleGood, WanInv, Wan
  <2>6. Leaked' = Leaked
    BY <2>1, <2>2, <2>4 DEF Leaked
  <2> QED
    BY <2>1, <2>4, <2>5, <2>6 DEF WanInv
<1>4. ASSUME EchoLeaves
      PROVE  WanInv' /\ Leaked' = Leaked
  <2>1. icmp.tx - 1 \in Nat /\ icmp \in Icmp /\ wan.addr \in Addr \cup {None}
    BY <1>4 DEF EchoLeaves, WanInv, Icmp, Wan
  <2>2. wan.addr # None => icmp.out[wan.addr] + 1 \in Nat
    BY <2>1 DEF Icmp
  <2>3. icmp' \in Icmp
    BY <1>4, <2>1, <2>2 DEF EchoLeaves, Icmp
  <2> QED
    BY <1>4, <2>3 DEF EchoLeaves, WanInv, HandleGood, Leaked
<1>5. ASSUME NEW a \in Addr, NEW taken \in BOOLEAN, EchoEnds(a, taken)
      PROVE  WanInv' /\ Leaked' = Leaked
  <2>1. icmp.out[a] - 1 \in Nat /\ icmp.rx + 1 \in Nat /\ icmp \in Icmp
    BY <1>5 DEF EchoEnds, WanInv, Icmp
  <2>2. icmp' \in Icmp
    BY <1>5, <2>1 DEF EchoEnds, Icmp
  <2> QED
    BY <1>5, <2>2 DEF EchoEnds, WanInv, HandleGood, Leaked
<1> QED
  BY <1>1, <1>2, <1>3, <1>4, <1>5 DEF WanEnv
--------------------------------------------------------------------------------
\* Every behaviour, of each build.

LEMMA InitGood == Init => WanInv
<1> SUFFICES ASSUME Init
             PROVE  WanInv
  OBVIOUS
<1>1. wan = WanNew /\ dns = [servers |-> <<>>, slot |-> [i \in Slot |-> None]]
      /\ icmp = [tx |-> 0, out |-> [a \in Addr |-> 0], rx |-> 0]
      /\ dhcp = [lease |-> None, changed |-> TRUE]
  BY DEF Init, WanInit
<1>2. wan \in Wan
  BY <1>1 DEF WanNew, Wan, First, Servers
<1>3. dns \in Dns /\ icmp \in Icmp
  BY <1>1 DEF Dns, Servers, Icmp
<1>4. HandleGood(wan, dns)
  BY <1>1 DEF WanNew, HandleGood, First
<1> QED
  BY <1>1, <1>2, <1>3, <1>4 DEF WanInv

LEMMA StepGood ==
  ASSUME WanInv, [Next]_vars
  PROVE  /\ WanInv'
         /\ \/ Leaked' = Leaked
            \/ dhcp.changed /\ \E q \in Slot \ Leaked : Leaked' = Leaked \cup {q}
<1>1. CASE UNCHANGED wanVars
  BY <1>1 DEF wanVars, WanInv, HandleGood, Leaked
<1>2. CASE \E second \in Seconds : WanStep(second)
  BY <1>2, PollGood DEF WanStep
<1>3. CASE WanPart(WanEnv(IF build = "nic" THEN NicLeases ELSE RouterLeases))
  <2> DEFINE offered == IF build = "nic" THEN NicLeases ELSE RouterLeases
  <2>1. offered \in SUBSET Lease
    BY ServicesAssumption
  <2>2. WanEnv(offered)
    BY <1>3 DEF WanPart
  <2>. HIDE DEF offered
  <2> QED
    BY <2>1, <2>2, EnvGood
<1> QED
  BY <1>1, <1>2, <1>3 DEF Next, LanPart, vars

\* The handle of the query in flight never dangles, and what it asks is asked of the resolvers of
\* the lease held now, whatever leases come and go in between.  (dhcp_apply, dns_start, dns_harvest)
THEOREM HandleNeverDangles == Spec => []QueryIsOurs
<1>1. WanInv => QueryIsOurs
  BY DEF WanInv, HandleGood, QueryIsOurs
<1>2. WanInv /\ [Next]_vars => WanInv'
  BY StepGood
<1> QED
  BY <1>1, <1>2, InitGood, PTL DEF Spec

\* A query slot is lost one at a time, to a lease event, and never comes back: the losses of a
\* WAN whose lease keeps changing add up, with any number of slots.  (dhcp_apply)
THEOREM SlotsAreLostToLeaseEvents == Spec => LeaksOnlyOnLeaseEvent
<1>1. ASSUME WanInv, [Next]_vars
      PROVE  [Leaked' # Leaked => /\ dhcp.changed /\ Leaked \subseteq Leaked'
                                  /\ Cardinality(Leaked') = Cardinality(Leaked) + 1]_wanVars
  <2>1. SUFFICES ASSUME Leaked' # Leaked
                 PROVE  /\ dhcp.changed /\ Leaked \subseteq Leaked'
                        /\ Cardinality(Leaked') = Cardinality(Leaked) + 1
    OBVIOUS
  <2>2. PICK q \in Slot \ Leaked : Leaked' = Leaked \cup {q}
    BY <1>1, <2>1, StepGood
  <2>3. IsFiniteSet(Leaked)
    BY FS_Subset, WanAssumption DEF Leaked
  <2>4. Cardinality(Leaked \cup {q}) = Cardinality(Leaked) + 1
    BY <2>2, <2>3, FS_AddElement
  <2> QED
    BY <1>1, <2>1, <2>2, <2>4, StepGood
<1>2. WanInv /\ [Next]_vars => WanInv'
  BY StepGood
<1> QED
  BY <1>1, <1>2, InitGood, PTL DEF Spec, LeaksOnlyOnLeaseEvent
--------------------------------------------------------------------------------
\* Induction, on sets of numbers.

LEMMA LeastOf ==
  ASSUME NEW T \in SUBSET Nat, T # {}
  PROVE  \E n \in T : \A m \in T : n <= m
<1> DEFINE R == OpToRel(<, Nat)
<1>1. R = {ss \in Nat \X Nat : ss[1] < ss[2]}
  BY DEF OpToRel
<1>2. IsWellFoundedOn(R, Nat)
  BY NatLessThanWellFounded
<1>. HIDE DEF R
<1>3. PICK n \in T : \A m \in T : ~(<<m, n>> \in R)
  BY <1>2, WFMin
<1>4. \A m \in T : ~(m < n)
  BY <1>1, <1>3
<1> QED
  BY <1>4

LEMMA Induction ==
  ASSUME NEW T \in SUBSET Nat, 0 \in T, \A n \in T : n + 1 \in T
  PROVE  T = Nat
<1> SUFFICES ASSUME Nat \ T # {}
             PROVE  FALSE
  OBVIOUS
<1>1. PICK n \in Nat \ T : \A m \in Nat \ T : n <= m
  BY LeastOf
<1>2. n # 0 /\ n - 1 \in Nat /\ ~(n <= n - 1)
  BY <1>1
<1>3. n - 1 \in T /\ (n - 1) + 1 = n
  BY <1>1, <1>2
<1> QED
  BY <1>3

\* f goes from s through n steps.
Goes(f, s, n, next) == f[0] = s /\ \A k \in 1 .. n : f[k] = next[<<k, f[k - 1]>>]

\* There is such a function, for steps that stay in G.
LEMMA Chain ==
  ASSUME NEW G, NEW s \in G, NEW n \in Nat, NEW next \in [(1 .. n) \X G -> G]
  PROVE  \E f \in [0 .. n -> G] : Goes(f, s, n, next)
<1> DEFINE Upto(m) == \E f \in [0 .. m -> G] : Goes(f, s, m, next)
           T == {m \in Nat : m <= n => Upto(m)}
<1>1. 0 \in T
  <2> DEFINE f == [k \in 0 .. 0 |-> s]
  <2>1. f \in [0 .. 0 -> G] /\ f[0] = s /\ \A k \in 1 .. 0 : f[k] = next[<<k, f[k - 1]>>]
    OBVIOUS
  <2> QED
    BY <2>1 DEF Goes
<1>2. ASSUME NEW m \in T
      PROVE  m + 1 \in T
  <2>1. SUFFICES ASSUME m + 1 <= n
                 PROVE  Upto(m + 1)
    OBVIOUS
  <2>2. PICK f \in [0 .. m -> G] : f[0] = s /\ \A k \in 1 .. m : f[k] = next[<<k, f[k - 1]>>]
    BY <2>1 DEF Goes
  <2>3. f[m] \in G /\ m + 1 \in 1 .. n
    BY <2>1
  <2>4. next[<<m + 1, f[m]>>] \in G
    BY <2>3
  <2> DEFINE g == [k \in 0 .. m + 1 |-> IF k = m + 1 THEN next[<<m + 1, f[m]>>] ELSE f[k]]
  <2>5. g \in [0 .. m + 1 -> G] /\ g[0] = s /\ g[m + 1] = next[<<m + 1, f[m]>>]
        /\ \A k \in 0 .. m : g[k] = f[k]
    BY <2>2, <2>4
  <2> HIDE DEF g
  <2>6. ASSUME NEW k \in 1 .. m + 1
        PROVE  g[k] = next[<<k, g[k - 1]>>]
    <3>1. CASE k = m + 1
      <4>1. k - 1 = m /\ m \in 0 .. m
        BY <3>1
      <4> QED
        BY <2>5, <3>1, <4>1
    <3>2. CASE k # m + 1
      <4>1. k \in 1 .. m /\ k \in 0 .. m /\ k - 1 \in 0 .. m
        BY <3>2
      <4> QED
        BY <2>2, <2>5, <4>1
    <3> QED
      BY <3>1, <3>2
  <2> QED
    BY <2>5, <2>6 DEF Goes
<1>3. T = Nat
  <2> HIDE DEF T
  <2>1. T \in SUBSET Nat
    BY DEF T
  <2> QED
    BY <1>1, <1>2, <2>1, Induction
<1>4. n \in T
  BY <1>3
<1> QED
  BY <1>4

\* And so is what any function with these steps ends with.
LEMMA ChainStays ==
  ASSUME NEW G, NEW n \in Nat, NEW h, h[0] \in G, \A k \in 1 .. n : h[k - 1] \in G => h[k] \in G
  PROVE  h[n] \in G
<1> DEFINE T == {m \in Nat : m <= n => h[m] \in G}
<1>1. 0 \in T
  OBVIOUS
<1>2. ASSUME NEW m \in T
      PROVE  m + 1 \in T
  <2>1. SUFFICES ASSUME m + 1 <= n
                 PROVE  h[m + 1] \in G
    OBVIOUS
  <2>2. m + 1 \in 1 .. n /\ (m + 1) - 1 = m /\ h[m] \in G
    BY <2>1
  <2> QED
    BY <2>2
<1>3. T = Nat
  <2> HIDE DEF T
  <2>1. T \in SUBSET Nat
    BY DEF T
  <2> QED
    BY <1>1, <1>2, <2>1, Induction
<1>4. n \in T
  BY <1>3
<1> QED
  BY <1>4
--------------------------------------------------------------------------------
\* The LAN's side

Resolver == {First(q) : q \in Servers} \cup {Google}
Ask == {r \in [from : Client \cup {NoOne}, type : {"Discover", "Request", "Other"}] :
          r.type # "Other" => r.from \in Client}
Reply == [to : Client, type : {"Offer", "Ack"}, ip : Pool, dns : Resolver]
Station == [ip : Pool \cup {NoOne}, dns : Resolver \cup {NoOne}, offered : BOOLEAN]

\* No client holds two addresses.
Tenancy == {p \in [Pool -> Client \cup {NoOne}] :
              \A i, j \in Pool : p[i] = p[j] /\ p[i] # NoOne => i = j}
\* Nobody loses one.
Keeps(p, q) == \A i \in Pool : p[i] # NoOne => q[i] = p[i]

\* The server's part of the state, and what it has become since the pool was p.
Server(p) ==
  {t \in [leases : Tenancy, replies : Seq(Reply)] :
     /\ Keeps(p, t.leases) /\ Len(t.replies) <= SocketCap
     /\ \A i \in DOMAIN t.replies : t.leases[t.replies[i].ip] = t.replies[i].to}

\* Clients that hold in the pool p what they use
Stations(p) == {cl \in [Client -> Station] : \A c \in Client : cl[c].ip # NoOne => p[cl[c].ip] = c}

LanInv ==
  /\ [leases |-> leases, replies |-> replies] \in Server(leases)
  /\ client \in Stations(leases)
  /\ requests \in Seq(Ask) /\ Len(requests) <= SocketCap
  /\ LAN_DNS_OFFER \in Resolver /\ around \in SUBSET Client

\* The slot is the client's own, or a free one if it has none.
LEMMA SlotIs ==
  ASSUME NEW p \in Tenancy, NEW c \in Client
  PROVE  LET i == slot_for(p, c) IN
         i # NoOne => /\ i \in Pool
                      /\ p[i] = c \/ (p[i] = NoOne /\ \A j \in Pool : p[j] # c)
<1> DEFINE own  == {i \in Pool : p[i] = c}
           free == {i \in Pool : p[i] = NoOne}
           lowest(S) == CHOOSE i \in S : \A j \in S : i <= j
<1>1. ASSUME NEW S \in SUBSET Pool, S # {}
      PROVE  lowest(S) \in S
  <2>1. S \in SUBSET Nat
    BY DEF Pool
  <2>2. \E i \in S : \A j \in S : i <= j
    BY <1>1, <2>1, LeastOf
  <2> QED
    BY <2>2
<1>2. slot_for(p, c) = IF own # {} THEN lowest(own) ELSE IF free # {} THEN lowest(free) ELSE NoOne
  BY DEF slot_for
<1>3. CASE own # {}
  <2>1. slot_for(p, c) \in own
    BY <1>1, <1>2, <1>3
  <2> QED
    BY <2>1
<1>4. CASE own = {} /\ free # {}
  <2>1. slot_for(p, c) \in free
    BY <1>1, <1>2, <1>4
  <2> QED
    BY <1>4, <2>1
<1>5. CASE own = {} /\ free = {}
  BY <1>2, <1>5
<1> QED
  BY <1>3, <1>4, <1>5

\* allocate takes no address from anyone.
LEMMA AllocateGood ==
  ASSUME NEW p \in Tenancy, NEW c \in Client, slot_for(p, c) # NoOne
  PROVE  /\ slot_for(p, c) \in Pool /\ allocate(p, c) \in Tenancy
         /\ Keeps(p, allocate(p, c)) /\ allocate(p, c)[slot_for(p, c)] = c
<1> DEFINE i == slot_for(p, c)
           q == allocate(p, c)
<1>1. i \in Pool /\ (p[i] = c \/ (p[i] = NoOne /\ \A j \in Pool : p[j] # c))
  BY SlotIs
<1>2. q = [j \in Pool |-> IF j = i THEN c ELSE p[j]]
  BY DEF allocate
<1> HIDE DEF i, q
<1>3. q \in [Pool -> Client \cup {NoOne}] /\ q[i] = c /\ \A j \in Pool \ {i} : q[j] = p[j]
  BY <1>1, <1>2 DEF Tenancy
<1>4. Keeps(p, q)
  BY <1>1, <1>3 DEF Keeps
<1>5. \A j \in Pool \ {i} : q[j] # c
  BY <1>1, <1>3, DhcpAssumption DEF Tenancy
<1>6. q \in Tenancy
  BY <1>3, <1>5 DEF Tenancy
<1> QED
  BY <1>1, <1>3, <1>4, <1>6 DEF i, q

LEMMA KeepsTransitive ==
  ASSUME NEW p \in Tenancy, NEW q \in Tenancy, NEW r \in Tenancy, Keeps(p, q), Keeps(q, r)
  PROVE  Keeps(p, r)
BY DEF Keeps

LEMMA AnswerGood ==
  ASSUME LAN_DNS_OFFER \in Resolver, NEW p \in Tenancy, NEW t \in Server(p), NEW req \in Ask
  PROVE  Answer(t, req) \in Server(p)
<1> DEFINE ip == slot_for(t.leases, req.from)
           q == allocate(t.leases, req.from)
           reply == [to |-> req.from, type |-> IF req.type = "Discover" THEN "Offer" ELSE "Ack",
                     ip |-> ip, dns |-> LAN_DNS_OFFER]
           out == IF Len(t.replies) < SocketCap THEN Append(t.replies, reply) ELSE t.replies
<1>1. /\ t.leases \in Tenancy /\ t.replies \in Seq(Reply) /\ Keeps(p, t.leases) /\ Len(t.replies) <= SocketCap
      /\ \A i \in DOMAIN t.replies : t.leases[t.replies[i].ip] = t.replies[i].to
      /\ SocketCap \in Nat
  BY DhcpAssumption DEF Server
<1>2. CASE req.type = "Other" \/ ip = NoOne
  BY <1>2 DEF Answer
<1>3. CASE ~(req.type = "Other" \/ ip = NoOne)
  <2>1. Answer(t, req) = [leases |-> q, replies |-> out]
    BY <1>3 DEF Answer
  <2>2. req.from \in Client
    BY <1>3 DEF Ask
  <2>3. ip \in Pool /\ q \in Tenancy /\ Keeps(t.leases, q) /\ q[ip] = req.from
    BY <1>1, <1>3, <2>2, AllocateGood
  <2> HIDE DEF ip, q
  <2>4. reply \in Reply /\ reply.ip = ip /\ reply.to = req.from
    BY <2>2, <2>3 DEF Reply
  <2> HIDE DEF reply
  <2>5. \A i \in DOMAIN t.replies : q[t.replies[i].ip] = t.replies[i].to
    <3>1. \A i \in DOMAIN t.replies : t.replies[i] \in Reply
      BY <1>1
    <3>2. \A i \in DOMAIN t.replies : t.replies[i].ip \in Pool /\ t.replies[i].to # NoOne
      BY <3>1, DhcpAssumption DEF Reply
    <3> QED
      BY <1>1, <2>3, <3>2 DEF Keeps
  <2>6. out \in Seq(Reply) /\ Len(out) <= SocketCap /\ \A i \in DOMAIN out : q[out[i].ip] = out[i].to
    <3>1. CASE Len(t.replies) < SocketCap
      <4>1. out = Append(t.replies, reply)
        BY <3>1
      <4>2. /\ out \in Seq(Reply) /\ Len(out) = Len(t.replies) + 1 /\ out[Len(t.replies) + 1] = reply
            /\ \A i \in DOMAIN t.replies : out[i] = t.replies[i]
            /\ Len(t.replies) \in Nat /\ DOMAIN t.replies = 1 .. Len(t.replies)
        BY <1>1, <2>4, <4>1
      <4>3. \A i \in DOMAIN out : i \in DOMAIN t.replies \/ i = Len(t.replies) + 1
        BY <4>2
      <4>4. \A i \in DOMAIN out : q[out[i].ip] = out[i].to
        BY <2>3, <2>4, <2>5, <4>2, <4>3
      <4>5. Len(out) <= SocketCap
        BY <1>1, <3>1, <4>2
      <4> QED
        BY <4>2, <4>4, <4>5
    <3>2. CASE ~(Len(t.replies) < SocketCap)
      BY <1>1, <2>5, <3>2
    <3> QED
      BY <3>1, <3>2
  <2> HIDE DEF out
  <2>7. Keeps(p, q)
    BY <1>1, <2>3, KeepsTransitive
  <2> QED
    BY <2>1, <2>3, <2>6, <2>7 DEF Server
<1> QED
  BY <1>2, <1>3

LEMMA AnswerAllGood ==
  ASSUME LAN_DNS_OFFER \in Resolver, NEW p \in Tenancy, NEW s \in Server(p), NEW n \in Nat,
         requests \in Seq(Ask), n <= Len(requests)
  PROVE  AnswerAll(s, n) \in Server(p)
<1> DEFINE next == [e \in (1 .. n) \X Server(p) |-> Answer(e[2], requests[e[1]])]
           Is(f) == f = [k \in 0 .. n |-> IF k = 0 THEN s ELSE Answer(f[k - 1], requests[k])]
           h == CHOOSE f : Is(f)
<1>1. \A k \in 1 .. n : requests[k] \in Ask
  OBVIOUS
<1>2. next \in [(1 .. n) \X Server(p) -> Server(p)]
  BY <1>1, AnswerGood
<1>3. \A k \in 1 .. n, t \in Server(p) : next[<<k, t>>] = Answer(t, requests[k])
  OBVIOUS
<1> HIDE DEF next
<1>4. PICK f \in [0 .. n -> Server(p)] : Goes(f, s, n, next)
  BY <1>2, Chain
<1>5. \A k \in 1 .. n : f[k] = Answer(f[k - 1], requests[k])
  <2> TAKE k \in 1 .. n
  <2>1. k - 1 \in 0 .. n
    OBVIOUS
  <2> QED
    BY <1>3, <1>4, <2>1 DEF Goes
<1>6. Is(f)
  <2>1. \A k \in 0 .. n : k = 0 \/ k \in 1 .. n
    OBVIOUS
  <2>2. \A k \in 0 .. n : f[k] = IF k = 0 THEN s ELSE Answer(f[k - 1], requests[k])
    BY <1>4, <1>5, <2>1 DEF Goes
  <2> QED
    BY <2>2
<1>7. Is(h)
  BY <1>6
<1>8. AnswerAll(s, n) = h[n]
  BY DEF AnswerAll
<1> HIDE DEF h
<1>9. h[0] = s /\ \A k \in 1 .. n : h[k] = Answer(h[k - 1], requests[k])
  BY <1>7
<1>10. \A k \in 1 .. n : h[k - 1] \in Server(p) => h[k] \in Server(p)
  BY <1>1, <1>9, AnswerGood
<1>11. h[n] \in Server(p)
  BY <1>9, <1>10, ChainStays
<1> QED
  BY <1>8, <1>11

LEMMA HearGood ==
  ASSUME NEW p \in Tenancy, NEW cl \in Stations(p), NEW r \in Reply, p[r.ip] = r.to
  PROVE  Hear(cl, r) \in Stations(p)
<1>1. /\ r.to \in Client /\ r.ip \in Pool /\ r.dns \in Resolver /\ cl \in [Client -> Station]
      /\ \A c \in Client : cl[c].ip # NoOne => p[cl[c].ip] = c
  BY DEF Reply, Stations
<1>2. CASE r.type = "Offer" /\ cl[r.to].ip # NoOne
  BY <1>2 DEF Hear
<1>3. CASE r.type = "Offer" /\ cl[r.to].ip = NoOne
  <2> DEFINE st == [cl[r.to] EXCEPT !.offered = TRUE]
  <2>1. Hear(cl, r) = [cl EXCEPT ![r.to] = st]
    BY <1>3 DEF Hear
  <2>2. st \in Station /\ st.ip = cl[r.to].ip
    BY <1>1 DEF Station
  <2> HIDE DEF st
  <2>3. Hear(cl, r) \in [Client -> Station] /\ \A c \in Client : Hear(cl, r)[c].ip = cl[c].ip
    BY <1>1, <2>1, <2>2
  <2> QED
    BY <1>1, <2>3 DEF Stations
<1>4. CASE r.type # "Offer"
  <2> DEFINE st == [ip |-> r.ip, dns |-> r.dns, offered |-> FALSE]
  <2>1. Hear(cl, r) = [cl EXCEPT ![r.to] = st]
    BY <1>4 DEF Hear
  <2>2. st \in Station /\ st.ip = r.ip
    BY <1>1 DEF Station
  <2> HIDE DEF st
  <2>3. /\ Hear(cl, r) \in [Client -> Station] /\ Hear(cl, r)[r.to] = st
        /\ \A c \in Client \ {r.to} : Hear(cl, r)[c] = cl[c]
    BY <1>1, <2>1, <2>2
  <2> QED
    BY <1>1, <2>2, <2>3 DEF Stations
<1> QED
  BY <1>2, <1>3, <1>4

LEMMA HearAllGood ==
  ASSUME LanInv, NEW heard
  PROVE  HearAll(heard) \in Stations(leases)
<1> DEFINE G == Stations(leases)
           n == Len(replies)
           Heard(cl, k) == IF replies[k].to \in heard THEN Hear(cl, replies[k]) ELSE cl
           next == [e \in (1 .. n) \X G |-> Heard(e[2], e[1])]
           Is(f) == f = [k \in 0 .. n |-> IF k = 0 THEN client
                                          ELSE IF replies[k].to \in heard THEN Hear(f[k - 1], replies[k])
                                          ELSE f[k - 1]]
           h == CHOOSE f : Is(f)
<1>1. leases \in Tenancy /\ client \in G /\ n \in Nat /\ replies \in Seq(Reply)
      /\ \A k \in 1 .. n : replies[k] \in Reply /\ leases[replies[k].ip] = replies[k].to
  BY DEF LanInv, Server
<1>2. \A k \in 1 .. n, cl \in G : Heard(cl, k) \in G
  BY <1>1, HearGood
<1>3. next \in [(1 .. n) \X G -> G] /\ \A k \in 1 .. n, cl \in G : next[<<k, cl>>] = Heard(cl, k)
  BY <1>2
<1> HIDE DEF next
<1>4. PICK f \in [0 .. n -> G] : Goes(f, client, n, next)
  BY <1>1, <1>3, Chain
<1>5. \A k \in 1 .. n : f[k] = Heard(f[k - 1], k)
  <2> TAKE k \in 1 .. n
  <2>1. k - 1 \in 0 .. n
    BY <1>1
  <2> QED
    BY <1>3, <1>4, <2>1 DEF Goes
<1>6. Is(f)
  <2>1. \A k \in 0 .. n : k = 0 \/ k \in 1 .. n
    BY <1>1
  <2>2. \A k \in 0 .. n : f[k] = IF k = 0 THEN client
                                 ELSE IF replies[k].to \in heard THEN Hear(f[k - 1], replies[k]) ELSE f[k - 1]
    BY <1>4, <1>5, <2>1 DEF Goes
  <2> QED
    BY <2>2
<1>7. Is(h)
  BY <1>6
<1>8. HearAll(heard) = h[n]
  BY DEF HearAll
<1> HIDE DEF h, n
<1>9. h[0] = client /\ \A k \in 1 .. n : h[k] = Heard(h[k - 1], k)
  BY <1>1, <1>7
<1>10. \A k \in 1 .. n : h[k - 1] \in G => h[k] \in G
  BY <1>2, <1>9
<1> HIDE DEF G
<1>11. h[n] \in G
  BY <1>1, <1>9, <1>10, ChainStays
<1> QED
  BY <1>8, <1>11 DEF G

\* A client's address stays its own when the pool keeps what it has.
LEMMA StationsKept ==
  ASSUME NEW p \in Tenancy, NEW q \in Tenancy, Keeps(p, q), NEW cl \in Stations(p)
  PROVE  cl \in Stations(q)
<1>1. \A c \in Client : cl[c].ip \in Pool \cup {NoOne} /\ c # NoOne
  BY DhcpAssumption DEF Stations, Station
<1> QED
  BY <1>1 DEF Stations, Keeps

LEMMA LanPollGood ==
  ASSUME LanInv, NEW busy \in BOOLEAN, NEW heard, LanPoll(busy, heard)
  PROVE  LanInv'
<1> DEFINE n == IF Len(requests) < Batch THEN Len(requests) ELSE Batch
           s == [leases |-> leases, replies |-> IF busy THEN replies ELSE <<>>]
           t == AnswerAll(s, n)
<1>1. /\ leases \in Tenancy /\ replies \in Seq(Reply) /\ requests \in Seq(Ask) /\ Len(requests) \in Nat
      /\ Batch \in Nat /\ Len(requests) <= SocketCap /\ SocketCap \in Nat
  BY DhcpAssumption DEF LanInv, Server
<1>2. n \in Nat /\ n <= Len(requests)
  BY <1>1
<1>3. s \in Server(leases)
  <2>1. CASE busy
    <3>1. s = [leases |-> leases, replies |-> replies]
      BY <2>1
    <3> QED
      BY <3>1 DEF LanInv
  <2>2. CASE ~busy
    <3>1. s = [leases |-> leases, replies |-> <<>>]
      BY <2>2
    <3>2. Keeps(leases, leases) /\ <<>> \in Seq(Reply) /\ Len(<<>>) <= SocketCap /\ DOMAIN <<>> = {}
      BY <1>1 DEF Keeps
    <3> QED
      BY <1>1, <3>1, <3>2 DEF Server
  <2> QED
    BY <2>1, <2>2
<1>4. /\ client' = (IF busy THEN client ELSE HearAll(heard)) /\ leases' = t.leases /\ replies' = t.replies
      /\ requests' = SubSeq(requests, n + 1, Len(requests))
      /\ LAN_DNS_OFFER' = LAN_DNS_OFFER /\ around' = around
  BY DEF LanPoll
<1> HIDE DEF s
<1>5. t \in Server(leases)
  BY <1>1, <1>2, <1>3, AnswerAllGood DEF LanInv
<1> HIDE DEF t, n
<1>6. leases' \in Tenancy /\ Keeps(leases, leases') /\ replies' \in Seq(Reply)
      /\ Len(replies') <= SocketCap /\ \A i \in DOMAIN replies' : leases'[replies'[i].ip] = replies'[i].to
  BY <1>4, <1>5 DEF Server
<1>7. ([leases |-> leases, replies |-> replies] \in Server(leases))'
  BY <1>6 DEF Server, Keeps, Tenancy, Reply, Resolver, Pool
<1>8. client' \in Stations(leases')
  <2>1. client' \in Stations(leases)
    BY <1>4, HearAllGood DEF LanInv
  <2> QED
    BY <1>1, <1>6, <2>1, StationsKept
<1>9. requests' \in Seq(Ask) /\ Len(requests') <= SocketCap
  <2>1. \A i \in n + 1 .. Len(requests) : requests[i] \in Ask
    BY <1>1, <1>2
  <2>2. n + 1 \in 1 .. Len(requests) + 1
    BY <1>1, <1>2
  <2>3. requests' \in Seq(Ask) /\ Len(requests') = IF n + 1 <= Len(requests) THEN Len(requests) - (n + 1) + 1 ELSE 0
    BY <1>1, <1>2, <1>4, <2>1, <2>2
  <2> QED
    BY <1>1, <1>2, <2>3
<1> QED
  BY <1>4, <1>7, <1>8, <1>9 DEF LanInv, Stations, Station, Ask, Resolver, Pool

LEMMA LanEnvGood ==
  ASSUME LanInv, LanEnv
  PROVE  LanInv'
<1>1. requests \in Seq(Ask) /\ around \in SUBSET Client /\ SocketCap \in Nat
  BY DhcpAssumption DEF LanInv
<1>2. ASSUME NEW c, NEW type, [from |-> c, type |-> type] \in Ask, Send(c, type)
      PROVE  LanInv'
  <2>1. requests' \in Seq(Ask) /\ Len(requests') <= SocketCap
    BY <1>1, <1>2 DEF Send
  <2>2. UNCHANGED <<leases, replies, LAN_DNS_OFFER, client, around>>
    BY <1>2 DEF Send
  <2> QED
    BY <2>1, <2>2 DEF LanInv, Server, Keeps, Tenancy, Reply, Stations, Station, Ask, Resolver, Pool
<1>3. CASE Stray
  <2>1. [from |-> NoOne, type |-> "Other"] \in Ask
    BY DEF Ask
  <2> QED
    BY <1>2, <1>3, <2>1 DEF Stray
<1>4. ASSUME NEW c \in around, Discover(c) \/ Request(c)
      PROVE  LanInv'
  <2>1. [from |-> c, type |-> "Discover"] \in Ask /\ [from |-> c, type |-> "Request"] \in Ask
    BY <1>1 DEF Ask
  <2> QED
    BY <1>2, <1>4, <2>1 DEF Discover, Request
<1>5. ASSUME NEW c \in around, Leave(c)
      PROVE  LanInv'
  <2>1. UNCHANGED <<leases, replies, requests, LAN_DNS_OFFER, around>> /\ client' = [client EXCEPT ![c] = Fresh]
    BY <1>5 DEF Leave
  <2>2. Fresh \in Station /\ Fresh.ip = NoOne
    BY DEF Fresh, Station
  <2>3. client' \in Stations(leases)
    BY <1>1, <2>1, <2>2 DEF LanInv, Stations
  <2> QED
    BY <2>1, <2>3 DEF LanInv, Server, Keeps, Tenancy, Reply, Stations, Station, Ask, Resolver, Pool
<1>6. CASE Settle
  BY <1>6 DEF Settle, LanInv, Server, Keeps, Tenancy, Reply, Stations, Station, Ask, Resolver, Pool
<1> QED
  BY <1>3, <1>4, <1>5, <1>6 DEF LanEnv
--------------------------------------------------------------------------------
\* The balance of the ping probe.

\* PingBalance of the client's state w, the socket's i and the history c, with the bound it stays in
Balanced(w, i, c) ==
  /\ i \in Icmp /\ i.out \in [Addr -> 0 .. MaxPings] /\ IsFiniteSet(UnderWay(i))
  /\ w.ping_ok \in Nat /\ w.ping_sent \in Nat /\ c \in Nat
  /\ w.ping_ok + Unanswered(i) <= w.ping_sent + c
  /\ w.ping_sent + c <= MaxPings

IsBalanced(s) == Balanced(s.wan, s.icmp, s.carried)

LEMMA Counts ==
  ASSUME NEW i \in Icmp, IsFiniteSet(UnderWay(i))
  PROVE  /\ i.tx \in Nat /\ i.rx \in Nat /\ Cardinality(UnderWay(i)) \in Nat
         /\ Unanswered(i) = i.tx + i.rx + Cardinality(UnderWay(i)) /\ Unanswered(i) \in Nat
<1>1. i.tx \in Nat /\ i.rx \in Nat /\ Cardinality(UnderWay(i)) \in Nat
  BY FS_CardinalityType DEF Icmp
<1> QED
  BY <1>1 DEF Unanswered

\* The number of echoes under way from an address is one of the bounds of them all.
LEMMA OutBound ==
  ASSUME NEW i \in Icmp, i.out \in [Addr -> 0 .. MaxPings], IsFiniteSet(UnderWay(i)), NEW a \in Addr
  PROVE  i.out[a] <= Cardinality(UnderWay(i))
<1> DEFINE n == i.out[a]
           f == [k \in 1 .. n |-> <<a, k>>]
<1>1. n \in 0 .. MaxPings /\ MaxPings \in Nat
  BY WanAssumption
<1>2. f \in Injection(1 .. n, UnderWay(i))
  <2>1. \A k \in 1 .. n : <<a, k>> \in UnderWay(i)
    BY <1>1 DEF UnderWay
  <2>2. \A j, k \in 1 .. n : f[j] = f[k] => j = k
    OBVIOUS
  <2>3. f \in [1 .. n -> UnderWay(i)]
    BY <2>1
  <2> QED
    BY <2>2, <2>3 DEF Injection, IsInjective
<1> HIDE DEF f
<1>3. Cardinality(1 .. n) <= Cardinality(UnderWay(i))
  BY <1>2, FS_Injection
<1>4. Cardinality(1 .. n) = n
  <2>1. 1 \in Int /\ n \in Int
    BY <1>1
  <2>2. Cardinality(1 .. n) = IF 1 > n THEN 0 ELSE n - 1 + 1
    BY <2>1, FS_Interval
  <2> QED
    BY <1>1, <2>2
<1> QED
  BY <1>3, <1>4

\* What an operator leaves alone
SameCounts(s, t) ==
  /\ t.icmp = s.icmp /\ t.carried = s.carried
  /\ t.wan.ping_ok = s.wan.ping_ok /\ t.wan.ping_sent = s.wan.ping_sent

LEMMA SameBalance ==
  ASSUME NEW s, NEW t, IsBalanced(s), SameCounts(s, t)
  PROVE  IsBalanced(t)
BY DEF IsBalanced, Balanced, SameCounts

LEMMA ApplyBalance ==
  ASSUME NEW s, IsClient(s), IsBalanced(s)
  PROVE  IsBalanced(dhcp_apply(s))
<1>1. s.wan \in Wan
  BY DEF IsClient
<1>2. CASE ~dhcp.changed
  BY <1>2 DEF dhcp_apply
<1>3. CASE dhcp.changed /\ dhcp.lease = None
  <2> DEFINE t == Deconfigured(s)
  <2>1. dhcp_apply(s) = t
    BY <1>3 DEF dhcp_apply
  <2>2. t.icmp = s.icmp /\ t.carried = Unanswered(s.icmp) /\ t.wan = WanNew
    BY DEF Deconfigured, IsClient
  <2>3. WanNew.ping_ok = 0 /\ WanNew.ping_sent = 0
    BY DEF WanNew
  <2>4. /\ Unanswered(s.icmp) \in Nat /\ s.wan.ping_ok \in Nat /\ s.wan.ping_sent \in Nat
        /\ s.carried \in Nat /\ MaxPings \in Nat
        /\ s.wan.ping_ok + Unanswered(s.icmp) <= s.wan.ping_sent + s.carried
        /\ s.wan.ping_sent + s.carried <= MaxPings
    BY Counts, WanAssumption DEF IsBalanced, Balanced
  <2>5. Unanswered(s.icmp) <= MaxPings
    BY <2>4
  <2> HIDE DEF t
  <2>6. IsBalanced(t)
    BY <2>2, <2>3, <2>4, <2>5 DEF IsBalanced, Balanced
  <2> QED
    BY <2>1, <2>6
<1>4. CASE dhcp.changed /\ dhcp.lease # None
  <2>1. SameCounts(s, dhcp_apply(s))
    BY <1>1, <1>4 DEF dhcp_apply, Configured, IsClient, SameCounts, Wan
  <2> QED
    BY <2>1, SameBalance
<1> QED
  BY <1>2, <1>3, <1>4

LEMMA DrainBalance ==
  ASSUME NEW s, IsClient(s), IsBalanced(s)
  PROVE  IsBalanced(ping_drain(s))
<1> DEFINE t == ping_drain(s)
<1>1. s.wan \in Wan /\ s.icmp \in Icmp
  BY DEF IsClient
<1>2. /\ t.icmp = [s.icmp EXCEPT !.rx = 0] /\ t.carried = s.carried
      /\ t.wan.ping_ok = s.wan.ping_ok + s.icmp.rx /\ t.wan.ping_sent = s.wan.ping_sent
  BY <1>1 DEF ping_drain, IsClient, Wan
<1> HIDE DEF t
<1>3. t.icmp \in Icmp /\ t.icmp.out = s.icmp.out /\ t.icmp.tx = s.icmp.tx /\ t.icmp.rx = 0
  BY <1>1, <1>2 DEF Icmp
<1>4. UnderWay(t.icmp) = UnderWay(s.icmp)
  BY <1>3 DEF UnderWay
<1>5. /\ IsFiniteSet(UnderWay(s.icmp)) /\ s.wan.ping_ok \in Nat /\ s.wan.ping_sent \in Nat
      /\ s.icmp.out \in [Addr -> 0 .. MaxPings]
      /\ s.carried \in Nat /\ MaxPings \in Nat
      /\ s.wan.ping_ok + Unanswered(s.icmp) <= s.wan.ping_sent + s.carried
      /\ s.wan.ping_sent + s.carried <= MaxPings
  BY WanAssumption DEF IsBalanced, Balanced
<1>6. /\ Unanswered(s.icmp) = s.icmp.tx + s.icmp.rx + Cardinality(UnderWay(s.icmp))
      /\ s.icmp.tx \in Nat /\ s.icmp.rx \in Nat /\ Cardinality(UnderWay(s.icmp)) \in Nat
  BY <1>1, <1>5, Counts
<1>7. Unanswered(t.icmp) = s.icmp.tx + Cardinality(UnderWay(s.icmp))
  BY <1>3, <1>4, <1>6 DEF Unanswered
<1>8. t.wan.ping_ok \in Nat /\ t.wan.ping_ok + Unanswered(t.icmp) <= t.wan.ping_sent + t.carried
  BY <1>2, <1>5, <1>6, <1>7
<1> QED
  BY <1>2, <1>3, <1>4, <1>5, <1>8 DEF IsBalanced, Balanced, t

LEMMA SendBalance ==
  ASSUME NEW s, IsClient(s), IsBalanced(s)
  PROVE  IsBalanced(ping_send(s))
<1> DEFINE t == ping_send(s)
<1>1. s.wan \in Wan /\ s.icmp \in Icmp
  BY DEF IsClient
<1>2. CASE s.icmp.tx >= EchoRoom \/ s.wan.ping_sent + s.carried >= MaxPings
  BY <1>2 DEF ping_send
<1>3. CASE ~(s.icmp.tx >= EchoRoom \/ s.wan.ping_sent + s.carried >= MaxPings)
  <2>1. /\ t.icmp = [s.icmp EXCEPT !.tx = @ + 1] /\ t.carried = s.carried
        /\ t.wan.ping_ok = s.wan.ping_ok /\ t.wan.ping_sent = s.wan.ping_sent + 1
    BY <1>1, <1>3 DEF ping_send, IsClient, Wan
  <2> HIDE DEF t
  <2>2. t.icmp \in Icmp /\ t.icmp.out = s.icmp.out /\ t.icmp.tx = s.icmp.tx + 1 /\ t.icmp.rx = s.icmp.rx
    BY <1>1, <2>1 DEF Icmp
  <2>3. UnderWay(t.icmp) = UnderWay(s.icmp)
    BY <2>2 DEF UnderWay
  <2>4. /\ IsFiniteSet(UnderWay(s.icmp)) /\ s.wan.ping_ok \in Nat /\ s.wan.ping_sent \in Nat
        /\ s.icmp.out \in [Addr -> 0 .. MaxPings]
        /\ s.carried \in Nat /\ MaxPings \in Nat
        /\ s.wan.ping_ok + Unanswered(s.icmp) <= s.wan.ping_sent + s.carried
    BY WanAssumption DEF IsBalanced, Balanced
  <2>5. /\ Unanswered(s.icmp) = s.icmp.tx + s.icmp.rx + Cardinality(UnderWay(s.icmp))
        /\ s.icmp.tx \in Nat /\ s.icmp.rx \in Nat /\ Cardinality(UnderWay(s.icmp)) \in Nat
    BY <1>1, <2>4, Counts
  <2>6. Unanswered(t.icmp) = s.icmp.tx + 1 + s.icmp.rx + Cardinality(UnderWay(s.icmp))
    BY <2>2, <2>3, <2>5 DEF Unanswered
  <2>7. /\ t.wan.ping_sent \in Nat /\ t.wan.ping_ok + Unanswered(t.icmp) <= t.wan.ping_sent + t.carried
        /\ t.wan.ping_sent + t.carried <= MaxPings
    BY <1>3, <2>1, <2>4, <2>5, <2>6
  <2> QED
    BY <2>1, <2>2, <2>3, <2>4, <2>7 DEF IsBalanced, Balanced, t
<1> QED
  BY <1>2, <1>3

LEMMA HarvestBalance ==
  ASSUME NEW s, IsClient(s), IsBalanced(s)
  PROVE  IsBalanced(dns_harvest(s))
<1>1. s.wan \in Wan
  BY DEF IsClient
<1>2. SameCounts(s, dns_harvest(s))
  BY <1>1 DEF dns_harvest, IsClient, SameCounts, Wan
<1> QED
  BY <1>2, SameBalance

LEMMA StartBalance ==
  ASSUME NEW s, IsClient(s), IsBalanced(s)
  PROVE  IsBalanced(dns_start(s))
<1>1. s.wan \in Wan
  BY DEF IsClient
<1>2. SameCounts(s, dns_start(s))
  BY <1>1 DEF dns_start, IsClient, SameCounts, Wan
<1> QED
  BY <1>2, SameBalance

PingInv == Balanced(wan, icmp, carried)

LEMMA PollBalance ==
  ASSUME WanInv, PingInv, NEW second, WanPoll(second)
  PROVE  PingInv'
<1> DEFINE s == [wan |-> wan, dns |-> dns, icmp |-> icmp, carried |-> carried]
           a == dhcp_apply(s)
           b == ping_drain(a)
           h == dns_harvest(b)
           t == Probe(h, second)
<1>1. IsClient(s) /\ IsBalanced(s) /\ HandleGood(s.wan, s.dns) /\ dhcp.lease \in Lease \cup {None}
  BY DEF WanInv, PingInv, IsClient, IsBalanced
<1>2. t.wan = wan' /\ t.icmp = icmp' /\ t.carried = carried'
  BY DEF WanPoll
<1> HIDE DEF s
<1>3. IsClient(a) /\ IsBalanced(a) /\ HandleGood(a.wan, a.dns)
  BY <1>1, ApplyGood, ApplyBalance
<1> HIDE DEF a
<1>4. IsClient(b) /\ IsBalanced(b) /\ HandleGood(b.wan, b.dns)
  BY <1>3, DrainGood, DrainBalance
<1> HIDE DEF b
<1>5. IsClient(h) /\ IsBalanced(h) /\ HandleGood(h.wan, h.dns)
  BY <1>4, HarvestGood, HarvestBalance
<1> HIDE DEF h
<1>6. IsBalanced(t)
  <2>1. IsClient(ping_send(h)) /\ IsBalanced(ping_send(h))
    BY <1>5, SendGood, SendBalance
  <2>2. IsBalanced(dns_start(ping_send(h)))
    BY <2>1, StartBalance
  <2> QED
    BY <1>5, <2>2 DEF Probe
<1> HIDE DEF t
<1>7. Balanced(wan', icmp', carried')
  BY <1>2, <1>6 DEF IsBalanced
<1> QED
  BY <1>7 DEF PingInv, Balanced, Icmp, UnderWay, Unanswered, Addr

\* An echo is counted wherever it is.
LEMMA EnvBalance ==
  ASSUME WanInv, PingInv, NEW offered \in SUBSET Lease, WanEnv(offered)
  PROVE  PingInv'
<1> DEFINE U == UnderWay(icmp)
           V == UnderWay(icmp')
           C == Cardinality(U)
           D == Cardinality(V)
<1>1. /\ icmp \in Icmp /\ icmp.out \in [Addr -> 0 .. MaxPings] /\ IsFiniteSet(U)
      /\ wan.ping_ok \in Nat /\ wan.ping_sent \in Nat /\ carried \in Nat /\ MaxPings \in Nat
      /\ wan.ping_ok + Unanswered(icmp) <= wan.ping_sent + carried
      /\ wan.ping_sent + carried <= MaxPings /\ wan.addr \in Addr \cup {None}
  BY WanAssumption DEF PingInv, Balanced, WanInv, Wan
<1>2. icmp.tx \in Nat /\ icmp.rx \in Nat /\ C \in Nat /\ Unanswered(icmp) = icmp.tx + icmp.rx + C
  BY <1>1, Counts
<1>3. SUFFICES /\ icmp' \in Icmp /\ icmp'.out \in [Addr -> 0 .. MaxPings] /\ IsFiniteSet(V)
               /\ wan' = wan /\ carried' = carried
               /\ icmp'.tx + icmp'.rx + D <= icmp.tx + icmp.rx + C
  <2>1. /\ icmp' \in Icmp /\ icmp'.out \in [Addr -> 0 .. MaxPings] /\ IsFiniteSet(V)
        /\ wan' = wan /\ carried' = carried
        /\ icmp'.tx + icmp'.rx + D <= icmp.tx + icmp.rx + C
    BY <1>3
  <2>2. /\ icmp'.tx \in Nat /\ icmp'.rx \in Nat /\ D \in Nat
        /\ Unanswered(icmp') = icmp'.tx + icmp'.rx + D
    BY <2>1, Counts
  <2> HIDE DEF C, D
  <2>3. wan.ping_ok + Unanswered(icmp') <= wan.ping_sent + carried
    BY <1>1, <1>2, <2>1, <2>2
  <2>4. Balanced(wan', icmp', carried')
    BY <1>1, <2>1, <2>3 DEF Balanced
  <2> QED
    BY <2>4 DEF PingInv, Balanced, Icmp, UnderWay, Unanswered, Addr
<1>4. CASE UNCHANGED <<icmp, wan, carried>>
  BY <1>1, <1>2, <1>4
<1>5. CASE EchoLeaves /\ wan.addr = None
  <2>1. icmp' = [icmp EXCEPT !.tx = @ - 1] /\ icmp.tx > 0 /\ wan' = wan /\ carried' = carried
    BY <1>5 DEF EchoLeaves
  <2>2. icmp' \in Icmp /\ icmp'.out = icmp.out /\ icmp'.rx = icmp.rx /\ icmp'.tx = icmp.tx - 1
    BY <1>1, <1>2, <2>1 DEF Icmp
  <2>3. V = U
    BY <2>2 DEF UnderWay
  <2> QED
    BY <1>1, <1>2, <2>1, <2>2, <2>3
<1>6. CASE EchoLeaves /\ wan.addr # None
  <2> DEFINE a == wan.addr
             n == icmp.out[a] + 1
  <2>1. icmp' = [icmp EXCEPT !.tx = @ - 1, !.out[a] = @ + 1] /\ icmp.tx > 0
        /\ wan' = wan /\ carried' = carried /\ a \in Addr
    BY <1>1, <1>6 DEF EchoLeaves
  <2>2. icmp.out[a] \in Nat /\ icmp.out[a] <= C /\ n \in 1 .. MaxPings
    <3>1. icmp.out[a] \in Nat /\ icmp.out[a] <= C
      BY <1>1, <2>1, OutBound
    <3> HIDE DEF C
    <3> QED
      BY <1>1, <1>2, <2>1, <3>1
  <2>3. /\ icmp'.tx = icmp.tx - 1 /\ icmp'.rx = icmp.rx /\ icmp'.out = [icmp.out EXCEPT ![a] = n]
        /\ icmp' \in Icmp
    <3>1. icmp.tx - 1 \in Nat /\ n \in Nat
      BY <1>1, <1>2, <2>1, <2>2
    <3> QED
      BY <1>1, <2>1, <3>1 DEF Icmp
  <2>4. icmp'.out \in [Addr -> 0 .. MaxPings] /\ icmp'.out[a] = n /\ \A c \in Addr \ {a} : icmp'.out[c] = icmp.out[c]
    BY <1>1, <2>1, <2>2, <2>3
  <2>5. V = U \cup {<<a, n>>} /\ <<a, n>> \notin U
    <3>1. \A c \in Addr, k \in 1 .. MaxPings :
            k <= icmp'.out[c] <=> k <= icmp.out[c] \/ (c = a /\ k = n)
      <4>1. \A k \in 1 .. MaxPings : k <= n <=> k <= icmp.out[a] \/ k = n
        BY <1>1, <2>2
      <4> QED
        BY <2>4, <4>1
    <3>2. <<a, n>> \in Addr \X (1 .. MaxPings) /\ ~(n <= icmp.out[a])
      BY <2>1, <2>2
    <3> QED
      BY <3>1, <3>2 DEF UnderWay
  <2>6. IsFiniteSet(V) /\ D = C + 1
    <3> HIDE DEF U, V, n
    <3> QED
      BY <1>1, <2>5, FS_AddElement
  <2> HIDE DEF C, D
  <2> QED
    BY <1>1, <1>2, <2>1, <2>3, <2>4, <2>6
<1>7. ASSUME NEW a \in Addr, NEW taken \in BOOLEAN, EchoEnds(a, taken)
      PROVE  /\ icmp' \in Icmp /\ icmp'.out \in [Addr -> 0 .. MaxPings] /\ IsFiniteSet(V)
             /\ wan' = wan /\ carried' = carried
             /\ icmp'.tx + icmp'.rx + D <= icmp.tx + icmp.rx + C
  <2> DEFINE n == icmp.out[a]
  <2>1. /\ icmp' = [icmp EXCEPT !.out[a] = @ - 1, !.rx = IF taken THEN @ + 1 ELSE @] /\ icmp.out[a] > 0
        /\ wan' = wan /\ carried' = carried
    BY <1>7 DEF EchoEnds
  <2>2. n \in 1 .. MaxPings
    BY <1>1, <2>1
  <2>3. /\ icmp'.tx = icmp.tx /\ icmp'.rx \in {icmp.rx, icmp.rx + 1} /\ icmp'.out = [icmp.out EXCEPT ![a] = n - 1]
        /\ icmp' \in Icmp
    <3>1. n - 1 \in Nat /\ (IF taken THEN icmp.rx + 1 ELSE icmp.rx) \in Nat
      BY <1>2, <2>2
    <3> QED
      BY <1>1, <1>2, <2>1, <3>1 DEF Icmp
  <2>4. icmp'.out \in [Addr -> 0 .. MaxPings] /\ icmp'.out[a] = n - 1 /\ \A c \in Addr \ {a} : icmp'.out[c] = icmp.out[c]
    BY <1>1, <2>2, <2>3
  <2>5. V = U \ {<<a, n>>} /\ <<a, n>> \in U
    <3>1. \A c \in Addr, k \in 1 .. MaxPings :
            k <= icmp'.out[c] <=> k <= icmp.out[c] /\ ~(c = a /\ k = n)
      BY <1>1, <2>2, <2>4
    <3>2. <<a, n>> \in Addr \X (1 .. MaxPings) /\ n <= icmp.out[a]
      BY <2>2
    <3> QED
      BY <3>1, <3>2 DEF UnderWay
  <2>6. IsFiniteSet(V) /\ D = C - 1
    <3> HIDE DEF U, V, n
    <3> QED
      BY <1>1, <2>5, FS_RemoveElement
  <2> HIDE DEF C, D
  <2> QED
    BY <1>1, <1>2, <2>1, <2>3, <2>4, <2>6
<1> HIDE DEF C, D, V
<1> QED
  BY <1>4, <1>5, <1>6, <1>7 DEF WanEnv, DhcpAck, DhcpLost, DnsEnds
--------------------------------------------------------------------------------
\* Both sides, in every build.

ServicesInv == WanInv /\ PingInv /\ LanInv

LEMMA ServicesStart == Init => ServicesInv
<1> SUFFICES ASSUME Init
             PROVE  PingInv /\ LanInv
  BY InitGood DEF ServicesInv
<1>1. PingInv
  <2>1. /\ icmp = [tx |-> 0, out |-> [a \in Addr |-> 0], rx |-> 0] /\ wan = WanNew /\ carried = 0
        /\ MaxPings \in Nat
    BY WanAssumption DEF Init, WanInit
  <2>2. icmp \in Icmp /\ icmp.out \in [Addr -> 0 .. MaxPings] /\ icmp.tx = 0 /\ icmp.rx = 0
    BY <2>1 DEF Icmp
  <2>3. UnderWay(icmp) = {}
    BY <2>1 DEF UnderWay
  <2>4. IsFiniteSet(UnderWay(icmp)) /\ Unanswered(icmp) = 0
    BY <2>2, <2>3, FS_EmptySet DEF Unanswered
  <2> QED
    BY <2>1, <2>2, <2>4 DEF PingInv, Balanced, WanNew
<1>2. LanInv
  <2>1. /\ leases = [i \in Pool |-> NoOne] /\ requests = <<>> /\ replies = <<>> /\ LAN_DNS_OFFER = Google
        /\ client = [c \in Client |-> Fresh] /\ around \in SUBSET Client /\ SocketCap \in Nat
    BY DhcpAssumption DEF Init, LanInit
  <2>2. leases \in Tenancy /\ Keeps(leases, leases)
    BY <2>1 DEF Tenancy, Keeps
  <2>3. replies \in Seq(Reply) /\ requests \in Seq(Ask) /\ Len(replies) = 0 /\ Len(requests) = 0 /\ DOMAIN replies = {}
    BY <2>1
  <2>4. [leases |-> leases, replies |-> replies] \in Server(leases)
    BY <2>1, <2>2, <2>3 DEF Server
  <2>5. client \in Stations(leases)
    BY <2>1 DEF Stations, Station, Fresh
  <2> QED
    BY <2>1, <2>3, <2>4, <2>5 DEF LanInv, Resolver
<1> QED
  BY <1>1, <1>2

\* The only thing a step of the client changes on the LAN's side is the resolver.
LEMMA OfferGood ==
  ASSUME LanInv, LAN_DNS_OFFER' \in Resolver, UNCHANGED <<leases, requests, replies, client, around, calm>>
  PROVE  LanInv'
BY DEF LanInv, Server, Keeps, Tenancy, Reply, Stations, Station, Ask, Resolver, Pool

LEMMA ServicesStep == ServicesInv /\ [Next]_vars => ServicesInv'
<1> SUFFICES ASSUME ServicesInv, [Next]_vars
             PROVE  PingInv' /\ LanInv' /\ WanInv'
  BY DEF ServicesInv
<1>0. WanInv /\ PingInv /\ LanInv /\ WanInv'
  BY StepGood DEF ServicesInv
<1>1. ASSUME UNCHANGED wanVars
      PROVE  PingInv'
  BY <1>0, <1>1 DEF wanVars, PingInv, Balanced, Icmp, UnderWay, Unanswered, Addr
<1>2. ASSUME UNCHANGED lanVars
      PROVE  LanInv'
  BY <1>0, <1>2 DEF lanVars, LanInv, Server, Keeps, Tenancy, Reply, Stations, Station, Ask, Resolver, Pool
<1>3. ASSUME NEW second \in Seconds, WanStep(second)
      PROVE  PingInv' /\ LanInv'
  <2>1. WanPoll(second) /\ UNCHANGED <<leases, requests, replies, client, around, calm>>
        /\ LAN_DNS_OFFER' \in {LAN_DNS_OFFER, wan'.dns0}
    BY <1>3 DEF WanStep, Offer
  <2>2. LAN_DNS_OFFER' \in Resolver
    BY <1>0, <2>1 DEF LanInv, WanInv, Wan, Resolver, First, Servers
  <2> QED
    BY <1>0, <2>1, <2>2, PollBalance, OfferGood
<1>4. CASE WanPart(WanEnv(IF build = "nic" THEN NicLeases ELSE RouterLeases))
  <2> DEFINE offered == IF build = "nic" THEN NicLeases ELSE RouterLeases
  <2>1. offered \in SUBSET Lease
    BY ServicesAssumption
  <2>2. WanEnv(offered) /\ UNCHANGED lanVars
    BY <1>4 DEF WanPart
  <2>. HIDE DEF offered
  <2> QED
    BY <1>0, <1>2, <2>1, <2>2, EnvBalance
<1>5. ASSUME NEW busy \in BOOLEAN, NEW heard, LanPoll(busy, heard), UNCHANGED wanVars
      PROVE  PingInv' /\ LanInv'
  BY <1>0, <1>1, <1>5, LanPollGood
<1>6. CASE LanPart(LanEnv)
  <2>1. LanEnv /\ UNCHANGED wanVars
    BY <1>6 DEF LanPart
  <2> QED
    BY <1>0, <1>1, <2>1, LanEnvGood
<1>7. CASE UNCHANGED vars
  BY <1>0, <1>1, <1>2, <1>7 DEF vars
<1>8. CASE LanPart(\E busy \in BOOLEAN, heard \in SUBSET around : LanPoll(busy, heard))
  <2>1. PICK busy \in BOOLEAN, heard \in SUBSET around : LanPoll(busy, heard)
    BY <1>8 DEF LanPart
  <2>2. UNCHANGED wanVars
    BY <1>8 DEF LanPart
  <2> QED
    BY <1>0, <1>5, <2>1, <2>2
<1>9. CASE \E second \in Seconds : WanStep(second)
  BY <1>0, <1>3, <1>9
<1>10. CASE Next
  BY <1>4, <1>6, <1>8, <1>9, <1>10 DEF Next
<1> QED
  BY <1>0, <1>7, <1>10

\* A reply to a ping is counted once and never more of them than echoes were sent, whatever resets
\* of WanState, changes of address and lost or late replies come in between.  (ping_send,
\* ping_drain, the reset in dhcp_apply)
THEOREM EchoesBalance == Spec => []PingBalance
<1>1. ServicesInv => PingBalance
  <2> SUFFICES ASSUME ServicesInv
               PROVE  PingBalance
    OBVIOUS
  <2>1. /\ icmp \in Icmp /\ icmp.out \in [Addr -> 0 .. MaxPings] /\ IsFiniteSet(UnderWay(icmp))
        /\ wan.ping_ok \in Nat /\ wan.ping_sent \in Nat /\ carried \in Nat /\ MaxPings \in Nat
        /\ wan.ping_ok + Unanswered(icmp) <= wan.ping_sent + carried
        /\ wan.ping_sent + carried <= MaxPings
        /\ wan \in Wan /\ dns \in Dns /\ dhcp \in [lease : Lease \cup {None}, changed : BOOLEAN]
    BY WanAssumption DEF ServicesInv, PingInv, Balanced, WanInv
  <2>2. /\ icmp.tx \in Nat /\ icmp.rx \in Nat /\ Cardinality(UnderWay(icmp)) \in Nat
        /\ Unanswered(icmp) = icmp.tx + icmp.rx + Cardinality(UnderWay(icmp))
    BY <2>1, Counts
  <2>3. /\ icmp.tx \in 0 .. MaxPings /\ icmp.rx \in 0 .. MaxPings /\ wan.ping_sent \in 0 .. MaxPings
        /\ wan.ping_ok \in 0 .. MaxPings /\ carried \in 0 .. MaxPings
    BY <2>1, <2>2
  <2>4. icmp \in [tx : 0 .. MaxPings, out : [Addr -> 0 .. MaxPings], rx : 0 .. MaxPings]
    BY <2>1, <2>3 DEF Icmp
  <2>5. wan \in [addr : Addr \cup {None}, gw : {l.gw : l \in Lease} \cup {None},
                 dns0 : {First(q) : q \in Servers}, ping_sent : 0 .. MaxPings, ping_ok : 0 .. MaxPings,
                 dns_query : Slot \cup {None}, resolved : BOOLEAN]
    BY <2>1, <2>3 DEF Wan
  <2>6. WanTypeOK
    BY <2>1, <2>3, <2>4, <2>5 DEF WanTypeOK, Dns
  <2> QED
    BY <2>1, <2>6 DEF PingBalance
<1> QED
  BY <1>1, ServicesStart, ServicesStep, PTL DEF Spec

\* No two clients of the LAN ever use, or are about to be told, the same address, for any number of
\* clients, any pool and any queue, across losses, repeated and renewed requests and clients that
\* come back.  (DhcpServer::allocate, poll)
THEOREM AddressesAreMine == Spec => []AddressIsMine
<1>1. ServicesInv => AddressIsMine
  <2> SUFFICES ASSUME ServicesInv
               PROVE  AddressIsMine
    OBVIOUS
  <2>1. /\ leases \in Tenancy /\ replies \in Seq(Reply) /\ Len(replies) <= SocketCap
        /\ \A i \in DOMAIN replies : leases[replies[i].ip] = replies[i].to
    <3> DEFINE t == [leases |-> leases, replies |-> replies]
    <3>1. t \in Server(leases) /\ t.leases = leases /\ t.replies = replies
      BY DEF ServicesInv, LanInv
    <3> HIDE DEF t
    <3> QED
      BY <3>1 DEF Server
  <2>2. requests \in Seq(Ask) /\ Len(requests) <= SocketCap /\ client \in Stations(leases)
    BY DEF ServicesInv, LanInv
  <2>3. \A i \in DOMAIN requests :
          requests[i] \in [from : Client \cup {NoOne}, type : {"Discover", "Request", "Other"}]
    BY <2>2 DEF Ask
  <2>4. \A i \in DOMAIN replies :
          /\ replies[i].to \in Client /\ replies[i].type \in {"Offer", "Ack"} /\ replies[i].ip \in Pool
    <3>1. \A i \in DOMAIN replies : replies[i] \in Reply
      BY <2>1
    <3> QED
      BY <3>1 DEF Reply
  <2>5. \A c \in Client : client[c].ip \in Pool \cup {NoOne} /\ client[c].offered \in BOOLEAN
    BY <2>2 DEF Stations, Station
  <2>6. leases \in [Pool -> Client \cup {NoOne}]
    BY <2>1 DEF Tenancy
  <2>7. LanTypeOK
    BY <2>1, <2>2, <2>3, <2>4, <2>5, <2>6 DEF LanTypeOK
  <2> QED
    BY <2>1, <2>2, <2>7 DEF AddressIsMine, Tenancy, Stations
<1> QED
  BY <1>1, ServicesStart, ServicesStep, PTL DEF Spec
================================================================================
