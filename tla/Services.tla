-------------------------------- MODULE Services --------------------------------
(***************************************************************************)
(* The WAN client and the LAN's DHCP server in the three builds that have  *)
(* them: main_10bt's loop with wan-dhcp has the client alone, the wireless *)
(* build the server alone.  In the router wan_task and net_task share a    *)
(* cooperative executor and one atomic, LAN_DNS_OFFER: wan_task stores the *)
(* resolver of its lease there, the DHCP server reads it for each reply.   *)
(***************************************************************************)
EXTENDS WanClient, DhcpServer

CONSTANTS
  NicLeases, RouterLeases,  \* bound: the leases that come up in each instance
  RouterClients             \* bound: the clients of the router's instance

ASSUME ServicesAssumption ==
  /\ NicLeases \subseteq Lease /\ RouterLeases \subseteq Lease
  /\ RouterClients \subseteq Client

VARIABLE build   \* "nic" with wan-dhcp, "wireless" or "router"

HasWan == build # "wireless"
HasLan == build # "nic"

vars == <<wanVars, lanVars, build>>

\* Exactly one arm is compiled per build.  What the builds have in common is explored in one of
\* them: the probes in the NIC's instance, all clients in the wireless one.
Init ==
  /\ WanInit /\ LanInit
  /\ \/ build = "nic" /\ around = {}
     \/ build = "wireless" /\ around = Client
     \/ build = "router" /\ around = RouterClients

OfferOnce == LAN_DNS_OFFER' = IF LAN_DNS_OFFER = Google /\ wan'.dns0 # None THEN wan'.dns0 ELSE LAN_DNS_OFFER

\* wan_task's loop offers the resolver after dhcp_apply, if the lease has one.
Offer == LAN_DNS_OFFER' = IF wan'.dns0 # None THEN wan'.dns0 ELSE LAN_DNS_OFFER

WanStep(second) ==
  /\ WanPoll(second)
  /\ IF build = "router" THEN Offer ELSE UNCHANGED LAN_DNS_OFFER
  /\ UNCHANGED <<leases, requests, replies, client, around, calm, build>>

WanPart(A) == HasWan /\ A /\ UNCHANGED <<lanVars, build>>
LanPart(A) == HasLan /\ A /\ UNCHANGED <<wanVars, build>>

\* Bound: no second passes in the router's instance, where only the lease matters.
Seconds == IF build = "nic" THEN BOOLEAN ELSE {FALSE}

Next ==
  \/ HasWan /\ \E second \in Seconds : WanStep(second)
  \/ WanPart(WanEnv(IF build = "nic" THEN NicLeases ELSE RouterLeases))
  \/ LanPart(\E busy \in BOOLEAN, heard \in SUBSET around : LanPoll(busy, heard))
  \/ LanPart(LanEnv)

\* Both loops are polled every few milliseconds and a second passes again and again; a pending
\* query ends, smoltcp retransmits it and gives up.  The client that wants an address, or to renew
\* it, asks until it is heard, and the radio settles: of the other clients nothing is assumed.
Fairness ==
  /\ WF_vars(build = "nic" /\ WanStep(TRUE)) /\ WF_vars(build = "router" /\ WanStep(FALSE))
  /\ \A i \in Slot : WF_vars(WanPart(\E how \in {"done", "failed"} : DnsEnds(i, how)))
  /\ WF_vars(LanPart(LanPoll(FALSE, around)))
  /\ WF_vars(LanPart(Settle))
  /\ SF_vars(LanPart(Asker \in around /\ Discover(Asker)))
  /\ SF_vars(LanPart(Asker \in around /\ Request(Asker)))

Spec == Init /\ [][Next]_vars /\ Fairness

\* As long as a slot is left, a client with a resolver always has a query on the wire again: every
\* query that ends is harvested, whatever its end, and the next one is started.
\* (dns_start, dns_harvest)
DnsProbeGoesOn == []<>(build # "nic" \/ ProbeUnderWay)

\* A client that keeps its address is told of a new resolver when it renews: while the WAN keeps
\* resolver d, it does not keep another for good.  (wan_task's store, build_reply's load)
ResolverReaches ==
  \A d \in {First(l.servers) : l \in Lease} \ {None} :
    []<>(wan.dns0 # d \/ client[Asker].dns \in {NoOne, d})
================================================================================
