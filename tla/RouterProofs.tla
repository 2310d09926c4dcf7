------------------------------- MODULE RouterProofs -------------------------------
(***************************************************************************)
(* Safety of the forwarder for every number of hosts, flows and leases and *)
(* every size of the tables, queues and buffers.                           *)
(*                                                                         *)
(* The inductive invariant RouterInv has one part per structure: the       *)
(* neighbor tables hold one entry per host, with the MAC it last used, and *)
(* none before the first lease; the queues and the counters balance; every *)
(* live binding is one its flow was sent out under, so what a live binding *)
(* lets in is for the client that sent.  A step disturbs a structure in    *)
(* few ways (NeighStep, BookStep, NatStep): each action is shown to be one *)
(* of them, and each of them to preserve its part.                         *)
(***************************************************************************)
EXTENDS Router, SequenceTheorems, TLAPS

\* One entry per address: what makes the first match the only one.
Unique(tab) == \A i, j \in DOMAIN tab.entry : tab.entry[i].ip = tab.entry[j].ip => i = j

\* The capacities are positive, as RouterAssumption has them.
LEMMA Caps == /\ NatCap \in Nat \ {0} /\ NeighCap \in Nat \ {0} /\ ChanDepth \in Nat \ {0}
              /\ TxCap \in Nat \ {0} /\ MaxFrames \in Nat
BY RouterAssumption DEF RouterAssumption

\* The scan of the table finds the host's entry.
LEMMA FoundIndex ==
  ASSUME NEW I, NEW M, NEW tab \in NeighTable(I, M), Unique(tab), NEW ip, EntriesFor(tab, ip) # {}
  PROVE  /\ FirstIndex(EntriesFor(tab, ip)) \in DOMAIN tab.entry
         /\ tab.entry[FirstIndex(EntriesFor(tab, ip))].ip = ip
<1> DEFINE S == EntriesFor(tab, ip)
<1>1. S \subseteq DOMAIN tab.entry /\ \A i \in S : tab.entry[i].ip = ip
  BY DEF EntriesFor
<1>2. DOMAIN tab.entry \subseteq Nat
  BY DEF NeighTable
<1>3. \A i, j \in S : i = j
  BY <1>1 DEF Unique
<1>4. \E i \in S : \A j \in S : i <= j
  BY <1>1, <1>2, <1>3
<1>5. FirstIndex(S) \in S
  BY <1>4 DEF FirstIndex
<1> QED BY <1>1, <1>5

\* insert refreshes the host's entry, or takes a free slot, or overwrites another host's.
LEMMA InsertTable ==
  ASSUME NEW I, NEW M, NEW tab \in NeighTable(I, M), Unique(tab), Len(tab.entry) <= NeighCap,
         NEW ip \in I, NEW mac \in M
  PROVE  /\ Insert(tab, ip, mac) \in NeighTable(I, M)
         /\ Len(Insert(tab, ip, mac).entry) <= NeighCap
         /\ Unique(Insert(tab, ip, mac))
         /\ \A j \in DOMAIN Insert(tab, ip, mac).entry :
              LET x == Insert(tab, ip, mac).entry[j]
              IN  \/ x = [ip |-> ip, mac |-> mac]
                  \/ x.ip # ip /\ \E i \in DOMAIN tab.entry : x = tab.entry[i]
<1> DEFINE E   == [ip : I, mac : M]
           old == tab.entry
           e   == [ip |-> ip, mac |-> mac]
           new == Insert(tab, ip, mac)
<1>1. /\ old \in Seq(E) /\ tab.next \in 0 .. NeighCap - 1 /\ Len(old) \in Nat
      /\ tab = [entry |-> old, next |-> tab.next] /\ NeighCap \in Nat \ {0}
  BY Caps DEF NeighTable
<1>2. e \in E /\ e.ip = ip
  OBVIOUS
<1>3. DOMAIN old = 1 .. Len(old) /\ \A i \in 1 .. Len(old) : old[i] \in E
  <2> HIDE DEF E, old
  <2> QED BY <1>1, LenProperties, ElementOfSeq
<1>4. \A i, j \in 1 .. Len(old) : old[i].ip = old[j].ip => i = j
  BY <1>3 DEF Unique
<1>5. SUFFICES \E n : \/ /\ new.entry = [old EXCEPT ![n] = e]
                         /\ n \in 1 .. Len(old)
                         /\ new \in NeighTable(I, M)
                         /\ old[n].ip = ip \/ \A i \in 1 .. Len(old) : old[i].ip # ip
                      \/ /\ new.entry = Append(old, e)
                         /\ new \in NeighTable(I, M)
                         /\ \A i \in 1 .. Len(old) : old[i].ip # ip
                         /\ Len(old) < NeighCap
  <2> HIDE DEF E, old, e, new
  <2>1. PICK n : \/ /\ new.entry = [old EXCEPT ![n] = e]
                    /\ n \in 1 .. Len(old)
                    /\ new \in NeighTable(I, M)
                    /\ old[n].ip = ip \/ \A i \in 1 .. Len(old) : old[i].ip # ip
                 \/ /\ new.entry = Append(old, e)
                    /\ new \in NeighTable(I, M)
                    /\ \A i \in 1 .. Len(old) : old[i].ip # ip
                    /\ Len(old) < NeighCap
    BY <1>5
  <2> DEFINE s == new.entry
  <2>2. CASE s = [old EXCEPT ![n] = e] /\ n \in 1 .. Len(old)
             /\ (old[n].ip = ip \/ \A i \in 1 .. Len(old) : old[i].ip # ip)
    <3> HIDE DEF s
    <3>1. /\ s \in Seq(E) /\ Len(s) = Len(old)
          /\ \A j \in 1 .. Len(old) : s[j] = IF j = n THEN e ELSE old[j]
      BY <2>2, <1>1, <1>2, ExceptSeq
    <3>2. DOMAIN s = 1 .. Len(old)
      BY <3>1
    <3>3. \A j \in 1 .. Len(old) : j # n => old[j].ip # ip
      BY <2>2, <1>4
    <3>4. \A i, j \in 1 .. Len(old) : s[i].ip = s[j].ip => i = j
      BY <3>1, <3>3, <1>2, <1>4
    <3>5. \A j \in 1 .. Len(old) : s[j] = e \/ (s[j].ip # ip /\ \E i \in 1 .. Len(old) : s[j] = old[i])
      BY <3>1, <3>3
    <3> QED BY <2>1, <3>1, <3>2, <3>4, <3>5, <1>3 DEF s, Unique, new, old, e
  <2>3. CASE s = Append(old, e) /\ (\A i \in 1 .. Len(old) : old[i].ip # ip) /\ Len(old) < NeighCap
    <3> HIDE DEF s
    <3> DEFINE k == Len(old)
    <3>1. /\ s \in Seq(E) /\ Len(s) = k + 1
          /\ \A j \in 1 .. k : s[j] = old[j]
          /\ s[k + 1] = e
      BY <2>3, <1>1, <1>2, AppendProperties
    <3>2. k \in Nat /\ k < NeighCap /\ NeighCap \in Nat
      BY <1>1, <2>3
    <3>3. DOMAIN s = 1 .. (k + 1) /\ DOMAIN old = 1 .. k
      BY <3>1, <1>3
    <3>3a. /\ \A j \in 1 .. k : old[j].ip # ip
           /\ \A i, j \in 1 .. k : old[i].ip = old[j].ip => i = j
      BY <2>3, <1>4
    <3> HIDE DEF k
    <3>4. \A j \in 1 .. (k + 1) : j \in 1 .. k \/ j = k + 1
      BY <3>2
    <3>5. \A i, j \in 1 .. (k + 1) : s[i].ip = s[j].ip => i = j
      BY <3>1, <3>3a, <3>4, <1>2
    <3>6. \A j \in 1 .. (k + 1) : s[j] = e \/ (s[j].ip # ip /\ \E i \in 1 .. k : s[j] = old[i])
      BY <3>1, <3>3a, <3>4
    <3>7. Len(s) <= NeighCap
      BY <3>1, <3>2
    <3> QED BY <2>1, <3>7, <3>3, <3>5, <3>6 DEF s, Unique, new, old, e
  <2> QED BY <2>1, <2>2, <2>3
<1>6. CASE EntriesFor(tab, ip) # {}
  <2> DEFINE n == FirstIndex(EntriesFor(tab, ip))
  <2>1. n \in 1 .. Len(old) /\ old[n].ip = ip
    BY <1>6, <1>3, FoundIndex
  <2> HIDE DEF n
  <2>2. [old EXCEPT ![n] = e] \in Seq(E)
    BY <2>1, <1>1, <1>2, ExceptSeq
  <2>3. new = [entry |-> [old EXCEPT ![n] = e], next |-> tab.next]
    BY <1>1, <1>6 DEF Insert, n
  <2>4. new \in NeighTable(I, M) /\ new.entry = [old EXCEPT ![n] = e]
    BY <1>1, <2>2, <2>3 DEF NeighTable
  <2> HIDE DEF new, old, e
  <2> QED BY <2>1, <2>4
<1>7. CASE EntriesFor(tab, ip) = {}
  <2>1. \A i \in 1 .. Len(old) : old[i].ip # ip
    BY <1>7, <1>3 DEF EntriesFor
  <2>2. new = InsertFresh(tab, e)
    BY <1>7 DEF Insert
  <2>3. CASE Len(old) < NeighCap
    <3>1. new = [entry |-> Append(old, e), next |-> tab.next]
      BY <1>1, <2>2, <2>3 DEF InsertFresh
    <3>2. Append(old, e) \in Seq(E)
      BY <1>1, <1>2, AppendProperties
    <3> QED BY <2>1, <2>3, <3>1, <3>2, <1>1 DEF NeighTable
  <2>4. CASE ~(Len(old) < NeighCap)
    <3> DEFINE n == tab.next + 1
    <3>1. n \in 1 .. Len(old)
      BY <1>1, <2>4
    <3>2. new = [entry |-> [old EXCEPT ![n] = e], next |-> (tab.next + 1) % NeighCap]
      BY <2>2, <2>4 DEF InsertFresh
    <3>3. (tab.next + 1) % NeighCap \in 0 .. NeighCap - 1
      BY <1>1
    <3> HIDE DEF n
    <3>4. [old EXCEPT ![n] = e] \in Seq(E)
      BY <3>1, <1>1, <1>2, ExceptSeq
    <3>5. new \in NeighTable(I, M) /\ new.entry = [old EXCEPT ![n] = e]
      BY <3>2, <3>3, <3>4 DEF NeighTable
    <3> HIDE DEF new, old, e
    <3> QED BY <2>1, <3>1, <3>5
  <2> QED BY <2>3, <2>4
<1> QED BY <1>6, <1>7
--------------------------------------------------------------------------------
\* The inductive invariant

ControlInv ==
  /\ at \in {"idle", "lan.poll", "lan.drain", "wan.poll", "wan.drain"}
  /\ {cfg, wan} \subseteq Lease \cup {None}
  /\ {prev_gw, asked} \subseteq WanHost \cup {None}
  /\ lanTx \in 0 .. TxCap

NeighInv ==
  /\ neigh \in [Iface -> NeighTable(Client, Client) \cup NeighTable(WanHost, Mac)]
  /\ neigh.lan \in NeighTable(Client, Client) /\ neigh.wan \in NeighTable(WanHost, Mac)
  /\ Len(neigh.lan.entry) <= NeighCap /\ Len(neigh.wan.entry) <= NeighCap
  /\ Unique(neigh.lan) /\ Unique(neigh.wan)
  /\ heard \in [WanHost -> Mac \cup {None}]
  /\ \A i \in DOMAIN neigh.wan.entry :
       heard[neigh.wan.entry[i].ip] = neigh.wan.entry[i].mac
  /\ cfg = None => neigh.wan = NoNeighbors

Queues ==
  /\ chan \in [Iface -> Seq(LanFrame) \cup Seq(WanFrame)]
  /\ chan.lan \in Seq(LanFrame) /\ chan.wan \in Seq(WanFrame)
  /\ Len(chan.lan) <= ChanDepth /\ Len(chan.wan) <= ChanDepth

Books ==
  /\ cnt \in [Counter -> Nat] /\ seen \in 0 .. MaxFrames
  /\ seen = cnt.sent + cnt.drop + Len(chan.lan) + Len(chan.wan)
  /\ cnt.drop = cnt.qfull + cnt.nonh + cnt.txbusy + cnt.other

\* The client a translated frame is for has sent to its peer under its id.
SolicitedIn(f, sent) ==
  f.id # None => \E t \in Flow : t.lan = f.to /\ t.remote = f.from /\ <<t, f.id>> \in sent
Solicited(f) == SolicitedIn(f, translated)

NatInv ==
  /\ bound \in [WanId -> Flow \cup {None}] /\ translated \subseteq Flow \X WanId
  /\ \A id \in WanId : bound[id] # None => <<bound[id], id>> \in translated
  /\ \A i \in 1 .. Len(chan.wan) : Solicited(chan.wan[i])

RouterInv == ControlInv /\ NeighInv /\ Queues /\ Books /\ NatInv

--------------------------------------------------------------------------------
\* The control variables

\* Positions, leases and transmit buffers stay in their ranges.
LEMMA ControlStep == ControlInv /\ [Next]_vars => ControlInv'
<1> SUFFICES ASSUME ControlInv, [Next]_vars PROVE ControlInv'
  OBVIOUS
<1> USE Caps DEF ControlInv
<1>0. CASE UNCHANGED vars
  BY <1>0 DEF vars
<1>1. CASE LanWake \/ LanSleep \/ WanWake \/ WanSleep
  BY <1>1 DEF LanWake, LanSleep, WanWake, WanSleep, lease
<1>2. CASE LanPolled
  <2>1. lanTx' \in lanTx .. TxCap /\ at' = "lan.drain" /\ UNCHANGED lease
    BY <1>2 DEF LanPolled
  <2> QED BY <2>1 DEF lease
<1>3. CASE LanEgress
  <2>1. UNCHANGED <<at, lease>> /\ lanTx' \in {lanTx, lanTx + 1} /\ (lanTx' # lanTx => lanTx # TxCap)
    BY <1>3 DEF LanEgress
  <2> QED BY <2>1 DEF lease
<1>4. CASE \E t \in Flow, k \in Kind : LanTransit(t, k)
  BY <1>4 DEF LanTransit, lease
<1>5. CASE \E c \in Client : LanLocal(c)
  BY <1>5 DEF LanLocal, lease
<1>6. CASE WanEgress
  BY <1>6 DEF WanEgress, lease
<1>7. CASE \E h \in WanHost, m \in Mac :
             \/ \E id \in WanId, k \in Kind : WanReply(h, m, id, k)
             \/ \E c \in Client, k \in Kind : WanDirect(h, m, c, k)
             \/ WanForeign(h, m)
             \/ WanLocal(h, m)
  BY <1>7 DEF WanReply, WanDirect, WanForeign, WanLocal, lease
<1>8. CASE \E l \in Lease \cup {None}, due, lost \in BOOLEAN : WanApply(l, due, lost)
  <2>1. PICK l \in Lease \cup {None}, due \in BOOLEAN, lost \in BOOLEAN : WanApply(l, due, lost)
    BY <1>8
  <2>2. GatewayOf(l) \in WanHost \cup {None}
    BY RouterAssumption DEF RouterAssumption, GatewayOf
  <2> QED BY <2>1, <2>2 DEF WanApply
<1>9. CASE CywSend
  BY <1>9 DEF CywSend, lease
<1> QED BY <1>0, <1>1, <1>2, <1>3, <1>4, <1>5, <1>6, <1>7, <1>8, <1>9 DEF Next, LanTask, WanTask

--------------------------------------------------------------------------------
\* The neighbor tables

\* How a step treats the tables: it leaves them, or one source is learned, or a lease is applied.
NeighStep ==
  /\ \/ UNCHANGED <<neigh, heard>>
     \/ cfg' = cfg /\ \E c \in Client : LearnLan(c)
     \/ cfg' = cfg /\ \E h \in WanHost, m \in Mac : LearnWan(h, m)
  /\ cfg' = None => cfg = None

\* Every action is one of these as far as the tables go.
LEMMA NextNeigh == [Next]_vars => NeighStep
<1> SUFFICES ASSUME [Next]_vars PROVE NeighStep
  OBVIOUS
<1> USE DEF NeighStep
<1>0. CASE UNCHANGED vars
  BY <1>0 DEF vars
<1>1. CASE LanWake \/ LanSleep \/ WanWake \/ WanSleep \/ LanPolled \/ CywSend \/ LanEgress \/ WanEgress
  BY <1>1 DEF LanWake, LanSleep, WanWake, WanSleep, LanPolled, CywSend, LanEgress, WanEgress,
              lease, tables
<1>4. CASE \E t \in Flow, k \in Kind : LanTransit(t, k)
  <2>1. \A t \in Flow : t.lan \in Client
    BY RouterAssumption DEF RouterAssumption
  <2>2. PICK t \in Flow, k \in Kind : LanTransit(t, k)
    BY <1>4
  <2>3. LearnLan(t.lan) /\ cfg' = cfg
    BY <2>2 DEF LanTransit, lease
  <2> QED BY <2>1, <2>3
<1>5. CASE \E c \in Client : LanLocal(c)
  BY <1>5 DEF LanLocal, lease
<1>7. CASE \E h \in WanHost, m \in Mac :
             \/ \E id \in WanId, k \in Kind : WanReply(h, m, id, k)
             \/ \E c \in Client, k \in Kind : WanDirect(h, m, c, k)
             \/ WanForeign(h, m)
             \/ WanLocal(h, m)
  <2>1. PICK h \in WanHost, m \in Mac :
             \/ \E id \in WanId, k \in Kind : WanReply(h, m, id, k)
             \/ \E c \in Client, k \in Kind : WanDirect(h, m, c, k)
             \/ WanForeign(h, m)
             \/ WanLocal(h, m)
    BY <1>7
  <2>2. LearnWan(h, m) /\ cfg' = cfg
    BY <2>1 DEF WanReply, WanDirect, WanForeign, WanLocal, lease
  <2> QED BY <2>2
<1>8. CASE \E l \in Lease \cup {None}, due, lost \in BOOLEAN : WanApply(l, due, lost)
  BY <1>8 DEF WanApply
<1> QED BY <1>0, <1>1, <1>4, <1>5, <1>7, <1>8 DEF Next, LanTask, WanTask

\* Learning keeps one entry per host and, on the WAN side, the MAC the host last used.
LEMMA NeighPreserved == NeighInv /\ NeighStep => NeighInv'
<1> SUFFICES ASSUME NeighInv, NeighStep PROVE NeighInv'
  OBVIOUS
<1>0. CASE UNCHANGED <<neigh, heard>>
  BY <1>0 DEF NeighInv, NeighStep, Unique
<1>1. CASE cfg' = cfg /\ \E c \in Client : LearnLan(c)
  <2>1. PICK c \in Client : LearnLan(c)
    BY <1>1
  <2> DEFINE new == Insert(neigh.lan, c, c)
  <2>2. new \in NeighTable(Client, Client) /\ Len(new.entry) <= NeighCap /\ Unique(new)
    BY InsertTable DEF NeighInv
  <2> HIDE DEF new
  <2>3. neigh' = [neigh EXCEPT !["lan"] = new] /\ heard' = heard
    BY <2>1 DEF LearnLan, new
  <2>4. neigh'.lan = new /\ neigh'.wan = neigh.wan
        /\ neigh' \in [Iface -> NeighTable(Client, Client) \cup NeighTable(WanHost, Mac)]
    BY <2>2, <2>3 DEF NeighInv, Iface
  <2> QED BY <1>1, <2>2, <2>3, <2>4 DEF NeighInv, Unique
<1>2. CASE cfg' = cfg /\ \E h \in WanHost, m \in Mac : LearnWan(h, m)
  <2>1. PICK h \in WanHost, m \in Mac : LearnWan(h, m)
    BY <1>2
  <2>2. MayLearn(h) <=> OnLink(h)
    BY DEF MayLearn, OnLink, Subnet
  <2>3. CASE ~OnLink(h)
    BY <1>2, <2>1, <2>2, <2>3 DEF LearnWan, NeighInv, Unique
  <2>4. CASE OnLink(h)
    <3> DEFINE old == neigh.wan
               new == Insert(old, h, m)
    <3>1. /\ new \in NeighTable(WanHost, Mac) /\ Len(new.entry) <= NeighCap /\ Unique(new)
          /\ \A j \in DOMAIN new.entry :
               \/ new.entry[j] = [ip |-> h, mac |-> m]
               \/ new.entry[j].ip # h /\ \E i \in DOMAIN old.entry : new.entry[j] = old.entry[i]
      BY InsertTable DEF NeighInv
    <3> HIDE DEF new
    <3>2. neigh' = [neigh EXCEPT !["wan"] = new] /\ heard' = [heard EXCEPT ![h] = m]
      BY <2>1, <2>2, <2>4 DEF LearnWan, new
    <3>3. neigh'.wan = new /\ neigh'.lan = neigh.lan
          /\ neigh' \in [Iface -> NeighTable(Client, Client) \cup NeighTable(WanHost, Mac)]
      BY <3>1, <3>2 DEF NeighInv, Iface
    <3>4. heard' \in [WanHost -> Mac \cup {None}] /\ heard'[h] = m
          /\ \A x \in WanHost : x # h => heard'[x] = heard[x]
      BY <3>2 DEF NeighInv
    <3>5. \A i \in DOMAIN old.entry : old.entry[i].ip \in WanHost
      <4>1. old.entry \in Seq([ip : WanHost, mac : Mac])
        BY DEF NeighInv, NeighTable
      <4> DEFINE o == old.entry
      <4> HIDE DEF o
      <4>2. DOMAIN o = 1 .. Len(o) /\ \A i \in 1 .. Len(o) : o[i] \in [ip : WanHost, mac : Mac]
        BY <4>1, LenProperties, ElementOfSeq DEF o
      <4> QED BY <4>2 DEF o
    <3>6. \A j \in DOMAIN new.entry : heard'[new.entry[j].ip] = new.entry[j].mac
      <4> SUFFICES ASSUME NEW j \in DOMAIN new.entry PROVE heard'[new.entry[j].ip] = new.entry[j].mac
        OBVIOUS
      <4>1. CASE new.entry[j] = [ip |-> h, mac |-> m]
        BY <4>1, <3>4
      <4>2. CASE new.entry[j].ip # h /\ \E i \in DOMAIN old.entry : new.entry[j] = old.entry[i]
        BY <4>2, <3>4, <3>5 DEF NeighInv
      <4> QED BY <3>1, <4>1, <4>2
    <3>7. cfg' # None
      BY <1>2, <2>4 DEF OnLink
    <3> QED BY <3>1, <3>3, <3>4, <3>6, <3>7 DEF NeighInv, Unique
  <2> QED BY <2>3, <2>4
<1> QED BY <1>0, <1>1, <1>2 DEF NeighStep

--------------------------------------------------------------------------------
\* Queues and counters

\* How a step treats the frames in transit: it leaves them, or one is queued or refused on
\* arrival, or one leaves a queue, sent or dropped.
Leaves(i) ==
  /\ chan[i] # <<>> /\ chan' = [chan EXCEPT ![i] = Tail(chan[i])] /\ seen' = seen
  /\ cnt' = Sent(cnt) \/ \E r \in {"other", "nonh", "txbusy"} : cnt' = Drop(cnt, r)
Refused == seen < MaxFrames /\ seen' = seen + 1 /\ cnt' = Drop(cnt, "other") /\ chan' = chan
BookStep ==
  \/ UNCHANGED <<chan, cnt, seen>>
  \/ \E f \in LanFrame : Divert("lan", f)
  \/ \E f \in WanFrame : Solicited(f) /\ Divert("wan", f)
  \/ Refused
  \/ Leaves("lan") \/ Leaves("wan")

\* Every action is one of these as far as the frames go; what a live binding lets in is solicited.
LEMMA NextBook == NatInv /\ [Next]_vars => BookStep
<1> SUFFICES ASSUME NatInv, [Next]_vars PROVE BookStep
  OBVIOUS
<1> USE DEF BookStep
<1>0. CASE UNCHANGED vars
  BY <1>0 DEF vars
<1>1. CASE LanWake \/ LanSleep \/ WanWake \/ WanSleep \/ LanPolled \/ CywSend
  BY <1>1 DEF LanWake, LanSleep, WanWake, WanSleep, LanPolled, CywSend
<1>2. CASE LanEgress
  BY <1>2 DEF LanEgress, Leaves
<1>3. CASE WanEgress
  BY <1>3 DEF WanEgress, Leaves
<1>4. CASE \E t \in Flow, k \in Kind : LanTransit(t, k)
  <2>1. PICK t \in Flow, k \in Kind : LanTransit(t, k)
    BY <1>4
  <2>2. [flow |-> t, kind |-> k] \in LanFrame
    BY DEF LanFrame
  <2> QED BY <2>1, <2>2 DEF LanTransit
<1>5. CASE \E c \in Client : LanLocal(c)
  BY <1>5 DEF LanLocal
<1>6. ASSUME NEW h \in WanHost, NEW m \in Mac, NEW id \in WanId, NEW k \in Kind, WanReply(h, m, id, k)
      PROVE  BookStep
  <2> DEFINE f == [to |-> bound[id].lan, from |-> h, id |-> id, kind |-> k]
  <2>1. bound[id] \in Flow /\ bound[id].remote = h /\ <<bound[id], id>> \in translated
    BY <1>6 DEF WanReply, FromBoundPeer, NatInv
  <2>2. bound[id].lan \in Client
    BY <2>1, RouterAssumption DEF RouterAssumption
  <2>3. f \in WanFrame /\ Solicited(f)
    BY <2>1, <2>2 DEF WanFrame, Solicited, SolicitedIn
  <2>4. Divert("wan", f)
    BY <1>6 DEF WanReply
  <2> QED BY <2>3, <2>4
<1>7. ASSUME NEW h \in WanHost, NEW m \in Mac, NEW c \in Client, NEW k \in Kind, WanDirect(h, m, c, k)
      PROVE  BookStep
  <2> DEFINE f == [to |-> c, from |-> h, id |-> None, kind |-> k]
  <2>1. f \in WanFrame /\ Solicited(f)
    BY DEF WanFrame, Solicited, SolicitedIn
  <2>2. Divert("wan", f)
    BY <1>7 DEF WanDirect
  <2> QED BY <2>1, <2>2
<1>8. ASSUME NEW h \in WanHost, NEW m \in Mac, WanForeign(h, m) \/ WanLocal(h, m)
      PROVE  BookStep
  BY <1>8 DEF WanForeign, WanLocal, Refused
<1>9. CASE \E l \in Lease \cup {None}, due, lost \in BOOLEAN : WanApply(l, due, lost)
  BY <1>9 DEF WanApply
<1> QED BY <1>0, <1>1, <1>2, <1>3, <1>4, <1>5, <1>6, <1>7, <1>8, <1>9 DEF Next, LanTask, WanTask

\* The two queues as values, so that a frame is appended to or taken from one of them.
LEMMA QueueUpdate ==
  ASSUME Queues, NEW i \in Iface, NEW s,
         i = "lan" => s \in Seq(LanFrame), i = "wan" => s \in Seq(WanFrame),
         chan' = [chan EXCEPT ![i] = s]
  PROVE  /\ chan' \in [Iface -> Seq(LanFrame) \cup Seq(WanFrame)]
         /\ i = "lan" => chan'.lan = s /\ chan'.wan = chan.wan
         /\ i = "wan" => chan'.wan = s /\ chan'.lan = chan.lan
BY DEF Queues, Iface

\* The queues keep their types and depths.
LEMMA QueuesPreserved == Queues /\ BookStep => Queues'
<1> SUFFICES ASSUME Queues, BookStep PROVE Queues'
  OBVIOUS
<1>1. CASE chan' = chan
  BY <1>1 DEF Queues
<1>2. ASSUME NEW f \in LanFrame, Divert("lan", f), chan' # chan PROVE Queues'
  <2> DEFINE s == Append(chan.lan, f)
  <2>1. s \in Seq(LanFrame) /\ Len(s) = Len(chan.lan) + 1 /\ Len(chan.lan) \in Nat
    BY AppendProperties, LenProperties DEF Queues
  <2>2. Len(chan.lan) < ChanDepth /\ chan' = [chan EXCEPT !["lan"] = s]
    BY <1>2 DEF Divert
  <2> HIDE DEF s
  <2>3. chan' \in [Iface -> Seq(LanFrame) \cup Seq(WanFrame)] /\ chan'.lan = s /\ chan'.wan = chan.wan
    BY <2>1, <2>2, QueueUpdate DEF Iface
  <2>4. Len(s) <= ChanDepth
    BY <2>1, <2>2, Caps
  <2> QED BY <2>1, <2>3, <2>4 DEF Queues
<1>3. ASSUME NEW f \in WanFrame, Divert("wan", f), chan' # chan PROVE Queues'
  <2> DEFINE s == Append(chan.wan, f)
  <2>1. s \in Seq(WanFrame) /\ Len(s) = Len(chan.wan) + 1 /\ Len(chan.wan) \in Nat
    BY AppendProperties, LenProperties DEF Queues
  <2>2. Len(chan.wan) < ChanDepth /\ chan' = [chan EXCEPT !["wan"] = s]
    BY <1>3 DEF Divert
  <2> HIDE DEF s
  <2>3. chan' \in [Iface -> Seq(LanFrame) \cup Seq(WanFrame)] /\ chan'.wan = s /\ chan'.lan = chan.lan
    BY <2>1, <2>2, QueueUpdate DEF Iface
  <2>4. Len(s) <= ChanDepth
    BY <2>1, <2>2, Caps
  <2> QED BY <2>1, <2>3, <2>4 DEF Queues
<1>4. CASE Leaves("lan")
  <2> DEFINE s == Tail(chan.lan)
  <2>1. s \in Seq(LanFrame) /\ Len(s) = Len(chan.lan) - 1 /\ Len(chan.lan) \in Nat
    BY <1>4, HeadTailProperties, LenProperties DEF Queues, Leaves
  <2>2. chan' = [chan EXCEPT !["lan"] = s]
    BY <1>4 DEF Leaves
  <2> HIDE DEF s
  <2>3. chan' \in [Iface -> Seq(LanFrame) \cup Seq(WanFrame)] /\ chan'.lan = s /\ chan'.wan = chan.wan
    BY <2>1, <2>2, QueueUpdate DEF Iface
  <2>4. Len(s) <= ChanDepth
    BY <2>1, Caps DEF Queues
  <2> QED BY <2>1, <2>3, <2>4 DEF Queues
<1>5. CASE Leaves("wan")
  <2> DEFINE s == Tail(chan.wan)
  <2>1. s \in Seq(WanFrame) /\ Len(s) = Len(chan.wan) - 1 /\ Len(chan.wan) \in Nat
    BY <1>5, HeadTailProperties, LenProperties DEF Queues, Leaves
  <2>2. chan' = [chan EXCEPT !["wan"] = s]
    BY <1>5 DEF Leaves
  <2> HIDE DEF s
  <2>3. chan' \in [Iface -> Seq(LanFrame) \cup Seq(WanFrame)] /\ chan'.wan = s /\ chan'.lan = chan.lan
    BY <2>1, <2>2, QueueUpdate DEF Iface
  <2>4. Len(s) <= ChanDepth
    BY <2>1, Caps DEF Queues
  <2> QED BY <2>1, <2>3, <2>4 DEF Queues
<1> QED BY <1>1, <1>2, <1>3, <1>4, <1>5 DEF BookStep, Refused

Breakdown(c) == c.qfull + c.nonh + c.txbusy + c.other

\* Each way of counting a frame moves one unit.
LEMMA Counting ==
  ASSUME cnt \in [Counter -> Nat]
  PROVE  /\ \A r \in {"qfull", "nonh", "txbusy", "other"} :
              cnt' = Drop(cnt, r) => /\ cnt' \in [Counter -> Nat]
                                     /\ cnt'.sent = cnt.sent /\ cnt'.drop = cnt.drop + 1
                                     /\ Breakdown(cnt') = Breakdown(cnt) + 1
         /\ cnt' = Sent(cnt) => /\ cnt' \in [Counter -> Nat]
                                /\ cnt'.sent = cnt.sent + 1 /\ cnt'.drop = cnt.drop
                                /\ Breakdown(cnt') = Breakdown(cnt)
<1>1. ASSUME NEW r \in {"qfull", "nonh", "txbusy", "other"}, cnt' = Drop(cnt, r)
      PROVE  /\ cnt' \in [Counter -> Nat]
             /\ cnt'.sent = cnt.sent /\ cnt'.drop = cnt.drop + 1
             /\ Breakdown(cnt') = Breakdown(cnt) + 1
  <2>1. cnt' = [cnt EXCEPT !["drop"] = cnt["drop"] + 1, ![r] = cnt[r] + 1]
    BY <1>1 DEF Drop
  <2>2. CASE r = "qfull" BY <2>1, <2>2 DEF Breakdown, Counter
  <2>3. CASE r = "nonh" BY <2>1, <2>3 DEF Breakdown, Counter
  <2>4. CASE r = "txbusy" BY <2>1, <2>4 DEF Breakdown, Counter
  <2>5. CASE r = "other" BY <2>1, <2>5 DEF Breakdown, Counter
  <2> QED BY <2>2, <2>3, <2>4, <2>5
<1>2. ASSUME cnt' = Sent(cnt)
      PROVE  /\ cnt' \in [Counter -> Nat]
             /\ cnt'.sent = cnt.sent + 1 /\ cnt'.drop = cnt.drop
             /\ Breakdown(cnt') = Breakdown(cnt)
  BY <1>2 DEF Sent, Breakdown, Counter
<1> QED BY <1>1, <1>2

\* Each step keeps the books: what arrives is counted or queued, what leaves a queue is counted.
LEMMA BooksPreserved == Queues /\ Books /\ BookStep => Books'
<1> SUFFICES ASSUME Queues, Books, BookStep PROVE Books'
  OBVIOUS
<1> DEFINE a == Len(chan.lan)
           b == Len(chan.wan)
           s == cnt.sent
           d == cnt.drop
           x == Breakdown(cnt)
           a2 == Len(chan'.lan)
           b2 == Len(chan'.wan)
           s2 == cnt'.sent
           d2 == cnt'.drop
           x2 == Breakdown(cnt')
<1> HIDE DEF a, b, s, d, x, a2, b2, s2, d2, x2
<1>1. s \in Nat /\ d \in Nat /\ x \in Nat
  BY DEF Books, Breakdown, Counter, s, d, x
<1>2. a \in Nat /\ b \in Nat /\ a2 \in Nat /\ b2 \in Nat
  BY QueuesPreserved, LenProperties DEF Queues, a, b, a2, b2
<1>3. seen = s + d + a + b /\ d = x
  BY DEF Books, Breakdown, a, b, s, d, x
<1>4. MaxFrames \in Nat /\ seen \in 0 .. MaxFrames
  BY Caps DEF Books
<1>5. SUFFICES /\ cnt' \in [Counter -> Nat] /\ seen' \in 0 .. MaxFrames
               /\ seen' = s2 + d2 + a2 + b2 /\ d2 = x2
  BY DEF Books, Breakdown, a2, b2, s2, d2, x2
<1>6. cnt' = cnt => cnt' \in [Counter -> Nat] /\ s2 = s /\ d2 = d /\ x2 = x
  BY DEF Books, Breakdown, s, d, x, s2, d2, x2
<1>7. chan' = chan => a2 = a /\ b2 = b
  BY DEF a, b, a2, b2
<1>8. \A r \in {"qfull", "nonh", "txbusy", "other"} :
        cnt' = Drop(cnt, r) => cnt' \in [Counter -> Nat] /\ s2 = s /\ d2 = d + 1 /\ x2 = x + 1
  BY Counting DEF Books, s, d, x, s2, d2, x2
<1>9. cnt' = Sent(cnt) => cnt' \in [Counter -> Nat] /\ s2 = s + 1 /\ d2 = d /\ x2 = x
  BY Counting DEF Books, s, d, x, s2, d2, x2
<1>10. CASE UNCHANGED <<chan, cnt, seen>>
  BY <1>10, <1>6, <1>7, <1>3, <1>4
<1>11. ASSUME NEW i \in Iface, NEW f,
              i = "lan" => f \in LanFrame, i = "wan" => f \in WanFrame, Divert(i, f)
       PROVE  /\ cnt' \in [Counter -> Nat] /\ seen' \in 0 .. MaxFrames
              /\ seen' = s2 + d2 + a2 + b2 /\ d2 = x2
  <2>1. seen' = seen + 1 /\ seen < MaxFrames
    BY <1>11 DEF Divert
  <2>2. CASE chan' = chan /\ cnt' = Drop(cnt, "qfull")
    BY <2>1, <2>2, <1>1, <1>2, <1>3, <1>4, <1>7, <1>8
  <2>3. CASE i = "lan" /\ chan' = [chan EXCEPT ![i] = Append(chan[i], f)] /\ cnt' = cnt
    <3> DEFINE q == Append(chan.lan, f)
    <3>1. q \in Seq(LanFrame) /\ Len(q) = a + 1
      BY <2>3, <1>11, AppendProperties DEF Queues, a
    <3> HIDE DEF q
    <3>2. chan'.lan = q /\ chan'.wan = chan.wan
      BY <2>3, <3>1, QueueUpdate DEF q
    <3>3. a2 = a + 1 /\ b2 = b
      BY <3>1, <3>2 DEF a, b, a2, b2
    <3> QED BY <2>1, <2>3, <3>3, <1>1, <1>2, <1>3, <1>4, <1>6
  <2>4. CASE i = "wan" /\ chan' = [chan EXCEPT ![i] = Append(chan[i], f)] /\ cnt' = cnt
    <3> DEFINE q == Append(chan.wan, f)
    <3>1. q \in Seq(WanFrame) /\ Len(q) = b + 1
      BY <2>4, <1>11, AppendProperties DEF Queues, b
    <3> HIDE DEF q
    <3>2. chan'.wan = q /\ chan'.lan = chan.lan
      BY <2>4, <3>1, QueueUpdate DEF q
    <3>3. a2 = a /\ b2 = b + 1
      BY <3>1, <3>2 DEF a, b, a2, b2
    <3> QED BY <2>1, <2>4, <3>3, <1>1, <1>2, <1>3, <1>4, <1>6
  <2> QED BY <1>11, <2>2, <2>3, <2>4 DEF Divert, Iface
<1>12. CASE Refused
  <2>1. seen' = seen + 1 /\ seen < MaxFrames /\ cnt' = Drop(cnt, "other") /\ chan' = chan
    BY <1>12 DEF Refused
  <2> QED BY <2>1, <1>1, <1>2, <1>3, <1>4, <1>7, <1>8
<1>13. ASSUME NEW i \in Iface, Leaves(i)
       PROVE  /\ cnt' \in [Counter -> Nat] /\ seen' \in 0 .. MaxFrames
              /\ seen' = s2 + d2 + a2 + b2 /\ d2 = x2
  <2>1. /\ cnt' \in [Counter -> Nat]
        /\ \/ s2 = s + 1 /\ d2 = d /\ x2 = x
           \/ s2 = s /\ d2 = d + 1 /\ x2 = x + 1
    BY <1>13, <1>8, <1>9 DEF Leaves
  <2>2. seen' = seen
    BY <1>13 DEF Leaves
  <2>3. a2 + b2 + 1 = a + b
    <3>1. CASE i = "lan"
      <4> DEFINE q == Tail(chan.lan)
      <4>1. q \in Seq(LanFrame) /\ Len(q) = a - 1
        BY <3>1, <1>13, HeadTailProperties DEF Queues, Leaves, a
      <4> HIDE DEF q
      <4>2. chan'.lan = q /\ chan'.wan = chan.wan
        BY <1>13, <3>1, <4>1, QueueUpdate DEF q, Leaves
      <4>3. a2 = a - 1 /\ b2 = b
        BY <4>1, <4>2 DEF a, b, a2, b2
      <4> QED BY <4>3, <1>2
    <3>2. CASE i = "wan"
      <4> DEFINE q == Tail(chan.wan)
      <4>1. q \in Seq(WanFrame) /\ Len(q) = b - 1
        BY <3>2, <1>13, HeadTailProperties DEF Queues, Leaves, b
      <4> HIDE DEF q
      <4>2. chan'.wan = q /\ chan'.lan = chan.lan
        BY <1>13, <3>2, <4>1, QueueUpdate DEF q, Leaves
      <4>3. a2 = a /\ b2 = b - 1
        BY <4>1, <4>2 DEF a, b, a2, b2
      <4> QED BY <4>3, <1>2
    <3> QED BY <3>1, <3>2 DEF Iface
  <2> QED BY <2>1, <2>2, <2>3, <1>1, <1>2, <1>3, <1>4
<1>14. "lan" \in Iface /\ "wan" \in Iface
  BY DEF Iface
<1> QED BY <1>10, <1>11, <1>12, <1>13, <1>14 DEF BookStep

\* What a queue entry's counters may reach.
LEMMA CountersBounded == Queues /\ Books => cnt \in [Counter -> 0 .. MaxFrames]
<1> SUFFICES ASSUME Queues, Books PROVE cnt \in [Counter -> 0 .. MaxFrames]
  OBVIOUS
<1> DEFINE a == Len(chan.lan)
           b == Len(chan.wan)
<1>1. a \in Nat /\ b \in Nat
  BY LenProperties DEF Queues
<1>2. seen = cnt.sent + cnt.drop + a + b
  BY DEF Books
<1> HIDE DEF a, b
<1>3. \A r \in Counter : cnt[r] \in Nat
  BY DEF Books
<1>4. \A r \in Counter : cnt[r] <= seen
  <2> DEFINE s == cnt.sent
             d == cnt.drop
             q == cnt.qfull
             n == cnt.nonh
             t == cnt.txbusy
             o == cnt.other
  <2>1. s \in Nat /\ d \in Nat /\ q \in Nat /\ n \in Nat /\ t \in Nat /\ o \in Nat
    BY <1>3 DEF Counter
  <2>2. seen = s + d + a + b /\ d = q + n + t + o
    BY <1>2 DEF Books
  <2> HIDE DEF s, d, q, n, t, o
  <2>3. s <= seen /\ d <= seen /\ q <= d /\ n <= d /\ t <= d /\ o <= d
    BY <2>1, <2>2, <1>1
  <2>4. q <= seen /\ n <= seen /\ t <= seen /\ o <= seen
    BY <2>1, <2>2, <2>3, <1>1
  <2> QED BY <2>3, <2>4 DEF Counter, s, d, q, n, t, o
<1> QED BY <1>3, <1>4, Caps DEF Books

--------------------------------------------------------------------------------
\* Bindings and the frames they let in

\* How a step treats the bindings: it leaves them, some lapse, or the flow of the frame that
\* goes out is found or bound.
NatStep ==
  \/ UNCHANGED <<bound, translated>>
  \/ translated' = translated /\ \E S \in SUBSET Napt!BoundIds : Napt!Lapse(S)
  \/ \E t \in Flow : Translate(t)

\* Every action is one of these as far as the bindings go.
LEMMA NextNat == Queues /\ [Next]_vars => NatStep
<1> SUFFICES ASSUME Queues, [Next]_vars PROVE NatStep
  OBVIOUS
<1> USE DEF NatStep
<1>0. CASE UNCHANGED vars
  BY <1>0 DEF vars
<1>1. CASE LanWake \/ LanSleep \/ WanWake \/ WanSleep \/ LanPolled \/ CywSend \/ LanEgress
  BY <1>1 DEF LanWake, LanSleep, WanWake, WanSleep, LanPolled, CywSend, LanEgress, tables
<1>2. CASE WanEgress
  <2>1. Head(chan.lan).flow \in Flow
    <3>1. chan.lan \in Seq(LanFrame) /\ chan.lan # <<>>
      BY <1>2 DEF WanEgress, Queues
    <3>2. Head(chan.lan) \in LanFrame
      BY <3>1, HeadTailProperties
    <3> QED BY <3>2 DEF LanFrame
  <2>2. UNCHANGED <<bound, translated>> \/ Translate(Head(chan.lan).flow)
    BY <1>2 DEF WanEgress
  <2> QED BY <2>1, <2>2
<1>3. CASE \E t \in Flow, k \in Kind : LanTransit(t, k)
  BY <1>3 DEF LanTransit
<1>4. CASE \E c \in Client : LanLocal(c)
  BY <1>4 DEF LanLocal
<1>5. CASE \E h \in WanHost, m \in Mac :
             \/ \E id \in WanId, k \in Kind : WanReply(h, m, id, k)
             \/ \E c \in Client, k \in Kind : WanDirect(h, m, c, k)
             \/ WanForeign(h, m)
             \/ WanLocal(h, m)
  BY <1>5 DEF WanReply, WanDirect, WanForeign, WanLocal
<1>6. CASE \E l \in Lease \cup {None}, due, lost \in BOOLEAN : WanApply(l, due, lost)
  BY <1>6 DEF WanApply
<1> QED BY <1>0, <1>1, <1>2, <1>3, <1>4, <1>5, <1>6 DEF Next, LanTask, WanTask

\* Live bindings stay among those sent out under, which only grow.
LEMMA BindingsPreserved ==
  NatInv /\ NatStep =>
    /\ bound' \in [WanId -> Flow \cup {None}] /\ translated' \subseteq Flow \X WanId
    /\ \A id \in WanId : bound'[id] # None => <<bound'[id], id>> \in translated'
    /\ translated \subseteq translated'
<1> SUFFICES ASSUME NatInv, NatStep
             PROVE  /\ bound' \in [WanId -> Flow \cup {None}] /\ translated' \subseteq Flow \X WanId
                    /\ \A id \in WanId : bound'[id] # None => <<bound'[id], id>> \in translated'
                    /\ translated \subseteq translated'
  OBVIOUS
<1>1. CASE UNCHANGED <<bound, translated>>
  BY <1>1 DEF NatInv
<1>2. CASE translated' = translated /\ \E S \in SUBSET Napt!BoundIds : Napt!Lapse(S)
  BY <1>2 DEF NatInv, Napt!Lapse
<1>3. CASE \E t \in Flow : Translate(t)
  <2>1. PICK t \in Flow, id \in WanId :
          /\ \/ bound[id] = t /\ UNCHANGED bound
             \/ Napt!Bind(t, id)
          /\ translated' = translated \cup {<<t, id>>}
    BY <1>3 DEF Translate
  <2>2. CASE bound[id] = t /\ UNCHANGED bound
    BY <2>1, <2>2 DEF NatInv
  <2>3. CASE Napt!Bind(t, id)
    <3>1. PICK victims \in SUBSET Napt!BoundIds :
            bound' = [i \in WanId |-> IF i = id THEN t
                                      ELSE IF i \in victims THEN None ELSE bound[i]]
      BY <2>3 DEF Napt!Bind
    <3> QED BY <2>1, <3>1 DEF NatInv
  <2> QED BY <2>1, <2>2, <2>3
<1> QED BY <1>1, <1>2, <1>3 DEF NatStep

\* A frame let in stays solicited: what was sent is not forgotten.
LEMMA SolicitedStays ==
  ASSUME NEW f, Solicited(f), translated \subseteq translated' PROVE SolicitedIn(f, translated')
BY DEF Solicited, SolicitedIn

\* The frames on their way to the LAN stay solicited.
LEMMA NatPreserved == Queues /\ NatInv /\ NatStep /\ BookStep => NatInv'
<1> SUFFICES ASSUME Queues, NatInv, NatStep, BookStep PROVE NatInv'
  OBVIOUS
<1> DEFINE q  == chan.wan
           q2 == chan'.wan
<1>1. translated \subseteq translated'
  BY BindingsPreserved
<1>2. q \in Seq(WanFrame) /\ \A i \in 1 .. Len(q) : Solicited(q[i])
  BY DEF Queues, NatInv
<1>3. SUFFICES \A i \in 1 .. Len(q2) : SolicitedIn(q2[i], translated')
  BY BindingsPreserved DEF NatInv, Solicited
<1>4. CASE q2 = q
  <2> HIDE DEF q, q2
  <2> QED BY <1>1, <1>2, <1>4, SolicitedStays
<1>5. ASSUME NEW f \in WanFrame, Solicited(f), q2 = Append(q, f)
      PROVE  \A i \in 1 .. Len(q2) : SolicitedIn(q2[i], translated')
  <2> HIDE DEF q, q2
  <2>1. /\ Len(q2) = Len(q) + 1 /\ Len(q) \in Nat
        /\ \A i \in 1 .. Len(q) : q2[i] = q[i]
        /\ q2[Len(q) + 1] = f
    BY <1>2, <1>5, AppendProperties
  <2>2. \A i \in 1 .. Len(q2) : i \in 1 .. Len(q) \/ i = Len(q) + 1
    BY <2>1
  <2>3. \A i \in 1 .. Len(q2) : Solicited(q2[i])
    BY <1>2, <1>5, <2>1, <2>2
  <2> QED BY <1>1, <2>3, SolicitedStays
<1>6. CASE q # <<>> /\ q2 = Tail(q)
  <2> HIDE DEF q, q2
  <2>1. Len(q2) = Len(q) - 1 /\ Len(q) \in Nat /\ \A i \in 1 .. Len(q2) : q2[i] = q[i + 1]
    BY <1>2, <1>6, HeadTailProperties
  <2>2. \A i \in 1 .. Len(q2) : i + 1 \in 1 .. Len(q)
    BY <2>1
  <2>3. \A i \in 1 .. Len(q2) : Solicited(q2[i])
    BY <1>2, <2>1, <2>2
  <2> QED BY <1>1, <2>3, SolicitedStays
<1>7. \A s : chan' = [chan EXCEPT !["lan"] = s] => q2 = q
  BY DEF Queues, Iface
<1>8. \A s : chan' = [chan EXCEPT !["wan"] = s] => q2 = s
  BY DEF Queues, Iface
<1> QED BY <1>4, <1>5, <1>6, <1>7, <1>8 DEF BookStep, Divert, Refused, Leaves

--------------------------------------------------------------------------------
\* The theorems

\* The inductive invariant holds at reset.
LEMMA RouterInit == Init => RouterInv
<1> SUFFICES ASSUME Init PROVE RouterInv
  OBVIOUS
<1> USE Caps DEF Init
<1>1. ControlInv
  BY DEF ControlInv
<1>2. NeighInv
  <2>1. NoNeighbors \in NeighTable(Client, Client) /\ NoNeighbors \in NeighTable(WanHost, Mac)
    BY DEF NoNeighbors, NeighTable
  <2>2. neigh.lan = NoNeighbors /\ neigh.wan = NoNeighbors
    BY DEF Iface
  <2>3. NoNeighbors.entry = <<>>
    BY DEF NoNeighbors
  <2> QED BY <2>1, <2>2, <2>3 DEF NeighInv, Unique
<1>3. chan.lan = <<>> /\ chan.wan = <<>> /\ Len(chan.lan) = 0 /\ Len(chan.wan) = 0
  BY DEF Iface
<1>4. Queues
  <2>1. <<>> \in Seq(LanFrame) /\ <<>> \in Seq(WanFrame)
    OBVIOUS
  <2>2. chan \in [Iface -> Seq(LanFrame) \cup Seq(WanFrame)]
    BY <2>1
  <2>3. chan.lan \in Seq(LanFrame) /\ chan.wan \in Seq(WanFrame)
    BY <1>3, <2>1
  <2>4. Len(chan.lan) <= ChanDepth /\ Len(chan.wan) <= ChanDepth
    BY <1>3
  <2> QED BY <2>2, <2>3, <2>4 DEF Queues
<1>5. Books
  <2>1. cnt \in [Counter -> Nat] /\ \A c \in Counter : cnt[c] = 0
    OBVIOUS
  <2>2. cnt.sent = 0 /\ cnt.drop = 0 /\ cnt.qfull = 0 /\ cnt.nonh = 0 /\ cnt.txbusy = 0 /\ cnt.other = 0
    BY <2>1 DEF Counter
  <2>3. seen = 0 /\ seen \in 0 .. MaxFrames
    OBVIOUS
  <2> QED BY <1>3, <2>1, <2>2, <2>3 DEF Books
<1>6. NatInv
  BY <1>3 DEF NatInv
<1> QED BY <1>1, <1>2, <1>4, <1>5, <1>6 DEF RouterInv

\* Every step preserves it.
LEMMA RouterStep == RouterInv /\ [Next]_vars => RouterInv'
BY ControlStep, NextNeigh, NeighPreserved, NextBook, QueuesPreserved, BooksPreserved,
   NextNat, NatPreserved DEF RouterInv

\* The inductive invariant holds in every reachable state of the router.
THEOREM RouterInvariant == Spec => []RouterInv
BY RouterInit, RouterStep, PTL DEF Spec

\* Types, table sizes, queue depths and counters stay in range for every size of them.
THEOREM RouterTypes == Spec => []TypeOK
<1>1. RouterInv => TypeOK
  BY CountersBounded DEF RouterInv, ControlInv, NeighInv, Queues, Books, NatInv, TypeOK, Iface
<1> QED BY <1>1, RouterInvariant, PTL

\* Every transit frame is sent, dropped or still queued and counted once (egress, receive).
THEOREM FramesAccountedHolds == Spec => []FramesAccounted
<1>1. RouterInv => FramesAccounted
  <2>1. RouterInv => TypeOK
    BY CountersBounded DEF RouterInv, ControlInv, NeighInv, Queues, Books, NatInv, TypeOK, Iface
  <2> QED BY <2>1 DEF RouterInv, Books, FramesAccounted
<1> QED BY <1>1, RouterInvariant, PTL

\* A frame translated on its way in is for a client that sent to that peer under that id.
THEOREM RightClientHolds == Spec => []RightClient
<1>1. RouterInv => RightClient
  <2> SUFFICES ASSUME RouterInv PROVE RightClient
    OBVIOUS
  <2> DEFINE q == chan.wan
  <2>1. q \in Seq(WanFrame) /\ \A i \in 1 .. Len(q) : Solicited(q[i])
    BY DEF RouterInv, Queues, NatInv
  <2>2. \A f \in {q[i] : i \in DOMAIN q} : Solicited(f)
    BY <2>1
  <2> QED BY <2>2 DEF RightClient, Solicited, SolicitedIn
<1> QED BY <1>1, RouterInvariant, PTL

\* Lookup finds the MAC a host last used on the leased subnet, or nothing.
THEOREM NeighborsCurrentHolds == Spec => []NeighborsCurrent
<1>1. RouterInv => NeighborsCurrent
  <2> SUFFICES ASSUME RouterInv, NEW h \in WanHost PROVE Lookup(neigh.wan, h) \in {None, heard[h]}
    BY DEF NeighborsCurrent
  <2>1. CASE EntriesFor(neigh.wan, h) = {}
    BY <2>1 DEF Lookup
  <2>2. CASE EntriesFor(neigh.wan, h) # {}
    <3> DEFINE n == FirstIndex(EntriesFor(neigh.wan, h))
    <3>1. n \in DOMAIN neigh.wan.entry /\ neigh.wan.entry[n].ip = h
      BY <2>2, FoundIndex DEF RouterInv, NeighInv
    <3>2. Lookup(neigh.wan, h) = neigh.wan.entry[n].mac
      BY <2>2 DEF Lookup
    <3> QED BY <3>1, <3>2 DEF RouterInv, NeighInv
  <2> QED BY <2>1, <2>2
<1> QED BY <1>1, RouterInvariant, PTL

\* Nothing translated is sent before the first lease: egress finds no neighbor to send it to.
THEOREM MaskedSourceHolds == Spec => MaskedSource
<1>1. RouterInv /\ [Next]_vars =>
        [/\ at = "wan.drain" /\ cnt'.sent > cnt.sent
         /\ Head(chan.lan).kind # "plain"
         => cfg # None]_vars
  <2> SUFFICES ASSUME RouterInv, Next, at = "wan.drain", cnt'.sent > cnt.sent, cfg = None
               PROVE  FALSE
    OBVIOUS
  <2>1. cnt \in [Counter -> Nat] /\ cnt.sent \in Nat
    BY DEF RouterInv, Books, Counter
  <2>2. \A nh : ~Known(nh)
    <3>1. neigh.wan.entry = <<>>
      BY DEF RouterInv, NeighInv, NoNeighbors
    <3>2. \A nh : EntriesFor(neigh.wan, nh) = {}
      BY <3>1 DEF EntriesFor
    <3> QED BY <3>2 DEF Known, Lookup
  <2>3. CASE WanEgress
    <3>1. PICK r \in {"nonh", "other"} : cnt' = Drop(cnt, r)
      BY <2>2, <2>3 DEF WanEgress
    <3>2. cnt'.sent = cnt.sent
      BY <2>1, <3>1, Counting
    <3> QED BY <2>1, <3>2
  <2>4. CASE ~WanEgress
    <3>1. cnt' = cnt
      BY <2>4 DEF Next, LanTask, WanTask, LanWake, LanPolled, LanEgress, LanSleep, LanTransit, LanLocal,
                  WanWake, WanSleep, WanReply, WanDirect, WanForeign, WanLocal, WanApply, CywSend
    <3> QED BY <2>1, <3>1
  <2> QED BY <2>3, <2>4
<1> QED BY <1>1, RouterInvariant, PTL DEF Spec, MaskedSource
================================================================================
