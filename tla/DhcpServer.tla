------------------------------- MODULE DhcpServer -------------------------------
(***************************************************************************)
(* The LAN's DHCP server, src/dhcp_server.rs, polled by net_task: a pool   *)
(* of addresses keyed by the client's MAC, a UDP socket with a bounded     *)
(* queue each way, and the resolver in LAN_DNS_OFFER, which is read when a *)
(* reply is built.  Clients are external: they ask, ask again, adopt what  *)
(* they are told, renew and go away without a word.  Until the radio       *)
(* settles, if it does, it loses replies and has no transmit buffer.       *)
(***************************************************************************)
EXTENDS Naturals, Sequences

CONSTANTS
  Client,     \* MAC addresses
  Asker,      \* a client, any: the one that keeps asking
  PoolLen,    \* POOL_LEN
  Batch,      \* requests answered per poll
  SocketCap,  \* datagrams the socket holds, each way
  NoOne,      \* a free slot, a client with no address
  Google      \* 8.8.8.8, the resolver offered before the first lease

ASSUME DhcpAssumption ==
  /\ PoolLen \in Nat /\ {Batch, SocketCap} \subseteq Nat \ {0}
  /\ Asker \in Client /\ NoOne \notin Client /\ NoOne \notin Nat

Pool == 1 .. PoolLen    \* slot i stands for the address ip_for(i)

VARIABLES
  leases,         \* the pool: who holds each address
  requests,       \* socket, received: [from, type]
  replies,        \* socket, to send: [to, type, ip, dns]
  LAN_DNS_OFFER,
  client,         \* each client: the address it uses and the resolver it was told, the offer it follows
  around,         \* bound: the clients there are
  calm            \* the radio has settled

lanVars == <<leases, requests, replies, LAN_DNS_OFFER, client, around, calm>>

Fresh == [ip |-> NoOne, dns |-> NoOne, offered |-> FALSE]

LanInit ==
  /\ leases = [i \in Pool |-> NoOne]
  /\ requests = <<>> /\ replies = <<>>
  /\ LAN_DNS_OFFER = Google
  /\ client = [c \in Client |-> Fresh] /\ around \in SUBSET Client
  /\ calm = FALSE

slot_forEvicting(pool, c) ==
  LET fit == {i \in Pool : pool[i] \in {c, NoOne}} IN
  IF fit # {} THEN CHOOSE i \in fit : \A j \in fit : i <= j ELSE 1

slot_forFresh(pool, c) ==
  LET free == {i \in Pool : pool[i] = NoOne} IN
  IF free = {} THEN NoOne ELSE CHOOSE i \in free : \A j \in free : i <= j

\* The client's own slot, else the first free one; NoOne when the pool is full.
slot_for(pool, c) ==
  LET own  == {i \in Pool : pool[i] = c}
      free == {i \in Pool : pool[i] = NoOne}
      lowest(S) == CHOOSE i \in S : \A j \in S : i <= j IN
  IF own # {} THEN lowest(own) ELSE IF free # {} THEN lowest(free) ELSE NoOne

allocate(pool, c) ==
  [i \in Pool |-> IF i = slot_for(pool, c) THEN c ELSE pool[i]]

\* build_reply for one request, s is the server: [leases, replies].  A reply the socket has no room
\* for is lost, the slot stays taken.
Answer(s, req) ==
  LET ip == slot_for(s.leases, req.from)
      reply == [to |-> req.from, type |-> IF req.type = "Discover" THEN "Offer" ELSE "Ack",
                ip |-> ip, dns |-> LAN_DNS_OFFER] IN
  IF req.type = "Other" \/ ip = NoOne THEN s
  ELSE [leases |-> allocate(s.leases, req.from),
        replies |-> IF Len(s.replies) < SocketCap THEN Append(s.replies, reply) ELSE s.replies]

\* DhcpServer::poll answers the first n requests, one after the other.
AnswerAll(s, n) ==
  LET after[k \in 0 .. n] == IF k = 0 THEN s ELSE Answer(after[k - 1], requests[k]) IN after[n]

\* What a client makes of a reply.
Hear(cl, r) ==
  IF r.type = "Offer"
  THEN IF cl[r.to].ip = NoOne THEN [cl EXCEPT ![r.to].offered = TRUE] ELSE cl
  ELSE [cl EXCEPT ![r.to] = [ip |-> r.ip, dns |-> r.dns, offered |-> FALSE]]

\* The clients in `heard` receive what is queued for them.
HearAll(heard) ==
  LET after[k \in 0 .. Len(replies)] ==
        IF k = 0 THEN client
        ELSE IF replies[k].to \in heard THEN Hear(after[k - 1], replies[k]) ELSE after[k - 1]
  IN after[Len(replies)]

\* One iteration of net_task: iface.poll sends what is queued, unless the radio has no buffer, and
\* the clients in `heard` receive it; then DhcpServer::poll answers up to Batch requests.
LanPoll(busy, heard) ==
  LET n == IF Len(requests) < Batch THEN Len(requests) ELSE Batch
      s == AnswerAll([leases |-> leases, replies |-> IF busy THEN replies ELSE <<>>], n) IN
  /\ calm => ~busy /\ heard = around
  /\ client' = IF busy THEN client ELSE HearAll(heard)
  /\ leases' = s.leases /\ replies' = s.replies
  /\ requests' = SubSeq(requests, n + 1, Len(requests))
  /\ UNCHANGED <<LAN_DNS_OFFER, around, calm>>

(***************************************************************************)
(* Clients                                                                 *)
(***************************************************************************)
\* A datagram is received if the socket has room.  A client waits seconds before it repeats itself,
\* the server polls every five milliseconds: no client is queued twice.
Send(c, type) ==
  /\ Len(requests) < SocketCap /\ \A i \in DOMAIN requests : requests[i].from # c
  /\ requests' = Append(requests, [from |-> c, type |-> type])
  /\ UNCHANGED <<leases, replies, LAN_DNS_OFFER, client, around, calm>>

\* A client without an address looks for one; one that follows an offer, or renews, requests it.
Discover(c) == client[c].ip = NoOne /\ Send(c, "Discover")
Request(c)  == (client[c].offered \/ client[c].ip # NoOne) /\ Send(c, "Request")

\* Any other datagram on port 67: another message type, or bytes that do not parse.
Stray == Send(NoOne, "Other")

\* It leaves the network or its lease runs out; the server is not told.
Leave(c) ==
  /\ client[c] # Fresh /\ ~(calm /\ c = Asker)
  /\ client' = [client EXCEPT ![c] = Fresh]
  /\ UNCHANGED <<leases, requests, replies, LAN_DNS_OFFER, around, calm>>

\* The radio settles: from now on it is never out of buffers, no reply is lost and the asker stays.
Settle == ~calm /\ calm' = TRUE /\ UNCHANGED <<leases, requests, replies, LAN_DNS_OFFER, client, around>>

LanEnv == Settle \/ Stray \/ \E c \in around : Discover(c) \/ Request(c) \/ Leave(c)

(***************************************************************************)
(* Correctness                                                             *)
(***************************************************************************)
LanTypeOK ==
  /\ leases \in [Pool -> Client \cup {NoOne}]
  /\ Len(requests) <= SocketCap /\ Len(replies) <= SocketCap
  /\ \A i \in DOMAIN requests :
       requests[i] \in [from : Client \cup {NoOne}, type : {"Discover", "Request", "Other"}]
  /\ \A i \in DOMAIN replies :
       /\ replies[i].to \in Client /\ replies[i].type \in {"Offer", "Ack"} /\ replies[i].ip \in Pool
  /\ \A c \in Client : client[c].ip \in Pool \cup {NoOne} /\ client[c].offered \in BOOLEAN

\* An address a client uses, or is about to be told, is held in the pool by that client and by no
\* other: no two clients ever share one, across losses, retries, renewals and clients that come
\* back.  (allocate)
AddressIsMine ==
  /\ LanTypeOK
  /\ \A c \in Client : client[c].ip # NoOne => leases[client[c].ip] = c
  /\ \A i \in DOMAIN replies : leases[replies[i].ip] = replies[i].to
  /\ \A i, j \in Pool : leases[i] = leases[j] /\ leases[i] # NoOne => i = j

\* Once the radio has settled, a client that keeps asking is given an address, or else finds the
\* pool taken by others, some of them long gone: slots are never released.  (poll, allocate)
ShutOut(c) == \A i \in Pool : leases[i] \notin {c, NoOne}
Served == []<>(client[Asker].ip # NoOne \/ ShutOut(Asker) \/ Asker \notin around)
================================================================================
