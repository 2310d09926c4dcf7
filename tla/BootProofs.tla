------------------------------- MODULE BootProofs -------------------------------
(***************************************************************************)
(* What Boot's run shows of the launch, the resets and the TCP servers,    *)
(* for FIFOs and buffers of any size, any number of attempts and responses *)
(* of any length.  Each server is followed with its socket and peer, and   *)
(* what was queued on a connection is added up.                            *)
(*                                                                         *)
(* And what it shows of the time driver, for every number of tasks, every  *)
(* delay, every width of the low word and every bound on how late the core *)
(* settles: TimeInv relates each deadline to the alarm that covers it, the *)
(* step the driver is in and the lateness; FeedInv adds that a sleep past  *)
(* a missed alarm ends in the watchdog before the low word comes round.    *)
(***************************************************************************)
EXTENDS Boot, Core1LaunchProofs, WellFoundedInduction

Sockets == [st : {"closed", "listen", "established", "close_wait", "fin_wait", "last_ack"},
            rx : {"none", "bulk", "other"}, tx : 0 .. TxRoom]
Apps == [bulk : BOOLEAN, remaining : 0 .. BulkLen, header_sent : BOOLEAN]

Transfer(s) == s.st \in {"established", "close_wait"}
Closing(s) == s.st \in {"fin_wait", "last_ack"}

\* What the server of kind k has queued, n chunks, goes with its own state a and its socket s.
Counted(k, s, a, n) ==
  /\ k \notin {"http_bulk", "status"} => a = Idle
  /\ k = "http_bulk" /\ a.bulk => a.header_sent
  /\ s.st = "listen" => a = Idle /\ n = 0 /\ s.rx = "none"
  /\ Transfer(s) /\ ~a.bulk => n = 0
  /\ Transfer(s) /\ a.bulk => n + a.remaining = IF a.header_sent THEN BulkLen + 1 ELSE BulkLen
  /\ Closing(s) /\ k = "http" => n = 1
  /\ Closing(s) /\ k = "http_bulk" => n = BulkLen + 1
  /\ Closing(s) /\ k = "status" => n \in {1, BulkLen + 1}

TcpInv ==
  /\ kind \in Kinds /\ tcp \in Sockets /\ app \in Apps
  /\ peer \in {"none", "open", "half", "vanished"}
  /\ sent \in 0 .. BulkLen + 1
  /\ Counted(kind, tcp, app, sent)

LEMMA TcpInvEnough == TcpInv => TcpTypeOK /\ ResponseWhole
BY DEF TcpInv, Sockets, Apps, TcpTypeOK, Counted, ResponseWhole, ServerClosed, Closing, Transfer

--------------------------------------------------------------------------------
\* The socket's operations.

LEMMA DrainedIs ==
  ASSUME NEW s \in Sockets
  PROVE  Drained(s) \in Sockets /\ Drained(s).st = s.st /\ Drained(s).tx = s.tx
         /\ Drained(s).rx = "none"
BY DEF Drained, Sockets

LEMMA CloseIs ==
  ASSUME NEW s \in Sockets
  PROVE  /\ CloseSocket(s) \in Sockets
         /\ Transfer(s) => Closing(CloseSocket(s))
         /\ ~Transfer(s) => CloseSocket(s).st = s.st
         /\ CloseSocket(s).rx = s.rx
BY DEF CloseSocket, Sockets, Transfer, Closing

LEMMA QueuedIs ==
  ASSUME NEW s \in Sockets, NEW n \in Nat, s.tx + n <= TxRoom
  PROVE  [s EXCEPT !.tx = @ + n] \in Sockets /\ [s EXCEPT !.tx = @ + n].st = s.st
BY TcpAssumption DEF Sockets

LEMMA PageIs ==
  ASSUME NEW s \in Sockets, can_send(s)
  PROVE  Page(s) \in Sockets /\ Closing(Page(s))
<1>1. Transfer(s) /\ s.tx + 1 <= TxRoom
  BY TcpAssumption DEF can_send, may_send, Transfer, Sockets
<1>2. [s EXCEPT !.tx = @ + 1] \in Sockets /\ Transfer([s EXCEPT !.tx = @ + 1])
  BY <1>1, QueuedIs DEF Transfer
<1> QED
  BY <1>2, CloseIs DEF Page

LEMMA ListenIs ==
  /\ [Closed EXCEPT !.st = "listen"] \in Sockets /\ [Closed EXCEPT !.st = "listen"].st = "listen"
  /\ [Closed EXCEPT !.st = "listen"].rx = "none"
  /\ Idle \in Apps /\ ~Idle.bulk
BY TcpAssumption DEF Closed, Sockets, Idle, Apps

--------------------------------------------------------------------------------
\* One poll of each server.

\* A poll that only reads changes no count.
LEMMA DrainCounts ==
  ASSUME NEW k, NEW s, NEW t, NEW a, NEW n, Counted(k, s, a, n), t.st = s.st,
         t.st = "listen" => t.rx = "none"
  PROVE  Counted(k, t, a, n)
BY DEF Counted, Transfer, Closing

LEMMA ServeHttpGood ==
  ASSUME TcpInv, kind = "http", serve_http
  PROVE  tcp' \in Sockets /\ app' \in Apps /\ sent' \in 0 .. BulkLen + 1 /\ Counted(kind, tcp', app', sent')
<1> DEFINE s == IF is_open(tcp) THEN Drained(tcp) ELSE [Closed EXCEPT !.st = "listen"]
<1>1. s \in Sockets /\ app' = app /\ app = Idle /\ app \in Apps
  BY DrainedIs, ListenIs DEF serve_http, TcpInv, Counted
<1>2. CASE ~is_open(tcp)
  <2>1. s.st = "listen" /\ s.rx = "none" /\ ~can_send(s)
    BY <1>2, ListenIs DEF can_send, may_send
  <2>2. tcp' = s /\ sent' = 0
    BY <1>2, <2>1 DEF serve_http
  <2>. HIDE DEF s
  <2> QED
    BY <1>1, <2>1, <2>2, TcpAssumption DEF Counted, Transfer, Closing
<1>3. CASE is_open(tcp) /\ can_send(s)
  <2>1. tcp' = Page(s) /\ sent' = sent + 1 /\ Transfer(s) /\ s.st = tcp.st
    BY <1>3, DrainedIs DEF serve_http, can_send, may_send, Transfer, TcpInv
  <2>. HIDE DEF s
  <2>2. sent = 0
    BY <1>1, <2>1, ListenIs DEF TcpInv, Counted, Transfer
  <2>3. tcp' \in Sockets /\ Closing(tcp')
    BY <1>1, <1>3, <2>1, PageIs
  <2> QED
    BY <1>1, <2>1, <2>2, <2>3, TcpAssumption DEF TcpInv, Counted, Transfer, Closing
<1>4. CASE is_open(tcp) /\ ~can_send(s)
  <2>1. tcp' = Drained(tcp) /\ sent' = sent
    BY <1>4 DEF serve_http
  <2> QED
    BY <1>1, <2>1, DrainedIs, DrainCounts DEF TcpInv
<1> QED
  BY <1>2, <1>3, <1>4

\* Header and chunks queued by Stream add up with what is left.
LEMMA StreamGood ==
  ASSUME TcpInv, kind \in {"http_bulk", "status"}, NEW s \in Sockets, s.st = tcp.st, s.rx \in {tcp.rx, "none"}, app.bulk,
         Stream(s, app)
  PROVE  tcp' \in Sockets /\ app' \in Apps /\ sent' \in 0 .. BulkLen + 1 /\ Counted(kind, tcp', app', sent')
<1> DEFINE header == IF app.header_sent THEN 0 ELSE 1
           room   == TxRoom - s.tx - header
           n      == IF app.remaining < room THEN app.remaining ELSE room
           queued == [s EXCEPT !.tx = @ + header + n]
<1>1. /\ app \in Apps /\ sent \in 0 .. BulkLen + 1 /\ Counted(kind, tcp, app, sent)
      /\ s.tx \in 0 .. TxRoom /\ app.remaining \in 0 .. BulkLen
      /\ BulkLen \in Nat /\ TxRoom \in Nat /\ header \in {0, 1} /\ room \in Int
  BY TcpAssumption DEF TcpInv, Sockets, Apps
<1>2. CASE ~may_send(s) \/ room < 0
  <2>1. tcp' = s /\ app' = app /\ sent' = sent
    BY <1>2 DEF Stream
  <2>2. tcp'.st = "listen" => tcp'.rx = "none"
    BY <1>1, <2>1 DEF Counted
  <2> QED
    BY <1>1, <2>1, <2>2, DrainCounts
<1>3. CASE may_send(s) /\ ~(room < 0)
  <2>1. /\ sent' = sent + header + n
        /\ IF app.remaining = n
           THEN tcp' = CloseSocket(queued) /\ app' = Idle
           ELSE tcp' = queued /\ app' = [bulk |-> TRUE, remaining |-> app.remaining - n, header_sent |-> TRUE]
    BY <1>3 DEF Stream
  <2>2. n \in Nat /\ n <= app.remaining /\ s.tx + (header + n) <= TxRoom /\ header + n \in Nat
    BY <1>1, <1>3
  <2>3. sent + app.remaining = BulkLen + 1 - header
    BY <1>1, <1>3 DEF Counted, Transfer, may_send
  <2>. HIDE DEF header, n, room
  <2>4. queued = [s EXCEPT !.tx = @ + (header + n)]
    BY <1>1, <2>2 DEF Sockets
  <2>5. queued \in Sockets /\ queued.st = s.st
    BY <2>2, <2>4, QueuedIs
  <2>6. Transfer(queued)
    BY <1>3, <2>5 DEF Transfer, may_send
  <2>. HIDE DEF queued
  <2>7. CASE app.remaining = n
    <3>1. tcp' \in Sockets /\ Closing(tcp') /\ app' = Idle /\ sent' = BulkLen + 1
      BY <1>1, <2>1, <2>2, <2>3, <2>5, <2>6, <2>7, CloseIs
    <3> QED
      BY <1>1, <3>1, ListenIs DEF Counted, Transfer, Closing
  <2>8. CASE app.remaining # n
    <3>1. /\ tcp' = queued /\ sent' = sent + header + n
          /\ app' = [bulk |-> TRUE, remaining |-> app.remaining - n, header_sent |-> TRUE]
      BY <2>1, <2>8
    <3>2. app' \in Apps /\ app'.bulk /\ app'.header_sent /\ app'.remaining = app.remaining - n
      BY <1>1, <2>2, <3>1 DEF Apps
    <3>3. sent' + app'.remaining = BulkLen + 1 /\ sent' \in 0 .. BulkLen + 1
      BY <1>1, <2>2, <2>3, <3>1, <3>2
    <3> QED
      BY <2>5, <2>6, <3>1, <3>2, <3>3 DEF Counted, Transfer, Closing
  <2> QED
    BY <2>7, <2>8
<1> QED
  BY <1>2, <1>3
LEMMA Relisten ==
  ASSUME TcpInv, Listen, app' = Idle
  PROVE  tcp' \in Sockets /\ app' \in Apps /\ sent' \in 0 .. BulkLen + 1 /\ Counted(kind, tcp', app', sent')
<1>1. tcp' = [Closed EXCEPT !.st = "listen"] /\ sent' = 0
  BY DEF Listen
<1> QED
  BY <1>1, ListenIs, TcpAssumption DEF Counted, Transfer, Closing

LEMMA ServeBulkGood ==
  ASSUME TcpInv, kind = "http_bulk", serve_http_bulk
  PROVE  tcp' \in Sockets /\ app' \in Apps /\ sent' \in 0 .. BulkLen + 1 /\ Counted(kind, tcp', app', sent')
<1> DEFINE s == Drained(tcp)
<1>1. s \in Sockets /\ s.st = tcp.st /\ s.rx = "none" /\ tcp \in Sockets /\ app \in Apps
  BY DrainedIs DEF TcpInv
<1>2. CASE ~is_open(tcp)
  BY <1>2, Relisten DEF serve_http_bulk
<1>3. CASE is_open(tcp) /\ app.bulk
  <2>1. Stream(s, app)
    BY <1>3 DEF serve_http_bulk
  <2>. HIDE DEF s
  <2> QED
    BY <1>1, <1>3, <2>1, StreamGood
<1>4. CASE is_open(tcp) /\ ~app.bulk /\ can_send(s)
  <2>1. /\ tcp' = [s EXCEPT !.tx = @ + 1] /\ sent' = sent + 1
        /\ app' = [bulk |-> TRUE, remaining |-> BulkLen, header_sent |-> TRUE]
    BY <1>4 DEF serve_http_bulk
  <2>. HIDE DEF s
  <2>2. Transfer(s) /\ s.tx + 1 <= TxRoom
    BY <1>1, <1>4, TcpAssumption DEF can_send, may_send, Transfer, Sockets
  <2>3. tcp' \in Sockets /\ Transfer(tcp')
    BY <1>1, <2>1, <2>2, QueuedIs DEF Transfer
  <2>4. sent = 0
    BY <1>1, <1>4, <2>2 DEF TcpInv, Counted, Transfer
  <2>5. app' \in Apps /\ app'.bulk /\ app'.header_sent /\ app'.remaining = BulkLen
    BY <2>1, TcpAssumption DEF Apps
  <2> QED
    BY <2>1, <2>3, <2>4, <2>5, TcpAssumption DEF Counted, Transfer, Closing
<1>5. CASE is_open(tcp) /\ ~app.bulk /\ ~can_send(s)
  <2>1. tcp' = s /\ app' = app /\ sent' = sent
    BY <1>5 DEF serve_http_bulk
  <2> QED
    BY <1>1, <2>1, DrainCounts DEF TcpInv
<1> QED
  BY <1>2, <1>3, <1>4, <1>5

LEMMA ServeStatusGood ==
  ASSUME TcpInv, kind = "status", serve_status_http
  PROVE  tcp' \in Sockets /\ app' \in Apps /\ sent' \in 0 .. BulkLen + 1 /\ Counted(kind, tcp', app', sent')
<1> DEFINE s == Drained(tcp)
<1>1. s \in Sockets /\ s.st = tcp.st /\ s.rx = "none" /\ tcp \in Sockets /\ app \in Apps
  BY DrainedIs DEF TcpInv
<1>2. CASE ~is_open(tcp)
  BY <1>2, Relisten DEF serve_status_http
<1>3. CASE is_open(tcp) /\ app.bulk
  BY <1>1, <1>3, StreamGood DEF serve_status_http
<1>4. CASE is_open(tcp) /\ ~app.bulk /\ tcp.rx = "none"
  <2>1. tcp' = tcp /\ app' = app /\ sent' = sent
    BY <1>4 DEF serve_status_http, Route
  <2> QED
    BY <2>1 DEF TcpInv
<1>5. CASE is_open(tcp) /\ ~app.bulk /\ tcp.rx = "bulk"
  <2>1. /\ tcp' = s /\ sent' = sent
        /\ app' = [bulk |-> TRUE, remaining |-> BulkLen, header_sent |-> FALSE]
    BY <1>5 DEF serve_status_http, Route
  <2>. HIDE DEF s
  <2>2. app' \in Apps /\ app'.bulk /\ ~app'.header_sent /\ app'.remaining = BulkLen
    BY <2>1, TcpAssumption DEF Apps
  <2>3. tcp.st # "listen" \/ app = Idle
    BY DEF TcpInv, Counted
  <2>4. tcp.st # "listen"
    BY <1>5 DEF TcpInv, Counted
  <2>5. Transfer(tcp) => sent = 0
    BY <1>5 DEF TcpInv, Counted
  <2> QED
    BY <1>1, <2>1, <2>2, <2>4, <2>5, TcpAssumption DEF TcpInv, Counted, Transfer, Closing
<1>6. CASE is_open(tcp) /\ ~app.bulk /\ tcp.rx = "other" /\ can_send(tcp)
  <2>1. tcp' = Page(s) /\ sent' = sent + 1 /\ app' = app
    BY <1>6 DEF serve_status_http, Route
  <2>4. can_send(s)
    BY <1>1, <1>6, DrainedIs DEF can_send, may_send
  <2>. HIDE DEF s
  <2>2. tcp' \in Sockets /\ Closing(tcp') /\ Transfer(s)
    BY <1>1, <1>6, <2>4, <2>1, PageIs DEF can_send, may_send, Transfer
  <2>3. sent = 0
    BY <1>1, <1>6, <2>2 DEF TcpInv, Counted, Transfer
  <2> QED
    BY <1>1, <1>6, <2>1, <2>2, <2>3, TcpAssumption DEF Counted, Transfer, Closing
<1>7. CASE is_open(tcp) /\ ~app.bulk /\ tcp.rx = "other" /\ ~can_send(tcp)
  <2>1. tcp' = s /\ app' = app /\ sent' = sent
    BY <1>7 DEF serve_status_http, Route
  <2> QED
    BY <1>1, <2>1, DrainCounts DEF TcpInv
<1> QED
  BY <1>1, <1>2, <1>3, <1>4, <1>5, <1>6, <1>7 DEF Sockets

LEMMA ServeSinkGood ==
  ASSUME TcpInv, kind \in {"fd_sink", "lan_sink"}, serve_sink
  PROVE  tcp' \in Sockets /\ app' \in Apps /\ sent' \in 0 .. BulkLen + 1 /\ Counted(kind, tcp', app', sent')
<1> DEFINE s == Drained(tcp)
<1>1. /\ s \in Sockets /\ s.st = tcp.st /\ s.rx = "none" /\ tcp \in Sockets /\ app \in Apps
      /\ app = Idle /\ app' = app
  BY DrainedIs DEF TcpInv, Counted, serve_sink
<1>2. CASE ~is_open(tcp)
  BY <1>1, <1>2, Relisten DEF serve_sink
<1>3. CASE is_open(tcp)
  <2>1. sent' = sent /\ (tcp' = s \/ tcp' = CloseSocket(s))
    BY <1>3 DEF serve_sink
  <2>2. tcp' \in Sockets /\ (tcp'.st = tcp.st \/ Closing(tcp')) /\ tcp'.rx = "none"
    <3>. HIDE DEF s
    <3> QED
      BY <1>1, <2>1, CloseIs
  <2>3. CASE tcp'.st = tcp.st
    BY <1>1, <2>1, <2>2, <2>3, DrainCounts DEF TcpInv
  <2>4. CASE Closing(tcp')
    BY <1>1, <2>1, <2>2, <2>4, ListenIs DEF TcpInv, Counted, Transfer, Closing
  <2> QED
    BY <2>2, <2>3, <2>4
<1> QED
  BY <1>2, <1>3

LEMMA ServeGood ==
  ASSUME TcpInv, Serve
  PROVE  TcpInv'
<1>1. kind' = kind /\ peer' = peer
  BY DEF Serve
<1>2. CASE kind = "http"
  BY <1>1, <1>2, ServeHttpGood DEF Serve, TcpInv
<1>3. CASE kind = "http_bulk"
  BY <1>1, <1>3, ServeBulkGood DEF Serve, TcpInv
<1>4. CASE kind = "status"
  BY <1>1, <1>4, ServeStatusGood DEF Serve, TcpInv
<1>5. CASE kind \in {"fd_sink", "lan_sink"}
  BY <1>1, <1>5, ServeSinkGood DEF Serve, TcpInv
<1> QED
  BY <1>2, <1>3, <1>4, <1>5 DEF TcpInv, Kinds

--------------------------------------------------------------------------------
\* The socket and its peer.

LEMMA PeerGood ==
  ASSUME TcpInv, PeerNext
  PROVE  TcpInv'
<1>1. kind' = kind /\ app' = app /\ sent' = sent
  BY DEF PeerNext, Connect, SendData, Ack, PeerFin, LastAck, PeerReset, Vanish
<1>2. peer' \in {"none", "open", "half", "vanished"}
  BY DEF TcpInv, PeerNext, Connect, SendData, Ack, PeerFin, LastAck, PeerReset, Vanish
<1>3. Closed \in Sockets /\ Closed.st = "closed"
  BY TcpAssumption DEF Closed, Sockets
<1>4. ASSUME tcp' \in Sockets, Counted(kind, tcp', app, sent)
      PROVE  TcpInv'
  BY <1>1, <1>2, <1>4 DEF TcpInv
<1>5. CASE tcp' = Closed
  <2>1. Counted(kind, tcp', app, sent)
    BY <1>3, <1>5 DEF TcpInv, Counted, Transfer, Closing
  <2> QED
    BY <1>3, <1>4, <1>5, <2>1
<1>6. CASE Connect
  <2>1. tcp' \in Sockets /\ tcp'.st = "established" /\ tcp.st = "listen"
    BY <1>6 DEF Connect, TcpInv, Sockets
  <2>2. Counted(kind, tcp', app, sent)
    BY <2>1, ListenIs DEF TcpInv, Counted, Transfer, Closing
  <2> QED
    BY <1>4, <2>1, <2>2
<1>7. ASSUME tcp' \in Sockets, tcp'.st = tcp.st, tcp'.st = "listen" => tcp'.rx = "none"
      PROVE  TcpInv'
  BY <1>4, <1>7, DrainCounts DEF TcpInv
<1>8. ASSUME NEW what \in {"bulk", "other"}, SendData(what)
      PROVE  TcpInv'
  <2>1. tcp' \in Sockets /\ tcp'.st = tcp.st /\ tcp'.st # "listen"
    BY <1>8 DEF SendData, TcpInv, Sockets
  <2> QED
    BY <1>7, <2>1
<1>9. CASE Ack
  <2>1. tcp' \in Sockets /\ tcp'.st = tcp.st /\ tcp'.rx = tcp.rx
    BY <1>9, TcpAssumption DEF Ack, TcpInv, Sockets
  <2>2. tcp'.st = "listen" => tcp'.rx = "none"
    BY <2>1 DEF TcpInv, Counted
  <2> QED
    BY <1>7, <2>1, <2>2
<1>10. CASE PeerFin /\ tcp' # Closed
  <2>1. tcp' \in Sockets /\ tcp.st = "established" /\ tcp'.st = "close_wait"
    BY <1>10 DEF PeerFin, TcpInv, Sockets
  <2>2. Counted(kind, tcp', app, sent)
    BY <2>1 DEF TcpInv, Counted, Transfer, Closing
  <2> QED
    BY <1>4, <2>1, <2>2
<1>11. CASE Vanish
  <2>1. tcp' = tcp /\ tcp \in Sockets /\ (tcp.st = "listen" => tcp.rx = "none")
    BY <1>11 DEF Vanish, TcpInv, Counted
  <2> QED
    BY <1>7, <2>1
<1> QED
  BY <1>5, <1>6, <1>8, <1>9, <1>10, <1>11 DEF PeerNext, LastAck, PeerReset

--------------------------------------------------------------------------------
\* The time driver.

\* Every nonempty set of naturals has a least element.
LEMMA LeastOf ==
  ASSUME NEW S \in SUBSET Nat, S # {}
  PROVE  \E m \in S : \A j \in S : m <= j
<1> DEFINE R == OpToRel(<, Nat)
<1>1. IsWellFoundedOn(R, Nat)
  BY NatLessThanWellFounded
<1>2. \A i, j \in Nat : <<i, j>> \in R <=> i < j
  BY DEF OpToRel
<1> HIDE DEF R
<1>3. PICK m \in S : \A j \in S : ~(<<j, m>> \in R)
  BY <1>1, WFMin
<1>4. \A j \in S : ~(j < m)
  BY <1>2, <1>3
<1> QED BY <1>4

TimeType ==
  /\ due \in [Task -> Int \cup {None}]
  /\ alarm \in (Nat \ {0}) \cup {None}
  /\ inte \in BOOLEAN /\ intr \in BOOLEAN /\ missed \in BOOLEAN
  /\ driver \in [at : {"rest", "read", "write"}, next : Int \cup {None}]
  /\ late \in 0 .. MaxLate /\ fed \in Nat

\* From the queue's answer to the write of ALARM0 the deadlines are ahead, or passed only while
\* the core was late, and the target is at most 1 + MaxLate after the first of them.
Serving ==
  /\ driver.at = "read" =>
       \A t \in Task : due[t] # None =>
         due[t] >= 1 - late /\ driver.next # None /\ driver.next <= due[t]
  /\ driver.at = "read" /\ driver.next # None => driver.next >= 1 - late
  /\ driver.at = "write" =>
       /\ inte /\ driver.next # None
       /\ \A t \in Task : due[t] # None =>
            due[t] >= 1 - late /\ driver.next <= due[t] + 1 + MaxLate

\* At rest every deadline is about to be served, or has the alarm set for it.
Covered ==
  driver.at = "rest" /\ ~missed =>
    \A t \in Task : due[t] # None =>
      /\ due[t] >= -(1 + MaxLate) - late
      /\ IrqPending \/ (inte /\ alarm # None /\ alarm <= due[t] + 1 + MaxLate)

TimeInv == TimeType /\ Serving /\ Covered

LEMMA TimeInitGood == TimeInit => TimeInv
<1> SUFFICES ASSUME TimeInit PROVE TimeInv
  OBVIOUS
<1>1. driver = [at |-> "rest", next |-> None] /\ \A t \in Task : due[t] = None
  BY DEF TimeInit, Rest
<1>2. TimeType
  <2>1. driver \in [at : {"rest", "read", "write"}, next : Int \cup {None}]
    BY <1>1
  <2>2. late \in 0 .. MaxLate /\ fed \in Nat
    BY TimeAssumption DEF TimeInit
  <2> QED BY <2>1, <2>2 DEF TimeInit, TimeType
<1>3. Serving /\ Covered
  BY <1>1 DEF Serving, Covered
<1> QED BY <1>2, <1>3 DEF TimeInv

\* What next_expiration leaves waiting lies ahead, and the first of it is the next deadline.
LEMMA NextExpirationIs ==
  ASSUME NEW q \in [Task -> Int \cup {None}], NextExpiration(q)
  PROVE  /\ due' \in [Task -> Int \cup {None}]
         /\ driver' \in [at : {"read"}, next : Int \cup {None}]
         /\ \A t \in Task : due'[t] # None =>
              due'[t] = q[t] /\ due'[t] >= 1 /\ driver'.next # None /\ driver'.next <= due'[t]
         /\ driver'.next # None => driver'.next >= 1
<1> DEFINE left == {q[t] : t \in Task \ Expired(q)} \ {None}
<1>1. left \subseteq Nat \ {0}
  BY TimeAssumption DEF Expired
<1>2. /\ due' = [t \in Task |-> IF t \in Expired(q) THEN None ELSE q[t]]
      /\ driver' = [at |-> "read", next |-> IF left = {} THEN None
                                            ELSE CHOOSE n \in left : \A o \in left : n <= o]
  BY DEF NextExpiration
<1>3. \A t \in Task : due'[t] # None => due'[t] = q[t] /\ q[t] \in left
  BY <1>2
<1> HIDE DEF left
<1>4. left # {} => driver'.next \in left /\ \A o \in left : driver'.next <= o
  <2>1. left \in SUBSET Nat
    BY <1>1
  <2>2. left # {} => \E m \in left : \A o \in left : m <= o
    BY <2>1, LeastOf
  <2>3. left # {} => driver'.next = CHOOSE n \in left : \A o \in left : n <= o
    BY <1>2
  <2> QED BY <2>2, <2>3
<1>5. \A n \in left : n \in Int /\ n >= 1
  BY <1>1
<1>6. left = {} => driver'.next = None
  BY <1>2
<1>7. due' \in [Task -> Int \cup {None}] /\ driver'.at = "read" /\ DOMAIN driver' = {"at", "next"}
  BY <1>2
<1>8. driver' \in [at : {"read"}, next : Int \cup {None}]
  <2> DEFINE n == IF left = {} THEN None ELSE CHOOSE n \in left : \A o \in left : n <= o
  <2>1. driver' = [at |-> "read", next |-> n]
    BY <1>2
  <2>2. n = driver'.next
    BY <2>1
  <2> HIDE DEF n
  <2>3. n \in Int \cup {None}
    BY <2>2, <1>4, <1>5, <1>6
  <2> QED BY <2>1, <2>3
<1>9. \A t \in Task : due'[t] # None =>
        due'[t] = q[t] /\ due'[t] >= 1 /\ driver'.next # None /\ driver'.next <= due'[t]
  <2> TAKE t \in Task
  <2> HAVE due'[t] # None
  <2>1. q[t] \in left /\ due'[t] = q[t] /\ left # {}
    BY <1>3
  <2>2. driver'.next \in Nat \ {0} /\ q[t] \in Nat \ {0} /\ driver'.next <= q[t]
    BY <1>1, <1>4, <2>1
  <2>3. None \notin Nat
    BY TimeAssumption
  <2> QED BY <2>1, <2>2, <2>3
<1>10. driver'.next # None => driver'.next >= 1
  BY <1>4, <1>5, <1>6
<1> QED BY <1>7, <1>8, <1>9, <1>10

\* One microsecond, for each deadline.
LEMMA TickIs ==
  ASSUME TimeType, Tick
  PROVE  /\ due' \in [Task -> Int \cup {None}]
         /\ \A t \in Task : due[t] = None => due'[t] = None
         /\ \A t \in Task : due[t] # None => due[t] \in Int /\ due'[t] = due[t] - 1 /\ due'[t] # None
         /\ driver' \in [at : {"rest", "read", "write"}, next : Int \cup {None}]
         /\ driver'.at = driver.at
         /\ driver.next = None => driver'.next = None
         /\ driver.next # None =>
              driver.next \in Int /\ driver'.next = driver.next - 1 /\ driver'.next # None
         /\ alarm = None => alarm' = None /\ intr' = intr
         /\ alarm = 1 => alarm' = None /\ intr' = TRUE
         /\ alarm # None /\ alarm # 1 => alarm \in Nat /\ alarm' = alarm - 1 /\ alarm' \in Nat \ {0}
                                         /\ alarm' # None /\ intr' = intr
         /\ inte' = inte /\ missed' = missed /\ fed' = fed + 1
         /\ Busy => late' = late + 1 /\ late < MaxLate
         /\ ~Busy => late' = 0
<1>1. /\ due \in [Task -> Int \cup {None}] /\ None \notin Int
      /\ driver \in [at : {"rest", "read", "write"}, next : Int \cup {None}]
      /\ alarm \in (Nat \ {0}) \cup {None} /\ intr \in BOOLEAN
  BY TimeAssumption DEF TimeType
<1>2. /\ due' = [t \in Task |-> Less(due[t])]
      /\ driver' = [driver EXCEPT !.next = Less(driver.next)]
      /\ alarm' = (IF alarm = 1 THEN None ELSE Less(alarm))
      /\ intr' = (intr \/ alarm = 1)
  BY DEF Tick
<1>3. \A n \in Int : Less(n) = n - 1 /\ Less(n) \in Int /\ Less(n) # None
  BY <1>1 DEF Less
<1>4. Less(None) = None
  BY DEF Less
<1>5. \A t \in Task : due'[t] = Less(due[t])
  BY <1>2
<1>6. driver'.at = driver.at /\ driver'.next = Less(driver.next)
      /\ driver' \in [at : {"rest", "read", "write"}, next : Int \cup {None}]
  BY <1>1, <1>2, <1>3, <1>4
<1>7. alarm # None /\ alarm # 1 => alarm \in Nat /\ alarm' = alarm - 1 /\ alarm' \in Nat \ {0}
  BY <1>1, <1>2, <1>3
<1>8. due' \in [Task -> Int \cup {None}]
  BY <1>1, <1>2, <1>3, <1>4
<1>9. Nat \subseteq Int
  OBVIOUS
<1>10. /\ \A t \in Task : due[t] = None => due'[t] = None
       /\ \A t \in Task : due[t] # None => due[t] \in Int /\ due'[t] = due[t] - 1 /\ due'[t] # None
  BY <1>1, <1>3, <1>4, <1>5
<1>11. /\ driver.next = None => driver'.next = None
       /\ driver.next # None =>
            driver.next \in Int /\ driver'.next = driver.next - 1 /\ driver'.next # None
  BY <1>1, <1>3, <1>4, <1>6
<1>12. /\ alarm = None => alarm' = None /\ intr' = intr
       /\ alarm = 1 => alarm' = None /\ intr' = TRUE
       /\ alarm # None /\ alarm # 1 => alarm' # None /\ intr' = intr
  BY <1>1, <1>2, <1>4, <1>7, <1>9
<1>13. /\ inte' = inte /\ missed' = missed /\ fed' = fed + 1
       /\ Busy => late' = late + 1 /\ late < MaxLate
       /\ ~Busy => late' = 0
  BY DEF Tick
<1> QED BY <1>6, <1>7, <1>8, <1>10, <1>11, <1>12, <1>13

\* What Settled does to the lateness.
LEMMA SettledIs ==
  ASSUME TimeType, Settled
  PROVE  late' \in 0 .. MaxLate /\ (late' = late \/ (late' = 0 /\ ~Busy'))
<1>1. late \in 0 .. MaxLate /\ 0 \in 0 .. MaxLate
  BY TimeAssumption DEF TimeType
<1>2. CASE Busy'
  BY <1>1, <1>2 DEF Settled
<1>3. CASE ~Busy'
  BY <1>1, <1>3 DEF Settled
<1> QED BY <1>2, <1>3

\* A deadline that the armed alarm covers has not passed by more than MaxLate.
LEMMA TimeTick ==
  ASSUME TimeInv, Tick
  PROVE  TimeInv'
<1>1. TimeType /\ MaxLate \in Nat /\ None \notin Int /\ late \in 0 .. MaxLate /\ fed \in Nat
  BY TimeAssumption DEF TimeInv, TimeType
<1>2. TimeType'
  <2>1. alarm' \in (Nat \ {0}) \cup {None} /\ intr' \in BOOLEAN
    BY <1>1, TickIs DEF TimeType
  <2>2. late' \in 0 .. MaxLate /\ fed' \in Nat
    BY <1>1, TickIs
  <2> QED BY <1>1, <2>1, <2>2, TickIs DEF TimeType
<1>3. Serving'
  <2>1. CASE driver.at = "rest"
    BY <1>1, <2>1, TickIs DEF Serving
  <2>2. ASSUME driver.at # "rest" PROVE late' = late + 1 /\ driver'.at = driver.at /\ inte' = inte
    BY <1>1, <2>2, TickIs DEF Busy
  <2>3. CASE driver.at = "read"
    <3>1. ASSUME NEW t \in Task, due'[t] # None
          PROVE  due'[t] >= 1 - late' /\ driver'.next # None /\ driver'.next <= due'[t]
      <4>1. /\ due[t] \in Int /\ due'[t] = due[t] - 1
            /\ driver.next \in Int /\ driver'.next = driver.next - 1 /\ driver'.next # None
            /\ due[t] >= 1 - late /\ driver.next <= due[t]
        BY <1>1, <2>3, <3>1, TickIs DEF TimeInv, Serving
      <4> QED BY <1>1, <2>2, <2>3, <4>1
    <3>2. driver'.next # None => driver'.next >= 1 - late'
      <4> HAVE driver'.next # None
      <4>1. driver.next \in Int /\ driver'.next = driver.next - 1 /\ driver.next >= 1 - late
        BY <1>1, <2>3, TickIs DEF TimeInv, Serving
      <4> QED BY <1>1, <2>2, <2>3, <4>1
    <3> QED BY <2>2, <2>3, <3>1, <3>2 DEF Serving
  <2>4. CASE driver.at = "write"
    <3>1. driver.next \in Int /\ driver'.next = driver.next - 1 /\ driver'.next # None /\ inte'
      BY <1>1, <2>2, <2>4, TickIs DEF TimeInv, Serving
    <3>2. ASSUME NEW t \in Task, due'[t] # None
          PROVE  due'[t] >= 1 - late' /\ driver'.next <= due'[t] + 1 + MaxLate
      <4>1. /\ due[t] \in Int /\ due'[t] = due[t] - 1
            /\ due[t] >= 1 - late /\ driver.next <= due[t] + 1 + MaxLate
        BY <1>1, <2>4, <3>2, TickIs DEF TimeInv, Serving
      <4> QED BY <1>1, <2>2, <2>4, <3>1, <4>1
    <3> QED BY <2>2, <2>4, <3>1, <3>2 DEF Serving
  <2> QED BY <2>1, <2>3, <2>4, <1>1 DEF TimeType
<1>4. Covered'
  <2> SUFFICES ASSUME driver'.at = "rest", ~missed', NEW t \in Task, due'[t] # None
               PROVE  /\ due'[t] >= -(1 + MaxLate) - late'
                      /\ IrqPending' \/ (inte' /\ alarm' # None /\ alarm' <= due'[t] + 1 + MaxLate)
    BY DEF Covered
  <2>1. /\ due[t] \in Int /\ due'[t] = due[t] - 1 /\ inte' = inte
        /\ due[t] >= -(1 + MaxLate) - late
        /\ IrqPending \/ (inte /\ alarm # None /\ alarm <= due[t] + 1 + MaxLate)
    BY <1>1, TickIs DEF TimeInv, Covered
  <2>2. CASE IrqPending
    <3>1. IrqPending' /\ late' = late + 1
      BY <1>1, <2>1, <2>2, TickIs DEF IrqPending, Busy
    <3> QED BY <1>1, <2>1, <3>1
  <2>3. CASE inte /\ alarm # None /\ alarm <= due[t] + 1 + MaxLate
    <3>1. alarm \in Nat \ {0}
      BY <1>1, <2>3 DEF TimeType
    <3>2. due'[t] >= -(1 + MaxLate) - late'
      <4>1. late' = late + 1 \/ late' = 0
        BY <1>1, TickIs
      <4> QED BY <1>1, <2>1, <2>3, <3>1, <4>1
    <3>3. CASE alarm = 1
      BY <1>1, <2>1, <2>3, <3>2, <3>3, TickIs DEF IrqPending
    <3>4. CASE alarm # 1
      <4>1. alarm' = alarm - 1 /\ alarm' # None
        BY <1>1, <2>3, <3>4, TickIs
      <4> QED BY <1>1, <2>1, <2>3, <3>1, <3>2, <4>1
    <3> QED BY <3>3, <3>4
  <2> QED BY <2>1, <2>2, <2>3
<1> QED BY <1>2, <1>3, <1>4 DEF TimeInv

\* After next_expiration the driver is about to read the clock, and nothing has passed.
LEMMA TimeServed ==
  ASSUME TimeInv, NEW q \in [Task -> Int \cup {None}], NextExpiration(q), Settled,
         alarm' = alarm, inte' = inte, intr' \in BOOLEAN, missed' = missed, fed' \in Nat
  PROVE  TimeInv'
<1>1. TimeType /\ MaxLate \in Nat /\ None \notin Int
  BY TimeAssumption DEF TimeInv
<1>2. late' \in 0 .. MaxLate
  BY <1>1, SettledIs
<1>3. driver' \in [at : {"rest", "read", "write"}, next : Int \cup {None}] /\ driver'.at = "read"
  BY NextExpirationIs
<1>4. TimeType'
  BY <1>1, <1>2, <1>3, NextExpirationIs DEF TimeType
<1>5. Serving'
  <2>1. ASSUME NEW t \in Task, due'[t] # None
        PROVE  due'[t] >= 1 - late' /\ driver'.next # None /\ driver'.next <= due'[t]
    <3>1. due'[t] \in Int /\ due'[t] >= 1 /\ driver'.next # None /\ driver'.next <= due'[t]
      BY <2>1, NextExpirationIs
    <3> QED BY <1>2, <3>1
  <2>2. ASSUME driver'.next # None PROVE driver'.next >= 1 - late'
    <3>1. driver'.next \in Int /\ driver'.next >= 1
      BY <1>3, <2>2, NextExpirationIs
    <3> QED BY <1>2, <3>1
  <2> QED BY <1>3, <2>1, <2>2 DEF Serving
<1>6. Covered'
  BY <1>3 DEF Covered
<1> QED BY <1>4, <1>5, <1>6 DEF TimeInv

\* A task that waits again, behind an earlier deadline, is covered with it.
LEMMA TimePoll ==
  ASSUME TimeInv, NEW t \in Task, Poll(t)
  PROVE  TimeInv'
<1>1. /\ TimeType /\ MaxLate \in Nat /\ None \notin Int /\ Settled /\ driver.at = "rest" /\ due[t] = None
      /\ alarm' = alarm /\ inte' = inte /\ intr' = intr /\ missed' = missed /\ fed' \in Nat
  BY TimeAssumption DEF TimeInv, TimeType, Poll, Awake
<1>2. PICK d \in Nat \ {0} :
        LET q == [due EXCEPT ![t] = d]
            earliest == \A u \in Task \ Awake : d < due[u] IN
        NextExpiration(q) \/ (~earliest /\ due' = q /\ UNCHANGED driver)
  BY TimeAssumption DEF Poll
<1> DEFINE q == [due EXCEPT ![t] = d]
<1>3. q \in [Task -> Int \cup {None}] /\ q[t] = d /\ \A u \in Task : u # t => q[u] = due[u]
  BY <1>1 DEF TimeType
<1>4. CASE NextExpiration(q)
  <2>1. intr' \in BOOLEAN
    BY <1>1 DEF TimeType
  <2> HIDE DEF q
  <2> QED BY <1>1, <1>3, <1>4, <2>1, TimeServed
<1>5. CASE due' = q /\ driver' = driver /\ \E u \in Task \ Awake : ~(d < due[u])
  <2>1. PICK u \in Task : due[u] # None /\ ~(d < due[u])
    BY <1>5 DEF Awake
  <2>2. u # t /\ due[u] \in Int /\ d >= due[u]
    BY <1>1, <2>1 DEF TimeType
  <2> HIDE DEF q
  <2>3. TimeType'
    BY <1>1, <1>3, <1>5, SettledIs DEF TimeType
  <2>4. Serving'
    BY <1>1, <1>5 DEF Serving
  <2>5. Covered'
    <3> SUFFICES ASSUME ~missed', NEW v \in Task, due'[v] # None
                 PROVE  /\ due'[v] >= -(1 + MaxLate) - late'
                        /\ IrqPending' \/ (inte' /\ alarm' # None /\ alarm' <= due'[v] + 1 + MaxLate)
      BY DEF Covered
    <3>1. PICK w \in Task : due[w] # None /\ due[w] \in Int /\ due'[v] \in Int /\ due'[v] >= due[w]
      <4>1. CASE v = t
        BY <1>3, <1>5, <2>1, <2>2, <4>1
      <4>2. CASE v # t
        <5>1. due'[v] = due[v] /\ due[v] # None /\ due[v] \in Int
          BY <1>1, <1>3, <1>5, <4>2 DEF TimeType
        <5> QED BY <5>1
      <4> QED BY <4>1, <4>2
    <3>2. /\ due[w] >= -(1 + MaxLate) - late
          /\ IrqPending \/ (inte /\ alarm # None /\ alarm <= due[w] + 1 + MaxLate)
      BY <1>1, <3>1 DEF TimeInv, Covered
    <3>3. late \in Nat /\ late' \in Nat /\ (late' = late \/ (late' = 0 /\ ~Busy'))
      BY <1>1, SettledIs DEF TimeType
    <3>4. CASE IrqPending
      <4>1. IrqPending' /\ late' = late
        BY <1>1, <3>3, <3>4 DEF IrqPending, Busy
      <4> QED BY <1>1, <3>1, <3>2, <3>3, <4>1
    <3>5. CASE inte /\ alarm # None /\ alarm <= due[w] + 1 + MaxLate
      <4>1. alarm \in Nat \ {0}
        BY <1>1, <3>5 DEF TimeType
      <4> QED BY <1>1, <3>1, <3>2, <3>3, <3>5, <4>1
    <3> QED BY <3>2, <3>4, <3>5
  <2> QED BY <2>3, <2>4, <2>5 DEF TimeInv
<1> QED BY <1>2, <1>4, <1>5

\* The interrupt wakes what is due.
LEMMA TimeIrq ==
  ASSUME TimeInv, TIMER0_IRQ_0
  PROVE  TimeInv'
<1>1. due \in [Task -> Int \cup {None}] /\ fed' \in Nat /\ intr' \in BOOLEAN
  BY DEF TimeInv, TimeType, TIMER0_IRQ_0
<1> QED BY <1>1, TimeServed DEF TIMER0_IRQ_0

\* The target is at most 1 + MaxLate after the first deadline, and not before the next microsecond.
LEMMA TimeRead ==
  ASSUME TimeInv, ReadClock
  PROVE  TimeInv'
<1>1. /\ TimeType /\ MaxLate \in Nat /\ None \notin Int /\ Wrap \in Nat \ {0} /\ Settled /\ driver.at = "read"
      /\ due' = due /\ alarm' = alarm /\ intr' = intr /\ missed' = missed /\ fed' = fed
  BY TimeAssumption DEF TimeInv, ReadClock
<1>2. late \in 0 .. MaxLate /\ late' \in 0 .. MaxLate /\ (late' = late \/ (late' = 0 /\ ~Busy'))
  BY <1>1, SettledIs DEF TimeType
<1>3. CASE driver.next = None
  <2>1. \A t \in Task : due[t] = None
    BY <1>1, <1>3 DEF TimeInv, Serving
  <2>2. inte' = FALSE /\ driver' = [at |-> "rest", next |-> None]
    BY <1>3 DEF ReadClock, Rest
  <2>3. driver' \in [at : {"rest", "read", "write"}, next : Int \cup {None}] /\ driver'.at = "rest"
    BY <2>2
  <2>4. TimeType'
    BY <1>1, <1>2, <2>2, <2>3 DEF TimeType
  <2> QED BY <1>1, <2>1, <2>3, <2>4 DEF TimeInv, Serving, Covered
<1>4. CASE driver.next # None
  <2> DEFINE n == Target(driver.next)
  <2>1. driver.next \in Int /\ driver.next >= 1 - late
    BY <1>1, <1>4 DEF TimeInv, TimeType, Serving
  <2>2. n \in Int /\ n <= driver.next + 1 + MaxLate
    BY <1>1, <1>2, <2>1 DEF Target
  <2> HIDE DEF n
  <2>3. inte' = TRUE /\ driver' = [at |-> "write", next |-> n]
    BY <1>4 DEF ReadClock, n
  <2>4. /\ driver' \in [at : {"rest", "read", "write"}, next : Int \cup {None}]
        /\ driver'.at = "write" /\ driver'.next = n /\ n # None
    BY <1>1, <2>2, <2>3
  <2>5. TimeType'
    BY <1>1, <1>2, <2>3, <2>4 DEF TimeType
  <2>6. late' = late
    BY <1>2, <2>4 DEF Busy
  <2>7. ASSUME NEW t \in Task, due[t] # None
        PROVE  due[t] >= 1 - late /\ n <= due[t] + 1 + MaxLate
    <3>1. due[t] \in Int /\ due[t] >= 1 - late /\ driver.next <= due[t]
      BY <1>1, <2>7 DEF TimeInv, TimeType, Serving
    <3> QED BY <1>1, <2>1, <2>2, <3>1
  <2>8. Serving'
    BY <1>1, <2>3, <2>4, <2>6, <2>7 DEF Serving
  <2> QED BY <2>4, <2>5, <2>8 DEF TimeInv, Covered
<1> QED BY <1>3, <1>4

\* A target that is still ahead, or just now and matched, covers every deadline.
LEMMA TimeWrite ==
  ASSUME TimeInv, WriteAlarm
  PROVE  TimeInv'
<1>1. /\ TimeType /\ MaxLate \in Nat /\ None \notin Int /\ Wrap \in Nat \ {0} /\ Settled /\ driver.at = "write"
      /\ due' = due /\ inte' = inte /\ fed' = fed /\ inte
      /\ driver' = [at |-> "rest", next |-> None] /\ driver.next \in Int
  BY TimeAssumption DEF TimeInv, TimeType, Serving, WriteAlarm, Rest
<1>2. late \in 0 .. MaxLate /\ late' \in 0 .. MaxLate /\ (late' = late \/ (late' = 0 /\ ~Busy'))
  BY <1>1, SettledIs DEF TimeType
<1>3. driver' \in [at : {"rest", "read", "write"}, next : Int \cup {None}] /\ driver'.at = "rest"
  BY <1>1
<1> DEFINE n == driver.next
           a == ((n - 1) % Wrap) + 1
<1>4. a \in Nat \ {0} /\ (n > 0 => a <= n)
  BY <1>1
<1>5. \/ alarm' = a /\ missed' = (n <= 0) /\ intr' = intr
      \/ n = 0 /\ alarm' = None /\ intr' = TRUE /\ missed' = FALSE
  BY DEF WriteAlarm
<1>6. missed' = (n <= 0) => missed' \in BOOLEAN /\ (~missed' => n > 0)
  <2> HAVE missed' = (n <= 0)
  <2> DEFINE p == n <= 0
  <2>1. p \in BOOLEAN /\ (~p => n > 0)
    BY <1>1
  <2>2. missed' = p
    OBVIOUS
  <2> HIDE DEF p
  <2> QED BY <2>1, <2>2
<1> HIDE DEF a
<1>7. TimeType'
  <2>1. intr' \in BOOLEAN /\ missed' \in BOOLEAN
    BY <1>1, <1>5, <1>6 DEF TimeType
  <2>2. alarm' \in (Nat \ {0}) \cup {None}
    BY <1>4, <1>5
  <2> QED BY <1>1, <1>2, <1>3, <2>1, <2>2 DEF TimeType
<1>8. Serving'
  BY <1>3 DEF Serving
<1>9. Covered'
  <2> SUFFICES ASSUME ~missed', NEW t \in Task, due'[t] # None
               PROVE  /\ due'[t] >= -(1 + MaxLate) - late'
                      /\ IrqPending' \/ (inte' /\ alarm' # None /\ alarm' <= due'[t] + 1 + MaxLate)
    BY DEF Covered
  <2>1. due'[t] \in Int /\ due'[t] >= 1 - late /\ n <= due'[t] + 1 + MaxLate
    BY <1>1 DEF TimeInv, TimeType, Serving
  <2>2. CASE alarm' = a /\ n > 0
    <3>1. alarm' # None /\ alarm' <= due'[t] + 1 + MaxLate
      BY <1>1, <1>4, <2>1, <2>2
    <3>2. due'[t] >= -(1 + MaxLate) - late'
      BY <1>1, <1>2, <1>4, <2>1, <2>2
    <3> QED BY <1>1, <3>1, <3>2
  <2>3. CASE intr' = TRUE
    <3>1. IrqPending' /\ late' = late
      BY <1>1, <1>2, <2>3 DEF IrqPending, Busy
    <3> QED BY <1>1, <1>2, <2>1, <3>1
  <2>4. (alarm' = a /\ n > 0) \/ intr' = TRUE
    BY <1>5, <1>6
  <2> QED BY <2>2, <2>3, <2>4
<1> QED BY <1>7, <1>8, <1>9 DEF TimeInv

LEMMA TimeStepGood == ASSUME TimeInv, TimeNext PROVE TimeInv'
BY TimeTick, TimePoll, TimeIrq, TimeRead, TimeWrite DEF TimeNext

LEMMA TimeInvEnough == TimeInv => OnTime
<1> SUFFICES ASSUME TimeInv, NEW t \in Task, due[t] # None, ~missed
             PROVE  due[t] >= -(1 + 2 * MaxLate)
  BY DEF OnTime
<1>1. due[t] \in Int /\ MaxLate \in Nat /\ late \in 0 .. MaxLate
  BY TimeAssumption DEF TimeInv, TimeType
<1>2. due[t] >= -(1 + MaxLate) - late \/ due[t] >= 1 - late
  BY DEF TimeInv, TimeType, Covered, Serving
<1> QED BY <1>1, <1>2

--------------------------------------------------------------------------------
\* The watchdog's feeder.

Fine ==
  /\ due[Feeder] # None => due[Feeder] >= -(1 + MaxLate) - late
  /\ due[Feeder] = None => fed <= FeedEvery + 1 + MaxLate + late

\* The feeder is on time, or the core sleeps past a missed alarm, whose next match is a wrap of the
\* low word away: after the watchdog has run out.
FeedInv ==
  /\ due[Feeder] # None => fed + due[Feeder] = FeedEvery
  /\ driver.at = "write" => driver.next >= 1 - late
  /\ Fine \/ (missed /\ ~Busy)
  /\ missed /\ Busy => alarm # None /\ alarm + late > Wrap
  /\ missed /\ ~Busy => alarm # None /\ alarm + fed + MaxLate > Wrap

LEMMA TimeConstants ==
  /\ Feeder \in Task /\ None \notin Int /\ Wrap \in Nat /\ MaxLate \in Nat
  /\ FeedEvery \in Nat \ {0} /\ WdtTimeout \in Nat \ {0}
  /\ FeedEvery + 1 + 2 * MaxLate < WdtTimeout /\ WdtTimeout + MaxLate <= Wrap
BY TimeAssumption, FeedAssumption DEF TimeAssumption, FeedAssumption

LEMMA TimeTyped ==
  ASSUME TimeInv
  PROVE  /\ due[Feeder] \in Int \cup {None} /\ alarm \in (Nat \ {0}) \cup {None}
         /\ late \in 0 .. MaxLate /\ fed \in Nat /\ driver.next \in Int \cup {None}
         /\ missed \in BOOLEAN /\ driver.at \in {"rest", "read", "write"}
BY TimeConstants DEF TimeInv, TimeType

LEMMA FeedInitGood == TimeInit => FeedInv
<1> SUFFICES ASSUME TimeInit PROVE FeedInv
  OBVIOUS
<1>1. driver.at = "rest" /\ due[Feeder] = None /\ fed = 0 /\ late = 0 /\ missed = FALSE
  BY TimeConstants DEF TimeInit, Rest
<1> QED BY <1>1, TimeConstants DEF FeedInv, Fine

LEMMA FeedTick ==
  ASSUME TimeInv, FeedInv, Tick
  PROVE  FeedInv'
<1> USE TimeConstants, TimeTyped
<1>1. TimeType /\ fed < WdtTimeout /\ fed' = fed + 1 /\ missed' = missed
  BY TickIs DEF TimeInv, Tick
<1>2. due'[Feeder] # None => fed' + due'[Feeder] = FeedEvery
  BY <1>1, TickIs DEF FeedInv
<1>3. Busy => Busy' /\ late' = late + 1
  <2>1. \A t \in Task : due[t] = None => due'[t] = None
    BY <1>1, TickIs
  <2>2. driver'.at = driver.at /\ inte' = inte /\ (intr => intr')
    BY <1>1, TickIs DEF TimeType
  <2>3. Awake \subseteq Awake' /\ (IrqPending => IrqPending')
    BY <2>1, <2>2 DEF Awake, IrqPending
  <2> QED BY <1>1, <2>2, <2>3, TickIs DEF Busy
<1>4. driver'.at = "write" => driver'.next >= 1 - late'
  <2> HAVE driver'.at = "write"
  <2>1. driver.at = "write" /\ driver.next # None
    BY <1>1, TickIs DEF TimeInv, Serving
  <2>2. driver.next \in Int /\ driver'.next = driver.next - 1 /\ late' = late + 1 /\ driver.next >= 1 - late
    BY <1>1, <1>3, <2>1, TickIs DEF FeedInv, Busy
  <2> QED BY <2>2
<1>5. CASE Busy
  <2>1. Fine
    BY <1>5 DEF FeedInv
  <2>2. Fine'
    <3>1. due'[Feeder] # None => due'[Feeder] >= -(1 + MaxLate) - late'
      BY <1>1, <1>3, <1>5, <2>1, TickIs DEF Fine
    <3>2. due'[Feeder] = None => due[Feeder] = None
      BY <1>1, TickIs
    <3>3. due'[Feeder] = None => fed' <= FeedEvery + 1 + MaxLate + late'
      BY <1>1, <1>3, <1>5, <2>1, <3>2 DEF Fine
    <3> QED BY <3>1, <3>3 DEF Fine
  <2>3. missed => alarm' # None /\ alarm' + late' > Wrap
    <3> HAVE missed
    <3>1. alarm \in Nat \ {0} /\ alarm + late > Wrap
      BY <1>5 DEF FeedInv
    <3>2. alarm # 1
      BY <3>1
    <3>3. alarm' = alarm - 1 /\ alarm' # None /\ late' = late + 1
      BY <1>1, <1>3, <1>5, <3>1, <3>2, TickIs
    <3> QED BY <3>1, <3>3
  <2> QED BY <1>1, <1>2, <1>3, <1>4, <1>5, <2>2, <2>3 DEF FeedInv
<1>6. CASE ~Busy /\ ~missed
  <2>1. driver.at = "rest" /\ ~IrqPending /\ due[Feeder] # None
    BY <1>6 DEF Busy, Awake
  <2>2. due[Feeder] \in Int /\ alarm \in Nat \ {0} /\ alarm <= due[Feeder] + 1 + MaxLate
    BY <1>6, <2>1 DEF TimeInv, Covered
  <2>3. due'[Feeder] = due[Feeder] - 1 /\ due'[Feeder] # None /\ late' = 0
    BY <1>1, <1>6, <2>1, TickIs
  <2>4. Fine'
    BY <2>2, <2>3 DEF Fine
  <2> QED BY <1>1, <1>2, <1>4, <1>6, <2>4 DEF FeedInv
<1>7. CASE ~Busy /\ missed
  <2>1. alarm \in Nat \ {0} /\ alarm + fed + MaxLate > Wrap
    BY <1>7 DEF FeedInv
  <2>2. alarm # 1
    BY <1>1, <2>1
  <2>3. alarm' = alarm - 1 /\ alarm' # None /\ intr' = intr /\ inte' = inte /\ driver'.at = driver.at
    BY <1>1, <2>1, <2>2, TickIs
  <2>4. Awake' = Awake
    BY <1>1, TickIs DEF Awake
  <2>5. ~Busy'
    BY <1>7, <2>3, <2>4 DEF Busy, IrqPending
  <2>6. alarm' + fed' + MaxLate > Wrap
    BY <1>1, <2>1, <2>3
  <2> QED BY <1>1, <1>2, <1>4, <1>7, <2>3, <2>5, <2>6 DEF FeedInv
<1> QED BY <1>5, <1>6, <1>7

\* A step of a core that is busy, other than a tick: what is still to be shown of it.
LEMMA FeedSettled ==
  ASSUME TimeInv, TimeInv', FeedInv, Busy, Settled,
         alarm' = alarm, missed' = missed,
         due'[Feeder] # None => fed' + due'[Feeder] = FeedEvery,
         driver'.at = "write" => driver'.next >= 1 - late,
         due'[Feeder] = None => fed' <= FeedEvery + 1 + MaxLate + late,
         due'[Feeder] # None => due'[Feeder] >= -(1 + MaxLate) - late
  PROVE  FeedInv'
<1> USE TimeConstants, TimeTyped
<1>1. /\ due'[Feeder] \in Int \cup {None} /\ late' \in 0 .. MaxLate /\ fed' \in Nat
      /\ driver'.at \in {"rest", "read", "write"}
  BY DEF TimeInv, TimeType
<1>2. (Busy' /\ late' = late) \/ (~Busy' /\ late' = 0)
  BY DEF Settled
<1>3. ~Busy' => driver'.at = "rest" /\ due'[Feeder] # None
  BY DEF Busy, Awake
<1>4. Fine' \/ (missed' /\ ~Busy')
  <2>1. CASE Busy'
    BY <1>2, <2>1 DEF Fine
  <2>2. CASE ~Busy' /\ ~missed'
    <3>1. due'[Feeder] >= -(1 + MaxLate) - late'
      BY <1>3, <2>2 DEF TimeInv, Covered
    <3> QED BY <1>3, <2>2, <3>1 DEF Fine
  <2> QED BY <2>1, <2>2
<1>5. missed => alarm \in Nat \ {0} /\ alarm + late > Wrap
  BY DEF FeedInv
<1>6. missed => alarm # None /\ alarm + fed' + MaxLate > Wrap
  BY <1>1, <1>5
<1>7. driver'.at = "write" => driver'.next >= 1 - late'
  BY <1>2, <1>3
<1> QED BY <1>2, <1>4, <1>5, <1>6, <1>7 DEF FeedInv

LEMMA FeedStep ==
  ASSUME TimeInv, FeedInv, TimeNext, TimeInv'
  PROVE  FeedInv'
<1> USE TimeConstants, TimeTyped
<1>1. CASE Tick
  BY <1>1, FeedTick
<1>2. due \in [Task -> Int \cup {None}]
  BY DEF TimeInv, TimeType
<1>3. Busy => Fine
  BY DEF FeedInv
<1>4. ASSUME NEW q \in [Task -> Int \cup {None}], NextExpiration(q), Settled, Busy,
             alarm' = alarm, missed' = missed,
             \/ fed' = fed /\ q[Feeder] = due[Feeder]
             \/ fed' = 0 /\ q[Feeder] = FeedEvery
      PROVE  FeedInv'
  <2>1. /\ due'[Feeder] # None => due'[Feeder] = q[Feeder] /\ due'[Feeder] >= 1
        /\ driver'.at = "read"
    BY <1>4, NextExpirationIs
  <2>2. due'[Feeder] # None => fed' + due'[Feeder] = FeedEvery
    BY <1>4, <2>1 DEF FeedInv
  <2>3. due'[Feeder] \in Int \cup {None}
    BY DEF TimeInv, TimeType
  <2>4. due'[Feeder] = None => fed' <= FeedEvery + 1 + MaxLate + late
    <3>1. CASE due[Feeder] = None
      BY <1>3, <1>4, <3>1 DEF Fine
    <3>2. CASE due[Feeder] # None
      BY <1>3, <1>4, <3>2 DEF Fine, FeedInv
    <3> QED BY <3>1, <3>2
  <2>5. due'[Feeder] # None => due'[Feeder] >= -(1 + MaxLate) - late
    BY <2>1, <2>3
  <2> QED BY <1>4, <2>1, <2>2, <2>4, <2>5, FeedSettled
<1>5. ASSUME NEW t \in Task, Poll(t) PROVE FeedInv'
  <2>1. /\ Busy /\ Settled /\ alarm' = alarm /\ missed' = missed /\ driver.at = "rest"
        /\ fed' = IF t = Feeder THEN 0 ELSE fed
    BY <1>5 DEF Poll, Busy
  <2>2. PICK d \in IF t = Feeder THEN {FeedEvery} ELSE Delays :
          LET q == [due EXCEPT ![t] = d]
              earliest == \A u \in Task \ Awake : d < due[u] IN
          NextExpiration(q) \/ (~earliest /\ due' = q /\ UNCHANGED driver)
    BY <1>5 DEF Poll
  <2>3. d \in Nat \ {0} /\ (t = Feeder => d = FeedEvery)
    BY <2>2, TimeAssumption DEF TimeAssumption
  <2> DEFINE q == [due EXCEPT ![t] = d]
  <2>4. /\ q \in [Task -> Int \cup {None}]
        /\ q[Feeder] = IF t = Feeder THEN FeedEvery ELSE due[Feeder]
    BY <1>2, <2>3
  <2>5. CASE NextExpiration(q)
    <3> HIDE DEF q
    <3> QED BY <1>4, <2>1, <2>4, <2>5
  <2>6. CASE due' = q /\ driver' = driver
    <3> HIDE DEF q
    <3>1. driver'.at = "rest"
      BY <2>1, <2>6
    <3>2. CASE t = Feeder
      <4>1. due'[Feeder] = FeedEvery /\ fed' = 0
        BY <2>1, <2>4, <2>6, <3>2
      <4> QED BY <2>1, <3>1, <4>1, FeedSettled
    <3>3. CASE t # Feeder
      <4>1. due'[Feeder] = due[Feeder] /\ fed' = fed
        BY <2>1, <2>4, <2>6, <3>3
      <4>2. Fine
        BY <1>3, <2>1
      <4> QED BY <2>1, <3>1, <4>1, <4>2, FeedSettled DEF Fine, FeedInv
    <3> QED BY <3>2, <3>3
  <2> QED BY <2>2, <2>5, <2>6
<1>6. CASE TIMER0_IRQ_0
  <2>1. Busy /\ Settled /\ alarm' = alarm /\ missed' = missed /\ fed' = fed /\ NextExpiration(due)
    BY <1>6 DEF TIMER0_IRQ_0, Busy
  <2> QED BY <1>2, <1>4, <2>1
<1>7. CASE ReadClock
  <2>1. /\ Busy /\ Settled /\ alarm' = alarm /\ missed' = missed /\ fed' = fed /\ due' = due
        /\ driver.at = "read"
    BY <1>7 DEF ReadClock, Busy
  <2>2. Fine
    BY <1>3, <2>1
  <2>3. driver'.at = "write" => driver'.next >= 1 - late
    <3>1. CASE driver.next = None
      <4>1. driver'.at = "rest"
        BY <1>7, <3>1 DEF ReadClock, Rest
      <4> QED BY <4>1
    <3>2. CASE driver.next # None
      <4>1. driver.next \in Int /\ driver.next >= 1 - late
        BY <2>1, <3>2 DEF TimeInv, Serving
      <4>2. driver'.next = Target(driver.next)
        BY <1>7, <3>2 DEF ReadClock
      <4>3. Target(driver.next) >= 1 - late
        BY <4>1 DEF Target
      <4> QED BY <4>2, <4>3
    <3> QED BY <3>1, <3>2
  <2> QED BY <2>1, <2>2, <2>3, FeedSettled DEF Fine, FeedInv
<1>8. CASE WriteAlarm
  <2> DEFINE n == driver.next
             a == ((n - 1) % Wrap) + 1
  <2>1. /\ Busy /\ Settled /\ fed' = fed /\ due' = due /\ driver.at = "write" /\ driver'.at = "rest"
        /\ n \in Int /\ n >= 1 - late
    BY <1>8 DEF WriteAlarm, Busy, Rest, TimeInv, Serving, FeedInv
  <2>2. Fine
    BY <1>3, <2>1
  <2>3. late' \in 0 .. MaxLate /\ ((Busy' /\ late' = late) \/ (~Busy' /\ late' = 0))
    BY <2>1 DEF Settled, TimeInv, TimeType
  <2>4. ~Busy' => due'[Feeder] # None
    BY DEF Busy, Awake
  <2>5. Fine' \/ (missed' /\ ~Busy')
    <3>1. CASE Busy'
      BY <2>1, <2>2, <2>3, <3>1 DEF Fine
    <3>2. CASE ~Busy' /\ ~missed'
      <4>1. due'[Feeder] >= -(1 + MaxLate) - late'
        BY <2>1, <2>4, <3>2 DEF TimeInv, Covered
      <4> QED BY <2>4, <3>2, <4>1 DEF Fine
    <3> QED BY <3>1, <3>2
  <2>6. missed' => n <= 0 /\ alarm' = a
    BY <1>8 DEF WriteAlarm
  <2>7. n <= 0 => a = n + Wrap
    <3>1. n <= 0 => -Wrap <= n - 1 /\ n - 1 < 0
      BY <2>1
    <3> QED BY <2>1, <3>1
  <2> HIDE DEF a
  <2>8. missed' => alarm' = n + Wrap /\ alarm' # None /\ alarm' + late > Wrap /\ alarm' + fed + MaxLate > Wrap
    BY <2>1, <2>6, <2>7
  <2> QED BY <2>1, <2>3, <2>5, <2>8 DEF FeedInv
<1> QED BY <1>1, <1>5, <1>6, <1>7, <1>8 DEF TimeNext

LEMMA FeedInvEnough == TimeInv /\ FeedInv => ResetsOnlyMissed
<1> SUFFICES ASSUME TimeInv, FeedInv, fed = WdtTimeout, ~missed PROVE FALSE
  BY DEF ResetsOnlyMissed, WdtFires
<1> USE TimeConstants, TimeTyped
<1>1. Fine
  BY DEF FeedInv
<1> QED BY <1>1 DEF Fine, FeedInv

--------------------------------------------------------------------------------
\* The board.

\* What is left of the launch once the loops run is its answer.
BoardInv ==
  /\ board \in {"launching", "running"} /\ core1_ok \in BOOLEAN
  /\ core1_ok => board = "running" /\ Jumped
  /\ board = "running" => seq = 1 /\ fails = 0 /\ toCore1 = <<>> /\ toCore0 = <<>>
  /\ board = "launching" => tcp = Closed /\ fed = 0 /\ Awake = Task
  /\ build = "router" => tcp = Closed

BootProofInv == LaunchInv /\ TcpInv /\ BoardInv

LEMMA BootInitGood == BootInit => BootProofInv
<1> SUFFICES ASSUME BootInit
             PROVE  BootProofInv
  OBVIOUS
<1>1. LaunchInv
  BY LaunchInitGood DEF BootInit
<1>2. Closed \in Sockets /\ Closed.st = "closed" /\ Idle \in Apps
  BY ListenIs, TcpAssumption DEF Closed, Sockets
<1>3. TcpInv
  BY <1>2, TcpAssumption, ListenIs DEF BootInit, TcpInit, TcpInv, Counted, Transfer, Closing
<1>4. Awake = Task /\ fed = 0
  BY DEF BootInit, TimeInit, Awake
<1>5. BoardInv
  BY <1>4 DEF BootInit, TcpInit, Init, BoardInv
<1> QED
  BY <1>1, <1>3, <1>5 DEF BootProofInv

LEMMA TcpStays == TcpInv /\ UNCHANGED tcpVars => TcpInv'
BY DEF TcpInv, tcpVars

LEMMA LaunchStays == LaunchInv /\ UNCHANGED vars => LaunchInv'
BY DEF vars, LaunchInv, LaunchType, TypeOK, Written, OkMeansStarted, Jumped

\* The reset leaves core 0 and core 1 as they began.
LEMMA Restarted == Init' => LaunchInv'
BY LaunchInitGood, PTL

LEMMA LaunchedGood ==
  ASSUME BootProofInv, Launched
  PROVE  BootProofInv'
<1>1. /\ pc \in {"ok", "err"} /\ pc' = pc /\ got' = got /\ seq' = 1 /\ fails' = 0
      /\ toCore1' = <<>> /\ toCore0' = <<>> /\ LaunchInv
  BY DEF Launched, BootProofInv
<1>2. got \in 0 .. 6 /\ \A i \in 1 .. got : Sent(got, <<>>, i) = Sent(got, toCore1, i)
  BY <1>1, Words DEF LaunchInv, LaunchType, TypeOK, Sent
<1>3. InOrder(got, <<>>)
  <2>1. ASSUME NEW i \in 1 .. got
        PROVE  /\ Sent(got, <<>>, i) = 1 => i >= 3 /\ Sent(got, <<>>, i - 1) = 0 /\ Sent(got, <<>>, i - 2) = 0
               /\ Sent(got, <<>>, i) >= 2 => i >= 2 /\ Sent(got, <<>>, i - 1) = Sent(got, <<>>, i) - 1
    BY <1>2, <2>1, Words, SMTT(30) DEF Sent
  <2>2. got + Len(<<>>) = got
    BY <1>2
  <2> QED
    BY <2>1, <2>2 DEF InOrder
<1>4. LaunchInv'
  BY <1>1, <1>3, Core1LaunchAssumption, Words
  DEF LaunchInv, LaunchType, TypeOK, OkMeansStarted, Jumped
<1>5. TcpInv'
  BY TcpStays DEF Launched, BootProofInv
<1>6. BoardInv'
  BY <1>1 DEF Launched, BootProofInv, BoardInv, LaunchInv, OkMeansStarted, Jumped, tcpVars
<1> QED
  BY <1>4, <1>5, <1>6 DEF BootProofInv

LEMMA ResetGood ==
  ASSUME BootProofInv, Reset
  PROVE  BootProofInv'
<1>1. Init'
  BY DEF Reset, BootProofInv, BoardInv, Init
<1>2. TcpInv'
  BY TcpStays DEF Reset, BootProofInv
<1>3. Awake' = Task /\ fed' = 0
  BY DEF Reset, Awake
<1>4. tcp' = Closed /\ build' = build
  BY DEF Reset, BootProofInv, BoardInv, tcpVars
<1>5. BoardInv'
  BY <1>3, <1>4 DEF Reset, BoardInv, Closed
<1> QED
  BY <1>1, <1>2, <1>5, Restarted DEF BootProofInv

LEMMA BootStepGood == BootProofInv /\ [BootNext]_bootVars => BootProofInv'
<1> SUFFICES ASSUME BootProofInv, [BootNext]_bootVars
             PROVE  BootProofInv'
  OBVIOUS
<1>1. CASE Launch
  <2>1. LaunchInv' /\ TcpInv'
    BY <1>1, LaunchStepGood, TcpStays DEF Launch, BootProofInv
  <2> QED
    BY <1>1, <2>1 DEF Launch, BootProofInv, BoardInv, timeVars, tcpVars, Awake
<1>2. CASE RunServers(Serve)
  <2>1. LaunchInv' /\ TcpInv'
    BY <1>2, LaunchStays, ServeGood DEF RunServers, BootProofInv
  <2> QED
    BY <1>2, <2>1 DEF RunServers, BootProofInv, BoardInv, vars, Jumped
<1>3. CASE RunServers(PeerNext)
  <2>1. LaunchInv' /\ TcpInv'
    BY <1>3, LaunchStays, PeerGood DEF RunServers, BootProofInv
  <2> QED
    BY <1>3, <2>1 DEF RunServers, BootProofInv, BoardInv, vars, Jumped
<1>4. CASE RunExecutor
  <2>1. LaunchInv' /\ TcpInv'
    BY <1>4, LaunchStays, TcpStays DEF RunExecutor, BootProofInv
  <2> QED
    BY <1>4, <2>1 DEF RunExecutor, BootProofInv, BoardInv, vars, tcpVars, Jumped
<1>5. CASE UNCHANGED bootVars
  <2>1. LaunchInv' /\ TcpInv'
    BY <1>5, LaunchStays, TcpStays DEF bootVars, BootProofInv
  <2> QED
    BY <1>5, <2>1 DEF bootVars, BootProofInv, BoardInv, vars, tcpVars, timeVars, Awake, Jumped
<1> QED
  BY <1>1, <1>2, <1>3, <1>4, <1>5, LaunchedGood, ResetGood DEF BootNext

--------------------------------------------------------------------------------
\* Once the loops run the launch has answered, and an RX engine reported as up is up, through any
\* number of resets.  (setup_eth_mac, run_router)
THEOREM BootKept == BootSpec => []BootInv
<1>1. BootProofInv => BootInv
  BY TcpInvEnough DEF BootProofInv, BoardInv, BootInv, LaunchInv, LaunchType
<1> QED
  BY <1>1, BootInitGood, BootStepGood, PTL DEF BootSpec

\* No server closes a connection on part of a response, or mixes two, for responses and buffers of
\* any size and peers that reset or vanish at any moment.  (serve_http, serve_http_bulk,
\* serve_status_http)
THEOREM ResponsesAreWhole == BootSpec => []ResponseWhole
<1>1. BootProofInv => ResponseWhole
  BY TcpInvEnough DEF BootProofInv
<1> QED
  BY <1>1, BootInitGood, BootStepGood, PTL DEF BootSpec

--------------------------------------------------------------------------------
\* Timers and watchdog, of a board that also launches, serves and is reset.

ClockInv == TimeInv /\ FeedInv

LEMMA ClockStays == ClockInv /\ UNCHANGED timeVars => ClockInv'
BY DEF ClockInv, timeVars, TimeInv, TimeType, Serving, Covered, FeedInv, Fine, Busy, Awake, IrqPending

\* The reset disarms the alarm and empties the queue, as at power-on.
LEMMA ClockRestarted == TimeInit' => ClockInv'
BY TimeInitGood, FeedInitGood, PTL DEF ClockInv

LEMMA ClockStep == ClockInv /\ [BootNext]_bootVars => ClockInv'
<1> SUFFICES ASSUME ClockInv, [BootNext]_bootVars
             PROVE  ClockInv'
  OBVIOUS
<1>1. CASE UNCHANGED timeVars
  BY <1>1, ClockStays
<1>2. CASE TimeNext
  BY <1>2, TimeStepGood, FeedStep DEF ClockInv
<1>3. CASE Reset
  BY <1>3, ClockRestarted DEF Reset, TimeInit
<1> QED
  BY <1>1, <1>2, <1>3 DEF BootNext, Launch, Launched, RunServers, RunExecutor, bootVars

\* Every deadline wakes its task within 1 + 2 MaxLate ticks unless the last alarm was written
\* after its target had passed, beyond the alarm's reach too.  (arm_alarm, TIMER0_IRQ_0)
THEOREM DeadlinesOnTime == BootSpec => []OnTime
<1>1. BootInit => ClockInv
  BY TimeInitGood, FeedInitGood DEF BootInit, ClockInv
<1>2. ClockInv => OnTime
  BY TimeInvEnough DEF ClockInv
<1> QED
  BY <1>1, <1>2, ClockStep, PTL DEF BootSpec

\* The watchdog runs out only after a missed alarm, through any number of resets.
\* (watchdog_feed_task, arm_alarm)
THEOREM WatchdogQuiet == BootSpec => []ResetsOnlyMissed
<1>1. BootInit => ClockInv
  BY TimeInitGood, FeedInitGood DEF BootInit, ClockInv
<1>2. ClockInv => ResetsOnlyMissed
  BY FeedInvEnough DEF ClockInv
<1> QED
  BY <1>1, <1>2, ClockStep, PTL DEF BootSpec
================================================================================
