------------------------------- MODULE TcpServer -------------------------------
(***************************************************************************)
(* The TCP servers: serve_http, serve_http_bulk and serve_fd_sink of       *)
(* src/main.rs, serve_status_http and serve_lan_sink of src/wireless.rs.   *)
(* Each has one smoltcp socket, is polled by its loop and must, after each *)
(* connection, listen again.  The socket and its peer are external: the    *)
(* socket is its TCP state and what its two buffers hold; no timeout is    *)
(* set on it, so a peer that vanishes leaves it as it is.                  *)
(***************************************************************************)
EXTENDS Naturals

CONSTANTS
  TxRoom,     \* chunks the transmit buffer holds
  BulkLen     \* chunks of a bulk response

ASSUME TcpAssumption == {TxRoom, BulkLen} \subseteq Nat \ {0}

Kinds == {"http", "http_bulk", "fd_sink", "status", "lan_sink"}

VARIABLES
  kind,    \* the server this instance is about
  tcp,     \* socket: [st, rx, tx], rx what is to be read, tx chunks to be acknowledged
  app,     \* the server's own state: idle, or chunks of a bulk response left and whether its header went
  peer,    \* the client of the connection: none, open, half (it sent its FIN), vanished
  sent     \* history: chunks queued on this connection, its header one of them

tcpVars == <<kind, tcp, app, peer, sent>>

Idle == [bulk |-> FALSE, remaining |-> 0, header_sent |-> FALSE]
Closed == [st |-> "closed", rx |-> "none", tx |-> 0]

TcpInit ==
  /\ kind \in Kinds
  /\ tcp = Closed /\ app = Idle /\ peer = "none" /\ sent = 0

\* smoltcp's predicates.  TIME-WAIT is not open, and can listen again.
is_open(s)  == s.st # "closed"
may_recv(s) == s.st \in {"established", "fin_wait"} \/ s.rx # "none"
may_send(s) == s.st \in {"established", "close_wait"}
can_send(s) == may_send(s) /\ s.tx < TxRoom

\* close().
CloseSocket(s) ==
  [s EXCEPT !.st = IF @ = "established" THEN "fin_wait" ELSE IF @ = "close_wait" THEN "last_ack" ELSE @]

Listen == tcp' = [Closed EXCEPT !.st = "listen"] /\ sent' = 0

(***************************************************************************)
(* One poll of each server.                                                *)
(***************************************************************************)
\* The socket after reading all there is.
Drained(s) == [s EXCEPT !.rx = "none"]

\* A page goes out in one piece, head and body, and the connection is closed.
Page(s) == CloseSocket([s EXCEPT !.tx = @ + 1])

\* Answers as soon as it can send, without waiting for the request.
serve_http ==
  LET s == IF is_open(tcp) THEN Drained(tcp) ELSE [Closed EXCEPT !.st = "listen"] IN
  /\ tcp' = IF can_send(s) THEN Page(s) ELSE s
  /\ sent' = IF ~is_open(tcp) THEN 0 ELSE IF can_send(s) THEN sent + 1 ELSE sent
  /\ UNCHANGED app

\* Queues the header, if it is still to go, and as many chunks as fit; closes after the last.
Stream(s, a) ==
  LET header == IF a.header_sent THEN 0 ELSE 1
      room   == TxRoom - s.tx - header
      n      == IF a.remaining < room THEN a.remaining ELSE room
      queued == [s EXCEPT !.tx = @ + header + n] IN
  IF ~may_send(s) \/ room < 0 THEN tcp' = s /\ app' = a /\ UNCHANGED sent
  ELSE /\ sent' = sent + header + n
       /\ IF a.remaining = n
          THEN tcp' = CloseSocket(queued) /\ app' = Idle
          ELSE tcp' = queued /\ app' = [bulk |-> TRUE, remaining |-> a.remaining - n, header_sent |-> TRUE]

serve_http_bulk ==
  LET s == Drained(tcp) IN
  IF ~is_open(tcp) THEN app' = Idle /\ Listen
  ELSE IF app.bulk THEN Stream(s, app)
  ELSE IF can_send(s)
  THEN /\ tcp' = [s EXCEPT !.tx = @ + 1] /\ sent' = sent + 1
       /\ app' = [bulk |-> TRUE, remaining |-> BulkLen, header_sent |-> TRUE]
  ELSE tcp' = s /\ UNCHANGED <<app, sent>>

\* The status server routes a request once it has arrived.
Route(s) ==
  IF s.rx = "none" THEN tcp' = s /\ UNCHANGED <<app, sent>>
  ELSE IF s.rx = "bulk"
  THEN tcp' = Drained(s) /\ app' = [bulk |-> TRUE, remaining |-> BulkLen, header_sent |-> FALSE] /\ UNCHANGED sent
  ELSE /\ tcp' = IF can_send(s) THEN Page(Drained(s)) ELSE Drained(s)
       /\ sent' = IF can_send(s) THEN sent + 1 ELSE sent
       /\ UNCHANGED app

serve_status_httpStale ==
  IF ~is_open(tcp) THEN Listen /\ UNCHANGED app
  ELSE IF app.bulk THEN Stream(tcp, app)
  ELSE Route(tcp)

serve_status_http ==
  IF ~is_open(tcp) THEN app' = Idle /\ Listen
  ELSE IF app.bulk THEN Stream(tcp, app)
  ELSE Route(tcp)

serve_sinkDrainOnly ==
  /\ IF ~is_open(tcp) THEN Listen ELSE tcp' = Drained(tcp) /\ UNCHANGED sent
  /\ UNCHANGED app

\* The sinks drain what came and close once the client has closed.
serve_sink ==
  LET s == Drained(tcp) IN
  /\ IF ~is_open(tcp) THEN Listen
     ELSE /\ tcp' = IF ~may_recv(s) /\ may_send(s) THEN CloseSocket(s) ELSE s
          /\ UNCHANGED sent
  /\ UNCHANGED app

Serve ==
  /\ CASE kind = "http"      -> serve_http
       [] kind = "http_bulk" -> serve_http_bulk
       [] kind = "status"    -> serve_status_http
       [] kind \in {"fd_sink", "lan_sink"} -> serve_sink
  /\ UNCHANGED <<kind, peer>>

(***************************************************************************)
(* The socket and its peer                                                 *)
(***************************************************************************)
Connect ==
  /\ tcp.st = "listen" /\ peer = "none"
  /\ tcp' = [tcp EXCEPT !.st = "established"] /\ peer' = "open"
  /\ UNCHANGED <<kind, app, sent>>

\* What the server is told of a request is how it begins.
SendData(what) ==
  /\ peer = "open" /\ tcp.st \in {"established", "fin_wait"} /\ tcp.rx = "none"
  /\ tcp' = [tcp EXCEPT !.rx = what]
  /\ UNCHANGED <<kind, app, peer, sent>>

Ack ==
  /\ peer \in {"open", "half"} /\ tcp.tx > 0
  /\ tcp' = [tcp EXCEPT !.tx = @ - 1]
  /\ UNCHANGED <<kind, app, peer, sent>>

\* The peer's FIN.  It ends a connection whose own FIN has been acknowledged, after all data.
PeerFin ==
  /\ peer = "open"
  /\ \/ tcp.st = "established" /\ tcp' = [tcp EXCEPT !.st = "close_wait"] /\ peer' = "half"
     \/ tcp.st = "fin_wait" /\ tcp.tx = 0 /\ tcp' = Closed /\ peer' = "none"
  /\ UNCHANGED <<kind, app, sent>>

LastAck ==
  /\ tcp.st = "last_ack" /\ tcp.tx = 0 /\ peer = "half"
  /\ tcp' = Closed /\ peer' = "none"
  /\ UNCHANGED <<kind, app, sent>>

PeerReset ==
  /\ peer \in {"open", "half"}
  /\ tcp' = Closed /\ peer' = "none"
  /\ UNCHANGED <<kind, app, sent>>

\* Out of range, or powered off: it answers nothing any more.
Vanish ==
  /\ peer \in {"open", "half"} /\ peer' = "vanished"
  /\ UNCHANGED <<kind, tcp, app, sent>>

PeerNext == Connect \/ (\E what \in {"bulk", "other"} : SendData(what)) \/ Ack \/ PeerFin \/ LastAck
            \/ PeerReset \/ Vanish

(***************************************************************************)
(* Correctness                                                             *)
(***************************************************************************)
TcpTypeOK ==
  /\ kind \in Kinds
  /\ tcp \in [st : {"closed", "listen", "established", "close_wait", "fin_wait", "last_ack"},
              rx : {"none", "bulk", "other"}, tx : 0 .. TxRoom]
  /\ app \in [bulk : BOOLEAN, remaining : 0 .. BulkLen, header_sent : BOOLEAN]
  /\ peer \in {"none", "open", "half", "vanished"}
  /\ sent \in 0 .. BulkLen + 1

\* A connection is closed by the server only after a whole response, header first, of the one kind it
\* chose; while a bulk response is under way, what was queued and what is left add up to it, on this
\* connection: nothing is carried over from one that was cut off.  (serve_http, serve_http_bulk,
\* serve_status_http)
ServerClosed == tcp.st \in {"fin_wait", "last_ack"}
ResponseWhole ==
  kind \in {"http", "http_bulk", "status"} =>
    /\ ServerClosed /\ ~app.bulk =>
         sent \in (IF kind = "http_bulk" THEN {BulkLen + 1} ELSE IF kind = "http" THEN {1} ELSE {1, BulkLen + 1})
    /\ app.bulk /\ tcp.st \in {"established", "close_wait"} =>
         sent + app.remaining = IF app.header_sent THEN BulkLen + 1 ELSE BulkLen

\* Listening, or excused: the client vanished without a word, or still has its end open.
Available == tcp.st = "listen" \/ peer \in {"open", "vanished"}

\* The status server waiting for a request.  If the client sends its FIN first it waits in
\* CLOSE-WAIT: may_recv is false from then on and nothing else looks at the socket.
Unasked == kind = "status" /\ is_open(tcp) /\ ~app.bulk /\ sent = 0
================================================================================
