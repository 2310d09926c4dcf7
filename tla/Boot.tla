---------------------------------- MODULE Boot ----------------------------------
(***************************************************************************)
(* From reset to the loops that never return, in the three builds of       *)
(* src/main.rs.  The NIC and the router launch core 1 before anything else *)
(* and go on whether or not it started; the wireless build does not use    *)
(* it.  The watchdog is started when the launch is over, and in the router *)
(* its reset leads back to the launch.                                     *)
(*                                                                         *)
(* What the builds have in common is explored in one of them: the time     *)
(* driver in the router, the LAN's servers in the wireless build.          *)
(***************************************************************************)
EXTENDS Core1Launch, TimeDriver, TcpServer

VARIABLES
  build,     \* the arm of main that was compiled
  board,     \* "launching" core 1, or "running" the build's loops
  core1_ok   \* what setup_eth_mac returned

bootVars == <<vars, timeVars, tcpVars, build, board, core1_ok>>

KindsOf(b) ==
  CASE b = "nic"      -> {"http", "http_bulk", "fd_sink"}
    [] b = "wireless" -> {"status", "lan_sink"}
    [] b = "router"   -> {"lan_sink"}

BootInit ==
  /\ Init /\ TimeInit /\ TcpInit
  /\ build \in {"nic", "wireless", "router"} /\ kind \in KindsOf(build)
  /\ board = IF build = "wireless" THEN "running" ELSE "launching"
  /\ core1_ok = FALSE

Launch ==
  /\ board = "launching" /\ Next
  /\ UNCHANGED <<timeVars, tcpVars, build, board, core1_ok>>

\* setup_eth_mac returns either way.  The launch's locals are gone, and nobody reads the FIFOs again.
Launched ==
  /\ board = "launching" /\ pc \in {"ok", "err"}
  /\ board' = "running" /\ core1_ok' = (pc = "ok")
  /\ seq' = 1 /\ fails' = 0 /\ toCore1' = <<>> /\ toCore0' = <<>>
  /\ UNCHANGED <<pc, got, timeVars, tcpVars, build>>

\* A step of the servers' loop, or of their sockets and peers.
RunServers(A) ==
  /\ board = "running" /\ build # "router"
  /\ A
  /\ UNCHANGED <<vars, timeVars, build, board, core1_ok>>

RunExecutor ==
  /\ board = "running" /\ build = "router"
  /\ TimeNext
  /\ UNCHANGED <<vars, tcpVars, build, board, core1_ok>>

Reset ==
  /\ board = "running" /\ build = "router" /\ WdtFires
  /\ board' = "launching" /\ core1_ok' = FALSE
  /\ pc' = "flush" /\ got' = 0
  /\ due' = [t \in Task |-> None] /\ alarm' = None /\ inte' = FALSE /\ intr' = FALSE
  /\ driver' = Rest /\ late' = 0 /\ fed' = 0 /\ missed' = FALSE
  /\ UNCHANGED <<seq, fails, toCore1, toCore0, tcpVars, build>>

BootNext == Launch \/ Launched \/ RunServers(Serve) \/ RunServers(PeerNext) \/ RunExecutor \/ Reset

\* The loops poll their sockets for ever; a peer that is there acknowledges what it is sent.
BootSpec ==
  /\ BootInit /\ [][BootNext]_bootVars
  /\ WF_bootVars(RunServers(Serve)) /\ WF_bootVars(RunServers(Ack)) /\ WF_bootVars(RunServers(LastAck))

\* After each connection the server listens again, however it ended, unless the client is to blame.
\* The comment on serve_status_http promises it; the status server does not keep it.  (the is_open
\* branch of each server, have_req)
InLoops == board = "running" /\ build # "router"
Relistens == []<>(InLoops => Available)

\* The other four servers do, and the status server from the moment it has a request.  (the is_open
\* branch of each server, the sinks' close)
RelistensAfterRequest == []<>(InLoops => Available \/ Unasked)

\* Once the loops run the launch has answered, and an RX engine reported as up is up; the counters
\* of the watchdog and the servers start from nothing after a reset.  (setup_eth_mac, run_router)
BootInv ==
  /\ TypeOK /\ TcpTypeOK /\ OkMeansStarted
  /\ board \in {"launching", "running"} /\ core1_ok \in BOOLEAN
  /\ core1_ok => board = "running" /\ Jumped
  /\ board = "launching" => tcp = Closed /\ fed = 0 /\ Awake = Task
=================================================================================
