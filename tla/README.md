# Verification of pico-10base-t-rs

The firmware is a 10BASE-T network interface built from an RP2350's PIO, DMA and
two RISC-V cores, and, with the `wireless` feature, a router between a CYW43439
Wi-Fi access point (LAN) and that interface (WAN). This directory holds TLA+
models of its stateful parts, the TLC configurations that check them, and proofs
about some of them for every value of their parameters. `PROJECT.json` lists
components, runs, the source lines behind every definition, hazards, mutants and
theorems.

To check one: `tlc -config MCRouter.cfg MCRouter`, `tlapm RxPathProofs.tla`.

## 1. The system

| component | source | state | operations |
|---|---|---|---|
| `conntrack` | `src/conntrack.rs` | slots, id cursor, `NAT_LIVE` | `outbound`, `inbound`, `reap` |
| `forwarding` | `src/forward.rs`, loops of `src/wireless.rs` | two neighbor tables, two queues, two `IfaceCfg`, drop counters, lease | `receive` (learn, classify, divert), `egress` (NAPT, TTL, next hop), `set_lease`, `arp_gateway` |
| `rx_engine` | `src/eth_mac.rs`, `src/main.rs` | image ring, inbox, shared statistics, Spinlock<0> | `DMA_IRQ_0`, `drain_rx_images`, `receive`, `snapshot_rx_stats` |
| `rx_stitch` | `src/eth_rx.rs` | carry of an unfinished run | `poll_into`, `find_active_run_from` |
| `core1_launch` | `src/multicore_riscv.rs` | two SIO FIFOs, position in the handshake | `launch_core1_riscv` |
| `decoder` | `src/eth_rx_dpll.rs`, `src/eth_rx.rs` | edge position, pending bit, bits so far, length cap | `decode_frame_edge_track`, `peek_dst_mac`, open-loop decode of one run |
| `eth_tx` | `src/eth_tx.rs` | carrier flag, transmit FIFO, PRNG, IP identifier | `csma_acquire`, `send_raw_frame`, `send_udp_broadcast`, `send_nlp` |
| `wan_client` | `src/wan.rs` | lease, ping counters, DNS query handle, the sockets' slots | `dhcp_apply`, `ping_drain`, `ping_send`, `dns_harvest`, `dns_start` |
| `dhcp_server` | `src/dhcp_server.rs` | a pool of 32 MACs | `poll`, `allocate` |
| `executor_and_time` | `src/wireless.rs` | timer queue, ALARM0, watchdog | `schedule_wake`, `arm_alarm`, `TIMER0_IRQ_0`, `watchdog_feed_task` |
| `cyw43_transport` | `src/wireless.rs`, `src/cyw43_phy.rs` | gSPI PIO program, phy adapter | word transfers, `RxToken`/`TxToken` |
| `nic_applications` | `src/main.rs`, servers of `src/wireless.rs` | sockets, progress of a response, telemetry | `serve_http`, `serve_http_bulk`, `serve_fd_sink`, `serve_status_http`, `serve_lan_sink`, UDP echo |
| `host_tools` | `tools/` | | capture, analysis, self-test scripts |

How they meet. Core 1 only receives: its interrupt handler preempts its decoding
thread and feeds it through the image ring; the thread feeds core 0 through the
inbox, under the one spinlock core 0 also takes to pop frames and to snapshot
statistics. On core 0 a cooperative executor runs `net_task` (LAN), `wan_task`
(WAN) and drivers; the two tasks share nothing but the two frame queues, the
neighbor tables and atomics, and change them between two awaits. `conntrack` is
called by `wan_task` alone. One of the atomics is the resolver of the WAN's lease,
which `wan_task` stores and the LAN's DHCP server puts in its replies. Three
arms of `main` are built from these parts: the NIC (core 1, WAN client if
configured, HTTP and sink servers), the wireless node (one core, DHCP server,
status page, sink) and the router (all but the HTTP servers).

What is hard. The interrupt handler may come at any instruction of the thread,
also inside its critical sections; ring positions are reduced by a modulus that
does not divide the range of the sequence numbers; a wakeup can fall between the
last look at a queue and the sleep. A frame straddles DMA halves that know
nothing of frames. A frame to be routed is classified by one task and leaves by
the other, after lease, neighbors and bindings may have changed. Replies arrive
after their flow was evicted; a DNS query or an echo is in flight while the lease
it belongs to goes. Every table is small and overwritten when full, or never
released. Every handshake has timeouts and late answers. An alarm is worked out
before it is written. The bit clock has six samples a bit and drifts, and the
wire is sensed by a program of a dozen instructions between two edges.

What makes each component correct:

* `conntrack`: an id names one flow, a flow has one entry, replies go to the flow
  that used the id last, eviction takes the stalest and no live flow before a
  dead one, ids are not reused soon, allocation never fails, idle entries go.
* `forwarding`: every transit frame is counted once; translated replies reach a
  client that asked; no translation to 0.0.0.0; a MAC looked up is the current
  one; the gateway does not stay unknown.
* `rx_engine`: no image is overwritten while it is decoded; frames and counters
  are conserved over overflow and snapshots; order; every image is drained; the
  DMA is never starved; the handler returns.
* `rx_stitch`: images are the wire without gap or repetition; every run is found
  once and whole; only overlong runs are dropped; buffers are never exceeded.
* `core1_launch`: `Ok` means core 1 runs; the launch returns; what the build goes
  on with agrees with the answer, again after every watchdog reset.
* `wan_client`: the query handle names a live query of the current servers; query
  slots are lost to lease events and to nothing else, and until they are all lost
  the probe goes on; no reply is counted that was not asked for.
* `dhcp_server`: no two clients share an address; a client that keeps asking is
  served unless others fill the pool; a renewal brings the current resolver.
* `executor_and_time`: every deadline wakes its task in time, and the watchdog bites
  only if an alarm was missed.
* `nic_applications`: a server closes after one whole response, never sends the rest
  of another connection's, and listens again after every connection (the status
  server does not: finding 5).
* `decoder`: it stays on the middle edge of every bit while the clock drifts, before
  and after the fast path hands over, and returns the frame that was sent.
* `eth_tx`: a frame begins on a wire that was quiet when last looked at, or after the
  promised number of looks; it goes out unbroken, after a full pad; every
  transmission is made.

## 2. The modules

**`Conntrack`** (with `MCConntrack`) models `conntrack.rs`. A slot holds an entry
or `Free`; `OutboundKnown` and `OutboundNew` are the two ways through `outbound`,
`Inbound` is a hit of `inbound` (a miss changes nothing), `Reap` is the sweep,
`Tick` the millisecond clock. `Probe` and `AllocId` are the wrap-around id probe,
`PickSlot` the choice free, expired, stalest. `owner` and `recent` are history.
Addresses are opaque: a flow is a protocol, a LAN endpoint and a WAN peer.

**`AddressTranslation`** is what `conntrack` promises: a one-to-one set of at most
`Cap` bindings that are made and lapse and are never handed over. `Conntrack`
implements it under the mapping `Bindings`, from ids to the flow in the slot that
holds the id. `Router` uses it in place of the table.

**`Router`** (with `MCRouter`) models `forward.rs` and the loops of `net_task` and
`wan_task`. `at` is where the executor is: a poll or drain phase of either task,
or idle. `LanTransit`, `WanReply`, `WanDirect`, `WanForeign` are the ways through
`receive` for a frame to be routed or refused, `LanLocal` and `WanLocal` for all
other frames; each begins with `learn`. `LanEgress` and `WanEgress` are `egress`
with its early returns in the code's order; `WanApply` is the stretch from
`dhcp_apply` to the drain. The two sides differ as the code does: the LAN phy can
run out of transmit buffers, the WAN one cannot; only the WAN side translates.

**`RxCarry`** models `poll_into` on the stream of samples and the run finding of
`scan_runs`. A byte is its position on the wire, so an image says exactly what was
copied. `CarryOn` is the early return for a half that only continues the carry
(extend it or drop it), `HandOut` the normal path: `Leading` and `TailStart` are
its two loops, `Stitch` the two copies.

**`RxPath`** models `eth_mac.rs` around it with three actors and the DMA: `Irq*` is
`process_completed_half`, `Thr*` is `core1_entry` with `drain_rx_images` and
`scan_runs`, `C0*` is core 0. One action is one stretch between two points where
another actor can see a difference: ring slot, `IMG_W`, `IMG_R`, the spinlock.
The thread moves only when no handler runs. Images are numbered, and a frame is
the image it came from and its place in it.

**`Core1Launch`** models `launch_core1_riscv` statement by statement, with core 1's
boot ROM (external) echoing arbitrarily late or not at all.

**`TimeDriver`** models the embassy driver with times relative to the counter.
`Poll` is a task that waits again (`schedule_wake`), `TIMER0_IRQ_0` serves the
queue, and both end in `arm_alarm`, which is two actions, `ReadClock` and
`WriteAlarm`, because a tick may pass between them. A target written too late
matches a whole `Wrap` later; `missed` records it.

**`TcpServer`** models one of five servers with its smoltcp socket and peer (both
external). One action is one poll of the server; the peer sends, acknowledges,
closes, resets or vanishes between any two. A response is a number of chunks and
`sent` counts those queued on the connection.

**`Boot`** composes `Core1Launch`, `TimeDriver` and `TcpServer` into the three arms of
`main`: reset, launch where there is one, the loops, and in the router the
watchdog's reset back to the launch.

**`WanClient`** models one poll of the client as `dhcp_apply`, `ping_drain`,
`dns_harvest`, and once a second `ping_send` and `dns_start`, in the code's order,
on what they share; smoltcp's three sockets and the wire are `WanEnv`. A query slot
holds the servers its query was asked under. **`DhcpServer`** models `poll` over a
batch of requests with `allocate` and `build_reply`, the socket's two bounded
queues, a radio that at first loses replies and runs out of buffers, and clients
that ask, renew and leave unannounced. **`Services`** (with `MCServices`) composes
them into the builds, with `LAN_DNS_OFFER` between them.

**`EdgeTrack`** models `decode_frame_edge_track` with `find_sfd`, the fast path with
its table, the tail, `peek_dst_mac` and the length cap, one action per bit. The wire
is produced bit by bit, a bit by its value and the lengths of its halves in
samples, and positions are relative to the middle edge of the current bit, so a
state is a window and not a history. Whether the pushed bits are those that were
sent stands for bytes and FCS.

**`CarrierSense`** models the carrier-detect program instruction by instruction and
core 0's looks at its flag in `wait_carrier_idle` and `csma_acquire`. **`TxFifo`**
models the words of frames, link pulses and pads through the transmit FIFO.
**`Link`** (with `MCLink`) puts these three and `RxCarry` together; the four share no
state in the code, so a behaviour of `Link` follows one of them.

**`ConntrackProofs`, `RouterProofs`, `RxCarryProofs`, `RxPathProofs`,
`Core1LaunchProofs`, `BootProofs`, `ServicesProofs`, `LinkProofs`** hold the proofs.

## 3. The runs

| run | checks | bounds, and why they are enough |
|---|---|---|
| `conntrack` | `TypeOK`, `UniqueFlows`, `OwnerExact`, `LiveGauge`, `IdQuarantine`, `AllocSucceeds`, `EvictsOnlyTheStalest`, `IdleFlowsFreed`, `ImplementsTranslation` | 2 slots, 4 ids, 3 flows, all protocols: every flow can be evicted by another and the cursor laps. The clock crosses every timeout (2, 1, 2, 1 ticks within 2). |
| `conntrack_closing` | `ClosingSticky` (violated) | the same with one more tick |
| `router` | `FramesAccounted`, `RightClient`, `MaskedSource` | 2 clients, 2 WAN hosts, a lease with a gateway and one without whose subnets differ; every queue and table has one place, so each overflows; 2 transit frames, so one finds the queue full or the table changed. |
| `router_neighbors` | `NeighborsCurrent`, `GatewayRelearned` | 3 hosts and 2 MACs against a table of 2; 0 transit frames (they learn exactly as local ones do), local chatter unbounded. |
| `rxpath` | `RxInv`, `SlotExclusive`, `DeliveredInOrder`, `ImagesDrained`, `RxNeverDies` | 2 slots, sequence numbers modulo 4, inbox of 2, 2 images of up to 2 frames, one capped carry: both rings overflow and wrap. |
| `rxpath_lock` | `IrqReturns` (violated) | one capped carry |
| `rxpath_wrap` | `SlotExclusive` (violated) | 6 slots as in the code, modulus 16, which is 4 modulo 6 as 2^32 is |
| `boot` | `BootInv`, `OnTime`, `ResetsOnlyMissed`, `ResponseWhole`, `RelistensAfterRequest` | The hardware's 4-word FIFOs and the code's 16 failures. Three tasks, a low word that repeats after 16 ticks against delays of 1, 3 and 20: deadlines now, near and beyond the alarm's reach; 12 ticks of watchdog fed every 3; one tick may pass while the core works, enough to write an alarm after its target. A transmit buffer of 2 chunks and a response of 4, so a bulk response needs several polls. |
| `launch_dead` | `LaunchReturns` (violated) | the launch with core 1 dead |
| `relistens` | `Relistens` (violated) | the loops of `boot` with FIFOs of one word and responses of one chunk |
| `services` | `QueryIsOurs`, `PingBalance`, `AddressIsMine`, `LeaksOnlyOnLeaseEvent`, `DnsProbeGoesOn`, `Served`, `ResolverReaches` | smoltcp's 2 query slots, so both can be lost; 2 leases that differ in address, gateway and resolver; 2 echoes. A pool of one address for 2 clients, socket queues of 2, 2 requests a poll: the pool, the queue and the batch all fill. |
| `link` | `CarryInv`, `EveryRunFound`, `OnlyOverlongDropped`, `ImagesContinuous`; `StaysLocked`, `FrameSurvives`; `StartsOnQuietWire`, `Transmits`; `FramesSpaced` | All 4096 wires of four 3-byte halves, carry as large as a half (the build's ratio), shortest frame 2: runs begin, end and span halves at every offset and two halves can be all active. Bytes of 4 bits, a preamble of 3, frames of 3 and 4 bytes, one of them padded, one not of IPv4. Half bits of 2 to 4 samples and middle edges 5 to 7 apart, as in the captures of `tools/clock-recovery`; the quiet end of a run 0, 2, 3 or 7 samples. The carrier program with its real guard of 8 and edges up to 7 samples apart. A FIFO of 3 with frames of 2 and 5 words and a pad of 4: frames shorter and longer than the FIFO. |

Some of the invariants are conjunctions: `BootInv`, `RxInv` and `CarryInv` contain the
type invariants of their parts, `FramesAccounted`, `PingBalance` and `AddressIsMine`
those of `Router`, `WanClient` and `DhcpServer`.

The 22 ticks of `Latency` in `link`, 367 ns at 60 MHz, are the least for which
`StartsOnQuietWire` holds: the time a frame may have been on the wire when core 0
still finds it quiet, short of the pin synchronizer's two cycles and of what
passes between the look and the first bit. With 21 TLC finds a start too late.

`CHECK_DEADLOCK FALSE` stands where the system really stops: `boot`, `relistens` and
`launch_dead` where the launch hangs on a full FIFO (finding 4;
in `boot` a core 1 that is merely slow suffices), `link` after the last half or
when a run is decoded, and
the `rxpath` runs with a capped carry, whose hang is the subject of `rxpath_lock`.

Each property is paired with a mutant, a plausible bug in the code it is about (a
dropped wrap-around, an uncounted drop, a probe that looks at one slot), under
which TLC finds it violated.

### Fairness

* `Conntrack`: `wan_task` calls `reap` once a second whatever happens, so `Reap`
  is weakly fair. Nothing is assumed of traffic.
* `Router`: the executor polls each task whose timer fired (`wan_task` and
  `net_task` both arm one for every sleep) and polls end, hence fairness of waking,
  draining and sleeping; wake-ups are strongly fair as the other task may run in
  between. `next_ping` falls due once a second; not every ARP request is lost; a
  gateway asked again and again answers.
* `RxPath`: the sampler never stops and a pending interrupt is taken. The handler
  needs a fraction of a half's time (comment in `eth_rx.rs`), so the thread runs
  between any two for ever: strong fairness. No spinlock holder keeps the lock, so
  core 0 wins it eventually.
* `Core1Launch`: core 0 does nothing else while it launches, and a live core 1
  echoes eventually.
* `Boot`: the loops poll their sockets for ever; a peer that is there acknowledges
  what it is sent and the FIN. Nothing is assumed of what peers ask or of how they
  leave.
* `Services`: both loops are polled every few milliseconds and a second passes again
  and again; a pending query ends, because smoltcp retransmits it and gives up. One
  client keeps asking until it is heard (its `Discover` and `Request` are strongly
  fair, as a full socket refuses them now and then) and the radio settles at last;
  nothing is assumed of other clients or of the WAN's DHCP server.
* `Link`: core 0's looks, attempts and transmissions go on; the wire owes nothing.

### Findings

1. `conntrack_closing`: `next_tcp_state` leaves `Closing` for `Established` on the
   ACK that answers a FIN, so a closed connection keeps its slot for 60 s where
   comment and plan say 10 s.
2. `rxpath_lock`: the interrupt body claims Spinlock<0> when a carry was capped. If
   it preempted the thread inside `with_rx_shared`, both cores hang; the comments
   say "bounded time" and "not re-entrant".
3. `rxpath_wrap`: `seq % 6` jumps where the 32-bit sequence wraps (about 108 days
   of uptime), and the handler may overwrite an image being decoded.
4. `launch_dead`: with core 1 dead the launch blocks on the full FIFO at its fifth
   word, although comments promise an error after sixteen failures.
5. `relistens`: `serve_status_http` returns while no request has arrived. A client
   that connects and closes without one leaves the socket in CLOSE-WAIT, nobody
   closes it, and port 80 answers no more. `wireless.rs:811` says "Re-listens after
   each closed connection." `RelistensAfterRequest`, which `boot` checks, promises
   nothing after such a client and the whole of it after all others.

What else the models made plain, stated inside the properties. No document promises
otherwise, but for the comment on the end of a run that the first of them quotes:

* The decoder does not survive two shapes of a run. When the first falling edge is
  not late, the anchor is a sample early; if then the first data bit is 1 (a
  broadcast or multicast address) and its first half is two samples long, the edge
  before it is taken for its middle (`AnchorMissed`). And if the last middle edge
  comes five samples after the one before, with two samples or less left of the run,
  the tail reads the bit past its edge (`EndMissed`), and the last bit of the FCS may
  come out wrong. `eth_rx_dpll.rs:190-191` says of that step "Coast near the buffer end
  so the last bit still decodes": it is decoded, not always rightly. `FrameSurvives`
  says that these two shapes, and no others, lose the frame.
* A link pulse is one unretried write: with the FIFO full it is lost and its pad goes
  out alone (`FramesSpaced` counts on nothing else).
* Each lease event during a DNS query loses one of two slots for good; after the
  second the probe is silent for the rest of the uptime (`LeaksOnlyOnLeaseEvent`,
  `DnsProbeGoesOn`). A status line may read more replies than pings after a lost
  lease (`PingBalance`).
* An alarm whose target passes before it is written comes 71 minutes late and the
  watchdog resets the board first (`OnTime`, `ResetsOnlyMissed`).

Five properties hold because they except part of the hazard they are about, and say
nothing of that part. `PingBalance` adds what a reset of `WanState` forgot to the pings
counted, so it bounds the miscount and does not exclude it. `DnsProbeGoesOn` asks for
nothing once every query slot is lost; that a slot is lost only to a lease event is
`LeaksOnlyOnLeaseEvent`. `Served` is met by a pool that others have filled.
`StartsOnQuietWire` ends at core 0's last look, not at the first bit on the wire.
`OnTime` speaks of the time before an alarm is missed.

## 4. The proofs

`ConntrackProofs`, for all capacities, id ranges, timeouts and flow sets with
`Cap < Span`. The inductive invariant `IInv` joins `TypeOK`, `UniqueWanIds`,
`UniqueFlows`, `OwnerExact` and `LiveGauge`: `OwnerExact` is preserved by an
allocation only because the new id is in no used slot, and `LiveGauge` counts used
slots only because slots are a finite set. From it follow `TypeCorrect`,
`WanIdsUnique`, `FlowsUnique`, `RepliesReachTheirOwner`, `GaugeExact` and, for
steps, `EvictionOrder`. `AllocAlwaysSucceeds` is a pigeonhole argument: fewer
used ids than probes, so some probe is free, and the first free one exists;
`NatDropIsDead` states it of every behaviour. `Quarantine` (`IdQuarantine`) rests on
`LapInv`: how far behind the cursor an id lies (`Back`) and how many unused ids the
cursor has yet to come to before it (`Fresh`); an allocation takes one of those, so
an id is not given out again within `Window` allocations. `Refinement` says that the
table implements `AddressTranslation`: under unique ids `Bindings` and the used
slots correspond one to one (`BindingsCount`), so that "the table is full" and "Cap
ids are bound" agree and an eviction is exactly one lapse.

`RouterProofs`, for any hosts, flows and leases and every size of tables, queues and
buffers. `RouterInv` has one part per structure: control, neighbor tables
(`NeighInv`: one entry per host, with the MAC it last used), queues, counters
(`Books`) and bindings (`NatInv`: a live binding is one its flow was sent out
under). `NeighStep`, `BookStep` and `NatStep` are the few ways a step can disturb
each; every action is shown to be one of them. Results: `RouterTypes`,
`FramesAccountedHolds`, `RightClientHolds`, `NeighborsCurrentHolds`,
`MaskedSourceHolds`.

`RxCarryProofs`, for all `Half <= MaxCarry`, all wires and any number of halves,
in particular for carries larger than a half, which no run reaches. The inductive
invariant is `TypeOK` with `CarryIsOpenRun`. The loops of `poll_into` are `CHOOSE`s
whose witnesses come from the least-number principle (`LeastElement`, by well-founded
subsets of finite sets). `IsPiece` says that a sequence is a stretch of successive
wire positions; `JoinPieces` and `CutPiece` are all that is needed of
concatenation and `SubSeq`. Results: `TypeCorrect` (no buffer is exceeded),
`CarryExact`, `Continuity`, `OverlongOnly`, which adds the invariant that every
dropped byte lies in an active stretch longer than a half, and `RunsFound`
(`EveryRunFound`): `FoundInv` says that the settled part of the wire ends at a gap or
a drop and that the runs found so far are exactly those of the settled part; the
scan of a piece finds the runs of its stretch (`ScanOfPiece`).

`RxPathProofs`, for all rings, inboxes, images and bounds. `PathInv` joins types, lock
ownership and counters (`Basics`) with the backlog at each place of the interrupt
handler and the thread (`RingInv`); `PathKept` shows it inductive with no condition on
the number of slots, although an image that is overwritten under the thread can change
what the thread finds in it. `NothingLost` follows for every ring. What a wrap can spoil
is told apart by where the sequence numbers stand. Places less than a ring apart are
different slots as long as no wrap lies between them (`SlotsApart`, modular
arithmetic), so `SlotsExclusive` says: either the number of slots divides the range,
or the images waiting lie on both sides of a wrap, or no waiting slot is written to;
the second case is what `rxpath_wrap` shows. `InOrderOfTheWire` needs that no wrap has
happened while images were waiting, hence `Followed`: the ring fits the range, or
the images followed (`MaxTagged`, a bound of the model) and a ring's worth on top stay
below the range. The code's six slots and 2^32 meet the second for its first 2^32 - 6
images, 108 days of uptime. `Ordered` adds to `PathInv` the order of what is in the
ring (`Numbered`), of what was handed over (`InOrder`) and that no number has wrapped
(`BeforeWrap`).

`Core1LaunchProofs`, for FIFOs of any depth and any `MaxFails`: what core 0 writes is a
series of beginnings of the command sequence, so in what core 1 reads every word
follows the one before it in the sequence, however late (`InOrder`, `EndsWith`); the
echo of the last word therefore comes from a core that has read all six.
`LaunchIsHonest`.

`BootProofs`, for any resets, FIFOs, buffers and responses: `Counted` ties, server by
server, the state of the handler, the state of the socket and the number of chunks
queued on the connection; `BoardInv` says what a reset leaves. With `LaunchInv`
they give `BootKept` and `ResponsesAreWhole`. For any tasks, delays, width of the
timer's low word and lateness: `TimeInv` relates every deadline to the alarm that
covers it and to the step the driver is in, and `DeadlinesOnTime` (`OnTime`) follows:
without a missed alarm no deadline is passed by more than `1 + 2 * MaxLate` ticks,
the lateness of the interrupt before it and its own. `FeedInv` adds that the watchdog's
feeder is on time or the core sleeps past a missed alarm whose next match comes
after the watchdog, hence `WatchdogQuiet` (`ResetsOnlyMissed`). It needs
`FeedAssumption`: the feeder's period with that lateness is shorter than the watchdog,
and the watchdog shorter than the low word's 71 minutes.

`ServicesProofs`, for any leases, slots, clients, pools and queues, over all of
`Services`. `WanInv` says of the handle that its slot is taken under the current
servers. The poll is a composition of operators on a record; `PollGood` follows the
record through them and collects which slots were made or forgotten on the way
(`MadeGood`, `Forgotten`), `EnvGood` does the rest. Results: `HandleNeverDangles`,
`SlotsAreLostToLeaseEvents`. `PingInv` follows every echo from the queue over the
wire to the reply: those under way are a set of (source, number), so that a step
moves one element and cardinalities say the rest (`OutBound`, `EnvBalance`):
`EchoesBalance`. `LanInv` has the pool in `Tenancy` (no client holds two addresses)
and what is queued or used held by its client; it is kept because the pool only
grows (`Keeps`). A batch of requests and a queue of replies are recursive functions;
`Chain` shows that such a function exists, `ChainStays` that it ends where its steps
lead, both from `Induction`, the induction principle for a set of numbers, proved
from the well-foundedness of `<`. Result: `AddressesAreMine`.

`LinkProofs`, the other three parts of `LinkSpec`:

* The decoder, for frames, bytes and preambles of every length and every allowed set
  of shapes. `EdgeInv` is `StaysLocked` with what is known of the wire ahead
  (`WireInv`) and of each stage (`StageInv`). Lemmas say what the wire looks like
  around a middle edge sample by sample; from them `TailFinds` and `AnchorFinds` get
  the edge, and `EdgeDeltaIsFindEdge` that the fast path's table chooses what the
  tail's comparisons choose on every window with an edge in it. `DecoderLocked`.
  `ReadInv` counts the bits pushed against those sent: in step with the wire
  (`InStep`), on its first bit (`OnStart`), beside its last (`BesideLast`) or past it
  (`Past`); the length of the run's quiet end decides which, and the two odd shapes
  are exactly where the count goes wrong. `FramesSurvive`, with bytes of at least two
  bits.
* The carrier program: `NoticedInv` bounds, instruction by instruction, how long the
  wire can have been active while the flag is still low, `CoreInv` what core 0 has
  seen when it goes on. `QuietWireFound` (`StartsOnQuietWire`) holds for every
  `Latency >= 2 * MaxRun + 8`, for the code's edges the 22 ticks that TLC finds to be
  the least.
* The FIFO: `Stream` is what is on the line, in the FIFO and still to be written, in
  order; `FifoInv` says that its frames are unbroken and each has its pad before it.
  `FramesAreSpaced`.

Assumptions are those each module states of its constants, which TLC evaluates in the
runs, and in `InOrderOfTheWire` its hypothesis `Followed`.

Every invariant and every action property of the passing runs is proved,
`SlotExclusive` and `DeliveredInOrder` under the conditions above. Only
model-checked are the liveness properties: `IdleFlowsFreed`, `GatewayRelearned`,
`ImagesDrained`, `RxNeverDies`, `RelistensAfterRequest`, `DnsProbeGoesOn`, `Served`,
`ResolverReaches` and `Transmits`. Liveness under fairness and statements with
`ENABLED` are out of the prover's reach. So are the library's induction theorems,
which take an operator as a parameter; where an induction over data is needed it is
done on a set of numbers, as in `ServicesProofs`.

## 5. Not modelled, and the plan

Left out for good: the gSPI transport, its phy adapter and the firmware upload (one
sequence of words at a time under an external driver; that it can be out of
buffers is in `Router` and `DhcpServer`); host tools; `pico_reset` and USB;
telemetry and the wording of pages and status lines; CRC and Manchester tables,
checksums, UDP headers, frame parsing and the byte rewrite of NAPT (data,
abstracted to what a frame is for); SYN-RECEIVED and retransmission, which are
smoltcp's. smoltcp, embassy, the cyw43 driver, the boot ROM, peers and clients are
external and modelled from how the code uses them.

Left out of a modelled component: the decoder of the `decoder-openloop` build, which
has no state beyond its position; the full-duplex build of `eth_tx`, which skips
the waiting; the xorshift behind the backoff, for which any duration stands; the
UDP echo, which answers within one poll and keeps nothing.

Next, in this order:

1. A bounded FIFO that drops the oldest and counts its losses as the abstract
   specification of the inbox, and a lossy ordered link for the receive path as a
   whole, both implemented by `RxPath`.
2. The steps below the liveness properties that are safety and can be proved: that
   whoever is waited for is enabled, and that each round gets closer to the end.
