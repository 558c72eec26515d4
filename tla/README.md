# A TLA+ verification of ipv6suite

`ipv6suite` is an OMNeT++ simulation of the Internet protocols: the INET framework (IPv4, TCP,
UDP, Ethernet, PPP) with an IPv6 stack, neighbour discovery, Mobile IPv6 (RFC 3775), hierarchical
Mobile IPv6 and IEEE 802.11 added to it. This directory holds TLA+ modules translated from the
C++ sources, configurations that check them with TLC, and proofs checked by TLAPS.
`PROJECT.json` is the index: which definition models which lines, what each run checks, which
mutation of the model breaks each property, the hazards, the findings, the theorems.

How to run (in this directory):

    tlc -workers 2 -config HomeAgreement.cfg MCHomeRegistration.tla
    tlapm HomeRegistrationProofs.tla

## 1. The system

### 1.1 How it executes

One thread runs the simulation. A module (`cSimpleModule`) handles one message at a time; a
handler runs to its end before the next event is taken. The atomic step of the program is thus
one handler: one delivered message, one expired timer, one callback. Everything hard lies
*between* handlers: messages between nodes are delayed, lost (wireless, no route, tentative
address) and overtake each other; timers race the answers they wait for; callbacks registered
for one address run after the node has moved to another; and state is spread over tables (binding
update list, binding cache, destination cache, tunnels, neighbour cache) that handlers update one
after the other. A failed `assert` ends the program.

### 1.2 Components

For each: its state, its operations, how it interacts, what is hard about it, and what makes it
correct. `PROJECT.json` lists them all with their files.

**Mobile IPv6, home registration** (`Network/MIPv6`): *MN* the binding update list (`bul`), the
retransmission timers (`buRetranTmrs`), `awayFromHome`, the current router, the reverse tunnel;
*HA* the binding cache, its tunnels, the destination entry of the home address. Operations:
handover, returnHome, relinquishRouter, sendBU, retransmitBU, processBA, processBE, expiry; at
the HA processBU (refuse, deregister, register), expiry. BU, BA and BE travel between them; the
MN's handlers are called by movement detection and by duplicate address detection, which calls
the deferred BU back. Hard: a handover sends a BU and clears the timers of the link it leaves in
the same step; BUs and BAs are lost and overtake each other; the two lifetimes run apart; the
sequence number wraps. Correct: timers, deferred BU, tunnels and flags always belong to the link
the MN is on; the HA's binding has its tunnel; the two ends agree when the MN believes they do; a
node that comes home ends up deregistered.

**Mobile IPv6, return routability and correspondent registration** (the same files and
`MIPv6MStateCorrespondentNode.cc`, `MIPv6MNEntry.cc`): *MN* per CN an entry with two test timers,
two cookies, two nonces; *CN* the nonce ring and the binding cache. Operations: sendInits,
sendHoTI, sendCoTI, processTest, sendBU, processBA, processBE; processTI, processBU,
nonceGeneration. Hard: a handover while one or both tests are going on; late and repeated answers;
a CN that refuses. Correct: a BU for a CoA rests on a care-of test of that CoA; packets are sent
directly only from the CoA in use; a procedure that starts ends.

**Mobile IPv6, nonces of the CN**: a ring of 8 and a 30 s timer. Correct: three constants in three
files (8, 30 s, 210/240 s) keep the promises their names make.

**Mobile IPv6, movement detection** (`MIPv6NDStateHost.cc`): the router list and its order (`mrl`),
the missed-advertisement timer. Operations: processRtrAd, movementDetectedCallback, handover.
Hard: the timer is shared by all routers; entries that are deleted while listed; advertisements of
the old and the new link interleave. Correct: a handover goes to a router that is still heard, and
only on movement.

**Hierarchical Mobile IPv6, edge handover** (`Network/HMIPv6`): a second registration, with a
mobility anchor point, beside the home registration.

**Neighbour discovery** (`Network/ICMPv6`): *host* prefixes, default routers, tentative addresses,
duplicate address detection, router solicitation with its retries; *router* periodic and solicited
advertisements with a minimum delay. **Address resolution**: neighbour states, packets queued per
next hop (`ppq`), a list of solicitation timers (`tmrs`). Hard: an answer, a solicitation and the
last timeout race; a resolution on all interfaces is several timers that count as one. Correct:
each queued packet is sent or given up exactly once; a resolved neighbour is not declared
unreachable; each address with packets waiting has a timer.

**Multicast listener discovery**: querier election, group timers, report suppression. **ICMPv6
core, IPv6 forwarding, sending, local delivery, extension headers, fragmentation, tunnels,
addresses**: pipelines of stateless steps over the tables above.

**ARP, IPv4 fragment buffer, IPv4 routing**: ARP keeps per address an entry with pending packets,
a retry counter and a timer; the fragment buffer keeps one contiguous region and a list of
disjoint ones. Hard: answers racing the last timeout; fragments in any order, repeated. Correct:
waiting packets are sent in order or dropped, once, and none waits for ever; a cached MAC
address is that of a host that answers for the address; a datagram is delivered only when all of
it has come.

**Queues** (`PassiveQueueBase`, `DropTailQueue`, RED): packets waiting or requests waiting, never
both. **TCP** (`Transport/TCP`): the RFC 793 state machine, send and receive queues, the
connection-establishment, retransmission and 2MSL timers, Tahoe and Reno congestion control;
connections interact by segments that are lost, repeated and reordered, and with applications by
commands and indications. Hard: a FIN is a sequence number and no byte; it may overtake data, or be
outstanding when the retransmission timer expires; timers of one state expire in another. Correct:
bytes are delivered in order and once; what a sender drops was delivered; bytes that are sent get
acknowledged or the connection is given up. **UDP, RTP**: demultiplexing, statistics.

**Link layers**: IEEE 802.11 (CSMA/CA, acknowledgements and retries, a queue that the access point
also forwards through, the association state machine), half-duplex Ethernet (CSMA/CD, back-off,
pause frames), switch relay units (address table, shared buffer), PPP. Hard in 802.11: seven state
classes share one counter of frames in the air and five timers, and a frame of a hidden station
starts and ends at any time within the exchange of a frame and its acknowledgement. Correct: the
node senses the medium as it is, passes each frame up once and in order, believes only
acknowledgements of its own frame, and gets back to idle. **Physical layer, mobility patterns,
world**: geometry.

**Utilities**: timer messages and callbacks, `ExpiryEntryList` (a heap of entries with one timer
for the earliest; its callback may change the heap), sequence-number comparison, XML configuration,
topology generators. **Applications, networks, tests, tools.**

### 1.3 What is hard to test

`PROJECT.json` "hazards" lists, at its line, each place where an order of events, a race, a lost
message, a boundary or a stale value can go wrong, with the properties that would show it. Those
without a property say why: what one would ask for there does not hold (section 5).

## 2. The modules

| module | what it is |
|---|---|
| `HomeRegistration` | MN, HA and the network between them |
| `MCHomeRegistration` | its instance for TLC (symmetry of the foreign routers) |
| `HomeRegistrationProofs` | its theorems |
| `Nonces` | the nonce ring: state and operations, used by the next two |
| `NonceLifetime`, `MCNonceLifetime`, `NonceLifetimeProofs` | the ring with the time it takes |
| `ReturnRoutability`, `MCReturnRoutability`, `ReturnRoutabilityProofs` | RR and the registration with one CN; extends `Nonces` |
| `NextHopQueues` | abstract: what address resolution promises the network layer |
| `ARP`, `MCARP`, `ARPProofs` | ARP of the hosts of one Ethernet, which implements `NextHopQueues` |
| `TCPConnection`, `MCTCPConnection`, `TCPConnectionInvariants`, `TCPConnectionProofs` | one TCP connection: both ends, their applications, the network |
| `AddressResolution`, `MCAddressResolution`, `AddressResolutionProofs` | IPv6 address resolution of a host with several interfaces |
| `NeighbourDiscovery`, `MCNeighbourDiscovery`, `NeighbourDiscoveryProofs` | duplicate address detection and router discovery of the hosts of a link |
| `WirelessMAC`, `MCWirelessMAC`, `WirelessMACProofs` | 802.11 medium access of an access point and its stations |

An action is one handler of the program, with everything that handler calls. `Send` puts a message
into the set `msgs` or loses it; delivery takes any member, which gives delay and reordering. A
message is a record with the fields the handlers read. `Require(ok, a)` is an `assert`: when it
fails, `aborted` names it and no action is enabled any more. Modules in which a handler changes
one node in several steps (`TCPConnection`, `AddressResolution`, `NeighbourDiscovery`,
`WirelessMAC`) write each function of the code as an operator from the record of the node before
to the one after, and the action composes them in the order of the calls.

### 2.1 HomeRegistration

| state | code |
|---|---|
| `router` | `mipv6cdsMN->currentRouter()` |
| `away` | `mipv6cdsMN->awayFromHome()` |
| `bule` | the `bu_entry` of the primary HA: CoA, sequence number, `state`, `problem`, lifetime, remaining lifetime |
| `tmrs` | `buRetranTmrs`, each with the datagram it repeats and its back-off |
| `deferred` | the callback that `deferSendBU` leaves with the tentative CoA |
| `mnTunnel`, `haTunnels`, `hoaRoute` | tunnels, and the destination entry of the home address |
| `bc` | the HA's binding cache entry |
| `turn` | whose one-second `MIPv6Period` timer is next |
| `acked` | history only: the CoA a BA accepted since the last BU |

`HandoverAssigned`, `HandoverDeferred`, `HandoverSameCoa`, `LoseRouter` and `ReturnHome` are the
ways through `handover()`, each ending in `relinquishRouter`. `SendDeferredBU` is the callback
after duplicate address detection. `RetransmitBU`, `MNPeriod` and `HAPeriod` are the timers,
`ReceiveBA/BE/BU/Data` the message handlers, `SendDataToHA` the packet that makes the HA check the
binding. Time is the period of the expiry timers; the two ends' periods alternate, so that their
clocks differ by less than a period, and a retransmission timer counts periods. The 1.5 s of a
first BU is one or two periods (`FirstWait`).

Left out: more than one home agent, HMIPv6, the prefix options, BUs with the alternate CoA,
the lifetime in a refusing BA (the MN does not read it), statistics.

### 2.2 Nonces and NonceLifetime

`nonces` and `noncesIndex` are the array and the index; 0 is "none", in the ring and on the wire.
`NonceLifetime` adds a clock of 1 s, the 30 s timer, and one test message answered at any time. It
takes `rand()` not to return 0 or a number that is in the ring, so a nonce is the number of its
draw; `ReturnRoutability` draws nonces from a small set that may hold 0 and repeats them.

### 2.3 ReturnRoutability

`bule` is the entry for the CN: `hoti` says that its HoTI timer is scheduled, `coti` which CoA its
CoTI timer tests (or none), the cookies and nonces are its fields, `sent` and `recent` say of
`last_time_sent` what `sendInits` and `processTest` ask. `tested` is history: the CoA at which the
care-of nonce was received; it is copied into the BU so that `CareOfTested` can speak of it. `mishaps`
is history too: what has befallen the entry since its last BU, a handover while a test was going on
(`moved`), a handover within 1/3 s of that BU (`early`), a nonce 0 received (`zero`). No guard reads
it. It tells apart the cases in which the code breaks a promise from those in which it must keep
it: a BU resets it, so that one procedure that goes well ends what an earlier mishap excused.
`Handover` is `sendBUToAll` with `sendInits` for this CN; `StartRouteOptimisation` is
`checkDecapsulation`; `ReceiveHoT` and `ReceiveCoT` are `processTest`; `ReceiveTI`, `ReceiveBU` and
`ReceiveData` are the CN's. Times are not measured: an entry may expire, a timer may fire and a
nonce may be drawn at any time, which covers every setting of them.

Left out: early binding updates, BUs to CNs with the acknowledge flag (`mnSendBUAckFlag`), HMIPv6,
the cryptographic tokens (a nonce stands for its token), the size of the back-off.

### 2.4 NextHopQueues and ARP

`NextHopQueues` is the promise: per sender and next hop, packets are numbered as they are handed
down; they wait (`Hold`) or pass on when none waits (`PassOn`), and those that wait are all sent in
order (`Release`) or all given up (`GiveUp`), and one of the two happens.

`ARP` has a cache per host (`arpCache`: `pending`, `macAddress`, `numRetries`, `pendingPackets`, and
`stale`, which stands for `lastUpdate + cacheTimeout < simTime()`), the scheduled "ARP timeout"
messages (`timers`, by the entry they point to) and the ARP packets in flight. The ways through
`processOutboundPacket` are `ResolveForPacket`, `QueuePacket` and `SendPacket`; `requestTimedOut`
and `processARPPacket` are the other two handlers, with `initiateARPResolution`, `sendARPRequest`,
`updateARPCache` and `addressRecognized` as operators of the same names. A request is one message
per other host. `handed` and `sent` are history. The mapping to `NextHopQueues` takes the
`pendingPackets` of the entry of a host for an address, or none, for `waiting`.

Left out: interfaces that are not broadcast and multicast packets, which bypass the cache; more
than one port for an entry (the code has a "TBD" there); RARP; statistics.

### 2.5 TCPConnection

`conn[e]` is the connection block of a host: the fields of `TCPStateVariables` and of the
algorithm's state under their own names, the send queue (`qBegin`, `qEnd`), the receive queue (`buf`,
the sequence numbers held above `rcv_nxt`), the scheduled `timers`, and as history what the
application was passed (`rcvd`) and told (`told`). The commands (`OpenActive`, `OpenPassive`,
`SendCommand`, `CloseCommand`, `AbortCommand`), `Arrive` and the timeouts are the actions. `Arrive`
goes through `process_RCV_SEGMENT` to the code for LISTEN, SYN_SENT, the other states
(`processSegment1stThru8th`) or no connection, and then through `performStateTransition`, whose
table is `Transition`. `sendData`, `retransmitData`, `retransmitOneSegment`, `receivedDataAck` and
`receivedDuplicateAck` are operators of those names; Reno and Tahoe differ in the last two. Sequence
numbers are `% SeqMod` with the code's signed comparison.

A virtual byte is its sequence number, so that what a reader gets is exact when it counts from the
writer's initial number. How long a timer runs is not modelled (it may expire at any time), so
neither is the round-trip estimate; `cwnd` and `ssthresh` are kept, capped at the window. Left out:
forked connections, several connections of a host, the message-based queues, sockets.

### 2.6 AddressResolution

`ne` is the neighbour entry per address, `ppq` the queue of packets, `tmrs` the list of timers in
its order, with the marker for "all interfaces" that is never scheduled. `SendAtOnce` and
`SendPending` are conceptual sending; `transit` are packets between the forwarding and this
module, between which anything may happen. `PacketPends` is `processPendQ`, `Timeout` the
expiry of a solicitation timer with `failedAddrRes` after the last, `Answer` and `Unsolicited` are
`processNgbrAd`, and `processNgbrSol` a solicitation of the neighbour itself. An entry that the latter
completes keeps the interface -1 of a resolution on all of them; through it `SendAtOnce` sends
a packet to `tunnelEntry`, where it is dropped (`dropped`), and `PacketPends` to an output port that
does not exist, which ends the program. Interfaces get their
address at any time (`AssignAddr`); `Settle` is the fifth second, before which a failed resolution
leaves the entry. `handed`, `sent`, `unreached` and `dropped` are history. A dereferenced null pointer is
`crashed`.

### 2.7 NeighbourDiscovery

Per host `tentativeAddrs`, `inetAddrs`, the detection of each address (`dad`: solicitations sent), the
solicited-node groups as counts, the router solicitation timers and the router as the three tables
know it: the router list, the destination cache and the list of expiring routers (`rel`, which may
keep a freed pointer). `nodeInitialise` starts a host at any time; `DupAddrSolTimeout` and
`RtrSolTimeout` are the timers, `HearNgbrSol` and `HearNgbrAd` receive, at once on all hosts that are
up, what is sent; `processRtrAd`, `RouterWithdraws` (also of a router that the host does not know) and
`RouterTimeout` are what happens to routers. A
first solicitation waits in `wire` for its random delay, during which the host already hears
others. Left out: neighbour entries made by a router's own solicitations, optimistic detection, lifetimes of addresses and prefixes (the code that keeps
them is listed in section 5), redirects, the advertising router.

### 2.8 WirelessMAC

`node[n]` is one `WirelessEtherModule`: its `state` (the current `WirelessEtherState`), `rx` the count
`noOfRxFrames`, `input` the frame being received, the `queue`, the retry count, the time left of the
back-off (`timeToSend`) and the timers as time left, or `Off`. `wire` holds the signals that start and end frames; each
reaches each node in range before time passes (`Tick`). The state pattern's `processSignal` becomes an
action per state and kind of signal: `IdleData`, `BackoffData`, `AwaitACKData`, `SendData` and
`Collision` for a frame that starts, `OtherIdle`, `ReceiveNothing`, `ReceiveError`, `StationData`,
`AccessPointData`, `ReceiveAck` and `AwaitACKReceiveIdle` for one that ends. The timers are actions of the
names of their handlers (`readyToSend`, `endSendingData`, `awaitAckTimeout`, `sendAck`, `endSendingAck`). The
access point forwards what it receives for another station or for all through the same queue; its own
`receiveData` (`WirelessAccessPoint.cc:383`) does to the queue and the back-off what the station's does, and
the model has one operator for both.

`got` (what was passed up or on) and `acked` are history. Left out: scanning, authentication, association and
expiry, beacons, the QoS queue, the access point's count of consecutive failures, statistics.

## 3. The runs

| run | configuration | shows |
|---|---|---|
| `home_moves` | `HomeLive` | Any movement, loss and reordering within a period: no assertion fails, no BU stays outstanding for ever, and a MN that stays home ends deregistered at both ends. 708,238 states. |
| `home_agreement` | `HomeAgreement` | Messages of any delay, a MN that waits for them before it moves: timers, tunnels and `awayFromHome` stay consistent, and an accepted registration is the one the HA holds, as long as the MN counts on it. 143,654 states. |
| `nonce_ring` | `NonceRing` | With the code's own 8, 30, 210 and 240, a nonce is good for 210 s and refused after 240 s. 193,752 states. |
| `rr_moves` | `RRMoves` | Handovers at any time, nonces that may be 0, losses, late and repeated answers: nonces are used up; a BU for a CoA that was not tested, a packet from an old CoA and the failed assertion of `sendBU` each need a mishap of the kind the property names. 3,983,888 states. |
| `rr_liveness` | `RRLive` | When losses end, every procedure ends that no handover falls into, with a BU unless a nonce was 0. 536,444 states. |
| `arp_resolution` | `ARPResolution` | Answers, requests of the same neighbour, retries, expiry and losses in any order: timers match entries, MAC addresses are right, and ARP implements `NextHopQueues`, fairness included. 110,657 states. |
| `tcp_transfer` | `TCPTransfer` | A message of three segments one way and a byte the other, with loss, reordering and retransmission: the stream is exact, what is dropped from a send queue was delivered, what is outstanding is timed. 1,285,458 states. |
| `tcp_ends` | `TCPEnds` | Active, passive and simultaneous open, close and abort: only a FIN that overtook data leads to an unexpected timer, and nothing waits for ever. 360,151 states. |
| `tcp_retransmit` | `TCPRetransmit` | violation, see 5 |
| `ar_resolution` | `ARResolution` | Answers, solicitations of the neighbour, timeouts on two interfaces and addresses that come late, in any order: every packet has one fate, of which being dropped without notice is one that only an entry without an interface brings about, and none waits without a timer or for ever. 257,226 states. |
| `nd_hosts` | `NDHosts` | Hosts that start at any time, two with the same token and two that want the same global address: no address is assigned twice, groups match addresses, solicitations stop, detections end. 274,252 states. |
| `wlan_hidden` | `WLANHidden` | Two stations hidden from each other and an access point: no assertion fails, the medium is sensed as it is, frames come once and in order, acknowledgements are believed rightly, the medium gets quiet. 725,486 states. |

`TypeOK` is an invariant of one run for each module whose types say something about the code; where the
module has proofs (section 4), it is a theorem too. `DeferredCurrent`, a part of the inductive
invariant of `HomeRegistration`, is in no configuration: it is shown by theorem alone.

### 3.1 Bounds, and why they are enough

* Two foreign links: an old and a new CoA besides home; each handler relates at most the CoA being
  left and the one being entered. The proofs are for any set.
* `MaxSeq` stops handovers once the sequence number has reached it (retransmissions go on): 2 or 3
  lets a MN register, move on, and come home, with a retransmission of each; bindings are
  replaced, refused and deregistered.
* `MaxInFlight` 2 or 3: enough for an old and a new BU to overtake each other, with a BA or BE of
  either on its way. A message over the bound is lost, which the network may do anyway; in
  `ReturnRoutability`, once losses have ended, a handler that would send waits instead.
* `MaxBindAckTimeout` 2 instead of 32 leaves one retransmission and the give-up; `Lifetime` 6
  outlasts that, as any lifetime above the sum of the back-off does.
* `SeqModulus` is the code's 2^16; the runs stay below the wrap (section 5).
* `NonceSlots` 1 with two nonces, one of them 0: either nonce of an entry may have left the ring when the
  BU arrives, or be none. In `rr_moves` the three cookies are as many as two messages in flight and a
  new test need, and `MaxSeq` 2 lets a second procedure begin with what the first has left.
  Its constraint `TestsOverlap` lets two messages be in flight only if both are of tests, where
  they are told apart by cookie and CoA, and drops `LossEnds`, which matters to `rr_liveness`
  alone; the theorems are about the unconstrained specification. Both may stop
  where the program ends, at the assertion of `sendBU`, hence `CHECK_DEADLOCK FALSE`.
* `arp_resolution`: a host and a router with proxy ARP, which resolve each other and an address
  behind the router; `MaxPackets` two packets of the host to each address (one to wait or be sent
  while another follows) and one of the router, which makes requests cross; `retryCount` 2 a
  repeated request and the give-up; `MaxInFlight` 2 a late answer beside another. The packets
  being finite, it ends, hence `CHECK_DEADLOCK FALSE`.
* `MaxTime` 600 s is two and a half rounds of the ring. The clock stops there, hence
  `CHECK_DEADLOCK FALSE`.
* `tcp_transfer`: sequence numbers modulo 16, initial ones 1 and 9, a window of 3 segments of one
  byte: 3 bytes are the fewest for duplicate acknowledgements, a gap and its filling. Two segments
  on the way to the server overtake each other; a retransmission and then the give-up. The
  numbers stay below the wrap, as the receive queue asserts there (section 5). `tcp_ends`: one byte each
  way, so that all of the commands fit. Both may stop when the applications have nothing more to do.
* `ar_resolution`: two addresses, one on a known interface and one looked for on both, of which one has no
  address at first; two solicitations and two packets each, so that a packet comes while the other waits,
  is released or is given up.
* `nd_hosts`: three hosts are the fewest with both a conflict of tokens and one of global addresses;
  two solicitations for a detection and for routers, so that something comes between them.
* `wlan_hidden`: the times of `wirelessethernet.cc` in units of 10 microseconds: SIFS 1, slot 2, DIFS 5, the
  turnaround of 5 microseconds rounded up to 1. A frame (4) and an acknowledgement (3) are shorter than
  any real one but keep what matters: a frame is longer than a slot, an acknowledgement longer than SIFS.
  A contention window of one slot, one retry and one frame from above per node give collisions,
  lost acknowledgements, duplicates and frames given up; a queue of one overflows when the access point
  forwards. It stops when all frames are sent.

### 3.2 Assumptions a configuration makes

* `Prompt` (`HomeRegistration`): a message arrives within the period it is sent in. Without it and
  without `Dwell`, `NoAbort` fails: a late BE erases the list entry before the last timeout
  asserts it.
* `Dwell` (`HomeRegistration`): the MN stays where it is until its messages have arrived. It is the
  condition under which the two ends agree: `AckedAgreement` needs it because the entry, once
  erased, starts again at sequence number 0, so that old and new BUs can carry the same number.
* `ReturnRoutability` assumes nothing of the movement or the nonces. Its properties name the mishap
  (2.3) without which the code keeps its promise, and section 5 says what each mishap does.
* `Patient` (`rr_liveness`): a test is not repeated while its message or answer is on its way, that
  is, the back-off exceeds a round trip. Without it a new cookie may for ever make the last answer
  obsolete, and no procedure need end.

### 3.3 Fairness

`HomeRegistration`: weak fairness of the retransmission timers, the two periods and the delivery
of messages. OMNeT++ executes every scheduled event, and a message that was not lost is one. Nothing makes
the MN move or send. `ReturnRoutability`: weak fairness of the two test timers, which are rescheduled
each time they fire, of delivery, and of `LossEnds`: the statement is about a network that at some
time stops losing messages. Expiry of entries is not assumed: a procedure ends without it.
`ARP`: weak fairness of each timeout, which the simulation kernel executes once it is scheduled;
nothing makes messages arrive. The same holds of `TCPConnection` and `AddressResolution`, whose
`TimersExpire` writes weak fairness out with what enables the timer. `NeighbourDiscovery` adds that what is sent
is heard: its link loses nothing. Neither applications nor routers need do anything.
`WirelessMAC`: weak fairness of `Event`, all that the kernel has scheduled, the passing of time
included; the upper layers need not send.

## 4. The proofs

All theorems are for any values of the constants that satisfy the `ASSUME`s of the module, any set
of links and any bound.

**HomeRegistrationProofs.** `IInv` is the conjunction of `TypeOK`, `RetransmissionCurrent`,
`DeferredCurrent`, `HomeIsHome`, `ReverseTunnelReady` and `TunnelForBinding`. None of the first
five is inductive alone: a BA clears `awayFromHome` when the timer it finds is a deregistration's,
so `HomeIsHome` needs `RetransmissionCurrent`; the deferred BU adds a timer and builds the tunnel
for the CoA it was bound to, so `RetransmissionCurrent` and `ReverseTunnelReady` need
`DeferredCurrent`, and the tunnel is built only if `away`, so `HomeIsHome`. One lemma per group of
actions shows each conjunct preserved; `Invariance` combines them, and a theorem per property
follows. `AssertionsHold` shows that of the three assertions only the one of `retransmitBU` can
fail. `NothingAborts` shows when that one holds too: with `Prompt`, and a `Lifetime` above
`4 * MaxBindAckTimeout - 4` (the sum of the back-off, with one period for each wait); its invariant
says of each timer that the entry outlasts what the timer still has to wait and to repeat
(`InTime`). `EndsAgree` is `AckedAgreement` under `Dwell`. `AgreementInv` adds to the property
that the BUs in flight and in `tmrs` are all of the registration in the entry (`OneRegistration`: the
same CoA and lifetime), that a deferred BU finds the network empty
(`DeferredQuiet`), and that the HA already holds what a BA in flight grants, for as long as
the MN counts on it (`GrantIsHeld`): it may arrive after the same BU, repeated,
has renewed the binding, or after a period of either end.

**NonceLifetimeProofs.** The invariant says what every slot holds (`RingContents`: the draw that
lies `Back(i)` draws back), how the clock counts draws (`Clock`), and when the token was handed out
relative to its draw (`TokenTimes`). From the ages, `TokenStaysGood` follows for every ring with
`MAX_TOKEN_LIFETIME <= (slots - 1) * period`, `TokenGetsSpent` for `slots * period <=
MAX_NONCE_LIFETIME`: the assumption of the module, which 8, 30, 210 and 240 meet with equality.

**ReturnRoutabilityProofs.** All theorems hold for any movement, any losses and any nonces, 0
included. `RRInv` adds to the type invariant: what the entry holds in each phase of the procedure,
as far as its mishaps let it hold that (`Phases`), that a test whose timer is off has no message in
flight that the entry would still accept (`Answers`), that a test has one message in flight
(`Unique`), `CareOfTested` and `AbortsAfterMishap`. `Phases` grades what is known: an entry that has
not `moved` tests its own CoA and holds a care-of nonce of no other; one that has neither `moved` nor
received a `zero` holds no nonce when idle, and in a procedure only those of the tests that have ended;
one without any mishap is, when idle, registered with the CoA in use. `Answers` and `Unique` are what
makes a CoT that arrives belong to the test that is being repeated. `RRInvariance` is the
invariant; `TokensAreSpent`, `CareOfIsTested`, `OptimisedIsFromCurrent` and `AbortsFollowMishaps`
follow.

**ARPProofs.** `IInv` says of every entry, with `SoundEntry`, that its timer is scheduled exactly
while it is pending, that only then packets wait, and that its MAC address, once resolved, is of a
host that answers for the address; the last needs the same of the messages in flight
(`TrueMessages`). `EntryStep` reduces a step to the one entry it changes. `StepImplements` maps every
step to a step of `NextHopQueues` or a stutter: that `SendPacket` overtakes nothing, and that the last
timeout has something to give up, are where `IInv` is needed; `Implements` is the safety part of the
refinement, and `OrderIsKept` follows from the steps of `NextHopQueues` alone.

**AddressResolutionProofs.** The list of timers is taken apart and put together again by every
handler, so the lemmas about lists come first: `InOrder` enumerates a set of positions
(`InOrderEnumerates`), and `Without` keeps the rest in order and number (`WithoutThins`).
`resolve` recurs over the interfaces; that the function it defines exists is `IterationExists`,
which, like `InOrderEnumerates`, rests on induction over the naturals in the form of sets
(`LeastNat`, `NatsBelow`, from the well-foundedness of `<`). `QueueInv` is `TypeOK` with
`QueueIsTimed` and `AnswersLinked` (an answer comes from a link that has an interface).
`PacketsHaveOneFate` needs `FateInv`: the numbers of the packets sent, queued, between forwarding
and the module, reported unreachable and dropped occur once each, are disjoint, and make up all that were
handed down; and `WideInv`: an entry or a packet with the interface -1, hence a packet that was
dropped, is there only for a destination that is on no known link of a host of several interfaces. `AnswersSettle` is `ReachableIsSettled` under `0 \notin NoAddrAtStart` (section 5 says
why). `SettleInv` says what the timers of a neighbour look like (`Shape`): none, one that is no
marker, or an unbroken run behind one marker. An answer erases the first timer and, if that is
a marker, all that follow it of the same neighbour: these are all there are.

**NeighbourDiscoveryProofs.** `HostsInv` is about each host alone: the groups it counts are those
of the addresses it uses or tests (`Matched`), an address is assigned or tentative and only a
tentative one is tested (`Apart`), nothing but the link-local address is tested before the
interface is initialised (`Fresh`). `TypeCorrect` and `GroupsAreMatched` follow. `AddressesAreUnique`
and `HeardIsQuiet` hold for `dupAddrDetectTrans > 0`; without detection neither does. `LinkInv`
is about two hosts and what is on the wire: a host that tests an address of another one will
still ask for it or hear the answer (`OwnerHeard`), and of two that test the same one, one will
still ask (`TestersMeet`). `QuietInv` is what the code never checks: at most one timer solicits
routers.

**TCPConnectionProofs.** Its relations and invariants are the definitions of `TCPConnectionInvariants`;
the proofs alone fill this module. A handler of TCP is a chain of functions on the connection block. Each is
described by a relation between the block before and after (`Sends`: segments and nothing else;
`Keeps`: text and FIN; `Acknowledges`; `Begins`, `Connects`, `Ends`, ...), which names only what the
invariant reads; the lemmas compose them along the calls, up to `Handles` for a segment that arrives.
`Moves` adds what the state machine then does with the event. `IInv` is `TypeInv`, `Sound` of
each block, and three facts about both ends: a FIN on its way ends what its sender was asked to send
(`FinsInNet`), in CLOSING the peer's FIN was received or is remembered as early (`FinReceived`), and
`TimerErrors`. `Sound` says in which states each timer may run, what was sent in a handshake
(`OnlySyn`), and that outstanding data is timed but for a SYN or a lone FIN (`Timed`).
`TypeCorrect`, `TimedAlways` and `TimerErrorsAlways` follow for every size of the sequence number space, every
initial number and whatever is sent. `FinReceived` is what makes `TimerErrors` inductive: the
2MSL timer can be running in CLOSING only when a FIN arrives there, and a FIN that was already received is not
acceptable again.

`ErrorsFollowEarlyFin` is `ErrorsOnlyAfterEarlyFin` for connections on which what an application
writes, with SYN and FIN, stays below half of the space (`Fits`; the runs meet it). `Order` then
holds of every block past LISTEN: `snd_una`, `snd_max` and the ends of the send queue lie in
this order from the initial number, where the circular comparisons are those of the distances (`Compare`).
Beyond half of the space, `Written` no longer counts what was written and the comparison of the
queue's two ends no longer tells which comes first.

`StreamIsExact` and `AckedWasDelivered` are about both ends and what is between them. `Link` says of
each end that there is a description of the other one (`Far`: its initial number, how much it has
written, whether it has closed, how far it has received) which the other one bears out (`Offers`),
which what the end has received and had acknowledged agrees with (`Takes`), and to
which every segment on its way is true (`Comes`): a SYN carries that initial number, an
acknowledgement no more than what was received, text lies inside what was written, a FIN at its end. The
handlers get relations of the same kind as before: `Speaks` and `Hushed` send segments that are true
of the block they leave and receive nothing, `Whole` receives what `Comes`, and `Hears` is what a handler
may do to one end so that `Link` holds of both (`FinishLink`). Where they need to know
how numbers compare (is the segment's text new? does the acknowledgement cover the FIN?), `Order` from
`IInv` and `SamePlace` (two distances below half of the space that give the same number are
equal) turn the comparison into one of distances. The receive queue's part is that bytes join
`rcvd` only as an unbroken run from `rcv_nxt` (`FirstRegion`).
`LinkedAlways` is the invariant; `ExactAlways` and `DeliveredAlways` follow from it under `Fits` for the behaviours in which
no end uses a second initial sequence number (`Once`), and `ExactWithOneISS` and `DeliveredWithOneISS`
for all behaviours of ends that have one to choose, as those of the runs.
The condition is needed: a passive end whose handshake times out goes back to LISTEN and
chooses again, and with `ISS["server"] = {9, 10}` TLC shows the acknowledgement of the first SYN, number
10, being taken for that of the FIN of the second connection, which begins at 9 and whose FIN the
client never saw. In the code `selectInitialSeqNum` takes the number from the clock (`TCPConnectionUtil.cc:302`), which
keeps successive ones apart by the time between them.

**WirelessMACProofs.** `NodesInv` says of a node (`Good`) which timers run in which state, what the
queue holds there, and that the frame being received is the only one in the air; and that what is on
the wire was sent in this instant (`WireRight`), so that a node does not send again before its
last signal has arrived. `AssertionsHold` follows. `AirInv` counts: `rx` is the number of nodes
(`Audible`) of whose frame the node has heard the start and not the end, and a start on its way is
its sender's only signal to that node; `MediumIsSensed` is then a statement about cardinalities.

`AcksMeanReceived` and `OrderIsKept` are about two nodes and the time between them. Every step but
`Tick` is a `Flow`: what the others are left with, what may begin to be heard, to be received, to be
passed up and to be taken for acknowledged (`StepFlows`). `Delivery` says that a node's
frames carry numbers below its next one, in the order of its queue (`Owning`); that a frame that is
being received is the one its sender is still sending, or has just sent (`Starting`, `Coming`);
that the node which will be acknowledged cannot take its turn before that acknowledgement starts,
and if it already waits for one, the frame it waits with was received (`AckDue`, `AckIn`); and
that what `seen` remembers was passed up (`SeenIn`). `AckMeansReceived` is not inductive without `AckDue`: an
acknowledgement names its destination and no frame, and it would be believed by a sender that
has since begun with another one. The module assumes `SIFS < DIFS`, which the code has as 10
and 50 microseconds (`wirelessethernet.cc:38`): with the two equal, a node could send its next frame
before the acknowledgement of the last one. `Order` adds that what was received lies
behind what its sender has still to send, or is its first frame and remembered (`Past`), and that
what is being received comes after it or is a repetition of it (`Newer`).
Both theorems are of behaviours in which no node's numbers have come round to 0 (`Unwrapped`: a node may number
4094 frames): they are taken modulo 4096, `got` then no longer increases, and a receiver
takes the repetition of a frame numbered 0 for one that it already has, if it has heard nothing else from the node. The runs stay far below.

Only model-checked: the liveness properties and the fairness of the refinement (fairness and
ENABLED are out of the prover's reach). The models declare no RECURSIVE operator.

## 5. Where code, comments and assertions disagree

One disagreement has a run, which shows it by a shortest trace, and an entry under "findings":

`tcp_retransmit`: `retransmitData` (`TCPConnectionUtil.cc:576`) sends `snd_max - snd_una` bytes. A FIN that has
been sent counts in `snd_max`, so that a byte is asked for that the send queue does not have, and its
`ASSERT` (`TCPVirtualDataSendQueue.cc:61`) fails. The other TCP runs stop at that assertion.

The rest was met while modelling, and has no run of its own. What the models contain can be reproduced with
another configuration; the rest lies in code that they leave out.

Mobile IPv6:

* `lessThanEqualsModulo` (`opp_utils.cc:248`) claims modulo arithmetic, but does not reduce: the HA
  refuses the BU that follows number 65535 (`SeqModulus` and `MaxSeq` at the wrap).
* A handover between CoT and HoT starts no new test (`MIPv6MStateMobileNode.cc:891`, "rr should already have been
  done"); the BU for the new CoA carries the nonce of the old one's test. This is the exception of
  `CareOfTested`, which fails without its `"moved"`.
* A MN that comes home while a procedure is going on, or with a nonce left, calls `sendBU` with a timer
  scheduled, and `assert(!bule->isPerformingRR())` fails. `AbortsAfterMishap` says that nothing but this
  and the next brings it about.
* A nonce may be drawn as 0 (`MIPv6MStateCorrespondentNode.cc:85`), which stands for none. A HoT or CoT with it ends
  its test, and the procedure ends without a BU; the other nonce stays in the entry, and a later
  return home finds it and calls `sendBU` while the home test is scheduled.
* `retransmitBU` asserts that the list entry exists at the last timeout
  (`MIPv6MStateMobileNode.cc:192`), but the entry's lifetime runs whether or not the BU was
  acknowledged; with `Lifetime = 3`, below the sum of the back-off, `NoAbort` fails.
* A BA that says that nonces are not recognized carries sequence number 0 and is ignored, so the
  entry of the refused BU stays (`MIPv6MStateMobileNode.cc:580` says "Remove entry from BUL if BU
  failed").
* `relinquishRouter` clears the timer of the BU that the same handover has just sent and sets
  `state` to 0, which `MIPv6MNEntry.h:335` calls "a BA was received"; such a BU is never repeated.
* A BA with status "sequence number out of window" that carries the entry's own number removes the
  timer and leaves the BU outstanding (`MIPv6MNEntry.h:334` leaves it to the timer). It is given up
  when the entry expires, which is what `OutstandingResolved` shows.
* A handover within 1/3 s of a BU starts no test and nothing starts it later: packets leave with the old
  CoA until the next handover, binding error or expiry. This is the `early` mishap, which
  `OptimisedFromCurrent` excepts; it is over once a procedure has ended with a BU.
* A handover during a procedure leaves the CoTI of the previous CoA scheduled: `sendInits` returns before
  the code that would cancel it. The test is repeated, and its answers, to an address the MN no longer has,
  never arrive, so that the procedure need not end (`ProcedureEnds` excepts `moved`).
* When a binding expires at the HA (`MIPv6CDS.cc:128`), its tunnel and the destination entry of the home address
  stay.
* The back-off of a test is squared (`MIPv6MNEntry.h:397`): 1, 2, 4, 16, 256 s. It steps over the
  32 s at which it should stop.
* With only a CN's entry in the list, `sendBUToAll` (`MIPv6MStateMobileNode.cc:705`) takes the branch of a
  list that holds a home registration.

ARP:

* `addressRecognized` (`ARP.cc:317`) compares the input port with -1 where "if we can route this packet"
  needs the route's port, so a router with proxy ARP answers for addresses it has no route to.

TCP:

* A FIN that overtakes data moves ESTABLISHED to CLOSE_WAIT, where text is not processed any
  more: the data before it is never passed up and the FIN never signalled. Timers then expire in states that do
  not expect them, which is why `ErrorsOnlyAfterEarlyFin` has its exception.
* A FIN without outstanding data is never retransmitted. Neither the FIN-WAIT-2 nor the PERSIST timer is
  ever scheduled, so a connection may stay half closed, or wait for a window, for ever.
* In CLOSING, a segment with both an ACK of the FIN and a FIN starts the 2MSL timer, and then the FIN replaces
  the event that would lead to TIME_WAIT; the timer expires in CLOSING, an internal error.
* The answer to a SYN at a closed port acknowledges the SYN's number, not the next; the client in
  SYN_SENT finds the number wrong and does not take it for a refusal.
* Simultaneous open leaves `snd_wnd` 0; a FIN in SYN_RCVD leads to CLOSE_WAIT without the application being
  told of the connection.
* `extractTo` of the receive queue asserts `begin < end` with a plain comparison (`TCPVirtualDataRcvQueue.cc:148`),
  which fails for a region across the wrap.

Address resolution and neighbour discovery:

* With an interface 0 that has no address, the first timer reports the packets as unreachable before the other
  interfaces have asked (`NoAddrAtStart = {0}`), and its marker is gone. An answer then stops one of the timers that
  are left; another forgets the neighbour that has answered (`ReachableIsSettled` fails).
* A host with a default router that is asked to resolve an address without an entry, other than the router's, reads
  `addrResInfo` (`AddressResolution.cc:204`), which it has deleted and set to 0 before.
* An entry completed by a solicitation keeps interface -1 if all interfaces were asked
  (`AddressResolution.cc:538`), against the comment at `IPv6Forward.cc:185`. The packets that wait are sent
  where the solicitation came from, but every later one passes for a tunnelled packet
  (`IPv6Forward.cc:289`), finds no such tunnel and is dropped with a warning (`IPv6Encapsulation.cc:306`): nobody is
  told that it is unreachable. `OneFate` counts these as `dropped` and says that there are no others. A packet that
  was on its way to the module when its neighbour solicited goes to output port -1, which the kernel
  does not have (`crashed`). With Mobile IPv6 (and not HMIPv6) on, an assertion fails first (`IPv6Send.cc:245`).
* A router that is withdrawn or times out leaves its destination entry; when it comes back,
  `assert` at `INeighbourCache.cc:87` fails. One withdrawn by a lifetime of 0 also leaves a freed pointer in the
  list of expiring routers (`RoutingTable6.h:215`). A lifetime of 0 from a router that the host does not know
  dereferences a null pointer, the neighbour entry that was not found (`NDStateHost.cc:763-778`). `crashed`
  models all three; the properties speak of what happens before.
* With `dupAddrDetectTrans = 0` and addresses given by hand, each address starts a router
  solicitation timer, and an advertisement stops one of them. A tentative address that
  shares a group with one that is tested fails `assert(removed)` (`NDStateHost.cc:1150`).
* `processRtrAd` refreshes lifetimes in a copy of the prefix entry; `invalidateAddresses` skips the
  element after one it erases; the test in `elapseLifetimes` is inverted; `removeTentativeAddress` reads
  through an iterator after it deleted what it points to; `MIPv6NDStateHost.cc:595` uses `missedTmr`, which may be null.
* `ExpiryEntryListSignal.h`: `reschedule` (277) reads `front()` of a list that may be empty, and
  `removeExpiredEntry` (303) calls the owner back before it removes the entry.

IEEE 802.11:

* A station does not acknowledge a frame that it has already (`WirelessEtherDataReceiveMode.cc:286`), while the
  access point acknowledges every one. A delivered frame whose acknowledgement was lost is
  thus retried to the limit and counted as failed; `AckMeansReceived` holds only in its direction.

## 6. Plan

In this order; each module with its runs, then its proofs.

1. Proofs: that `AddressResolution` implements a version of `NextHopQueues` without the order,
   which it does not keep.
2. 802.11 scanning, authentication and association with the expiry of the access point's entries, on top of `WirelessMAC`;
   half-duplex Ethernet with back-off and pause.
3. `FragmentBuffer`, checked against the set of bytes received: small, with full proofs.
4. `ExpiryList`, composed with an owner whose callback erases or adds entries; the passive queues
   and the switch's address table.
5. `MovementDetection`: router list, missed advertisements, and the handovers it calls.
6. `BindingUpdateList`: home registration and return routability in one list (for `sendBUToAll`
   with only a CN's entry); an abstract registration, implemented by `HomeRegistration`.
7. MLD, HMIPv6.

### Not modelled

Message formats, XML configuration, topology and address assignment, geometry, radio
propagation, statistics, graphical output: pure computation or input and output, with unit tests or
without state. The simulation kernel is external. Much of the repository's C++ is of that kind, or is generated
(`datasorter_wrap.cc`), vendored (`boost/circular_buffer`) or a class that only stores and prints its
fields; what a model can say something about is the handlers of the protocols, and of these the
modules here take the ones where order, loss and time matter most.
