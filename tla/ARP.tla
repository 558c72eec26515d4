---------------------------------- MODULE ARP ----------------------------------
(***************************************************************************)
(* The Address Resolution Protocol of the hosts of one Ethernet,           *)
(* Network/ARP/ARP.cc.  A host stands for its MAC address.  Requests are   *)
(* broadcast, one copy for each other host; every copy and every reply may *)
(* be lost, delayed and overtaken.  Timers may expire at any time.         *)
(*                                                                         *)
(* Left out: interfaces that are not broadcast and multicast packets,      *)
(* which bypass the cache, other ports of a host, RARP, statistics.        *)
(***************************************************************************)
EXTENDS Naturals, Sequences, FiniteSets

CONSTANTS
  Host,         \* the hosts, and their MAC addresses
  Addr,         \* IP addresses
  None,         \* no cache entry, no MAC address
  AddrOf,       \* the address of each host on this Ethernet
  Local,        \* the addresses each host takes for its own (RoutingTable::localDeliver)
  Route,        \* where each host's routing table sends each address
  ProxyHost,    \* the hosts with doProxyARP
  retryCount,   \* how many requests are sent
  MaxPackets,   \* bound: packets that a host sends to each address, per host
  MaxInFlight   \* bound: the network holds at most this many messages

ASSUME ParamAssumption ==
  /\ AddrOf \in [Host -> Addr]
  /\ Local \in [Host -> SUBSET Addr]
  /\ \A h \in Host : AddrOf[h] \in Local[h]
  /\ Route \in [Host -> [Addr -> {"lan", "other", "none"}]]
  /\ None \notin Host
  /\ ProxyHost \subseteq Host
  /\ retryCount \in Nat
  /\ MaxPackets \in [Host -> Nat]
  /\ MaxInFlight \in Nat

Channel == Host \X Addr

VARIABLES
  arpCache,   \* per host and address, the cache entry or None
  timers,     \* per host, the addresses with an "ARP timeout" scheduled for their entry
  msgs,       \* the ARP packets in flight, each with the host that receives it
  handed,     \* history: how many packets each channel was handed
  sent        \* history: the packets sent to the NIC, in this order

vars == <<arpCache, timers, msgs, handed, sent>>

\* stale: lastUpdate is more than cacheTimeout ago.
Entry == [pending : BOOLEAN, macAddress : Host \cup {None}, stale : BOOLEAN,
          numRetries : Nat, pendingPackets : Seq(Nat)]

ASSUME NoneAssumption == None \notin Entry

ARPPacket == [opcode : {"REQUEST", "REPLY"}, srcMAC : Host, srcIP : Addr,
              destIP : Addr, to : Host]

-----------------------------------------------------------------------------

\* Proxy ARP answers for what is not routed back to where the question came from.
addressRecognized(h, a) == a \in Local[h] \/ (h \in ProxyHost /\ Route[h][a] # "lan")

\* The messages `rest' stay in flight, and of the messages in ms some are lost.
Send(rest, ms) ==
  \E kept \in SUBSET ms : /\ kept # {} => Cardinality(rest \cup kept) <= MaxInFlight
                          /\ msgs' = rest \cup kept

sendARPRequest(h, a) ==
  Send(msgs, [opcode : {"REQUEST"}, srcMAC : {h}, srcIP : {AddrOf[h]}, destIP : {a},
              to : Host \ {h}])

\* A packet that the network layer routes to this Ethernet, with next hop a.
HandDown(h, a) ==
  /\ a \notin Local[h] /\ Route[h][a] = "lan"
  /\ handed[<<h, a>>] < MaxPackets[h]
  /\ handed' = [handed EXCEPT ![<<h, a>>] = @ + 1]

\* The new packet in the entry of h for a, whose resolution begins.
initiateARPResolution(h, a, mac) ==
  /\ arpCache' = [arpCache EXCEPT ![h][a] =
       [pending |-> TRUE, macAddress |-> mac, stale |-> FALSE, numRetries |-> 0,
        pendingPackets |-> <<handed[<<h, a>>] + 1>>]]
  /\ timers' = [timers EXCEPT ![h] = @ \cup {a}]
  /\ sendARPRequest(h, a)
  /\ UNCHANGED sent

\* processOutboundPacket: there is no entry, or it has expired.
ResolveForPacket(h, a) ==
  /\ HandDown(h, a)
  /\ \/ arpCache[h][a] = None /\ initiateARPResolution(h, a, None)
     \/ /\ arpCache[h][a] # None /\ ~ arpCache[h][a].pending /\ arpCache[h][a].stale
        /\ initiateARPResolution(h, a, arpCache[h][a].macAddress)

\* processOutboundPacket: the address is being resolved.
QueuePacket(h, a) ==
  /\ HandDown(h, a)
  /\ arpCache[h][a] # None /\ arpCache[h][a].pending
  /\ arpCache' = [arpCache EXCEPT ![h][a].pendingPackets = Append(@, handed[<<h, a>>] + 1)]
  /\ UNCHANGED <<timers, msgs, sent>>

\* Mutant: pending is not looked at.
SendPacket_Pending(h, a) ==
  /\ HandDown(h, a)
  /\ arpCache[h][a] # None /\ ~ arpCache[h][a].stale
  /\ sent' = [sent EXCEPT ![<<h, a>>] = Append(@, handed[<<h, a>>] + 1)]
  /\ UNCHANGED <<arpCache, timers, msgs>>

\* processOutboundPacket: the cache has the MAC address.
SendPacket(h, a) ==
  /\ HandDown(h, a)
  /\ arpCache[h][a] # None /\ ~ arpCache[h][a].pending /\ ~ arpCache[h][a].stale
  /\ sent' = [sent EXCEPT ![<<h, a>>] = Append(@, handed[<<h, a>>] + 1)]
  /\ UNCHANGED <<arpCache, timers, msgs>>

\* cacheTimeout passes since the last update of a resolved entry.
CacheTimeout(h, a) ==
  /\ arpCache[h][a] # None /\ ~ arpCache[h][a].pending /\ ~ arpCache[h][a].stale
  /\ arpCache' = [arpCache EXCEPT ![h][a].stale = TRUE]
  /\ UNCHANGED <<timers, msgs, handed, sent>>

\* The timer of the entry expires: another request, or the entry is thrown out with
\* the packets that wait.
requestTimedOut(h, a) ==
  /\ a \in timers[h]
  /\ \/ /\ arpCache[h][a].numRetries + 1 < retryCount
        /\ arpCache' = [arpCache EXCEPT ![h][a].numRetries = @ + 1]
        /\ sendARPRequest(h, a)
        /\ UNCHANGED timers
     \/ /\ arpCache[h][a].numRetries + 1 >= retryCount
        /\ arpCache' = [arpCache EXCEPT ![h][a] = None]
        /\ timers' = [timers EXCEPT ![h] = @ \ {a}]
        /\ UNCHANGED msgs
  /\ UNCHANGED <<handed, sent>>

\* What waits in the entry of h for a.
Waiting(h, a) == IF arpCache[h][a] = None THEN <<>> ELSE arpCache[h][a].pendingPackets

Resolved(mac) == [pending |-> FALSE, macAddress |-> mac, stale |-> FALSE, numRetries |-> 0,
                  pendingPackets |-> <<>>]

\* Mutant: the timer is left running.
updateARPCache_Timer(h, a, mac) ==
  /\ arpCache' = [arpCache EXCEPT ![h][a] = Resolved(mac)]
  /\ sent' = [sent EXCEPT ![<<h, a>>] = @ \o Waiting(h, a)]
  /\ UNCHANGED timers

\* Mutant: what waits is sent and stays in the entry.
updateARPCache_Kept(h, a, mac) ==
  /\ arpCache' = [arpCache EXCEPT ![h][a] =
                   [Resolved(mac) EXCEPT !.pendingPackets = Waiting(h, a)]]
  /\ sent' = [sent EXCEPT ![<<h, a>>] = @ \o Waiting(h, a)]
  /\ timers' = [timers EXCEPT ![h] = @ \ {a}]

\* The entry of h for a, new or not, gets the MAC address; what waits is sent.
updateARPCache(h, a, mac) ==
  /\ arpCache' = [arpCache EXCEPT ![h][a] = Resolved(mac)]
  /\ sent' = [sent EXCEPT ![<<h, a>>] = @ \o Waiting(h, a)]
  /\ timers' = [timers EXCEPT ![h] = @ \ {a}]

\* Mutant: the sender's MAC address is not replaced.
Reply_SenderMAC(h, m) == [opcode |-> "REPLY", srcMAC |-> m.srcMAC, srcIP |-> m.destIP,
                          destIP |-> m.srcIP, to |-> m.srcMAC]

\* The request turned round.
Reply(h, m) == [opcode |-> "REPLY", srcMAC |-> h, srcIP |-> m.destIP, destIP |-> m.srcIP,
                to |-> m.srcMAC]

\* A packet updates the entry of its sender; one for an address the host answers for
\* makes an entry, and is answered if it is a request.
processARPPacket(m) ==
  LET h == m.to
      recognized == addressRecognized(h, m.destIP)
  IN
  /\ IF arpCache[h][m.srcIP] # None \/ recognized
     THEN updateARPCache(h, m.srcIP, m.srcMAC)
     ELSE UNCHANGED <<arpCache, timers, sent>>
  /\ IF recognized /\ m.opcode = "REQUEST"
     THEN Send(msgs \ {m}, {Reply(h, m)})
     ELSE msgs' = msgs \ {m}
  /\ UNCHANGED handed

-----------------------------------------------------------------------------

Init ==
  /\ arpCache = [h \in Host |-> [a \in Addr |-> None]]
  /\ timers = [h \in Host |-> {}]
  /\ msgs = {}
  /\ handed = [c \in Channel |-> 0]
  /\ sent = [c \in Channel |-> <<>>]

Outbound(h, a) == ResolveForPacket(h, a) \/ QueuePacket(h, a) \/ SendPacket(h, a)

Next == \/ \E h \in Host, a \in Addr : \/ Outbound(h, a)
                                       \/ CacheTimeout(h, a)
                                       \/ requestTimedOut(h, a)
        \/ \E m \in msgs : processARPPacket(m)

Spec == Init /\ [][Next]_vars

\* A timer that is scheduled expires; messages need not arrive.
FairSpec == Spec /\ \A h \in Host, a \in Addr : WF_vars(requestTimedOut(h, a))

-----------------------------------------------------------------------------

\* The type of every variable; a resolution has sent at most retryCount requests.
TypeOK ==
  /\ arpCache \in [Host -> [Addr -> Entry \cup {None}]]
  /\ \A h \in Host, a \in Addr :
       arpCache[h][a] # None => arpCache[h][a].numRetries = 0 \/ arpCache[h][a].numRetries < retryCount
  /\ timers \in [Host -> SUBSET Addr]
  /\ msgs \subseteq ARPPacket
  /\ handed \in [Channel -> Nat]
  /\ sent \in [Channel -> Seq(Nat)]

\* A timeout message points to a cache entry, and requestTimedOut uses it unchecked:
\* it is scheduled exactly while the entry exists and is pending, whichever of the
\* answer, a request of the same neighbour and the last timeout comes first, and
\* only then do packets wait.
TimerMatchesEntry ==
  \A h \in Host, a \in Addr :
    /\ a \in timers[h] <=> arpCache[h][a] # None /\ arpCache[h][a].pending
    /\ arpCache[h][a] # None => (arpCache[h][a].pending <=> arpCache[h][a].pendingPackets # <<>>)

\* A resolved entry names a host that answers for the address, though entries are
\* made and changed by requests, replies and requests to others, in any order.
RightMAC ==
  \A h \in Host, a \in Addr :
    arpCache[h][a] # None /\ ~ arpCache[h][a].pending =>
      /\ arpCache[h][a].macAddress # None
      /\ addressRecognized(arpCache[h][a].macAddress, a)

\* Packets for a next hop wait and are sent in order or given up, and none waits for
\* ever: the promise of NextHopQueues.
Queues == INSTANCE NextHopQueues WITH
            waiting <- [c \in Channel |-> Waiting(c[1], c[2])]

ImplementsQueues == Queues!FairSpec

\* No packet overtakes an earlier one for the same next hop, in the cache or past it, or
\* is sent twice.
PacketsInOrder == Queues!InOrder
=============================================================================
