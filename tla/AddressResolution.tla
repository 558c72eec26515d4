--------------------------- MODULE AddressResolution ---------------------------
(***************************************************************************)
(* Address resolution of an IPv6 host, Network/ICMPv6/AddressResolution.cc *)
(* with the neighbour entries of NDEntry.cc and the conceptual sending of  *)
(* IPv6/RoutingTable6.cc that feeds it.  Neighbours answer, or not, with   *)
(* any delay, and ask for addresses themselves at any time.                *)
(*                                                                         *)
(* Left out: entries made by router advertisements and redirects, packets  *)
(* for destinations behind a router, the choice of a source address (a     *)
(* packet comes with one), Mobile IPv6, optimistic DAD, statistics.        *)
(***************************************************************************)
EXTENDS Integers, Sequences, FiniteSets, SequencesExt

CONSTANTS
  Nbr,                    \* addresses that packets are sent to
  LLAddr,                 \* link-layer addresses
  numInterfaceGates,      \* interfaces are 0 .. numInterfaceGates - 1
  OnLink,                 \* the interface of the prefix that covers an address, or NoIface
  LinkOf,                 \* the interface where a neighbour has the address, or NoIface
  UINT_MAX,               \* the ifIndex that asks for all interfaces
  NoIface,
  None,                   \* no entry, no link-layer address
  NoAddrAtStart,          \* the interfaces without an address at first
  MAX_MULTICAST_SOLICIT,  \* solicitations on an interface
  MaxPackets,             \* bound: packets to an address
  MaxAdverts              \* bound: solicited advertisements in flight

Iface == 0 .. numInterfaceGates - 1

Entry == [state : {"INCOMPLETE", "REACHABLE", "STALE"}, ll : LLAddr \cup {None},
          ifIndex : Iface \cup {UINT_MAX}]

ASSUME ParamAssumption ==
  /\ numInterfaceGates \in Nat \ {0}
  /\ UINT_MAX \notin Iface /\ NoIface \notin Iface /\ NoIface # UINT_MAX
  /\ OnLink \in [Nbr -> Iface \cup {NoIface}]
  /\ LinkOf \in [Nbr -> Iface \cup {NoIface}]
  /\ None \notin LLAddr \cup Entry
  /\ NoAddrAtStart \subseteq Iface
  /\ MAX_MULTICAST_SOLICIT \in Nat \ {0}
  /\ MaxPackets \in Nat /\ MaxAdverts \in Nat

VARIABLES
  ne,        \* per address, the entry its destination entry leads to, or None
  ppq,       \* per address, the packets that wait, as they came
  tmrs,      \* the list of timers; one for UINT_MAX is a marker that is never scheduled
  addrs,     \* the interfaces that have an address assigned
  settled,   \* simTime() > 5
  router,    \* there is a default router
  transit,   \* packets on their way from the forwarding to this module
  adverts,   \* solicited neighbour advertisements in flight
  crashed,
  handed,    \* history: packets sent to each address
  sent,      \* history: packets sent on, in this order
  unreached, \* history: packets reported as unreachable
  dropped    \* history: packets neither sent on nor reported, for want of an interface

vars == <<ne, ppq, tmrs, addrs, settled, router, transit, adverts, crashed, handed, sent,
          unreached, dropped>>

Timer == [targetAddr : Nbr, ifIndex : Iface \cup {UINT_MAX}, counter : 0 .. MAX_MULTICAST_SOLICIT]

Packet == [nextHop : Nbr, ifIndex : Iface \cup {UINT_MAX}, number : 1 .. MaxPackets]

Advert == [src : Nbr, ll : LLAddr, override : BOOLEAN]

-----------------------------------------------------------------------------

\* RoutingTable6::conceptualSending for an on-link destination: where the packet goes.
NextHopIface(t) ==
  IF ne[t] # None THEN ne[t].ifIndex
  ELSE IF OnLink[t] # NoIface THEN OnLink[t]
  ELSE IF numInterfaceGates > 1 THEN UINT_MAX ELSE 0

Resolved(t) == ne[t] # None /\ ne[t].state # "INCOMPLETE"

\* A packet to t, whose entry has a link-layer address: it is sent at once.  An entry
\* without an interface passes for a tunnel, and the packet is dropped because there
\* is no such tunnel (IPv6Encapsulation).
SendAtOnce(t) ==
  /\ handed[t] < MaxPackets /\ Resolved(t)
  /\ handed' = [handed EXCEPT ![t] = @ + 1]
  /\ \/ /\ ne[t].ifIndex # UINT_MAX
        /\ sent' = [sent EXCEPT ![t] = Append(@, handed[t] + 1)]
        /\ UNCHANGED dropped
     \/ /\ ne[t].ifIndex = UINT_MAX
        /\ dropped' = [dropped EXCEPT ![t] = @ \cup {handed[t] + 1}]
        /\ UNCHANGED sent
  /\ UNCHANGED <<ne, ppq, tmrs, addrs, settled, router, transit, adverts, crashed, unreached>>

\* A packet to t is given to address resolution.
SendPending(t) ==
  /\ handed[t] < MaxPackets /\ ~ Resolved(t)
  /\ ne[t] # None \/ OnLink[t] # NoIface \/ ~ router
  /\ transit = <<>>
  /\ handed' = [handed EXCEPT ![t] = @ + 1]
  /\ transit' = Append(transit, [nextHop |-> t, ifIndex |-> NextHopIface(t), number |-> handed[t] + 1])
  /\ UNCHANGED <<ne, ppq, tmrs, addrs, settled, router, adverts, crashed, sent, unreached,
                 dropped>>

-----------------------------------------------------------------------------

\* The part of the state that the functions of the module change, and the interfaces
\* on which they send a solicitation.
Now == [ne |-> ne, ppq |-> ppq, tmrs |-> tmrs, unreached |-> unreached, asked |-> {}]

IsMarker(tmr) == tmr.ifIndex = UINT_MAX

\* A set of numbers in their order, and the list ts without the places in gone.
InOrder(S) == [k \in 1 .. Cardinality(S) |-> CHOOSE i \in S : Cardinality({j \in S : j <= i}) = k]
Without(ts, gone) ==
  LET left == InOrder(DOMAIN ts \ gone)
  IN  [k \in 1 .. Cardinality(DOMAIN ts \ gone) |-> ts[left[k]]]

\* Mutant: the packets stay in the queue.
failedAddrRes_Queue(s, t, own) ==
  LET others == {k \in DOMAIN s.tmrs : k # own /\ s.tmrs[k].targetAddr = t}
      markers == {k \in others : IsMarker(s.tmrs[k])}
      finalTimer == markers = others
  IN  [s EXCEPT !.tmrs = Without(@, {own} \cup IF finalTimer THEN markers ELSE {}),
                !.ne[t] = IF finalTimer /\ settled THEN None ELSE @,
                !.unreached[t] = IF finalTimer THEN @ \cup Range(s.ppq[t]) ELSE @]

\* The resolution of t has failed on one interface.  own is the place of its timer, 0
\* for one that is not in the list yet: *thisTmr then reads past the end, and finds
\* something else than that timer.  Only the last timer of the resolution takes the
\* marker with it, forgets the neighbour and reports the packets.
failedAddrRes(s, t, own) ==
  LET others == {k \in DOMAIN s.tmrs : k # own /\ s.tmrs[k].targetAddr = t}
      markers == {k \in others : IsMarker(s.tmrs[k])}
      finalTimer == markers = others
      startRemove == {k \in markers : \A j \in markers : j <= k}
  IN  [s EXCEPT !.tmrs = Without(@, {own} \cup IF finalTimer THEN startRemove ELSE {}),
                !.ne[t] = IF finalTimer /\ settled THEN None ELSE @,
                !.unreached[t] = IF finalTimer THEN @ \cup Range(s.ppq[t]) ELSE @,
                !.ppq[t] = IF finalTimer THEN <<>> ELSE @]

\* sendNgbrSol for a new timer: an interface without an address cannot ask.
FirstNgbrSol(s, t, i) ==
  IF i \in addrs
  THEN [s EXCEPT !.tmrs = Append(@, [targetAddr |-> t, ifIndex |-> i, counter |-> 1]),
                 !.asked = @ \cup {i}]
  ELSE failedAddrRes(s, t, 0)

\* On one interface, or on all of them in turn behind a marker.
initiateNgbrSol(s, t, i) ==
  LET marker == [targetAddr |-> t, ifIndex |-> UINT_MAX, counter |-> 0]
      after[k \in 0 .. numInterfaceGates] ==
        IF k = 0 THEN [s EXCEPT !.tmrs = Append(@, marker)]
                 ELSE FirstNgbrSol(after[k - 1], t, k - 1)
  IN  IF i = UINT_MAX THEN after[numInterfaceGates] ELSE FirstNgbrSol(s, t, i)

\* What the functions leave, and the neighbour's answer when the solicitation and it
\* are not lost.
Becomes(s, t) ==
  /\ ne' = s.ne /\ ppq' = s.ppq /\ tmrs' = s.tmrs /\ unreached' = s.unreached
  /\ \/ adverts' = adverts
     \/ /\ LinkOf[t] \in s.asked
        /\ \E a \in Advert : /\ a.src = t
                             /\ adverts' = adverts \cup {a}
        /\ Cardinality(adverts') <= MaxAdverts

-----------------------------------------------------------------------------

\* handleMessage, a packet that waits for an address.  The first one to wait starts a
\* resolution, unless the address has been resolved while the packet was on its way:
\* then it is sent, and an entry without an interface ends the program, which has no
\* such output port.  With a default router and no entry for the address, addrResInfo is
\* used after it was deleted and set to 0.
PacketPends ==
  /\ transit # <<>>
  /\ LET p == Head(transit)
         t == p.nextHop
         queued == [Now EXCEPT !.ppq[t] = Append(@, p.number)]
         entry == IF ne[t] # None THEN ne[t]
                  ELSE [state |-> "INCOMPLETE", ll |-> None, ifIndex |-> p.ifIndex]
     IN  \/ /\ Len(queued.ppq[t]) > 1
            /\ ppq' = queued.ppq
            /\ UNCHANGED <<ne, tmrs, adverts, crashed, sent, unreached, dropped>>
         \/ /\ Len(queued.ppq[t]) = 1 /\ ne[t] = None /\ router
            /\ ppq' = queued.ppq
            /\ crashed' = TRUE
            /\ UNCHANGED <<ne, tmrs, adverts, sent, unreached, dropped>>
         \/ /\ Len(queued.ppq[t]) = 1 /\ ~ (ne[t] = None /\ router)
            /\ entry.state # "INCOMPLETE" /\ entry.ifIndex # UINT_MAX
            /\ sent' = [sent EXCEPT ![t] = Append(@, p.number)]
            /\ UNCHANGED <<ne, ppq, tmrs, adverts, crashed, unreached, dropped>>
         \/ /\ Len(queued.ppq[t]) = 1 /\ ~ (ne[t] = None /\ router)
            /\ entry.state # "INCOMPLETE" /\ entry.ifIndex = UINT_MAX
            /\ dropped' = [dropped EXCEPT ![t] = @ \cup {p.number}]
            /\ crashed' = TRUE
            /\ UNCHANGED <<ne, ppq, tmrs, adverts, sent, unreached>>
         \/ /\ Len(queued.ppq[t]) = 1 /\ ~ (ne[t] = None /\ router)
            /\ entry.state = "INCOMPLETE"
            /\ Becomes(initiateNgbrSol([queued EXCEPT !.ne[t] = entry], t, p.ifIndex), t)
            /\ UNCHANGED <<sent, crashed, dropped>>
  /\ transit' = Tail(transit)
  /\ UNCHANGED <<addrs, settled, router, handed>>

\* Mutant: one solicitation too many.
Timeout_OneMore(k) ==
  LET tmr == tmrs[k] IN
  /\ ~ IsMarker(tmr)
  /\ Becomes(IF tmr.counter <= MAX_MULTICAST_SOLICIT
             THEN [Now EXCEPT !.tmrs[k].counter = @ + 1, !.asked = {tmr.ifIndex}]
             ELSE failedAddrRes(Now, tmr.targetAddr, k), tmr.targetAddr)
  /\ UNCHANGED <<addrs, settled, router, transit, crashed, handed, sent, dropped>>

\* sendNgbrSol when the k-th timer expires: another solicitation, or it has failed.
Timeout(k) ==
  LET tmr == tmrs[k] IN
  /\ ~ IsMarker(tmr)
  /\ Becomes(IF tmr.counter < MAX_MULTICAST_SOLICIT
             THEN [Now EXCEPT !.tmrs[k].counter = @ + 1, !.asked = {tmr.ifIndex}]
             ELSE failedAddrRes(Now, tmr.targetAddr, k), tmr.targetAddr)
  /\ UNCHANGED <<addrs, settled, router, transit, crashed, handed, sent, dropped>>

\* Mutant: the queued packets are sent only when the entry was incomplete, as the code
\* did once.
NAUpdate_Incomplete(e, ll, solicited, override) ==
  LET other == ll # e.ll IN
  IF e.state = "INCOMPLETE"
  THEN [entry |-> [e EXCEPT !.ll = ll, !.state = IF solicited THEN "REACHABLE" ELSE "STALE"],
        pending |-> TRUE]
  ELSE [entry |-> IF other /\ ~ override
                  THEN [e EXCEPT !.state = IF @ = "REACHABLE" THEN "STALE" ELSE @]
                  ELSE [e EXCEPT !.ll = ll, !.state = IF solicited THEN "REACHABLE"
                                                      ELSE IF other THEN "STALE" ELSE @],
        pending |-> FALSE]

\* NeighbourEntry::update by an advertisement, which always has a link-layer address:
\* the new entry, and whether pending packets should be sent.
NAUpdate(e, ll, solicited, override) ==
  LET other == ll # e.ll
      resolved == [e EXCEPT !.ll = ll, !.state = IF solicited THEN "REACHABLE" ELSE "STALE"]
      renewed == [e EXCEPT !.ll = ll, !.state = IF solicited THEN "REACHABLE"
                                                ELSE IF other THEN "STALE" ELSE @]
  IN  CASE e.state = "INCOMPLETE" -> [entry |-> resolved, pending |-> TRUE]
        [] e.state # "INCOMPLETE" /\ other /\ ~ override ->
             [entry |-> [e EXCEPT !.state = IF @ = "REACHABLE" THEN "STALE" ELSE @],
              pending |-> FALSE]
        [] OTHER -> [entry |-> renewed, pending |-> renewed.state = "REACHABLE"]

\* processNgbrAd takes the timers of t out of the list: the first one, or when this
\* is the marker, all that follow it.
CancelTimers(t) ==
  LET mine == {k \in DOMAIN tmrs : tmrs[k].targetAddr = t}
      first == CHOOSE k \in mine : \A j \in mine : k <= j
      run == {k \in mine : \A j \in first .. k : j \in mine}
  IN  IF mine = {} THEN tmrs
      ELSE Without(tmrs, IF IsMarker(tmrs[first]) THEN run ELSE {first})

\* An advertisement from t comes in on interface i.
processNgbrAd(t, i, ll, solicited, override) ==
  LET u == NAUpdate(ne[t], ll, solicited, override) IN
  /\ IF ne[t] = None THEN UNCHANGED <<ne, ppq, tmrs, sent>>
     ELSE IF ~ u.pending THEN /\ ne' = [ne EXCEPT ![t] = u.entry]
                              /\ UNCHANGED <<ppq, tmrs, sent>>
     ELSE /\ ne' = [ne EXCEPT ![t] = [u.entry EXCEPT !.ifIndex = i]]
          /\ sent' = [sent EXCEPT ![t] = @ \o ppq[t]]
          /\ ppq' = [ppq EXCEPT ![t] = <<>>]
          /\ tmrs' = CancelTimers(t)
  /\ UNCHANGED <<addrs, settled, router, transit, crashed, handed, unreached, dropped>>

\* The answer to a solicitation of this node.
Answer(a) ==
  /\ processNgbrAd(a.src, LinkOf[a.src], a.ll, TRUE, a.override)
  /\ adverts' = adverts \ {a}

\* An unsolicited advertisement, the answer to another node's duplicate detection.
Unsolicited(t, ll, override) ==
  /\ LinkOf[t] # NoIface /\ processNgbrAd(t, LinkOf[t], ll, FALSE, override)
  /\ UNCHANGED adverts

\* Mutant: what waits is not sent.
processNgbrSol_Forgets(t, ll, ours) ==
  LET i == LinkOf[t]
      old == ne[t]
      new == IF old = None THEN [state |-> "STALE", ll |-> ll, ifIndex |-> i]
             ELSE IF old.ll # ll THEN [old EXCEPT !.ll = ll, !.state = "STALE"]
             ELSE old
  IN
  /\ i # NoIface
  /\ ne' = [ne EXCEPT ![t] = new]
  /\ ppq' = [ppq EXCEPT ![t] = IF ours /\ i \in addrs THEN <<>> ELSE @]
  /\ UNCHANGED <<sent, tmrs, addrs, settled, router, transit, adverts, crashed, handed, unreached,
                 dropped>>

\* A solicitation from t, with its link-layer address, for an address of this node or
\* for another one in the same multicast group.  It makes or renews the entry of t, and
\* leaves the interface of an old one.  Without the address on the interface it returns
\* before it sends what waits; timers are left alone in any case.
processNgbrSol(t, ll, ours) ==
  LET i == LinkOf[t]
      old == ne[t]
      new == IF old = None THEN [state |-> "STALE", ll |-> ll, ifIndex |-> i]
             ELSE IF old.ll # ll THEN [old EXCEPT !.ll = ll, !.state = "STALE"]
             ELSE old
  IN
  /\ i # NoIface
  /\ ne' = [ne EXCEPT ![t] = new]
  /\ IF old # None /\ old.state = "INCOMPLETE" /\ ours /\ i \in addrs
     THEN /\ sent' = [sent EXCEPT ![t] = @ \o ppq[t]]
          /\ ppq' = [ppq EXCEPT ![t] = <<>>]
     ELSE UNCHANGED <<sent, ppq>>
  /\ UNCHANGED <<tmrs, addrs, settled, router, transit, adverts, crashed, handed, unreached, dropped>>

\* Duplicate address detection of an interface ends.
AssignAddr(i) ==
  /\ i \notin addrs
  /\ addrs' = addrs \cup {i}
  /\ UNCHANGED <<ne, ppq, tmrs, settled, router, transit, adverts, crashed, handed, sent, unreached,
                 dropped>>

\* The time of autoconfiguration, 5 s, is over.
Settle ==
  /\ ~ settled
  /\ settled' = TRUE
  /\ UNCHANGED <<ne, ppq, tmrs, addrs, router, transit, adverts, crashed, handed, sent, unreached,
                 dropped>>

\* The first advertisement of a router has been processed.
RouterAppears ==
  /\ ~ router
  /\ router' = TRUE
  /\ UNCHANGED <<ne, ppq, tmrs, addrs, settled, transit, adverts, crashed, handed, sent, unreached,
                 dropped>>

-----------------------------------------------------------------------------

Init ==
  /\ ne = [t \in Nbr |-> None]
  /\ ppq = [t \in Nbr |-> <<>>]
  /\ tmrs = <<>>
  /\ addrs = Iface \ NoAddrAtStart
  /\ settled = FALSE
  /\ router = FALSE
  /\ transit = <<>>
  /\ adverts = {}
  /\ crashed = FALSE
  /\ handed = [t \in Nbr |-> 0]
  /\ sent = [t \in Nbr |-> <<>>]
  /\ unreached = [t \in Nbr |-> {}]
  /\ dropped = [t \in Nbr |-> {}]

Next ==
  /\ ~ crashed
  /\ \/ \E t \in Nbr : SendAtOnce(t) \/ SendPending(t)
     \/ PacketPends
     \/ \E k \in DOMAIN tmrs : Timeout(k)
     \/ \E a \in adverts : Answer(a)
     \/ \E t \in Nbr, ll \in LLAddr, b \in BOOLEAN : Unsolicited(t, ll, b) \/ processNgbrSol(t, ll, b)
     \/ \E i \in Iface : AssignAddr(i)
     \/ Settle
     \/ RouterAppears

Spec == Init /\ [][Next]_vars

\* The solicitations that the timer of t on interface i has sent, 0 without one.
Counter(t, i) ==
  LET mine == {k \in DOMAIN tmrs : tmrs[k].targetAddr = t /\ tmrs[k].ifIndex = i}
  IN  IF mine = {} THEN 0 ELSE tmrs[CHOOSE k \in mine : TRUE].counter

\* A timer that is scheduled expires; nothing need arrive.  This is weak fairness of
\* Timeout for the timer of t on i: the timeout is possible while the timer exists, and
\* it changes the counter or removes the timer.
TimersExpire ==
  \A t \in Nbr, i \in Iface :
    []<>(Counter(t, i) = 0 \/ crashed) \/ []<><<Counter(t, i)' # Counter(t, i)>>_vars

FairSpec == Spec /\ TimersExpire

-----------------------------------------------------------------------------

\* The type of every variable.
TypeOK ==
  /\ ne \in [Nbr -> Entry \cup {None}]
  /\ ppq \in [Nbr -> Seq(1 .. MaxPackets)]
  /\ tmrs \in Seq(Timer)
  /\ addrs \subseteq Iface
  /\ settled \in BOOLEAN /\ router \in BOOLEAN /\ crashed \in BOOLEAN
  /\ transit \in Seq(Packet)
  /\ adverts \subseteq Advert
  /\ handed \in [Nbr -> 0 .. MaxPackets]
  /\ sent \in [Nbr -> Seq(1 .. MaxPackets)]
  /\ unreached \in [Nbr -> SUBSET (1 .. MaxPackets)]
  /\ dropped \in [Nbr -> SUBSET (1 .. MaxPackets)]

Timed(t) == \E k \in DOMAIN tmrs : tmrs[k].targetAddr = t /\ ~ IsMarker(tmrs[k])

\* Packets wait only while a timer is scheduled that will answer for them, though the
\* queue and the timers are changed separately, by advertisements, solicitations,
\* timeouts and interfaces that cannot ask (ppq and tmrs of AddressResolution).
QueueIsTimed == ~ crashed => \A t \in Nbr : ppq[t] # <<>> => Timed(t)

\* Once a neighbour has answered (REACHABLE), its resolution is over: nothing waits and
\* no timer is left that would forget it and report its packets, also when a
\* solicitation of the neighbour came before its answer (processNgbrAd, NDEntry.cc:231).
ReachableIsSettled ==
  \A t \in Nbr : ne[t] # None /\ ne[t].state = "REACHABLE" => ~ Timed(t) /\ ppq[t] = <<>>

\* The packets to t that have not left.
Held(t) == Range(ppq[t]) \cup
           {transit[k].number : k \in {j \in DOMAIN transit : transit[j].nextHop = t}}

\* Every packet is held, sent on once, reported as unreachable or dropped, and only one
\* of these, whichever of the answer, the neighbour's own solicitation and the last
\* timeout of the interfaces comes first.  A packet is dropped, which nobody is told,
\* only on its way to a neighbour that was looked for on all of several interfaces: its
\* entry keeps the interface UINT_MAX when a solicitation completes it
\* (AddressResolution.cc:538).
OneFate ==
  \A t \in Nbr :
    /\ IsInjective(sent[t])
    /\ Range(sent[t]) \cup Held(t) \cup unreached[t] \cup dropped[t] = 1 .. handed[t]
    /\ (unreached[t] \cup dropped[t]) \cap (Range(sent[t]) \cup Held(t)) = {}
    /\ unreached[t] \cap dropped[t] = {}
    /\ Range(sent[t]) \cap Held(t) = {}
    /\ dropped[t] # {} => OnLink[t] = NoIface /\ numInterfaceGates > 1

\* Whatever is lost, a packet that waits leaves the queue in the end: it is sent or
\* reported (failedAddrRes).
QueueDrains == \A t \in Nbr : ppq[t] # <<>> ~> (ppq[t] = <<>> \/ crashed)

=============================================================================
