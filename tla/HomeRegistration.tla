---------------------------- MODULE HomeRegistration ----------------------------
(***************************************************************************)
(* The home registration of Mobile IPv6: one mobile node (MN), its primary *)
(* home agent (HA), and the network between them.                          *)
(*                                                                         *)
(*   MN   Network/MIPv6/MIPv6MStateMobileNode.cc  (BURetranTmr, sendBU,    *)
(*        processBA, processBE), MIPv6NDStateHost.cc (handover, returnHome,*)
(*        relinquishRouter), MIPv6CDSMobileNode.cc (binding update list)   *)
(*   HA   Network/MIPv6/MIPv6MStateHomeAgent.cc, MIPv6MobilityState.cc     *)
(*        (processBU, preprocessBU, registerBCE), MIPv6CDS.cc              *)
(*                                                                         *)
(* A router stands for the address the MN forms on its link: Home for the  *)
(* home address, a foreign router for a care-of address (CoA).  Time is    *)
(* the one second period of the two expiry timers (MIPv6_PERIOD), which    *)
(* tick in turn; a retransmission timer counts the MN's periods.  Messages *)
(* are lost when they are sent, and are otherwise delivered in any order.  *)
(***************************************************************************)
EXTENDS Integers, Sequences, SequencesExt, FiniteSets

CONSTANTS
  Home,               \* the primary home agent's router entry, and the home address
  Foreign,            \* the foreign routers, and the CoAs formed from them
  None,               \* no router, no entry, no address
  MaxBindAckTimeout,  \* MAX_BINDACK_TIMEOUT (32)
  Lifetime,           \* rt->minValidLifetime() in periods
  SeqModulus,         \* the width of BU.sequence and BA.sequence (2^16)
  DadDone,            \* SUBSET BOOLEAN: may a new CoA be assigned already at handover?
  Prompt,             \* TRUE: every message is delivered within the period it is sent in
  Dwell,              \* TRUE: the MN stays on a link until every message has been delivered
  MaxSeq,             \* bound: no handover once the sequence number is this high
  MaxInFlight         \* bound: the network holds at most this many messages

Addr == Foreign \cup {Home}

\* An entry of the binding update list, and the binding of the home address.
Entry == [coa : Addr, seq : Nat, state : Nat, problem : BOOLEAN, lifetime : Nat, expires : Nat]
Binding == [coa : Foreign, seq : Nat, expires : Nat]

ASSUME ParamAssumption ==
  /\ Home \notin Foreign
  /\ None \notin Addr \cup Entry \cup Binding
  /\ MaxBindAckTimeout \in Nat \ {0}
  /\ Lifetime \in Nat \ {0}
  /\ SeqModulus \in Nat \ {0}
  /\ DadDone \subseteq BOOLEAN
  /\ Prompt \in BOOLEAN
  /\ Dwell \in BOOLEAN
  /\ MaxSeq \in Nat
  /\ MaxInFlight \in Nat

VARIABLES
  router,     \* MN: mipv6cdsMN->currentRouter()
  away,       \* MN: mipv6cdsMN->awayFromHome()
  bule,       \* MN: the binding update list entry for the primary HA, or None
  tmrs,       \* MN: buRetranTmrs, each holding the datagram it sends again
  deferred,   \* MN: the CoA whose BU waits for duplicate address detection, or None
  mnTunnel,   \* MN: entry point of the reverse tunnel that exits at the HA, or None
  acked,      \* history: the CoA a BA has accepted since the last BU, or None
  bc,         \* HA: the binding cache entry for the home address, or None
  haTunnels,  \* HA: exit points of its tunnels
  hoaRoute,   \* HA: the tunnel the destination entry of the home address uses, or None
  msgs,       \* the messages in flight
  turn,       \* whose period timer expires next
  aborted     \* the failed assertion that ended the program, or "none"

mnVars == <<router, away, bule, tmrs, deferred, mnTunnel, acked>>
haVars == <<bc, haTunnels, hoaRoute>>
vars == <<mnVars, haVars, msgs, turn, aborted>>

-----------------------------------------------------------------------------
(* Messages and the network *)

BU(coa, seq, life) == [type |-> "BU", coa |-> coa, seq |-> seq % SeqModulus, life |-> life]
BA(dst, status, seq, life) ==
  [type |-> "BA", dst |-> dst, status |-> status, seq |-> seq, life |-> life]
BE(dst) == [type |-> "BE", dst |-> dst]
Data(coa) == [type |-> "Data", coa |-> coa]

Status == {"ACCEPTED", "SEQ_OUT_OF_WINDOW", "NOT_HA_FOR_MN"}

Message ==
  [type : {"BU"}, coa : Addr, seq : Nat, life : Nat]
    \cup [type : {"BA"}, dst : Addr, status : Status, seq : Nat, life : Nat]
    \cup [type : {"BE"}, dst : Addr]
    \cup [type : {"Data"}, coa : Addr]

\* The messages `rest' stay in flight and m is sent, or lost.
Send(rest, m) == msgs' \in {rest} \cup
  (IF Cardinality(rest) < MaxInFlight THEN {rest \cup {m}} ELSE {})

\* Nothing happens after a failed assertion.
Running == aborted = "none"

\* assert(ok): the program ends where it fails, so what the rest of the step does
\* then is of no account.
Require(ok, assertion) == aborted' = IF ok THEN aborted ELSE assertion

\* One period off the lifetime of an entry of either end: expireLifetimes.
\* Mutants: an expired entry is kept; it is removed a period too early.
Aged_Kept(e) == IF e # None /\ e.expires > 0 THEN [e EXCEPT !.expires = @ - 1] ELSE e
Aged_Early(e) == IF e # None /\ e.expires > 2 THEN [e EXCEPT !.expires = @ - 1] ELSE None
Aged(e) == IF e # None /\ e.expires > 1 THEN [e EXCEPT !.expires = @ - 1] ELSE None

-----------------------------------------------------------------------------
(* Sequence numbers, OPP_Global::lessThanEqualsModulo *)

\* "x is not newer than y": it is below y, or more than half the modulus above.
lessThanEqualsModulo(x, y) ==
  LET upper == (y - SeqModulus \div 2) + SeqModulus
  IN x <= y \/ x >= upper

-----------------------------------------------------------------------------
(* Mobile node *)

careOfAddr == IF bule = None THEN Home ELSE bule.coa

\* 1.5 s for a first registration spans one or two periods, 1 s spans one.
FirstWait == IF bule = None THEN {1, 2} ELSE {1}

\* The BU that sendBU is about to send carries the next sequence number.
NextSeq == IF bule = None THEN 0 ELSE bule.seq + 1

SentBule(coa, life) ==
  [coa |-> coa, seq |-> NextSeq, state |-> IF bule = None THEN 1 ELSE bule.state + 1,
   problem |-> bule # None /\ bule.problem, lifetime |-> life, expires |-> life]

\* A new timer unless a BU is outstanding, when the timer for the HA is reused
\* if there is one.
SentTmrs(coa, life, wait) ==
  LET t == [coa |-> coa, life |-> life, timeout |-> 1, wait |-> wait]
  IN CASE bule = None \/ bule.state = 0 -> Append(tmrs, t)
       [] bule # None /\ bule.state > 0 /\ tmrs # <<>> -> [tmrs EXCEPT ![1] = t]
       [] OTHER -> tmrs

\* Mutant: an existing tunnel is kept for a new CoA.
updateTunnelsFrom_Kept(coa, isAway) == mnTunnel' = IF isAway /\ mnTunnel = None THEN coa ELSE
                                                   IF isAway THEN mnTunnel ELSE None

\* At most one reverse tunnel exits at the HA, so the one to delete is it.
updateTunnelsFrom(coa, isAway) == mnTunnel' = IF isAway THEN coa ELSE
                                   IF mnTunnel = coa THEN mnTunnel ELSE None

\* sendBU to the primary HA, as far as the message and the tunnel go.
sendBU(coa, life, isAway) ==
  /\ Send(msgs, BU(coa, NextSeq, life))
  /\ updateTunnelsFrom(coa, isAway)
  /\ acked' = None

\* Mutant: the timers of the old link are kept.
relinquishRouter_Timers(new, b, ts, d) ==
  /\ router' = new
  /\ bule' = b
  /\ tmrs' = ts
  /\ deferred' = IF d = router THEN None ELSE d

\* Mutant: the callbacks of the old link are kept.
relinquishRouter_Callbacks(new, b, ts, d) ==
  /\ router' = new
  /\ bule' = IF router # None /\ b # None /\ ts # <<>> THEN [b EXCEPT !.state = 0] ELSE b
  /\ tmrs' = IF router # None THEN <<>> ELSE ts
  /\ deferred' = d

\* The MN may move at any time, or, if Dwell, once its messages have arrived.
MayMove == Running /\ (Dwell => msgs = {})

\* relinquishRouter(router, new), with the list entry, the timers and the
\* deferred BU left by the rest of the handover.
relinquishRouter(new, b, ts, d) ==
  /\ router' = new
  /\ IF router = None
     THEN /\ bule' = b
          /\ tmrs' = ts
          /\ deferred' = d
     ELSE /\ bule' = IF b # None /\ ts # <<>> THEN [b EXCEPT !.state = 0] ELSE b
          /\ tmrs' = <<>>
          /\ deferred' = IF d = router THEN None ELSE d

\* handover(null): router advertisements were missed and no new router is known.
LoseRouter ==
  /\ MayMove
  /\ router # None
  /\ away' = TRUE
  /\ relinquishRouter(None, bule, tmrs, deferred)
  /\ UNCHANGED <<mnTunnel, acked, haVars, msgs, turn, aborted>>

\* handover(primaryHA): deregister unless no binding was ever made.
ReturnHome ==
  /\ MayMove
  /\ router # Home
  /\ away' = FALSE
  /\ \/ /\ careOfAddr # Home
        /\ NextSeq <= MaxSeq
        /\ sendBU(Home, 0, FALSE)
        /\ \E w \in FirstWait :
             relinquishRouter(Home, SentBule(Home, 0), SentTmrs(Home, 0, w), deferred)
     \/ /\ careOfAddr = Home
        /\ relinquishRouter(Home, bule, tmrs, deferred)
        /\ UNCHANGED <<mnTunnel, acked, msgs>>
  /\ UNCHANGED <<haVars, turn, aborted>>

\* handover(r) to the router the current CoA was formed from: no BU.
HandoverSameCoa(r) ==
  /\ MayMove
  /\ router # r
  /\ r = careOfAddr
  /\ away' = TRUE
  /\ relinquishRouter(r, bule, tmrs, deferred)
  /\ UNCHANGED <<mnTunnel, acked, haVars, msgs, turn, aborted>>

\* handover(r) when the new CoA is assigned already: the BU goes out at once.
HandoverAssigned(r) ==
  /\ MayMove
  /\ TRUE \in DadDone
  /\ router # r
  /\ r # careOfAddr
  /\ NextSeq <= MaxSeq
  /\ away' = TRUE
  /\ sendBU(r, Lifetime, TRUE)
  /\ \E w \in FirstWait :
       relinquishRouter(r, SentBule(r, Lifetime), SentTmrs(r, Lifetime, w), deferred)
  /\ UNCHANGED <<haVars, turn, aborted>>

\* handover(r) when duplicate address detection is not over: deferSendBU.
HandoverDeferred(r) ==
  /\ MayMove
  /\ FALSE \in DadDone
  /\ router # r
  /\ r # careOfAddr
  /\ NextSeq <= MaxSeq
  /\ away' = TRUE
  /\ relinquishRouter(r, bule, tmrs, r)
  /\ UNCHANGED <<mnTunnel, acked, haVars, msgs, turn, aborted>>

\* Duplicate address detection succeeds: MIPv6NDStateHost::sendBU and sendBUToAll.
SendDeferredBU ==
  /\ Running
  /\ deferred # None
  /\ Require(deferred # careOfAddr, "assert(ncoa != ocoa)")
  /\ sendBU(deferred, Lifetime, away)
  /\ bule' = SentBule(deferred, Lifetime)
  /\ \E w \in FirstWait : tmrs' = SentTmrs(deferred, Lifetime, w)
  /\ deferred' = None
  /\ UNCHANGED <<router, away, haVars, turn>>

\* BURetranTmr::retransmitBU of the i-th timer.
RetransmitBU(i) ==
  LET t == tmrs[i]
      double == 2 * t.timeout
  IN
  /\ Running
  /\ t.wait = 0
  /\ \/ /\ t.timeout < MaxBindAckTimeout
        /\ bule # None
        /\ bule' = [bule EXCEPT !.state = @ + 1, !.seq = @ + 1]
        /\ tmrs' = [tmrs EXCEPT ![i].timeout = double, ![i].wait = double]
        /\ Send(msgs, BU(t.coa, bule.seq + 1, t.life))
        /\ acked' = None
        /\ UNCHANGED aborted
     \/ /\ t.timeout < MaxBindAckTimeout
        /\ bule = None
        /\ tmrs' = RemoveAt(tmrs, i)
        /\ UNCHANGED <<bule, msgs, acked, aborted>>
     \/ /\ t.timeout >= MaxBindAckTimeout
        /\ Require(bule # None, "assert(bule)")
        /\ bule' = IF bule = None THEN None ELSE [bule EXCEPT !.problem = TRUE, !.state = 0]
        /\ tmrs' = RemoveAt(tmrs, i)
        /\ UNCHANGED <<msgs, acked>>
  /\ UNCHANGED <<router, away, deferred, mnTunnel, haVars, turn>>

\* The MN receives on the address of the link it is on, unless it is tentative.
Reachable(dst) == dst = router /\ dst # deferred

\* A BA that grants less than was asked for shortens the life of the entry.
ShortenExpiry(b, m) ==
  LET cut == b.lifetime - m.life
  IN IF cut > 0 THEN [b EXCEPT !.expires = IF @ > cut THEN @ - cut ELSE 0] ELSE b

\* The first timer found is the HA's.  A BA to a deregistration completes it.
ReceiveBA(m) ==
  LET known == bule # None
      accepted == m.status = "ACCEPTED"
  IN
  /\ Running
  /\ m.type = "BA"
  /\ msgs' = msgs \ {m}
  /\ IF ~ Reachable(m.dst) \/ (known /\ m.seq # bule.seq)
     THEN UNCHANGED <<away, bule, tmrs, acked>>
     ELSE /\ tmrs' = IF tmrs = <<>> THEN tmrs ELSE Tail(tmrs)
          /\ away' = IF tmrs # <<>> /\ tmrs[1].coa = Home THEN FALSE ELSE away
          /\ bule' = CASE ~ known -> None
                       [] known /\ accepted -> ShortenExpiry([bule EXCEPT !.state = 0], m)
                       [] known /\ m.status = "SEQ_OUT_OF_WINDOW" ->
                            IF lessThanEqualsModulo(bule.seq, m.seq)
                            THEN [bule EXCEPT !.seq = m.seq + 1] ELSE bule
                       [] OTHER -> None
          /\ acked' = IF known /\ accepted THEN bule.coa ELSE acked
  /\ UNCHANGED <<router, deferred, mnTunnel, haVars, turn, aborted>>

\* processBE removes the list entry and leaves the timers alone.
ReceiveBE(m) ==
  /\ Running
  /\ m.type = "BE"
  /\ msgs' = msgs \ {m}
  /\ bule' = IF Reachable(m.dst) THEN None ELSE bule
  /\ UNCHANGED <<router, away, tmrs, deferred, mnTunnel, acked, haVars, turn, aborted>>

\* mnSendPacketCheck of a packet for the HA itself: sent from the CoA, with the
\* home address option, once the binding is believed to be acknowledged.
SendDataToHA ==
  /\ Running
  /\ away
  /\ bule # None
  /\ router = bule.coa
  /\ bule.coa # Home
  /\ bule.state = 0 /\ ~ bule.problem /\ bule.expires > 0
  /\ Send(msgs, Data(bule.coa))
  /\ UNCHANGED <<mnVars, haVars, turn, aborted>>

\* The period timer of the MN: MIPv6CDSMobileNode::expireLifetimes.  The
\* retransmission timers that are due fire before the next period.
MNPeriod ==
  /\ Running
  /\ turn = "mn"
  /\ Prompt => msgs = {}
  /\ \A i \in DOMAIN tmrs : tmrs[i].wait > 0
  /\ bule' = Aged(bule)
  /\ tmrs' = [i \in DOMAIN tmrs |-> [tmrs[i] EXCEPT !.wait = @ - 1]]
  /\ turn' = "ha"
  /\ UNCHANGED <<router, away, deferred, mnTunnel, acked, haVars, msgs, aborted>>

-----------------------------------------------------------------------------
(* Home agent *)

\* What the HA sends to the home address follows its destination entry.
Route(dst) == IF dst = Home /\ hoaRoute # None THEN hoaRoute ELSE dst

\* preprocessBU refuses a BU that is not newer than the binding.  The lifetime of this BA,
\* which processBA does not read, is left out.
RejectBU(m) ==
  /\ bc # None
  /\ lessThanEqualsModulo(m.seq, bc.seq)
  /\ Send(msgs \ {m}, BA(Route(m.coa), "SEQ_OUT_OF_WINDOW", bc.seq, 0))
  /\ UNCHANGED <<haVars, aborted>>

InWindow(m) == bc # None => ~ lessThanEqualsModulo(m.seq, bc.seq)

deregisterBCE(m) ==
  /\ InWindow(m)
  /\ m.life = 0 \/ m.coa = Home
  /\ \/ /\ bc = None
        /\ Send(msgs \ {m}, BA(Route(m.coa), "NOT_HA_FOR_MN", 0, 0))
        /\ UNCHANGED <<haVars, aborted>>
     \/ /\ bc # None
        /\ Require(hoaRoute \in haTunnels, "failed to remove tunnel")
        /\ haTunnels' = haTunnels \ {hoaRoute}
        /\ hoaRoute' = None
        /\ bc' = None
        /\ Send(msgs \ {m}, BA(m.coa, "ACCEPTED", m.seq, 0))

\* Mutant: the tunnel of the previous CoA is removed though it is the new one too.
registerBCE_SameCoa(m) ==
  /\ InWindow(m)
  /\ ~ (m.life = 0 \/ m.coa = Home)
  /\ bc' = [coa |-> m.coa, seq |-> m.seq, expires |-> m.life]
  /\ haTunnels' = (haTunnels \cup {m.coa}) \ (IF bc # None THEN {bc.coa} ELSE {})
  /\ hoaRoute' = m.coa
  /\ Send(msgs \ {m}, BA(m.coa, "ACCEPTED", m.seq, m.life))
  /\ UNCHANGED aborted

\* A tunnel to the new CoA, no tunnel to the one it replaces.
registerBCE(m) ==
  /\ InWindow(m)
  /\ ~ (m.life = 0 \/ m.coa = Home)
  /\ bc' = [coa |-> m.coa, seq |-> m.seq, expires |-> m.life]
  /\ haTunnels' = (haTunnels \cup {m.coa}) \
                    (IF bc # None /\ bc.coa # m.coa THEN {bc.coa} ELSE {})
  /\ hoaRoute' = m.coa
  /\ Send(msgs \ {m}, BA(m.coa, "ACCEPTED", m.seq, m.life))
  /\ UNCHANGED aborted

\* MIPv6MStateHomeAgent::processBU
ReceiveBU(m) ==
  /\ Running
  /\ m.type = "BU"
  /\ RejectBU(m) \/ deregisterBCE(m) \/ registerBCE(m)
  /\ UNCHANGED <<mnVars, turn>>

\* processReceivedHoADestOpt: only the CoA of the binding may use the option.
ReceiveData(m) ==
  /\ Running
  /\ m.type = "Data"
  /\ IF bc # None /\ bc.coa = m.coa THEN msgs' = msgs \ {m}
                                    ELSE Send(msgs \ {m}, BE(m.coa))
  /\ UNCHANGED <<mnVars, haVars, turn, aborted>>

\* The period timer of the HA: MIPv6CDS::expireLifetimes.  The tunnel stays.
HAPeriod ==
  /\ Running
  /\ turn = "ha"
  /\ Prompt => msgs = {}
  /\ bc' = Aged(bc)
  /\ turn' = "mn"
  /\ UNCHANGED <<mnVars, haTunnels, hoaRoute, msgs, aborted>>

-----------------------------------------------------------------------------

\* The MN has heard its home agent at home; nothing was ever registered.
Init ==
  /\ router = Home
  /\ away = FALSE
  /\ bule = None
  /\ tmrs = <<>>
  /\ deferred = None
  /\ mnTunnel = None
  /\ acked = None
  /\ bc = None
  /\ haTunnels = {}
  /\ hoaRoute = None
  /\ msgs = {}
  /\ turn = "mn"
  /\ aborted = "none"

Move == \/ LoseRouter
        \/ ReturnHome
        \/ \E r \in Foreign : HandoverSameCoa(r) \/ HandoverAssigned(r) \/ HandoverDeferred(r)

Timer == \/ \E i \in DOMAIN tmrs : RetransmitBU(i)
         \/ MNPeriod
         \/ HAPeriod

Deliver == \E m \in msgs : ReceiveBA(m) \/ ReceiveBE(m) \/ ReceiveBU(m) \/ ReceiveData(m)

Next == Move \/ SendDeferredBU \/ SendDataToHA \/ Timer \/ Deliver

Spec == Init /\ [][Next]_vars

\* Scheduled timers fire and messages in flight are delivered; nothing makes
\* the MN move or send data.
FairSpec == /\ Spec
            /\ WF_vars(\E i \in DOMAIN tmrs : RetransmitBU(i))
            /\ WF_vars(MNPeriod)
            /\ WF_vars(HAPeriod)
            /\ WF_vars(Deliver)

-----------------------------------------------------------------------------
(* Types *)

Timer_ == [coa : Addr, life : Nat, timeout : Nat, wait : Nat]

\* The type of every variable.  The cache never binds the home address to
\* itself: processBU takes such a BU as a deregistration.
TypeOK ==
  /\ router \in Addr \cup {None}
  /\ away \in BOOLEAN
  /\ bule \in Entry \cup {None}
  /\ tmrs \in Seq(Timer_)
  /\ deferred \in Foreign \cup {None}
  /\ mnTunnel \in Foreign \cup {None}
  /\ acked \in Addr \cup {None}
  /\ bc \in Binding \cup {None}
  /\ haTunnels \subseteq Foreign
  /\ hoaRoute \in Foreign \cup {None}
  /\ msgs \subseteq Message
  /\ turn \in {"mn", "ha"}

-----------------------------------------------------------------------------
(* Safety *)

\* However the MN moves, at most one retransmission timer runs and the BU it
\* repeats registers the link the MN is on: relinquishRouter clears the timers of
\* the old link, and sendBU reuses the timer of an outstanding BU.
RetransmissionCurrent ==
  /\ Len(tmrs) <= 1
  /\ \A i \in DOMAIN tmrs : tmrs[i].coa = router

\* A BU that waits for duplicate address detection is for the link the MN is on and
\* not for the CoA in use, and no other BU is being retransmitted: relinquishRouter
\* removes the callbacks of the addresses of the link it leaves, and its timers.
DeferredCurrent == deferred # None => deferred = router /\ deferred # careOfAddr /\ tmrs = <<>>

\* While the HA holds a binding, its tunnel to the bound CoA exists and what it
\* intercepts for the home address takes that tunnel: registerBCE creates the new
\* tunnel, removes the old one and redirects the home address, in that order.
TunnelForBinding == bc # None => bc.coa \in haTunnels /\ hoaRoute = bc.coa

\* awayFromHome, which gates route optimisation and reverse tunnelling, is set by
\* movement detection and handover and cleared by returnHome and processBA; it
\* always says whether the current router is the home agent.
HomeIsHome == away <=> router # Home

\* Whenever the binding update list names a CoA, the reverse tunnel that
\* mnSendPacketCheck looks up for that CoA exists.
ReverseTunnelReady == careOfAddr # Home => mnTunnel = careOfAddr

\* No assertion of the modelled code fails: a deferred BU is not for the CoA in
\* use (MIPv6NDStateHost::sendBU), a BU that is retransmitted for the last time
\* still has its list entry (retransmitBU), and the HA finds the tunnel of the
\* binding it deregisters (deregisterBCE).
NoAbort == aborted = "none"

\* The two ends agree.  When the MN has had its last BU accepted, the HA does not
\* bind any other CoA, and it still holds the binding as long as the MN counts on
\* it for another period: processBA matches sequence numbers, and the HA starts
\* the lifetime later than the MN.
AckedAgreement ==
  bule # None /\ acked # None =>
    /\ bule.coa = acked
    /\ bc # None => bc.coa = acked
    /\ acked \in Foreign /\ bule.expires > 1 => bc # None

-----------------------------------------------------------------------------
(* Liveness *)

\* No entry counts outstanding BUs for ever: they are answered, retransmitted until
\* MAX_BINDACK_TIMEOUT, cleared by a handover, or the entry expires, which is the
\* only way out once a BA has removed the timer without accepting the BU.
OutstandingResolved == bule # None /\ bule.state > 0 ~> bule = None \/ bule.state = 0

\* A MN that stays at home ends up with no binding and no list entry, though the
\* deregistration and its answer may be lost and BUs sent before may arrive late.
ReturnConverges == <>[](router = Home) => <>[](bc = None /\ bule = None /\ tmrs = <<>>)
=============================================================================
