--------------------------- MODULE ReturnRoutability ---------------------------
(***************************************************************************)
(* The return routability (RR) procedure and the registration with one     *)
(* correspondent node (CN) that follows it, on top of a home registration. *)
(*                                                                         *)
(*   MN   Network/MIPv6/MIPv6MStateMobileNode.cc  (sendInits, sendHoTI,    *)
(*        sendCoTI, processTest, sendBU, processBA, processBE),            *)
(*        MIPv6MNEntry.cc (bu_entry), MIPv6NDStateHost.cc                  *)
(*        (checkDecapsulation)                                             *)
(*   CN   Network/MIPv6/MIPv6MStateCorrespondentNode.cc (processTI,        *)
(*        processBU), MIPv6MobilityState.cc, MIPv6CDS.cc                   *)
(*                                                                         *)
(* Early binding updates, acknowledged ones (mnSendBUAckFlag) and HMIPv6   *)
(* are off.  Lifetimes, back-off times and the period of the nonces are    *)
(* not measured: an entry may expire, a timer may fire and a nonce may be  *)
(* drawn at any time.  Sequence numbers stay below half their modulus,     *)
(* where lessThanEqualsModulo is <=.                                       *)
(*                                                                         *)
(* The MN moves whenever it likes and 0 may be drawn as a nonce.  What     *)
(* goes wrong in the code then is told apart by a history field of the     *)
(* entry, mishaps: the properties say what the procedure guarantees, and   *)
(* of each breach, which of the mishaps it needs.                          *)
(***************************************************************************)
EXTENDS Nonces, FiniteSets

CONSTANTS
  Home,         \* the home address
  Foreign,      \* the care-of addresses (CoAs)
  None,         \* no entry, no address
  Nonce,        \* what rand() may return for a nonce
  Cookie,       \* what rand() may return for a cookie; no two in use are equal
  Patient,      \* TRUE: a test is not repeated while its message or answer is on its way
  MaxSeq,       \* bound: no handover once the sequence number is this high
  MaxInFlight   \* bound: the network holds at most this many messages

Addr == Foreign \cup {Home}

ASSUME ParamAssumption ==
  /\ Home \notin Foreign
  /\ None \notin Addr
  /\ Nonce \subseteq Nat
  /\ Cookie \subseteq Nat \ {0}
  /\ Patient \in BOOLEAN
  /\ MaxSeq \in Nat
  /\ MaxInFlight \in Nat

VARIABLES
  coa,      \* MN: mipv6cdsMN->careOfAddr()
  bule,     \* MN: the binding update list entry for the CN, or None
  bc,       \* CN: the binding cache entry for the home address, or None
  msgs,     \* the messages in flight
  lossy,    \* FALSE once the network loses no more messages
  aborted   \* the failed assertion that ended the program, or "none"

vars == <<coa, bule, bc, nonceVars, msgs, lossy, aborted>>

-----------------------------------------------------------------------------
(* Messages and the network *)

HoTI(cookie) == [type |-> "HoTI", cookie |-> cookie]
CoTI(src, cookie) == [type |-> "CoTI", src |-> src, cookie |-> cookie]
HoT(cookie, ni) == [type |-> "HoT", cookie |-> cookie, ni |-> ni]
CoT(dst, cookie, ni) == [type |-> "CoT", dst |-> dst, cookie |-> cookie, ni |-> ni]
BA(dst, status, seq) == [type |-> "BA", dst |-> dst, status |-> status, seq |-> seq]
BE(dst) == [type |-> "BE", dst |-> dst]
Data(src) == [type |-> "Data", src |-> src]

\* What can befall an entry between two BUs: the MN moves while a test is going on,
\* it moves within 1/3 s of the last BU, or the nonce it receives is 0.
Mishap == {"moved", "early", "zero"}

\* History: the CoA at which the care-of nonce was received, and the mishaps of the
\* entry since the BU before.
BU(c, seq, hni, coni, tested, mishaps) ==
  [type |-> "BU", coa |-> c, seq |-> seq, hni |-> hni, coni |-> coni, tested |-> tested,
   mishaps |-> mishaps]

Status == {"SEQ_OUT_OF_WINDOW", "UNREC_HONI", "UNREC_CONI", "UNREC_BOTHNI"}

Message ==
  [type : {"HoTI"}, cookie : Cookie]
    \cup [type : {"CoTI"}, src : Foreign, cookie : Cookie]
    \cup [type : {"HoT"}, cookie : Cookie, ni : Nat]
    \cup [type : {"CoT"}, dst : Foreign, cookie : Cookie, ni : Nat]
    \cup [type : {"BU"}, coa : Addr, seq : Nat, hni : Nat, coni : Nat,
          tested : Foreign \cup {None}, mishaps : SUBSET Mishap]
    \cup [type : {"BA"}, dst : Addr, status : Status, seq : Nat]
    \cup [type : {"BE"}, dst : Addr]
    \cup [type : {"Data"}, src : Foreign]

\* The messages `rest' stay in flight and m is sent, or lost.
Send(rest, m) ==
  \/ Cardinality(rest) < MaxInFlight /\ msgs' = rest \cup {m}
  \/ lossy /\ msgs' = rest

Running == aborted = "none"

\* assert(ok): the program ends where it fails, so what the rest of the step does
\* then is of no account.
Require(ok, assertion) == aborted' = IF ok THEN aborted ELSE assertion

\* The cookies that no test in flight has, and the one of a new test.
FreshCookies == {c \in Cookie : \A m \in msgs :
                   m.type \in {"HoTI", "CoTI", "HoT", "CoT"} => m.cookie # c}
FreshCookie == CHOOSE c \in FreshCookies : TRUE

-----------------------------------------------------------------------------
(* Mobile node *)

\* bu_entry as sendInits makes it.  hoti: the HoTI timer is scheduled; coti: the
\* CoA the scheduled CoTI timer tests; sent: last_time_sent is not 0; recent: that
\* is less than 1/3 s ago; history: tested, the CoA that careOfNI was received at, and
\* mishaps, those since the last BU.
NewEntry(c) ==
  [coa |-> c, seq |-> 0, hoti |-> FALSE, coti |-> None, homeCookie |-> 0, careOfCookie |-> 0,
   homeNI |-> 0, careOfNI |-> 0, sent |-> FALSE, recent |-> FALSE, tested |-> None,
   mishaps |-> {}]

isPerformingRR(e) == e.hoti \/ e.coti # None

testSuccess(e) == ~ isPerformingRR(e) /\ e.homeNI # 0 /\ e.careOfNI # 0

\* Mutant: a care-of nonce that is there already is not asked for again.
Initiated_KeepCareOf(e, c) ==
  [e EXCEPT !.hoti = TRUE, !.coti = IF c = Home \/ e.careOfNI # 0 THEN None ELSE c]

\* The entry after both timers have been cancelled and those that are needed
\* scheduled.
Initiated(e, c) == [e EXCEPT !.hoti = TRUE, !.coti = IF c = Home THEN None ELSE c]

\* sendBU to the CN from coa, its entry being e; the BU uses the nonces up.
\* Mutant: it does not.
SentEntry_Keep(e) == [e EXCEPT !.coa = coa, !.seq = @ + 1, !.sent = TRUE, !.recent = TRUE,
                               !.mishaps = {}]

SentEntry(e) ==
  [e EXCEPT !.coa = coa, !.seq = @ + 1, !.homeNI = 0, !.careOfNI = 0,
            !.sent = TRUE, !.recent = TRUE, !.mishaps = {}]

sendBU(e, rest) ==
  /\ Require(~ isPerformingRR(e), "assert(!bule->isPerformingRR())")
  /\ IF isPerformingRR(e)
     THEN bule' = e /\ msgs' = rest
     ELSE /\ bule' = SentEntry(e)
          /\ Send(rest, BU(coa, e.seq + 1, e.homeNI, e.careOfNI, e.tested, e.mishaps))

Befallen(e, mishap) == [e EXCEPT !.mishaps = @ \cup {mishap}]

MayMove == Running /\ (bule # None => bule.seq < MaxSeq)

\* A handover makes c the CoA: sendBUToAll, and sendInits for the CN, which does
\* nothing while a test is going on or the last BU is recent.
HandoverUnnoticed ==
  /\ bule' = CASE bule = None -> bule
               [] bule # None /\ isPerformingRR(bule) -> Befallen(bule, "moved")
               [] OTHER -> Befallen(bule, "early")
  /\ UNCHANGED aborted

\* At home the care-of test is left out, and a nonce that is there already is used at
\* once, which fails in sendBU because the home test has just been scheduled.
HandoverTested(c) ==
  /\ bule' = Initiated(bule, c)
  /\ Require(c = Home => bule.homeNI = 0, "assert(!bule->isPerformingRR())")

Handover(c) ==
  /\ MayMove
  /\ c # coa
  /\ coa' = c
  /\ IF bule = None \/ isPerformingRR(bule) \/ bule.recent
     THEN HandoverUnnoticed ELSE HandoverTested(c)
  /\ UNCHANGED <<bc, nonceVars, msgs, lossy>>

\* checkDecapsulation of a packet of the CN that the HA has tunnelled.
StartRouteOptimisation ==
  /\ Running
  /\ coa # Home
  /\ bule = None
  /\ bule' = Initiated(NewEntry(coa), coa)
  /\ UNCHANGED <<coa, bc, nonceVars, msgs, lossy, aborted>>

\* Mutant: the timer is not set again.
sendHoTI_Once ==
  /\ Running
  /\ bule # None /\ bule.hoti
  /\ Patient => \A m \in msgs : m.type \notin {"HoTI", "HoT"}
  /\ bule' = [bule EXCEPT !.hoti = FALSE, !.homeCookie = FreshCookie]
  /\ Send(msgs, HoTI(FreshCookie))
  /\ UNCHANGED <<coa, bc, nonceVars, lossy, aborted>>

\* The HoTI timer fires, and is set again.
sendHoTI ==
  /\ Running
  /\ bule # None /\ bule.hoti
  /\ Patient => \A m \in msgs : m.type \notin {"HoTI", "HoT"}
  /\ FreshCookies # {}
  /\ bule' = [bule EXCEPT !.homeCookie = FreshCookie]
  /\ Send(msgs, HoTI(FreshCookie))
  /\ UNCHANGED <<coa, bc, nonceVars, lossy, aborted>>

\* The CoTI timer fires, and is set again: it tests the CoA it was made for.
sendCoTI ==
  /\ Running
  /\ bule # None /\ bule.coti # None
  /\ Patient => \A m \in msgs : m.type \notin {"CoTI", "CoT"}
  /\ FreshCookies # {}
  /\ bule' = [bule EXCEPT !.careOfCookie = FreshCookie]
  /\ Send(msgs, CoTI(bule.coti, FreshCookie))
  /\ UNCHANGED <<coa, bc, nonceVars, lossy, aborted>>

\* The end of processTest: e is the entry with the answer recorded.
TestReceived(e, rest) ==
  IF testSuccess(e) \/ (coa = Home /\ e.homeNI # 0 /\ e.sent)
  THEN sendBU(e, rest)
  ELSE bule' = e /\ msgs' = rest /\ UNCHANGED aborted

\* The entry with the nonce of an answer recorded; 0 means that it has none.
WithHomeNonce(e, ni) ==
  [e EXCEPT !.hoti = FALSE, !.homeNI = ni,
            !.mishaps = IF ni = 0 THEN @ \cup {"zero"} ELSE @]

WithCareOfNonce(e, ni, c) ==
  [e EXCEPT !.coti = None, !.careOfNI = ni, !.tested = c,
            !.mishaps = IF ni = 0 THEN @ \cup {"zero"} ELSE @]

\* Mutant: any answer is taken for the one to the last HoTI.
ReceiveHoT_AnyCookie(m) ==
  /\ Running
  /\ m.type = "HoT"
  /\ IF bule = None
     THEN msgs' = msgs \ {m} /\ UNCHANGED <<bule, aborted>>
     ELSE TestReceived(WithHomeNonce(bule, m.ni), msgs \ {m})
  /\ UNCHANGED <<coa, bc, nonceVars, lossy>>

\* processTest of a HoT
ReceiveHoT(m) ==
  /\ Running
  /\ m.type = "HoT"
  /\ IF bule = None \/ m.cookie # bule.homeCookie
     THEN msgs' = msgs \ {m} /\ UNCHANGED <<bule, aborted>>
     ELSE TestReceived(WithHomeNonce(bule, m.ni), msgs \ {m})
  /\ UNCHANGED <<coa, bc, nonceVars, lossy>>

\* processTest of a CoT
ReceiveCoT(m) ==
  /\ Running
  /\ m.type = "CoT"
  /\ IF bule = None \/ m.dst # coa \/ m.cookie # bule.careOfCookie
     THEN msgs' = msgs \ {m} /\ UNCHANGED <<bule, aborted>>
     ELSE TestReceived(WithCareOfNonce(bule, m.ni, m.dst), msgs \ {m})
  /\ UNCHANGED <<coa, bc, nonceVars, lossy>>

\* The MN receives on its CoA and, through the HA, on its home address.
Reachable(dst) == dst \in {coa, Home}

\* processBA: no BU to the CN is retransmitted or acknowledged, only refused.
ReceiveBA(m) ==
  /\ Running
  /\ m.type = "BA"
  /\ msgs' = msgs \ {m}
  /\ bule' = CASE ~ Reachable(m.dst) \/ bule = None -> bule
               [] Reachable(m.dst) /\ bule # None /\ m.seq # bule.seq -> bule
               [] OTHER -> IF m.status = "SEQ_OUT_OF_WINDOW"
                           THEN [bule EXCEPT !.seq = m.seq + 1] ELSE None
  /\ UNCHANGED <<coa, bc, nonceVars, lossy, aborted>>

\* processBE
ReceiveBE(m) ==
  /\ Running
  /\ m.type = "BE"
  /\ msgs' = msgs \ {m}
  /\ bule' = IF Reachable(m.dst) THEN None ELSE bule
  /\ UNCHANGED <<coa, bc, nonceVars, lossy, aborted>>

\* mnSendPacketCheck: the entry lets a packet go to the CN directly, from its CoA.
\* Mutant: whether RR is going on is not looked at.
Optimised_Always == coa # Home /\ bule # None /\ bule.coa # Home

Optimised == coa # Home /\ bule # None /\ bule.coa # Home /\ ~ isPerformingRR(bule)

SendData ==
  /\ Running
  /\ Optimised
  /\ Send(msgs, Data(bule.coa))
  /\ UNCHANGED <<coa, bule, bc, nonceVars, lossy, aborted>>

\* 1/3 s has passed since the last BU.
UpdateNoLongerRecent ==
  /\ Running
  /\ bule # None /\ bule.recent
  /\ bule' = [bule EXCEPT !.recent = FALSE]
  /\ UNCHANGED <<coa, bc, nonceVars, msgs, lossy, aborted>>

\* MIPv6CDSMobileNode::expireLifetimes; the entry cancels its timers.
ExpireEntry ==
  /\ Running
  /\ bule # None
  /\ bule' = None
  /\ UNCHANGED <<coa, bc, nonceVars, msgs, lossy, aborted>>

-----------------------------------------------------------------------------
(* Correspondent node *)

\* processTI
ReceiveTI(m) ==
  /\ Running
  /\ \/ m.type = "HoTI" /\ Send(msgs \ {m}, HoT(m.cookie, CurrentNonce))
     \/ m.type = "CoTI" /\ Send(msgs \ {m}, CoT(m.src, m.cookie, CurrentNonce))
  /\ UNCHANGED <<coa, bule, bc, nonceVars, lossy, aborted>>

GenerateNonce ==
  /\ Running
  /\ \E n \in Nonce : nonceGeneration(n)
  /\ UNCHANGED <<coa, bule, bc, msgs, lossy, aborted>>

\* preprocessBU refuses a BU that is not newer than the binding.
RejectBU(m) ==
  /\ bc # None /\ m.seq <= bc.seq
  /\ Send(msgs \ {m}, BA(m.coa, "SEQ_OUT_OF_WINDOW", bc.seq))
  /\ UNCHANGED bc

\* The nonces of the BU that the ring still has; their lack is told with sequence
\* number 0.
Refusal(m) ==
  CASE ~ checkNonces(m.hni) /\ (m.coa = Home \/ checkNonces(m.coni)) -> "UNREC_HONI"
    [] m.coa # Home /\ checkNonces(m.hni) /\ ~ checkNonces(m.coni) -> "UNREC_CONI"
    [] m.coa # Home /\ ~ checkNonces(m.hni) /\ ~ checkNonces(m.coni) -> "UNREC_BOTHNI"
    [] OTHER -> "none"

RefuseNonces(m) ==
  /\ Refusal(m) # "none"
  /\ Send(msgs \ {m}, BA(m.coa, Refusal(m), 0))
  /\ UNCHANGED bc

deregisterBCE(m) ==
  /\ m.coa = Home
  /\ Refusal(m) = "none"
  /\ bc' = None
  /\ IF bc = None THEN Send(msgs \ {m}, BE(m.coa)) ELSE msgs' = msgs \ {m}

registerBCE(m) ==
  /\ m.coa # Home
  /\ Refusal(m) = "none"
  /\ bc' = [coa |-> m.coa, seq |-> m.seq]
  /\ msgs' = msgs \ {m}

\* MIPv6MStateCorrespondentNode::processBU
ReceiveBU(m) ==
  /\ Running
  /\ m.type = "BU"
  /\ \/ RejectBU(m)
     \/ (bc # None => m.seq > bc.seq) /\ (RefuseNonces(m) \/ deregisterBCE(m) \/ registerBCE(m))
  /\ UNCHANGED <<coa, bule, nonceVars, lossy, aborted>>

\* processReceivedHoADestOpt
ReceiveData(m) ==
  /\ Running
  /\ m.type = "Data"
  /\ IF bc # None /\ bc.coa = m.src THEN msgs' = msgs \ {m}
                                    ELSE Send(msgs \ {m}, BE(m.src))
  /\ UNCHANGED <<coa, bule, bc, nonceVars, lossy, aborted>>

\* MIPv6CDS::expireLifetimes
ExpireBinding ==
  /\ Running
  /\ bc # None
  /\ bc' = None
  /\ UNCHANGED <<coa, bule, nonceVars, msgs, lossy, aborted>>

-----------------------------------------------------------------------------

\* From now on no message is lost.
LossEnds ==
  /\ Running
  /\ lossy
  /\ lossy' = FALSE
  /\ UNCHANGED <<coa, bule, bc, nonceVars, msgs, aborted>>

Init ==
  /\ coa = Home
  /\ bule = None
  /\ bc = None
  /\ \E n \in Nonce : InitNonces(n)
  /\ msgs = {}
  /\ lossy = TRUE
  /\ aborted = "none"

Move == \E c \in Addr : Handover(c)

Test == sendHoTI \/ sendCoTI

Timer == UpdateNoLongerRecent \/ ExpireEntry \/ ExpireBinding \/ GenerateNonce

Deliver == \E m \in msgs : \/ ReceiveHoT(m) \/ ReceiveCoT(m) \/ ReceiveBA(m) \/ ReceiveBE(m)
                           \/ ReceiveTI(m) \/ ReceiveBU(m) \/ ReceiveData(m)

Next == Move \/ StartRouteOptimisation \/ SendData \/ Test \/ Timer \/ Deliver \/ LossEnds

Spec == Init /\ [][Next]_vars

\* Scheduled timers fire, messages in flight are delivered, and the network is
\* reliable in the end.  Entries need not expire.
FairSpec == /\ Spec
            /\ WF_vars(sendHoTI)
            /\ WF_vars(sendCoTI)
            /\ WF_vars(Deliver)
            /\ WF_vars(LossEnds)

-----------------------------------------------------------------------------
(* Types *)

Entry == [coa : Addr, seq : Nat, hoti : BOOLEAN, coti : Foreign \cup {None},
          homeCookie : Nat, careOfCookie : Nat, homeNI : Nat, careOfNI : Nat,
          sent : BOOLEAN, recent : BOOLEAN, tested : Foreign \cup {None},
          mishaps : SUBSET Mishap]
Binding == [coa : Foreign, seq : Nat]

\* The type of every variable.  No care-of test is made of the home address, and
\* the cache never binds it to itself.
TypeOK ==
  /\ coa \in Addr
  /\ bule \in Entry \cup {None}
  /\ bc \in Binding \cup {None}
  /\ nonces \in [Slots -> Nat]
  /\ noncesIndex \in Slots
  /\ msgs \subseteq Message
  /\ lossy \in BOOLEAN

-----------------------------------------------------------------------------
(* Safety *)

\* The two tests end in either order and after any number of repetitions; whichever
\* ends last sends the BU, so that no entry is left with both nonces and no timer.
TokensSpent ==
  bule # None /\ bule.homeNI # 0 /\ bule.careOfNI # 0 => isPerformingRR(bule)

\* A BU for a CoA carries the nonce of a care-of test that was answered at that CoA,
\* unless the MN moved while a test was going on: sendBU, "rr should already have been
\* done" (MIPv6MStateMobileNode.cc:1301).  Neither an earlier procedure that ended with
\* a nonce 0 nor a handover too early for a test makes an old care-of nonce pass.
CareOfTested ==
  \A m \in msgs : m.type = "BU" /\ m.coa # Home => m.tested = m.coa \/ "moved" \in m.mishaps

\* mnSendPacketCheck sends a packet directly "if bule contains this mn's coa"
\* (MIPv6MStateMobileNode.cc:1584).  Its source is the CoA in use, unless since the
\* last BU a handover fell into a test or into the 1/3 s after the BU, or a nonce was 0;
\* the BU that ends a procedure makes good whatever befell it.
OptimisedFromCurrent == Optimised => bule.coa = coa \/ bule.mishaps # {}

\* assert(!bule->isPerformingRR()), MIPv6MStateMobileNode.cc:1306: no BU is sent to the
\* CN while a test is going on, unless since the last BU the MN moved during a test or
\* received a nonce 0.  An answer that is late or repeated does not bring it about.
AbortsAfterMishap == ~ Running => bule.mishaps \cap {"moved", "zero"} # {}

-----------------------------------------------------------------------------
(* Liveness *)

\* A return routability procedure that has begun ends with a BU, or without one if a
\* nonce was 0, or with the removal of the entry, though the messages of both tests may
\* be lost any number of times: the timers repeat each test until its own answer has
\* come.  Only a handover during it can keep it from ending, or end the program.
ProcedureEnds ==
  bule # None /\ isPerformingRR(bule)
    ~> \/ ~ Running
       \/ bule = None
       \/ "moved" \in bule.mishaps
       \/ ~ isPerformingRR(bule) /\ (bule.recent \/ "zero" \in bule.mishaps)
=============================================================================
