------------------------ MODULE ReturnRoutabilityProofs ------------------------
(***************************************************************************)
(* Proofs about return routability, for any movement of the mobile node    *)
(* and any nonces.                                                         *)
(*                                                                         *)
(* Type correctness and TokensSpent are inductive by themselves.  The      *)
(* other properties say what a BU, a packet sent directly and a failed     *)
(* assertion owe to the mishaps of the entry.  Their invariant (RRInv)     *)
(* says what the entry holds in each phase, as far as its mishaps let it   *)
(* (Phases), that a test whose timer is off has no message left that the   *)
(* entry would take (Answers), and that cookies tell tests apart (Unique). *)
(***************************************************************************)
EXTENDS ReturnRoutability, FiniteSetTheorems, TLAPS

TestTypes == {"HoTI", "CoTI", "HoT", "CoT"}

\* Nothing has befallen the entry that can make a BU of it fail.
Sound(e) == "moved" \notin e.mishaps /\ "zero" \notin e.mishaps

\* Idle, a sound entry holds no nonce; while RR goes on, it holds the nonce of each
\* test whose timer is off, and of no other home test.
SoundPhases(e) ==
  /\ ~ isPerformingRR(e) => e.homeNI = 0 /\ e.careOfNI = 0 /\ e.sent
  /\ e.hoti => e.homeNI = 0
  /\ e.coti # None /\ ~ e.hoti => e.homeNI # 0
  /\ coa = Home => e.sent /\ e.careOfNI = 0
  /\ e.hoti /\ e.coti = None /\ coa # Home => e.careOfNI # 0

\* What a handover during a test ends: the care-of test is of the CoA in use, and the
\* nonce of an answered one was received there.
CareOfPhases(e) ==
  /\ e.coti # None => e.coti = coa
  /\ e.careOfNI # 0 /\ e.coti = None /\ coa # Home => e.tested = coa

PhasesOf(e) ==
  /\ e.recent => ~ isPerformingRR(e) /\ e.homeNI = 0 /\ e.careOfNI = 0
  /\ "moved" \notin e.mishaps => CareOfPhases(e)
  /\ Sound(e) => SoundPhases(e)
  /\ e.mishaps = {} /\ ~ isPerformingRR(e) => e.coa = coa

Phases == bule # None => PhasesOf(bule)

\* Only the test that is being repeated has messages in flight with the cookie of the
\* entry.
Answers ==
  \A m \in msgs :
    /\ m.type \in {"HoTI", "HoT"} /\ bule # None /\ m.cookie = bule.homeCookie => bule.hoti
    /\ m.type \in {"CoTI", "CoT"} /\ bule # None /\ m.cookie = bule.careOfCookie
         => bule.coti # None

\* A test has one message in flight.
Unique ==
  \A m, n \in msgs :
    m.type \in TestTypes /\ n.type \in TestTypes /\ m.cookie = n.cookie => m = n

\* The conjuncts of RRInv but the types.
Rest == Phases /\ Answers /\ Unique /\ CareOfTested /\ AbortsAfterMishap

RRInv == TypeOK /\ Rest

-----------------------------------------------------------------------------
(* What the helpers return *)

LEMMA SentEntryFields ==
  ASSUME NEW e \in Entry, coa \in Addr
  PROVE  /\ SentEntry(e) \in Entry
         /\ SentEntry(e).coa = coa /\ SentEntry(e).seq = e.seq + 1
         /\ SentEntry(e).homeNI = 0 /\ SentEntry(e).careOfNI = 0
         /\ SentEntry(e).sent = TRUE /\ SentEntry(e).recent = TRUE
         /\ SentEntry(e).mishaps = {}
         /\ SentEntry(e).hoti = e.hoti /\ SentEntry(e).coti = e.coti
         /\ SentEntry(e).homeCookie = e.homeCookie
         /\ SentEntry(e).careOfCookie = e.careOfCookie
         /\ SentEntry(e).tested = e.tested
<1>1. e.seq + 1 \in Nat
  BY DEF Entry
<1>2. SentEntry(e) \in Entry
  BY <1>1 DEF SentEntry, Entry
<1>3. /\ SentEntry(e).coa = coa /\ SentEntry(e).seq = e.seq + 1
      /\ SentEntry(e).homeNI = 0 /\ SentEntry(e).careOfNI = 0
      /\ SentEntry(e).sent = TRUE /\ SentEntry(e).recent = TRUE
      /\ SentEntry(e).mishaps = {}
  BY DEF SentEntry, Entry
<1>4. /\ SentEntry(e).hoti = e.hoti /\ SentEntry(e).coti = e.coti
      /\ SentEntry(e).homeCookie = e.homeCookie
      /\ SentEntry(e).careOfCookie = e.careOfCookie
      /\ SentEntry(e).tested = e.tested
  BY DEF SentEntry, Entry
<1> QED
  BY <1>2, <1>3, <1>4

LEMMA InitiatedFields ==
  ASSUME NEW e \in Entry, NEW c \in Addr
  PROVE  /\ Initiated(e, c) \in Entry
         /\ Initiated(e, c).hoti = TRUE
         /\ Initiated(e, c).coti = (IF c = Home THEN None ELSE c)
         /\ Initiated(e, c).homeNI = e.homeNI /\ Initiated(e, c).careOfNI = e.careOfNI
         /\ Initiated(e, c).sent = e.sent /\ Initiated(e, c).recent = e.recent
         /\ Initiated(e, c).mishaps = e.mishaps /\ Initiated(e, c).tested = e.tested
         /\ Initiated(e, c).homeCookie = e.homeCookie
         /\ Initiated(e, c).careOfCookie = e.careOfCookie
<1>1. /\ Initiated(e, c) \in Entry
      /\ Initiated(e, c).hoti = TRUE
      /\ Initiated(e, c).coti = (IF c = Home THEN None ELSE c)
  BY ParamAssumption DEF Initiated, Entry, Addr
<1>2. /\ Initiated(e, c).homeNI = e.homeNI /\ Initiated(e, c).careOfNI = e.careOfNI
      /\ Initiated(e, c).sent = e.sent /\ Initiated(e, c).recent = e.recent
      /\ Initiated(e, c).mishaps = e.mishaps /\ Initiated(e, c).tested = e.tested
      /\ Initiated(e, c).homeCookie = e.homeCookie
      /\ Initiated(e, c).careOfCookie = e.careOfCookie
  BY DEF Initiated, Entry
<1> QED
  BY <1>1, <1>2

LEMMA NewEntryType ==
  ASSUME NEW c \in Addr
  PROVE  NewEntry(c) \in Entry
BY DEF NewEntry, Entry, Mishap

LEMMA FreshCookieIsFresh ==
  ASSUME FreshCookies # {}
  PROVE  /\ FreshCookie \in Cookie
         /\ \A m \in msgs : m.type \in TestTypes => m.cookie # FreshCookie
<1>1. FreshCookie \in FreshCookies
  BY DEF FreshCookie
<1> QED
  BY <1>1 DEF FreshCookies, TestTypes

LEMMA MessageFields ==
  ASSUME NEW m \in Message
  PROVE  /\ m.type \in TestTypes => m.cookie \in Cookie
         /\ m.type \in {"HoT", "CoT"} => m.ni \in Nat
         /\ m.type = "CoTI" => m.src \in Foreign
         /\ m.type = "CoT" => m.dst \in Foreign
         /\ m.type = "BU" => m.coa \in Addr /\ m.seq \in Nat
         /\ m.type = "BA" => m.dst \in Addr /\ m.seq \in Nat
         /\ m.type = "Data" => m.src \in Foreign
BY DEF Message, TestTypes

LEMMA TestMessageTypes ==
  ASSUME NEW cookie \in Cookie, NEW c \in Foreign, NEW ni \in Nat
  PROVE  /\ HoTI(cookie) \in Message /\ CoTI(c, cookie) \in Message
         /\ HoT(cookie, ni) \in Message /\ CoT(c, cookie, ni) \in Message
         /\ Data(c) \in Message
BY DEF HoTI, CoTI, HoT, CoT, Data, Message

LEMMA ReplyTypes ==
  ASSUME NEW dst \in Addr, NEW status \in Status, NEW seq \in Nat
  PROVE  BA(dst, status, seq) \in Message /\ BE(dst) \in Message
BY DEF BA, BE, Message

LEMMA BUType ==
  ASSUME coa \in Addr, NEW e \in Entry
  PROVE  BU(coa, e.seq + 1, e.homeNI, e.careOfNI, e.tested, e.mishaps) \in Message
<1>1. /\ e.seq + 1 \in Nat /\ e.homeNI \in Nat /\ e.careOfNI \in Nat
      /\ e.tested \in Foreign \cup {None} /\ e.mishaps \in SUBSET Mishap
  BY DEF Entry
<1> QED
  BY <1>1 DEF BU, Message

LEMMA SendType ==
  ASSUME NEW rest \in SUBSET Message, NEW m \in Message, Send(rest, m)
  PROVE  msgs' \subseteq Message
BY DEF Send

\* The ends of processTest, e being the entry with the answer recorded: the BU is
\* sent and the nonces are used up, sendBU fails, or another answer is waited for.
Sends(e, rest) ==
  /\ ~ isPerformingRR(e)
  /\ coa = Home \/ testSuccess(e)
  /\ bule' = SentEntry(e)
  /\ Send(rest, BU(coa, e.seq + 1, e.homeNI, e.careOfNI, e.tested, e.mishaps))
  /\ aborted' = aborted

Fails(e, rest) ==
  /\ isPerformingRR(e) /\ coa = Home
  /\ bule' = e /\ msgs' = rest

Waits(e, rest) ==
  /\ ~ testSuccess(e)
  /\ ~ (coa = Home /\ e.homeNI # 0 /\ e.sent)
  /\ bule' = e /\ msgs' = rest /\ aborted' = aborted

LEMMA TestReceivedCases ==
  ASSUME NEW e, NEW rest, TestReceived(e, rest)
  PROVE  Sends(e, rest) \/ Fails(e, rest) \/ Waits(e, rest)
BY DEF TestReceived, sendBU, Require, testSuccess, Sends, Fails, Waits

\* The entry that a handover befalls, and the one after the answer to a test has been
\* recorded.
LEMMA BefallenFields ==
  ASSUME NEW e \in Entry, NEW mishap \in Mishap
  PROVE  /\ Befallen(e, mishap) \in Entry
         /\ Befallen(e, mishap).mishaps = e.mishaps \cup {mishap}
         /\ Befallen(e, mishap).coa = e.coa /\ Befallen(e, mishap).tested = e.tested
         /\ Befallen(e, mishap).hoti = e.hoti /\ Befallen(e, mishap).coti = e.coti
         /\ Befallen(e, mishap).homeNI = e.homeNI /\ Befallen(e, mishap).careOfNI = e.careOfNI
         /\ Befallen(e, mishap).sent = e.sent /\ Befallen(e, mishap).recent = e.recent
         /\ Befallen(e, mishap).homeCookie = e.homeCookie
         /\ Befallen(e, mishap).careOfCookie = e.careOfCookie
<1>1. Befallen(e, mishap) \in Entry
  BY DEF Befallen, Entry
<1>2. /\ Befallen(e, mishap).mishaps = e.mishaps \cup {mishap}
      /\ Befallen(e, mishap).coa = e.coa /\ Befallen(e, mishap).tested = e.tested
      /\ Befallen(e, mishap).hoti = e.hoti /\ Befallen(e, mishap).coti = e.coti
      /\ Befallen(e, mishap).homeNI = e.homeNI /\ Befallen(e, mishap).careOfNI = e.careOfNI
  BY DEF Befallen, Entry
<1>3. /\ Befallen(e, mishap).sent = e.sent /\ Befallen(e, mishap).recent = e.recent
      /\ Befallen(e, mishap).homeCookie = e.homeCookie
      /\ Befallen(e, mishap).careOfCookie = e.careOfCookie
  BY DEF Befallen, Entry
<1> QED
  BY <1>1, <1>2, <1>3

LEMMA HoTRecorded ==
  ASSUME NEW e \in Entry, NEW ni \in Nat
  PROVE  /\ WithHomeNonce(e, ni) \in Entry
         /\ WithHomeNonce(e, ni).hoti = FALSE /\ WithHomeNonce(e, ni).homeNI = ni
         /\ WithHomeNonce(e, ni).mishaps = (IF ni = 0 THEN e.mishaps \cup {"zero"} ELSE e.mishaps)
         /\ WithHomeNonce(e, ni).coti = e.coti /\ WithHomeNonce(e, ni).careOfNI = e.careOfNI
         /\ WithHomeNonce(e, ni).coa = e.coa /\ WithHomeNonce(e, ni).tested = e.tested
         /\ WithHomeNonce(e, ni).sent = e.sent /\ WithHomeNonce(e, ni).recent = e.recent
         /\ WithHomeNonce(e, ni).homeCookie = e.homeCookie
         /\ WithHomeNonce(e, ni).careOfCookie = e.careOfCookie
<1>1. e.mishaps \cup {"zero"} \in SUBSET Mishap
  BY DEF Entry, Mishap
<1>2. WithHomeNonce(e, ni) \in Entry
  BY <1>1 DEF WithHomeNonce, Entry
<1>3. /\ WithHomeNonce(e, ni).hoti = FALSE /\ WithHomeNonce(e, ni).homeNI = ni
      /\ WithHomeNonce(e, ni).mishaps = (IF ni = 0 THEN e.mishaps \cup {"zero"} ELSE e.mishaps)
      /\ WithHomeNonce(e, ni).coti = e.coti /\ WithHomeNonce(e, ni).careOfNI = e.careOfNI
  BY DEF WithHomeNonce, Entry
<1>4. /\ WithHomeNonce(e, ni).coa = e.coa /\ WithHomeNonce(e, ni).tested = e.tested
      /\ WithHomeNonce(e, ni).sent = e.sent /\ WithHomeNonce(e, ni).recent = e.recent
      /\ WithHomeNonce(e, ni).homeCookie = e.homeCookie
      /\ WithHomeNonce(e, ni).careOfCookie = e.careOfCookie
  BY DEF WithHomeNonce, Entry
<1> QED
  BY <1>2, <1>3, <1>4

LEMMA CoTRecorded ==
  ASSUME NEW e \in Entry, NEW ni \in Nat, NEW c \in Foreign
  PROVE  /\ WithCareOfNonce(e, ni, c) \in Entry
         /\ WithCareOfNonce(e, ni, c).coti = None /\ WithCareOfNonce(e, ni, c).careOfNI = ni
         /\ WithCareOfNonce(e, ni, c).tested = c
         /\ WithCareOfNonce(e, ni, c).mishaps
              = (IF ni = 0 THEN e.mishaps \cup {"zero"} ELSE e.mishaps)
         /\ WithCareOfNonce(e, ni, c).hoti = e.hoti /\ WithCareOfNonce(e, ni, c).homeNI = e.homeNI
         /\ WithCareOfNonce(e, ni, c).coa = e.coa
         /\ WithCareOfNonce(e, ni, c).sent = e.sent /\ WithCareOfNonce(e, ni, c).recent = e.recent
         /\ WithCareOfNonce(e, ni, c).homeCookie = e.homeCookie
         /\ WithCareOfNonce(e, ni, c).careOfCookie = e.careOfCookie
<1>1. e.mishaps \cup {"zero"} \in SUBSET Mishap
  BY DEF Entry, Mishap
<1>2. WithCareOfNonce(e, ni, c) \in Entry
  BY <1>1 DEF WithCareOfNonce, Entry
<1>3. /\ WithCareOfNonce(e, ni, c).coti = None /\ WithCareOfNonce(e, ni, c).careOfNI = ni
      /\ WithCareOfNonce(e, ni, c).tested = c
      /\ WithCareOfNonce(e, ni, c).mishaps
           = (IF ni = 0 THEN e.mishaps \cup {"zero"} ELSE e.mishaps)
  BY DEF WithCareOfNonce, Entry
<1>4. /\ WithCareOfNonce(e, ni, c).hoti = e.hoti /\ WithCareOfNonce(e, ni, c).homeNI = e.homeNI
      /\ WithCareOfNonce(e, ni, c).coa = e.coa
      /\ WithCareOfNonce(e, ni, c).sent = e.sent /\ WithCareOfNonce(e, ni, c).recent = e.recent
      /\ WithCareOfNonce(e, ni, c).homeCookie = e.homeCookie
      /\ WithCareOfNonce(e, ni, c).careOfCookie = e.careOfCookie
  BY DEF WithCareOfNonce, Entry
<1> QED
  BY <1>2, <1>3, <1>4

-----------------------------------------------------------------------------
(* Types *)

LEMMA CurrentNonceType ==
  ASSUME TypeOK
  PROVE  CurrentNonce \in Nat
BY DEF TypeOK, CurrentNonce

LEMMA RefusalType ==
  ASSUME NEW m, Refusal(m) # "none"
  PROVE  Refusal(m) \in Status
BY DEF Refusal, Status

\* The end of processTest keeps types.
LEMMA TestReceivedTypes ==
  ASSUME coa \in Addr, NEW e \in Entry, NEW rest \in SUBSET Message, TestReceived(e, rest)
  PROVE  bule' \in Entry /\ msgs' \subseteq Message
<1>1. CASE bule' = e /\ msgs' = rest
  BY <1>1
<1>2. CASE Sends(e, rest)
  <2>1. bule' \in Entry
    BY <1>2, SentEntryFields DEF Sends
  <2>2. BU(coa, e.seq + 1, e.homeNI, e.careOfNI, e.tested, e.mishaps) \in Message
    BY BUType
  <2> QED
    BY <1>2, <2>1, <2>2, SendType DEF Sends
<1> QED
  BY <1>1, <1>2, TestReceivedCases DEF Fails, Waits

LEMMA NonceTypes ==
  ASSUME TypeOK, NEW n \in Nonce, nonceGeneration(n)
  PROVE  nonces' \in [Slots -> Nat] /\ noncesIndex' \in Slots
<1>1. NextSlot \in Slots
  BY SlotsAssumption DEF TypeOK, NextSlot, Slots
<1>2. n \in Nat
  BY ParamAssumption
<1> QED
  BY <1>1, <1>2 DEF TypeOK, nonceGeneration

\* Type correctness is inductive.
LEMMA NextTypes ==
  ASSUME TypeOK, [Next]_vars
  PROVE  TypeOK'
<1> USE DEF TypeOK
<1>1. ASSUME NEW c \in Addr, Handover(c)
      PROVE  TypeOK'
  <2>1. bule' \in Entry \cup {None}
    <3>1. CASE UNCHANGED bule
      BY <3>1
    <3>2. CASE bule # None /\ bule' = Initiated(bule, c)
      BY <3>2, InitiatedFields
    <3>3. CASE bule # None /\ \E mishap \in Mishap : bule' = Befallen(bule, mishap)
      BY <3>3, BefallenFields
    <3> QED
      BY <1>1, <3>1, <3>2, <3>3 DEF Handover, HandoverUnnoticed, HandoverTested, Mishap
  <2> QED
    BY <1>1, <2>1 DEF Handover, nonceVars
<1>2. CASE StartRouteOptimisation
  <2>1. bule' \in Entry
    BY <1>2, NewEntryType, InitiatedFields DEF StartRouteOptimisation
  <2> QED
    BY <1>2, <2>1 DEF StartRouteOptimisation, nonceVars
<1>3. CASE SendData
  <2>1. bule \in Entry /\ bule.coa \in Foreign
    BY <1>3 DEF SendData, Optimised, Entry, Addr
  <2>2. Data(bule.coa) \in Message
    BY <2>1 DEF Data, Message
  <2>3. msgs' \subseteq Message
    BY <1>3, <2>2, SendType DEF SendData
  <2> QED
    BY <1>3, <2>3 DEF SendData, nonceVars
<1>4. CASE sendHoTI
  <2>1. FreshCookie \in Cookie /\ FreshCookie \in Nat
    BY <1>4, FreshCookieIsFresh, ParamAssumption DEF sendHoTI
  <2>2. bule' \in Entry
    BY <1>4, <2>1 DEF sendHoTI, Entry
  <2>3. msgs' \subseteq Message
    <3>1. HoTI(FreshCookie) \in Message
      BY <2>1 DEF HoTI, Message
    <3> QED
      BY <1>4, <3>1, SendType DEF sendHoTI
  <2> QED
    BY <1>4, <2>2, <2>3 DEF sendHoTI, nonceVars
<1>5. CASE sendCoTI
  <2>1. FreshCookie \in Cookie /\ FreshCookie \in Nat
    BY <1>5, FreshCookieIsFresh, ParamAssumption DEF sendCoTI
  <2>2. bule' \in Entry
    BY <1>5, <2>1 DEF sendCoTI, Entry
  <2>3. msgs' \subseteq Message
    <3>1. bule \in Entry /\ bule.coti \in Foreign
      BY <1>5 DEF sendCoTI, Entry
    <3>2. CoTI(bule.coti, FreshCookie) \in Message
      BY <2>1, <3>1 DEF CoTI, Message
    <3> QED
      BY <1>5, <3>2, SendType DEF sendCoTI
  <2> QED
    BY <1>5, <2>2, <2>3 DEF sendCoTI, nonceVars
<1>6. CASE UpdateNoLongerRecent
  <2>1. bule' \in Entry
    BY <1>6 DEF UpdateNoLongerRecent, Entry
  <2> QED
    BY <1>6, <2>1 DEF UpdateNoLongerRecent, nonceVars
<1>7. CASE ExpireEntry \/ ExpireBinding \/ LossEnds
  BY <1>7 DEF ExpireEntry, ExpireBinding, LossEnds, nonceVars
<1>8. CASE GenerateNonce
  BY <1>8, NonceTypes DEF GenerateNonce
<1>9. ASSUME NEW m \in msgs, ReceiveHoT(m)
      PROVE  TypeOK'
  <2>1. bule' \in Entry \cup {None} /\ msgs' \subseteq Message
    <3>1. CASE msgs' = msgs \ {m} /\ UNCHANGED bule
      BY <3>1
    <3>2. CASE bule # None /\ TestReceived(WithHomeNonce(bule, m.ni), msgs \ {m})
      <4>1. m.ni \in Nat
        BY <1>9, MessageFields DEF ReceiveHoT
      <4>2. WithHomeNonce(bule, m.ni) \in Entry
        BY <3>2, <4>1, HoTRecorded
      <4> QED
        BY <3>2, <4>2, TestReceivedTypes
    <3> QED
      BY <1>9, <3>1, <3>2 DEF ReceiveHoT
  <2> QED
    BY <1>9, <2>1 DEF ReceiveHoT, nonceVars
<1>10. ASSUME NEW m \in msgs, ReceiveCoT(m)
       PROVE  TypeOK'
  <2>1. bule' \in Entry \cup {None} /\ msgs' \subseteq Message
    <3>1. CASE msgs' = msgs \ {m} /\ UNCHANGED bule
      BY <3>1
    <3>2. CASE bule # None /\ TestReceived(WithCareOfNonce(bule, m.ni, m.dst), msgs \ {m})
      <4>1. m.ni \in Nat /\ m.dst \in Foreign
        BY <1>10, MessageFields DEF ReceiveCoT
      <4>2. WithCareOfNonce(bule, m.ni, m.dst) \in Entry
        BY <3>2, <4>1, CoTRecorded
      <4> QED
        BY <3>2, <4>2, TestReceivedTypes
    <3> QED
      BY <1>10, <3>1, <3>2 DEF ReceiveCoT
  <2> QED
    BY <1>10, <2>1 DEF ReceiveCoT, nonceVars
<1>11. ASSUME NEW m \in msgs, ReceiveBA(m)
       PROVE  TypeOK'
  <2>1. m.seq + 1 \in Nat
    BY <1>11, MessageFields DEF ReceiveBA
  <2>2. bule # None => [bule EXCEPT !.seq = m.seq + 1] \in Entry
    BY <2>1 DEF Entry
  <2>3. bule' \in Entry \cup {None}
    BY <1>11, <2>2 DEF ReceiveBA
  <2> QED
    BY <1>11, <2>3 DEF ReceiveBA, nonceVars
<1>12. ASSUME NEW m \in msgs, ReceiveBE(m)
       PROVE  TypeOK'
  BY <1>12 DEF ReceiveBE, nonceVars
<1>13. ASSUME NEW m \in msgs, ReceiveTI(m)
       PROVE  TypeOK'
  <2>1. m.type \in TestTypes /\ m.cookie \in Cookie
    BY <1>13, MessageFields DEF ReceiveTI, TestTypes
  <2>2. msgs' \subseteq Message
    <3>1. CASE m.type = "HoTI" /\ Send(msgs \ {m}, HoT(m.cookie, CurrentNonce))
      <4>1. HoT(m.cookie, CurrentNonce) \in Message
        BY <2>1, CurrentNonceType DEF HoT, Message
      <4> QED
        BY <3>1, <4>1, SendType
    <3>2. CASE m.type = "CoTI" /\ Send(msgs \ {m}, CoT(m.src, m.cookie, CurrentNonce))
      <4>1. m.src \in Foreign
        BY <3>2, MessageFields
      <4>2. CoT(m.src, m.cookie, CurrentNonce) \in Message
        BY <2>1, <4>1, CurrentNonceType DEF CoT, Message
      <4> QED
        BY <3>2, <4>2, SendType
    <3> QED
      BY <1>13, <3>1, <3>2 DEF ReceiveTI
  <2> QED
    BY <1>13, <2>2 DEF ReceiveTI, nonceVars
<1>14. ASSUME NEW m \in msgs, ReceiveBU(m)
       PROVE  TypeOK'
  <2>1. m.coa \in Addr /\ m.seq \in Nat
    BY <1>14, MessageFields DEF ReceiveBU
  <2>2. bc' \in Binding \cup {None} /\ msgs' \subseteq Message
    <3>1. CASE RejectBU(m)
      <4>1. bc.seq \in Nat
        BY <3>1 DEF RejectBU, Binding
      <4>2. BA(m.coa, "SEQ_OUT_OF_WINDOW", bc.seq) \in Message
        BY <2>1, <4>1, ReplyTypes DEF Status
      <4> QED
        BY <3>1, <4>2, SendType DEF RejectBU
    <3>2. CASE RefuseNonces(m)
      <4>1. BA(m.coa, Refusal(m), 0) \in Message
        BY <3>2, <2>1, RefusalType, ReplyTypes DEF RefuseNonces
      <4> QED
        BY <3>2, <4>1, SendType DEF RefuseNonces
    <3>3. CASE deregisterBCE(m)
      <4>1. BE(m.coa) \in Message
        BY <2>1 DEF BE, Message
      <4> QED
        BY <3>3, <4>1, SendType DEF deregisterBCE
    <3>4. CASE registerBCE(m)
      BY <3>4, <2>1 DEF registerBCE, Binding, Addr
    <3> QED
      BY <1>14, <3>1, <3>2, <3>3, <3>4 DEF ReceiveBU
  <2> QED
    BY <1>14, <2>2 DEF ReceiveBU, nonceVars
<1>15. ASSUME NEW m \in msgs, ReceiveData(m)
       PROVE  TypeOK'
  <2>1. m.src \in Foreign
    BY <1>15, MessageFields DEF ReceiveData
  <2>2. BE(m.src) \in Message
    BY <2>1 DEF BE, Message, Addr
  <2>3. msgs' \subseteq Message
    BY <1>15, <2>2, SendType DEF ReceiveData
  <2> QED
    BY <1>15, <2>3 DEF ReceiveData, nonceVars
<1>16. CASE UNCHANGED vars
  BY <1>16 DEF vars, nonceVars
<1> QED
  BY <1>1, <1>2, <1>3, <1>4, <1>5, <1>6, <1>7, <1>8, <1>9, <1>10, <1>11, <1>12, <1>13,
     <1>14, <1>15, <1>16 DEF Next, Move, Test, Timer, Deliver

LEMMA InitTypes ==
  ASSUME Init
  PROVE  TypeOK
<1>1. nonces \in [Slots -> Nat] /\ noncesIndex \in Slots
  BY ParamAssumption, SlotsAssumption DEF Init, InitNonces, Slots
<1> QED
  BY <1>1 DEF Init, TypeOK, Addr

\* The variables keep their types, whatever the movement and the loss of messages.
THEOREM TypeCorrect == Spec => []TypeOK
<1>1. Init => TypeOK
  BY InitTypes
<1>2. TypeOK /\ [Next]_vars => TypeOK'
  BY NextTypes
<1> QED
  BY <1>1, <1>2, PTL DEF Spec

-----------------------------------------------------------------------------
(* The nonces are used up *)

\* TokensSpent of one entry.
Spent(e) == e.homeNI # 0 /\ e.careOfNI # 0 => isPerformingRR(e)

LEMMA TestReceivedSpends ==
  ASSUME coa \in Addr, NEW e \in Entry, NEW rest, TestReceived(e, rest)
  PROVE  Spent(bule')
<1>1. CASE bule' = SentEntry(e)
  BY <1>1, SentEntryFields DEF Spent
<1>2. CASE (~ testSuccess(e) \/ isPerformingRR(e)) /\ bule' = e
  BY <1>2 DEF Spent, testSuccess
<1> QED
  BY <1>1, <1>2, TestReceivedCases DEF Sends, Fails, Waits

LEMMA NextSpends ==
  ASSUME TypeOK, TokensSpent, [Next]_vars
  PROVE  TokensSpent'
<1>1. bule \in Entry \cup {None} /\ coa \in Addr
  BY DEF TypeOK
<1>2. bule # None => Spent(bule)
  BY DEF TokensSpent, Spent
<1>3. SUFFICES bule' # None => Spent(bule')
  BY DEF TokensSpent, Spent, isPerformingRR
<1>4. CASE bule' = None \/ bule' = bule
  BY <1>2, <1>4
<1>5. ASSUME NEW c \in Addr, Handover(c)
      PROVE  bule' # None => Spent(bule')
  <2>1. CASE bule # None /\ bule' = Initiated(bule, c)
    BY <1>1, <2>1, InitiatedFields DEF Spent, isPerformingRR
  <2>2. CASE bule # None /\ \E mishap \in Mishap : bule' = Befallen(bule, mishap)
    BY <1>1, <1>2, <2>2, BefallenFields DEF Spent, isPerformingRR
  <2> QED
    BY <1>4, <1>5, <2>1, <2>2 DEF Handover, HandoverUnnoticed, HandoverTested, Mishap
<1>6. CASE StartRouteOptimisation
  BY <1>1, <1>6, NewEntryType, InitiatedFields
     DEF StartRouteOptimisation, Spent, isPerformingRR
<1>7. CASE sendHoTI \/ sendCoTI
  <2>1. bule \in Entry /\ \E k : \/ bule' = [bule EXCEPT !.homeCookie = k]
                                 \/ bule' = [bule EXCEPT !.careOfCookie = k]
    BY <1>1, <1>7 DEF sendHoTI, sendCoTI
  <2> QED
    BY <1>2, <1>7, <2>1 DEF Spent, isPerformingRR, Entry, sendHoTI, sendCoTI
<1>8. CASE UpdateNoLongerRecent
  <2>1. bule \in Entry /\ bule # None /\ bule' = [bule EXCEPT !.recent = FALSE]
    BY <1>1, <1>8 DEF UpdateNoLongerRecent
  <2> QED
    BY <1>2, <2>1 DEF Spent, isPerformingRR, Entry
<1>9. ASSUME NEW m \in msgs, ReceiveHoT(m)
      PROVE  bule' # None => Spent(bule')
  <2>1. CASE bule # None /\ TestReceived(WithHomeNonce(bule, m.ni), msgs \ {m})
    <3>1. m.ni \in Nat
      BY <1>9, MessageFields DEF ReceiveHoT, TypeOK
    <3>2. WithHomeNonce(bule, m.ni) \in Entry
      BY <1>1, <2>1, <3>1, HoTRecorded
    <3> QED
      BY <1>1, <2>1, <3>2, TestReceivedSpends
  <2> QED
    BY <1>4, <1>9, <2>1 DEF ReceiveHoT
<1>10. ASSUME NEW m \in msgs, ReceiveCoT(m)
       PROVE  bule' # None => Spent(bule')
  <2>1. CASE bule # None /\ TestReceived(WithCareOfNonce(bule, m.ni, m.dst), msgs \ {m})
    <3>1. m.ni \in Nat /\ m.dst \in Foreign
      BY <1>10, MessageFields DEF ReceiveCoT, TypeOK
    <3>2. WithCareOfNonce(bule, m.ni, m.dst) \in Entry
      BY <1>1, <2>1, <3>1, CoTRecorded
    <3> QED
      BY <1>1, <2>1, <3>2, TestReceivedSpends
  <2> QED
    BY <1>4, <1>10, <2>1 DEF ReceiveCoT
<1>11. ASSUME NEW m \in msgs, ReceiveBA(m)
       PROVE  bule' # None => Spent(bule')
  <2>1. CASE bule # None /\ bule' = [bule EXCEPT !.seq = m.seq + 1]
    BY <1>1, <1>2, <2>1 DEF Spent, isPerformingRR, Entry
  <2> QED
    BY <1>4, <1>11, <2>1 DEF ReceiveBA
<1>12. ASSUME \/ SendData \/ ExpireEntry \/ ExpireBinding \/ GenerateNonce \/ LossEnds
              \/ UNCHANGED vars
              \/ \E m \in msgs : ReceiveBE(m) \/ ReceiveTI(m) \/ ReceiveBU(m) \/ ReceiveData(m)
       PROVE  bule' = None \/ bule' = bule
  BY <1>12 DEF SendData, ExpireEntry, ExpireBinding, GenerateNonce, LossEnds, vars,
               ReceiveBE, ReceiveTI, ReceiveBU, ReceiveData
<1> QED
  BY <1>4, <1>5, <1>6, <1>7, <1>8, <1>9, <1>10, <1>11, <1>12
     DEF Next, Move, Test, Timer, Deliver

\* In whichever order and however often the tests end, the last to end sends the BU.
THEOREM TokensAreSpent == Spec => []TokensSpent
<1>1. Init => TypeOK /\ TokensSpent
  <2>1. Init => TokensSpent
    BY DEF Init, TokensSpent
  <2> QED
    BY <2>1, InitTypes
<1>2. TypeOK /\ TokensSpent /\ [Next]_vars => TypeOK' /\ TokensSpent'
  BY NextTypes, NextSpends
<1>3. Spec => [](TypeOK /\ TokensSpent)
  BY <1>1, <1>2, PTL DEF Spec
<1> QED
  BY <1>3, PTL

-----------------------------------------------------------------------------
(* The other properties of safety *)

\* What a step does not disturb when the MN, its entry and its tests are left alone.
LEMMA QuietStep ==
  ASSUME RRInv, UNCHANGED <<coa, bule, aborted>>,
         \A m \in msgs' : m \in msgs \/ m.type \in {"BA", "BE", "Data"}
  PROVE  Rest'
<1>1. Phases'
  BY DEF RRInv, Rest, Phases, PhasesOf, CareOfPhases, Sound, SoundPhases, isPerformingRR
<1>2. Answers'
  BY DEF RRInv, Rest, Answers
<1>3. Unique'
  BY DEF RRInv, Rest, Unique, TestTypes
<1>4. CareOfTested' /\ AbortsAfterMishap'
  BY DEF RRInv, Rest, CareOfTested, AbortsAfterMishap, Running
<1> QED
  BY <1>1, <1>2, <1>3, <1>4 DEF Rest

LEMMA SentMessages ==
  ASSUME NEW rest, NEW m, Send(rest, m)
  PROVE  \A n \in msgs' : n \in rest \/ n = m
BY DEF Send

\* The program has not ended: nothing is claimed of the mishaps.
LEMMA StillRunning ==
  ASSUME Running, aborted' = aborted
  PROVE  AbortsAfterMishap'
BY DEF AbortsAfterMishap, Running

\* The entry after a BU has been sent to the CN.
LEMMA BUSent ==
  ASSUME RRInv, Running, UNCHANGED coa, NEW e \in Entry, NEW t, bule # None,
         Sends(e, msgs \ {t}),
         e.homeCookie = bule.homeCookie, e.careOfCookie = bule.careOfCookie,
         coa # Home => e.tested = coa \/ "moved" \in e.mishaps,
         \A m \in msgs \ {t} :
           /\ ~ (m.type \in {"HoTI", "HoT"} /\ m.cookie = bule.homeCookie)
           /\ ~ (m.type \in {"CoTI", "CoT"} /\ m.cookie = bule.careOfCookie)
  PROVE  Rest'
<1> DEFINE b == BU(coa, e.seq + 1, e.homeNI, e.careOfNI, e.tested, e.mishaps)
<1>1. \A m \in msgs' : m \in msgs \ {t} \/ m = b
  BY SentMessages DEF Sends
<1>2. b.type = "BU" /\ b.coa = coa /\ b.tested = e.tested /\ b.mishaps = e.mishaps
  BY DEF BU
<1>3. /\ bule'.homeNI = 0 /\ bule'.careOfNI = 0 /\ bule'.sent /\ bule'.coa = coa
      /\ ~ bule'.hoti /\ bule'.coti = None
      /\ bule'.homeCookie = bule.homeCookie /\ bule'.careOfCookie = bule.careOfCookie
  BY SentEntryFields DEF isPerformingRR, Sends, RRInv, TypeOK
<1> HIDE DEF b
<1>4. Phases'
  BY <1>3 DEF Phases, PhasesOf, CareOfPhases, SoundPhases, isPerformingRR
<1>5. Answers'
  BY <1>1, <1>2, <1>3 DEF RRInv, Rest, Answers
<1>6. Unique'
  BY <1>1, <1>2 DEF RRInv, Rest, Unique, TestTypes
<1>7. CareOfTested'
  BY <1>1, <1>2 DEF RRInv, Rest, CareOfTested
<1>8. AbortsAfterMishap'
  BY StillRunning DEF Sends
<1> QED
  BY <1>4, <1>5, <1>6, <1>7, <1>8 DEF Rest

\* A handover during a test, or too early for one: the entry only notes it.
LEMMA UnnoticedKeeps ==
  ASSUME RRInv, Running, NEW c \in Addr, coa' = c, HandoverUnnoticed, UNCHANGED msgs,
         bule # None, isPerformingRR(bule) \/ bule.recent
  PROVE  Phases' /\ Answers'
<1>1. bule \in Entry /\ PhasesOf(bule)
  BY DEF RRInv, Rest, TypeOK, Phases
<1>2. PICK mishap \in Mishap :
        /\ bule' = Befallen(bule, mishap)
        /\ isPerformingRR(bule) => mishap = "moved"
        /\ ~ isPerformingRR(bule) => mishap = "early"
  BY DEF HandoverUnnoticed, Mishap
<1>3. /\ bule'.mishaps = bule.mishaps \cup {mishap}
      /\ bule'.hoti = bule.hoti /\ bule'.coti = bule.coti
      /\ bule'.homeNI = bule.homeNI /\ bule'.careOfNI = bule.careOfNI
      /\ bule'.sent = bule.sent /\ bule'.recent = bule.recent
      /\ bule'.homeCookie = bule.homeCookie /\ bule'.careOfCookie = bule.careOfCookie
  BY <1>1, <1>2, BefallenFields
<1>4. Answers'
  BY <1>3 DEF RRInv, Rest, Answers
<1>5. CASE isPerformingRR(bule)
  <2>1. "moved" \in bule'.mishaps /\ ~ bule'.recent
    BY <1>1, <1>2, <1>3, <1>5 DEF PhasesOf
  <2>2. PhasesOf(bule)'
    BY <2>1 DEF PhasesOf, Sound
  <2> QED
    BY <1>4, <2>2 DEF Phases
<1>6. CASE ~ isPerformingRR(bule)
  <2>1. bule.homeNI = 0 /\ bule.careOfNI = 0 /\ ~ bule.hoti /\ bule.coti = None
    BY <1>1, <1>6 DEF PhasesOf, isPerformingRR
  <2>2. bule'.mishaps = bule.mishaps \cup {"early"}
    BY <1>2, <1>3, <1>6
  <2>3. Sound(bule)' => bule'.sent
    BY <1>1, <1>3, <1>6, <2>2 DEF PhasesOf, Sound, SoundPhases
  <2>4. PhasesOf(bule)'
    BY <1>3, <2>1, <2>2, <2>3 DEF PhasesOf, CareOfPhases, Sound, SoundPhases, isPerformingRR
  <2> QED
    BY <1>4, <2>4 DEF Phases
<1> QED
  BY <1>5, <1>6

\* A handover that begins the tests: an idle entry holds nonces only after a mishap.
LEMMA TestedKeeps ==
  ASSUME RRInv, Running, NEW c \in Addr, coa' = c, HandoverTested(c), UNCHANGED msgs,
         bule # None, ~ isPerformingRR(bule), ~ bule.recent
  PROVE  Phases' /\ Answers' /\ AbortsAfterMishap'
<1>1. bule \in Entry /\ PhasesOf(bule)
  BY DEF RRInv, Rest, TypeOK, Phases
<1>2. /\ bule'.hoti /\ bule'.coti = (IF c = Home THEN None ELSE c)
      /\ bule'.homeNI = bule.homeNI /\ bule'.careOfNI = bule.careOfNI
      /\ bule'.sent = bule.sent /\ ~ bule'.recent /\ bule'.mishaps = bule.mishaps
      /\ bule'.homeCookie = bule.homeCookie /\ bule'.careOfCookie = bule.careOfCookie
  BY <1>1, InitiatedFields DEF HandoverTested
<1>3. Sound(bule) => bule.homeNI = 0 /\ bule.careOfNI = 0 /\ bule.sent
  BY <1>1 DEF PhasesOf, SoundPhases
<1>4. AbortsAfterMishap'
  <2>1. CASE c = Home => bule.homeNI = 0
    BY <2>1, StillRunning DEF HandoverTested, Require
  <2>2. CASE ~ (c = Home => bule.homeNI = 0)
    BY <1>2, <1>3, <2>2 DEF Sound, AbortsAfterMishap
  <2> QED
    BY <2>1, <2>2
<1>5. CareOfPhases(bule)'
  BY <1>2, ParamAssumption DEF CareOfPhases, Addr
<1>6. Sound(bule)' => SoundPhases(bule)'
  BY <1>2, <1>3, ParamAssumption DEF Sound, SoundPhases, isPerformingRR, Addr
<1>7. Phases'
  BY <1>2, <1>5, <1>6 DEF Phases, PhasesOf, isPerformingRR
<1>8. Answers'
  <2>1. \A m \in msgs : ~ (m.type \in {"CoTI", "CoT"} /\ m.cookie = bule.careOfCookie)
    BY DEF RRInv, Rest, Answers, isPerformingRR
  <2> QED
    BY <1>2, <2>1 DEF RRInv, Rest, Answers
<1> QED
  BY <1>4, <1>7, <1>8

LEMMA HandoverKeeps ==
  ASSUME RRInv, NEW c \in Addr, Handover(c)
  PROVE  Rest'
<1>1. coa' = c /\ UNCHANGED msgs /\ Running
  BY DEF Handover, MayMove
<1>2. Unique' /\ CareOfTested'
  BY <1>1 DEF RRInv, Rest, Unique, CareOfTested
<1>3. CASE bule = None
  <2>1. bule' = None /\ aborted' = aborted
    BY <1>3 DEF Handover, HandoverUnnoticed
  <2>2. Phases' /\ Answers'
    BY <1>1, <2>1 DEF Phases, Answers
  <2> QED
    BY <1>1, <1>2, <2>1, <2>2, StillRunning DEF Rest
<1>4. CASE bule # None /\ (isPerformingRR(bule) \/ bule.recent)
  <2>1. HandoverUnnoticed
    BY <1>4 DEF Handover
  <2>2. AbortsAfterMishap'
    BY <1>1, <2>1, StillRunning DEF HandoverUnnoticed
  <2> QED
    BY <1>1, <1>2, <1>4, <2>1, <2>2, UnnoticedKeeps DEF Rest
<1>5. CASE bule # None /\ ~ isPerformingRR(bule) /\ ~ bule.recent
  <2>1. HandoverTested(c)
    BY <1>5 DEF Handover
  <2> QED
    BY <1>1, <1>2, <1>5, <2>1, TestedKeeps DEF Rest
<1> QED
  BY <1>3, <1>4, <1>5

LEMMA StartKeeps ==
  ASSUME RRInv, StartRouteOptimisation
  PROVE  Rest'
<1>1. coa \in Addr /\ coa # Home /\ bule' = Initiated(NewEntry(coa), coa)
  BY DEF RRInv, TypeOK, StartRouteOptimisation
<1>2. UNCHANGED <<coa, msgs, aborted>> /\ Running
  BY DEF StartRouteOptimisation
<1>3. NewEntry(coa) \in Entry
  BY <1>1, NewEntryType
<1>4. /\ bule'.hoti /\ bule'.coti = coa /\ ~ bule'.recent
      /\ bule'.homeNI = 0 /\ bule'.careOfNI = 0
      /\ bule'.homeCookie = 0 /\ bule'.careOfCookie = 0
  <2>1. PICK e \in Entry : e = NewEntry(coa)
    BY <1>3
  <2>2. /\ e.homeNI = 0 /\ e.careOfNI = 0 /\ e.homeCookie = 0 /\ e.careOfCookie = 0
        /\ ~ e.recent
    BY <2>1 DEF NewEntry
  <2>3. PICK f : f = Initiated(e, coa)
    OBVIOUS
  <2>4. /\ f.hoti /\ f.coti = coa /\ f.homeNI = 0 /\ f.careOfNI = 0
        /\ f.homeCookie = 0 /\ f.careOfCookie = 0 /\ ~ f.recent
    BY <1>1, <2>2, <2>3, InitiatedFields
  <2> QED
    BY <1>1, <2>1, <2>3, <2>4
<1>5. Phases'
  <2>1. coa' = coa /\ coa # Home /\ coa # None
    BY <1>1, <1>2, ParamAssumption DEF Addr
  <2> QED
    BY <1>4, <2>1 DEF Phases, PhasesOf, CareOfPhases, SoundPhases, isPerformingRR
<1>6. Answers'
  <2>1. \A m \in msgs : m.type \in TestTypes => m.cookie # 0
    BY MessageFields, ParamAssumption DEF RRInv, TypeOK
  <2> QED
    BY <1>2, <1>4, <2>1 DEF Answers, TestTypes
<1>7. Unique' /\ CareOfTested'
  BY <1>2 DEF RRInv, Rest, Unique, CareOfTested
<1> QED
  BY <1>2, <1>5, <1>6, <1>7, StillRunning DEF Rest

LEMMA HoTIKeeps ==
  ASSUME RRInv, sendHoTI
  PROVE  Rest'
<1>1. bule \in Entry /\ bule.hoti /\ bule' = [bule EXCEPT !.homeCookie = FreshCookie]
  BY DEF RRInv, TypeOK, sendHoTI
<1>2. UNCHANGED <<coa, aborted>> /\ Send(msgs, HoTI(FreshCookie)) /\ Running
  BY DEF sendHoTI
<1>3. \A m \in msgs' : m \in msgs \/ m = HoTI(FreshCookie)
  BY <1>2, SentMessages
<1>4. /\ HoTI(FreshCookie).type = "HoTI" /\ HoTI(FreshCookie).cookie = FreshCookie
      /\ \A m \in msgs : m.type \in TestTypes => m.cookie # FreshCookie
  BY FreshCookieIsFresh DEF sendHoTI, HoTI
<1>5. /\ bule'.hoti = bule.hoti /\ bule'.coti = bule.coti
      /\ bule'.homeCookie = FreshCookie /\ bule'.careOfCookie = bule.careOfCookie
  BY <1>1 DEF Entry
<1>6. /\ bule'.homeNI = bule.homeNI /\ bule'.careOfNI = bule.careOfNI
      /\ bule'.sent = bule.sent /\ bule'.coa = bule.coa /\ bule'.tested = bule.tested
      /\ bule'.recent = bule.recent /\ bule'.mishaps = bule.mishaps
  BY <1>1 DEF Entry
<1>7. bule # None
  BY DEF sendHoTI
<1>8. Phases'
  BY <1>2, <1>5, <1>6, <1>7
     DEF RRInv, Rest, Phases, PhasesOf, CareOfPhases, Sound, SoundPhases, isPerformingRR
<1>9. Answers'
  BY <1>1, <1>3, <1>4, <1>5, <1>7 DEF RRInv, Rest, Answers, TestTypes
<1>10. Unique'
  BY <1>3, <1>4 DEF RRInv, Rest, Unique, TestTypes
<1>11. CareOfTested' /\ AbortsAfterMishap'
  BY <1>2, <1>3, <1>4, StillRunning DEF RRInv, Rest, CareOfTested
<1> QED
  BY <1>8, <1>9, <1>10, <1>11 DEF Rest

LEMMA CoTIKeeps ==
  ASSUME RRInv, sendCoTI
  PROVE  Rest'
<1>1. bule \in Entry /\ bule.coti # None /\ bule' = [bule EXCEPT !.careOfCookie = FreshCookie]
  BY DEF RRInv, TypeOK, sendCoTI
<1> DEFINE t == CoTI(bule.coti, FreshCookie)
<1>2. UNCHANGED <<coa, aborted>> /\ Send(msgs, t) /\ Running
  BY DEF sendCoTI
<1>3. \A m \in msgs' : m \in msgs \/ m = t
  BY <1>2, SentMessages
<1>4. /\ t.type = "CoTI" /\ t.cookie = FreshCookie
      /\ \A m \in msgs : m.type \in TestTypes => m.cookie # FreshCookie
  BY FreshCookieIsFresh DEF sendCoTI, CoTI
<1>5. /\ bule'.hoti = bule.hoti /\ bule'.coti = bule.coti
      /\ bule'.homeCookie = bule.homeCookie /\ bule'.careOfCookie = FreshCookie
  BY <1>1 DEF Entry
<1>6. /\ bule'.homeNI = bule.homeNI /\ bule'.careOfNI = bule.careOfNI
      /\ bule'.sent = bule.sent /\ bule'.coa = bule.coa /\ bule'.tested = bule.tested
      /\ bule'.recent = bule.recent /\ bule'.mishaps = bule.mishaps
  BY <1>1 DEF Entry
<1>7. bule # None
  BY DEF sendCoTI
<1> HIDE DEF t
<1>8. Phases'
  BY <1>2, <1>5, <1>6, <1>7
     DEF RRInv, Rest, Phases, PhasesOf, CareOfPhases, Sound, SoundPhases, isPerformingRR
<1>9. Answers'
  BY <1>1, <1>3, <1>4, <1>5, <1>7 DEF RRInv, Rest, Answers, TestTypes
<1>10. Unique'
  BY <1>3, <1>4 DEF RRInv, Rest, Unique, TestTypes
<1>11. CareOfTested' /\ AbortsAfterMishap'
  BY <1>2, <1>3, <1>4, StillRunning DEF RRInv, Rest, CareOfTested
<1> QED
  BY <1>8, <1>9, <1>10, <1>11 DEF Rest

\* A message that is dropped, and an entry that goes or changes only in its sequence
\* number or in recent.
LEMMA LessKeeps ==
  ASSUME RRInv, Running, UNCHANGED <<coa, aborted>>, msgs' \subseteq msgs,
         \/ bule' = None
         \/ bule' = bule
         \/ bule # None /\ \E k : \/ bule' = [bule EXCEPT !.seq = k]
                                  \/ bule' = [bule EXCEPT !.recent = FALSE]
  PROVE  Rest'
<1>1. Unique' /\ CareOfTested' /\ AbortsAfterMishap'
  BY StillRunning DEF RRInv, Rest, Unique, CareOfTested
<1>2. bule' # None =>
        /\ bule # None
        /\ bule'.hoti = bule.hoti /\ bule'.coti = bule.coti
        /\ bule'.homeCookie = bule.homeCookie /\ bule'.careOfCookie = bule.careOfCookie
        /\ bule'.homeNI = bule.homeNI /\ bule'.careOfNI = bule.careOfNI
        /\ bule'.sent = bule.sent /\ bule'.coa = bule.coa /\ bule'.tested = bule.tested
        /\ bule'.mishaps = bule.mishaps /\ (bule'.recent => bule.recent)
  BY DEF RRInv, TypeOK, Entry
<1>3. Phases'
  BY <1>2 DEF RRInv, Rest, Phases, PhasesOf, CareOfPhases, Sound, SoundPhases, isPerformingRR
<1>4. Answers'
  BY <1>2 DEF RRInv, Rest, Answers
<1> QED
  BY <1>1, <1>3, <1>4 DEF Rest

\* The answer t to a test has been recorded in e and no BU is sent: what is left to
\* show are the phases and, where sendBU fails, that the MN moved.
LEMMA RecordedKeeps ==
  ASSUME RRInv, Running, UNCHANGED coa, NEW e \in Entry, NEW t \in msgs, bule # None,
         Fails(e, msgs \ {t}) \/ Waits(e, msgs \ {t}), PhasesOf(e),
         e.homeCookie = bule.homeCookie, e.careOfCookie = bule.careOfCookie,
         \/ /\ e.hoti = bule.hoti
            /\ \A m \in msgs \ {t} : ~ (m.type \in {"CoTI", "CoT"} /\ m.cookie = bule.careOfCookie)
         \/ /\ e.coti = bule.coti
            /\ \A m \in msgs \ {t} : ~ (m.type \in {"HoTI", "HoT"} /\ m.cookie = bule.homeCookie),
         Fails(e, msgs \ {t}) => "moved" \in e.mishaps
  PROVE  Rest'
<1>1. bule' = e /\ msgs' = msgs \ {t}
  BY DEF Fails, Waits
<1>2. Phases'
  BY <1>1 DEF Phases, PhasesOf, CareOfPhases, Sound, SoundPhases
<1>3. Answers'
  BY <1>1 DEF RRInv, Rest, Answers
<1>4. Unique' /\ CareOfTested'
  BY <1>1 DEF RRInv, Rest, Unique, CareOfTested
<1>5. AbortsAfterMishap'
  <2>1. CASE Waits(e, msgs \ {t})
    BY <2>1, StillRunning DEF Waits
  <2>2. CASE Fails(e, msgs \ {t})
    BY <1>1, <2>2 DEF AbortsAfterMishap
  <2> QED
    BY <2>1, <2>2
<1> QED
  BY <1>2, <1>3, <1>4, <1>5 DEF Rest

LEMMA HoTKeeps ==
  ASSUME RRInv, NEW t \in msgs, ReceiveHoT(t)
  PROVE  Rest'
<1>1. UNCHANGED coa /\ Running /\ t.type = "HoT"
  BY DEF ReceiveHoT
<1>2. CASE msgs' = msgs \ {t} /\ UNCHANGED <<bule, aborted>>
  BY <1>1, <1>2, LessKeeps
<1>3. CASE /\ bule # None /\ t.cookie = bule.homeCookie
           /\ TestReceived(WithHomeNonce(bule, t.ni), msgs \ {t})
  <2>1. PICK e : e = WithHomeNonce(bule, t.ni)
    OBVIOUS
  <2>2. bule \in Entry /\ coa \in Addr /\ t.ni \in Nat
    BY <1>1, <1>3, MessageFields DEF RRInv, TypeOK
  <2>3. PhasesOf(bule) /\ bule.hoti
    BY <1>1, <1>3 DEF RRInv, Rest, Phases, Answers
  <2>4. /\ e \in Entry
        /\ e.hoti = FALSE /\ e.homeNI = t.ni
        /\ e.mishaps = (IF t.ni = 0 THEN bule.mishaps \cup {"zero"} ELSE bule.mishaps)
        /\ e.coti = bule.coti /\ e.careOfNI = bule.careOfNI /\ e.tested = bule.tested
        /\ e.sent = bule.sent /\ e.recent = bule.recent
        /\ e.homeCookie = bule.homeCookie /\ e.careOfCookie = bule.careOfCookie
    BY <2>1, <2>2, HoTRecorded
  <2>5. ~ e.recent
    BY <2>3, <2>4 DEF PhasesOf, isPerformingRR
  <2>6. "moved" \notin e.mishaps => CareOfPhases(e) /\ (coa = Home => e.coti = None)
    <3>1. "moved" \notin e.mishaps => CareOfPhases(bule)
      BY <2>3, <2>4 DEF PhasesOf
    <3>2. bule.coti # Home
      BY <2>2, ParamAssumption DEF Entry, Addr
    <3> QED
      BY <2>4, <3>1, <3>2 DEF CareOfPhases
  \* t was the only message of the home test.
  <2>7. \A m \in msgs \ {t} : ~ (m.type \in {"HoTI", "HoT"} /\ m.cookie = bule.homeCookie)
    BY <1>1, <1>3 DEF RRInv, Rest, Unique, TestTypes
  <2>8. CASE Sends(e, msgs \ {t})
    <3>1. e.coti = None /\ (coa # Home => e.careOfNI # 0)
      BY <2>8 DEF Sends, testSuccess, isPerformingRR
    <3>2. coa # Home => e.tested = coa \/ "moved" \in e.mishaps
      BY <2>6, <3>1 DEF CareOfPhases
    <3>3. \A m \in msgs \ {t} : ~ (m.type \in {"CoTI", "CoT"} /\ m.cookie = bule.careOfCookie)
      BY <1>3, <2>4, <3>1 DEF RRInv, Rest, Answers
    <3> QED
      BY <1>1, <1>3, <2>4, <2>7, <2>8, <3>2, <3>3, BUSent
  <2>9. CASE Fails(e, msgs \ {t})
    <3>1. "moved" \in e.mishaps
      BY <2>4, <2>6, <2>9 DEF Fails, isPerformingRR
    <3>2. PhasesOf(e)
      BY <2>5, <3>1 DEF PhasesOf, Sound
    <3> QED
      BY <1>1, <1>3, <2>4, <2>7, <2>9, <3>1, <3>2, RecordedKeeps
  <2>10. CASE Waits(e, msgs \ {t})
    <3>1. Sound(e) => SoundPhases(e) /\ isPerformingRR(e)
      <4>1. SUFFICES ASSUME Sound(e)
                     PROVE  SoundPhases(e) /\ isPerformingRR(e)
        OBVIOUS
      <4>2. t.ni # 0 /\ Sound(bule)
        BY <2>4, <4>1 DEF Sound
      <4>3. SoundPhases(bule)
        BY <2>3, <4>2 DEF PhasesOf
      <4>4. e.coti # None
        BY <2>3, <2>4, <2>10, <4>2, <4>3 DEF Waits, testSuccess, SoundPhases, isPerformingRR
      <4> QED
        BY <2>4, <4>2, <4>3, <4>4 DEF SoundPhases, isPerformingRR
    <3>2. PhasesOf(e)
      BY <2>5, <2>6, <3>1 DEF PhasesOf, Sound
    <3>3. ~ Fails(e, msgs \ {t}) \/ "moved" \in e.mishaps
      BY <2>4, <2>6 DEF Fails, isPerformingRR
    <3> QED
      BY <1>1, <1>3, <2>4, <2>7, <2>10, <3>2, <3>3, RecordedKeeps
  <2> QED
    BY <1>3, <2>1, <2>8, <2>9, <2>10, TestReceivedCases
<1> QED
  BY <1>2, <1>3 DEF ReceiveHoT

LEMMA CoTKeeps ==
  ASSUME RRInv, NEW t \in msgs, ReceiveCoT(t)
  PROVE  Rest'
<1>1. UNCHANGED coa /\ Running /\ t.type = "CoT"
  BY DEF ReceiveCoT
<1>2. CASE msgs' = msgs \ {t} /\ UNCHANGED <<bule, aborted>>
  BY <1>1, <1>2, LessKeeps
<1>3. CASE /\ bule # None /\ t.dst = coa /\ t.cookie = bule.careOfCookie
           /\ TestReceived(WithCareOfNonce(bule, t.ni, t.dst), msgs \ {t})
  <2>1. PICK e : e = WithCareOfNonce(bule, t.ni, t.dst)
    OBVIOUS
  <2>2. bule \in Entry /\ t.ni \in Nat /\ t.dst \in Foreign /\ coa # Home
    BY <1>1, <1>3, MessageFields, ParamAssumption DEF RRInv, TypeOK
  <2>3. PhasesOf(bule) /\ bule.coti # None
    BY <1>1, <1>3 DEF RRInv, Rest, Phases, Answers
  <2>4. /\ e \in Entry
        /\ e.coti = None /\ e.careOfNI = t.ni /\ e.tested = coa
        /\ e.mishaps = (IF t.ni = 0 THEN bule.mishaps \cup {"zero"} ELSE bule.mishaps)
        /\ e.hoti = bule.hoti /\ e.homeNI = bule.homeNI
        /\ e.sent = bule.sent /\ e.recent = bule.recent
        /\ e.homeCookie = bule.homeCookie /\ e.careOfCookie = bule.careOfCookie
    BY <1>3, <2>1, <2>2, CoTRecorded
  <2>5. ~ e.recent
    BY <2>3, <2>4 DEF PhasesOf, isPerformingRR
  \* t was the only message of the care-of test.
  <2>6. \A m \in msgs \ {t} : ~ (m.type \in {"CoTI", "CoT"} /\ m.cookie = bule.careOfCookie)
    BY <1>1, <1>3 DEF RRInv, Rest, Unique, TestTypes
  <2>7. CASE Sends(e, msgs \ {t})
    <3>1. ~ bule.hoti
      BY <2>4, <2>7 DEF Sends, isPerformingRR
    <3>2. \A m \in msgs \ {t} : ~ (m.type \in {"HoTI", "HoT"} /\ m.cookie = bule.homeCookie)
      BY <1>3, <3>1 DEF RRInv, Rest, Answers
    <3> QED
      BY <1>1, <1>3, <2>4, <2>6, <2>7, <3>2, BUSent
  <2>8. CASE Waits(e, msgs \ {t})
    <3>1. Sound(e) => SoundPhases(e) /\ isPerformingRR(e)
      <4>1. SUFFICES ASSUME Sound(e)
                     PROVE  SoundPhases(e) /\ isPerformingRR(e)
        OBVIOUS
      <4>2. t.ni # 0 /\ Sound(bule)
        BY <2>4, <4>1 DEF Sound
      <4>3. SoundPhases(bule)
        BY <2>3, <4>2 DEF PhasesOf
      <4>4. e.hoti
        BY <2>3, <2>4, <2>8, <4>2, <4>3 DEF Waits, testSuccess, SoundPhases, isPerformingRR
      <4> QED
        BY <2>2, <2>4, <4>2, <4>3, <4>4 DEF SoundPhases, isPerformingRR
    <3>2. PhasesOf(e)
      BY <2>4, <2>5, <3>1 DEF PhasesOf, CareOfPhases, Sound
    <3>3. ~ Fails(e, msgs \ {t})
      BY <2>2 DEF Fails
    <3> QED
      BY <1>1, <1>3, <2>4, <2>6, <2>8, <3>2, <3>3, RecordedKeeps
  <2> QED
    BY <1>3, <2>1, <2>2, <2>7, <2>8, TestReceivedCases DEF Fails
<1> QED
  BY <1>2, <1>3 DEF ReceiveCoT

LEMMA TIKeeps ==
  ASSUME RRInv, NEW t \in msgs, ReceiveTI(t)
  PROVE  Rest'
<1>1. UNCHANGED <<coa, bule, aborted>> /\ Running
  BY DEF ReceiveTI
<1>2. PICK r : /\ Send(msgs \ {t}, r)
               /\ \/ t.type = "HoTI" /\ r = HoT(t.cookie, CurrentNonce)
                  \/ t.type = "CoTI" /\ r = CoT(t.src, t.cookie, CurrentNonce)
  BY DEF ReceiveTI
<1>3. /\ r.cookie = t.cookie
      /\ \/ t.type = "HoTI" /\ r.type = "HoT"
         \/ t.type = "CoTI" /\ r.type = "CoT"
  BY <1>2 DEF HoT, CoT
<1>4. \A m \in msgs' : m \in msgs \ {t} \/ m = r
  BY <1>2, SentMessages
<1>5. Phases'
  BY <1>1 DEF RRInv, Rest, Phases, PhasesOf, CareOfPhases, Sound, SoundPhases, isPerformingRR
<1>6. Answers'
  BY <1>1, <1>3, <1>4 DEF RRInv, Rest, Answers
<1>7. Unique'
  BY <1>3, <1>4 DEF RRInv, Rest, Unique, TestTypes
<1>8. CareOfTested' /\ AbortsAfterMishap'
  BY <1>1, <1>3, <1>4, StillRunning DEF RRInv, Rest, CareOfTested
<1> QED
  BY <1>5, <1>6, <1>7, <1>8 DEF Rest

LEMMA BUKeeps ==
  ASSUME RRInv, NEW t \in msgs, ReceiveBU(t) \/ ReceiveData(t)
  PROVE  Rest'
<1>1. UNCHANGED <<coa, bule, aborted>>
  BY DEF ReceiveBU, ReceiveData
<1>2. msgs' = msgs \ {t} \/ \E r : Send(msgs \ {t}, r) /\ r.type \in {"BA", "BE"}
  BY DEF ReceiveBU, ReceiveData, RejectBU, RefuseNonces, deregisterBCE, registerBCE, BA, BE
<1>3. \A m \in msgs' : m \in msgs \/ m.type \in {"BA", "BE", "Data"}
  BY <1>2, SentMessages
<1> QED
  BY <1>1, <1>3, QuietStep

LEMMA NextKeeps ==
  ASSUME RRInv, [Next]_vars
  PROVE  RRInv'
<1>1. TypeOK'
  BY NextTypes DEF RRInv
<1>2. SUFFICES Rest'
  BY <1>1 DEF RRInv
<1>3. CASE Move
  BY <1>3, HandoverKeeps DEF Move
<1>4. CASE Test
  BY <1>4, HoTIKeeps, CoTIKeeps DEF Test
<1>5. CASE SendData \/ LossEnds \/ ExpireBinding \/ GenerateNonce \/ UNCHANGED vars
  <2>1. UNCHANGED <<coa, bule, aborted>>
    BY <1>5 DEF SendData, LossEnds, ExpireBinding, GenerateNonce, vars, nonceVars
  <2>2. msgs' = msgs \/ \E r : Send(msgs, r) /\ r.type = "Data"
    BY <1>5 DEF SendData, Data, LossEnds, ExpireBinding, GenerateNonce, vars
  <2>3. \A m \in msgs' : m \in msgs \/ m.type \in {"BA", "BE", "Data"}
    BY <2>2, SentMessages
  <2> QED
    BY <2>1, <2>3, QuietStep
<1>6. CASE UpdateNoLongerRecent \/ ExpireEntry
  BY <1>6, LessKeeps DEF UpdateNoLongerRecent, ExpireEntry
<1>7. ASSUME NEW m \in msgs, ReceiveBA(m) \/ ReceiveBE(m)
      PROVE  Rest'
  <2>1. UNCHANGED <<coa, aborted>> /\ msgs' \subseteq msgs /\ Running
    BY <1>7 DEF ReceiveBA, ReceiveBE
  <2>2. \/ bule' = None
        \/ bule' = bule
        \/ bule # None /\ \E k : bule' = [bule EXCEPT !.seq = k]
    BY <1>7 DEF ReceiveBA, ReceiveBE
  <2> QED
    BY <2>1, <2>2, LessKeeps
<1>8. CASE Deliver
  BY <1>7, <1>8, HoTKeeps, CoTKeeps, TIKeeps, BUKeeps DEF Deliver
<1> QED
  BY <1>3, <1>4, <1>5, <1>6, <1>8, StartKeeps DEF Next, Timer

\* What the entry holds in each phase, as far as its mishaps let it; that no late
\* answer is taken for another; and the three properties that follow.
THEOREM RRInvariance == Spec => []RRInv
<1>1. Init => RRInv
  <2>1. Init => Rest
    BY DEF Init, Rest, Phases, Answers, Unique, CareOfTested, AbortsAfterMishap, Running
  <2> QED
    BY <2>1, InitTypes DEF RRInv
<1>2. RRInv /\ [Next]_vars => RRInv'
  BY NextKeeps
<1> QED
  BY <1>1, <1>2, PTL DEF Spec

\* A BU for a CoA carries the nonce of a care-of test answered at that CoA, unless the
\* MN moved while a test was going on.
THEOREM CareOfIsTested == Spec => []CareOfTested
<1>1. RRInv => CareOfTested
  BY DEF RRInv, Rest
<1> QED
  BY <1>1, RRInvariance, PTL

\* Packets that are sent directly have the CoA in use as their source, unless something
\* has befallen the entry since its last BU.
THEOREM OptimisedIsFromCurrent == Spec => []OptimisedFromCurrent
<1>1. RRInv => OptimisedFromCurrent
  BY DEF RRInv, Rest, Phases, PhasesOf, OptimisedFromCurrent, Optimised
<1> QED
  BY <1>1, RRInvariance, PTL

\* sendBU's assertion fails only after a handover during a test or a nonce 0.
THEOREM AbortsFollowMishaps == Spec => []AbortsAfterMishap
<1>1. RRInv => AbortsAfterMishap
  BY DEF RRInv, Rest
<1> QED
  BY <1>1, RRInvariance, PTL
=============================================================================
