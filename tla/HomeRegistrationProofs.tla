------------------------- MODULE HomeRegistrationProofs -------------------------
(***************************************************************************)
(* Theorems of the home registration for every set of foreign routers,     *)
(* every lifetime, back-off limit and sequence width, and every bound.     *)
(***************************************************************************)
EXTENDS HomeRegistration, TLAPS, SequenceTheorems

-----------------------------------------------------------------------------
(* What the helpers return *)

LEMMA RemoveAtType ==
  ASSUME NEW S, NEW s \in Seq(S), NEW i \in DOMAIN s
  PROVE  RemoveAt(s, i) \in Seq(S)
<1>1. i \in 1 .. Len(s)
  OBVIOUS
<1>2. SubSeq(s, 1, i - 1) \in Seq(S)
  BY <1>1, SubSeqProperties
<1>3. SubSeq(s, i + 1, Len(s)) \in Seq(S)
  BY <1>1, SubSeqProperties
<1> QED
  BY <1>2, <1>3, ConcatProperties DEF RemoveAt

LEMMA AgedType ==
  ASSUME NEW e \in Entry \cup {None}, NEW b \in Binding \cup {None}
  PROVE  Aged(e) \in Entry \cup {None} /\ Aged(b) \in Binding \cup {None}
BY DEF Aged, Entry, Binding

LEMMA BUType ==
  ASSUME NEW coa \in Addr, NEW seq \in Nat, NEW life \in Nat
  PROVE  BU(coa, seq, life) \in Message
<1>1. seq % SeqModulus \in Nat
  BY ParamAssumption
<1> QED
  BY <1>1 DEF BU, Message

LEMMA BAType ==
  ASSUME NEW dst \in Addr, NEW status \in Status, NEW seq \in Nat, NEW life \in Nat
  PROVE  BA(dst, status, seq, life) \in Message
BY DEF BA, Message

LEMMA BEDataTypes ==
  ASSUME NEW dst \in Addr
  PROVE  BE(dst) \in Message /\ Data(dst) \in Message
BY DEF BE, Data, Message

LEMMA SendType ==
  ASSUME NEW rest \in SUBSET Message, NEW m \in Message, Send(rest, m)
  PROVE  msgs' \subseteq Message
<1>1. CASE Cardinality(rest) < MaxInFlight
  BY <1>1 DEF Send
<1>2. CASE ~ (Cardinality(rest) < MaxInFlight)
  BY <1>2 DEF Send
<1> QED
  BY <1>1, <1>2

LEMMA NextSeqType == TypeOK => NextSeq \in Nat
BY DEF TypeOK, NextSeq, Entry

LEMMA SentTypes ==
  ASSUME TypeOK, NEW coa \in Addr, NEW life \in Nat, NEW wait \in Nat
  PROVE  /\ SentBule(coa, life) \in Entry
         /\ SentTmrs(coa, life, wait) \in Seq(Timer_)
<1>1. SentBule(coa, life) \in Entry
  BY NextSeqType DEF TypeOK, SentBule, Entry
<1> DEFINE t == [coa |-> coa, life |-> life, timeout |-> 1, wait |-> wait]
<1>2. t \in Timer_
  BY DEF Timer_
<1>3. Append(tmrs, t) \in Seq(Timer_)
  BY <1>2 DEF TypeOK
<1>4. tmrs # <<>> => [tmrs EXCEPT ![1] = t] \in Seq(Timer_)
  BY <1>2 DEF TypeOK
<1> QED
  BY <1>1, <1>3, <1>4 DEF TypeOK, SentTmrs

LEMMA RelinquishTypes ==
  ASSUME TypeOK, NEW new \in Addr \cup {None}, NEW b \in Entry \cup {None},
         NEW ts \in Seq(Timer_), NEW d \in Foreign \cup {None},
         relinquishRouter(new, b, ts, d)
  PROVE  /\ router' \in Addr \cup {None}
         /\ bule' \in Entry \cup {None}
         /\ tmrs' \in Seq(Timer_)
         /\ deferred' \in Foreign \cup {None}
<1>1. CASE router = None
  BY <1>1 DEF relinquishRouter
<1>2. CASE router # None
  <2>1. bule' \in Entry \cup {None}
    BY <1>2 DEF relinquishRouter, Entry
  <2> QED
    BY <1>2, <2>1 DEF relinquishRouter
<1> QED
  BY <1>1, <1>2

\* What every sendBU of a move or of a deferred BU leaves behind.
LEMMA SendBUTypes ==
  ASSUME TypeOK, NEW coa \in Addr, NEW life \in Nat, NEW isAway \in BOOLEAN,
         isAway => coa \in Foreign,
         sendBU(coa, life, isAway)
  PROVE  /\ msgs' \subseteq Message
         /\ mnTunnel' \in Foreign \cup {None}
         /\ acked' \in Addr \cup {None}
<1>1. BU(coa, NextSeq, life) \in Message
  BY NextSeqType, BUType
<1>2. msgs' \subseteq Message
  BY <1>1, SendType DEF sendBU, TypeOK
<1>3. mnTunnel' \in Foreign \cup {None}
  BY DEF sendBU, updateTunnelsFrom, TypeOK
<1> QED
  BY <1>2, <1>3 DEF sendBU

LEMMA FirstWaitType == FirstWait \subseteq Nat
BY DEF FirstWait

-----------------------------------------------------------------------------
(* Type correctness *)

LEMMA MoveTypes == TypeOK /\ Move => TypeOK'
<1> SUFFICES ASSUME TypeOK, Move PROVE TypeOK'
  OBVIOUS
<1> USE ParamAssumption DEF Addr
<1>1. CASE LoseRouter
  <2>1. relinquishRouter(None, bule, tmrs, deferred)
    BY <1>1 DEF LoseRouter
  <2>2. /\ router' \in Addr \cup {None} /\ bule' \in Entry \cup {None}
        /\ tmrs' \in Seq(Timer_) /\ deferred' \in Foreign \cup {None}
    BY <2>1, RelinquishTypes DEF TypeOK
  <2> QED
    BY <1>1, <2>2 DEF LoseRouter, haVars, TypeOK
<1>2. CASE ReturnHome
  <2>1. CASE careOfAddr = Home
    <3>1. relinquishRouter(Home, bule, tmrs, deferred)
      BY <1>2, <2>1 DEF ReturnHome
    <3>2. /\ router' \in Addr \cup {None} /\ bule' \in Entry \cup {None}
          /\ tmrs' \in Seq(Timer_) /\ deferred' \in Foreign \cup {None}
      BY <3>1, RelinquishTypes DEF TypeOK
    <3> QED
      BY <1>2, <2>1, <3>2 DEF ReturnHome, haVars, TypeOK
  <2>2. CASE careOfAddr # Home
    <3>1. sendBU(Home, 0, FALSE)
      BY <1>2, <2>2 DEF ReturnHome
    <3>2. /\ msgs' \subseteq Message /\ mnTunnel' \in Foreign \cup {None}
          /\ acked' \in Addr \cup {None}
      BY <3>1, SendBUTypes
    <3>3. PICK w \in FirstWait :
            relinquishRouter(Home, SentBule(Home, 0), SentTmrs(Home, 0, w), deferred)
      BY <1>2, <2>2 DEF ReturnHome
    <3>4. /\ SentBule(Home, 0) \in Entry
          /\ SentTmrs(Home, 0, w) \in Seq(Timer_)
      BY <3>3, SentTypes, FirstWaitType
    <3>5. /\ router' \in Addr \cup {None} /\ bule' \in Entry \cup {None}
          /\ tmrs' \in Seq(Timer_) /\ deferred' \in Foreign \cup {None}
      BY <3>3, <3>4, RelinquishTypes DEF TypeOK
    <3> QED
      BY <1>2, <3>2, <3>5 DEF ReturnHome, haVars, TypeOK
  <2> QED
    BY <2>1, <2>2
<1>3. ASSUME NEW r \in Foreign, HandoverSameCoa(r) PROVE TypeOK'
  <2>1. relinquishRouter(r, bule, tmrs, deferred)
    BY <1>3 DEF HandoverSameCoa
  <2>2. /\ router' \in Addr \cup {None} /\ bule' \in Entry \cup {None}
        /\ tmrs' \in Seq(Timer_) /\ deferred' \in Foreign \cup {None}
    BY <2>1, RelinquishTypes DEF TypeOK
  <2> QED
    BY <1>3, <2>2 DEF HandoverSameCoa, haVars, TypeOK
<1>4. ASSUME NEW r \in Foreign, HandoverAssigned(r) PROVE TypeOK'
  <2>1. sendBU(r, Lifetime, TRUE)
    BY <1>4 DEF HandoverAssigned
  <2>2. /\ msgs' \subseteq Message /\ mnTunnel' \in Foreign \cup {None}
        /\ acked' \in Addr \cup {None}
    BY <2>1, SendBUTypes
  <2>3. PICK w \in FirstWait :
          relinquishRouter(r, SentBule(r, Lifetime), SentTmrs(r, Lifetime, w), deferred)
    BY <1>4 DEF HandoverAssigned
  <2>4. /\ SentBule(r, Lifetime) \in Entry
        /\ SentTmrs(r, Lifetime, w) \in Seq(Timer_)
    BY <2>3, SentTypes, FirstWaitType
  <2>5. /\ router' \in Addr \cup {None} /\ bule' \in Entry \cup {None}
        /\ tmrs' \in Seq(Timer_) /\ deferred' \in Foreign \cup {None}
    BY <2>3, <2>4, RelinquishTypes DEF TypeOK
  <2> QED
    BY <1>4, <2>2, <2>5 DEF HandoverAssigned, haVars, TypeOK
<1>5. ASSUME NEW r \in Foreign, HandoverDeferred(r) PROVE TypeOK'
  <2>1. relinquishRouter(r, bule, tmrs, r)
    BY <1>5 DEF HandoverDeferred
  <2>2. /\ router' \in Addr \cup {None} /\ bule' \in Entry \cup {None}
        /\ tmrs' \in Seq(Timer_) /\ deferred' \in Foreign \cup {None}
    BY <2>1, RelinquishTypes DEF TypeOK
  <2> QED
    BY <1>5, <2>2 DEF HandoverDeferred, haVars, TypeOK
<1> QED
  BY <1>1, <1>2, <1>3, <1>4, <1>5 DEF Move

LEMMA TimerTypes == TypeOK /\ Timer => TypeOK'
<1> SUFFICES ASSUME TypeOK, Timer PROVE TypeOK'
  OBVIOUS
<1>1. ASSUME NEW i \in DOMAIN tmrs, RetransmitBU(i) PROVE TypeOK'
  <2> DEFINE t == tmrs[i]
             again == [tmrs EXCEPT ![i].timeout = 2 * t.timeout, ![i].wait = 2 * t.timeout]
  <2>1. t \in Timer_
    BY DEF TypeOK
  <2>2. RemoveAt(tmrs, i) \in Seq(Timer_)
    BY RemoveAtType DEF TypeOK
  <2>3. again \in Seq(Timer_)
    <3>1. [t EXCEPT !.timeout = 2 * t.timeout, !.wait = 2 * t.timeout] \in Timer_
      <4>1. 2 * t.timeout \in Nat
        BY <2>1 DEF Timer_
      <4>2. [t EXCEPT !.timeout = 2 * t.timeout] \in Timer_
        BY <2>1, <4>1 DEF Timer_
      <4> QED
        BY <4>1, <4>2 DEF Timer_
    <3>2. again = [tmrs EXCEPT ![i] = [t EXCEPT !.timeout = 2 * t.timeout, !.wait = 2 * t.timeout]]
      BY DEF TypeOK
    <3> QED
      BY <3>1, <3>2 DEF TypeOK
  <2>4. tmrs' \in Seq(Timer_)
    BY <1>1, <2>2, <2>3 DEF RetransmitBU
  <2>5. CASE t.timeout < MaxBindAckTimeout /\ bule # None
    <3>1. bule \in Entry
      BY <2>5 DEF TypeOK
    <3>2. bule' \in Entry
      <4>1. bule' = [bule EXCEPT !.state = @ + 1, !.seq = @ + 1]
        BY <1>1, <2>1, <2>5, ParamAssumption DEF RetransmitBU, Timer_
      <4>2. [bule EXCEPT !.state = @ + 1] \in Entry
        BY <3>1 DEF Entry
      <4>3. bule.seq + 1 \in Nat
        BY <3>1 DEF Entry
      <4>4. [[bule EXCEPT !.state = @ + 1] EXCEPT !.seq = bule.seq + 1] \in Entry
        BY <4>2, <4>3 DEF Entry
      <4>5. bule' = [[bule EXCEPT !.state = @ + 1] EXCEPT !.seq = bule.seq + 1]
        BY <3>1, <4>1 DEF Entry
      <4> QED
        BY <4>4, <4>5
    <3>3. BU(t.coa, bule.seq + 1, t.life) \in Message
      BY <2>1, <3>1, BUType DEF Timer_, Entry
    <3>4. Send(msgs, BU(t.coa, bule.seq + 1, t.life)) /\ acked' = None
      BY <1>1, <2>1, <2>5, ParamAssumption DEF RetransmitBU, Timer_
    <3>5. msgs' \subseteq Message
      BY <3>3, <3>4, SendType DEF TypeOK
    <3> QED
      BY <1>1, <2>4, <3>2, <3>4, <3>5 DEF RetransmitBU, haVars, TypeOK
  <2>6. CASE ~ (t.timeout < MaxBindAckTimeout /\ bule # None)
    <3>1. msgs' = msgs /\ acked' = acked
      BY <1>1, <2>6 DEF RetransmitBU
    <3>2. bule' \in Entry \cup {None}
      <4>1. ASSUME bule # None
            PROVE  [bule EXCEPT !.problem = TRUE, !.state = 0] \in Entry
        <5>1. [bule EXCEPT !.problem = TRUE] \in Entry
          BY <4>1 DEF Entry, TypeOK
        <5> QED
          BY <5>1 DEF Entry
      <4> QED
        BY <1>1, <2>6, <4>1 DEF RetransmitBU, TypeOK
    <3> QED
      BY <1>1, <2>4, <3>1, <3>2 DEF RetransmitBU, haVars, TypeOK
  <2> QED
    BY <2>5, <2>6
<1>2. CASE MNPeriod
  <2>1. bule' \in Entry \cup {None}
    BY <1>2, AgedType DEF MNPeriod, TypeOK
  <2>2. ASSUME NEW i \in DOMAIN tmrs PROVE [tmrs[i] EXCEPT !.wait = @ - 1] \in Timer_
    <3>1. tmrs[i] \in Timer_
      BY DEF TypeOK
    <3>2. tmrs[i].wait - 1 \in Nat
      BY <1>2, <3>1 DEF MNPeriod, Timer_
    <3> QED
      BY <3>1, <3>2 DEF Timer_
  <2>3. tmrs' \in Seq(Timer_)
    <3>1. DOMAIN tmrs = 1 .. Len(tmrs) /\ Len(tmrs) \in Nat
      BY DEF TypeOK
    <3>2. tmrs' = [i \in 1 .. Len(tmrs) |-> [tmrs[i] EXCEPT !.wait = @ - 1]]
      BY <1>2, <3>1 DEF MNPeriod
    <3> QED
      BY <2>2, <3>1, <3>2
  <2> QED
    BY <1>2, <2>1, <2>3 DEF MNPeriod, haVars, TypeOK
<1>3. CASE HAPeriod
  <2>1. bc' \in Binding \cup {None}
    BY <1>3, AgedType DEF HAPeriod, TypeOK
  <2> QED
    BY <1>3, <2>1 DEF HAPeriod, mnVars, TypeOK
<1> QED
  BY <1>1, <1>2, <1>3 DEF Timer

LEMMA DeliverTypes == TypeOK /\ Deliver => TypeOK'
<1> SUFFICES ASSUME TypeOK, NEW m \in msgs,
                    ReceiveBA(m) \/ ReceiveBE(m) \/ ReceiveBU(m) \/ ReceiveData(m)
             PROVE  TypeOK'
  BY DEF Deliver
<1>0. m \in Message /\ msgs \ {m} \subseteq Message
  BY DEF TypeOK
<1>1. CASE ReceiveBA(m)
  <2>1. m.dst \in Addr /\ m.seq \in Nat /\ m.life \in Nat /\ m.status \in Status
    BY <1>0, <1>1 DEF ReceiveBA, Message
  <2>2. tmrs' \in Seq(Timer_)
    <3>1. tmrs # <<>> => Tail(tmrs) \in Seq(Timer_)
      BY DEF TypeOK
    <3> QED
      BY <1>1, <3>1 DEF ReceiveBA, TypeOK
  <2>3. ASSUME NEW b \in Entry PROVE ShortenExpiry(b, m) \in Entry
    BY <2>1 DEF ShortenExpiry, Entry
  <2>4. bule' \in Entry \cup {None}
    <3>1. CASE bule = None
      BY <1>1, <3>1 DEF ReceiveBA
    <3>2. CASE bule # None
      <4>1. bule \in Entry
        BY <3>2 DEF TypeOK
      <4>2. [bule EXCEPT !.state = 0] \in Entry
        BY <4>1 DEF Entry
      <4>3. [bule EXCEPT !.seq = m.seq + 1] \in Entry
        BY <2>1, <4>1 DEF Entry
      <4> QED
        BY <1>1, <2>3, <3>2, <4>1, <4>2, <4>3 DEF ReceiveBA
    <3> QED
      BY <3>1, <3>2
  <2>5. acked' \in Addr \cup {None} /\ away' \in BOOLEAN
    BY <1>1 DEF ReceiveBA, TypeOK, Entry
  <2> QED
    BY <1>0, <1>1, <2>2, <2>4, <2>5 DEF ReceiveBA, haVars, TypeOK
<1>2. CASE ReceiveBE(m)
  BY <1>0, <1>2 DEF ReceiveBE, haVars, TypeOK
<1>3. CASE ReceiveBU(m)
  <2>1. m.coa \in Addr /\ m.seq \in Nat /\ m.life \in Nat
    BY <1>0, <1>3 DEF ReceiveBU, Message
  <2>2. Route(m.coa) \in Addr
    BY <2>1 DEF Route, TypeOK, Addr
  <2>3. CASE RejectBU(m)
    <3>1. bc.seq \in Nat
      BY <2>3 DEF RejectBU, TypeOK, Binding
    <3>2. BA(Route(m.coa), "SEQ_OUT_OF_WINDOW", bc.seq, 0) \in Message
      BY <2>2, <3>1, BAType DEF Status
    <3>3. msgs' \subseteq Message
      BY <1>0, <2>3, <3>2, SendType DEF RejectBU
    <3> QED
      BY <1>3, <2>3, <3>3 DEF ReceiveBU, RejectBU, mnVars, haVars, TypeOK
  <2>4. CASE deregisterBCE(m)
    <3>1. /\ BA(Route(m.coa), "NOT_HA_FOR_MN", 0, 0) \in Message
          /\ BA(m.coa, "ACCEPTED", m.seq, 0) \in Message
      BY <2>1, <2>2, BAType DEF Status
    <3>2. msgs' \subseteq Message
      BY <1>0, <2>4, <3>1, SendType DEF deregisterBCE
    <3>3. /\ bc' \in Binding \cup {None} /\ haTunnels' \subseteq Foreign
          /\ hoaRoute' \in Foreign \cup {None}
      BY <2>4 DEF deregisterBCE, haVars, TypeOK
    <3> QED
      BY <1>3, <3>2, <3>3 DEF ReceiveBU, mnVars, TypeOK
  <2>5. CASE registerBCE(m)
    <3>1. m.coa \in Foreign
      BY <2>1, <2>5 DEF registerBCE, Addr
    <3>2. BA(m.coa, "ACCEPTED", m.seq, m.life) \in Message
      BY <2>1, BAType DEF Status
    <3>3. msgs' \subseteq Message
      BY <1>0, <2>5, <3>2, SendType DEF registerBCE
    <3>4. /\ bc' \in Binding \cup {None} /\ haTunnels' \subseteq Foreign
          /\ hoaRoute' \in Foreign \cup {None}
      BY <2>1, <2>5, <3>1 DEF registerBCE, Binding, TypeOK
    <3> QED
      BY <1>3, <3>3, <3>4 DEF ReceiveBU, mnVars, TypeOK
  <2> QED
    BY <1>3, <2>3, <2>4, <2>5 DEF ReceiveBU
<1>4. CASE ReceiveData(m)
  <2>1. m.coa \in Addr
    BY <1>0, <1>4 DEF ReceiveData, Message
  <2>2. msgs' \subseteq Message
    BY <1>0, <1>4, <2>1, BEDataTypes, SendType DEF ReceiveData
  <2> QED
    BY <1>4, <2>2 DEF ReceiveData, mnVars, haVars, TypeOK
<1> QED
  BY <1>1, <1>2, <1>3, <1>4

LEMMA NextTypes == TypeOK /\ [Next]_vars => TypeOK'
<1> SUFFICES ASSUME TypeOK, [Next]_vars PROVE TypeOK'
  OBVIOUS
<1>1. CASE SendDeferredBU
  <2>1. deferred \in Foreign /\ deferred \in Addr /\ Lifetime \in Nat /\ away \in BOOLEAN
    BY <1>1, ParamAssumption DEF SendDeferredBU, TypeOK, Addr
  <2>2. /\ msgs' \subseteq Message /\ mnTunnel' \in Foreign \cup {None}
        /\ acked' \in Addr \cup {None}
    BY <1>1, <2>1, SendBUTypes DEF SendDeferredBU
  <2>3. PICK w \in FirstWait : tmrs' = SentTmrs(deferred, Lifetime, w)
    BY <1>1 DEF SendDeferredBU
  <2>4. w \in Nat
    BY FirstWaitType
  <2>5. bule' \in Entry /\ tmrs' \in Seq(Timer_)
    BY <1>1, <2>1, <2>3, <2>4, SentTypes DEF SendDeferredBU
  <2> QED
    BY <1>1, <2>2, <2>5 DEF SendDeferredBU, haVars, TypeOK
<1>2. CASE SendDataToHA
  <2>1. Data(bule.coa) \in Message
    BY <1>2, BEDataTypes DEF SendDataToHA, TypeOK, Entry
  <2>2. msgs' \subseteq Message
    BY <1>2, <2>1, SendType DEF SendDataToHA, TypeOK
  <2> QED
    BY <1>2, <2>2 DEF SendDataToHA, mnVars, haVars, TypeOK
<1>3. CASE UNCHANGED vars
  BY <1>3 DEF vars, mnVars, haVars, TypeOK
<1> QED
  BY <1>1, <1>2, <1>3, MoveTypes, TimerTypes, DeliverTypes DEF Next

\* Every variable keeps its type.
THEOREM TypeCorrect == Spec => []TypeOK
<1>1. Init => TypeOK
  <2> SUFFICES ASSUME Init PROVE TypeOK
    OBVIOUS
  <2>1. tmrs \in Seq(Timer_)
    BY DEF Init
  <2>2. router \in Addr /\ msgs \subseteq Message /\ haTunnels \subseteq Foreign
    BY DEF Init, Addr
  <2> QED
    BY <2>1, <2>2 DEF Init, TypeOK
<1> QED
  BY <1>1, NextTypes, PTL DEF Spec

-----------------------------------------------------------------------------
(* Safety.  The five invariants are inductive only together: HomeIsHome needs  *)
(* RetransmissionCurrent, for a BA clears awayFromHome when the timer it finds *)
(* is a deregistration's; RetransmissionCurrent and ReverseTunnelReady need    *)
(* DeferredCurrent and HomeIsHome, for the deferred BU adds a timer and builds *)
(* the tunnel for the CoA it was bound to.                                     *)

IInv ==
  /\ TypeOK
  /\ RetransmissionCurrent
  /\ DeferredCurrent
  /\ HomeIsHome
  /\ ReverseTunnelReady
  /\ TunnelForBinding

\* Off every link there is neither a timer nor a deferred BU.
LEMMA NoLink ==
  ASSUME IInv, router = None
  PROVE  tmrs = <<>> /\ deferred = None
<1>1. ASSUME NEW i \in DOMAIN tmrs PROVE FALSE
  <2>1. tmrs[i] \in Timer_ /\ tmrs[i].coa = None
    BY DEF IInv, TypeOK, RetransmissionCurrent
  <2> QED
    BY <2>1, ParamAssumption DEF Timer_
<1>2. tmrs = <<>>
  <2>1. tmrs \in Seq(Timer_)
    BY DEF IInv, TypeOK
  <2>2. Len(tmrs) = 0
    <3>1. Len(tmrs) \in Nat /\ DOMAIN tmrs = 1 .. Len(tmrs)
      BY <2>1, LenProperties
    <3>2. 1 \notin DOMAIN tmrs
      BY <1>1
    <3> QED
      BY <3>1, <3>2
  <2> QED
    BY <2>1, <2>2, EmptySeq
<1>3. deferred = None
  BY ParamAssumption DEF IInv, DeferredCurrent
<1> QED
  BY <1>2, <1>3

\* A handover leaves no timer but the one of the BU it sent on a first link, and no
\* deferred BU but the one of the new link.
LEMMA RelinquishCurrent ==
  ASSUME IInv, NEW new \in Addr \cup {None}, new # router,
         NEW b \in Entry \cup {None}, NEW ts \in Seq(Timer_), NEW d \in {deferred, new},
         relinquishRouter(new, b, ts, d)
  PROVE  /\ router' = new
         /\ tmrs' \in {<<>>, ts} /\ (router # None => tmrs' = <<>>)
         /\ deferred' \in {None, d} /\ (deferred' # None => deferred' = new)
         /\ bule' # None => b # None /\ bule'.coa = b.coa
<1>1. CASE router = None
  <2>1. deferred = None
    BY <1>1, NoLink
  <2> QED
    BY <1>1, <2>1 DEF relinquishRouter
<1>2. CASE router # None
  <2>1. deferred \in {None, router}
    BY DEF IInv, DeferredCurrent
  <2>2. bule' # None => b # None /\ bule'.coa = b.coa
    <3>1. b # None => [b EXCEPT !.state = 0].coa = b.coa
      BY DEF Entry
    <3> QED
      BY <1>2, <3>1 DEF relinquishRouter
  <2> QED
    BY <1>2, <2>1, <2>2 DEF relinquishRouter
<1> QED
  BY <1>1, <1>2

\* The timers after a BU has been sent when none was running: at most one, and it
\* repeats that BU.
LEMMA SentTmrsCurrent ==
  ASSUME tmrs = <<>>, NEW coa, NEW life, NEW wait
  PROVE  /\ Len(SentTmrs(coa, life, wait)) <= 1
         /\ \A i \in DOMAIN SentTmrs(coa, life, wait) : SentTmrs(coa, life, wait)[i].coa = coa
<1> DEFINE t == [coa |-> coa, life |-> life, timeout |-> 1, wait |-> wait]
<1>1. SentTmrs(coa, life, wait) \in {<<>>, Append(<<>>, t)}
  BY DEF SentTmrs
<1>2. CASE SentTmrs(coa, life, wait) = <<>>
  BY <1>2
<1>3. CASE SentTmrs(coa, life, wait) = Append(<<>>, t)
  <2>1. /\ Len(Append(<<>>, t)) = 1
        /\ \A i \in DOMAIN Append(<<>>, t) : Append(<<>>, t)[i] = t
    OBVIOUS
  <2> QED
    BY <1>3, <2>1
<1> QED
  BY <1>1, <1>2, <1>3

LEMMA MoveSafe == IInv /\ Move => IInv'
<1> SUFFICES ASSUME IInv, Move PROVE IInv'
  OBVIOUS
<1> USE ParamAssumption
<1>1. TypeOK /\ TypeOK'
  BY MoveTypes DEF IInv
<1>2. TunnelForBinding'
  <2>1. UNCHANGED haVars
    <3>1. LoseRouter \/ ReturnHome => UNCHANGED haVars
      BY DEF LoseRouter, ReturnHome
    <3>2. ASSUME NEW r \in Foreign, HandoverSameCoa(r) \/ HandoverAssigned(r) \/ HandoverDeferred(r)
          PROVE  UNCHANGED haVars
      BY <3>2 DEF HandoverSameCoa, HandoverAssigned, HandoverDeferred
    <3> QED
      BY <3>1, <3>2 DEF Move
  <2> QED
    BY <2>1 DEF haVars, IInv, TunnelForBinding
\* Steps that send no BU.
<1>3. ASSUME NEW new \in Addr \cup {None}, new # router, NEW d \in {deferred, new},
             d # deferred => d # careOfAddr /\ d # Home,
             relinquishRouter(new, bule, tmrs, d),
             away' = (new # Home), mnTunnel' = mnTunnel,
             d \in Foreign \cup {None}
      PROVE  IInv'
  <2>1. /\ router' = new /\ (router # None => tmrs' = <<>>) /\ tmrs' \in {<<>>, tmrs}
        /\ deferred' \in {None, d} /\ (deferred' # None => deferred' = new)
        /\ bule' # None => bule # None /\ bule'.coa = bule.coa
    <3>1. bule \in Entry \cup {None} /\ tmrs \in Seq(Timer_)
      BY <1>1 DEF TypeOK
    <3>2. new # router /\ d \in {deferred, new} /\ relinquishRouter(new, bule, tmrs, d)
      BY <1>3
    <3>3. new \in Addr \cup {None}
      OBVIOUS
    <3> HIDE ParamAssumption
    <3> QED
      BY <3>1, <3>2, <3>3, RelinquishCurrent
  <2>2. tmrs' = <<>>
    BY <2>1, NoLink
  <2>3. careOfAddr' \in {Home, careOfAddr}
    BY <2>1 DEF careOfAddr
  <2>4. RetransmissionCurrent'
    BY <2>2 DEF RetransmissionCurrent
  <2>5. DeferredCurrent'
    <3>1. deferred # None => deferred = router
      BY DEF IInv, DeferredCurrent
    <3> QED
      BY <1>3, <2>1, <2>2, <2>3, <3>1 DEF DeferredCurrent, Addr
  <2>6. HomeIsHome' /\ ReverseTunnelReady'
    BY <1>3, <2>1, <2>3 DEF HomeIsHome, ReverseTunnelReady, IInv
  <2> QED
    BY <1>1, <1>2, <2>4, <2>5, <2>6 DEF IInv
\* Steps that send one.
<1>4. ASSUME NEW new \in Addr, new # router, NEW life \in Nat, NEW wait \in Nat,
             NEW isAway \in BOOLEAN, isAway = (new # Home),
             sendBU(new, life, isAway),
             relinquishRouter(new, SentBule(new, life), SentTmrs(new, life, wait), deferred),
             away' = isAway
      PROVE  IInv'
  <2>1. SentBule(new, life) \in Entry /\ SentTmrs(new, life, wait) \in Seq(Timer_)
    BY <1>1, <1>4, SentTypes
  <2>2. /\ router' = new /\ (router # None => tmrs' = <<>>)
        /\ tmrs' \in {<<>>, SentTmrs(new, life, wait)}
        /\ deferred' \in {None, deferred} /\ (deferred' # None => deferred' = new)
        /\ bule' # None => bule'.coa = SentBule(new, life).coa
    BY <1>4, <2>1, RelinquishCurrent
  <2>3. careOfAddr' \in {Home, new}
    BY <2>2 DEF careOfAddr, SentBule
  <2>4. RetransmissionCurrent'
    BY <2>2, NoLink, SentTmrsCurrent DEF RetransmissionCurrent
  <2>5. deferred' = None
    BY <1>4, <2>2 DEF IInv, DeferredCurrent
  <2>6. DeferredCurrent'
    BY <2>5 DEF DeferredCurrent
  <2>7. HomeIsHome' /\ ReverseTunnelReady'
    BY <1>4, <2>2, <2>3 DEF HomeIsHome, ReverseTunnelReady, sendBU, updateTunnelsFrom
  <2> QED
    BY <1>1, <1>2, <2>4, <2>6, <2>7 DEF IInv
<1>5. CASE LoseRouter
  <2>1. relinquishRouter(None, bule, tmrs, deferred) /\ away' = (None # Home)
    BY <1>5 DEF LoseRouter, Addr
  <2> QED
    BY <1>1, <1>3, <1>5, <2>1 DEF LoseRouter, TypeOK
<1>6. CASE ReturnHome
  <2>1. CASE careOfAddr = Home
    BY <1>1, <1>3, <1>6, <2>1 DEF ReturnHome, TypeOK, Addr
  <2>2. CASE careOfAddr # Home
    BY <1>4, <1>6, <2>2, FirstWaitType DEF ReturnHome, Addr
  <2> QED
    BY <2>1, <2>2
<1>7. ASSUME NEW r \in Foreign, HandoverSameCoa(r) PROVE IInv'
  BY <1>1, <1>3, <1>7 DEF HandoverSameCoa, TypeOK, Addr
<1>8. ASSUME NEW r \in Foreign, HandoverAssigned(r) PROVE IInv'
  <2>1. PICK w \in FirstWait :
          relinquishRouter(r, SentBule(r, Lifetime), SentTmrs(r, Lifetime, w), deferred)
    BY <1>8 DEF HandoverAssigned
  <2> QED
    BY <1>4, <1>8, <2>1, FirstWaitType DEF HandoverAssigned, Addr
<1>9. ASSUME NEW r \in Foreign, HandoverDeferred(r) PROVE IInv'
  BY <1>3, <1>9 DEF HandoverDeferred, Addr
<1> QED
  BY <1>5, <1>6, <1>7, <1>8, <1>9 DEF Move

\* A step that leaves the link, the deferred BU and the tunnels alone, and leaves the
\* list entry's CoA and the timers or drops them, is harmless.
LEMMA QuietSafe ==
  ASSUME IInv, TypeOK',
         UNCHANGED <<router, deferred, mnTunnel>>,
         careOfAddr' \in {Home, careOfAddr},
         Len(tmrs') <= Len(tmrs), \A i \in DOMAIN tmrs' : tmrs'[i].coa = router,
         away' = away \/ (away' = FALSE /\ router = Home),
         bc' # None => bc # None /\ bc'.coa = bc.coa /\ haTunnels' = haTunnels /\ hoaRoute' = hoaRoute
  PROVE  IInv'
<1>1. tmrs \in Seq(Timer_) /\ tmrs' \in Seq(Timer_)
  BY DEF IInv, TypeOK
<1>2. RetransmissionCurrent'
  BY <1>1 DEF IInv, RetransmissionCurrent
<1>3. tmrs = <<>> => tmrs' = <<>>
  BY <1>1, EmptySeq, LenProperties
<1>4. DeferredCurrent'
  <2>1. deferred \in Foreign \cup {None}
    BY DEF IInv, TypeOK
  <2> QED
    BY <1>3, <2>1, ParamAssumption DEF IInv, DeferredCurrent
<1>5. HomeIsHome' /\ ReverseTunnelReady'
  BY DEF IInv, HomeIsHome, ReverseTunnelReady
<1>6. TunnelForBinding'
  BY DEF IInv, TunnelForBinding
<1> QED
  BY <1>2, <1>4, <1>5, <1>6 DEF IInv

LEMMA RemoveAtShorter ==
  ASSUME NEW S, NEW s \in Seq(S), Len(s) <= 1, NEW i \in DOMAIN s
  PROVE  RemoveAt(s, i) = <<>>
<1>1. Len(s) = 1 /\ i = 1
  <2>1. DOMAIN s = 1 .. Len(s) /\ Len(s) \in Nat
    BY LenProperties
  <2>2. i \in Nat /\ 1 <= i /\ i <= Len(s)
    BY <2>1
  <2> QED
    BY <2>1, <2>2
<1>2. SubSeq(s, 1, 0) = <<>> /\ SubSeq(s, 2, 1) = <<>>
  BY SubSeqProperties, EmptySeq
<1> QED
  BY <1>1, <1>2, ConcatProperties, EmptySeq DEF RemoveAt

LEMMA TimerSafe == IInv /\ Timer => IInv'
<1> SUFFICES ASSUME IInv, Timer PROVE IInv'
  OBVIOUS
<1>1. TypeOK /\ TypeOK'
  BY TimerTypes DEF IInv
<1>2. tmrs \in Seq(Timer_) /\ Len(tmrs) <= 1 /\ \A i \in DOMAIN tmrs : tmrs[i].coa = router
  BY <1>1 DEF IInv, TypeOK, RetransmissionCurrent
<1>3. ASSUME NEW i \in DOMAIN tmrs, RetransmitBU(i) PROVE IInv'
  <2> DEFINE again == [tmrs EXCEPT ![i].timeout = 2 * tmrs[i].timeout, ![i].wait = 2 * tmrs[i].timeout]
  <2>1. RemoveAt(tmrs, i) = <<>>
    BY <1>2, RemoveAtShorter
  <2>2. Len(again) = Len(tmrs) /\ \A j \in DOMAIN again : again[j].coa = tmrs[j].coa
    <3>1. \A j \in DOMAIN again :
            again[j].coa = tmrs[j].coa
      BY <1>2 DEF Timer_
    <3> QED
      BY <1>2, <3>1
  <2>3. tmrs' \in {again, <<>>}
    BY <1>3, <2>1 DEF RetransmitBU
  <2>4. Len(tmrs') <= Len(tmrs) /\ \A j \in DOMAIN tmrs' : tmrs'[j].coa = router
    <3>1. CASE tmrs' = again
      <4>1. DOMAIN again = DOMAIN tmrs
        BY <1>2
      <4> HIDE DEF again
      <4> QED
        BY <1>2, <2>2, <3>1, <4>1, LenProperties
    <3>2. CASE tmrs' = <<>>
      BY <1>2, <3>2, LenProperties
    <3> QED
      BY <2>3, <3>1, <3>2
  <2>5. careOfAddr' \in {Home, careOfAddr}
    BY <1>1, <1>3 DEF RetransmitBU, careOfAddr, TypeOK, Entry
  <2>6. UNCHANGED <<router, deferred, mnTunnel, away, bc, haTunnels, hoaRoute>>
    BY <1>3 DEF RetransmitBU, haVars
  <2> QED
    BY <1>1, <2>4, <2>5, <2>6, QuietSafe
<1>4. CASE MNPeriod
  <2>1. careOfAddr' \in {Home, careOfAddr}
    BY <1>1, <1>4 DEF MNPeriod, Aged, careOfAddr, TypeOK, Entry
  <2>2. DOMAIN tmrs = 1 .. Len(tmrs) /\ Len(tmrs) \in Nat
    BY <1>2, LenProperties
  <2>3. tmrs' = [i \in 1 .. Len(tmrs) |-> [tmrs[i] EXCEPT !.wait = @ - 1]]
    BY <1>4, <2>2 DEF MNPeriod
  <2>4. tmrs' \in Seq(Timer_) /\ DOMAIN tmrs' = 1 .. Len(tmrs)
    BY <1>1, <2>3 DEF TypeOK
  <2>5. Len(tmrs') = Len(tmrs)
    BY <2>2, <2>4, LenProperties
  <2>6. \A i \in DOMAIN tmrs' : tmrs'[i].coa = router
    <3> SUFFICES ASSUME NEW i \in 1 .. Len(tmrs) PROVE tmrs'[i].coa = router
      BY <2>4
    <3>1. tmrs[i] \in Timer_ /\ tmrs[i].coa = router
      BY <1>2, <2>2
    <3>2. tmrs'[i] = [tmrs[i] EXCEPT !.wait = @ - 1]
      BY <2>3
    <3> QED
      BY <3>1, <3>2 DEF Timer_
  <2> QED
    BY <1>1, <1>4, <2>1, <2>2, <2>5, <2>6, QuietSafe DEF MNPeriod, haVars
<1>5. CASE HAPeriod
  <2>1. bc' # None => bc # None /\ bc'.coa = bc.coa
    BY <1>1, <1>5 DEF HAPeriod, Aged, TypeOK, Binding
  <2>2. careOfAddr' = careOfAddr
    BY <1>5 DEF HAPeriod, mnVars, careOfAddr
  <2>3. Len(tmrs') <= Len(tmrs)
    BY <1>2, <1>5, LenProperties DEF HAPeriod, mnVars
  <2> QED
    BY <1>1, <1>2, <1>5, <2>1, <2>2, <2>3, QuietSafe DEF HAPeriod, mnVars
<1> QED
  BY <1>3, <1>4, <1>5 DEF Timer

LEMMA DeliverSafe == IInv /\ Deliver => IInv'
<1> SUFFICES ASSUME IInv, NEW m \in msgs,
                    ReceiveBA(m) \/ ReceiveBE(m) \/ ReceiveBU(m) \/ ReceiveData(m)
             PROVE  IInv'
  BY DEF Deliver
<1>1. TypeOK /\ TypeOK'
  BY DeliverTypes DEF IInv, Deliver
<1>2. /\ tmrs \in Seq(Timer_) /\ Len(tmrs) \in Nat /\ DOMAIN tmrs = 1 .. Len(tmrs)
      /\ Len(tmrs) <= 1 /\ \A i \in DOMAIN tmrs : tmrs[i].coa = router
  BY <1>1, LenProperties DEF IInv, TypeOK, RetransmissionCurrent
<1>3. CASE ReceiveBA(m)
  <2>1. tmrs # <<>> => Tail(tmrs) = <<>>
    <3>1. tmrs # <<>> => Len(tmrs) = 1
      BY <1>2, EmptySeq
    <3>2. tmrs # <<>> => Tail(tmrs) \in Seq(Timer_) /\ Len(Tail(tmrs)) = 0
      BY <1>2, <3>1, HeadTailProperties
    <3> QED
      BY <3>2, EmptySeq
  <2>2. tmrs' \in {tmrs, <<>>}
    BY <1>3, <2>1 DEF ReceiveBA
  <2>3. Len(tmrs') <= Len(tmrs) /\ \A i \in DOMAIN tmrs' : tmrs'[i].coa = router
    BY <1>2, <2>2
  <2>4. away' = away \/ (away' = FALSE /\ router = Home)
    <3>1. tmrs # <<>> => 1 \in DOMAIN tmrs
      BY <1>2, EmptySeq
    <3> QED
      BY <1>2, <1>3, <3>1 DEF ReceiveBA
  <2>5. careOfAddr' \in {Home, careOfAddr}
    <3>1. CASE bule = None
      BY <1>3, <3>1 DEF ReceiveBA, careOfAddr
    <3>2. CASE bule # None
      <4>1. bule \in Entry
        BY <1>1, <3>2 DEF TypeOK
      <4>2. ASSUME NEW b \in Entry PROVE ShortenExpiry(b, m).coa = b.coa
        BY DEF ShortenExpiry, Entry
      <4>3. [bule EXCEPT !.state = 0] \in Entry /\ [bule EXCEPT !.state = 0].coa = bule.coa
        BY <4>1 DEF Entry
      <4>4. [bule EXCEPT !.seq = m.seq + 1].coa = bule.coa
        BY <4>1 DEF Entry
      <4>5. bule' # None => bule'.coa = bule.coa
        BY <1>3, <3>2, <4>2, <4>3, <4>4 DEF ReceiveBA
      <4> QED
        BY <3>2, <4>5 DEF careOfAddr
    <3> QED
      BY <3>1, <3>2
  <2> QED
    BY <1>1, <1>3, <2>3, <2>4, <2>5, QuietSafe DEF ReceiveBA, haVars
<1>4. CASE ReceiveBE(m)
  <2>1. careOfAddr' \in {Home, careOfAddr}
    BY <1>4 DEF ReceiveBE, careOfAddr
  <2> QED
    BY <1>1, <1>2, <1>4, <2>1, QuietSafe DEF ReceiveBE, haVars
<1>5. CASE ReceiveBU(m) \/ ReceiveData(m)
  <2>1. UNCHANGED mnVars
    BY <1>5 DEF ReceiveBU, ReceiveData
  <2>2. /\ RetransmissionCurrent' /\ DeferredCurrent' /\ HomeIsHome' /\ ReverseTunnelReady'
    BY <2>1 DEF IInv, mnVars, RetransmissionCurrent, DeferredCurrent, HomeIsHome,
                ReverseTunnelReady, careOfAddr
  <2>3. TunnelForBinding'
    <3>1. CASE ReceiveBU(m) /\ registerBCE(m)
      <4>1. bc' # None => bc'.coa = m.coa
        BY <3>1 DEF registerBCE
      <4> QED
        BY <3>1, <4>1 DEF registerBCE, TunnelForBinding
    <3>2. CASE ReceiveBU(m) /\ deregisterBCE(m)
      BY <3>2 DEF deregisterBCE, haVars, IInv, TunnelForBinding
    <3>3. CASE (ReceiveBU(m) /\ RejectBU(m)) \/ ReceiveData(m)
      BY <3>3 DEF ReceiveData, RejectBU, haVars, IInv, TunnelForBinding
    <3> QED
      BY <1>5, <3>1, <3>2, <3>3 DEF ReceiveBU
  <2> QED
    BY <1>1, <2>2, <2>3 DEF IInv
<1> QED
  BY <1>3, <1>4, <1>5

LEMMA NextSafe == IInv /\ [Next]_vars => IInv'
<1> SUFFICES ASSUME IInv, [Next]_vars PROVE IInv'
  OBVIOUS
<1>1. TypeOK /\ TypeOK'
  BY NextTypes DEF IInv
<1>2. CASE SendDeferredBU
  <2>1. deferred \in Foreign /\ deferred = router /\ tmrs = <<>>
    BY <1>1, <1>2 DEF SendDeferredBU, IInv, DeferredCurrent, TypeOK
  <2>2. away = TRUE
    BY <2>1, ParamAssumption DEF IInv, HomeIsHome
  <2>3. bule'.coa = router /\ mnTunnel' = router
    BY <1>2, <2>1, <2>2 DEF SendDeferredBU, SentBule, sendBU, updateTunnelsFrom
  <2>4. RetransmissionCurrent'
    <3>1. PICK w \in FirstWait : tmrs' = SentTmrs(deferred, Lifetime, w)
      BY <1>2 DEF SendDeferredBU
    <3>2. router' = router
      BY <1>2 DEF SendDeferredBU
    <3> QED
      BY <2>1, <3>1, <3>2, SentTmrsCurrent DEF RetransmissionCurrent
  <2>5. DeferredCurrent' /\ HomeIsHome' /\ TunnelForBinding'
    BY <1>2 DEF SendDeferredBU, haVars, IInv, DeferredCurrent, HomeIsHome, TunnelForBinding
  <2>6. ReverseTunnelReady'
    BY <2>3 DEF ReverseTunnelReady, careOfAddr
  <2> QED
    BY <1>1, <2>4, <2>5, <2>6 DEF IInv
<1>3. CASE SendDataToHA \/ UNCHANGED vars
  BY <1>1, <1>3 DEF SendDataToHA, vars, mnVars, haVars, IInv, RetransmissionCurrent,
       DeferredCurrent, HomeIsHome, ReverseTunnelReady, TunnelForBinding, careOfAddr
<1> QED
  BY <1>2, <1>3, MoveSafe, TimerSafe, DeliverSafe DEF Next

LEMMA InitSafe == Init => IInv
<1> SUFFICES ASSUME Init PROVE IInv
  OBVIOUS
<1>1. TypeOK
  <2>1. tmrs \in Seq(Timer_)
    BY DEF Init
  <2>2. router \in Addr /\ msgs \subseteq Message /\ haTunnels \subseteq Foreign
    BY DEF Init, Addr
  <2> QED
    BY <2>1, <2>2 DEF Init, TypeOK
<1>2. RetransmissionCurrent
  BY DEF Init, RetransmissionCurrent
<1> QED
  BY <1>1, <1>2 DEF Init, IInv, DeferredCurrent, HomeIsHome, ReverseTunnelReady,
                    TunnelForBinding, careOfAddr

\* The conjunction of the safety invariants of the component holds in every state.
THEOREM Invariance == Spec => []IInv
BY InitSafe, NextSafe, PTL DEF Spec

\* A retransmission timer repeats the BU for the link the MN is on, and there is
\* never more than one (relinquishRouter, sendBU, processBA).
THEOREM RetransmissionIsCurrent == Spec => []RetransmissionCurrent
<1>1. IInv => RetransmissionCurrent
  BY DEF IInv
<1> QED
  BY <1>1, Invariance, PTL

\* A deferred BU is for the link the MN is on and for a new CoA (deferSendBU,
\* relinquishRouter, MIPv6NDStateHost::sendBU).
THEOREM DeferredIsCurrent == Spec => []DeferredCurrent
<1>1. IInv => DeferredCurrent
  BY DEF IInv
<1> QED
  BY <1>1, Invariance, PTL

\* awayFromHome is true exactly off the home link (handover, returnHome, processBA).
THEOREM AwayIsAway == Spec => []HomeIsHome
<1>1. IInv => HomeIsHome
  BY DEF IInv
<1> QED
  BY <1>1, Invariance, PTL

\* The reverse tunnel of the CoA in the list exists (updateTunnelsFrom).
THEOREM ReverseTunnelIsReady == Spec => []ReverseTunnelReady
<1>1. IInv => ReverseTunnelReady
  BY DEF IInv
<1> QED
  BY <1>1, Invariance, PTL

\* The tunnel of a binding exists and the home address takes it (registerBCE,
\* deregisterBCE, expireLifetimes).
THEOREM BindingHasTunnel == Spec => []TunnelForBinding
<1>1. IInv => TunnelForBinding
  BY DEF IInv
<1> QED
  BY <1>1, Invariance, PTL

\* The assertions ncoa != ocoa of MIPv6NDStateHost::sendBU and of the tunnel in
\* deregisterBCE never fail, whatever the lifetimes and delays: only that of retransmitBU
\* can, which NothingAborts rules out for lifetimes that outlast the back-off.
OnlyEntryAssertion == aborted \in {"none", "assert(bule)"}

THEOREM AssertionsHold == Spec => []OnlyEntryAssertion
<1>1. Init => OnlyEntryAssertion
  BY DEF Init, OnlyEntryAssertion
<1>2. IInv /\ OnlyEntryAssertion /\ [Next]_vars => OnlyEntryAssertion'
  <2> SUFFICES ASSUME IInv, OnlyEntryAssertion, [Next]_vars PROVE OnlyEntryAssertion'
    OBVIOUS
  <2>1. CASE Move
    BY <2>1 DEF Move, LoseRouter, ReturnHome, HandoverSameCoa, HandoverAssigned,
                HandoverDeferred, OnlyEntryAssertion
  <2>2. CASE SendDeferredBU
    BY <2>2 DEF SendDeferredBU, Require, IInv, DeferredCurrent, OnlyEntryAssertion
  <2>3. CASE SendDataToHA \/ UNCHANGED vars
    BY <2>3 DEF SendDataToHA, vars, OnlyEntryAssertion
  <2>4. CASE Timer
    BY <2>4 DEF Timer, RetransmitBU, Require, MNPeriod, HAPeriod, OnlyEntryAssertion
  <2>5. CASE Deliver
    <3>1. ASSUME NEW m \in msgs, ReceiveBU(m) PROVE OnlyEntryAssertion'
      <4>1. CASE deregisterBCE(m)
        <5>1. bc # None => hoaRoute \in haTunnels
          BY DEF IInv, TunnelForBinding
        <5> QED
          BY <4>1, <5>1 DEF deregisterBCE, Require, OnlyEntryAssertion
      <4>2. CASE RejectBU(m) \/ registerBCE(m)
        BY <4>2 DEF RejectBU, registerBCE, OnlyEntryAssertion
      <4> QED
        BY <3>1, <4>1, <4>2 DEF ReceiveBU
    <3> QED
      BY <2>5, <3>1 DEF Deliver, ReceiveBA, ReceiveBE, ReceiveData, OnlyEntryAssertion
  <2> QED
    BY <2>1, <2>2, <2>3, <2>4, <2>5 DEF Next
<1> QED
  BY <1>1, <1>2, Invariance, PTL DEF Spec


-----------------------------------------------------------------------------
(* Agreement.  AckedAgreement is inductive only with what ties the messages in *)
(* flight to the entry: while the MN dwells on a link until its messages have  *)
(* arrived, every BU in flight and every timer is of the registration that the *)
(* entry stands for, and from the HA's acceptance on the binding is the HA's   *)
(* side of it.  The HA counts the lifetime down from a later period than the   *)
(* MN, so it lags by at most the period in which it has not ticked yet.        *)

LifeFor(coa) == IF coa = Home THEN 0 ELSE Lifetime

OneRegistration ==
  bule # None =>
    /\ bule.lifetime = LifeFor(bule.coa)
    /\ bule.expires <= bule.lifetime
    /\ \A m \in msgs : m.type = "BU" => m.coa = bule.coa /\ m.life = bule.lifetime
    /\ \A i \in DOMAIN tmrs : tmrs[i].coa = bule.coa /\ tmrs[i].life = bule.lifetime

DeferredQuiet == deferred # None => msgs = {}

Accepted(m) == m.type = "BA" /\ m.status = "ACCEPTED"

Granted == acked # None \/ \E m \in msgs : Accepted(m)

BindingAgrees ==
  /\ bc # None => bc.coa = bule.coa
  /\ bule.coa \in Foreign /\ bule.expires > 1 =>
       bc # None /\ (bule.expires <= bc.expires \/ (turn = "mn" /\ bule.expires = bc.expires + 1))

GrantIsHeld ==
  bule # None => /\ acked \in {None, bule.coa}
                 /\ Granted => BindingAgrees

AgreementInv == OneRegistration /\ DeferredQuiet /\ GrantIsHeld

\* A BU for a new registration, sent when nothing else is in flight.
Registers(c) ==
  /\ bule' \in Entry
  /\ bule'.coa = c /\ bule'.lifetime = LifeFor(c) /\ bule'.expires = bule'.lifetime
  /\ msgs' \in SUBSET {BU(c, NextSeq, LifeFor(c))}
  /\ acked' = None
  /\ \A i \in DOMAIN tmrs' : tmrs'[i].coa = c /\ tmrs'[i].life = LifeFor(c)
  /\ deferred' = None

LEMMA RegistersAgrees ==
  ASSUME NEW c \in Addr, Registers(c)
  PROVE  AgreementInv'
<1>1. LifeFor(c) \in Nat
  BY ParamAssumption DEF LifeFor
<1>2. \A m \in msgs' : m.type = "BU" /\ m.coa = c /\ m.life = LifeFor(c)
  BY DEF Registers, BU
<1>3. OneRegistration'
  BY <1>1, <1>2 DEF Registers, OneRegistration, Entry, LifeFor
<1>4. DeferredQuiet'
  BY DEF Registers, DeferredQuiet
<1>5. ~ Granted'
  BY <1>2 DEF Registers, Granted, Accepted
<1> QED
  BY <1>3, <1>4, <1>5 DEF AgreementInv, GrantIsHeld, Registers

\* The registration goes on, or ends: the MN sends nothing but further BUs of its, data
\* and what the HA sends besides acceptances, and believes no BA it did not receive.
Continues ==
  /\ bule' # None => /\ bule # None /\ bule'.coa = bule.coa /\ bule'.lifetime = bule.lifetime
                     /\ bule'.expires <= bule.expires
  /\ \A i \in DOMAIN tmrs' : \E j \in DOMAIN tmrs :
       tmrs'[i].coa = tmrs[j].coa /\ tmrs'[i].life = tmrs[j].life
  /\ \A m \in msgs' : \/ m \in msgs
                      \/ m.type \in {"Data", "BE"}
                      \/ m.type = "BA" /\ m.status # "ACCEPTED"
                      \/ m.type = "BU" /\ \E j \in DOMAIN tmrs : m.coa = tmrs[j].coa /\ m.life = tmrs[j].life
  /\ \/ acked' \in {None, acked}
     \/ bule # None /\ acked' = bule.coa /\ \E m \in msgs : Accepted(m)

\* An entry of the MN that expires no later is backed by the same binding.
LEMMA StillBacked ==
  ASSUME TypeOK, TypeOK', bule # None, bule' # None, BindingAgrees, bule'.coa = bule.coa,
         bule'.expires <= bule.expires, bc' = bc, turn' = turn
  PROVE  BindingAgrees'
<1>1. bule \in Entry /\ bule' \in Entry /\ (bc # None => bc \in Binding)
  BY DEF TypeOK
<1>2. bule.expires \in Nat /\ bule'.expires \in Nat /\ (bc # None => bc.expires \in Nat)
  BY <1>1 DEF Entry, Binding
<1> QED
  BY <1>2 DEF BindingAgrees

LEMMA ContinuesAgrees ==
  ASSUME TypeOK, TypeOK', AgreementInv, Continues, bc' = bc, turn' = turn,
         deferred' # None => msgs' = {}
  PROVE  AgreementInv'
<1>1. OneRegistration'
  <2> SUFFICES ASSUME bule' # None PROVE OneRegistration'
    BY DEF OneRegistration
  <2>1. /\ bule \in Entry /\ bule' \in Entry
        /\ bule'.coa = bule.coa /\ bule'.lifetime = bule.lifetime /\ bule'.expires <= bule.expires
    BY DEF Continues, TypeOK
  <2>2. bule.expires \in Nat /\ bule'.expires \in Nat /\ bule.lifetime \in Nat
    BY <2>1 DEF Entry
  <2>3. /\ bule.lifetime = LifeFor(bule.coa) /\ bule.expires <= bule.lifetime
        /\ \A m \in msgs : m.type = "BU" => m.coa = bule.coa /\ m.life = bule.lifetime
        /\ \A i \in DOMAIN tmrs : tmrs[i].coa = bule.coa /\ tmrs[i].life = bule.lifetime
    BY <2>1 DEF AgreementInv, OneRegistration, Continues
  <2>4. \A m \in msgs' : m.type = "BU" => m.coa = bule.coa /\ m.life = bule.lifetime
    BY <2>3 DEF Continues
  <2>5. \A i \in DOMAIN tmrs' : tmrs'[i].coa = bule.coa /\ tmrs'[i].life = bule.lifetime
    BY <2>3 DEF Continues
  <2>6. bule'.expires <= bule'.lifetime /\ bule'.lifetime = LifeFor(bule'.coa)
    BY <2>1, <2>2, <2>3
  <2> QED
    BY <2>1, <2>4, <2>5, <2>6 DEF OneRegistration
<1>2. DeferredQuiet'
  BY DEF DeferredQuiet
<1>3. Granted' /\ bule # None => Granted
  <2>1. ASSUME NEW m \in msgs', Accepted(m) PROVE Granted
    BY <2>1 DEF Continues, Accepted, Granted
  <2> QED
    BY <2>1 DEF Continues, Granted
<1>4. GrantIsHeld'
  <2> SUFFICES ASSUME bule' # None
               PROVE  acked' \in {None, bule'.coa} /\ (Granted' => BindingAgrees')
    BY DEF GrantIsHeld
  <2>1. bule # None /\ bule'.coa = bule.coa /\ bule'.expires <= bule.expires
    BY DEF Continues
  <2>2. acked' \in {None, bule.coa}
    BY <2>1 DEF Continues, AgreementInv, GrantIsHeld
  <2>3. Granted' => BindingAgrees
    BY <1>3, <2>1 DEF AgreementInv, GrantIsHeld
  <2> QED
    BY <2>1, <2>2, <2>3, StillBacked
<1> QED
  BY <1>1, <1>2, <1>4 DEF AgreementInv

\* A move that sends no BU, made when nothing is in flight.
LEMMA MovesOn ==
  ASSUME IInv, TypeOK', AgreementInv, msgs = {}, msgs' = {}, acked' = acked,
         bc' = bc, turn' = turn, NEW new, NEW d, relinquishRouter(new, bule, tmrs, d)
  PROVE  AgreementInv'
<1>1. /\ bule' # None => /\ bule # None /\ bule'.coa = bule.coa /\ bule'.lifetime = bule.lifetime
                         /\ bule'.expires = bule.expires
  <2>1. bule # None => [bule EXCEPT !.state = 0].coa = bule.coa
                       /\ [bule EXCEPT !.state = 0].lifetime = bule.lifetime
                       /\ [bule EXCEPT !.state = 0].expires = bule.expires
    BY DEF IInv, TypeOK, Entry
  <2> QED
    BY <2>1 DEF relinquishRouter
<1>2. bule' # None => bule.expires \in Nat
  BY <1>1 DEF IInv, TypeOK, Entry
<1>3. tmrs' \in {<<>>, tmrs}
  BY DEF relinquishRouter
<1>4. \A i \in DOMAIN tmrs' : \E j \in DOMAIN tmrs :
        tmrs'[i].coa = tmrs[j].coa /\ tmrs'[i].life = tmrs[j].life
  BY <1>3
<1>5. Continues
  BY <1>1, <1>2, <1>4 DEF Continues
<1> QED
  BY <1>5, ContinuesAgrees DEF IInv

\* The one BU that sendBU sends, if it is not lost.
LEMMA OneMessage ==
  ASSUME msgs = {}, NEW m, Send(msgs, m)
  PROVE  msgs' \in SUBSET {m}
BY DEF Send

\* The timer of the BU just sent, if there was none before.
LEMMA SentTmrsLife ==
  ASSUME tmrs = <<>>, NEW coa, NEW life, NEW wait
  PROVE  \A i \in DOMAIN SentTmrs(coa, life, wait) :
           /\ SentTmrs(coa, life, wait)[i].coa = coa
           /\ SentTmrs(coa, life, wait)[i].life = life
<1> DEFINE t == [coa |-> coa, life |-> life, timeout |-> 1, wait |-> wait]
<1>1. SentTmrs(coa, life, wait) \in {<<>>, Append(<<>>, t)}
  BY DEF SentTmrs
<1>2. CASE SentTmrs(coa, life, wait) = <<>>
  BY <1>2
<1>3. CASE SentTmrs(coa, life, wait) = Append(<<>>, t)
  <2>1. \A i \in DOMAIN Append(<<>>, t) : Append(<<>>, t)[i] = t
    OBVIOUS
  <2> QED
    BY <1>3, <2>1
<1> QED
  BY <1>1, <1>2, <1>3

\* A move that sends a BU when nothing is in flight.
LEMMA MovesAndRegisters ==
  ASSUME IInv, TypeOK', msgs = {}, NEW new \in Addr, new # router, NEW wait \in Nat,
         NEW isAway, sendBU(new, LifeFor(new), isAway),
         relinquishRouter(new, SentBule(new, LifeFor(new)), SentTmrs(new, LifeFor(new), wait),
                          deferred)
  PROVE  AgreementInv'
<1> DEFINE life == LifeFor(new)
           b == SentBule(new, life)
           ts == SentTmrs(new, life, wait)
<1>1. life \in Nat
  BY ParamAssumption DEF LifeFor
<1>2. b \in Entry /\ ts \in Seq(Timer_)
  BY <1>1, SentTypes DEF IInv
<1>3. b.coa = new /\ b.lifetime = life /\ b.expires = life
  BY DEF SentBule
<1>4. bule' \in {b, [b EXCEPT !.state = 0]} /\ tmrs' \in {<<>>, ts} /\ (router # None => tmrs' = <<>>)
  <2>1. b # None \/ b = None
    OBVIOUS
  <2>2. TypeOK'
    OBVIOUS
  <2> HIDE DEF b, ts
  <2> QED
    BY DEF relinquishRouter, b, ts
<1>5. /\ bule' \in Entry /\ bule'.coa = new /\ bule'.lifetime = life /\ bule'.expires = life
  <2> HIDE DEF b, ts, life
  <2> QED
    BY <1>2, <1>3, <1>4 DEF Entry
<1>6. \A i \in DOMAIN tmrs' : tmrs'[i].coa = new /\ tmrs'[i].life = life
  <2>1. CASE router = None
    BY <1>4, <2>1, NoLink, SentTmrsLife
  <2>2. CASE router # None
    BY <1>4, <2>2
  <2> QED
    BY <2>1, <2>2
<1>7. deferred' = None
  BY NoLink DEF IInv, DeferredCurrent, relinquishRouter
<1>8. msgs' \in SUBSET {BU(new, NextSeq, life)} /\ acked' = None
  BY OneMessage DEF sendBU
<1>9. Registers(new)
  BY <1>5, <1>6, <1>7, <1>8 DEF Registers
<1> QED
  BY <1>9, RegistersAgrees

LEMMA MoveAgrees ==
  ASSUME Dwell, IInv, TypeOK', AgreementInv, Move
  PROVE  AgreementInv'
<1>1. msgs = {} /\ bc' = bc /\ turn' = turn
  BY DEF Move, LoseRouter, ReturnHome, HandoverSameCoa, HandoverAssigned, HandoverDeferred,
         MayMove, haVars
<1>2. CASE LoseRouter
  BY <1>1, <1>2, MovesOn DEF LoseRouter
<1>3. CASE ReturnHome
  <2>1. CASE careOfAddr = Home
    BY <1>1, <1>3, <2>1, MovesOn DEF ReturnHome
  <2>2. CASE careOfAddr # Home
    <3>1. PICK w \in FirstWait :
            relinquishRouter(Home, SentBule(Home, 0), SentTmrs(Home, 0, w), deferred)
      BY <1>3, <2>2 DEF ReturnHome
    <3>2. sendBU(Home, 0, FALSE) /\ router # Home
      BY <1>3, <2>2 DEF ReturnHome
    <3>3. LifeFor(Home) = 0 /\ Home \in Addr /\ w \in Nat
      BY FirstWaitType DEF LifeFor, Addr
    <3> QED
      BY <1>1, <3>1, <3>2, <3>3, MovesAndRegisters
  <2> QED
    BY <2>1, <2>2
<1>4. ASSUME NEW r \in Foreign, HandoverSameCoa(r) PROVE AgreementInv'
  BY <1>1, <1>4, MovesOn DEF HandoverSameCoa
<1>5. ASSUME NEW r \in Foreign, HandoverAssigned(r) PROVE AgreementInv'
  <2>1. PICK w \in FirstWait :
          relinquishRouter(r, SentBule(r, Lifetime), SentTmrs(r, Lifetime, w), deferred)
    BY <1>5 DEF HandoverAssigned
  <2>2. sendBU(r, Lifetime, TRUE) /\ router # r
    BY <1>5 DEF HandoverAssigned
  <2>3. LifeFor(r) = Lifetime /\ r \in Addr /\ w \in Nat
    BY FirstWaitType, ParamAssumption DEF LifeFor, Addr
  <2> QED
    BY <1>1, <2>1, <2>2, <2>3, MovesAndRegisters
<1>6. ASSUME NEW r \in Foreign, HandoverDeferred(r) PROVE AgreementInv'
  BY <1>1, <1>6, MovesOn DEF HandoverDeferred
<1> QED
  BY <1>2, <1>3, <1>4, <1>5, <1>6 DEF Move

LEMMA DeferredBUAgrees ==
  ASSUME IInv, AgreementInv, SendDeferredBU
  PROVE  AgreementInv'
<1>1. deferred \in Foreign /\ tmrs = <<>> /\ msgs = {}
  BY DEF SendDeferredBU, IInv, DeferredCurrent, TypeOK, AgreementInv, DeferredQuiet
<1>2. PICK w \in FirstWait : tmrs' = SentTmrs(deferred, Lifetime, w)
  BY DEF SendDeferredBU
<1>3. LifeFor(deferred) = Lifetime /\ deferred \in Addr /\ w \in Nat /\ Lifetime \in Nat
  BY <1>1, FirstWaitType, ParamAssumption DEF LifeFor, Addr
<1>4. bule' \in Entry /\ bule'.coa = deferred /\ bule'.lifetime = Lifetime /\ bule'.expires = Lifetime
  <2>1. SentBule(deferred, Lifetime) \in Entry
    BY <1>3, SentTypes DEF IInv
  <2> QED
    BY <2>1 DEF SendDeferredBU, SentBule
<1>5. \A i \in DOMAIN tmrs' : tmrs'[i].coa = deferred /\ tmrs'[i].life = Lifetime
  BY <1>1, <1>2, SentTmrsLife
<1>6. msgs' \in SUBSET {BU(deferred, NextSeq, Lifetime)} /\ acked' = None /\ deferred' = None
  BY <1>1, OneMessage DEF SendDeferredBU, sendBU
<1>7. Registers(deferred)
  BY <1>3, <1>4, <1>5, <1>6 DEF Registers
<1> QED
  BY <1>3, <1>7, RegistersAgrees

\* What a send adds to the messages in flight.
LEMMA SentOrOld ==
  ASSUME NEW rest, NEW m, Send(rest, m)
  PROVE  \A x \in msgs' : x \in rest \/ x = m
<1>1. msgs' = rest \/ msgs' = rest \cup {m}
  BY DEF Send
<1> QED
  BY <1>1

LEMMA DataAgrees ==
  ASSUME IInv, TypeOK', AgreementInv, SendDataToHA
  PROVE  AgreementInv'
<1>1. deferred' = None
  BY DEF SendDataToHA, mnVars, IInv, DeferredCurrent, careOfAddr
<1>2. \A m \in msgs' : m \in msgs \/ m.type = "Data"
  BY SentOrOld DEF SendDataToHA, Data
<1>3. bule' = bule /\ tmrs' = tmrs /\ acked' = acked /\ bc' = bc /\ turn' = turn
  BY DEF SendDataToHA, mnVars, haVars
<1>4. bule # None => bule.expires \in Nat
  BY DEF IInv, TypeOK, Entry
<1>5. Continues
  BY <1>2, <1>3, <1>4 DEF Continues
<1> QED
  BY <1>1, <1>3, <1>5, ContinuesAgrees DEF IInv

LEMMA RetransmissionAgrees ==
  ASSUME IInv, TypeOK', AgreementInv, NEW i \in DOMAIN tmrs, RetransmitBU(i)
  PROVE  AgreementInv'
<1>1. tmrs \in Seq(Timer_) /\ Len(tmrs) <= 1 /\ tmrs # <<>>
  BY DEF IInv, TypeOK, RetransmissionCurrent
<1>2. deferred' = None
  BY <1>1 DEF RetransmitBU, IInv, DeferredCurrent
<1>3. /\ bule' # None => /\ bule # None /\ bule'.coa = bule.coa /\ bule'.lifetime = bule.lifetime
                         /\ bule'.expires = bule.expires
  <2>1. ASSUME bule # None
        PROVE  /\ [bule EXCEPT !.state = @ + 1, !.seq = @ + 1].coa = bule.coa
               /\ [bule EXCEPT !.state = @ + 1, !.seq = @ + 1].lifetime = bule.lifetime
               /\ [bule EXCEPT !.state = @ + 1, !.seq = @ + 1].expires = bule.expires
               /\ [bule EXCEPT !.problem = TRUE, !.state = 0].coa = bule.coa
               /\ [bule EXCEPT !.problem = TRUE, !.state = 0].lifetime = bule.lifetime
               /\ [bule EXCEPT !.problem = TRUE, !.state = 0].expires = bule.expires
    BY <2>1 DEF IInv, TypeOK, Entry
  <2>2. PICK b1 : b1 = [bule EXCEPT !.state = @ + 1, !.seq = @ + 1]
    OBVIOUS
  <2>3. PICK b2 : b2 = [bule EXCEPT !.problem = TRUE, !.state = 0]
    OBVIOUS
  <2>4. bule' \in {bule, None, b1, b2} /\ (bule = None => bule' = None)
    BY <2>2, <2>3 DEF RetransmitBU
  <2>5. bule # None => /\ b1.coa = bule.coa /\ b1.lifetime = bule.lifetime /\ b1.expires = bule.expires
                       /\ b2.coa = bule.coa /\ b2.lifetime = bule.lifetime /\ b2.expires = bule.expires
    BY <2>1, <2>2, <2>3
  <2> QED
    BY <2>4, <2>5
<1>4. bule' # None => bule.expires \in Nat
  BY <1>3 DEF IInv, TypeOK, Entry
<1>5. \A m \in msgs' : m \in msgs \/ (m.type = "BU" /\ m.coa = tmrs[i].coa /\ m.life = tmrs[i].life)
  <2>1. CASE msgs' = msgs
    BY <2>1
  <2>2. CASE Send(msgs, BU(tmrs[i].coa, bule.seq + 1, tmrs[i].life))
    <3>1. \A m \in msgs' : m \in msgs \/ m = BU(tmrs[i].coa, bule.seq + 1, tmrs[i].life)
      BY <2>2, SentOrOld
    <3> QED
      BY <3>1 DEF BU
  <2> QED
    BY <2>1, <2>2 DEF RetransmitBU
<1>6. \A k \in DOMAIN tmrs' : \E j \in DOMAIN tmrs :
        tmrs'[k].coa = tmrs[j].coa /\ tmrs'[k].life = tmrs[j].life
  <2> DEFINE again == [tmrs EXCEPT ![i].timeout = 2 * tmrs[i].timeout, ![i].wait = 2 * tmrs[i].timeout]
  <2>1. RemoveAt(tmrs, i) = <<>>
    BY <1>1, RemoveAtShorter
  <2>2. tmrs' \in {again, <<>>}
    BY <2>1 DEF RetransmitBU
  <2>3. DOMAIN again = DOMAIN tmrs
    BY <1>1
  <2>4. \A j \in DOMAIN tmrs : again[j].coa = tmrs[j].coa /\ again[j].life = tmrs[j].life
    BY <1>1 DEF Timer_
  <2>5. CASE tmrs' = again
    <3> HIDE DEF again
    <3> QED
      BY <2>3, <2>4, <2>5
  <2>6. CASE tmrs' = <<>>
    BY <2>6
  <2> QED
    BY <2>2, <2>5, <2>6
<1>7. Continues
  BY <1>3, <1>4, <1>5, <1>6 DEF Continues, RetransmitBU
<1>8. bc' = bc /\ turn' = turn
  BY DEF RetransmitBU, haVars
<1> QED
  BY <1>2, <1>7, <1>8, ContinuesAgrees DEF IInv

\* An expiry timer ticks: the two ends count down in turn.
LEMMA PeriodAgrees ==
  ASSUME IInv, TypeOK', AgreementInv, MNPeriod \/ HAPeriod
  PROVE  AgreementInv'
<1>1. /\ bule \in Entry \cup {None} /\ bule' \in Entry \cup {None}
      /\ bc \in Binding \cup {None} /\ bc' \in Binding \cup {None}
  BY DEF IInv, TypeOK
<1>2. /\ msgs' = msgs /\ acked' = acked /\ deferred' = deferred
      /\ DOMAIN tmrs' = DOMAIN tmrs
      /\ \A i \in DOMAIN tmrs : tmrs'[i].coa = tmrs[i].coa /\ tmrs'[i].life = tmrs[i].life
  <2>1. CASE MNPeriod
    <3>1. \A i \in DOMAIN tmrs : tmrs[i] \in Timer_ /\ tmrs'[i] = [tmrs[i] EXCEPT !.wait = @ - 1]
      BY <2>1 DEF MNPeriod, IInv, TypeOK
    <3> QED
      BY <2>1, <3>1 DEF MNPeriod, Timer_
  <2>2. CASE HAPeriod
    BY <2>2 DEF HAPeriod, mnVars
  <2> QED
    BY <2>1, <2>2
<1>3. bule' # None => /\ bule # None /\ bule'.coa = bule.coa /\ bule'.lifetime = bule.lifetime
                      /\ bule'.expires \in Nat /\ bule.expires \in Nat
                      /\ bule'.expires = IF MNPeriod THEN bule.expires - 1 ELSE bule.expires
  <2>1. CASE MNPeriod
    BY <1>1, <2>1 DEF MNPeriod, Aged, Entry
  <2>2. CASE HAPeriod
    <3>1. ~ MNPeriod
      BY <2>2 DEF MNPeriod, HAPeriod
    <3> QED
      BY <1>1, <2>2, <3>1 DEF HAPeriod, mnVars, Entry
  <2> QED
    BY <2>1, <2>2
<1>4. OneRegistration'
  BY <1>1, <1>2, <1>3 DEF AgreementInv, OneRegistration, Entry
<1>5. DeferredQuiet'
  BY <1>2 DEF AgreementInv, DeferredQuiet
<1>6. ASSUME bule' # None, BindingAgrees PROVE BindingAgrees'
  <2>1. CASE MNPeriod
    <3>1. bc' = bc /\ turn = "mn" /\ turn' = "ha"
      BY <2>1 DEF MNPeriod, haVars
    <3>2. bc # None => bc.expires \in Nat
      BY <1>1 DEF Binding
    <3> QED
      BY <1>3, <1>6, <2>1, <3>1, <3>2 DEF BindingAgrees
  <2>2. CASE HAPeriod
    <3>1. bule' = bule /\ turn = "ha" /\ turn' = "mn" /\ bc' = Aged(bc)
      BY <2>2 DEF HAPeriod, mnVars
    <3>2. /\ bc # None => bc.expires \in Nat
          /\ bc' # None => bc # None /\ bc'.coa = bc.coa /\ bc'.expires = bc.expires - 1
          /\ bc' = None => bc = None \/ bc.expires <= 1
      <4>1. CASE bc = None \/ bc.expires <= 1
        BY <1>1, <3>1, <4>1 DEF Aged, Binding
      <4>2. CASE bc # None /\ bc.expires > 1
        <5>1. bc \in Binding /\ bc' = [bc EXCEPT !.expires = bc.expires - 1]
          BY <1>1, <3>1, <4>2 DEF Aged
        <5>2. bc' \in Binding
          BY <4>2, <5>1 DEF Binding
        <5> QED
          BY <5>1, <5>2, ParamAssumption DEF Binding
      <4>3. bc # None => bc.expires \in Nat
        BY <1>1 DEF Binding
      <4> QED
        BY <4>1, <4>2, <4>3
    <3>3. bule.expires \in Nat
      BY <1>3, <1>6
    <3> HIDE DEF Aged
    <3> QED
      BY <1>6, <3>1, <3>2, <3>3 DEF BindingAgrees
  <2> QED
    BY <2>1, <2>2
<1>7. GrantIsHeld'
  BY <1>2, <1>3, <1>6 DEF AgreementInv, GrantIsHeld, Granted
<1> QED
  BY <1>4, <1>5, <1>7 DEF AgreementInv

LEMMA TimerAgrees ==
  ASSUME IInv, TypeOK', AgreementInv, Timer
  PROVE  AgreementInv'
BY RetransmissionAgrees, PeriodAgrees DEF Timer

\* Taking the first timer takes the only one.
LEMMA OneTimer ==
  ASSUME IInv, tmrs # <<>>
  PROVE  Tail(tmrs) = <<>>
<1>1. tmrs \in Seq(Timer_) /\ Len(tmrs) <= 1
  BY DEF IInv, TypeOK, RetransmissionCurrent
<1>2. Len(tmrs) \in Nat /\ Len(tmrs) # 0
  BY <1>1, EmptySeq, LenProperties
<1>3. Len(tmrs) = 1
  <2>1. PICK n \in Nat : n = Len(tmrs)
    BY <1>2
  <2>2. n <= 1 /\ n # 0
    BY <1>1, <1>2, <2>1
  <2> QED
    BY <2>1, <2>2
<1>4. Tail(tmrs) \in Seq(Timer_) /\ Len(Tail(tmrs)) = 0
  BY <1>1, <1>3, HeadTailProperties
<1> QED
  BY <1>4, EmptySeq

LEMMA BAAgrees ==
  ASSUME IInv, TypeOK', AgreementInv, NEW m \in msgs, ReceiveBA(m)
  PROVE  AgreementInv'
<1>1. deferred' = None
  BY DEF AgreementInv, DeferredQuiet, ReceiveBA
<1>2. msgs' \subseteq msgs /\ bc' = bc /\ turn' = turn
  BY DEF ReceiveBA, haVars
<1>3. /\ bule' # None => /\ bule # None /\ bule'.coa = bule.coa /\ bule'.lifetime = bule.lifetime
                         /\ bule'.expires <= bule.expires
  <2>1. CASE bule = None
    BY <2>1 DEF ReceiveBA
  <2>2. CASE bule # None
    <3>1. bule \in Entry
      BY <2>2 DEF IInv, TypeOK
    <3>2. m \in Message /\ m.type = "BA"
      BY DEF ReceiveBA, IInv, TypeOK
    <3>3. m.life \in Nat
      BY <3>2 DEF Message
    <3>4. ASSUME NEW b \in Entry
          PROVE  /\ ShortenExpiry(b, m).coa = b.coa /\ ShortenExpiry(b, m).lifetime = b.lifetime
                 /\ ShortenExpiry(b, m).expires <= b.expires
      BY <3>3 DEF ShortenExpiry, Entry
    <3>5. /\ [bule EXCEPT !.state = 0] \in Entry
          /\ [bule EXCEPT !.state = 0].coa = bule.coa
          /\ [bule EXCEPT !.state = 0].lifetime = bule.lifetime
          /\ [bule EXCEPT !.state = 0].expires = bule.expires
      BY <3>1 DEF Entry
    <3>6. /\ [bule EXCEPT !.seq = m.seq + 1].coa = bule.coa
          /\ [bule EXCEPT !.seq = m.seq + 1].lifetime = bule.lifetime
          /\ [bule EXCEPT !.seq = m.seq + 1].expires = bule.expires
      BY <3>1 DEF Entry
    <3>7. bule.expires \in Nat
      BY <3>1 DEF Entry
    <3>8. bule' \in {bule, None, ShortenExpiry([bule EXCEPT !.state = 0], m), [bule EXCEPT !.seq = m.seq + 1]}
      BY <2>2 DEF ReceiveBA
    <3>9. /\ ShortenExpiry([bule EXCEPT !.state = 0], m).coa = bule.coa
          /\ ShortenExpiry([bule EXCEPT !.state = 0], m).lifetime = bule.lifetime
          /\ ShortenExpiry([bule EXCEPT !.state = 0], m).expires <= bule.expires
      BY <3>4, <3>5
    <3>10. CASE bule' = ShortenExpiry([bule EXCEPT !.state = 0], m)
      BY <2>2, <3>9, <3>10
    <3>11. CASE bule' \in {bule, [bule EXCEPT !.seq = m.seq + 1]}
      <4>1. bule'.coa = bule.coa /\ bule'.lifetime = bule.lifetime /\ bule'.expires = bule.expires
        BY <3>6, <3>11
      <4> QED
        BY <2>2, <3>7, <4>1
    <3> QED
      BY <3>8, <3>10, <3>11
  <2> QED
    BY <2>1, <2>2
<1>4. \A i \in DOMAIN tmrs' : \E j \in DOMAIN tmrs :
        tmrs'[i].coa = tmrs[j].coa /\ tmrs'[i].life = tmrs[j].life
  <2>1. tmrs' \in {tmrs, <<>>}
    BY OneTimer DEF ReceiveBA
  <2> QED
    BY <2>1
<1>5. acked' = acked \/ (bule # None /\ acked' = bule.coa /\ \E x \in msgs : Accepted(x))
  <2>1. m.type = "BA"
    BY DEF ReceiveBA
  <2>2. acked' = acked \/ (bule # None /\ m.status = "ACCEPTED" /\ acked' = bule.coa)
    BY DEF ReceiveBA
  <2> QED
    BY <2>1, <2>2 DEF Accepted
<1>6. Continues
  BY <1>2, <1>3, <1>4, <1>5 DEF Continues
<1> QED
  BY <1>1, <1>2, <1>6, ContinuesAgrees DEF IInv

\* The HA answers, without a new binding, or an error comes in: the MN's side stays or ends.
LEMMA AnswerAgrees ==
  ASSUME IInv, TypeOK', AgreementInv, NEW m \in msgs,
         ReceiveBE(m) \/ ReceiveData(m) \/ (ReceiveBU(m) /\ RejectBU(m))
  PROVE  AgreementInv'
<1>1. deferred' = None /\ bc' = bc /\ turn' = turn /\ tmrs' = tmrs /\ acked' = acked
      /\ bule' \in {bule, None}
  BY DEF AgreementInv, DeferredQuiet, ReceiveBE, ReceiveData, ReceiveBU, RejectBU, mnVars, haVars
<1>2. \A x \in msgs' : x \in msgs \/ x.type = "BE" \/ (x.type = "BA" /\ x.status # "ACCEPTED")
  <2>1. CASE ReceiveBE(m)
    BY <2>1 DEF ReceiveBE
  <2>2. CASE ReceiveData(m)
    BY <2>2, SentOrOld DEF ReceiveData, BE
  <2>3. CASE ReceiveBU(m) /\ RejectBU(m)
    <3>1. Send(msgs \ {m}, BA(Route(m.coa), "SEQ_OUT_OF_WINDOW", bc.seq, 0))
      BY <2>3 DEF RejectBU
    <3>2. \A x \in msgs' : x \in msgs \/ x = BA(Route(m.coa), "SEQ_OUT_OF_WINDOW", bc.seq, 0)
      BY <3>1, SentOrOld
    <3> QED
      BY <3>2 DEF BA
  <2> QED
    BY <2>1, <2>2, <2>3
<1>3. bule # None => bule.expires \in Nat
  BY DEF IInv, TypeOK, Entry
<1>4. Continues
  BY <1>1, <1>2, <1>3 DEF Continues
<1> QED
  BY <1>1, <1>4, ContinuesAgrees DEF IInv

\* The HA registers the CoA or ends the registration: its side is as new as can be.
LEMMA BindingAgreesNow ==
  ASSUME IInv, TypeOK', AgreementInv, NEW m \in msgs, ReceiveBU(m),
         deregisterBCE(m) \/ registerBCE(m)
  PROVE  AgreementInv'
<1>1. /\ deferred' = None /\ turn' = turn /\ tmrs' = tmrs /\ acked' = acked /\ bule' = bule
      /\ m.type = "BU"
  BY DEF AgreementInv, DeferredQuiet, ReceiveBU, mnVars
<1>2. \A x \in msgs' : x \in msgs \/ x.type = "BA"
  <2> SUFFICES ASSUME NEW d, NEW st, NEW sq, NEW l, Send(msgs \ {m}, BA(d, st, sq, l))
               PROVE  \A x \in msgs' : x \in msgs \/ x.type = "BA"
    BY DEF deregisterBCE, registerBCE
  <2>1. BA(d, st, sq, l).type = "BA"
    BY DEF BA
  <2> QED
    BY <2>1, SentOrOld
<1>3. OneRegistration' /\ DeferredQuiet'
  BY <1>1, <1>2 DEF AgreementInv, OneRegistration, DeferredQuiet
<1>4. ASSUME bule # None PROVE BindingAgrees'
  <2>1. /\ bule \in Entry /\ m.coa = bule.coa /\ m.life = bule.lifetime
        /\ bule.lifetime = LifeFor(bule.coa) /\ bule.expires <= bule.lifetime
    BY <1>1, <1>4 DEF AgreementInv, OneRegistration, IInv, TypeOK
  <2>2. CASE deregisterBCE(m)
    <3>1. bule.coa \notin Foreign
      BY <2>1, <2>2, ParamAssumption DEF deregisterBCE, LifeFor
    <3>2. bc' = None
      BY <2>2 DEF deregisterBCE, haVars
    <3> QED
      BY <1>1, <3>1, <3>2 DEF BindingAgrees
  <2>3. CASE registerBCE(m)
    <3>1. bc' # None /\ bc'.coa = bule.coa /\ bc'.expires = bule.lifetime
      <4>1. bc' = [coa |-> m.coa, seq |-> m.seq, expires |-> m.life]
        BY <2>3 DEF registerBCE
      <4>2. m \in Message /\ m.type = "BU" /\ m.coa \in Foreign
        BY <1>1, <2>3 DEF IInv, TypeOK, registerBCE, Message, Addr
      <4>3. bc' \in Binding
        BY <4>1, <4>2 DEF Message, Binding
      <4>4. bc' # None
        BY <4>3, ParamAssumption
      <4> QED
        BY <2>1, <4>1, <4>4
    <3> QED
      BY <1>1, <2>1, <3>1 DEF BindingAgrees
  <2> QED
    BY <2>2, <2>3
<1>5. GrantIsHeld'
  BY <1>1, <1>4 DEF AgreementInv, GrantIsHeld
<1> QED
  BY <1>3, <1>5 DEF AgreementInv

LEMMA AgreementKept ==
  ASSUME Dwell, IInv, TypeOK', AgreementInv, [Next]_vars
  PROVE  AgreementInv'
<1>1. CASE Deliver
  BY <1>1, BAAgrees, AnswerAgrees, BindingAgreesNow DEF Deliver, ReceiveBU
<1>2. CASE UNCHANGED vars
  BY <1>2 DEF vars, mnVars, haVars, AgreementInv, OneRegistration, DeferredQuiet, GrantIsHeld,
              Granted, BindingAgrees
<1> QED
  BY <1>1, <1>2, MoveAgrees, DeferredBUAgrees, DataAgrees, TimerAgrees DEF Next

\* The ends agree on what has been acknowledged, if the MN stays on each link until
\* its messages have arrived (processBA, processBU, both expireLifetimes).
THEOREM EndsAgree ==
  ASSUME Dwell PROVE Spec => []AckedAgreement
<1>1. Init => AgreementInv
  BY DEF Init, AgreementInv, OneRegistration, DeferredQuiet, GrantIsHeld
<1>2. IInv /\ TypeOK' /\ AgreementInv /\ [Next]_vars => AgreementInv'
  BY AgreementKept
<1>3. IInv /\ AgreementInv => AckedAgreement
  <2> SUFFICES ASSUME IInv, AgreementInv, bule # None, acked # None
               PROVE  /\ bule.coa = acked
                      /\ bc # None => bc.coa = acked
                      /\ acked \in Foreign /\ bule.expires > 1 => bc # None
    BY DEF AckedAgreement
  <2> QED
    BY DEF AgreementInv, GrantIsHeld, Granted, BindingAgrees
<1>4. IInv => TypeOK
  BY DEF IInv
<1> QED
  BY <1>1, <1>2, <1>3, <1>4, Invariance, PTL DEF Spec

-----------------------------------------------------------------------------
(* NoAbort: the entry outlives the back-off.  A timer whose timeout has doubled *)
(* to T was set at most 2T - wait periods ago, and the entry it belongs to has  *)
(* aged by no more; only a timer that has not fired yet can lose its entry, to  *)
(* the expiry of a deregistration or to a binding error for data sent before.   *)

Stray == \E m \in msgs : m.type \in {"Data", "BE"}

InTime(t) ==
  /\ t.timeout >= 1
  /\ t.timeout = 1 \/ t.timeout <= 2 * MaxBindAckTimeout - 2
  /\ bule = None => t.timeout = 1
  /\ bule # None /\ t.life = 0 => t.timeout = 1 /\ t.wait >= 1 /\ bule.expires = 0
  /\ bule # None /\ t.life # 0 => bule.expires + 2 * t.timeout >= Lifetime + t.wait
  /\ Stray => t.timeout = 1 /\ t.wait >= 1

\* An entry without an outstanding BU has no timer.
IdleHasNoTimer == bule # None /\ bule.state = 0 => tmrs = <<>>

BackOffInv == IdleHasNoTimer /\ (\A i \in DOMAIN tmrs : InTime(tmrs[i])) /\ NoAbort

LEMMA NoTimerInTime ==
  ASSUME tmrs' = <<>>, NoAbort'
  PROVE  BackOffInv'
BY DEF BackOffInv, IdleHasNoTimer

LEMMA SameTimerInTime ==
  ASSUME BackOffInv, tmrs' = tmrs, bule' = bule, aborted' = aborted, Stray' => Stray
  PROVE  BackOffInv'
BY DEF BackOffInv, IdleHasNoTimer, InTime, NoAbort

\* A BU has been sent for which there was no timer.
LEMMA FreshInTime ==
  ASSUME TypeOK, tmrs = <<>>, NoAbort', NEW c \in Addr, NEW life \in {0, Lifetime},
         NEW w \in FirstWait,
         tmrs' = SentTmrs(c, life, w), bule' = SentBule(c, life)
  PROVE  BackOffInv'
<1> DEFINE t == [coa |-> c, life |-> life, timeout |-> 1, wait |-> w]
<1>1. w \in {1, 2} /\ Lifetime \in Nat \ {0}
  BY ParamAssumption DEF FirstWait
<1>2. bule'.expires = life /\ bule'.state # 0
  <2>1. bule # None => bule.state \in Nat
    BY DEF TypeOK, Entry
  <2> QED
    BY <2>1 DEF SentBule
<1>3. SentBule(c, life) \in Entry /\ life \in Nat
  BY <1>1, SentTypes
<1>4. CASE tmrs' = <<>>
  BY <1>4, NoTimerInTime
<1>5. CASE tmrs' = Append(<<>>, t)
  <2>1. \A i \in DOMAIN tmrs' : tmrs'[i] = t
    BY <1>5
  <2>2. t.life = life /\ t.timeout = 1 /\ t.wait = w
    OBVIOUS
  <2>3. \A i \in DOMAIN tmrs' : tmrs'[i].life = life /\ tmrs'[i].timeout = 1 /\ tmrs'[i].wait = w
    <3> HIDE DEF t
    <3> QED
      BY <2>1, <2>2
  <2> HIDE DEF t
  <2>4. ASSUME NEW i \in DOMAIN tmrs' PROVE InTime(tmrs[i])'
    <3>1. tmrs'[i].life = life /\ tmrs'[i].timeout = 1 /\ tmrs'[i].wait = w
      BY <2>3
    <3>2. bule' = None \/ life = 0 \/ life = Lifetime
      OBVIOUS
    <3> QED
      BY <1>1, <1>2, <1>3, <3>1, <3>2 DEF InTime
  <2> QED
    BY <1>2, <2>4 DEF BackOffInv, IdleHasNoTimer
<1>6. tmrs' \in {<<>>, Append(<<>>, t)}
  BY DEF SentTmrs
<1> QED
  BY <1>4, <1>5, <1>6

\* Nothing else removes an entry or a message of the MN, so a move costs no BU its entry.
LEMMA MoveInTime ==
  ASSUME IInv, BackOffInv, Move
  PROVE  BackOffInv'
<1>1. NoAbort'
  BY DEF Move, LoseRouter, ReturnHome, HandoverSameCoa, HandoverAssigned, HandoverDeferred,
         BackOffInv, NoAbort
<1>2. ASSUME NEW new, NEW d, relinquishRouter(new, bule, tmrs, d) PROVE BackOffInv'
  <2>1. tmrs' = <<>>
    BY <1>2, NoLink DEF relinquishRouter
  <2> QED
    BY <1>1, <2>1, NoTimerInTime
<1>3. ASSUME NEW c \in Addr, NEW life \in {0, Lifetime}, NEW w \in FirstWait,
             relinquishRouter(c, SentBule(c, life), SentTmrs(c, life, w), deferred)
      PROVE  BackOffInv'
  <2>1. CASE router = None
    <3>1. tmrs = <<>>
      BY <2>1, NoLink
    <3>2. tmrs' = SentTmrs(c, life, w) /\ bule' = SentBule(c, life)
      BY <1>3, <2>1 DEF relinquishRouter
    <3> QED
      BY <1>1, <3>1, <3>2, FreshInTime DEF IInv
  <2>2. CASE router # None
    BY <1>1, <1>3, <2>2, NoTimerInTime DEF relinquishRouter
  <2> QED
    BY <2>1, <2>2
<1>4. CASE LoseRouter
  BY <1>2, <1>4 DEF LoseRouter
<1>5. CASE ReturnHome
  <2>1. Home \in Addr /\ 0 \in {0, Lifetime}
    BY DEF Addr
  <2>2. CASE careOfAddr = Home
    BY <1>2, <1>5, <2>2 DEF ReturnHome
  <2>3. CASE careOfAddr # Home
    <3>1. PICK w \in FirstWait :
            relinquishRouter(Home, SentBule(Home, 0), SentTmrs(Home, 0, w), deferred)
      BY <1>5, <2>3 DEF ReturnHome
    <3> QED
      BY <1>3, <2>1, <3>1
  <2> QED
    BY <2>2, <2>3
<1>6. ASSUME NEW r \in Foreign, HandoverSameCoa(r) PROVE BackOffInv'
  BY <1>2, <1>6 DEF HandoverSameCoa
<1>7. ASSUME NEW r \in Foreign, HandoverAssigned(r) PROVE BackOffInv'
  <2>1. PICK w \in FirstWait :
          relinquishRouter(r, SentBule(r, Lifetime), SentTmrs(r, Lifetime, w), deferred)
    BY <1>7 DEF HandoverAssigned
  <2>2. r \in Addr /\ Lifetime \in {0, Lifetime}
    BY DEF Addr
  <2> QED
    BY <1>3, <2>1, <2>2
<1>8. ASSUME NEW r \in Foreign, HandoverDeferred(r) PROVE BackOffInv'
  BY <1>2, <1>8 DEF HandoverDeferred
<1> QED
  BY <1>4, <1>5, <1>6, <1>7, <1>8 DEF Move

LEMMA SendInTime ==
  ASSUME IInv, BackOffInv, SendDeferredBU \/ SendDataToHA
  PROVE  BackOffInv'
<1>1. CASE SendDeferredBU
  <2>1. deferred \in Foreign /\ tmrs = <<>> /\ deferred # careOfAddr
    BY <1>1 DEF SendDeferredBU, IInv, DeferredCurrent, TypeOK
  <2>2. NoAbort'
    BY <1>1, <2>1 DEF SendDeferredBU, Require, BackOffInv, NoAbort
  <2>3. PICK w \in FirstWait : tmrs' = SentTmrs(deferred, Lifetime, w)
    BY <1>1 DEF SendDeferredBU
  <2>4. bule' = SentBule(deferred, Lifetime) /\ deferred \in Addr /\ Lifetime \in {0, Lifetime}
    BY <1>1, <2>1 DEF SendDeferredBU, Addr
  <2> QED
    BY <2>1, <2>2, <2>3, <2>4, FreshInTime DEF IInv
<1>2. CASE SendDataToHA
  <2>1. tmrs' = <<>> /\ NoAbort'
    BY <1>2 DEF SendDataToHA, mnVars, BackOffInv, IdleHasNoTimer, NoAbort
  <2> QED
    BY <2>1, NoTimerInTime
<1> QED
  BY <1>1, <1>2

\* The lifetime exceeds the total of the back-off, 4 * MaxBindAckTimeout - 4 at most.
Outlasts == MaxBindAckTimeout >= 2 /\ Lifetime > 4 * MaxBindAckTimeout - 4

LEMMA RetransmissionInTime ==
  ASSUME Outlasts, IInv, TypeOK', BackOffInv, NEW i \in DOMAIN tmrs, RetransmitBU(i)
  PROVE  BackOffInv'
<1> DEFINE t == tmrs[i]
           again == [tmrs EXCEPT ![i].timeout = 2 * t.timeout, ![i].wait = 2 * t.timeout]
<1>1. /\ tmrs \in Seq(Timer_) /\ Len(tmrs) <= 1 /\ t \in Timer_
      /\ bule \in Entry \cup {None}
      /\ MaxBindAckTimeout \in Nat /\ Lifetime \in Nat
  BY ParamAssumption DEF IInv, TypeOK, RetransmissionCurrent
<1>2. InTime(t) /\ aborted = "none" /\ t.wait = 0
  BY DEF BackOffInv, NoAbort, RetransmitBU
<1>3. t.timeout \in Nat /\ t.wait \in Nat /\ t.life \in Nat /\ (bule # None => bule.expires \in Nat /\ bule.state \in Nat)
  BY <1>1 DEF Timer_, Entry
<1>4. RemoveAt(tmrs, i) = <<>>
  BY <1>1, RemoveAtShorter
<1>5. CASE t.timeout >= MaxBindAckTimeout
  <2>1. bule # None
    BY <1>1, <1>2, <1>3, <1>5 DEF InTime, Outlasts
  <2>2. tmrs' = <<>> /\ aborted' = aborted
    BY <1>1, <1>3, <1>4, <1>5, <2>1 DEF RetransmitBU, Require
  <2> QED
    BY <1>2, <2>2, NoTimerInTime DEF NoAbort
<1>6. CASE t.timeout < MaxBindAckTimeout /\ bule = None
  <2>1. tmrs' = <<>> /\ aborted' = aborted
    BY <1>1, <1>3, <1>4, <1>6 DEF RetransmitBU
  <2> QED
    BY <1>2, <2>1, NoTimerInTime DEF NoAbort
<1>7. CASE t.timeout < MaxBindAckTimeout /\ bule # None
  <2>1. /\ bule' = [bule EXCEPT !.state = bule.state + 1, !.seq = bule.seq + 1]
        /\ tmrs' = again /\ aborted' = aborted
        /\ Send(msgs, BU(t.coa, bule.seq + 1, t.life))
    BY <1>1, <1>3, <1>7 DEF RetransmitBU
  <2>2. t.life # 0 /\ bule.expires + 2 * t.timeout >= Lifetime /\ ~ Stray
    BY <1>1, <1>2, <1>3, <1>7 DEF InTime
  <2>3. ~ Stray'
    <3>1. BU(t.coa, bule.seq + 1, t.life).type = "BU"
      BY DEF BU
    <3>2. \A m \in msgs' : m \in msgs \/ m = BU(t.coa, bule.seq + 1, t.life)
      BY <2>1, SentOrOld
    <3>3. \A m \in msgs : m.type \notin {"Data", "BE"}
      BY <2>2 DEF Stray
    <3>4. \A m \in msgs' : m.type \notin {"Data", "BE"}
      BY <3>1, <3>2, <3>3
    <3> QED
      BY <3>4 DEF Stray
  <2>4. bule'.expires = bule.expires /\ bule'.state # 0
    <3>1. bule \in Entry
      BY <1>1, <1>7
    <3>2. /\ [bule EXCEPT !.state = bule.state + 1, !.seq = bule.seq + 1].expires = bule.expires
          /\ [bule EXCEPT !.state = bule.state + 1, !.seq = bule.seq + 1].state = bule.state + 1
      BY <3>1 DEF Entry
    <3> QED
      BY <1>3, <1>7, <2>1, <3>2
  <2>5. DOMAIN again = DOMAIN tmrs /\ \A j \in DOMAIN tmrs : j = i
    <3>1. \A j \in DOMAIN tmrs : j = 1
      <4>1. Len(tmrs) \in Nat /\ DOMAIN tmrs = 1 .. Len(tmrs)
        BY <1>1, LenProperties
      <4> QED
        BY <1>1, <4>1
    <3> QED
      BY <1>1, <3>1
  <2>6. /\ again[i].timeout = 2 * t.timeout /\ again[i].wait = 2 * t.timeout
        /\ again[i].life = t.life
    BY <1>1 DEF Timer_
  <2>7. bule' # None
    <3>1. bule' \in Entry
      <4>1. bule \in Entry /\ bule.state + 1 \in Nat /\ bule.seq + 1 \in Nat
        BY <1>1, <1>7 DEF Entry
      <4> QED
        BY <2>1, <4>1 DEF Entry
    <3> QED
      BY <3>1, ParamAssumption
  <2>8. ASSUME NEW j \in DOMAIN tmrs' PROVE InTime(tmrs[j])'
    <3>1. j = i
      <4> HIDE DEF again
      <4> QED
        BY <2>1, <2>5
    <3>2. /\ tmrs'[j].timeout = 2 * t.timeout /\ tmrs'[j].wait = 2 * t.timeout
          /\ tmrs'[j].life = t.life
      <4> HIDE DEF again, t
      <4> QED
        BY <2>1, <2>6, <3>1
    <3>3. t.timeout >= 1 /\ 2 * t.timeout <= 2 * MaxBindAckTimeout - 2
      BY <1>1, <1>2, <1>3, <1>7 DEF InTime
    <3>4. bule'.expires + 2 * tmrs'[j].timeout >= Lifetime + tmrs'[j].wait
      <4>1. PICK e \in Nat : e = bule.expires
        BY <1>3, <1>7
      <4>2. PICK o \in Nat : o = t.timeout
        BY <1>3
      <4>3. e + 2 * (2 * o) >= Lifetime + 2 * o
        <5>1. e + 2 * o >= Lifetime
          BY <2>2, <4>1, <4>2
        <5>2. Lifetime \in Nat
          BY ParamAssumption
        <5> QED
          BY <5>1, <5>2
      <4>4. tmrs'[j].timeout = 2 * o /\ tmrs'[j].wait = 2 * o
        BY <3>2, <4>2
      <4>5. bule'.expires = e
        BY <2>4, <4>1
      <4> QED
        BY <4>3, <4>4, <4>5
    <3>5. tmrs'[j].timeout >= 1 /\ tmrs'[j].timeout <= 2 * MaxBindAckTimeout - 2
      BY <1>3, <3>2, <3>3
    <3> QED
      BY <2>2, <2>3, <2>7, <3>2, <3>4, <3>5 DEF InTime
  <2> QED
    BY <1>2, <2>1, <2>4, <2>8 DEF BackOffInv, IdleHasNoTimer, NoAbort
<1> QED
  BY <1>1, <1>3, <1>5, <1>6, <1>7

LEMMA PeriodInTime ==
  ASSUME Prompt, Outlasts, IInv, TypeOK', BackOffInv, MNPeriod \/ HAPeriod
  PROVE  BackOffInv'
<1>1. CASE MNPeriod
  <2>1. ~ Stray'
    BY <1>1 DEF MNPeriod, Stray
  <2>2. /\ tmrs \in Seq(Timer_) /\ bule \in Entry \cup {None}
        /\ MaxBindAckTimeout \in Nat /\ Lifetime \in Nat
    BY ParamAssumption DEF IInv, TypeOK
  <2>3. /\ bule' = Aged(bule) /\ DOMAIN tmrs' = DOMAIN tmrs
        /\ \A i \in DOMAIN tmrs : tmrs[i].wait > 0 /\ tmrs'[i] = [tmrs[i] EXCEPT !.wait = @ - 1]
    BY <1>1 DEF MNPeriod
  <2>4. bule' # None => /\ bule # None /\ bule.expires \in Nat /\ bule.expires > 1
                        /\ bule'.expires = bule.expires - 1 /\ bule'.state = bule.state
    BY <2>2, <2>3 DEF Aged, Entry
  <2>5. bule # None /\ bule' = None => bule.expires \in Nat /\ bule.expires <= 1
    <3>1. bule # None /\ bule.expires \in Nat /\ bule.expires > 1 => bule' # None
      <4>1. ASSUME bule # None, bule.expires \in Nat, bule.expires > 1
            PROVE  bule' \in Entry
        <5>1. bule \in Entry /\ bule.expires - 1 \in Nat
          BY <2>2, <4>1
        <5>2. bule' = [bule EXCEPT !.expires = bule.expires - 1]
          BY <2>3, <4>1 DEF Aged
        <5> QED
          BY <5>1, <5>2 DEF Entry
      <4> QED
        BY <4>1, ParamAssumption
    <3>2. bule # None => bule.expires \in Nat
      BY <2>2 DEF Entry
    <3> QED
      BY <3>1, <3>2
  <2>6. ASSUME NEW i \in DOMAIN tmrs' PROVE InTime(tmrs[i])'
    <3>1. PICK t \in Timer_ : t = tmrs[i]
      BY <2>2, <2>3
    <3>2. InTime(t) /\ t.wait > 0 /\ t.wait \in Nat /\ t.timeout \in Nat
      BY <2>3, <3>1 DEF BackOffInv, Timer_
    <3>3. /\ tmrs'[i].life = t.life /\ tmrs'[i].timeout = t.timeout
          /\ tmrs'[i].wait = t.wait - 1
      BY <2>3, <3>1 DEF Timer_
    <3>4. ASSUME bule' = None PROVE t.timeout = 1
      <4>1. CASE bule = None \/ t.life = 0
        BY <3>2, <4>1 DEF InTime
      <4>2. CASE bule # None /\ t.life # 0
        <5>1. bule.expires + 2 * t.timeout >= Lifetime + t.wait
          BY <3>2, <4>2 DEF InTime
        <5>2. bule.expires \in Nat /\ bule.expires <= 1
          BY <2>5, <3>4, <4>2
        <5>3. t.timeout = 1 \/ t.timeout <= 2 * MaxBindAckTimeout - 2
          BY <3>2 DEF InTime
        <5> QED
          BY <2>2, <3>2, <5>1, <5>2, <5>3 DEF Outlasts
      <4> QED
        BY <4>1, <4>2
    <3>5. ASSUME bule' # None
          PROVE  t.life # 0 /\ bule'.expires + 2 * t.timeout >= Lifetime + (t.wait - 1)
      <4>1. /\ bule # None /\ bule.expires \in Nat /\ bule.expires > 1
            /\ bule'.expires = bule.expires - 1
        BY <2>4, <3>5
      <4>2. t.life # 0
        BY <3>2, <4>1 DEF InTime
      <4>3. bule.expires + 2 * t.timeout >= Lifetime + t.wait
        BY <3>2, <4>1, <4>2 DEF InTime
      <4>4. PICK e \in Nat : e = bule.expires
        BY <4>1
      <4>6. PICK w \in Nat : w = t.wait
        BY <3>2
      <4>7. PICK d \in Nat : d = t.timeout
        BY <3>2
      <4>8. bule'.expires = e - 1
        BY <4>1, <4>4
      <4>9. (e - 1) + 2 * d >= Lifetime + (w - 1)
        <5>1. e + 2 * d >= Lifetime + w
          BY <4>3, <4>4, <4>6, <4>7
        <5>2. Lifetime \in Nat
          BY ParamAssumption
        <5> QED
          BY <5>1, <5>2
      <4>10. bule'.expires + 2 * t.timeout >= Lifetime + (t.wait - 1)
        BY <4>6, <4>7, <4>8, <4>9
      <4> QED
        BY <4>2, <4>10, Zenon
    <3>6. t.timeout >= 1 /\ (t.timeout = 1 \/ t.timeout <= 2 * MaxBindAckTimeout - 2)
      BY <3>2 DEF InTime
    <3> QED
      BY <2>1, <3>3, <3>4, <3>5, <3>6 DEF InTime
  <2>7. IdleHasNoTimer'
    <3> SUFFICES ASSUME bule' # None, bule'.state = 0 PROVE tmrs' = <<>>
      BY DEF IdleHasNoTimer
    <3>1. tmrs = <<>>
      BY <2>4 DEF BackOffInv, IdleHasNoTimer
    <3>2. DOMAIN tmrs' = {} /\ tmrs' \in Seq(Timer_)
      BY <2>3, <3>1 DEF TypeOK
    <3>3. Len(tmrs') = 0
      BY <3>2, LenProperties
    <3> QED
      BY <3>2, <3>3, EmptySeq
  <2> QED
    BY <1>1, <2>6, <2>7 DEF BackOffInv, MNPeriod, NoAbort
<1>2. CASE HAPeriod
  BY <1>2, SameTimerInTime DEF HAPeriod, mnVars, Stray
<1> QED
  BY <1>1, <1>2

LEMMA DeliveryInTime ==
  ASSUME IInv, BackOffInv, NEW m \in msgs,
         ReceiveBA(m) \/ ReceiveBE(m) \/ ReceiveBU(m) \/ ReceiveData(m)
  PROVE  BackOffInv'
<1>1. CASE ReceiveBA(m)
  <2>1. Stray' => Stray
    BY <1>1 DEF ReceiveBA, Stray
  <2>2. aborted' = aborted /\ (UNCHANGED <<bule, tmrs>> \/ tmrs' = <<>>)
    <3>1. tmrs # <<>> => Tail(tmrs) = <<>>
      BY OneTimer
    <3> QED
      BY <1>1, <3>1 DEF ReceiveBA
  <2> QED
    BY <2>1, <2>2, SameTimerInTime, NoTimerInTime DEF BackOffInv, NoAbort
<1>2. CASE ReceiveBE(m)
  <2>1. (Stray' => Stray) /\ Stray /\ aborted' = aborted /\ tmrs' = tmrs /\ bule' \in {bule, None}
    BY <1>2 DEF ReceiveBE, Stray
  <2>2. CASE bule' = bule
    BY <2>1, <2>2, SameTimerInTime
  <2>3. CASE bule' = None
    BY <2>1, <2>3 DEF BackOffInv, IdleHasNoTimer, InTime, NoAbort
  <2> QED
    BY <2>1, <2>2, <2>3
<1>3. CASE ReceiveBU(m)
  <2>1. bule' = bule /\ tmrs' = tmrs
    BY <1>3 DEF ReceiveBU, mnVars
  <2>2. Stray' => Stray
    <3> SUFFICES ASSUME NEW d, NEW st, NEW sq, NEW l, Send(msgs \ {m}, BA(d, st, sq, l))
                 PROVE  Stray' => Stray
      BY <1>3 DEF ReceiveBU, RejectBU, deregisterBCE, registerBCE
    <3>1. BA(d, st, sq, l).type = "BA"
      BY DEF BA
    <3>2. \A x \in msgs' : x \in msgs \/ x.type = "BA"
      BY <3>1, SentOrOld
    <3> QED
      BY <3>2 DEF Stray
  <2>3. aborted' = aborted
    <3>1. bc # None => hoaRoute \in haTunnels
      BY DEF IInv, TunnelForBinding
    <3> QED
      BY <1>3, <3>1 DEF ReceiveBU, RejectBU, deregisterBCE, registerBCE, Require
  <2> QED
    BY <2>1, <2>2, <2>3, SameTimerInTime
<1>4. CASE ReceiveData(m)
  <2>1. Stray /\ UNCHANGED <<bule, tmrs, aborted>>
    BY <1>4 DEF ReceiveData, mnVars, Stray
  <2> QED
    BY <2>1, SameTimerInTime
<1> QED
  BY <1>1, <1>2, <1>3, <1>4

\* No assertion fails when every message arrives within its period and the lifetime is
\* longer than the back-off: a retransmitted BU still has its entry when it is given up
\* (retransmitBU, expireLifetimes, processBE).
THEOREM NothingAborts ==
  ASSUME Prompt, Outlasts PROVE Spec => []NoAbort
<1>1. Init => BackOffInv
  BY DEF Init, BackOffInv, IdleHasNoTimer, NoAbort
<1>2. IInv /\ TypeOK' /\ BackOffInv /\ [Next]_vars => BackOffInv'
  <2> SUFFICES ASSUME IInv, TypeOK', BackOffInv, [Next]_vars PROVE BackOffInv'
    OBVIOUS
  <2>1. CASE Timer
    BY <2>1, RetransmissionInTime, PeriodInTime DEF Timer
  <2>2. CASE Deliver
    BY <2>2, DeliveryInTime DEF Deliver
  <2>3. CASE UNCHANGED vars
    BY <2>3, SameTimerInTime DEF vars, mnVars, Stray
  <2> QED
    BY <2>1, <2>2, <2>3, MoveInTime, SendInTime DEF Next
<1>3. BackOffInv => NoAbort
  BY DEF BackOffInv
<1>4. IInv => TypeOK
  BY DEF IInv
<1> QED
  BY <1>1, <1>2, <1>3, <1>4, Invariance, PTL DEF Spec
===============================================================================
