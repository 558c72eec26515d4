-------------------------- MODULE NonceLifetimeProofs --------------------------
(***************************************************************************)
(* Proofs that a nonce stays good as long as MAX_TOKEN_LIFETIME and no     *)
(* longer than MAX_NONCE_LIFETIME, for a ring of any size and any period.  *)
(*                                                                         *)
(* The inductive invariant gives every slot its contents: the nonce drawn  *)
(* Back(i) draws before the newest one.  The ring therefore holds the last *)
(* NonceSlots draws and nothing else, and since draw d was made at time    *)
(* (d - 1) * nonceGenerationPeriod, the age of a nonce bounds its number.  *)
(***************************************************************************)
EXTENDS NonceLifetime, Integers, TLAPS

\* How many draws before the newest one slot i was last filled.
Back(i) == IF i <= noncesIndex THEN noncesIndex - i ELSE noncesIndex - i + NonceSlots

\* Every slot holds the nonce its distance from the newest one says, or 0.
RingContents ==
  \A i \in Slots : nonces[i] = IF Back(i) < drawn THEN drawn - Back(i) ELSE 0

\* The clock counts the draws.
Clock == now = (drawn - 1) * nonceGenerationPeriod + elapsed

\* A nonce is handed out within the period that follows its draw.
TokenTimes ==
  token # None =>
    /\ token.ni \in 1 .. drawn
    /\ (token.ni - 1) * nonceGenerationPeriod <= token.at
    /\ token.at <= token.ni * nonceGenerationPeriod
    /\ token.at <= now

IInv == TypeOK /\ RingContents /\ Clock /\ TokenTimes

-----------------------------------------------------------------------------

\* The slots are the distances from the newest nonce, in another order.
LEMMA BackRange ==
  ASSUME noncesIndex \in Slots
  PROVE  /\ \A i \in Slots : Back(i) \in Slots
         /\ \A d \in Slots : \E i \in Slots : Back(i) = d
<1>1. ASSUME NEW i \in Slots PROVE Back(i) \in Slots
  BY <1>1, SlotsAssumption DEF Back, Slots
<1>2. ASSUME NEW d \in Slots PROVE \E i \in Slots : Back(i) = d
  <2>1. CASE d <= noncesIndex
    <3>1. noncesIndex - d \in Slots /\ Back(noncesIndex - d) = d
      BY <1>2, <2>1, SlotsAssumption DEF Back, Slots
    <3> QED
      BY <3>1
  <2>2. CASE d > noncesIndex
    <3>1. noncesIndex - d + NonceSlots \in Slots /\ Back(noncesIndex - d + NonceSlots) = d
      BY <1>2, <2>2, SlotsAssumption DEF Back, Slots
    <3> QED
      BY <3>1
  <2> QED
    BY <2>1, <2>2, SlotsAssumption DEF Slots
<1> QED
  BY <1>1, <1>2

\* checkNonces accepts exactly the last NonceSlots draws.
LEMMA RingHoldsLastDraws ==
  ASSUME TypeOK, RingContents, NEW n \in 1 .. drawn
  PROVE  checkNonces(n) <=> drawn - NonceSlots < n
<1>1. /\ \A i \in Slots : Back(i) \in Slots
      /\ \A d \in Slots : \E i \in Slots : Back(i) = d
  BY BackRange DEF TypeOK
<1>2. drawn \in Nat \ {0} /\ n \in Nat \ {0} /\ n <= drawn
  BY DEF TypeOK
<1>3. ASSUME checkNonces(n) PROVE drawn - NonceSlots < n
  <2>1. PICK i \in Slots : nonces[i] = n
    BY <1>3 DEF checkNonces
  <2>2. Back(i) < drawn /\ n = drawn - Back(i)
    BY <1>1, <1>2, <2>1 DEF RingContents
  <2> QED
    BY <1>1, <1>2, <2>2, SlotsAssumption DEF Slots
<1>4. ASSUME drawn - NonceSlots < n PROVE checkNonces(n)
  <2>1. drawn - n \in Slots
    BY <1>2, <1>4, SlotsAssumption DEF Slots
  <2>2. PICK i \in Slots : Back(i) = drawn - n
    BY <1>1, <2>1
  <2>3. nonces[i] = n
    BY <1>2, <2>2 DEF RingContents
  <2> QED
    BY <1>2, <2>3 DEF checkNonces
<1> QED
  BY <1>3, <1>4

\* A draw that is not newer was not made later.
LEMMA DrawOrder ==
  ASSUME NEW a \in Int, NEW b \in Int, a <= b
  PROVE  a * nonceGenerationPeriod <= b * nonceGenerationPeriod
<1>1. PICK d \in Nat : b = a + d
  <2>1. b - a \in Nat /\ b = a + (b - a)
    OBVIOUS
  <2> QED
    BY <2>1
<1>2. d * nonceGenerationPeriod >= 0
  BY LifetimeAssumption
<1>3. b * nonceGenerationPeriod = a * nonceGenerationPeriod + d * nonceGenerationPeriod
  BY <1>1, LifetimeAssumption
<1>4. /\ a * nonceGenerationPeriod \in Int
      /\ b * nonceGenerationPeriod \in Int
      /\ d * nonceGenerationPeriod \in Int
  BY LifetimeAssumption
<1> QED
  BY <1>2, <1>3, <1>4

-----------------------------------------------------------------------------
(* The invariant is inductive *)

LEMMA InitInvariant == Init => IInv
<1> SUFFICES ASSUME Init PROVE IInv
  OBVIOUS
<1> USE SlotsAssumption, LifetimeAssumption DEF Init, InitNonces
<1>1. TypeOK
  BY DEF TypeOK, Slots
<1>2. RingContents
  <2>1. \A i \in Slots : nonces[i] = (IF i = 0 THEN 1 ELSE 0) /\ i \in Nat /\ i < NonceSlots
    BY DEF Slots
  <2>2. ASSUME NEW i \in Slots
        PROVE  nonces[i] = IF Back(i) < drawn THEN drawn - Back(i) ELSE 0
    <3>1. i = 0 => Back(i) = 0
      BY DEF Back
    <3>2. i # 0 => Back(i) = NonceSlots - i
      BY <2>1 DEF Back
    <3> QED
      BY <2>1, <3>1, <3>2
  <2> QED
    BY <2>2 DEF RingContents
<1>3. Clock
  BY DEF Clock
<1>4. TokenTimes
  BY DEF TokenTimes
<1> QED
  BY <1>1, <1>2, <1>3, <1>4 DEF IInv

\* A draw shifts the distances by one, and the oldest slot becomes the newest.
LEMMA GenerateSafe == IInv /\ GenerateNonce => IInv'
<1> SUFFICES ASSUME IInv, GenerateNonce PROVE IInv'
  OBVIOUS
<1> USE SlotsAssumption, LifetimeAssumption
<1>1. /\ TypeOK /\ RingContents /\ Clock /\ TokenTimes
      /\ elapsed = nonceGenerationPeriod
      /\ drawn' = drawn + 1 /\ elapsed' = 0 /\ now' = now /\ token' = token
      /\ noncesIndex' = NextSlot /\ nonces' = [nonces EXCEPT ![NextSlot] = drawn + 1]
  BY DEF IInv, TypeOK, GenerateNonce, Due, nonceGeneration
<1>2. NextSlot \in Slots
  BY <1>1 DEF TypeOK, NextSlot, Slots
<1>3. TypeOK'
  BY <1>1, <1>2 DEF TypeOK
<1>4. RingContents'
  <2> SUFFICES ASSUME NEW i \in Slots
               PROVE  nonces'[i] = IF Back(i)' < drawn' THEN drawn' - Back(i)' ELSE 0
    BY DEF RingContents
  <2>1. CASE i = NextSlot
    <3>1. Back(i)' = 0
      BY <1>1, <1>2, <2>1 DEF Back, Slots
    <3>2. nonces'[i] = drawn + 1
      BY <1>1, <1>2, <2>1 DEF TypeOK
    <3> QED
      BY <1>1, <3>1, <3>2 DEF TypeOK
  <2>2. CASE i # NextSlot
    <3>1. Back(i)' = Back(i) + 1
      BY <1>1, <2>2 DEF Back, NextSlot, Slots, TypeOK
    <3>2. nonces'[i] = nonces[i]
      BY <1>1, <2>2 DEF TypeOK
    <3>3. Back(i) \in Nat
      <4>1. noncesIndex \in Slots
        BY <1>1 DEF TypeOK
      <4>2. Back(i) \in Slots
        BY <4>1, BackRange
      <4> QED
        BY <4>2 DEF Slots
    <3> QED
      BY <1>1, <3>1, <3>2, <3>3 DEF TypeOK, RingContents
  <2> QED
    BY <2>1, <2>2
<1>5. Clock'
  <2>1. drawn \in Nat /\ nonceGenerationPeriod \in Nat
    BY <1>1 DEF TypeOK
  <2>2. (drawn + 1 - 1) * nonceGenerationPeriod
          = (drawn - 1) * nonceGenerationPeriod + nonceGenerationPeriod
    BY <2>1
  <2> QED
    BY <1>1, <2>1, <2>2 DEF Clock
<1>6. TokenTimes'
  BY <1>1 DEF TokenTimes, TypeOK
<1> QED
  BY <1>3, <1>4, <1>5, <1>6 DEF IInv

\* The newest nonce is handed out before its period is over.
LEMMA HandOutSafe == IInv /\ processTI => IInv'
<1> SUFFICES ASSUME IInv, processTI PROVE IInv'
  OBVIOUS
<1> USE SlotsAssumption, LifetimeAssumption
<1>1. /\ TypeOK /\ RingContents /\ Clock
      /\ token' = [ni |-> nonces[noncesIndex], at |-> now]
      /\ UNCHANGED <<nonces, noncesIndex, drawn, elapsed, now>>
  BY DEF IInv, processTI, nonceVars, CurrentNonce
<1>2. nonces[noncesIndex] = drawn
  <2>1. noncesIndex \in Slots /\ Back(noncesIndex) = 0
    BY <1>1 DEF TypeOK, Back, Slots
  <2> QED
    BY <1>1, <2>1 DEF TypeOK, RingContents
<1>3. TypeOK'
  BY <1>1, <1>2 DEF TypeOK
<1>4. RingContents' /\ Clock'
  BY <1>1 DEF RingContents, Clock, Back
<1>5. TokenTimes'
  <2>1. token'.ni = drawn /\ token'.at = now /\ drawn' = drawn /\ now' = now
    BY <1>1, <1>2
  <2>2. /\ drawn \in Nat \ {0} /\ now \in Nat /\ elapsed \in 0 .. nonceGenerationPeriod
        /\ now = (drawn - 1) * nonceGenerationPeriod + elapsed
    BY <1>1 DEF TypeOK, Clock
  <2>3. drawn * nonceGenerationPeriod
          = (drawn - 1) * nonceGenerationPeriod + nonceGenerationPeriod
    BY <2>2
  <2>4. (drawn - 1) * nonceGenerationPeriod \in Int
    BY <2>2
  <2> QED
    BY <2>1, <2>2, <2>3, <2>4 DEF TokenTimes
<1> QED
  BY <1>3, <1>4, <1>5 DEF IInv

LEMMA TickSafe == IInv /\ Tick => IInv'
<1> SUFFICES ASSUME IInv, Tick PROVE IInv'
  OBVIOUS
<1> USE SlotsAssumption, LifetimeAssumption
<1>1. /\ TypeOK /\ RingContents /\ Clock /\ TokenTimes
      /\ elapsed < nonceGenerationPeriod /\ now' = now + 1 /\ elapsed' = elapsed + 1
      /\ UNCHANGED <<nonces, noncesIndex, drawn, token>>
  BY DEF IInv, Tick, nonceVars
<1>2. TypeOK'
  BY <1>1 DEF TypeOK
<1>3. RingContents'
  BY <1>1 DEF RingContents, Back
<1>4. Clock'
  <2>1. (drawn - 1) * nonceGenerationPeriod \in Int /\ elapsed \in Int
    BY <1>1 DEF TypeOK
  <2> QED
    BY <1>1, <2>1 DEF Clock
<1>5. TokenTimes'
  <2>1. token # None => token.at \in Nat
    BY <1>1 DEF TypeOK
  <2> QED
    BY <1>1, <2>1 DEF TokenTimes, TypeOK
<1> QED
  BY <1>2, <1>3, <1>4, <1>5 DEF IInv

\* The invariant holds in every state.
THEOREM Invariance == Spec => []IInv
<1>1. IInv /\ [Next]_vars => IInv'
  <2>1. IInv /\ UNCHANGED vars => IInv'
    BY DEF IInv, vars, nonceVars, TypeOK, RingContents, Back, Clock, TokenTimes
  <2> QED
    BY <2>1, GenerateSafe, HandOutSafe, TickSafe DEF Next
<1> QED
  BY <1>1, InitInvariant, PTL DEF Spec

\* Every variable keeps its type.
THEOREM TypeCorrect == Spec => []TypeOK
<1>1. IInv => TypeOK
  BY DEF IInv
<1> QED
  BY <1>1, Invariance, PTL

-----------------------------------------------------------------------------
(* How long a token is good *)

\* If the nonce had been overwritten, NonceSlots newer ones would have been drawn
\* since, the last NonceSlots - 1 of them a whole period apart: checkNonces accepts
\* the nonce of a test message during MAX_TOKEN_LIFETIME.
THEOREM TokenStaysGood == Spec => []TokenIsGood
<1>1. IInv => TokenIsGood
  <2> SUFFICES ASSUME IInv, token # None, now < token.at + MAX_TOKEN_LIFETIME
               PROVE  checkNonces(token.ni)
    BY DEF TokenIsGood
  <2> USE SlotsAssumption, LifetimeAssumption
  <2> DEFINE P == nonceGenerationPeriod
             n == token.ni
  <2>1. /\ TypeOK /\ RingContents /\ Clock
        /\ n \in 1 .. drawn /\ n \in Nat /\ drawn \in Nat /\ token.at \in Nat
        /\ token.at <= n * P /\ now \in Nat /\ elapsed \in Nat
    BY DEF IInv, TypeOK, TokenTimes
  <2>2. SUFFICES ASSUME n <= drawn - NonceSlots PROVE FALSE
    <3>1. drawn - NonceSlots < n => checkNonces(n)
      BY <2>1, RingHoldsLastDraws
    <3> QED
      BY <2>1, <2>2, <3>1
  <2>3. (n + NonceSlots - 1) * P <= (drawn - 1) * P
    <3>1. n + NonceSlots - 1 \in Int /\ drawn - 1 \in Int /\ n + NonceSlots - 1 <= drawn - 1
      BY <2>1, <2>2
    <3> QED
      BY <3>1, DrawOrder
  <2>4. (n + NonceSlots - 1) * P = n * P + (NonceSlots - 1) * P
    BY <2>1
  <2>5. /\ n * P \in Int /\ (NonceSlots - 1) * P \in Int
        /\ (n + NonceSlots - 1) * P \in Int /\ (drawn - 1) * P \in Int
    BY <2>1
  <2>6. now = (drawn - 1) * P + elapsed
    BY <2>1 DEF Clock
  <2>7. MAX_TOKEN_LIFETIME <= (NonceSlots - 1) * P /\ MAX_TOKEN_LIFETIME \in Int
    OBVIOUS
  <2> HIDE DEF P, n
  <2> QED
    BY <2>1, <2>3, <2>4, <2>5, <2>6, <2>7
<1> QED
  BY <1>1, Invariance, PTL

\* While a nonce is in the ring fewer than NonceSlots newer ones have been drawn, so
\* that its own draw, and the test message after it, are at most MAX_NONCE_LIFETIME
\* old.
THEOREM TokenGetsSpent == Spec => []TokenIsSpent
<1>1. IInv => TokenIsSpent
  <2> SUFFICES ASSUME IInv, token # None, now > token.at + MAX_NONCE_LIFETIME,
                      checkNonces(token.ni)
               PROVE  FALSE
    BY DEF TokenIsSpent
  <2> USE SlotsAssumption, LifetimeAssumption
  <2> DEFINE P == nonceGenerationPeriod
             n == token.ni
  <2>1. /\ TypeOK /\ RingContents /\ Clock
        /\ n \in 1 .. drawn /\ n \in Nat /\ drawn \in Nat /\ token.at \in Nat
        /\ (n - 1) * P <= token.at /\ now \in Nat /\ elapsed \in 0 .. P
    BY DEF IInv, TypeOK, TokenTimes
  <2>2. drawn - NonceSlots < n
    BY <2>1, RingHoldsLastDraws
  <2>3. drawn * P <= (n + NonceSlots - 1) * P
    <3>1. n + NonceSlots - 1 \in Int /\ drawn \in Int /\ drawn <= n + NonceSlots - 1
      BY <2>1, <2>2
    <3> QED
      BY <3>1, DrawOrder
  <2>4. /\ (n + NonceSlots - 1) * P = (n - 1) * P + NonceSlots * P
        /\ drawn * P = (drawn - 1) * P + P
    BY <2>1
  <2>5. /\ (n - 1) * P \in Int /\ NonceSlots * P \in Int /\ drawn * P \in Int
        /\ (n + NonceSlots - 1) * P \in Int /\ (drawn - 1) * P \in Int
    BY <2>1
  <2>6. now = (drawn - 1) * P + elapsed
    BY <2>1 DEF Clock
  <2>7. NonceSlots * P <= MAX_NONCE_LIFETIME /\ MAX_NONCE_LIFETIME \in Int /\ P \in Int
    OBVIOUS
  <2> HIDE DEF P, n
  <2> QED
    BY <2>1, <2>3, <2>4, <2>5, <2>6, <2>7
<1> QED
  BY <1>1, Invariance, PTL
=============================================================================
