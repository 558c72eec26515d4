----------------------------- MODULE NonceLifetime -----------------------------
(***************************************************************************)
(* How long a nonce that was handed out stays good.  The code declares     *)
(* MAX_TOKEN_LIFETIME (210 s) and MAX_NONCE_LIFETIME (240 s) in            *)
(* MIPv6MNEntry.h; what keeps them is that a ring of 8 slots gets one new  *)
(* nonce every 30 s.                                                       *)
(*                                                                         *)
(* A nonce is known by the number of its draw: rand() is taken not to      *)
(* return 0 or a value that is still in the ring.  One test message, at    *)
(* any time, stands for all.                                               *)
(***************************************************************************)
EXTENDS Nonces

CONSTANTS
  nonceGenerationPeriod,  \* 30 s
  MAX_TOKEN_LIFETIME,     \* 210 s
  MAX_NONCE_LIFETIME,     \* 240 s
  None,                   \* no test message has been answered yet
  MaxTime                 \* bound: the clock stops here

ASSUME LifetimeAssumption ==
  /\ nonceGenerationPeriod \in Nat \ {0}
  /\ MAX_TOKEN_LIFETIME \in Nat
  /\ MAX_NONCE_LIFETIME \in Nat
  /\ MAX_TOKEN_LIFETIME <= (NonceSlots - 1) * nonceGenerationPeriod
  /\ NonceSlots * nonceGenerationPeriod <= MAX_NONCE_LIFETIME
  /\ MaxTime \in Nat
  /\ None \notin [ni : Nat, at : Nat]

VARIABLES
  drawn,    \* how many nonces have been drawn
  elapsed,  \* time since nonceGenTmr was last set
  now,      \* the clock
  token     \* a nonce that was handed out, and when

vars == <<nonceVars, drawn, elapsed, now, token>>

Init ==
  /\ InitNonces(1)
  /\ drawn = 1
  /\ elapsed = 0
  /\ now = 0
  /\ token = None

\* nonceGenTmr is due.
Due == elapsed >= nonceGenerationPeriod

GenerateNonce ==
  /\ Due
  /\ nonceGeneration(drawn + 1)
  /\ drawn' = drawn + 1
  /\ elapsed' = 0
  /\ UNCHANGED <<now, token>>

\* processTI answers a test; what is due at the same time may come before or after.
processTI ==
  /\ token = None
  /\ token' = [ni |-> CurrentNonce, at |-> now]
  /\ UNCHANGED <<nonceVars, drawn, elapsed, now>>

\* No timer that is due is passed over.
Tick ==
  /\ elapsed < nonceGenerationPeriod
  /\ now < MaxTime
  /\ now' = now + 1
  /\ elapsed' = elapsed + 1
  /\ UNCHANGED <<nonceVars, drawn, token>>

Next == GenerateNonce \/ processTI \/ Tick

Spec == Init /\ [][Next]_vars

-----------------------------------------------------------------------------

\* The type of every variable.
TypeOK ==
  /\ nonces \in [Slots -> Nat]
  /\ noncesIndex \in Slots
  /\ drawn \in Nat \ {0}
  /\ elapsed \in 0 .. nonceGenerationPeriod
  /\ now \in Nat
  /\ token \in [ni : Nat, at : Nat] \cup {None}

\* A binding update may use a token until MAX_TOKEN_LIFETIME after the test message
\* that brought it, whenever in a period and wherever in the ring that was: the
\* nonce it names is still there.
TokenIsGood ==
  token # None /\ now < token.at + MAX_TOKEN_LIFETIME => checkNonces(token.ni)

\* A binding update with a nonce handed out more than MAX_NONCE_LIFETIME ago is
\* refused: the ring has come round.
TokenIsSpent ==
  token # None /\ now > token.at + MAX_NONCE_LIFETIME => ~ checkNonces(token.ni)
=============================================================================
