-------------------------------- MODULE Nonces --------------------------------
(***************************************************************************)
(* The nonces of a correspondent node (CN),                                *)
(* Network/MIPv6/MIPv6MStateCorrespondentNode.cc: a ring that a timer      *)
(* fills, one slot in nonceGenerationPeriod.  A test message hands out the *)
(* newest nonce; a binding update must carry nonces that are in the ring.  *)
(***************************************************************************)
EXTENDS Naturals

CONSTANT NonceSlots   \* the size of the ring (8)

ASSUME SlotsAssumption == NonceSlots \in Nat \ {0}

VARIABLES
  nonces,       \* the ring; 0 where nothing has been drawn yet
  noncesIndex   \* the slot of the newest nonce

nonceVars == <<nonces, noncesIndex>>

Slots == 0 .. NonceSlots - 1

\* The constructor draws the first nonce, n.
InitNonces(n) ==
  /\ noncesIndex = 0
  /\ nonces = [i \in Slots |-> IF i = 0 THEN n ELSE 0]

\* Mutant: the ring is one slot short.
NextSlot_Short == IF noncesIndex + 2 >= NonceSlots THEN 0 ELSE noncesIndex + 1

\* noncesIndex++; noncesIndex %= 8
NextSlot == IF noncesIndex = NonceSlots - 1 THEN 0 ELSE noncesIndex + 1

\* Mutant: a slot that is in use is kept.
nonceGeneration_Kept(n) ==
  /\ noncesIndex' = NextSlot
  /\ nonces' = [nonces EXCEPT ![NextSlot] = IF @ = 0 THEN n ELSE @]

\* The timer expires and draws the nonce n.
nonceGeneration(n) ==
  /\ noncesIndex' = NextSlot
  /\ nonces' = [nonces EXCEPT ![NextSlot] = n]

\* What HoT and CoT carry.
CurrentNonce == nonces[noncesIndex]

\* Zero stands for "no nonce", on the wire and in the ring.
checkNonces(nonceIndex) == nonceIndex # 0 /\ \E i \in Slots : nonces[i] = nonceIndex
=============================================================================
