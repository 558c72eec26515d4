---------------------------- MODULE MCWirelessMAC ----------------------------
(* Two stations that are hidden from each other and an access point between. *)
EXTENDS WirelessMAC

CONSTANTS a, b

Between == [n \in Node |-> IF n = AP THEN MS ELSE {AP}]

OneEach == [n \in Node |-> 1]

\* One station sends to the other, the other to all or to the bridge, and the bridge
\* to a station.
ThreeWays == [n \in Node |-> IF n = a THEN {b} ELSE IF n = b THEN {Broadcast, Wired} ELSE {a}]

=============================================================================
