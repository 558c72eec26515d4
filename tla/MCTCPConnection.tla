---- MODULE MCTCPConnection ----
\* A client that sends three bytes, and a server that listens or opens the connection too.
EXTENDS TCPConnection

MCISS == [e \in End |-> IF e = "client" THEN {1} ELSE {9}]

MCCommands == [e \in End |-> IF e = "client" THEN {"OPEN_ACTIVE", "SEND", "CLOSE"}
                             ELSE {"OPEN_PASSIVE", "SEND", "CLOSE"}]

MCAllCommands == [e \in End |-> MCCommands[e] \cup IF e = "client" THEN {}
                                                   ELSE {"OPEN_ACTIVE", "ABORT"}]

MCMessage == [e \in End |-> IF e = "client" THEN {3} ELSE {1}]

MCMaxBytes == [e \in End |-> IF e = "client" THEN 3 ELSE 1]

MCMaxInFlight == [e \in End |-> IF e = "client" THEN 1 ELSE 2]

\* Each side sends one byte.
MCByte == [e \in End |-> {1}]

MCOneByte == [e \in End |-> 1]

MCOneInFlight == [e \in End |-> 1]
====
