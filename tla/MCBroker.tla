------------------------------ MODULE MCBroker ------------------------------
(* Three requests, two of them for the same field.                         *)
EXTENDS Broker

CONSTANTS c1, c2, c3, f1, f2

MCCallers == {c1, c2, c3}
MCFields  == {f1, f2}
MCFieldOf == [c \in MCCallers |-> IF c = c3 THEN f2 ELSE f1]

\* Three requests for one field.
MCSameField == [c \in MCCallers |-> f1]
=============================================================================
