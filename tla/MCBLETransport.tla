--------------------------- MODULE MCBLETransport ---------------------------
(* BLETransport with two writers and one task that connects.        *)
EXTENDS BLETransport

CONSTANTS w1, w2, k1
=============================================================================
