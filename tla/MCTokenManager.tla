--------------------------- MODULE MCTokenManager ---------------------------
(* TokenManager with tasks of every kind.                                  *)
EXTENDS TokenManager

CONSTANTS i1, i2, r1, p1
=============================================================================
