--------------------------- MODULE MCCommandQueue ---------------------------
(* CommandQueue with one dedup key, a TTL of zero ticks on a clock of two  *)
(* instants (a command waits within its TTL or beyond it), three commands  *)
(* and two attempts for the safety properties, two commands and three      *)
(* attempts for the others.                                                *)
EXTENDS CommandQueue
=============================================================================
