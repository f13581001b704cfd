-------------------------- MODULE MCMammotionMQTT --------------------------
(* Two senders: one may give the transport up while the other still renews  *)
(* its token and while the loop is anywhere.                                *)
EXTENDS MammotionMQTT
CONSTANTS s1, s2
MCSenders == {s1, s2}
=============================================================================
