---------------------------- MODULE MCAliyunMQTT ----------------------------
(* AliyunMQTT with its budget of three refreshes; five rejections are told *)
(* from four, the most the budget allows.                                  *)
EXTENDS AliyunMQTT
=============================================================================
