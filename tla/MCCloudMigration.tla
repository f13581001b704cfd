-------------------------- MODULE MCCloudMigration --------------------------
(* Three mowers, one of them with BLE, and two attempts: one that fails and *)
(* a last one.                                                              *)
EXTENDS CloudMigration
CONSTANTS a, b, c
MCDevices == {a, b, c}
MCWithBLE == {c}
=============================================================================
