--------------------------- MODULE CloudTransport ---------------------------
(***************************************************************************)
(* What a cloud transport promises to the handle that listens to it        *)
(* (pymammotion/transport/base.py): one receive loop at a time, listeners  *)
(* that hear CONNECTING before CONNECTED and that never stay with either   *)
(* when the loop is gone, and a permanent failure that no loop survives    *)
(* as a new one.  A handle told CONNECTING holds its command queue until   *)
(* it is told something else, so a loop that ends without a word stops the *)
(* commands of its mowers.                                                 *)
(*                                                                         *)
(* AliyunMQTT.tla and MammotionMQTT.tla implement it.                      *)
(***************************************************************************)
VARIABLES
    running,   \* a receive loop, or the disconnect() that has ended it
    told,      \* the availability the listeners were last told
    dead       \* mark_unrecoverable_auth_failure()

vars == <<running, told, dead>>

States == {"connected", "connecting", "disconnected"}

TypeOK == running \in BOOLEAN /\ told \in States /\ dead \in BOOLEAN

Init == running = FALSE /\ told = "disconnected" /\ dead = FALSE

\* connect(): refuses after a permanent failure.
Start ==
    /\ ~ running /\ ~ dead
    /\ running' = TRUE
    /\ UNCHANGED <<told, dead>>

Tell(state) ==
    /\ running
    /\ state = "connected" => told = "connecting"
    /\ told' = state
    /\ UNCHANGED <<running, dead>>

\* A permanent failure: of the loop, which may tell it at once, or of a send.
GiveUp ==
    /\ dead' = TRUE
    /\ told' \in {told, "disconnected"}
    /\ UNCHANGED running

End ==
    /\ running
    /\ running' = FALSE
    /\ told' = "disconnected"
    /\ UNCHANGED dead

Next == Start \/ (\E state \in States : Tell(state)) \/ GiveUp \/ End

Spec == Init /\ [][Next]_vars

\* No listener stays with a loop that is gone.
NothingHeld == ~ running => told = "disconnected"
=============================================================================
