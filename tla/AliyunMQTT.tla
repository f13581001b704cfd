----------------------------- MODULE AliyunMQTT -----------------------------
(***************************************************************************)
(* AliyunMQTTTransport (pymammotion/transport/aliyun_mqtt.py): one task,   *)
(* _run(), that dials the Aliyun broker, binds, receives messages and      *)
(* dials again; a rejected credential is refreshed a bounded number of     *)
(* times and then given up for good.  connect() and disconnect() come from *)
(* other tasks.  The broker and the network are the environment.           *)
(*                                                                         *)
(* pc says where the task is suspended:                                    *)
(*    off         no task, or a finished one                               *)
(*    starting    in get_ssl_context()                                     *)
(*    dialing     in Client.__aenter__()                                   *)
(*    greeting    subscribing and publishing the bind                      *)
(*    open        in the message loop                                      *)
(*    refreshing  in on_auth_failure()                                     *)
(*    pausing     in the sleep after a refresh that succeeded              *)
(*    waiting     in the sleep before the next dial                        *)
(*    handing     in on_fatal_auth_error()                                 *)
(* The availability listeners are those of DeviceHandle, which never       *)
(* suspend: a notification is part of the step that makes it.              *)
(***************************************************************************)
EXTENDS Naturals

CONSTANTS
    MaxCycles,    \* _MAX_AUTH_REFRESH_CYCLES
    MaxRejected   \* bound: refusals that are counted

ASSUME AliyunAssumption == MaxCycles \in Nat /\ MaxRejected \in Nat

VARIABLES
    pc,
    stop,       \* _stop_event
    avail,      \* _availability
    told,       \* the state the listeners were last told
    dead,       \* _auth_failed and _unrecoverable_auth_failure
    cycles,     \* auth_refresh_cycles
    cancelled,  \* task.cancel() was called and not yet delivered
    closing,    \* disconnect(): "no", "joining" the task, or "waking" after it
    wanted,     \* history: connect() came after the last disconnect()
    refused     \* history: rc-4/5 refusals of this task with no message between

vars == <<pc, stop, avail, told, dead, cycles, cancelled, closing,
          wanted, refused>>

States == {"connected", "connecting", "disconnected"}

TypeOK ==
    /\ pc \in {"off", "starting", "dialing", "greeting", "open", "refreshing",
               "pausing", "waiting", "handing"}
    /\ stop \in BOOLEAN
    /\ avail \in States
    /\ told \in States
    /\ dead \in BOOLEAN
    /\ cycles \in 0 .. MaxCycles
    /\ cancelled \in BOOLEAN
    /\ closing \in {"no", "joining", "waking"}
    /\ wanted \in BOOLEAN
    /\ refused \in 0 .. MaxRejected

Init ==
    /\ pc = "off"
    /\ stop = FALSE
    /\ avail = "disconnected"
    /\ told = "disconnected"
    /\ dead = FALSE
    /\ cycles = 0
    /\ cancelled = FALSE
    /\ closing = "no"
    /\ wanted = FALSE
    /\ refused = 0

-----------------------------------------------------------------------------
(* Other tasks.                                                            *)

\* connect(): refused after a permanent failure, ignored while a task lives.
\* CONNECTING is recorded, no listener is told yet.
MayStart == pc = "off" /\ ~ dead

Connect ==
    /\ MayStart
    /\ pc' = "starting"
    /\ stop' = FALSE
    /\ avail' = "connecting"
    /\ wanted' = TRUE
    /\ cycles' = 0 /\ refused' = 0
    /\ UNCHANGED <<told, dead, cancelled, closing>>

\* disconnect() up to its await: with no live task it ends at once.
PostCancel == pc # "off"

Disconnect ==
    /\ closing = "no"
    /\ stop' = TRUE
    /\ wanted' = FALSE
    /\ cancelled' = PostCancel
    /\ closing' = IF pc = "off" THEN "no" ELSE "joining"
    /\ avail' = IF pc = "off" THEN "disconnected" ELSE avail
    /\ UNCHANGED <<pc, told, dead, cycles, refused>>

\* disconnect() goes on after the task has ended.  It was made ready before
\* anything connect() may have started meanwhile.
DisconnectReturns ==
    /\ closing = "waking"
    /\ closing' = "no"
    /\ avail' = "disconnected"
    /\ UNCHANGED <<pc, stop, told, dead, cycles, cancelled, wanted, refused>>

-----------------------------------------------------------------------------
(* The task.                                                               *)

Running == ~ cancelled /\ closing # "waking"
At(l)   == pc = l /\ Running

\* The task ends; a disconnect() that joins it becomes ready.
TaskEnds ==
    /\ pc' = "off"
    /\ closing' = IF closing = "joining" THEN "waking" ELSE closing

Announce(state) == avail' = state /\ told' = state

\* The loop head: announce CONNECTING and dial.
LoopHead ==
    IF stop THEN TaskEnds /\ UNCHANGED <<avail, told>>
            ELSE pc' = "dialing" /\ Announce("connecting") /\ UNCHANGED closing

ContextLoaded ==
    /\ At("starting")
    /\ LoopHead
    /\ UNCHANGED <<stop, dead, cycles, cancelled, wanted, refused>>

Connected ==
    /\ At("dialing")
    /\ pc' = "greeting"
    /\ Announce("connected")
    /\ UNCHANGED <<stop, dead, cycles, cancelled, closing, wanted, refused>>

Greeted ==
    /\ At("greeting")
    /\ pc' = "open"
    /\ UNCHANGED <<stop, avail, told, dead, cycles, cancelled, closing, wanted, refused>>

\* A message other than a failed bind reply.  It resets the refresh budget.
Receive ==
    /\ At("open")
    /\ cycles' = 0 /\ refused' = 0
    /\ UNCHANGED <<pc, stop, avail, told, dead, cancelled, closing, wanted>>

\* The finally block announces DISCONNECTED.
SayNothing == avail' = "disconnected" /\ UNCHANGED told   \* mutant: no listener is told
FinallyDown == Announce("disconnected")

\* An MqttError, an OSError, another rc, or an exception of a message callback:
\* the handlers catch everything and the loop goes on after a sleep.
NoCatchAll == TaskEnds                       \* mutant: the error escapes _run()
CatchAll   == pc' = "waiting" /\ UNCHANGED closing
ConnectionFails ==
    /\ pc \in {"dialing", "greeting", "open"} /\ Running
    /\ FinallyDown
    /\ CatchAll
    /\ UNCHANGED <<stop, dead, cycles, cancelled, wanted, refused>>

\* _handle_fatal_auth_error() up to the first await of its callback: the state
\* is cleaned up, mark_auth_failed() and mark_unrecoverable_auth_failure().
GiveUp ==
    /\ pc' = "handing"
    /\ stop' = TRUE
    /\ Announce("disconnected")
    /\ dead' = TRUE

\* A rejected credential: refreshed while the budget lasts, else given up.
OnRejectionLate(n) ==                        \* mutant: off by one
    IF n <= MaxCycles THEN pc' = "refreshing" /\ UNCHANGED <<stop, avail, told, dead>>
                      ELSE GiveUp
OnRejection(n) ==
    IF n < MaxCycles THEN pc' = "refreshing" /\ UNCHANGED <<stop, avail, told, dead>>
                     ELSE GiveUp

Count(n) == IF n < MaxRejected THEN n + 1 ELSE n

\* The broker refuses the CONNECT with rc 4 or 5.
DialRefused ==
    /\ At("dialing")
    /\ refused' = Count(refused)
    /\ OnRejection(cycles)
    /\ UNCHANGED <<cycles, cancelled, closing, wanted>>

\* bind_reply 2043: the reply is a message, so the budget is reset before its
\* code is looked at.
BindExpired ==
    /\ At("open")
    /\ refused' = 0
    /\ cycles' = 0
    /\ OnRejection(0)
    /\ UNCHANGED <<cancelled, closing, wanted>>

\* bind_reply 2152: the account is in use elsewhere.
AccountInUse ==
    /\ At("open")
    /\ GiveUp
    /\ cycles' = 0 /\ refused' = 0
    /\ UNCHANGED <<cancelled, closing, wanted>>

\* on_auth_failure() returns True: sleep, then dial again.
Refreshed ==
    /\ At("refreshing")
    /\ cycles' = cycles + 1
    /\ pc' = "pausing"
    /\ UNCHANGED <<stop, avail, told, dead, cancelled, closing, wanted, refused>>

\* It returns False or raises.
RefreshFails ==
    /\ At("refreshing")
    /\ GiveUp
    /\ UNCHANGED <<cycles, cancelled, closing, wanted, refused>>

\* continue: through the finally block, which the loop head's CONNECTING
\* follows at once.
PauseOver ==
    /\ At("pausing")
    /\ LoopHead
    /\ UNCHANGED <<stop, dead, cycles, cancelled, wanted, refused>>

WaitOver ==
    /\ At("waiting")
    /\ LoopHead
    /\ UNCHANGED <<stop, dead, cycles, cancelled, wanted, refused>>

\* The callback returned; the error ends the task.
FatalHandled ==
    /\ At("handing")
    /\ TaskEnds
    /\ UNCHANGED <<stop, avail, told, dead, cycles, cancelled, wanted, refused>>

\* CancelledError is raised at the await the task is suspended in.  Inside the
\* try block the finally block runs; elsewhere DISCONNECTED was announced.
InTry == pc \in {"dialing", "greeting", "open", "refreshing", "pausing"}
Cancelled ==
    /\ cancelled /\ closing # "waking"
    /\ cancelled' = FALSE
    /\ TaskEnds
    /\ IF InTry THEN FinallyDown ELSE UNCHANGED <<avail, told>>
    /\ UNCHANGED <<stop, dead, cycles, wanted, refused>>

-----------------------------------------------------------------------------
\* What the event loop brings about by itself.
Progress ==
    \/ ContextLoaded \/ Greeted \/ PauseOver \/ WaitOver \/ FatalHandled
    \/ Refreshed \/ RefreshFails
    \/ Connected \/ DialRefused
    \/ (pc = "dialing" /\ ConnectionFails)
    \/ Cancelled \/ DisconnectReturns

Next ==
    \/ Progress
    \/ ConnectionFails
    \/ Receive \/ BindExpired \/ AccountInUse
    \/ Connect \/ Disconnect

Spec == Init /\ [][Next]_vars

\* Listeners, callbacks and sleeps end, and aiomqtt ends a dial within 60 s.
\* Nothing makes the broker send a message.
FairSpec == Spec /\ WF_vars(Progress)

-----------------------------------------------------------------------------
(* Properties.                                                             *)

\* "must not retry forever": however the refreshes, the losses of connection
\* and the dials interleave, one task is refused by the broker (rc 4/5) at
\* most once more than its refresh budget, messages apart.
RefusalsBounded == refused <= MaxCycles + 1

\* After a permanent failure the transport is down and stays so: nothing
\* dials, whatever connect() or disconnect() was under way, and the handler
\* of the failure already sees DISCONNECTED and everybody was told.
GivenUp == dead => pc \in {"off", "handing"} /\ stop /\ avail = "disconnected"
                      /\ told = "disconnected"

\* "must not silently kill the receive loop and leave the transport dead": a
\* transport that is wanted has a task, unless its credentials were given up.
LoopSurvives == wanted /\ pc = "off" => dead

\* connect() and disconnect() change the availability without telling the
\* listeners; all the same these know it from the first dial on and after
\* disconnect().  The gate of the command queue lives on these events.
ListenersKnow == pc = "starting" \/ closing = "waking" \/ told = avail

\* The contract of a cloud transport (CloudTransport.tla): the listeners hear
\* CONNECTING before CONNECTED, no loop ends without DISCONNECTED told, and
\* after a permanent failure none begins.
Contract == INSTANCE CloudTransport WITH
    running <- pc # "off" \/ closing = "waking",
    told    <- told,
    dead    <- dead
ContractSpec == Contract!Spec

\* A wanted transport keeps dialling: no failure parks the loop for good.
KeepsDialling == wanted ~> \/ pc \in {"dialing", "open"}
                           \/ ~ wanted
                           \/ dead
=============================================================================
