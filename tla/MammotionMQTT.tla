--------------------------- MODULE MammotionMQTT ---------------------------
(***************************************************************************)
(* MQTTTransport (pymammotion/transport/mqtt.py): one task, _run(), that   *)
(* dials the broker of Mammotion, receives messages and dials again, with  *)
(* credentials it looks at before every dial and renews once when they are *)
(* rejected.  Commands do not go through it: _invoke() posts them over     *)
(* HTTP, from the tasks of the senders, and may give the transport up too. *)
(* connect() and disconnect() come from other tasks.  The broker, the HTTP *)
(* API and TokenManager are the environment.                               *)
(*                                                                         *)
(* pc says where the task is suspended:                                    *)
(*    off        no task, or a finished one                                *)
(*    starting   made by connect(), not run yet                            *)
(*    checking   in the routine look at the credentials                    *)
(*    bowing     in on_fatal_auth_error() after that                       *)
(*    dialing    in Client.__aenter__()                                    *)
(*    open       subscribing, and in the message loop                      *)
(*    renewing   in the forced refresh                                     *)
(*    handing    in on_fatal_auth_error() after a session                  *)
(*    waiting    in the sleep before the next dial                         *)
(* The availability listeners are those of DeviceHandle, which never       *)
(* suspend: a notification is part of the step that makes it.              *)
(***************************************************************************)
EXTENDS Naturals

CONSTANT Senders   \* tasks that send commands

VARIABLES
    pc,
    stop,       \* _stop_event
    avail,      \* _availability, which is what the listeners were told
    dead,       \* _auth_failed and _unrecoverable_auth_failure
    forced,     \* auth_force_refreshed
    cancelled,  \* task.cancel() was called and not yet delivered
    closing,    \* disconnect(): "no", "joining" the task, or "waking" after it
    post,       \* of a sender: "none", the "first" mqtt_invoke(), the "renewal"
                \* of the access token, or the "second" mqtt_invoke()
    wanted,     \* history: connect() came after the last disconnect()
    rejected    \* history: rejections since a connection or a refresh that failed

task == <<pc, stop, avail, dead, forced, cancelled, closing>>
vars == <<pc, stop, avail, dead, forced, cancelled, closing, post, wanted, rejected>>

States == {"connected", "connecting", "disconnected"}

\* "On a broker auth rejection we force ONE full credential refresh ... and
\* retry; if the broker still rejects, we give up" (mqtt.py:394-397): rejected
\* stays below three, whatever else happens between the rejections.
TypeOK ==
    /\ pc \in {"off", "starting", "checking", "bowing", "dialing", "open",
               "renewing", "handing", "waiting"}
    /\ stop \in BOOLEAN /\ dead \in BOOLEAN /\ forced \in BOOLEAN
    /\ avail \in States
    /\ cancelled \in BOOLEAN
    /\ closing \in {"no", "joining", "waking"}
    /\ post \in [Senders -> {"none", "first", "renewal", "second"}]
    /\ wanted \in BOOLEAN
    /\ rejected \in 0 .. 2

Init ==
    /\ pc = "off" /\ stop = FALSE /\ avail = "disconnected"
    /\ dead = FALSE /\ forced = FALSE
    /\ cancelled = FALSE /\ closing = "no"
    /\ post = [s \in Senders |-> "none"]
    /\ wanted = FALSE /\ rejected = 0

-----------------------------------------------------------------------------
(* Other tasks.                                                            *)

\* connect(): refused after a permanent failure, ignored while a task lives.
Connect ==
    /\ pc = "off" /\ ~ dead
    /\ pc' = "starting"
    /\ stop' = FALSE
    /\ forced' = FALSE /\ rejected' = 0
    /\ wanted' = TRUE
    /\ UNCHANGED <<avail, dead, cancelled, closing, post>>

\* disconnect(): the task is cancelled and joined.  Without one it ends at once.
OnlyAsk == UNCHANGED cancelled           \* mutant: the stop event alone is to end it
Cancel  == cancelled' = TRUE

Disconnect ==
    /\ closing = "no"
    /\ stop' = TRUE
    /\ wanted' = FALSE
    /\ IF pc = "off"
       THEN avail' = "disconnected" /\ UNCHANGED <<cancelled, closing>>
       ELSE Cancel /\ closing' = "joining" /\ UNCHANGED avail
    /\ UNCHANGED <<pc, dead, forced, post, rejected>>

\* It goes on after the task has ended: made ready before anything a connect()
\* may have started meanwhile.
LeaveToTask == UNCHANGED avail           \* mutant: the task has told it
TellTheRest == avail' = "disconnected"

DisconnectReturns ==
    /\ closing = "waking"
    /\ closing' = "no"
    /\ TellTheRest
    /\ UNCHANGED <<pc, stop, dead, forced, cancelled, post, wanted, rejected>>

\* _give_up() up to the first await of the callback, which marks the transport
\* unrecoverable before it.
GiveUp == stop' = TRUE /\ dead' = TRUE

\* _invoke().  A transport that is not usable is not chosen.
Send(s) ==
    /\ post[s] = "none" /\ ~ dead
    /\ post' = [post EXCEPT ![s] = "first"]
    /\ UNCHANGED <<task, wanted, rejected>>

\* mqtt_invoke() ends, or fails for another reason than the token.
Posted(s) ==
    /\ post[s] \in {"first", "second"}
    /\ post' = [post EXCEPT ![s] = "none"]
    /\ UNCHANGED <<task, wanted, rejected>>

Unauthorized(s) ==
    /\ post[s] = "first"
    /\ post' = [post EXCEPT ![s] = "renewal"]
    /\ UNCHANGED <<task, wanted, rejected>>

\* refresh_invoke_token() returns, or raises what is neither
\* ReLoginRequiredError nor AuthError.
Renewed(s) ==
    /\ post[s] = "renewal"
    /\ \E next \in {"second", "none"} : post' = [post EXCEPT ![s] = next]
    /\ UNCHANGED <<task, wanted, rejected>>

\* It raises one of them, or the renewed token is not authorized either.
SenderGivesUp(s) ==
    /\ post[s] \in {"renewal", "second"}
    /\ post' = [post EXCEPT ![s] = "none"]
    /\ GiveUp
    /\ UNCHANGED <<pc, avail, forced, cancelled, closing, wanted, rejected>>

-----------------------------------------------------------------------------
(* The task.                                                               *)

At(l) == pc = l /\ ~ cancelled /\ closing # "waking"

\* The task ends; a disconnect() that joins it becomes ready.
TaskEnds ==
    /\ pc' = "off"
    /\ closing' = IF closing = "joining" THEN "waking" ELSE closing

\* The loop head: CONNECTING, and a look at the credentials.  A session that
\* ends has told DISCONNECTED before (its finally block).
LoopHead(stopped) ==
    IF stopped THEN TaskEnds /\ avail' = "disconnected"
               ELSE pc' = "checking" /\ avail' = "connecting" /\ UNCHANGED closing

Begin ==
    /\ pc \in {"starting", "waiting"} /\ At(pc)
    /\ LoopHead(stop)
    /\ UNCHANGED <<stop, dead, forced, cancelled, post, wanted, rejected>>

\* _refresh_credentials(force=False) returns: _apply_credentials() clears the
\* stop event.
Checked ==
    /\ At("checking")
    /\ pc' = "dialing"
    /\ stop' = FALSE
    /\ UNCHANGED <<avail, dead, forced, cancelled, closing, post, wanted, rejected>>

\* It raises: ReLoginRequiredError is final, all else is not.
CheckFails ==
    /\ At("checking")
    /\ pc' = "dialing"
    /\ UNCHANGED <<stop, avail, dead, forced, cancelled, closing, post, wanted, rejected>>

CheckRefused ==
    /\ At("checking")
    /\ pc' = "bowing"
    /\ GiveUp
    /\ UNCHANGED <<avail, forced, cancelled, closing, post, wanted, rejected>>

\* The callback returned.
Ended ==
    /\ pc \in {"bowing", "handing"} /\ At(pc)
    /\ TaskEnds
    /\ avail' = "disconnected"
    /\ UNCHANGED <<stop, dead, forced, cancelled, post, wanted, rejected>>

Connected ==
    /\ At("dialing")
    /\ pc' = "open"
    /\ avail' = "connected"
    /\ forced' = FALSE /\ rejected' = 0
    /\ UNCHANGED <<stop, dead, cancelled, closing, post, wanted>>

\* A message changes nothing here, unless the loop is to stop.
LastMessage ==
    /\ At("open") /\ stop
    /\ LoopHead(TRUE)
    /\ UNCHANGED <<stop, dead, forced, cancelled, post, wanted, rejected>>

\* After a session: DISCONNECTED and a sleep, or the end.
GiveUpLoop(stopped) == TaskEnds           \* mutant: the error escapes _run()
Retry(stopped) ==
    IF stopped THEN TaskEnds ELSE pc' = "waiting" /\ UNCHANGED closing

\* Every error but a rejection and ReLoginRequiredError.
SessionFails ==
    /\ pc \in {"dialing", "open"} /\ At(pc)
    /\ avail' = "disconnected"
    /\ Retry(stop)
    /\ UNCHANGED <<stop, dead, forced, cancelled, post, wanted, rejected>>

\* ReLoginRequiredError, out of a callback.
SessionRefused ==
    /\ At("open")
    /\ pc' = "handing"
    /\ GiveUp
    /\ UNCHANGED <<avail, forced, cancelled, closing, post, wanted, rejected>>

\* "Bad user name or password", "Not authorized", of the dial or of the open
\* session: renewed once, then given up.  What the listeners were told stands
\* until then.
Rejected ==
    /\ pc \in {"dialing", "open"} /\ At(pc)
    /\ rejected' = rejected + 1
    /\ \/ forced /\ pc' = "handing" /\ GiveUp
       \/ ~ forced /\ pc' = "renewing" /\ UNCHANGED <<stop, dead>>
    /\ UNCHANGED <<avail, forced, cancelled, closing, post, wanted>>

\* The forced refresh returns: the stop event is cleared, and the next dial
\* comes at once.
RenewAgain == UNCHANGED forced           \* mutant: the flag is not set
RenewOnce  == forced' = TRUE

CredentialsRenewed ==
    /\ At("renewing")
    /\ RenewOnce
    /\ stop' = FALSE
    /\ LoopHead(FALSE)
    /\ UNCHANGED <<dead, cancelled, post, wanted, rejected>>

\* It raises, and may have hit a bad moment: retry later.
RenewalFails ==
    /\ At("renewing")
    /\ rejected' = 0
    /\ avail' = "disconnected"
    /\ Retry(stop)
    /\ UNCHANGED <<stop, dead, forced, cancelled, post, wanted>>

\* It raises ReLoginRequiredError.
RenewalRefused ==
    /\ At("renewing")
    /\ pc' = "handing"
    /\ GiveUp
    /\ UNCHANGED <<avail, forced, cancelled, closing, post, wanted, rejected>>

\* CancelledError at the await: a session has a finally block, the rest of the
\* task has none.
InSession == pc \in {"dialing", "open", "renewing", "handing"}

Cancelled ==
    /\ cancelled /\ closing # "waking"
    /\ cancelled' = FALSE
    /\ TaskEnds
    /\ avail' = IF InSession THEN "disconnected" ELSE avail
    /\ UNCHANGED <<stop, dead, forced, post, wanted, rejected>>

-----------------------------------------------------------------------------
Sender == \E s \in Senders :
              Send(s) \/ Posted(s) \/ Unauthorized(s) \/ Renewed(s) \/ SenderGivesUp(s)

\* What the event loop brings about by itself: callbacks, HTTP calls and sleeps
\* end, and aiomqtt ends a dial within 60 s.
Progress ==
    \/ Begin \/ Checked \/ CheckFails \/ CheckRefused \/ Ended
    \/ Connected \/ (pc = "dialing" /\ (Rejected \/ SessionFails))
    \/ CredentialsRenewed \/ RenewalFails \/ RenewalRefused
    \/ Cancelled \/ DisconnectReturns

Next ==
    \/ Progress
    \/ Rejected \/ SessionFails \/ SessionRefused \/ LastMessage
    \/ Connect \/ Disconnect \/ Sender

Spec == Init /\ [][Next]_vars

\* Nothing makes the broker send a message, or a session end.
FairSpec == Spec /\ WF_vars(Progress)

-----------------------------------------------------------------------------
(* Properties.                                                             *)

\* The contract of a cloud transport.  A task cancelled in its look at the
\* credentials ends without a word to the listeners, and disconnect() says it
\* for the task (mqtt.py:279-281).
Contract == INSTANCE CloudTransport WITH
    running <- pc # "off" \/ closing = "waking",
    told    <- avail,
    dead    <- dead
ContractSpec == Contract!Spec

\* A wanted transport keeps dialling: no failure, of whatever step, parks the
\* loop for good.  And disconnect() returns, wherever in its work the task is
\* cancelled, although the task clears the stop event that disconnect() has set.
KeepsDialling ==
    /\ wanted ~> pc \in {"dialing", "open"} \/ ~ wanted \/ dead
    /\ closing = "joining" ~> closing = "no"
=============================================================================
