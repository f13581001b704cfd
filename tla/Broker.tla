------------------------------- MODULE Broker -------------------------------
(***************************************************************************)
(* DeviceMessageBroker (pymammotion/messaging/broker.py): requests wait    *)
(* for the reply that carries an expected field name; every other message  *)
(* goes to the event bus.  The protocol has no request id, so the field    *)
(* name is the only correlation key.                                       *)
(*                                                                         *)
(* A caller is one call of send_and_wait().  No critical section of _lock  *)
(* awaits anything, so each is one atomic piece of a step.  pc[c]:         *)
(*    idle      not called yet                                             *)
(*    sending   in send_fn()                                               *)
(*    waiting   in shield(future) under asyncio.timeout                    *)
(*    expired   the deadline has fired and cancelled the wait; the task    *)
(*              has not run yet                                            *)
(* and the ways it ends: returned (with the reply), timedout               *)
(* (CommandTimeoutError), rejected (ConcurrentRequestError), failed        *)
(* (send_fn raised), aborted (CancelledError).                             *)
(***************************************************************************)
EXTENDS Naturals

CONSTANTS
    Callers,         \* calls of send_and_wait()
    Fields,          \* response field names
    FieldOf,         \* the expected_field of each call
    Nobody,
    Retries,         \* retries
    MaxMessages      \* bound: messages received

ASSUME BrokerAssumption ==
    /\ FieldOf \in [Callers -> Fields]
    /\ Nobody \notin Callers
    /\ Retries \in Nat \ {0}
    /\ MaxMessages \in Nat

VARIABLES
    pending,   \* _pending: the caller whose future is registered per field
    future,    \* the future of each call
    pc,
    attempt,
    closed,    \* close() has run
    received,  \* messages handled by on_message()
    emitted    \* of these, messages passed on to the event bus

vars == <<pending, future, pc, attempt, closed, received, emitted>>

Live  == {"sending", "waiting", "expired"}
Ended == {"returned", "timedout", "rejected", "failed", "aborted"}

TypeOK ==
    /\ pending \in [Fields -> Callers \cup {Nobody}]
    /\ future \in [Callers -> {"none", "waiting", "resolved", "cancelled"}]
    /\ pc \in [Callers -> {"idle"} \cup Live \cup Ended]
    /\ attempt \in [Callers -> 0 .. Retries]
    /\ closed \in BOOLEAN
    /\ received \in 0 .. MaxMessages
    /\ emitted \in 0 .. received

Init ==
    /\ pending = [f \in Fields |-> Nobody]
    /\ future = [c \in Callers |-> "none"]
    /\ pc = [c \in Callers |-> "idle"]
    /\ attempt = [c \in Callers |-> 0]
    /\ closed = FALSE
    /\ received = 0
    /\ emitted = 0

Goto(c, l) == pc' = [pc EXCEPT ![c] = l]

\* A handle closes its broker when the device is removed, so no call is begun
\* after close().
\* "Already waiting for ...": checked and registered in one critical section.
Taken(c) == pending[FieldOf[c]] # Nobody

Register(c) ==
    /\ pc[c] = "idle"
    /\ ~ closed
    /\ ~ Taken(c)
    /\ pending' = [pending EXCEPT ![FieldOf[c]] = c]
    /\ future' = [future EXCEPT ![c] = "waiting"]
    /\ attempt' = [attempt EXCEPT ![c] = 1]
    /\ Goto(c, "sending")
    /\ UNCHANGED <<closed, received, emitted>>

Reject(c) ==
    /\ pc[c] = "idle"
    /\ ~ closed
    /\ Taken(c)
    /\ Goto(c, "rejected")
    /\ UNCHANGED <<pending, future, attempt, closed, received, emitted>>

\* The finally block: the entry goes by field name, the future is cancelled
\* unless it is done.
EntryLeft(c)   == pending                \* mutant: no pop
EntryPopped(c) == [pending EXCEPT ![FieldOf[c]] = Nobody]

MadeDone(c) == [future EXCEPT ![c] = IF @ = "waiting" THEN "cancelled" ELSE @]

CleanUp(c) == pending' = EntryPopped(c) /\ future' = MadeDone(c)

End(c, how) == CleanUp(c) /\ Goto(c, how) /\ UNCHANGED <<attempt, closed, received, emitted>>

\* send_fn() returned: a future that is already done answers at once.
SendReturns(c) ==
    /\ pc[c] = "sending"
    /\ \/ future[c] = "waiting" /\ Goto(c, "waiting")
          /\ UNCHANGED <<pending, future, attempt, closed, received, emitted>>
       \/ future[c] = "resolved" /\ End(c, "returned")
       \/ future[c] = "cancelled" /\ End(c, "aborted")

SendRaises(c) == pc[c] = "sending" /\ End(c, "failed")

\* The awaited future is done and the task runs.
Wake(c) ==
    /\ pc[c] = "waiting"
    /\ \/ future[c] = "resolved" /\ End(c, "returned")
       \/ future[c] = "cancelled" /\ End(c, "aborted")

\* The per-attempt deadline: the timer cancels the task, which gets to run
\* later.  The shielded future itself is untouched, and it wins over a reply
\* the task has not seen yet.
Deadline(c) ==
    /\ pc[c] = "waiting"
    /\ Goto(c, "expired")
    /\ UNCHANGED <<pending, future, attempt, closed, received, emitted>>

AlwaysLeft(c)   == TRUE                  \* mutant: retries without end
AttemptsLeft(c) == attempt[c] < Retries

RetryUncounted(c) ==    \* mutant: the attempt is not counted
    /\ pc[c] = "expired"
    /\ AttemptsLeft(c)
    /\ Goto(c, "sending")
    /\ UNCHANGED <<pending, future, attempt, closed, received, emitted>>

Retry(c) ==
    /\ pc[c] = "expired"
    /\ AttemptsLeft(c)
    /\ attempt' = [attempt EXCEPT ![c] = @ + 1]
    /\ Goto(c, "sending")
    /\ UNCHANGED <<pending, future, closed, received, emitted>>

GiveUp(c) == pc[c] = "expired" /\ ~ AttemptsLeft(c) /\ End(c, "timedout")

\* The enclosing task is cancelled.
CallerCancelled(c) == pc[c] \in Live /\ End(c, "aborted")

\* on_message(): the registered future is resolved unless it is done, in
\* which case, as with no entry, the message goes to the bus.
OnMessage(f) ==
    /\ received < MaxMessages
    /\ received' = received + 1
    /\ \/ \E c \in Callers :
             /\ pending[f] = c /\ future[c] = "waiting"
             /\ future' = [future EXCEPT ![c] = "resolved"]
             /\ UNCHANGED emitted
       \/ /\ \A c \in Callers : ~ (pending[f] = c /\ future[c] = "waiting")
          /\ emitted' = emitted + 1
          /\ UNCHANGED future
    /\ UNCHANGED <<pending, pc, attempt, closed>>

\* close(): every registered future is cancelled and the table cleared.
Close ==
    /\ ~ closed
    /\ closed' = TRUE
    /\ future' = [c \in Callers |->
                     IF pending[FieldOf[c]] = c /\ future[c] = "waiting"
                     THEN "cancelled" ELSE future[c]]
    /\ pending' = [f \in Fields |-> Nobody]
    /\ UNCHANGED <<pc, attempt, received, emitted>>

Step(c) == SendReturns(c) \/ Wake(c) \/ Retry(c) \/ GiveUp(c)

Next ==
    \/ \E c \in Callers :
          Register(c) \/ Reject(c) \/ Step(c) \/ SendRaises(c) \/ Deadline(c) \/ CallerCancelled(c)
    \/ \E f \in Fields : OnMessage(f)
    \/ Close

Spec == Init /\ [][Next]_vars

\* The loop runs every ready task and fires every timer; send_fn() returns.
FairSpec == Spec /\ \A c \in Callers : WF_vars(Step(c)) /\ WF_vars(Deadline(c))

-----------------------------------------------------------------------------
(* Properties.                                                             *)

\* The table and the callers agree.  Until close(), a request in flight owns
\* the entry of its field, so its reply reaches it; and every entry belongs to
\* a request in flight: an entry left behind would reject that field for ever.
Registered ==
    /\ \A c \in Callers : pc[c] \in Live /\ ~ closed => pending[FieldOf[c]] = c
    /\ \A f \in Fields, c \in Callers : pending[f] = c => FieldOf[c] = f /\ pc[c] \in Live

\* No future is left open by a call that has ended: nobody can resolve it, and
\* a waiter on it would hang.
NoOpenFuture == \A c \in Callers : pc[c] \in Ended => future[c] # "waiting"

\* "At most one pending request per field name is allowed."
OnePerField ==
    \A c, d \in Callers :
       pc[c] \in Live /\ pc[d] \in Live /\ FieldOf[c] = FieldOf[d] => c = d

\* Every request ends, whatever the device does and whenever close() comes.
RequestsEnd == \A c \in Callers : pc[c] \in Live ~> pc[c] \in Ended
=============================================================================
