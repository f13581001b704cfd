---------------------------- MODULE CommandQueue ----------------------------
(***************************************************************************)
(* DeviceCommandQueue (pymammotion/messaging/command_queue.py): one        *)
(* priority queue per device, drained by one asyncio task.  Callers        *)
(* enqueue commands and sagas; the device handle pauses and resumes        *)
(* dispatch while MQTT reconnects; stop() may come at any await.           *)
(*                                                                         *)
(* A step is the code between two awaits that suspend.  pc says where the  *)
(* processor task is suspended:                                            *)
(*    off       there is no task                                           *)
(*    get       in wait_for(_queue.get())                                  *)
(*    gate      in _transport_gate.wait(); woken: the gate was set, the    *)
(*              task has not run yet                                       *)
(*    hook      in on_saga_start                                           *)
(*    work      in work(), or in saga.execute()                            *)
(*    end       in on_saga_end                                             *)
(*    complete  in on_complete                                             *)
(*    critical  in on_critical_error                                       *)
(***************************************************************************)
EXTENDS Naturals

CONSTANTS
    Keys, NoKey,   \* dedup keys, and the value None
    MaxItems,      \* bound: commands accepted in a behaviour
    TTL,           \* _COMMAND_TTL, in ticks of the clock
    MaxTime,       \* bound: the last instant of the clock
    MaxAttempts    \* _gateway_timeout_max

ASSUME QueueAssumption ==
    /\ NoKey \notin Keys
    /\ MaxItems \in Nat
    /\ TTL \in Nat
    /\ MaxTime \in Nat
    /\ MaxAttempts \in Nat \ {0}

EMERGENCY  == 0
EXCLUSIVE  == 1
NORMAL     == 2
BACKGROUND == 3
Priority   == EMERGENCY .. BACKGROUND

Ids  == 1 .. MaxItems
Item == [seq: Nat, prio: Priority, skip: BOOLEAN, key: Keys \cup {NoKey}, at: Nat]
NoItem == [seq |-> 0, prio |-> NORMAL, skip |-> FALSE, key |-> NoKey, at |-> 0]

\* How an awaited work() ends.  Every other exception than the ones handled
\* apart is logged and dropped: "error".
Outcomes == {"ok", "gatewayTimeout", "error", "critical"}

VARIABLES
    queue,        \* _queue, as the set of its items
    pendingKeys,  \* _pending_dedup_keys
    lastSeq,      \* _seq
    gateOpen,     \* _transport_gate.is_set()
    sagaActive,   \* is_saga_active
    pc,           \* the processor task
    current,      \* the item it holds, NoItem when none
    attempt,      \* _attempt
    outcome,      \* how saga.execute() ended, while on_saga_end runs
    stop,         \* stop(): "no", "requested" (cancel posted) or
                  \* "unwinding" (CancelledError raised, finally blocks run)
    now,          \* time.monotonic()
    fate          \* history: what became of each accepted command

vars == <<queue, pendingKeys, lastSeq, gateOpen, sagaActive, pc, current,
          attempt, outcome, stop, now, fate>>

Lifecycle == INSTANCE CommandLifecycle WITH MaxItems <- MaxItems, fate <- fate

TypeOK ==
    /\ queue \subseteq Item
    /\ pendingKeys \subseteq Keys
    /\ lastSeq \in 0 .. MaxItems
    /\ gateOpen \in BOOLEAN
    /\ sagaActive \in BOOLEAN
    /\ pc \in {"off", "get", "gate", "woken", "hook", "work", "end", "complete", "critical"}
    /\ current \in Item
    /\ attempt \in 0 .. MaxAttempts
    /\ outcome \in Outcomes \cup {"cancelled"}
    /\ stop \in {"no", "requested", "unwinding"}
    /\ now \in 0 .. MaxTime
    /\ fate \in [Ids -> Lifecycle!Statuses]

Init ==
    /\ queue = {}
    /\ pendingKeys = {}
    /\ lastSeq = 0
    /\ gateOpen = TRUE
    /\ sagaActive = FALSE
    /\ pc = "off"
    /\ current = NoItem
    /\ attempt = 0
    /\ outcome = "ok"
    /\ stop = "no"
    /\ now = 0
    /\ fate = [i \in Ids |-> "unborn"]

-----------------------------------------------------------------------------
(* Callers.                                                                *)

\* A poll that must not pile up behind a saga is refused while one runs;
\* EMERGENCY forces its skip flag off.
RefusedForSaga(prio, skip) == skip /\ prio > EXCLUSIVE /\ sagaActive

\* An item with this dedup key is already waiting.
Duplicate(key) == key \in pendingKeys

\* enqueue(); a refused call returns without a trace, so it is no step.
Enqueue(prio, skip, key) ==
    /\ ~ Duplicate(key)
    /\ ~ RefusedForSaga(prio, skip)
    /\ lastSeq < MaxItems
    /\ lastSeq' = lastSeq + 1
    /\ queue' = queue \cup
          {[seq |-> lastSeq + 1, prio |-> prio, key |-> key, at |-> now,
            skip |-> skip /\ prio # EMERGENCY]}
    /\ pendingKeys' = pendingKeys \cup ({key} \ {NoKey})
    /\ fate' = [fate EXCEPT ![lastSeq + 1] =
                   IF prio > EXCLUSIVE THEN "droppable" ELSE "protected"]
    /\ UNCHANGED <<gateOpen, sagaActive, pc, current, attempt, outcome, stop, now>>

\* enqueue_saga(): no dedup key, never skipped.
EnqueueSaga == Enqueue(EXCLUSIVE, FALSE, NoKey)

\* pause_for_reconnect() and resume_after_reconnect(): setting the event
\* wakes the processor parked on it, which then no longer looks at it.
PauseForReconnect ==
    /\ gateOpen' = FALSE
    /\ UNCHANGED <<queue, pendingKeys, lastSeq, sagaActive, pc, current,
                   attempt, outcome, stop, now, fate>>

ResumeAfterReconnect ==
    /\ gateOpen' = TRUE
    /\ pc' = IF pc = "gate" THEN "woken" ELSE pc
    /\ UNCHANGED <<queue, pendingKeys, lastSeq, sagaActive, current, attempt,
                   outcome, stop, now, fate>>

\* Mutant: start() makes a new queue.
StartFresh ==
    /\ pc = "off"
    /\ pc' = "get" /\ queue' = {} /\ pendingKeys' = {}
    /\ UNCHANGED <<lastSeq, gateOpen, sagaActive, current, attempt, outcome, stop, now, fate>>

\* start(): a new task, unless one is still there.
Start ==
    /\ pc = "off"
    /\ pc' = "get"
    /\ UNCHANGED <<queue, pendingKeys, lastSeq, gateOpen, sagaActive, current,
                   attempt, outcome, stop, now, fate>>

\* stop() up to its await: both events are set and the task is cancelled.
Stop ==
    /\ stop = "no"
    /\ sagaActive' = FALSE
    /\ gateOpen' = TRUE
    /\ stop' = IF pc = "off" THEN "no" ELSE "requested"
    /\ UNCHANGED <<queue, pendingKeys, lastSeq, pc, current, attempt, outcome,
                   now, fate>>

Tick ==
    /\ now < MaxTime
    /\ now' = now + 1
    /\ UNCHANGED <<queue, pendingKeys, lastSeq, gateOpen, sagaActive, pc,
                   current, attempt, outcome, stop, fate>>

-----------------------------------------------------------------------------
(* The processor task, _process().                                         *)

\* The order of the priority queue: by priority, then by sequence number.
Before(i, j) == i.prio < j.prio \/ (i.prio = j.prio /\ i.seq < j.seq)

StaleAny(i) == now - i.at > TTL      \* mutant: sagas and emergencies expire too
Stale(i) == i.prio > EXCLUSIVE /\ now - i.at > TTL

\* The dedup key of a dequeued item is given back.
KeyKept(i)     == pendingKeys        \* mutant: the discard is missing
KeyReleased(i) == pendingKeys \ {i.key}

\* get() returns the first item and its dedup key is released.
Take(i) ==
    /\ pc = "get" /\ stop = "no"
    /\ \A j \in queue : ~ Before(j, i)
    /\ queue' = queue \ {i}
    /\ pendingKeys' = KeyReleased(i)

\* A command that outlived the TTL is discarded.
Discard(i) ==
    /\ Take(i)
    /\ Stale(i)
    /\ fate' = [fate EXCEPT ![i.seq] = "discarded"]
    /\ UNCHANGED <<lastSeq, gateOpen, sagaActive, pc, current, attempt, outcome, stop, now>>

\* The guard on sagaActive is the wait for _exclusive_active; right after it
\* the second look at skip_if_saga_active finds no saga.
Accepted(i) == Take(i) /\ ~ Stale(i) /\ (i.prio > EXCLUSIVE => ~ sagaActive)

\* One call of work().  A saga first clears _exclusive_active and calls
\* on_saga_start.
Call(i, n) ==
    /\ current' = i
    /\ attempt' = n
    /\ sagaActive' = (i.prio = EXCLUSIVE \/ sagaActive)
    /\ pc' = IF i.prio = EXCLUSIVE THEN "hook" ELSE "work"

\* Only EMERGENCY items skip the transport gate.
HeldByGate(i) == i.prio > EMERGENCY /\ ~ gateOpen

RunAtOnce(i) ==
    /\ Accepted(i)
    /\ ~ HeldByGate(i)
    /\ Call(i, 1)
    /\ fate' = [fate EXCEPT ![i.seq] = "running"]
    /\ UNCHANGED <<lastSeq, gateOpen, outcome, stop, now>>

ParkAtGate(i) ==
    /\ Accepted(i)
    /\ HeldByGate(i)
    /\ current' = i
    /\ pc' = "gate"
    /\ UNCHANGED <<lastSeq, gateOpen, sagaActive, attempt, outcome, stop, now, fate>>

RunAfterGate ==
    /\ pc = "woken" /\ stop = "no"
    /\ Call(current, 1)
    /\ fate' = [fate EXCEPT ![current.seq] = "running"]
    /\ UNCHANGED <<queue, pendingKeys, lastSeq, gateOpen, outcome, stop, now>>

\* on_saga_start returned (its exceptions are swallowed): saga.execute() runs.
SagaStartHookReturns ==
    /\ pc = "hook" /\ stop = "no"
    /\ pc' = "work"
    /\ UNCHANGED <<queue, pendingKeys, lastSeq, gateOpen, sagaActive, current,
                   attempt, outcome, stop, now, fate>>

\* Back to get(), the item dealt with.
Release == pc' = "get" /\ current' = NoItem /\ attempt' = 0

\* The retry loop: _attempt runs from 1 to _gateway_timeout_max.
RetriesLate == attempt <= MaxAttempts   \* mutant: off by one
RetriesLeft == attempt < MaxAttempts

\* work() ended in result.  A gateway timeout is retried at once, without
\* another look at the gate, until the attempts are used up.
Settle(result) ==
    \/ /\ result = "gatewayTimeout" /\ RetriesLeft
       /\ Call(current, attempt + 1)
       /\ UNCHANGED fate
    \/ /\ result = "gatewayTimeout" => ~ RetriesLeft
       /\ IF result = "critical"
             THEN pc' = "critical" /\ UNCHANGED <<current, attempt>>
             ELSE Release
       /\ UNCHANGED sagaActive
       /\ fate' = [fate EXCEPT ![current.seq] = IF result = "ok" THEN "done" ELSE "failed"]

\* A command's work() returns or raises.
WorkReturns(result) ==
    /\ pc = "work" /\ stop = "no"
    /\ current.prio # EXCLUSIVE
    /\ Settle(result)
    /\ UNCHANGED <<queue, pendingKeys, lastSeq, gateOpen, outcome, stop, now>>

\* The finally block of a saga: the exclusive slot is released.
KeepSlot == UNCHANGED sagaActive     \* mutant: the finally block is missing
FreeSlot == sagaActive' = FALSE

\* saga.execute() returns or raises: the finally block frees the exclusive
\* slot and calls on_saga_end.
SagaReturns(result) ==
    /\ pc = "work" /\ stop = "no"
    /\ current.prio = EXCLUSIVE
    /\ FreeSlot
    /\ outcome' = result
    /\ pc' = "end"
    /\ UNCHANGED <<queue, pendingKeys, lastSeq, gateOpen, current, attempt, stop, now, fate>>

\* on_saga_end returned.  A saga that succeeded calls on_complete, whose own
\* exceptions are swallowed; otherwise its exception goes on to _process().
SagaEndHookReturns ==
    /\ pc = "end" /\ stop = "no"
    /\ IF outcome = "ok"
          THEN /\ pc' = "complete"
               /\ fate' = [fate EXCEPT ![current.seq] = "done"]
               /\ UNCHANGED <<current, attempt, sagaActive>>
          ELSE Settle(outcome)
    /\ outcome' = "ok"
    /\ UNCHANGED <<queue, pendingKeys, lastSeq, gateOpen, stop, now>>

\* on_complete or on_critical_error returned.
CallbackReturns ==
    /\ pc \in {"complete", "critical"} /\ stop = "no"
    /\ Release
    /\ UNCHANGED <<queue, pendingKeys, lastSeq, gateOpen, sagaActive, outcome, stop, now, fate>>

\* The command the task held when it was cancelled, if it was still undecided.
Abandon(i) ==
    fate' = [j \in Ids |-> IF j = i.seq /\ fate[j] \in Lifecycle!Waiting \cup {"running"}
                           THEN "cancelled" ELSE fate[j]]

\* The task has ended: stop() returns, with _task = None.
TaskEnds ==
    /\ pc' = "off" /\ current' = NoItem /\ attempt' = 0
    /\ stop' = "no"

\* CancelledError is raised at the await the task is suspended in.  Inside a
\* saga the finally block still frees the slot and awaits on_saga_end.
UnwindSaga ==
    /\ stop = "requested"
    /\ pc \in {"hook", "work"} /\ current.prio = EXCLUSIVE
    /\ FreeSlot
    /\ outcome' = "cancelled"
    /\ pc' = "end"
    /\ stop' = "unwinding"
    /\ Abandon(current)
    /\ UNCHANGED <<queue, pendingKeys, lastSeq, gateOpen, current, attempt, now>>

Cancelled ==
    /\ \/ stop = "requested" /\ ~ (pc \in {"hook", "work"} /\ current.prio = EXCLUSIVE)
       \/ stop = "unwinding"   \* on_saga_end returned
    /\ Abandon(current)
    /\ TaskEnds
    /\ outcome' = "ok"
    /\ UNCHANGED <<queue, pendingKeys, lastSeq, gateOpen, sagaActive, now>>

-----------------------------------------------------------------------------
Process ==
    \/ \E i \in queue : Discard(i) \/ RunAtOnce(i) \/ ParkAtGate(i)
    \/ RunAfterGate
    \/ SagaStartHookReturns
    \/ \E result \in Outcomes : WorkReturns(result) \/ SagaReturns(result)
    \/ SagaEndHookReturns
    \/ CallbackReturns
    \/ UnwindSaga
    \/ Cancelled

Callers ==
    \/ \E prio \in Priority \ {EXCLUSIVE}, skip \in BOOLEAN, key \in Keys \cup {NoKey} :
          Enqueue(prio, skip, key)
    \/ EnqueueSaga
    \/ PauseForReconnect
    \/ ResumeAfterReconnect
    \/ Start
    \/ Stop
    \/ Tick

Next == Process \/ Callers

Spec == Init /\ [][Next]_vars

\* The event loop keeps running the task; every awaited work() and callback
\* returns (they carry timeouts); a reconnect ends, in either direction.
FairSpec == Spec /\ WF_vars(Process) /\ WF_vars(~ gateOpen /\ ResumeAfterReconnect)

-----------------------------------------------------------------------------
(* Properties.                                                             *)

\* Deduplication is exact: the pending-key set holds the keys of the queued
\* items and no others, and no key is queued twice.  A key left behind would
\* silence a report request for good; a key lost would let them pile up.
DedupExact ==
    /\ pendingKeys = {i.key : i \in queue} \ {NoKey}
    /\ \A i, j \in queue : i.key = j.key /\ i.key # NoKey => i = j

\* The exclusive slot is held exactly while the processor is inside a saga
\* that stop() has not released: never leaked past an exception, a retry or a
\* cancellation, so is_saga_active refuses polls only while a saga runs.
InSaga == pc \in {"hook", "work"} /\ current.prio = EXCLUSIVE
SagaSlotOwned ==
    /\ sagaActive => InSaga
    /\ InSaga /\ stop = "no" => sagaActive

\* No accepted command vanishes: until it has a final fate it is in the queue
\* or in the processor's hands, across stop() and start() too.
NothingLost ==
    \A n \in 1 .. lastSeq :
        /\ fate[n] \in Lifecycle!Waiting => n \in {i.seq : i \in queue} \cup {current.seq}
        /\ fate[n] = "running" => n = current.seq

\* The queue implements the life of a command it promises: one at a time,
\* one run each, sagas and emergencies never discarded unrun.
LifecycleKept == Lifecycle!Spec

\* While the task is not stopped every waiting command is dealt with: a
\* failing saga, a reconnect or a failing callback cannot wedge the queue.
CommandsSettle ==
    \A n \in Ids : fate[n] \in Lifecycle!Waiting ~> fate[n] \notin Lifecycle!Waiting \/ pc = "off"

=============================================================================
