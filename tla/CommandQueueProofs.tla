------------------------- MODULE CommandQueueProofs -------------------------
(***************************************************************************)
(* Proofs about CommandQueue, for every set of dedup keys, every bound and *)
(* every TTL.  The inductive invariant IInv joins the type invariant with  *)
(* what ties the history variable fate to the queue, to the item in hand   *)
(* and to the progress of stop().                                          *)
(***************************************************************************)
EXTENDS CommandQueue, TLAPS

Holding == {"gate", "woken", "hook", "work", "end", "complete", "critical"}

\* Queued items are numbered apart and carry the fate of their priority.
QueueInv ==
    /\ \A i \in queue : i.seq \in 1 .. lastSeq /\ i.seq # current.seq
    /\ \A i, j \in queue : i.seq = j.seq => i = j
    /\ \A i \in queue : fate[i.seq] = IF i.prio > EXCLUSIVE THEN "droppable" ELSE "protected"
    /\ \A n \in Ids : n > lastSeq => fate[n] = "unborn"

\* What the processor holds, by the await it is suspended in.
HandInv ==
    /\ IF pc \in Holding THEN current.seq \in 1 .. lastSeq ELSE current.seq = 0
    /\ pc \in {"gate", "woken"} => fate[current.seq] \in Lifecycle!Waiting
    /\ pc \in {"hook", "work"} => fate[current.seq] = "running"
    /\ pc = "hook" => current.prio = EXCLUSIVE
    /\ pc = "end" =>
          fate[current.seq] = IF outcome = "cancelled" THEN "cancelled" ELSE "running"
    /\ pc \in {"complete", "critical"} => fate[current.seq] \in Lifecycle!Final

\* How far stop() is.
StopInv ==
    /\ pc = "off" => stop = "no"
    /\ stop = "unwinding" => pc = "end" /\ outcome = "cancelled"
    /\ outcome = "cancelled" => stop = "unwinding"

IInv == TypeOK /\ QueueInv /\ HandInv /\ StopInv /\ DedupExact /\ SagaSlotOwned /\ NothingLost

-----------------------------------------------------------------------------
USE QueueAssumption DEF Ids, EMERGENCY, EXCLUSIVE, NORMAL, BACKGROUND, Priority, Holding,
    Lifecycle!Statuses, Lifecycle!Waiting, Lifecycle!Final

LEMMA NoItemIsItem == NoItem \in Item /\ NoItem.seq = 0
BY DEF NoItem, Item

\* The keys and the numbers of a queue with one more item.
LEMMA OneMore ==
  ASSUME NEW S, NEW x
  PROVE  /\ {i.key : i \in S \cup {x}} = {i.key : i \in S} \cup {x.key}
         /\ {i.seq : i \in S \cup {x}} = {i.seq : i \in S} \cup {x.seq}
OBVIOUS

LEMMA InitIInv == Init => IInv
<1> SUFFICES ASSUME Init PROVE IInv
  OBVIOUS
<1> USE DEF Init, NoItem, Ids, EMERGENCY, EXCLUSIVE, NORMAL, BACKGROUND
<1>1. TypeOK
  <2>1. NoItem \in Item
    BY DEF Item, Priority
  <2>2. fate \in [Ids -> Lifecycle!Statuses]
    BY DEF Lifecycle!Statuses
  <2>3. QED
    <3>1. queue \subseteq Item /\ pendingKeys \subseteq Keys OBVIOUS
    <3>2. lastSeq \in 0 .. MaxItems /\ now \in 0 .. MaxTime /\ attempt \in 0 .. MaxAttempts OBVIOUS
    <3>3. gateOpen \in BOOLEAN /\ sagaActive \in BOOLEAN OBVIOUS
    <3>4. outcome \in Outcomes \cup {"cancelled"} BY DEF Outcomes
    <3>5. stop \in {"no", "requested", "unwinding"} OBVIOUS
    <3>6. current \in Item BY <2>1
    <3>7. QED BY <2>2, <3>1, <3>2, <3>3, <3>4, <3>5, <3>6 DEF TypeOK
<1>2. QueueInv
  BY DEF QueueInv
<1>3. HandInv
  BY DEF HandInv, Holding
<1>4. StopInv /\ DedupExact /\ SagaSlotOwned /\ NothingLost
  BY DEF StopInv, DedupExact, SagaSlotOwned, InSaga, NothingLost
<1>5. QED
  BY <1>1, <1>2, <1>3, <1>4 DEF IInv

\* An enqueued command is numbered above every other and its key was free.
LEMMA EnqueueKeeps ==
  ASSUME IInv, NEW prio \in Priority, NEW skip \in BOOLEAN, NEW key \in Keys \cup {NoKey}, Enqueue(prio, skip, key)
  PROVE  IInv'
<1> DEFINE New == [seq |-> lastSeq + 1, prio |-> prio, key |-> key, at |-> now,
                    skip |-> skip /\ prio # EMERGENCY]
<1> USE DEF Enqueue, Duplicate, IInv
<1>1. TypeOK'
  <2>1. New \in Item
    BY DEF TypeOK, Item
  <2>2. fate' \in [Ids -> Lifecycle!Statuses]
    BY DEF TypeOK
  <2>3. QED
    BY <2>1, <2>2 DEF TypeOK
<1>2. QueueInv'
  BY DEF QueueInv, TypeOK, Item, HandInv
<1>3. HandInv'
  BY DEF HandInv, TypeOK, Item
<1>4. DedupExact'
  <2>1. {i.key : i \in queue'} = {i.key : i \in queue} \cup {key}
    <3>1. queue' = queue \cup {New} /\ New.key = key
      OBVIOUS
    <3>2. QED
      BY ONLY <3>1, OneMore
  <2>2. \A i \in queue : i.key = key => key = NoKey
    BY DEF DedupExact
  <2>3. QED
    BY <2>1, <2>2 DEF DedupExact
<1>5. NothingLost'
  <2>1. {i.seq : i \in queue'} = {i.seq : i \in queue} \cup {lastSeq + 1}
    <3>1. queue' = queue \cup {New} /\ New.seq = lastSeq + 1
      OBVIOUS
    <3>2. QED
      BY ONLY <3>1, OneMore
  <2>2. \A n \in 1 .. lastSeq' : n \in 1 .. lastSeq \/ n = lastSeq + 1
    BY DEF TypeOK
  <2>3. \A n \in 1 .. lastSeq : fate'[n] = fate[n]
    BY DEF TypeOK
  <2>4. fate'[lastSeq + 1] # "running"
    BY DEF TypeOK
  <2>5. QED
    BY <2>1, <2>2, <2>3, <2>4 DEF NothingLost
<1>6. StopInv' /\ SagaSlotOwned'
  BY DEF StopInv, SagaSlotOwned, InSaga
<1>7. QED
  BY <1>1, <1>2, <1>3, <1>4, <1>5, <1>6

\* The gate closes: nothing else changes.
LEMMA PauseForReconnectKeeps ==
  ASSUME IInv, PauseForReconnect
  PROVE  IInv'
<1> USE DEF PauseForReconnect, IInv
<1>1. TypeOK'
  BY DEF TypeOK
<1>2. QueueInv' /\ HandInv'
  BY DEF QueueInv, HandInv
<1>3. StopInv' /\ DedupExact' /\ SagaSlotOwned' /\ NothingLost'
  BY DEF StopInv, DedupExact, SagaSlotOwned, InSaga, NothingLost
<1>4. QED
  BY <1>1, <1>2, <1>3

\* The gate opens and wakes the processor.
LEMMA ResumeAfterReconnectKeeps ==
  ASSUME IInv, ResumeAfterReconnect
  PROVE  IInv'
<1> USE DEF ResumeAfterReconnect, IInv
<1>1. TypeOK'
  BY DEF TypeOK
<1>2. QueueInv' /\ HandInv'
  BY DEF QueueInv, HandInv
<1>3. StopInv' /\ DedupExact' /\ SagaSlotOwned' /\ NothingLost'
  BY DEF StopInv, DedupExact, SagaSlotOwned, InSaga, NothingLost
<1>4. QED
  BY <1>1, <1>2, <1>3

\* A new task finds the queue as the last one left it.
LEMMA StartKeeps ==
  ASSUME IInv, Start
  PROVE  IInv'
<1> USE DEF Start, IInv
<1>1. TypeOK'
  BY DEF TypeOK
<1>2. QueueInv' /\ HandInv'
  BY DEF QueueInv, HandInv
<1>3. StopInv' /\ DedupExact' /\ SagaSlotOwned' /\ NothingLost'
  BY DEF StopInv, DedupExact, SagaSlotOwned, InSaga, NothingLost
<1>4. QED
  BY <1>1, <1>2, <1>3

\* stop() releases the slot at once; the saga may still be unwinding.
LEMMA StopKeeps ==
  ASSUME IInv, Stop
  PROVE  IInv'
<1> USE DEF Stop, IInv
<1>1. TypeOK'
  BY DEF TypeOK
<1>2. QueueInv' /\ HandInv'
  BY DEF QueueInv, HandInv
<1>3. StopInv' /\ DedupExact' /\ SagaSlotOwned' /\ NothingLost'
  BY DEF StopInv, DedupExact, SagaSlotOwned, InSaga, NothingLost
<1>4. QED
  BY <1>1, <1>2, <1>3

\* Time passes.
LEMMA TickKeeps ==
  ASSUME IInv, Tick
  PROVE  IInv'
<1> USE DEF Tick, IInv
<1>1. TypeOK'
  BY DEF TypeOK
<1>2. QueueInv' /\ HandInv'
  BY DEF QueueInv, HandInv
<1>3. StopInv' /\ DedupExact' /\ SagaSlotOwned' /\ NothingLost'
  BY DEF StopInv, DedupExact, SagaSlotOwned, InSaga, NothingLost
<1>4. QED
  BY <1>1, <1>2, <1>3

\* An expired command leaves the queue with its key.
LEMMA DiscardKeeps ==
  ASSUME IInv, NEW i \in queue, Discard(i)
  PROVE  IInv'
<1> USE DEF Discard, Take, KeyReleased, Stale, IInv
<1>1. NothingLost'
  BY DEF NothingLost, TypeOK, Item
<1>2. TypeOK' /\ QueueInv' /\ HandInv'
  BY DEF TypeOK, Item, QueueInv, HandInv
<1>3. StopInv' /\ DedupExact' /\ SagaSlotOwned'
  BY DEF StopInv, DedupExact, SagaSlotOwned, InSaga
<1>4. QED
  BY <1>1, <1>2, <1>3

\* The first command leaves the queue and runs.
LEMMA RunAtOnceKeeps ==
  ASSUME IInv, NEW i \in queue, RunAtOnce(i)
  PROVE  IInv'
<1> USE DEF RunAtOnce, Accepted, Take, KeyReleased, Call, IInv
<1>1. TypeOK'
  BY DEF TypeOK, Item, QueueInv
<1>2. HandInv'
  BY DEF HandInv, TypeOK, Item, QueueInv
<1>3. NothingLost'
  BY DEF NothingLost, HandInv
<1>4. QueueInv'
  BY DEF QueueInv
<1>5. StopInv' /\ DedupExact' /\ SagaSlotOwned'
  BY DEF StopInv, DedupExact, SagaSlotOwned, InSaga
<1>6. QED
  BY <1>1, <1>2, <1>3, <1>4, <1>5

\* The first command leaves the queue and waits in hand.
LEMMA ParkAtGateKeeps ==
  ASSUME IInv, NEW i \in queue, ParkAtGate(i)
  PROVE  IInv'
<1> USE DEF ParkAtGate, Accepted, Take, KeyReleased, IInv
<1>1. HandInv'
  BY DEF HandInv, QueueInv
<1>2. NothingLost'
  BY DEF NothingLost, HandInv
<1>3. TypeOK' /\ QueueInv'
  BY DEF TypeOK, Item, QueueInv
<1>4. StopInv' /\ DedupExact' /\ SagaSlotOwned'
  BY DEF StopInv, DedupExact, SagaSlotOwned, InSaga
<1>5. QED
  BY <1>1, <1>2, <1>3, <1>4

\* The command in hand runs.
LEMMA RunAfterGateKeeps ==
  ASSUME IInv, RunAfterGate
  PROVE  IInv'
<1> USE DEF RunAfterGate, Call, IInv
<1>1. TypeOK'
  BY DEF TypeOK, Item, HandInv
<1>2. QueueInv'
  BY DEF QueueInv, HandInv
<1>3. HandInv'
  BY DEF HandInv, TypeOK, Item
<1>4. StopInv' /\ DedupExact' /\ SagaSlotOwned'
  BY DEF StopInv, DedupExact, SagaSlotOwned, InSaga
<1>5. NothingLost'
  BY DEF NothingLost
<1>6. QED
  BY <1>1, <1>2, <1>3, <1>4, <1>5

\* on_saga_start is over.
LEMMA SagaStartHookReturnsKeeps ==
  ASSUME IInv, SagaStartHookReturns
  PROVE  IInv'
<1> USE DEF SagaStartHookReturns, IInv
<1>1. TypeOK'
  BY DEF TypeOK
<1>2. QueueInv' /\ HandInv'
  BY DEF QueueInv, HandInv
<1>3. StopInv' /\ DedupExact' /\ SagaSlotOwned' /\ NothingLost'
  BY DEF StopInv, DedupExact, SagaSlotOwned, InSaga, NothingLost
<1>4. QED
  BY <1>1, <1>2, <1>3

\* A command ends, or is called again.
LEMMA WorkReturnsKeeps ==
  ASSUME IInv, NEW result \in Outcomes, WorkReturns(result)
  PROVE  IInv'
<1> USE DEF WorkReturns, Settle, RetriesLeft, Call, Release, NoItem, Outcomes, IInv
<1>1. TypeOK'
  <2>1. fate' \in [Ids -> Lifecycle!Statuses]
    BY DEF TypeOK
  <2>2. current' \in Item
    BY NoItemIsItem DEF TypeOK
  <2>3. attempt' \in 0 .. MaxAttempts /\ pc' \in {"get", "hook", "work", "critical"}
    BY DEF TypeOK
  <2>4. QED
    BY <2>1, <2>2, <2>3 DEF TypeOK
<1>2. QueueInv'
  BY DEF QueueInv, TypeOK, Item, HandInv
<1>3. HandInv'
  BY DEF HandInv, TypeOK, Item
<1>4. SagaSlotOwned'
  BY DEF SagaSlotOwned, InSaga, TypeOK, Item
<1>5. NothingLost'
  BY DEF NothingLost, TypeOK, Item
<1>6. StopInv' /\ DedupExact'
  BY DEF StopInv, DedupExact
<1>7. QED
  BY <1>1, <1>2, <1>3, <1>4, <1>5, <1>6

\* A saga's finally block frees the slot.
LEMMA SagaReturnsKeeps ==
  ASSUME IInv, NEW result \in Outcomes, SagaReturns(result)
  PROVE  IInv'
<1> USE DEF SagaReturns, FreeSlot, Outcomes, IInv
<1>1. TypeOK'
  BY DEF TypeOK
<1>2. QueueInv' /\ HandInv'
  BY DEF QueueInv, HandInv
<1>3. StopInv' /\ DedupExact' /\ SagaSlotOwned' /\ NothingLost'
  BY DEF StopInv, DedupExact, SagaSlotOwned, InSaga, NothingLost
<1>4. QED
  BY <1>1, <1>2, <1>3

\* on_saga_end is over: the saga ends, or is called again.
LEMMA SagaEndHookReturnsKeeps ==
  ASSUME IInv, SagaEndHookReturns
  PROVE  IInv'
<1> USE DEF SagaEndHookReturns, Settle, RetriesLeft, Call, Release, NoItem, Outcomes, IInv
<1>1. TypeOK'
  <2>1. fate' \in [Ids -> Lifecycle!Statuses]
    BY DEF TypeOK
  <2>2. current' \in Item
    BY NoItemIsItem DEF TypeOK
  <2>3. attempt' \in 0 .. MaxAttempts /\ pc' \in {"get", "hook", "work", "complete", "critical"}
    BY DEF TypeOK
  <2>4. QED
    BY <2>1, <2>2, <2>3 DEF TypeOK, Outcomes
<1>2. QueueInv'
  BY DEF QueueInv, TypeOK, Item, HandInv
<1>3. HandInv'
  BY DEF HandInv, TypeOK, Item
<1>4. NothingLost'
  BY DEF NothingLost, TypeOK, Item
<1>5. StopInv' /\ DedupExact' /\ SagaSlotOwned'
  BY DEF StopInv, DedupExact, SagaSlotOwned, InSaga
<1>6. QED
  BY <1>1, <1>2, <1>3, <1>4, <1>5

\* on_complete or on_critical_error is over.
LEMMA CallbackReturnsKeeps ==
  ASSUME IInv, CallbackReturns
  PROVE  IInv'
<1> USE DEF CallbackReturns, Release, NoItem, IInv
<1>1. TypeOK'
  BY NoItemIsItem DEF TypeOK
<1>2. NothingLost'
  BY DEF NothingLost, HandInv
<1>3. QueueInv' /\ HandInv'
  BY DEF QueueInv, HandInv
<1>4. StopInv' /\ DedupExact' /\ SagaSlotOwned'
  BY DEF StopInv, DedupExact, SagaSlotOwned, InSaga
<1>5. QED
  BY <1>1, <1>2, <1>3, <1>4

\* A cancelled saga frees the slot and calls on_saga_end.
LEMMA UnwindSagaKeeps ==
  ASSUME IInv, UnwindSaga
  PROVE  IInv'
<1> USE DEF UnwindSaga, FreeSlot, Abandon, IInv
<1>1. QueueInv'
  BY DEF QueueInv, TypeOK, Item
<1>2. HandInv'
  BY DEF HandInv, TypeOK, Item
<1>3. NothingLost'
  BY DEF NothingLost, TypeOK, Item
<1>4. TypeOK' /\ StopInv' /\ DedupExact' /\ SagaSlotOwned'
  BY DEF TypeOK, Item, StopInv, DedupExact, SagaSlotOwned, InSaga
<1>5. QED
  BY <1>1, <1>2, <1>3, <1>4

\* The cancelled task ends.
LEMMA CancelledKeeps ==
  ASSUME IInv, Cancelled
  PROVE  IInv'
<1> USE DEF Cancelled, Abandon, TaskEnds, NoItem, IInv
<1>1. TypeOK'
  <2>1. fate' \in [Ids -> Lifecycle!Statuses]
    BY DEF TypeOK
  <2>2. current' \in Item
    BY NoItemIsItem
  <2>3. QED
    BY <2>1, <2>2 DEF TypeOK, Outcomes
<1>2. QueueInv'
  BY DEF QueueInv, TypeOK, Item
<1>3. SagaSlotOwned'
  BY DEF SagaSlotOwned, InSaga, StopInv
<1>4. NothingLost'
  BY DEF NothingLost, TypeOK, Item
<1>5. HandInv' /\ StopInv' /\ DedupExact'
  BY DEF HandInv, StopInv, DedupExact
<1>6. QED
  BY <1>1, <1>2, <1>3, <1>4, <1>5

-----------------------------------------------------------------------------
\* Every step of the processor and of its callers keeps the invariant.
LEMMA NextIInv == IInv /\ [Next]_vars => IInv'
<1> SUFFICES ASSUME IInv, [Next]_vars PROVE IInv'
  OBVIOUS
<1>1. CASE Process
  BY <1>1, DiscardKeeps, RunAtOnceKeeps, ParkAtGateKeeps, RunAfterGateKeeps,
     SagaStartHookReturnsKeeps, WorkReturnsKeeps, SagaReturnsKeeps,
     SagaEndHookReturnsKeeps, CallbackReturnsKeeps, UnwindSagaKeeps, CancelledKeeps
     DEF Process
<1>2. CASE Callers
  <2>1. CASE EnqueueSaga
    <3>1. Enqueue(EXCLUSIVE, FALSE, NoKey)
      BY <2>1 DEF EnqueueSaga
    <3>2. EXCLUSIVE \in Priority /\ FALSE \in BOOLEAN /\ NoKey \in Keys \cup {NoKey}
      OBVIOUS
    <3>3. QED
      BY ONLY <3>1, <3>2, EnqueueKeeps, IInv
  <2>2. CASE \E prio \in Priority \ {EXCLUSIVE}, skip \in BOOLEAN, key \in Keys \cup {NoKey} :
                Enqueue(prio, skip, key)
    BY <2>2, EnqueueKeeps
  <2>3. QED
    BY <1>2, <2>1, <2>2, PauseForReconnectKeeps, ResumeAfterReconnectKeeps, StartKeeps,
       StopKeeps, TickKeeps
       DEF Callers
<1>3. CASE UNCHANGED vars
  <2>1. TypeOK' /\ QueueInv' /\ HandInv' /\ StopInv'
    BY <1>3 DEF IInv, TypeOK, QueueInv, HandInv, StopInv, vars
  <2>2. DedupExact' /\ SagaSlotOwned' /\ NothingLost'
    BY <1>3 DEF IInv, DedupExact, SagaSlotOwned, InSaga, NothingLost, vars
  <2>3. QED
    BY <2>1, <2>2 DEF IInv
<1>4. QED
  BY <1>1, <1>2, <1>3 DEF Next

LEMMA Invariance == Spec => []IInv
BY InitIInv, NextIInv, PTL DEF Spec

\* The queue, its bookkeeping and its processor keep their types.
THEOREM TypeCorrect == Spec => []TypeOK
BY Invariance, PTL DEF IInv

\* _pending_dedup_keys is exactly the set of keys of the queued items, and no
\* key is queued twice, through every cancellation and restart.
THEOREM DedupIsExact == Spec => []DedupExact
BY Invariance, PTL DEF IInv

\* The exclusive slot is held exactly while a saga runs.
THEOREM SagaSlotIsOwned == Spec => []SagaSlotOwned
BY Invariance, PTL DEF IInv

\* No accepted command vanishes without a final fate.
THEOREM NothingIsLost == Spec => []NothingLost
BY Invariance, PTL DEF IInv

-----------------------------------------------------------------------------
\* The step simulation: every step of the queue is a step of the life of one
\* command, or leaves every life alone.
LEMMA StepSimulation == IInv /\ [Next]_vars => [Lifecycle!Next]_fate
<1> SUFFICES ASSUME IInv, [Next]_vars, fate' # fate PROVE Lifecycle!Next
  BY DEF Lifecycle!Next
<1> USE DEF IInv, TypeOK, Lifecycle!Next, Lifecycle!Become, Lifecycle!Ids
<1>1. ASSUME NEW prio \in Priority, NEW skip \in BOOLEAN, NEW key \in Keys \cup {NoKey},
             Enqueue(prio, skip, key)
      PROVE  Lifecycle!Next
  <2>1. lastSeq + 1 \in Ids /\ fate[lastSeq + 1] = "unborn"
    BY <1>1 DEF Enqueue, QueueInv
  <2>2. \E s \in Lifecycle!Waiting : fate' = [fate EXCEPT ![lastSeq + 1] = s]
    BY <1>1 DEF Enqueue
  <2>3. Lifecycle!Accept(lastSeq + 1)
    BY <2>1, <2>2 DEF Lifecycle!Accept
  <2>4. QED
    BY <2>1, <2>3
<1>2. ASSUME NEW i \in queue, Discard(i) PROVE Lifecycle!Next
  <2>1. Lifecycle!Discard(i.seq)
    BY <1>2 DEF Discard, Stale, QueueInv, Item, Lifecycle!Discard
  <2>2. QED
    BY <2>1 DEF QueueInv
<1>3. ASSUME NEW i \in queue, RunAtOnce(i) PROVE Lifecycle!Next
  <2>1. \A n \in Ids : fate[n] # "running"
    BY <1>3 DEF RunAtOnce, Accepted, Take, QueueInv, HandInv, NothingLost
  <2>2. Lifecycle!Run(i.seq)
    BY <1>3, <2>1 DEF RunAtOnce, QueueInv, Lifecycle!Run
  <2>3. QED
    BY <2>2 DEF QueueInv
<1>4. CASE RunAfterGate
  <2>1. \A n \in Ids : fate[n] # "running"
    BY <1>4 DEF RunAfterGate, QueueInv, HandInv, NothingLost
  <2>2. Lifecycle!Run(current.seq)
    BY <1>4, <2>1 DEF RunAfterGate, HandInv, Lifecycle!Run
  <2>3. QED
    BY <1>4, <2>2 DEF RunAfterGate, HandInv
<1>5. ASSUME NEW result \in Outcomes, WorkReturns(result) PROVE Lifecycle!Next
  <2>1. Lifecycle!Finish(current.seq)
    BY <1>5 DEF WorkReturns, Settle, RetriesLeft, HandInv, Lifecycle!Finish
  <2>2. QED
    BY <1>5, <2>1 DEF WorkReturns, HandInv
<1>6. CASE SagaEndHookReturns
  <2>1. Lifecycle!Finish(current.seq)
    BY <1>6 DEF SagaEndHookReturns, Settle, RetriesLeft, HandInv, StopInv, Lifecycle!Finish
  <2>2. QED
    BY <1>6, <2>1 DEF SagaEndHookReturns, HandInv
<1>7. ASSUME Abandon(current) PROVE Lifecycle!Next
  <2>1. current.seq \in Ids /\ fate[current.seq] \in Lifecycle!Waiting \cup {"running"}
    BY <1>7 DEF Abandon
  <2>2. Lifecycle!Cancel(current.seq)
    BY <1>7, <2>1 DEF Abandon, Lifecycle!Cancel
  <2>3. QED
    BY <2>1, <2>2
<1>8. CASE Process
  BY <1>2, <1>3, <1>4, <1>5, <1>6, <1>7, <1>8
     DEF Process, ParkAtGate, SagaStartHookReturns, SagaReturns, CallbackReturns,
         UnwindSaga, Cancelled
<1>9. CASE Callers
  <2>1. CASE EnqueueSaga
    <3>1. Enqueue(EXCLUSIVE, FALSE, NoKey)
      BY <2>1 DEF EnqueueSaga
    <3>2. EXCLUSIVE \in Priority /\ FALSE \in BOOLEAN /\ NoKey \in Keys \cup {NoKey}
      OBVIOUS
    <3>3. QED
      BY ONLY <3>1, <3>2, <1>1
  <2>2. QED
    BY <1>1, <1>9, <2>1 DEF Callers, PauseForReconnect, ResumeAfterReconnect, Start, Stop, Tick
<1>10. QED
  BY <1>8, <1>9 DEF Next, vars

\* DeviceCommandQueue implements the life of a command it promises: one
\* command at a time, each run in one life only, and neither an emergency nor
\* a saga ever discarded unrun.
THEOREM Refinement == Spec => LifecycleKept
<1>1. Init => Lifecycle!Init
  BY DEF Init, Lifecycle!Init, Lifecycle!Ids
<1>2. QED
  BY <1>1, StepSimulation, Invariance, PTL DEF Spec, LifecycleKept, Lifecycle!Spec
=============================================================================
