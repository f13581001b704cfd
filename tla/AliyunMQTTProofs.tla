-------------------------- MODULE AliyunMQTTProofs --------------------------
(***************************************************************************)
(* Proofs about AliyunMQTT for any refresh budget.                         *)
(***************************************************************************)
EXTENDS AliyunMQTT, TLAPS

USE AliyunAssumption

\* Who stops the loop: disconnect(), whose cancellation is on its way, or the
\* loop itself when it gives up.
StopInv ==
    /\ cancelled => pc # "off" /\ ~ wanted /\ closing = "joining"
    /\ closing = "joining" => cancelled
    /\ stop => cancelled \/ pc \in {"off", "handing"}
    /\ wanted => ~ stop \/ dead
    /\ pc = "handing" => dead

\* Outside the try block the listeners were last told DISCONNECTED, in a dial
\* CONNECTING.
ToldInv ==
    /\ pc \in {"off", "starting", "waiting", "handing"} => told = "disconnected"
    /\ pc = "dialing" => told = "connecting"
    /\ closing = "waking" => pc \in {"off", "starting"}

\* Every refusal but the last was paid for with a refresh.
BudgetInv ==
    /\ refused <= cycles + 1
    /\ pc \notin {"refreshing", "handing", "off"} => refused <= cycles
    /\ pc = "refreshing" => cycles < MaxCycles

IInv == TypeOK /\ StopInv /\ ToldInv /\ BudgetInv /\ GivenUp /\ LoopSurvives /\ ListenersKnow

LEMMA InitIInv == Init => IInv
<1> SUFFICES ASSUME Init PROVE IInv
  OBVIOUS
<1>1. TypeOK
  <2>1. cycles \in 0 .. MaxCycles /\ refused \in 0 .. MaxRejected
    BY DEF Init
  <2>2. avail \in States /\ told \in States
    BY DEF Init, States
  <2>3. QED
    BY <2>1, <2>2 DEF Init, TypeOK
<1>2. StopInv /\ ToldInv /\ BudgetInv /\ GivenUp /\ LoopSurvives /\ ListenersKnow
  BY DEF Init, StopInv, ToldInv, BudgetInv, GivenUp, LoopSurvives, ListenersKnow
<1>3. QED
  BY <1>1, <1>2 DEF IInv

LEMMA ConnectKeeps == IInv /\ Connect => IInv'
<1> SUFFICES ASSUME IInv, Connect PROVE IInv'
  OBVIOUS
<1> USE DEF IInv, Connect, MayStart
<1>1. TypeOK'
  <2>1. cycles' \in 0 .. MaxCycles
    BY DEF TypeOK, BudgetInv
  <2>2. refused' \in 0 .. MaxRejected
    BY DEF TypeOK
  <2>3. avail' \in States /\ told' \in States
    BY DEF TypeOK, States
  <2>4. pc' \in {"off", "starting", "dialing", "greeting", "open", "refreshing",
                 "pausing", "waiting", "handing"} /\ closing' \in {"no", "joining", "waking"}
    BY DEF TypeOK
  <2>5. stop' \in BOOLEAN /\ dead' \in BOOLEAN /\ cancelled' \in BOOLEAN /\ wanted' \in BOOLEAN
    BY DEF TypeOK
  <2>6. QED
    BY ONLY <2>1, <2>2, <2>3, <2>4, <2>5 DEF TypeOK
<1>2. StopInv' /\ LoopSurvives'
  BY DEF TypeOK, StopInv, LoopSurvives, GivenUp
<1>3. ToldInv' /\ GivenUp' /\ ListenersKnow'
  BY DEF TypeOK, ToldInv, StopInv, GivenUp, ListenersKnow, States
<1>4. BudgetInv'
  BY DEF TypeOK, BudgetInv, StopInv
<1>5. QED
  BY <1>1, <1>2, <1>3, <1>4

LEMMA DisconnectKeeps == IInv /\ Disconnect => IInv'
<1> SUFFICES ASSUME IInv, Disconnect PROVE IInv'
  OBVIOUS
<1> USE DEF IInv, Disconnect, PostCancel
<1>1. TypeOK'
  BY DEF TypeOK, States, BudgetInv
<1>2. StopInv' /\ LoopSurvives'
  BY DEF TypeOK, StopInv, LoopSurvives, GivenUp
<1>3. ToldInv' /\ GivenUp' /\ ListenersKnow'
  BY DEF TypeOK, ToldInv, StopInv, GivenUp, ListenersKnow, States
<1>4. BudgetInv'
  BY DEF TypeOK, BudgetInv, StopInv
<1>5. QED
  BY <1>1, <1>2, <1>3, <1>4

LEMMA DisconnectReturnsKeeps == IInv /\ DisconnectReturns => IInv'
<1> SUFFICES ASSUME IInv, DisconnectReturns PROVE IInv'
  OBVIOUS
<1> USE DEF IInv, DisconnectReturns
<1>1. TypeOK'
  BY DEF TypeOK, States, BudgetInv
<1>2. StopInv' /\ LoopSurvives'
  BY DEF TypeOK, StopInv, LoopSurvives, GivenUp
<1>3. ToldInv' /\ GivenUp' /\ ListenersKnow'
  BY DEF TypeOK, ToldInv, StopInv, GivenUp, ListenersKnow, States
<1>4. BudgetInv'
  BY DEF TypeOK, BudgetInv, StopInv
<1>5. QED
  BY <1>1, <1>2, <1>3, <1>4

LEMMA ContextLoadedKeeps == IInv /\ ContextLoaded => IInv'
<1> SUFFICES ASSUME IInv, ContextLoaded PROVE IInv'
  OBVIOUS
<1> USE DEF IInv, ContextLoaded, At, Running, LoopHead, TaskEnds, Announce
<1>1. TypeOK'
  BY DEF TypeOK, States, BudgetInv
<1>2. StopInv' /\ LoopSurvives'
  BY DEF TypeOK, StopInv, LoopSurvives, GivenUp
<1>3. ToldInv' /\ GivenUp' /\ ListenersKnow'
  BY DEF TypeOK, ToldInv, StopInv, GivenUp, ListenersKnow, States
<1>4. BudgetInv'
  BY DEF TypeOK, BudgetInv, StopInv
<1>5. QED
  BY <1>1, <1>2, <1>3, <1>4

LEMMA ConnectedKeeps == IInv /\ Connected => IInv'
<1> SUFFICES ASSUME IInv, Connected PROVE IInv'
  OBVIOUS
<1> USE DEF IInv, Connected, At, Running, Announce
<1>1. TypeOK'
  BY DEF TypeOK, States, BudgetInv
<1>2. StopInv' /\ LoopSurvives'
  BY DEF TypeOK, StopInv, LoopSurvives, GivenUp
<1>3. ToldInv' /\ GivenUp' /\ ListenersKnow'
  BY DEF TypeOK, ToldInv, StopInv, GivenUp, ListenersKnow, States
<1>4. BudgetInv'
  BY DEF TypeOK, BudgetInv, StopInv
<1>5. QED
  BY <1>1, <1>2, <1>3, <1>4

LEMMA GreetedKeeps == IInv /\ Greeted => IInv'
<1> SUFFICES ASSUME IInv, Greeted PROVE IInv'
  OBVIOUS
<1> USE DEF IInv, Greeted, At, Running
<1>1. TypeOK'
  BY DEF TypeOK, States, BudgetInv
<1>2. StopInv' /\ LoopSurvives'
  BY DEF TypeOK, StopInv, LoopSurvives, GivenUp
<1>3. ToldInv' /\ GivenUp' /\ ListenersKnow'
  BY DEF TypeOK, ToldInv, StopInv, GivenUp, ListenersKnow, States
<1>4. BudgetInv'
  BY DEF TypeOK, BudgetInv, StopInv
<1>5. QED
  BY <1>1, <1>2, <1>3, <1>4

LEMMA ReceiveKeeps == IInv /\ Receive => IInv'
<1> SUFFICES ASSUME IInv, Receive PROVE IInv'
  OBVIOUS
<1> USE DEF IInv, Receive, At, Running
<1>1. TypeOK'
  BY DEF TypeOK, States, BudgetInv
<1>2. StopInv' /\ LoopSurvives'
  BY DEF TypeOK, StopInv, LoopSurvives, GivenUp
<1>3. ToldInv' /\ GivenUp' /\ ListenersKnow'
  BY DEF TypeOK, ToldInv, StopInv, GivenUp, ListenersKnow, States
<1>4. BudgetInv'
  BY DEF TypeOK, BudgetInv, StopInv
<1>5. QED
  BY <1>1, <1>2, <1>3, <1>4

LEMMA ConnectionFailsKeeps == IInv /\ ConnectionFails => IInv'
<1> SUFFICES ASSUME IInv, ConnectionFails PROVE IInv'
  OBVIOUS
<1> USE DEF IInv, ConnectionFails, Running, FinallyDown, CatchAll, Announce
<1>1. TypeOK'
  BY DEF TypeOK, States, BudgetInv
<1>2. StopInv' /\ LoopSurvives'
  BY DEF TypeOK, StopInv, LoopSurvives, GivenUp
<1>3. ToldInv' /\ GivenUp' /\ ListenersKnow'
  BY DEF TypeOK, ToldInv, StopInv, GivenUp, ListenersKnow, States
<1>4. BudgetInv'
  BY DEF TypeOK, BudgetInv, StopInv
<1>5. QED
  BY <1>1, <1>2, <1>3, <1>4

LEMMA DialRefusedKeeps == IInv /\ DialRefused => IInv'
<1> SUFFICES ASSUME IInv, DialRefused PROVE IInv'
  OBVIOUS
<1> USE DEF IInv, DialRefused, At, Running, OnRejection, GiveUp, Announce, Count
<1>1. TypeOK'
  <2>1. cycles' \in 0 .. MaxCycles
    BY DEF TypeOK, BudgetInv
  <2>2. refused' \in 0 .. MaxRejected
    BY DEF TypeOK
  <2>3. avail' \in States /\ told' \in States
    BY DEF TypeOK, States
  <2>4. pc' \in {"off", "starting", "dialing", "greeting", "open", "refreshing",
                 "pausing", "waiting", "handing"} /\ closing' \in {"no", "joining", "waking"}
    BY DEF TypeOK
  <2>5. stop' \in BOOLEAN /\ dead' \in BOOLEAN /\ cancelled' \in BOOLEAN /\ wanted' \in BOOLEAN
    BY DEF TypeOK
  <2>6. QED
    BY ONLY <2>1, <2>2, <2>3, <2>4, <2>5 DEF TypeOK
<1>2. StopInv' /\ LoopSurvives'
  BY DEF TypeOK, StopInv, LoopSurvives, GivenUp
<1>3. ToldInv' /\ GivenUp' /\ ListenersKnow'
  BY DEF TypeOK, ToldInv, StopInv, GivenUp, ListenersKnow, States
<1>4. BudgetInv'
  BY DEF TypeOK, BudgetInv, StopInv
<1>5. QED
  BY <1>1, <1>2, <1>3, <1>4

LEMMA BindExpiredKeeps == IInv /\ BindExpired => IInv'
<1> SUFFICES ASSUME IInv, BindExpired PROVE IInv'
  OBVIOUS
<1> USE DEF IInv, BindExpired, At, Running, OnRejection, GiveUp, Announce, Count
<1>1. TypeOK'
  <2>1. cycles' \in 0 .. MaxCycles
    BY DEF TypeOK, BudgetInv
  <2>2. refused' \in 0 .. MaxRejected
    BY DEF TypeOK
  <2>3. avail' \in States /\ told' \in States
    BY DEF TypeOK, States
  <2>4. pc' \in {"off", "starting", "dialing", "greeting", "open", "refreshing",
                 "pausing", "waiting", "handing"} /\ closing' \in {"no", "joining", "waking"}
    BY DEF TypeOK
  <2>5. stop' \in BOOLEAN /\ dead' \in BOOLEAN /\ cancelled' \in BOOLEAN /\ wanted' \in BOOLEAN
    BY DEF TypeOK
  <2>6. QED
    BY ONLY <2>1, <2>2, <2>3, <2>4, <2>5 DEF TypeOK
<1>2. StopInv' /\ LoopSurvives'
  BY DEF TypeOK, StopInv, LoopSurvives, GivenUp
<1>3. ToldInv' /\ GivenUp' /\ ListenersKnow'
  BY DEF TypeOK, ToldInv, StopInv, GivenUp, ListenersKnow, States
<1>4. BudgetInv'
  BY DEF TypeOK, BudgetInv, StopInv
<1>5. QED
  BY <1>1, <1>2, <1>3, <1>4

LEMMA AccountInUseKeeps == IInv /\ AccountInUse => IInv'
<1> SUFFICES ASSUME IInv, AccountInUse PROVE IInv'
  OBVIOUS
<1> USE DEF IInv, AccountInUse, At, Running, GiveUp, Announce
<1>1. TypeOK'
  BY DEF TypeOK, States, BudgetInv
<1>2. StopInv' /\ LoopSurvives'
  BY DEF TypeOK, StopInv, LoopSurvives, GivenUp
<1>3. ToldInv' /\ GivenUp' /\ ListenersKnow'
  BY DEF TypeOK, ToldInv, StopInv, GivenUp, ListenersKnow, States
<1>4. BudgetInv'
  BY DEF TypeOK, BudgetInv, StopInv
<1>5. QED
  BY <1>1, <1>2, <1>3, <1>4

LEMMA RefreshedKeeps == IInv /\ Refreshed => IInv'
<1> SUFFICES ASSUME IInv, Refreshed PROVE IInv'
  OBVIOUS
<1> USE DEF IInv, Refreshed, At, Running
<1>1. TypeOK'
  BY DEF TypeOK, States, BudgetInv
<1>2. StopInv' /\ LoopSurvives'
  BY DEF TypeOK, StopInv, LoopSurvives, GivenUp
<1>3. ToldInv' /\ GivenUp' /\ ListenersKnow'
  BY DEF TypeOK, ToldInv, StopInv, GivenUp, ListenersKnow, States
<1>4. BudgetInv'
  BY DEF TypeOK, BudgetInv, StopInv
<1>5. QED
  BY <1>1, <1>2, <1>3, <1>4

LEMMA RefreshFailsKeeps == IInv /\ RefreshFails => IInv'
<1> SUFFICES ASSUME IInv, RefreshFails PROVE IInv'
  OBVIOUS
<1> USE DEF IInv, RefreshFails, At, Running, GiveUp, Announce
<1>1. TypeOK'
  BY DEF TypeOK, States, BudgetInv
<1>2. StopInv' /\ LoopSurvives'
  BY DEF TypeOK, StopInv, LoopSurvives, GivenUp
<1>3. ToldInv' /\ GivenUp' /\ ListenersKnow'
  BY DEF TypeOK, ToldInv, StopInv, GivenUp, ListenersKnow, States
<1>4. BudgetInv'
  BY DEF TypeOK, BudgetInv, StopInv
<1>5. QED
  BY <1>1, <1>2, <1>3, <1>4

LEMMA PauseOverKeeps == IInv /\ PauseOver => IInv'
<1> SUFFICES ASSUME IInv, PauseOver PROVE IInv'
  OBVIOUS
<1> USE DEF IInv, PauseOver, At, Running, LoopHead, TaskEnds, Announce
<1>1. TypeOK'
  BY DEF TypeOK, States, BudgetInv
<1>2. StopInv' /\ LoopSurvives'
  BY DEF TypeOK, StopInv, LoopSurvives, GivenUp
<1>3. ToldInv' /\ GivenUp' /\ ListenersKnow'
  BY DEF TypeOK, ToldInv, StopInv, GivenUp, ListenersKnow, States
<1>4. BudgetInv'
  BY DEF TypeOK, BudgetInv, StopInv
<1>5. QED
  BY <1>1, <1>2, <1>3, <1>4

LEMMA WaitOverKeeps == IInv /\ WaitOver => IInv'
<1> SUFFICES ASSUME IInv, WaitOver PROVE IInv'
  OBVIOUS
<1> USE DEF IInv, WaitOver, At, Running, LoopHead, TaskEnds, Announce
<1>1. TypeOK'
  BY DEF TypeOK, States, BudgetInv
<1>2. StopInv' /\ LoopSurvives'
  BY DEF TypeOK, StopInv, LoopSurvives, GivenUp
<1>3. ToldInv' /\ GivenUp' /\ ListenersKnow'
  BY DEF TypeOK, ToldInv, StopInv, GivenUp, ListenersKnow, States
<1>4. BudgetInv'
  BY DEF TypeOK, BudgetInv, StopInv
<1>5. QED
  BY <1>1, <1>2, <1>3, <1>4

LEMMA FatalHandledKeeps == IInv /\ FatalHandled => IInv'
<1> SUFFICES ASSUME IInv, FatalHandled PROVE IInv'
  OBVIOUS
<1> USE DEF IInv, FatalHandled, At, Running, TaskEnds
<1>1. TypeOK'
  BY DEF TypeOK, States, BudgetInv
<1>2. StopInv' /\ LoopSurvives'
  BY DEF TypeOK, StopInv, LoopSurvives, GivenUp
<1>3. ToldInv' /\ GivenUp' /\ ListenersKnow'
  BY DEF TypeOK, ToldInv, StopInv, GivenUp, ListenersKnow, States
<1>4. BudgetInv'
  BY DEF TypeOK, BudgetInv, StopInv
<1>5. QED
  BY <1>1, <1>2, <1>3, <1>4

LEMMA CancelledKeeps == IInv /\ Cancelled => IInv'
<1> SUFFICES ASSUME IInv, Cancelled PROVE IInv'
  OBVIOUS
<1> USE DEF IInv, Cancelled, TaskEnds, InTry, FinallyDown, Announce
<1>1. TypeOK'
  <2>1. cycles' \in 0 .. MaxCycles
    BY DEF TypeOK, BudgetInv
  <2>2. refused' \in 0 .. MaxRejected
    BY DEF TypeOK
  <2>3. avail' \in States /\ told' \in States
    BY DEF TypeOK, States
  <2>4. pc' \in {"off", "starting", "dialing", "greeting", "open", "refreshing",
                 "pausing", "waiting", "handing"} /\ closing' \in {"no", "joining", "waking"}
    BY DEF TypeOK
  <2>5. stop' \in BOOLEAN /\ dead' \in BOOLEAN /\ cancelled' \in BOOLEAN /\ wanted' \in BOOLEAN
    BY DEF TypeOK
  <2>6. QED
    BY ONLY <2>1, <2>2, <2>3, <2>4, <2>5 DEF TypeOK
<1>2. StopInv' /\ LoopSurvives'
  BY DEF TypeOK, StopInv, LoopSurvives, GivenUp
<1>3. ToldInv' /\ GivenUp' /\ ListenersKnow'
  BY DEF TypeOK, ToldInv, StopInv, GivenUp, ListenersKnow, States
<1>4. BudgetInv'
  BY DEF TypeOK, BudgetInv, StopInv
<1>5. QED
  BY <1>1, <1>2, <1>3, <1>4

LEMMA NextIInv == IInv /\ [Next]_vars => IInv'
<1> SUFFICES ASSUME IInv, [Next]_vars PROVE IInv'
  OBVIOUS
<1>1. CASE UNCHANGED vars
  BY <1>1 DEF vars, IInv, TypeOK, StopInv, ToldInv, BudgetInv, GivenUp, LoopSurvives, ListenersKnow
<1>2. CASE Progress
  BY <1>2, ContextLoadedKeeps, GreetedKeeps, PauseOverKeeps, WaitOverKeeps, FatalHandledKeeps, RefreshedKeeps, RefreshFailsKeeps, ConnectedKeeps, DialRefusedKeeps, ConnectionFailsKeeps, CancelledKeeps, DisconnectReturnsKeeps DEF Progress
<1>3. CASE ConnectionFails \/ Receive \/ BindExpired \/ AccountInUse \/ Connect \/ Disconnect
  BY <1>3, ConnectionFailsKeeps, ReceiveKeeps, BindExpiredKeeps, AccountInUseKeeps, ConnectKeeps, DisconnectKeeps
<1>4. QED
  BY <1>1, <1>2, <1>3 DEF Next

LEMMA Invariance == Spec => []IInv
BY InitIInv, NextIInv, PTL DEF Spec

\* The transport's variables keep their types.
THEOREM TypeCorrect == Spec => []TypeOK
BY Invariance, PTL DEF IInv

\* However dials, refreshes, losses and disconnect() interleave, the broker
\* refuses one task at most once more than the budget, messages apart.
THEOREM RefusalsAreBounded == Spec => []RefusalsBounded
<1>1. IInv => RefusalsBounded
  BY DEF IInv, TypeOK, BudgetInv, RefusalsBounded
<1>2. QED
  BY <1>1, Invariance, PTL

\* A transport that has given up stays down whatever connect() and
\* disconnect() do.
THEOREM GivenUpForGood == Spec => []GivenUp
BY Invariance, PTL DEF IInv

\* A wanted transport never loses its loop but to rejected credentials.
THEOREM LoopIsAlive == Spec => []LoopSurvives
BY Invariance, PTL DEF IInv

\* The listeners know the transport's availability.
THEOREM ListenersAgree == Spec => []ListenersKnow
BY Invariance, PTL DEF IInv

-----------------------------------------------------------------------------
(* The transport keeps the contract of CloudTransport.                     *)

\* The steps of the task that tell the listeners something, or nothing.
LEMMA TaskTells ==
    IInv /\ (Connected \/ ConnectionFails \/ ContextLoaded \/ PauseOver \/ WaitOver)
        => [Contract!Next]_Contract!vars
<1> USE DEF Contract!Next, Contract!vars, Contract!Tell, Contract!States, At, Running, Announce
<1>1. ASSUME IInv, Connected PROVE Contract!Tell("connected")
  BY <1>1 DEF Connected, IInv, ToldInv
<1>2. ASSUME IInv, ConnectionFails PROVE Contract!Tell("disconnected")
  BY <1>2 DEF ConnectionFails, FinallyDown, CatchAll
<1>3. ASSUME IInv, ContextLoaded \/ PauseOver \/ WaitOver PROVE Contract!Tell("connecting")
  <2>1. ~ stop
    BY <1>3 DEF IInv, StopInv, ContextLoaded, PauseOver, WaitOver
  <2>2. QED
    BY <1>3, <2>1 DEF ContextLoaded, PauseOver, WaitOver, LoopHead
<1>4. QED
  BY <1>1, <1>2, <1>3

\* Giving up tells DISCONNECTED and leaves the task in its callback.
LEMMA TaskGivesUp ==
    IInv /\ (DialRefused \/ BindExpired \/ AccountInUse \/ RefreshFails)
        => [Contract!Next]_Contract!vars
<1> SUFFICES ASSUME IInv, DialRefused \/ BindExpired \/ AccountInUse \/ RefreshFails
             PROVE  [Contract!Next]_Contract!vars
  OBVIOUS
<1> USE DEF At, Running, Announce
<1>1. pc # "off" /\ pc' # "off" /\ closing' = closing
  BY DEF DialRefused, BindExpired, AccountInUse, RefreshFails, OnRejection, GiveUp
<1>2. UNCHANGED <<told, dead>> \/ (dead' = TRUE /\ told' = "disconnected")
  BY DEF DialRefused, BindExpired, AccountInUse, RefreshFails, OnRejection, GiveUp
<1>3. QED
  BY <1>1, <1>2 DEF Contract!Next, Contract!vars, Contract!GiveUp

\* The task ends for the listeners when nobody joins it, else disconnect()
\* ends it for them.
LEMMA TaskIsOver ==
    IInv /\ (FatalHandled \/ Cancelled \/ DisconnectReturns)
        => [Contract!Next]_Contract!vars
<1> USE DEF Contract!Next, Contract!vars, Contract!End, Contract!Tell, Contract!States
<1>1. ASSUME IInv, FatalHandled PROVE [Contract!Next]_Contract!vars
  BY <1>1 DEF FatalHandled, At, Running, TaskEnds, IInv, TypeOK, ToldInv
<1>2. ASSUME IInv, Cancelled PROVE Contract!Tell("disconnected") \/ UNCHANGED Contract!vars
  <2>1. pc # "off" /\ closing = "joining" /\ closing' = "waking"
    BY <1>2 DEF Cancelled, TaskEnds, IInv, StopInv
  <2>2. QED
    BY <1>2, <2>1 DEF Cancelled, InTry, FinallyDown, Announce
<1>3. ASSUME IInv, DisconnectReturns PROVE [Contract!Next]_Contract!vars
  BY <1>3 DEF DisconnectReturns, IInv, ToldInv
<1>4. QED
  BY <1>1, <1>2, <1>3

LEMMA StepKeepsContract == IInv /\ [Next]_vars => [Contract!Next]_Contract!vars
<1> SUFFICES ASSUME IInv, [Next]_vars PROVE [Contract!Next]_Contract!vars
  OBVIOUS
<1>1. CASE Connect
  BY <1>1 DEF Connect, MayStart, Contract!Next, Contract!Start, Contract!vars
<1>2. CASE Disconnect \/ Greeted \/ Receive \/ Refreshed \/ UNCHANGED vars
  BY <1>2 DEF Disconnect, Greeted, Receive, Refreshed, At, vars, Contract!vars
<1>3. QED
  BY <1>1, <1>2, TaskTells, TaskGivesUp, TaskIsOver DEF Next, Progress

\* AliyunMQTTTransport keeps what a cloud transport promises to the handle: no
\* loop ends without DISCONNECTED, and none begins after a permanent failure.
THEOREM KeepsContract == Spec => ContractSpec
<1>1. Init => Contract!Init
  BY DEF Init, Contract!Init
<1>2. QED
  BY <1>1, StepKeepsContract, Invariance, PTL DEF Spec, ContractSpec, Contract!Spec

\* A loop that has ended, in whatever way, leaves no listener with CONNECTING,
\* which would hold the commands of its mowers.
THEOREM NobodyHeld == Spec => []Contract!NothingHeld
<1>1. IInv => Contract!NothingHeld
  BY DEF IInv, TypeOK, ToldInv, Contract!NothingHeld
<1>2. QED
  BY <1>1, Invariance, PTL
=============================================================================
