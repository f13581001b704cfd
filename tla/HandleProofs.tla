---------------------------- MODULE HandleProofs ----------------------------
(***************************************************************************)
(* Proofs about the two parts of a device handle: what it keeps running    *)
(* (ReportStream) and the way of a command out of it (SendPath).           *)
(*                                                                         *)
(* ReportStream, for a queue of any length: the worker never leaves its    *)
(* retries, and a stopped handle is quiet.  SendPath, for any quota,       *)
(* window, ban and number of mowers: the quota is overshot by the sends    *)
(* under way and no more, the back-off is exact, and a mower that is       *)
(* called offline hears at most one more payload.                          *)
(***************************************************************************)
EXTENDS ReportStream, SendPath, FiniteSetTheorems, SequenceTheorems, TLAPS

-----------------------------------------------------------------------------
(* What the handle keeps running.                                          *)

USE ReportAssumption

\* TypeOK, by parts.
FlagsOK ==
    /\ active \in BOOLEAN /\ stream \in BOOLEAN /\ was \in BOOLEAN /\ timer \in BOOLEAN
    /\ hello \in BOOLEAN
PlacesOK ==
    /\ link \in {"down", "up", "lost"}
    /\ quiet \in {"no", "reports", "frames"}
    /\ poll \in {"none", "alive", "cancelled", "done"}
    /\ phase \in {"running", "stopping", "stopped"}
QueueOK == queue \in Seq(Commands) /\ Len(queue) <= QueueCap
\* Only the first attempt is followed by a nudge.
Workers == {w \in [at: {"idle", "sending", "waiting", "nudging", "saga", "off"},
                   cmd: Commands \cup {"none"}, try: 0 .. 2, heard: BOOLEAN] :
               w.at = "nudging" => w.try = 1}
WorkerOK == worker \in Workers

\* What is left of a stopped handle: nothing that acts.
StoppedInv ==
    /\ phase # "running" => ~ timer
    /\ phase = "stopped" => worker.at = "off" /\ link = "down" /\ ~ hello
    /\ StoppedIsQuiet

IInv == FlagsOK /\ PlacesOK /\ QueueOK /\ WorkerOK /\ StoppedInv

-----------------------------------------------------------------------------
(* The queue.                                                              *)

LEMMA PutType ==
    ASSUME NEW q \in Seq(Commands), NEW cmd \in Commands
    PROVE  Put(q, cmd) \in Seq(Commands) /\ Len(Put(q, cmd)) <= Len(q) + 1
BY DEF Put

LEMMA PostKeeps == ASSUME QueueOK, NEW cmd \in Commands, Post(cmd) PROVE QueueOK'
<1>1. Put(queue, cmd) \in Seq(Commands) /\ Len(Put(queue, cmd)) <= Len(queue) + 1
  BY PutType DEF QueueOK
<1>2. queue \in Seq(Commands) /\ Len(queue) \in Nat /\ Len(Put(queue, cmd)) \in Nat
  BY <1>1 DEF QueueOK
<1>3. QED
  BY <1>1, <1>2 DEF QueueOK, Post

LEMMA PostBothKeeps ==
    ASSUME QueueOK, NEW first \in Commands, NEW other \in Commands, PostBoth(first, other)
    PROVE  QueueOK'
<1> DEFINE one == Put(queue, first)  two == Put(one, other)
<1>1. one \in Seq(Commands) /\ Len(one) <= Len(queue) + 1
  BY PutType DEF QueueOK
<1>2. two \in Seq(Commands) /\ Len(two) <= Len(one) + 1
  BY <1>1, PutType
<1>3. Len(queue) \in Nat /\ Len(one) \in Nat /\ Len(two) \in Nat
  BY <1>1, <1>2 DEF QueueOK
<1>4. queue' = two /\ Len(queue) + 1 < QueueCap
  BY DEF PostBoth
<1>5. QED
  BY <1>1, <1>2, <1>3, <1>4 DEF QueueOK

-----------------------------------------------------------------------------
(* The steps.                                                              *)

LEMMA InitIInv == Init => IInv
<1> SUFFICES ASSUME Init PROVE IInv
  OBVIOUS
<1>1. FlagsOK /\ PlacesOK /\ StoppedInv
  BY DEF Init, FlagsOK, PlacesOK, StoppedInv, StoppedIsQuiet
<1>2. QueueOK
  BY DEF Init, QueueOK
<1>3. WorkerOK
  BY DEF Init, WorkerOK, Workers, Idle
<1>4. QED
  BY <1>1, <1>2, <1>3 DEF IInv

LEMMA DeviceKeeps == IInv /\ Device => IInv'
<1> SUFFICES ASSUME IInv, Device PROVE IInv'
  OBVIOUS
<1> USE DEF Device, LinkUp, LinkLost, LinkDown, Report, Frame, Silence, loops, work, IInv
<1>1. FlagsOK' /\ PlacesOK'
  <2>1. FlagsOK'
    BY Zenon DEF FlagsOK
  <2>2. PlacesOK'
    BY DEF PlacesOK
  <2>3. QED
    BY <2>1, <2>2
<1>2. QueueOK'
  BY DEF QueueOK
<1>3. WorkerOK'
  BY DEF WorkerOK, Workers
<1>4. StoppedInv'
  <2>1. phase' = phase /\ timer' = timer
    OBVIOUS
  <2>2. QED
    BY <2>1 DEF StoppedInv, StoppedIsQuiet
<1>5. QED
  BY <1>1, <1>2, <1>3, <1>4

LEMMA EmptyType == <<>> \in Seq(Commands) /\ Len(<<>>) = 0 /\ Len(<<>>) <= QueueCap
OBVIOUS

LEMMA WorkerTypes ==
    /\ Idle \in Workers
    /\ \A place \in {"saga", "off"} : [Idle EXCEPT !.at = place] \in Workers
    /\ \A cmd \in Commands \cup {"none"}, try \in 0 .. 2 : Busy(cmd, try) \in Workers
    /\ \A w \in Workers : [w EXCEPT !.at = "waiting", !.heard = w.heard] \in Workers
    /\ \A w \in Workers : w.try = 1 => [w EXCEPT !.at = "nudging"] \in Workers
<1>1. Idle \in Workers
  BY DEF Workers, Idle
<1>2. \A w \in Workers, place \in {"saga", "off"} : [w EXCEPT !.at = place] \in Workers
  BY DEF Workers
<1>3. ASSUME NEW cmd \in Commands \cup {"none"}, NEW try \in 0 .. 2 PROVE Busy(cmd, try) \in Workers
  BY DEF Workers, Busy
<1>4. ASSUME NEW w \in Workers PROVE [w EXCEPT !.at = "waiting", !.heard = w.heard] \in Workers
  BY DEF Workers
<1>5. \A w \in Workers : w.try = 1 => [w EXCEPT !.at = "nudging"] \in Workers
  BY DEF Workers
<1>6. QED
  BY <1>1, <1>2, <1>3, <1>4, <1>5

LEMMA WorkerKeeps == IInv /\ Worker => IInv'
<1> SUFFICES ASSUME IInv, Worker PROVE IInv'
  OBVIOUS
<1>1. FlagsOK'
  <2>1. CASE Confirm
    <3>1. (stream \/ worker.cmd = "bleStart") \in BOOLEAN
      OBVIOUS
    <3>2. QED
      BY <2>1, <3>1, Zenon DEF Confirm, IInv, FlagsOK, world
  <2>2. CASE Take \/ Sent \/ SendFails \/ TimeOut \/ Nudged \/ SagaStarts \/ SagaEnds
    BY <2>2, Zenon DEF Take, Sent, SendFails, TimeOut, Nudged, SagaStarts, SagaEnds, IInv, FlagsOK,
                       world, loops
  <2>3. QED
    BY <2>1, <2>2 DEF Worker
<1>2. PlacesOK'
  BY Zenon DEF Worker, Take, Sent, SendFails, Confirm, TimeOut, Nudged, SagaStarts, SagaEnds, IInv,
               PlacesOK, world, loops
<1>3. QueueOK'
  <2>1. CASE Take
    <3>1. Tail(queue) \in Seq(Commands) /\ Len(Tail(queue)) = Len(queue) - 1
      BY <2>1 DEF Take, IInv, QueueOK
    <3>2. QED
      BY <2>1, <3>1 DEF Take, IInv, QueueOK
  <2>2. CASE SagaEnds
    <3>1. queue' = queue \/ queue' = <<>>
      BY <2>2 DEF SagaEnds
    <3>2. QED
      BY <3>1, EmptyType DEF IInv, QueueOK
  <2>3. CASE Sent \/ SendFails \/ Confirm \/ TimeOut \/ Nudged \/ SagaStarts
    BY <2>3, Zenon DEF Sent, SendFails, Confirm, TimeOut, Nudged, SagaStarts, IInv, QueueOK
  <2>4. QED
    BY <2>1, <2>2, <2>3 DEF Worker
<1>4. WorkerOK'
  <2>1. CASE Take
    <3>1. Head(queue) \in Commands
      BY <2>1 DEF Take, IInv, QueueOK
    <3>2. worker' = Idle \/ worker' = Busy(Head(queue), 1)
      BY <2>1 DEF Take
    <3>3. Busy(Head(queue), 1) \in Workers
      <4>1. 1 \in 0 .. 2
        OBVIOUS
      <4>2. QED
        BY ONLY <3>1, <4>1, WorkerTypes
    <3>4. QED
      BY <3>2, <3>3, WorkerTypes DEF WorkerOK
  <2>2. CASE Sent
    <3>1. worker' = Idle \/ worker' = [worker EXCEPT !.at = "waiting", !.heard = worker.heard]
      BY <2>2 DEF Sent, SentWrite, Await
    <3>2. worker \in Workers
      BY DEF IInv, WorkerOK
    <3>3. QED
      BY <3>1, <3>2, WorkerTypes DEF WorkerOK
  <2>3. CASE TimeOut
    <3>1. worker' = Idle \/ (worker.try = 1 /\ worker' = [worker EXCEPT !.at = "nudging"])
      BY <2>3 DEF TimeOut, Retry, Nudge
    <3>2. worker \in Workers
      BY DEF IInv, WorkerOK
    <3>3. QED
      BY <3>1, <3>2, WorkerTypes DEF WorkerOK
  <2>4. CASE Nudged
    <3>1. worker.cmd \in Commands \cup {"none"} /\ worker.try + 1 \in 0 .. 2
      BY <2>4 DEF Nudged, IInv, WorkerOK, Workers
    <3>2. worker' = Busy(worker.cmd, worker.try + 1)
      BY <2>4 DEF Nudged
    <3>3. Busy(worker.cmd, worker.try + 1) \in Workers
      BY ONLY <3>1, WorkerTypes
    <3>4. QED
      BY <3>2, <3>3 DEF WorkerOK
  <2>5. CASE SendFails \/ Confirm \/ SagaStarts \/ SagaEnds
    BY <2>5, WorkerTypes DEF SendFails, Confirm, SagaStarts, SagaEnds, WorkerOK
  <2>6. QED
    BY <2>1, <2>2, <2>3, <2>4, <2>5 DEF Worker
<1>5. StoppedInv'
  <2>1. phase' = phase /\ timer' = timer /\ worker.at # "off"
    BY DEF Worker, Take, Sent, SendFails, Confirm, TimeOut, Nudged, SagaStarts, SagaEnds, loops
  <2>2. phase # "stopped"
    BY <2>1 DEF IInv, StoppedInv
  <2>3. QED
    BY <2>1, <2>2 DEF IInv, StoppedInv, StoppedIsQuiet
<1>6. QED
  BY <1>1, <1>2, <1>3, <1>4, <1>5 DEF IInv

LEMMA LoopsKeeps == IInv /\ Loops => IInv'
<1> SUFFICES ASSUME IInv, Loops PROVE IInv'
  OBVIOUS
<1> USE DEF Loops, Connected, PollTick, TickStreaming, TickPolling, PollEnds, MqttPolls, world,
            loops, work
<1>1. FlagsOK' /\ PlacesOK'
  <2>1. FlagsOK'
    BY Zenon DEF IInv, FlagsOK
  <2>2. PlacesOK'
    BY DEF IInv, PlacesOK, StartPolling
  <2>3. QED
    BY <2>1, <2>2
<1>2. QueueOK'
  <2>1. \/ UNCHANGED queue
        \/ \E cmd \in Commands : Post(cmd)
        \/ \E first, other \in Commands : PostBoth(first, other)
    BY DEF Commands
  <2>2. QED
    BY <2>1, PostKeeps, PostBothKeeps DEF IInv, QueueOK
<1>3. WorkerOK'
  BY DEF IInv, WorkerOK
<1>4. StoppedInv'
  BY DEF IInv, StoppedInv, StoppedIsQuiet
<1>5. QED
  BY <1>1, <1>2, <1>3, <1>4 DEF IInv

LEMMA CallerKeeps == IInv /\ Caller => IInv'
<1> SUFFICES ASSUME IInv, Caller PROVE IInv'
  OBVIOUS
<1> USE DEF Caller, Snapshot, StartStream, TimerFires, RequestReports, Stop, StopEnds,
            ForgetStream, world, loops, work
<1>1. FlagsOK' /\ PlacesOK'
  <2>1. FlagsOK'
    BY Zenon DEF IInv, FlagsOK
  <2>2. PlacesOK'
    BY DEF IInv, PlacesOK
  <2>3. QED
    BY <2>1, <2>2
<1>2. QueueOK'
  <2>1. UNCHANGED queue \/ queue' = <<>> \/ \E cmd \in Commands : Post(cmd)
    BY DEF Commands
  <2>2. QED
    BY ONLY IInv, <2>1, EmptyType, PostKeeps DEF IInv, QueueOK
<1>3. WorkerOK'
  <2>1. worker' = worker \/ worker' = [Idle EXCEPT !.at = "off"]
    OBVIOUS
  <2>2. QED
    BY ONLY IInv, <2>1, WorkerTypes DEF IInv, WorkerOK
<1>4. StoppedInv'
  <2>1. CASE StopEnds
    <3>1. worker'.at = "off" /\ link' = "down" /\ ~ hello' /\ ~ timer'
      <4>1. phase = "stopping" /\ hello' = FALSE /\ timer' = timer
        BY <2>1
      <4>2. ~ timer
        BY <4>1 DEF IInv, StoppedInv
      <4>3. worker'.at = "off" /\ link' = "down"
        BY <2>1 DEF Idle
      <4>4. QED
        BY <4>1, <4>2, <4>3
    <3>2. ~ stream' /\ poll' \in {"none", "done"}
      BY <2>1
    <3>3. QED
      BY ONLY <3>1, <3>2 DEF StoppedInv, StoppedIsQuiet
  <2>2. CASE Snapshot \/ StartStream \/ TimerFires \/ RequestReports \/ Stop
    <3>1. phase' # "stopped"
      <4>1. phase = "stopped" => ~ timer
        BY DEF IInv, StoppedInv
      <4>2. QED
        BY <2>2, <4>1
    <3>2. phase' # "running" => ~ timer'
      BY <2>2 DEF IInv, StoppedInv
    <3>3. QED
      BY ONLY <3>1, <3>2 DEF StoppedInv, StoppedIsQuiet
  <2>3. QED
    BY <2>1, <2>2
<1>5. QED
  BY <1>1, <1>2, <1>3, <1>4 DEF IInv

LEMMA NextIInv == IInv /\ [Next]_vars => IInv'
<1> SUFFICES ASSUME IInv, [Next]_vars PROVE IInv'
  OBVIOUS
<1>1. CASE UNCHANGED vars
  BY <1>1 DEF vars, IInv, FlagsOK, PlacesOK, QueueOK, WorkerOK, StoppedInv, StoppedIsQuiet
<1>2. QED
  BY <1>1, DeviceKeeps, WorkerKeeps, LoopsKeeps, CallerKeeps DEF Next

LEMMA Invariance == Spec => []IInv
BY InitIInv, NextIInv, PTL DEF Spec

-----------------------------------------------------------------------------
(* The results.                                                            *)

\* A command is sent twice at most, and every variable keeps its type.
THEOREM TypeCorrect == Spec => []TypeOK
<1>1. IInv => TypeOK
  BY DEF IInv, FlagsOK, PlacesOK, QueueOK, WorkerOK, Workers, TypeOK
<1>2. QED
  BY <1>1, Invariance, PTL

\* However the link, the loops and the worker stood when stop() was called.
THEOREM StoppedForGood == Spec => []StoppedIsQuiet
<1>1. IInv => StoppedIsQuiet
  BY DEF IInv, StoppedInv, StoppedIsQuiet
<1>2. QED
  BY <1>1, Invariance, PTL

-----------------------------------------------------------------------------
(* The way of a command out of the queue.                                  *)

HIDE ReportAssumption
USE SendAssumption DEF SendAssumption

SendTypes ==
    /\ running \in BOOLEAN /\ told \in Cloud!States /\ dead \in BOOLEAN
    /\ log \in Seq(0 .. Window) /\ ban \in 0 .. BanTime /\ flight \in 0 .. Others
    /\ aliyun \in BOOLEAN /\ exempt \in BOOLEAN /\ attached \in BOOLEAN /\ offline \in BOOLEAN
    /\ open \in BOOLEAN /\ linked \in BOOLEAN /\ near \in BOOLEAN /\ second \in BOOLEAN
    /\ pc \in {"idle", "held", "choose", "write", "sync", "answer"}
    /\ via \in {"cloud", "ble"} /\ since \in 0 .. SyncInterval + 1
    /\ strays \in 0 .. 1

\* The gate is closed for a transport that is dialling, and a loop is behind it.
Gate ==
    /\ ~ open => told = "connecting"
    /\ pc = "held" => ~ open
    /\ ~ running => told = "disconnected"

\* The oldest first.
Sorted == \A i, j \in 1 .. Len(log) : i <= j => log[i] >= log[j]

\* What the quota is charged, now or when an answer comes.
Charged == Len(log) + flight + (IF pc = "answer" THEN 1 ELSE 0)
Quota   == ~ (exempt /\ ~ aliyun) => Charged <= SendLimit + Others

\* A stray comes after a sync, and a sync begins while the mower is not offline.
Quiet == ~ offline \/ pc = "sync" => strays = 0

SendInv == SendTypes /\ Gate /\ Sorted /\ Quota /\ Quiet
-----------------------------------------------------------------------------

LEMMA SendInitInv == SendInit => SendInv
  <1> SUFFICES ASSUME SendInit PROVE SendInv
    OBVIOUS
  <1>1. log \in Seq(0 .. Window) /\ Len(log) = 0
    BY DEF SendInit
  <1>2. SendTypes
    <2>1. ban \in 0 .. BanTime /\ flight \in 0 .. Others /\ since \in 0 .. SyncInterval + 1
          /\ strays \in 0 .. 1
      BY DEF SendInit
    <2> QED
      BY <1>1, <2>1 DEF SendInit, SendTypes, Cloud!Init, Cloud!States
  <1>3. Sorted
    BY <1>1 DEF Sorted
  <1>4. Quota
    BY <1>1 DEF SendInit, Quota, Charged
  <1>5. Gate /\ Quiet
    BY DEF SendInit, Gate, Quiet, Cloud!Init
  <1> QED
    BY <1>2, <1>3, <1>4, <1>5 DEF SendInv

\* What a tick does to the log: some of the oldest leave, the others age.
LEMMA TickLog ==
  ASSUME SendTypes, Sorted, Tick
  PROVE  /\ log' \in Seq(0 .. Window)
         /\ Len(log') <= Len(log)
         /\ Sorted'
  <1>1. PICK gone \in 0 .. Len(log) :
             /\ \A i \in 1 .. gone : log[i] >= Window
             /\ gone < Len(log) => log[gone + 1] < Window
             /\ log' = [i \in 1 .. Len(log) - gone |-> log[gone + i] + 1]
    BY DEF Tick
  <1>2. Len(log) \in Nat /\ \A i \in 1 .. Len(log) : log[i] \in 0 .. Window
    BY DEF SendTypes
  <1> DEFINE n == Len(log) - gone
  <1>3. n \in Nat /\ n <= Len(log)
    BY <1>2
  <1>4. \A i \in 1 .. n : gone + i \in 1 .. Len(log) /\ log[gone + i] \in 0 .. Window
    BY <1>2
  <1>5. \A i \in 1 .. n : log[gone + i] < Window
    <2> SUFFICES ASSUME NEW i \in 1 .. n PROVE log[gone + i] < Window
      OBVIOUS
    <2>1. gone < Len(log) /\ gone + 1 \in 1 .. Len(log) /\ gone + 1 <= gone + i
      BY <1>2
    <2>2. log[gone + 1] >= log[gone + i]
      BY <2>1, <1>4 DEF Sorted
    <2> QED
      BY <1>1, <1>2, <1>4, <2>1, <2>2
  <1> DEFINE aged == [i \in 1 .. n |-> log[gone + i] + 1]
  <1>6. \A i \in 1 .. n : aged[i] = log[gone + i] + 1 /\ aged[i] \in 0 .. Window
    <2> SUFFICES ASSUME NEW i \in 1 .. n
                 PROVE  aged[i] = log[gone + i] + 1 /\ aged[i] \in 0 .. Window
      OBVIOUS
    <2>1. aged[i] = log[gone + i] + 1
      OBVIOUS
    <2>2. log[gone + i] \in 0 .. Window /\ log[gone + i] < Window
      BY <1>4, <1>5
    <2> HIDE DEF aged, n
    <2> QED
      BY <2>1, <2>2
  <1>7. log' = aged /\ DOMAIN aged = 1 .. n /\ aged = [i \in 1 .. n |-> aged[i]]
    BY <1>1
  <1> HIDE DEF aged, n
  <1>8. aged \in Seq(0 .. Window) /\ Len(aged) = n
    <2>1. aged \in [1 .. n -> 0 .. Window]
      BY <1>6, <1>7
    <2>2. aged \in Seq(0 .. Window)
      BY <1>3, <2>1, SeqDef
    <2> QED
      BY <1>3, <1>7, <2>2, LenProperties
  <1>9. \A i, j \in 1 .. n : i <= j => aged[i] >= aged[j]
    <2> SUFFICES ASSUME NEW i \in 1 .. n, NEW j \in 1 .. n, i <= j PROVE aged[i] >= aged[j]
      OBVIOUS
    <2>1. log[gone + i] >= log[gone + j]
      <3>1. gone + i <= gone + j /\ gone + i \in 1 .. Len(log) /\ gone + j \in 1 .. Len(log)
        BY <1>3, <1>4
      <3> QED
        BY <3>1 DEF Sorted
    <2>2. log[gone + i] \in Int /\ log[gone + j] \in Int
      BY <1>4
    <2> QED
      BY <2>1, <2>2, <1>6
  <1> QED
    BY <1>3, <1>7, <1>8, <1>9 DEF Sorted

\* An answered send is the youngest.
LEMMA RecordLog ==
  ASSUME SendTypes, Sorted, Record
  PROVE  /\ log' \in Seq(0 .. Window)
         /\ Len(log') = Len(log) + 1
         /\ Sorted'
  <1>1. log' = Append(log, 0) /\ log \in Seq(0 .. Window) /\ 0 \in 0 .. Window
    BY DEF Record, SendTypes
  <1>2. /\ log' \in Seq(0 .. Window)
        /\ Len(log') = Len(log) + 1
        /\ \A i \in 1 .. Len(log) : log'[i] = log[i] /\ log[i] \in 0 .. Window
        /\ log'[Len(log) + 1] = 0
    BY <1>1, AppendProperties
  <1>3. \A i, j \in 1 .. Len(log) + 1 : i <= j => log'[i] >= log'[j]
    BY <1>1, <1>2 DEF Sorted
  <1> QED
    BY <1>2, <1>3 DEF Sorted

-----------------------------------------------------------------------------

LEMMA TickKeeps == SendInv /\ Tick => SendInv'
  <1> SUFFICES ASSUME SendInv, Tick PROVE SendInv'
    OBVIOUS
  <1> USE DEF SendInv, Tick, cloud, fixed, handle, ble
  <1>1. log' \in Seq(0 .. Window) /\ Len(log') <= Len(log) /\ Sorted'
    BY TickLog
  <1>2. SendTypes'
    BY <1>1 DEF SendTypes
  <1>3. Gate' /\ Quiet'
    BY DEF Gate, Quiet
  <1>4. Quota'
    BY <1>1, <1>2 DEF Quota, Charged, SendTypes
  <1> QED
    BY <1>1, <1>2, <1>3, <1>4

LEMMA OthersKeep == SendInv /\ (OtherBegins \/ OtherEnds) => SendInv'
  <1> SUFFICES ASSUME SendInv, OtherBegins \/ OtherEnds PROVE SendInv'
    OBVIOUS
  <1> USE DEF SendInv, cloud, fixed, handle, ble, sender
  <1>1. CASE OtherBegins
    <2> USE <1>1 DEF OtherBegins
    <2>1. SendTypes' /\ Gate' /\ Sorted' /\ Quiet'
      BY DEF SendTypes, Gate, Sorted, Quiet
    <2>2. Quota'
      BY DEF Quota, Charged, Limited, Full, SendTypes
    <2> QED
      BY <2>1, <2>2
  <1>2. CASE OtherEnds
    <2> USE <1>2 DEF OtherEnds
    <2>1. log' \in Seq(0 .. Window) /\ Len(log') <= Len(log) + 1 /\ Sorted'
      BY RecordLog DEF SendTypes, Sorted
    <2>2. SendTypes'
      BY <2>1 DEF SendTypes
    <2>3. Gate' /\ Quiet'
      BY DEF Gate, Quiet
    <2>4. Quota'
      BY <2>1, <2>2 DEF Quota, Charged, SendTypes
    <2> QED
      BY <2>1, <2>2, <2>3, <2>4
  <1> QED
    BY <1>1, <1>2

\* Whatever the listener is told, the gate follows.
LEMMA HeardKeeps ==
  ASSUME SendTypes, Gate, NEW state \in Cloud!States, Heard(state), told' = state,
         UNCHANGED linked
  PROVE  /\ open' \in BOOLEAN
         /\ pc' \in {"idle", "held", "choose", "write", "sync", "answer"}
         /\ ~ open' => told' = "connecting"
         /\ pc' = "held" => ~ open'
         /\ pc' = "answer" <=> pc = "answer"
         /\ pc' = "sync" <=> pc = "sync"
  BY DEF SendTypes, Gate, Heard, Resume, Held, Cloud!States

LEMMA CloudKeeps == SendInv /\ (CloudTells \/ CloudStarts \/ CloudStops) => SendInv'
  <1> SUFFICES ASSUME SendInv, CloudTells \/ CloudStarts \/ CloudStops PROVE SendInv'
    OBVIOUS
  <1> USE DEF SendInv, fixed, quota, ble, handle, sender
  <1>1. CASE CloudStarts
    BY <1>1 DEF CloudStarts, Cloud!Start, SendTypes, Gate, Sorted, Quota, Charged, Quiet
  <1>2. CASE CloudTells \/ CloudStops
    <2>1. /\ running' \in BOOLEAN /\ dead' \in BOOLEAN /\ told' \in Cloud!States
          /\ ~ running' => told' = "disconnected"
      BY <1>2 DEF CloudTells, CloudStops, Cloud!Tell, Cloud!End, Cloud!GiveUp, SendTypes, Gate,
                  Cloud!States
    <2>2. \/ Heard(told')
          \/ UNCHANGED <<told, open, pc>>
      BY <1>2 DEF CloudTells, CloudStops, Cloud!Tell
    <2>3. UNCHANGED <<fixed, quota, attached, offline, ble, via, second, since, strays>>
      BY <1>2 DEF CloudTells, CloudStops
    <2>4. /\ open' \in BOOLEAN
          /\ pc' \in {"idle", "held", "choose", "write", "sync", "answer"}
          /\ ~ open' => told' = "connecting"
          /\ pc' = "held" => ~ open'
          /\ pc' = "answer" <=> pc = "answer"
          /\ pc' = "sync" <=> pc = "sync"
      BY <2>1, <2>2, <2>3, HeardKeeps DEF SendTypes, Gate
    <2>5. SendTypes'
      BY <2>1, <2>3, <2>4 DEF SendTypes
    <2>6. Gate'
      BY <2>1, <2>4 DEF Gate
    <2>7. Sorted' /\ Quota' /\ Quiet'
      BY <2>3, <2>4 DEF Sorted, Quota, Charged, Quiet
    <2> QED
      BY <2>5, <2>6, <2>7
  <1> QED
    BY <1>1, <1>2

LEMMA BleChangesKeeps == SendInv /\ BleChanges => SendInv'
  <1> SUFFICES ASSUME SendInv, BleChanges PROVE SendInv'
    OBVIOUS
  <1> USE DEF SendInv, BleChanges, Resume, cloud, fixed, quota
  <1>1. SendTypes'
    <2>1. linked' \in BOOLEAN /\ near' \in BOOLEAN
      BY Zenon DEF SendTypes
    <2>2. open' \in BOOLEAN /\ pc' \in {"idle", "held", "choose", "write", "sync", "answer"}
      BY DEF SendTypes
    <2> QED
      BY <2>1, <2>2 DEF SendTypes
  <1>2. Gate'
    BY DEF Gate, SendTypes
  <1>3. Sorted' /\ Quota' /\ Quiet'
    BY DEF Sorted, Quota, Charged, Quiet, SendTypes
  <1> QED
    BY <1>1, <1>2, <1>3

LEMMA InboundKeeps == SendInv /\ Inbound => SendInv'
  <1> SUFFICES ASSUME SendInv, Inbound PROVE SendInv'
    OBVIOUS
  <1> USE DEF SendInv, Inbound, cloud, fixed, quota, ble
  <1>1. \/ offline' = TRUE /\ strays' = strays
        \/ offline' = FALSE /\ strays' = 0
    BY DEF Flag
  <1>2. strays' \in 0 .. 1 /\ pc' = pc /\ (pc = "sync" => strays' = 0)
    BY <1>1 DEF SendTypes, Quiet
  <1>4. offline' \in BOOLEAN /\ Quiet'
    <2>1. CASE offline' = TRUE
      BY <1>2, <2>1 DEF Quiet
    <2>2. CASE offline' = FALSE /\ strays' = 0
      BY <2>2 DEF Quiet
    <2> QED
      BY <1>1, <2>1, <2>2
  <1>3. SendTypes'
    BY <1>2, <1>4 DEF SendTypes
  <1> QED
    BY <1>3, <1>4 DEF Gate, Sorted, Quota, Charged

LEMMA QueuedKeeps == SendInv /\ Queued => SendInv'
  BY DEF SendInv, Queued, cloud, fixed, quota, handle, ble, SendTypes, Gate, Sorted, Quota,
         Charged, Quiet

-----------------------------------------------------------------------------

\* Past the quota one more is charged, and the charge of the others is at most Others.
LEMMA HandKeeps ==
  ASSUME SendInv, Hand, strays = 0, UNCHANGED <<log, flight, offline, aliyun, exempt>>
  PROVE  /\ pc' \in {"idle", "answer"}
         /\ strays' \in 0 .. 1
         /\ Quota' /\ Quiet'
  <1>1. pc' \in {"idle", "answer"} /\ strays' \in 0 .. 1 /\ Quiet'
    BY DEF Hand, Quiet
  <1>2. CASE Refused
    BY <1>1, <1>2 DEF Hand, Quota, Charged, SendInv, SendTypes
  <1>3. CASE ~ Refused
    BY <1>1, <1>3 DEF Hand, Refused, Limited, Full, Quota, Charged, SendInv, SendTypes
  <1> QED
    BY <1>1, <1>2, <1>3

LEMMA MarkedKeeps ==
  ASSUME SendInv, Marked, ~ offline, UNCHANGED <<log, flight, offline, aliyun, exempt>>
  PROVE  /\ via' = "cloud"
         /\ pc' \in {"idle", "sync", "answer"}
         /\ strays' \in 0 .. 1
         /\ Quota' /\ Quiet'
  <1>1. strays = 0
    BY DEF SendInv, Quiet
  <1>2. CASE Hand
    BY <1>1, <1>2, HandKeeps DEF Marked
  <1>3. CASE pc' \in {"idle", "sync"} /\ UNCHANGED strays
    BY <1>1, <1>3 DEF Marked, Quota, Quiet, Charged, SendInv, SendTypes
  <1> QED
    BY <1>2, <1>3 DEF Marked

LEMMA ChooseKeeps == SendInv /\ Choose => SendInv'
  <1> SUFFICES ASSUME SendInv, Choose PROVE SendInv'
    OBVIOUS
  <1> USE DEF Choose, cloud, fixed, quota, handle, ble
  <1>1. /\ via' \in {"cloud", "ble"}
        /\ pc' \in {"idle", "write", "sync", "answer"}
        /\ strays' \in 0 .. 1
        /\ Quota' /\ Quiet'
    <2>1. CASE Marked /\ Usable
      BY <2>1, MarkedKeeps DEF Usable
    <2>2. CASE via' \in {"cloud", "ble"} /\ pc' \in {"idle", "write"} /\ UNCHANGED strays
      BY <2>2 DEF Quota, Charged, Quiet, SendInv, SendTypes
    <2> QED
      BY <2>1, <2>2 DEF SendInv, SendTypes
  <1>2. SendTypes'
    BY <1>1 DEF SendInv, SendTypes
  <1>3. Gate' /\ Sorted'
    BY <1>1 DEF SendInv, Gate, Sorted
  <1> QED
    BY <1>1, <1>2, <1>3 DEF SendInv

LEMMA WrittenKeeps == SendInv /\ Written => SendInv'
  <1> SUFFICES ASSUME SendInv, Written PROVE SendInv'
    OBVIOUS
  <1> USE DEF Written, cloud, fixed, quota, handle, ble
  <1>1. /\ via' \in {"cloud", "ble"} /\ second' \in BOOLEAN
        /\ pc' \in {"idle", "sync", "answer"}
        /\ strays' \in 0 .. 1
        /\ Quota' /\ Quiet'
    <2>1. CASE Marked /\ Usable /\ second' = TRUE
      BY <2>1, MarkedKeeps DEF Usable
    <2>2. CASE pc' = "idle" /\ UNCHANGED <<via, second, strays>>
      BY <2>2 DEF Quota, Charged, Quiet, SendInv, SendTypes
    <2> QED
      BY <2>1, <2>2
  <1>2. SendTypes'
    BY <1>1 DEF SendInv, SendTypes
  <1>3. Gate' /\ Sorted'
    BY <1>1 DEF SendInv, Gate, Sorted
  <1> QED
    BY <1>1, <1>2, <1>3 DEF SendInv

LEMMA SyncedKeeps == SendInv /\ Synced => SendInv'
  <1> SUFFICES ASSUME SendInv, Synced PROVE SendInv'
    OBVIOUS
  <1> USE DEF Synced, cloud, fixed, quota, handle, ble
  <1>1. pc' \in {"idle", "answer"} /\ strays' \in 0 .. 1 /\ Quota' /\ Quiet'
    BY HandKeeps DEF SendInv, Quiet
  <1>2. SendTypes'
    BY <1>1 DEF SendInv, SendTypes
  <1>3. Gate' /\ Sorted'
    BY <1>1 DEF SendInv, Gate, Sorted
  <1> QED
    BY <1>1, <1>2, <1>3 DEF SendInv

LEMMA AnsweredKeeps == SendInv /\ Answered => SendInv'
  <1> SUFFICES ASSUME SendInv, Answered PROVE SendInv'
    OBVIOUS
  <1> USE DEF SendInv, Answered, cloud, fixed, handle, ble
  <1>1. log' \in Seq(0 .. Window) /\ Len(log') = Len(log) + 1 /\ Sorted'
    BY RecordLog
  <1>2. SendTypes'
    BY <1>1 DEF SendTypes
  <1>3. Gate' /\ Quiet'
    BY DEF Gate, Quiet
  <1>4. Quota'
    BY <1>1 DEF Quota, Charged, SendTypes
  <1> QED
    BY <1>1, <1>2, <1>3, <1>4

LEMMA RejectedKeeps == SendInv /\ Rejected => SendInv'
  <1> SUFFICES ASSUME SendInv, Rejected PROVE SendInv'
    OBVIOUS
  <1> USE DEF SendInv, Rejected, FallBack, cloud, fixed, ble
  <1>1. /\ pc' \in {"idle", "write"} /\ via' \in {"cloud", "ble"} /\ second' \in BOOLEAN
        /\ ban' \in 0 .. BanTime /\ attached' \in BOOLEAN /\ offline' \in BOOLEAN
        /\ ~ offline' => ~ offline
    <2>1. /\ pc' \in {"idle", "write"} /\ via' \in {"cloud", "ble"}
          /\ ban' \in 0 .. BanTime
      BY DEF SendTypes
    <2>2. second' = second \/ second' = TRUE
      OBVIOUS
    <2>3. \/ UNCHANGED <<attached, offline>>
          \/ offline' = (offline \/ ~ second) /\ UNCHANGED attached
          \/ attached' = (attached /\ second) /\ UNCHANGED offline
      BY Zenon
    <2>4. /\ attached' = attached \/ attached' = (attached /\ second)
          /\ offline' = offline \/ offline' = (offline \/ ~ second)
      BY <2>3
    <2>5. attached' \in BOOLEAN
      <3>1. (attached /\ second) \in BOOLEAN /\ attached \in BOOLEAN
        BY DEF SendTypes
      <3> QED
        BY <2>4, <3>1
    <2>6. offline' \in BOOLEAN /\ (~ offline' => ~ offline)
      <3>1. (offline \/ ~ second) \in BOOLEAN /\ offline \in BOOLEAN
        BY DEF SendTypes
      <3> QED
        BY <2>4, <3>1
    <2> QED
      BY <2>1, <2>2, <2>5, <2>6 DEF SendTypes
  <1>2. SendTypes'
    BY <1>1 DEF SendTypes
  <1>3. Gate' /\ Sorted' /\ Quiet'
    BY <1>1 DEF Gate, Sorted, Quiet
  <1>4. Quota'
    BY <1>1 DEF Quota, Charged, SendTypes
  <1> QED
    BY <1>2, <1>3, <1>4

LEMMA SendNextInv == SendInv /\ [SendNext]_sendVars => SendInv'
  <1>1. SendInv /\ UNCHANGED sendVars => SendInv'
    BY DEF SendInv, sendVars, cloud, fixed, quota, handle, ble, sender, SendTypes, Gate, Sorted,
           Quota, Charged, Quiet
  <1> QED
    BY <1>1, TickKeeps, OthersKeep, CloudKeeps, BleChangesKeeps, InboundKeeps, QueuedKeeps,
       ChooseKeeps, WrittenKeeps, SyncedKeeps, AnsweredKeeps, RejectedKeeps
       DEF SendNext, Steps

LEMMA SendInvariance == SendSpec => []SendInv
  BY SendInitInv, SendNextInv, PTL DEF SendSpec

\* The types, and the gate that is closed only for a transport that is dialling.
THEOREM SendTypeCorrect == SendSpec => []SendTypeOK
  <1>1. SendInv => SendTypeOK
    <2> SUFFICES ASSUME SendInv PROVE SendTypeOK
      OBVIOUS
    <2>1. {aliyun, exempt, attached, offline, open, linked, near, second} \subseteq BOOLEAN
      BY DEF SendInv, SendTypes
    <2> QED
      BY <2>1 DEF SendInv, SendTypes, Gate, SendTypeOK, Cloud!TypeOK
  <1> QED
    BY <1>1, SendInvariance, PTL

\* The quota is overshot by the sends of other mowers that are under way and no
\* more, however they overlap (base.py is_rate_limited, record_send).
THEOREM QuotaIsKept == SendSpec => []QuotaKept
  <1>1. SendInv => QuotaKept
    <2> SUFFICES ASSUME SendInv, ~ (exempt /\ ~ aliyun) PROVE Len(log) <= SendLimit + Others
      BY DEF QuotaKept
    <2>1. Len(log) \in Nat /\ flight \in Nat
      BY DEF SendInv, SendTypes
    <2> QED
      BY <2>1 DEF SendInv, Quota, Charged
  <1> QED
    BY <1>1, SendInvariance, PTL

\* A payload goes to a mower that is called offline at most once, and then its sync
\* was under way before the news came (handle.py:705-709, 1906-1912).
THEOREM OfflineStaysQuiet == SendSpec => []OfflineIsQuiet
  <1>1. SendInv => OfflineIsQuiet
    BY DEF SendInv, SendTypes, OfflineIsQuiet
  <1> QED
    BY <1>1, SendInvariance, PTL

\* A closed gate has a receive loop behind it that can still open it, and only a
\* command that came while it was closed waits there (command_queue.py:105-118).
GateIsOwned == (~ open => running /\ told = "connecting") /\ (pc = "held" => ~ open)

THEOREM GateOwned == SendSpec => []GateIsOwned
  <1>1. SendInv => GateIsOwned
    BY DEF SendInv, SendTypes, Gate, GateIsOwned
  <1> QED
    BY <1>1, SendInvariance, PTL

-----------------------------------------------------------------------------
(* The back-off: the log is sorted, so that the age of one send bounds how *)
(* many are in the window.                                                 *)

InWindow(t) == {i \in DOMAIN log : log[i] + t <= Window}

LEMMA WindowCount ==
  ASSUME SendInv, NEW t \in Nat, NEW k \in 1 .. Len(log)
  PROVE  /\ log[k] + t <= Window => Cardinality(InWindow(t)) >= Len(log) - k + 1
         /\ log[k] + t > Window => Cardinality(InWindow(t)) <= Len(log) - k
         /\ Cardinality(InWindow(t)) \in Nat
  <1>1. /\ Len(log) \in Nat /\ DOMAIN log = 1 .. Len(log)
        /\ \A i \in 1 .. Len(log) : log[i] \in 0 .. Window
    BY DEF SendInv, SendTypes
  <1>2. IsFiniteSet(InWindow(t)) /\ Cardinality(InWindow(t)) \in Nat
    <2>1. InWindow(t) \in SUBSET (1 .. Len(log)) /\ IsFiniteSet(1 .. Len(log))
      BY <1>1, FS_Interval DEF InWindow
    <2> QED
      BY <2>1, FS_Subset, FS_CardinalityType
  <1>3. ASSUME log[k] + t <= Window PROVE Cardinality(InWindow(t)) >= Len(log) - k + 1
    <2>1. k .. Len(log) \in SUBSET InWindow(t)
      <3> SUFFICES ASSUME NEW i \in k .. Len(log) PROVE i \in InWindow(t)
        OBVIOUS
      <3>1. i \in 1 .. Len(log) /\ log[k] >= log[i]
        BY <1>1 DEF SendInv, Sorted
      <3> QED
        BY <1>1, <1>3, <3>1 DEF InWindow
    <2>2. Cardinality(k .. Len(log)) = Len(log) - k + 1
      BY <1>1, FS_Interval
    <2> QED
      BY <1>1, <1>2, <2>1, <2>2, FS_Subset
  <1>4. ASSUME log[k] + t > Window PROVE Cardinality(InWindow(t)) <= Len(log) - k
    <2>1. InWindow(t) \in SUBSET ((k + 1) .. Len(log))
      <3> SUFFICES ASSUME NEW i \in InWindow(t) PROVE i \in (k + 1) .. Len(log)
        OBVIOUS
      <3>1. i \in 1 .. Len(log) /\ log[i] + t <= Window
        BY <1>1 DEF InWindow
      <3>2. i <= k => log[i] >= log[k]
        BY <3>1 DEF SendInv, Sorted
      <3> QED
        BY <1>1, <1>4, <3>1, <3>2
    <2>2. IsFiniteSet((k + 1) .. Len(log)) /\ Cardinality((k + 1) .. Len(log)) = Len(log) - k
      BY <1>1, FS_Interval
    <2> QED
      BY <1>1, <1>2, <2>1, <2>2, FS_Subset
  <1> QED
    BY <1>2, <1>3, <1>4

\* The time seconds_until_send_available() answers is the first one at which a send
\* is let through, up to the tick that the window's edge itself takes (base.py:450-473).
THEOREM BackoffIsExact == SendSpec => []BackoffExact
  <1>1. ASSUME SendInv PROVE BackoffExact
    <2>1. /\ Len(log) \in Nat /\ DOMAIN log = 1 .. Len(log) /\ ban \in Nat
          /\ \A i \in 1 .. Len(log) : log[i] \in 0 .. Window
      BY <1>1 DEF SendInv, SendTypes
    <2>2. \A t \in Nat : LimitedIn(t) <=> ban > t \/ Cardinality(InWindow(t)) >= SendLimit
      BY DEF LimitedIn, InWindow
    <2>3. CASE Len(log) < SendLimit
      <3>1. Release = ban
        BY <2>1, <2>3 DEF Release
      <3>2. Cardinality(InWindow(ban + 1)) <= Len(log) /\ Cardinality(InWindow(ban + 1)) \in Nat
        <4>1. InWindow(ban + 1) \in SUBSET (1 .. Len(log))
          BY <2>1 DEF InWindow
        <4>2. IsFiniteSet(1 .. Len(log)) /\ Cardinality(1 .. Len(log)) = Len(log)
          BY <2>1, FS_Interval
        <4> QED
          BY <4>1, <4>2, FS_Subset, FS_CardinalityType
      <3> QED
        BY <2>1, <2>2, <2>3, <3>1, <3>2 DEF BackoffExact
    <2>4. CASE Len(log) >= SendLimit
      <3>1. /\ Leaving \in 1 .. Len(log) /\ log[Leaving] \in 0 .. Window
            /\ Len(log) - Leaving + 1 = SendLimit
        BY <2>1, <2>4 DEF Leaving
      <3> DEFINE left == IF log[Leaving] >= Window THEN 0 ELSE Window - log[Leaving]
      <3>2. Release = (IF left > ban THEN left ELSE ban) /\ left \in Nat
        BY <2>1, <2>4, <3>1 DEF Release
      <3>3. ASSUME NEW t \in 0 .. Release, t < Release PROVE LimitedIn(t)
        <4>1. CASE ban > t
          BY <2>1, <2>2, <3>2, <4>1
        <4>2. CASE ~ (ban > t)
          <5>1. t < left /\ t \in Nat
            BY <2>1, <3>2, <3>3, <4>2
          <5>2. log[Leaving] + t <= Window
            BY <3>1, <5>1
          <5> QED
            BY <1>1, <2>2, <3>1, <5>1, <5>2, WindowCount
        <4> QED
          BY <4>1, <4>2
      <3>4. ~ LimitedIn(Release + 1)
        <4>1. Release \in Nat /\ Release + 1 \in Nat /\ Release >= ban /\ Release >= left
          BY <2>1, <3>2
        <4>2. log[Leaving] + (Release + 1) > Window
          BY <3>1, <4>1
        <4>3. Cardinality(InWindow(Release + 1)) <= SendLimit - 1
              /\ Cardinality(InWindow(Release + 1)) \in Nat
          BY <1>1, <3>1, <2>1, <4>1, <4>2, WindowCount
        <4> QED
          BY <2>1, <2>2, <4>1, <4>3
      <3> QED
        BY <3>3, <3>4 DEF BackoffExact
    <2> QED
      BY <2>1, <2>3, <2>4
  <1> QED
    BY <1>1, SendInvariance, PTL

-----------------------------------------------------------------------------

\* The path sees of its cloud transport what the contract of the two MQTT
\* transports promises and nothing else, so that it works with either of them
\* (transport/base.py, device/handle.py _make_availability_handler).
THEOREM CloudContract == SendSpec => Cloud!Spec
  <1>1. SendInit => Cloud!Init
    BY DEF SendInit
  <1>2. [SendNext]_sendVars => [Cloud!Next]_Cloud!vars
    <2> SUFFICES ASSUME [SendNext]_sendVars PROVE Cloud!Next \/ UNCHANGED Cloud!vars
      OBVIOUS
    <2> USE DEF Cloud!vars, cloud
    <2>1. CASE CloudTells
      BY <2>1 DEF CloudTells, Cloud!Next
    <2>2. CASE CloudStarts
      BY <2>2 DEF CloudStarts, Cloud!Next
    <2>3. CASE CloudStops
      BY <2>3 DEF CloudStops, Cloud!Next
    <2>4. CASE Tick \/ OtherBegins \/ OtherEnds \/ BleChanges \/ Inbound \/ Queued
      BY <2>4 DEF Tick, OtherBegins, OtherEnds, BleChanges, Inbound, Queued
    <2>5. CASE Steps
      BY <2>5 DEF Steps, Choose, Written, Synced, Answered, Rejected
    <2>6. CASE UNCHANGED sendVars
      BY <2>6 DEF sendVars
    <2> QED
      BY <2>1, <2>2, <2>3, <2>4, <2>5, <2>6 DEF SendNext
  <1> QED
    BY <1>1, <1>2, PTL DEF SendSpec, Cloud!Spec
=============================================================================
