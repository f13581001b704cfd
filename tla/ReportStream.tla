---------------------------- MODULE ReportStream ----------------------------
(***************************************************************************)
(* How a DeviceHandle keeps the state of its mower fresh                   *)
(* (pymammotion/device/handle.py, ble_loop.py, mqtt_loop.py).              *)
(*                                                                         *)
(* Over BLE a polling loop, alive as long as the link, holds a continuous  *)
(* report stream while the mower works and polls it while it rests.  The   *)
(* MQTT loop polls too, but defers while ble_stream_active says that the   *)
(* BLE stream feeds.  Both only post commands: one worker, the processor   *)
(* of the command queue, sends them and waits for the reports that prove   *)
(* them received.                                                          *)
(*                                                                         *)
(* A step is the code between two awaits that suspend.  Sleeps take any    *)
(* time.  The queue is the FIFO that DeviceCommandQueue is for commands of *)
(* one priority; CommandQueue.tla models the rest of it.                   *)
(***************************************************************************)
EXTENDS Naturals, Sequences

CONSTANT QueueCap   \* bound: commands waiting in the queue

ASSUME ReportAssumption == QueueCap \in Nat \ {0}

\* bleStart, bleStop: RPT_START and RPT_STOP pinned to BLE; report: an
\* RPT_START or RPT_KEEP by the best transport; snapshot: the one with dedup
\* key one_shot_report; other: get_report_cfg, and the RPT_STOP of the timer.
Commands == {"bleStart", "bleStop", "report", "snapshot", "other"}
Verified == {"bleStart", "report", "snapshot"}   \* they wait for a report
Pinned   == {"bleStart", "bleStop"}

VARIABLES
    link,     \* BLE: "down", "up" or "lost" (gone, the listeners not told yet)
    active,   \* device_mode() is ACTIVE
    quiet,    \* for 15 s: "no" report is missing, "reports" are, all "frames" are
    stream,   \* _ble_stream_active
    poll,     \* _ble_polling_task: "none", "alive", "cancelled" or "done"
    was,      \* its was_continuous
    timer,    \* _report_stream_timer is armed
    queue,    \* commands waiting
    worker,   \* the queue's processor
    hello,    \* a task of _on_ble_connected() has not run
    phase     \* stop(): "running", "stopping" or "stopped"

world == <<link, active, quiet>>
loops == <<stream, poll, was, timer>>
work  == <<queue, worker, hello>>
vars  == <<link, active, quiet, stream, poll, was, timer, queue, worker, hello, phase>>

Idle == [at |-> "idle", cmd |-> "none", try |-> 0, heard |-> FALSE]
Busy(cmd, try) == [at |-> "sending", cmd |-> cmd, try |-> try, heard |-> FALSE]

TypeOK ==
    /\ link \in {"down", "up", "lost"}
    /\ quiet \in {"no", "reports", "frames"}
    /\ active \in BOOLEAN /\ stream \in BOOLEAN /\ was \in BOOLEAN /\ timer \in BOOLEAN
    /\ poll \in {"none", "alive", "cancelled", "done"}
    /\ queue \in Seq(Commands) /\ Len(queue) <= QueueCap
    /\ worker \in [at: {"idle", "sending", "waiting", "nudging", "saga", "off"},
                   cmd: Commands \cup {"none"}, try: 0 .. 2, heard: BOOLEAN]
    /\ hello \in BOOLEAN
    /\ phase \in {"running", "stopping", "stopped"}

Init ==
    /\ link = "down" /\ active = FALSE /\ quiet = "frames"
    /\ stream = FALSE /\ poll = "none" /\ was = FALSE /\ timer = FALSE
    /\ queue = <<>> /\ worker = Idle /\ hello = FALSE
    /\ phase = "running"

-----------------------------------------------------------------------------
(* The queue.                                                              *)

\* enqueue(skip_if_saga_active=True): dropped during a saga, or when the key
\* waits already.
Waits(q, cmd) == \E i \in 1 .. Len(q) : q[i] = cmd
Put(q, cmd) ==
    IF worker.at = "saga" \/ (cmd = "snapshot" /\ Waits(q, cmd)) THEN q ELSE Append(q, cmd)

Post(cmd) == Len(queue) < QueueCap /\ queue' = Put(queue, cmd)
PostBoth(first, second) ==
    Len(queue) + 1 < QueueCap /\ queue' = Put(Put(queue, first), second)

\* The next command is taken.  A command pinned to BLE is dropped without a link.
Take ==
    /\ worker.at = "idle" /\ queue # <<>>
    /\ queue' = Tail(queue)
    /\ worker' = IF Head(queue) \in Pinned /\ link # "up" THEN Idle ELSE Busy(Head(queue), 1)
    /\ UNCHANGED <<world, loops, hello, phase>>

\* The write was accepted.  Reports count from before the send.
Await(heard) ==
    worker' = IF worker.cmd \in Verified
              THEN [worker EXCEPT !.at = "waiting", !.heard = heard] ELSE Idle
SentDeaf  == Await(FALSE)            \* mutant: since is sampled after the send
SentWrite == Await(worker.heard)

Sent ==
    /\ worker.at = "sending"
    /\ link = "up" \/ worker.cmd \notin Pinned
    /\ SentWrite
    /\ UNCHANGED <<world, loops, queue, hello, phase>>

\* The send raised: the command is over.  A write that fails over BLE has ended
\* the link first.
SendFails ==
    /\ worker.at = "sending"
    /\ link # "up" \/ worker.cmd \notin Pinned
    /\ worker' = Idle
    /\ UNCHANGED <<world, loops, queue, hello, phase>>

\* _wait_for_report_data() saw a frame.  The stream is held active from here on.
Confirm ==
    /\ worker.at = "waiting" /\ worker.heard
    /\ worker' = Idle
    /\ stream' = (stream \/ worker.cmd = "bleStart")
    /\ UNCHANGED <<world, poll, was, timer, queue, hello, phase>>

\* No frame in _RPT_ACK_TIMEOUT: a nudge first, the second time the end.
Nudge     == [worker EXCEPT !.at = "nudging"]
RetryLong == Nudge                              \* mutant: until it is answered
Retry     == IF worker.try = 1 THEN Nudge ELSE Idle

TimeOut ==
    /\ worker.at = "waiting" /\ ~ worker.heard
    /\ worker' = Retry
    /\ UNCHANGED <<world, loops, queue, hello, phase>>

\* The nudge ended, or failed: the command once more.  What was heard during
\* the nudge does not count.
Nudged ==
    /\ worker.at = "nudging"
    /\ worker' = Busy(worker.cmd, worker.try + 1)
    /\ UNCHANGED <<world, loops, queue, hello, phase>>

\* A saga has the queue.  What waits behind it may outlive _COMMAND_TTL.
SagaStarts ==
    /\ worker.at = "idle" /\ phase = "running"
    /\ worker' = [Idle EXCEPT !.at = "saga"]
    /\ UNCHANGED <<world, loops, queue, hello, phase>>

SagaEnds ==
    /\ worker.at = "saga"
    /\ worker' = Idle
    /\ queue' \in {queue, <<>>}
    /\ UNCHANGED <<world, loops, hello, phase>>

-----------------------------------------------------------------------------
(* The world: the BLE link, and frames from the device, over BLE or MQTT.  *)

LinkUp ==
    /\ link = "down" /\ phase # "stopped"
    /\ link' = "up"
    /\ hello' = TRUE
    /\ UNCHANGED <<active, quiet, loops, queue, worker, phase>>

LinkLost ==
    /\ link = "up"
    /\ link' = "lost"
    /\ UNCHANGED <<active, quiet, loops, work, phase>>

\* The listeners are told DISCONNECTED: by bleak's callback, or by a write
\* that failed on a link nobody had missed yet.
LinkDown ==
    /\ link # "down"
    /\ link' = "down"
    /\ poll' = IF poll = "alive" THEN "cancelled" ELSE poll
    /\ stream' = FALSE
    /\ UNCHANGED <<active, quiet, was, timer, work, phase>>

\* on_raw_message(), of a frame with a report: it may tell another mode.
Report ==
    /\ phase # "stopped"
    /\ quiet' = "no"
    /\ active' \in BOOLEAN
    /\ worker' = IF worker.at \in {"sending", "waiting"} /\ worker.cmd \in Verified
                 THEN [worker EXCEPT !.heard = TRUE] ELSE worker
    /\ UNCHANGED <<link, loops, queue, hello, phase>>

\* A frame without one.
Frame ==
    /\ quiet = "frames" /\ phase # "stopped"
    /\ quiet' = "reports"
    /\ UNCHANGED <<link, active, loops, work, phase>>

Silence ==
    /\ quiet # "frames"
    /\ quiet' = IF quiet = "no" THEN "reports" ELSE "frames"
    /\ UNCHANGED <<link, active, loops, work, phase>>

-----------------------------------------------------------------------------
\* _on_ble_connected(): a stopping handle starts no loop.  The loop that the
\* drop before cancelled has ended by now.
StartIfNone  ==                      \* mutant: done() is not asked
    poll' = IF poll = "none" THEN "alive" ELSE poll
StartPolling == poll' = IF poll \in {"none", "done"} THEN "alive" ELSE poll

Connected ==
    /\ hello /\ poll # "cancelled"
    /\ hello' = FALSE
    /\ IF phase = "running" THEN StartPolling ELSE UNCHANGED poll
    /\ Post("other")
    /\ UNCHANGED <<world, stream, was, timer, worker, phase>>

-----------------------------------------------------------------------------
(* ble_polling_loop().                                                     *)

\* ACTIVE.  A stream gone silent is stopped and started anew; one that is not
\* active is started; one that is, is renewed.
Stalled == stream /\ quiet = "frames"
TickStreaming ==
    /\ active
    /\ was' = TRUE
    /\ \/ Stalled /\ PostBoth("bleStop", "bleStart") /\ stream' = FALSE
       \/ ~ Stalled /\ Post(IF stream THEN "report" ELSE "bleStart") /\ UNCHANGED stream

\* Any other mode: the stream is stopped once, and the device asked when it is
\* due and may be asked.
TickPolling ==
    /\ ~ active
    /\ was' = FALSE
    /\ stream' = (stream /\ ~ was)
    /\ \/ was /\ Post("bleStop")
       \/ was /\ PostBoth("bleStop", "snapshot")
       \/ ~ was /\ Post("snapshot")
       \/ ~ was /\ UNCHANGED queue

PollTick ==
    /\ poll = "alive" /\ link = "up"
    /\ TickStreaming \/ TickPolling
    /\ UNCHANGED <<world, poll, timer, worker, hello, phase>>

\* The loop finds the link gone, or is cancelled in its sleep.
PollEnds ==
    /\ poll = "cancelled" \/ (poll = "alive" /\ link # "up")
    /\ poll' = "done"
    /\ stream' = FALSE /\ was' = FALSE
    /\ UNCHANGED <<world, timer, work, phase>>

-----------------------------------------------------------------------------
(* mqtt_activity_loop(): to defer changes nothing, and is no step.         *)

MqttPolls ==
    /\ phase = "running"
    /\ ~ stream
    /\ quiet = "frames"
    /\ worker.at # "saga"
    /\ Post("snapshot")
    /\ UNCHANGED <<world, loops, worker, hello, phase>>

-----------------------------------------------------------------------------
(* The callers and the timer.                                              *)

\* request_report_snapshot(): not while streaming, nor just after a report.
Snapshot ==
    /\ phase = "running"
    /\ ~ stream /\ quiet # "no"
    /\ Post("snapshot")
    /\ UNCHANGED <<world, loops, worker, hello, phase>>

\* start_report_stream() of a working mower: RPT_KEEP within the window of an
\* earlier call, RPT_START outside, neither while BLE streams.
StartStream ==
    /\ phase = "running" /\ active
    /\ timer' = TRUE
    /\ IF stream THEN UNCHANGED queue ELSE Post("report")
    /\ UNCHANGED <<world, stream, poll, was, worker, hello, phase>>

\* _fire_report_stream_stop(): RPT_STOP, unless BLE streams.
TimerFires ==
    /\ timer
    /\ timer' = FALSE
    /\ IF stream THEN UNCHANGED queue ELSE Post("other")
    /\ UNCHANGED <<world, stream, poll, was, worker, hello, phase>>

\* request_reports()
RequestReports ==
    /\ phase = "running"
    /\ Post("report")
    /\ UNCHANGED <<world, loops, worker, hello, phase>>

\* stop(): the loops are cancelled and awaited, then the stream is forgotten
\* and the worker cancelled, then the transports are disconnected.  What a task
\* of _on_ble_connected() does after that, nobody takes.
Stop ==
    /\ phase = "running"
    /\ phase' = "stopping"
    /\ timer' = FALSE
    /\ poll' = IF poll = "alive" THEN "cancelled" ELSE poll
    /\ UNCHANGED <<world, stream, was, work>>

ForgetStream == stream' = FALSE

StopEnds ==
    /\ phase = "stopping" /\ poll \in {"none", "done"}
    /\ phase' = "stopped"
    /\ ForgetStream
    /\ worker' = [Idle EXCEPT !.at = "off"] /\ queue' = <<>>
    /\ link' = "down" /\ hello' = FALSE
    /\ UNCHANGED <<active, quiet, poll, was, timer>>

-----------------------------------------------------------------------------
Device == LinkUp \/ LinkLost \/ LinkDown \/ Report \/ Frame \/ Silence
Worker ==
    \/ Take \/ Sent \/ SendFails \/ Confirm \/ TimeOut \/ Nudged
    \/ SagaStarts \/ SagaEnds
Loops  == Connected \/ PollTick \/ PollEnds \/ MqttPolls
Caller == Snapshot \/ StartStream \/ TimerFires \/ RequestReports \/ Stop \/ StopEnds

Next == Device \/ Worker \/ Loops \/ Caller

\* A mower in range answers one of infinitely many RPT_STARTs.
Answer == worker.at \in {"sending", "waiting"} /\ worker.cmd = "bleStart" /\ link = "up" /\ Report

\* The event loop runs what is ready, writes and waits end, the polling loop
\* wakes up, sagas end and do not come back to back for ever.  SF where only
\* the bound on the queue, or a saga, can disable the step.
Fairness ==
    /\ SF_vars(Take) /\ WF_vars(Sent) /\ WF_vars(Confirm \/ TimeOut) /\ WF_vars(Nudged)
    /\ WF_vars(SagaEnds) /\ SF_vars(Connected) /\ SF_vars(PollTick) /\ WF_vars(PollEnds)
    /\ WF_vars(StopEnds) /\ SF_vars(Answer)

Spec == Init /\ [][Next]_vars /\ Fairness

-----------------------------------------------------------------------------
(* Properties.                                                             *)

\* After stop() nothing polls and nothing calls the stream active, although
\* the worker may confirm a stream while stop() awaits the loops
\* (handle.py:1127-1155).
StoppedIsQuiet == phase = "stopped" => ~ stream /\ poll \in {"none", "done"}

\* While the handle runs, a connected BLE link gets its polling loop, however
\* often the link flaps (handle.py:357-388, 1080-1086).
LinkIsPolled ==
    link = "up" /\ phase = "running" ~> poll = "alive" \/ link # "up" \/ phase # "running"

\* A working mower that stays in range, and answers, gets its stream: every
\* RPT_START that is lost is sent again, and an answer that comes while the
\* write is still awaited counts (handle.py:1246-1252, ble_loop.py:218-224).
StreamStarts ==
    []<> (stream \/ ~ active \/ link # "up" \/ phase # "running" \/ worker.at = "saga")
=============================================================================
