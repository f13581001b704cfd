# PyMammotion: TLA+ models, checks and proofs

PyMammotion drives Mammotion robots (mowers, pool cleaners) over Bluetooth and
two MQTT clouds. It is an asyncio program: one thread, many tasks, and every
`await` is a point where other tasks run. These modules model its messaging,
transport, login and map core, check them with TLC on small instances, and
prove the safety properties for all values of the constants with TLAPS.

A step of every model is *the code between two awaits that suspend*. State that
only such a piece of code sees is not a variable; state read before an await
and used after it is.

## 1. Inventory

| component | state it keeps | operations | hard behaviour |
|---|---|---|---|
| device command queue (`messaging/command_queue.py`) | priority queue, dedup keys, sequence number, gate and exclusive events, the processor task | `enqueue`, `enqueue_saga`, pause/resume for reconnect, `start`, `stop`, `_process` | the one processor waits at the gate with an item in its hands; stop at any await; retries |
| broker (`messaging/broker.py`) | table field -> future | `send_and_wait`, `on_message`, `close` | no request id; deadline against late reply; close against retry |
| sagas (`messaging/saga.py`, `*_saga.py`) | progress of one multi-message exchange | `execute`, retry loop, the steps of each | progress rule, total timeout, frames of an earlier run, a queue shared by batches |
| transfers (`messaging/transfers.py`) | frames received so far | acknowledged stream, indexed fetch | lost, duplicated, reordered frames |
| map data (`data/model/hash_list.py`) | root lists, frames per element | update, prune, what is missing | a list of another edition prunes the elements of this one |
| Aliyun MQTT (`transport/aliyun_mqtt.py`) | task, stop event, availability, auth flags | `connect`, `disconnect`, receive loop | bounded refresh of rejected credentials, permanent failure, loop must not die |
| Mammotion MQTT (`transport/mqtt.py`) | the same, plus credentials | the same, plus REST invoke | refresh before the dial, stop event cleared by a refresh |
| BLE (`transport/ble.py`) | client, availability, failures, cooldown, two locks | `connect`, `send`, `disconnect`, disconnect callback, device supply | state read again after awaits, callbacks of old links, nested locks |
| transport base (`transport/base.py`) | listeners, auth-failed flags, send window | `send` budget, backoff | a listener told of a state that is over; 12-hour window, looked at before a send and charged after it |
| token manager (`auth/token_manager.py`), HTTP client (`http/http.py`) | tokens, expiry, two locks, need to log in again | getters, refreshes, scheduler | nested locks, a refresh token that rotates, lost responses |
| device handle (`device/handle.py`) | transports, their availability, the queue, loops | send path choice, gate, availability events, report streams, unbind | events of a detached transport, choice stale after an await, flags cleared under a task |
| loops (`device/*_loop.py`) | timers, backoff | polling | races with stop, with mode changes and with a link that flaps |
| state and reducer (`state`, `device/state_reducer.py`) | the device's data | apply a message | data, little control, but it prunes the map a saga reads |
| client (`client.py`) | accounts, handles, transports | login, setup, removal, migration | shared transports |
| cloud gateway, command builders, protobuf, rendering, utilities, Home Assistant facade | - | requests, formatting | I/O and formatting |

How they interact. A caller asks the handle for a command; the handle enqueues
a closure on the device's *command queue*; the processor runs it: it chooses a
*transport* and either sends, or calls the *broker*'s `send_and_wait`, whose
`send_fn` sends. A message received by a transport goes to the handle's
`on_raw_message`, which gives it to the broker (the waiting request or the event
bus) and to the state reducer. A transport tells availability *listeners* of
the handle, which close and open the queue's gate and start and stop the BLE
loops. A rejected credential makes a transport call `on_auth_failure`, which
goes to the *token manager*. A report with another hash of the map makes the
client enqueue a *saga*, which reads frames from the broker's event bus and the
map from the state machine. An answer 29004 makes the handle call the client,
which moves the mower to another cloud.

What makes each correct, and where it is stated, is in the tables below; what
can go wrong, at its line, is in `PROJECT.json` under `hazards`.

## 2. Modules

| module | models | properties |
|---|---|---|
| `CommandLifecycle` | what the queue promises about one command | (abstract specification) |
| `CommandQueue` | `DeviceCommandQueue` | `TypeOK DedupExact NothingLost LifecycleKept CommandsSettle`; proved only: `SagaSlotOwned` |
| `Broker` | `DeviceMessageBroker` | `TypeOK Registered RequestsEnd`; proved only: `NoOpenFuture OnePerField` |
| `CloudTransport` | what a cloud transport promises its listeners | (abstract specification) |
| `AliyunMQTT` | `AliyunMQTTTransport` | `TypeOK ContractSpec KeepsDialling`; proved only: `GivenUp RefusalsBounded LoopSurvives ListenersKnow` |
| `MammotionMQTT` | `MQTTTransport` | `TypeOK ContractSpec KeepsDialling` |
| `BLETransport` | `BLETransport` | `TypeOK NoGhost DialsAreDue CallsEnd DropNoticed`; proved only: `LinkIsTold` |
| `TokenManager` | `TokenManager` and the token refresh of `MammotionHTTP` | `TypeOK LoginIntact OneRefreshPerStaleToken CallsEnd`; proved only: `SchedulerLives NoDoomedRequest` |
| `MapCopy` | what a map fetch promises | (abstract specification) |
| `MapFetch` | `MapFetchSaga`, `Saga`, `ack_stream`, `HashList`, the watcher of the map's hash | `MapTypeOK TakenIsApplied CopySpec` |
| `ReportStream` | report streams and polls of a `DeviceHandle`, `ble_polling_loop`, `mqtt_activity_loop` | `TypeOK LinkIsPolled StreamStarts`; proved only: `StoppedIsQuiet` |
| `CloudMigration` | the mowers of an account: removal, and the move after an unbind | `TypeOK AliyunSurvives UnboundSettles`; proved only: `OneMigration` |
| `FrameSagas` | the five other sagas: common data, plans, edge, SVG tile, mow path | `SagaTypeOK FetchWhole PathWhole`; refuted: `PathPromised` |
| `SendPath` | `send_raw`, the gate, the send quota, the offline flag | `SendTypeOK QuotaKept BackoffExact OfflineIsQuiet CommandEnds`; proved only: `GateIsOwned` |
| `MC*` | - | the constants of the runs |
| `HandleProofs` | - | theorems about `ReportStream` and `SendPath` |
| `MessagingProofs` | - | theorems about `Broker` and `FrameSagas` |
| `ClientProofs` | - | theorems about `CloudMigration` and `MapFetch` |
| other `*Proofs` | - | theorems about the module of that name |

Three abstract specifications are implemented by detailed ones through
`INSTANCE ... WITH`: `CommandLifecycle` by `CommandQueue` (`LifecycleKept`),
`CloudTransport` by both MQTT modules (`ContractSpec`), and `MapCopy` by
`MapFetch` (`CopySpec`). `SendPath` is composed with `CloudTransport`: the cloud
connection beside a command does whatever the contract allows, so what holds
there holds over both MQTT transports.

### CommandQueue
`queue` is `_queue` as a set: `Take` picks its least item by (priority,
sequence). `pc` is where the processor task is suspended. `fate` is a history
variable, the only thing that is not in the code; it is what the abstract
specification `CommandLifecycle` speaks about. `Enqueue` is one step (its awaits
do not suspend: the queue is unbounded). `stop()` is `Stop` (events set, cancel
posted) and `UnwindSaga`/`Cancelled` (CancelledError raised at the await the
task is in, finally blocks included). `asyncio.Event.set()` decides that a
waiter runs even if the event is cleared again first: the location `woken`.

### Broker
A caller is one call of `send_and_wait`. The critical sections of its lock do
not await, so each is part of one step. `expired` is the moment between the
firing of the deadline and the run of the cancelled task, in which a reply can
still arrive. The event bus is counted (`emitted`), not modelled.

### CloudTransport, AliyunMQTT, MammotionMQTT
`CloudTransport` has three variables: whether a receive loop runs, what the
listeners were told last, and whether the transport is given up. A handle that
was told CONNECTING holds its command queue until it is told something else
(`_update_queue_gate`), so the contract is about the last word: a loop that is
gone leaves no listener with CONNECTING or CONNECTED, CONNECTED follows
CONNECTING, and no loop begins after a permanent failure.

In both MQTT modules `pc` is where `_run()` is suspended. `disconnect()` awaits
the task it cancelled and goes on later (`DisconnectReturns`): another task may
call `connect()` in between, and the abstract `running` holds until then. In
`AliyunMQTT` `avail` is `_availability` and `told` what the listeners heard
last: `connect()` and `disconnect()` write the former without the latter.
`refused` and `expired` are history counters, capped at `MaxRejected`. In
`MammotionMQTT` the two are one; `forced` is the local `auth_force_refreshed`, a rejection
(`Rejected`) may answer the dial or come out of the open session,
and a sender is a task in `_invoke()`, which posts over HTTP, renews the access
token once and may give the transport up beside the loop. The credential check
clears the stop event (`_apply_credentials`), as the forced refresh does. The
credential callback is taken to be wired, as the client always does.

### BLETransport
A link is a number, new for every `establish_connection()`. `up` are the links
the radio holds, `drops` the links whose disconnect callback has not run,
`client` is `_client`, `using` the client a suspended call operates on. The
properties live on the difference between `client` and `using`. The models of
`is_connected` follow the code: the client exists and its link is up.
Any call may be cut short where it awaits (`Abandoned`, `DisconnectAbandoned`):
by a cancellation -- the timeout of a saga, `stop()` of the queue or of the
handle -- or by an error that its handlers do not name. The locks are released
and the call ends, but the code tells nothing, counts nothing and tears nothing
down. So CONNECTING may outlive the `connect()` that told it, and `NoGhost` is
about CONNECTED only; `left` is history, the link that such a `connect()` left
connected with its setup unfinished, which `LinkIsTold` is about.

### TokenManager
A token is the number of the exchange that issued it, and stands for the access
and the refresh token that came together: `live` is what the server accepts,
`held` what `login_info` carries. The manager's `_http_creds` always follow
`held` in the same step, so they are no variable. Two locks: `_lock` of the
manager is held at every location of a managed task but a few (`OuterFree`),
`_refresh_lock` of the HTTP client during an exchange and its listener
(`InnerFree`). Each exchange ends in one of `Accepted`, `Rejected`,
`Unreachable` (transient, as the code knows it), `Dropped` (a connection that
breaks with an error of aiohttp that is no `OSError`; the retries of the HTTP
client know it, `is_transient_network_error()` does not) and `Garbled` (any
other exception), the latter three before or after the server rotated the token. `due` is the one fact about time:
whether the access token expires within five minutes. `broken` and `served` are
history variables. A renewal of the MQTT credentials by the scheduler is a call
of a renewer. Left out: the Aliyun session, the cached getters, and the
`UnauthorizedExceptionError` branch of `refresh_invoke_token()`, which
`fetch_authorization_token()` never takes.

### MapFetch
The device holds an edition of its map, a root list of elements; an edit makes
the next edition. A hash names content, so the frames of a hash never change.
`sent` only grows: a frame once sent may arrive at any later time, any number of
times or never, which is loss, repetition and reordering at once. `root` is
`root_hash_lists` as a set of frames, each with the number of its list (`at`) and
its position there (`pos`): the order of storage is `First`'s, and the order the
hash of the map is made in gives each frame its place (`Place`). `got` has the
frames of each element, `missing` the entries of `find_incomplete_hashes`. `Arrive` is the whole of a message: the collector of the saga
queues the frame, the reducer applies it (`update_root_hash_list`, or
`update` with the pruning behind it), and the saga runs only afterwards.
`StartRun` is `invalidate_maps`, `TakeRoot` the loop of `ack_stream`, `TakeData`,
`CheckMore` and `CheckItem` the loop of step 4 with its stall counter and its
drain, `Interrupted` the handler of `_retry_loop`, which refreshes the budget of
attempts when progress changed. `Report` is the watcher of `bol_hash`. `calm` is
history: the map was not edited, and no frame of an earlier run turned up, since
the run began. Simplified: all elements are areas, each root frame lists one
element, the hash of hashes has no collisions; the steps for area names, plans
and SVG tiles ask and wait without touching what is modelled, but for the list
of names that arrives outside a saga (`NamesArrive`), which drops a stale root.

### ReportStream
`poll` is the task of `ble_polling_loop`, `stream` the flag `_ble_stream_active`,
which the loop, the listener, the worker and `stop()` all write, `worker` the
processor of the command queue inside `_enqueue_ble_stream_command` or
`_send_rpt_start_verified`, `quiet` how long the device has been silent, `link`
the BLE link as the listeners know it (`lost` between the loss and the
callback). The retry of an RPT_START nudges the device first (`Nudge`, `Nudged`);
a report that comes during the nudge is not the answer to the retry. Simplified: MQTT is always there, the heartbeat and the dynamics-line
loop do not touch the state of this module and are left out, and a command is
not retried by the gateway.

### CloudMigration
Every mower of the account starts on the one Aliyun transport. `Unbound` is the
answer 29004 in `DeviceHandle`, `hook` where the task it starts is suspended in
`MammotionClient._on_device_unbound`; `_unbound_migrating` is `hook # "none"`.
An attempt may fail at any of its awaits, the subscription included (`AttemptFails`).
`RemoveDevice` is `remove_device()` up to the first await of the handle's
`stop()`, `StopEnds` the rest: what is attached by then is disconnected. Left
out: the BLE connection a removal gives back, bootstrap and sign-out; the
`connect()` of a Mammotion transport does not suspend.

### FrameSagas
One saga, of one of five kinds, over the same wire as in `MapFetch`: `sent` only
grows. A frame says what it is of -- the edition of the device's data, the
answer to a chunk, the transaction of a cover path -- its number and the total.
`Execute`, `StartRun`, `Interrupt` and `SagaGivesUp` are `Saga.execute()` and its retry
loop, the same for all; then each `_run()` has its steps. A queue of frames lives
as long as one run (`Leave`). An interruption may come at any await: a send ends
in a gateway timeout, or a wait in its own, with frames behind it unread.
`WalkUnsure` is the border walk whose command timed out at the gateway and
reached the mower all the same. `lines` and `cover` are what the reducer keeps of
a mow path in the map, over runs and sagas; `Residual` drops a transaction of an
earlier run, `TakeCover` asks the map what is missing. `calm` and `paced` are
history: the run was not disturbed, and each frame was taken before the next one
came. Simplified: the hash list is one frame, a cover path one frame per hash, a
transaction never has the time stamp of another, and an SVG tile is new.

### SendPath
`log` is `_send_timestamps` as ages in ticks, the oldest first; `ban` what is left
of the 429 ban; `flight` the requests of other mowers that passed the quota and
are not charged yet. `pc` is where the one command that the queue's processor has
in its hands is suspended: at the gate, before the choice, in a BLE write, in the
sync, in the request. The choice of a transport, the quota and, without a sync,
the start of the request are one step (`Choose`, `Marked`, `Hand`): nothing
suspends between them. `second` marks the send inside an `except` branch of
`send_raw()`, whose own errors nobody looks at. `exempt` and `aliyun` say whether
the firmware knows no quota and whether the transport asks about the firmware at
all. The error branch that connects BLE when no transport was available
(`handle.py:1733-1740`) is left out: `active_transport()` has just found BLE not
usable, nothing suspends in between, and the branch asks for a BLE that is usable,
so that only a cooldown ending between two reads of the clock could enter it.
Left out too: the recovery of a recorded auth failure, the move to another
transport after an unbind (`CloudMigration`), the event bus of sent payloads.

## 3. Runs

| run | question | bounds |
|---|---|---|
| `queue` | is anything lost or run twice; is every command dealt with; does the queue implement `CommandLifecycle`? | 3 commands, 1 key, 2 instants, TTL 0, 2 attempts |
| `broker` | do table and callers agree; does every request end? | 3 callers, 2 of them for one field, 2 attempts, 3 messages |
| `aliyun` | are refreshes bounded, is `CloudTransport` implemented, does a wanted transport keep dialling? | the budget of the code (3), counters to 5 |
| `mqtt` | is a rejection answered by one renewal, is `CloudTransport` implemented, does a wanted transport keep dialling, does `disconnect()` return? | 2 senders; nothing else is bounded |
| `ble` | does CONNECTED end with the links; do dials collide; do calls end; is a lost link noticed, also when calls are cancelled? | 2 writers, 1 connector, 2 links, threshold 2 |
| `token` | does one login survive renewals from all sides; is a stale token renewed once; do calls end under two nested locks? | 2 invokers, 1 renewer, 1 decorated call, the scheduler, 2 attempts, 2 tokens |
| `map` | does an undisturbed fetch end with the map of the device, over losses, repetitions and retries; is a frame the saga takes in the map? | 2 elements of 2 and 1 frames, 2 editions of 2 and 1 root frames, 2 attempts, stall limit 2, 1 frame in the queue, 1 fetch |
| `report` | does a link get its loop and a working mower its stream? | 2 commands in the queue |
| `migration` | does the shared transport survive, does every hook end? | 3 mowers, one with BLE, 2 attempts, 2 unbinds per mower |
| `sagas` | does a saga that ends well hand over one whole; do attempts without progress run out? | device data of 3, 1 and 0 items, 2 chunks, batches of 2, 2 attempts (1 for plans and paths), stall limit 2, 2 frames in the queue, 1 saga, 2 transactions |
| `path_batches` | is a mow path complete when frames come faster than they are taken? (refuted) | as `sagas` |
| `send` | is the quota kept, the backoff exact, an offline mower left alone; does every command end? | quota 2 in a window of 2 ticks, ban of 1 tick, sync after each tick, 1 send of another mower in flight, 4 sends kept |

The bounds. Three commands are the least with which one waits, one is held and
one arrives; more repeat the same roles. Two callers for one field and one for
another show every conflict of the broker, which looks at one field at a time.
Two BLE links give an old link, whose callback may still come, and its
successor; two writers and a connector give two tasks waiting for a lock that a
third one holds. Two tokens give the one that was refused and its successor,
which is all a caller can tell apart. Two editions give an edit, the pruning of
an element that is gone and the replay of a list that is old; an element of two
frames and one of one give an item that is complete and one that is not; one
fetch has all its retries. Two commands in the queue of `ReportStream` are what
one tick posts at once. Three mowers are the one that is removed, the one that
is moved and the one that stays; two attempts are the first and the last. Three
items give a first, a middle and a last one, a full batch and a rest; one item is
both first and last, and none is the empty answer; two frames in the queue are
the one a saga takes and the one behind it. A quota of two has an oldest and a
newest send, and with one send in flight and a firmware that is exempt the window
overshoots by one and by two.
Counters of attempts and failures reach their limits in every run. Each counter
is capped by a named constant (`MaxItems`, `MaxTime`, `MaxMessages`,
`MaxRejected`, `MaxLinks`, `MaxTokens`, `QueueCap`, `MaxSyncs`, `MaxSagas`,
`MaxTx`, `Others`, `MaxLog`) or, in `Unbound`,
by the number beside it.

Every property of a passing run has a mutant in `PROJECT.json`: a definition
marked `mutant` in the module that changes one mapped definition as a plausible
bug would, and that makes TLC refute the property. They are used by no
specification.

Deadlock is checked in `queue`, `ble`, `token`, `sagas` and `send`. The other systems may really
stop: when all calls ended (broker), after a permanent failure or with nothing
wanted (both MQTT transports), after the last fetch (map), after `stop()`
(report), with every mower moved or removed (migration).

## 4. Fairness

Fairness is put on what the event loop and the libraries bring about by
themselves, never on what a user, a device or the broker of the cloud does:
ready tasks run, timers fire, awaited calls with a timeout end, a posted
cancellation is delivered. In `CommandQueue` a reconnect is assumed to end
(`ResumeAfterReconnect`), because the transports retry for ever. In
`BLETransport` taking a lock is strongly fair: `asyncio.Lock` is first in, first
out. In `TokenManager` the same holds of both locks, and every request ends
because the exchange carries a timeout. In `AliyunMQTT` and `MammotionMQTT` the
one fair action is `Progress`, what the loop does by itself: a dial ends, within
the timeout of aiomqtt, a refresh and a sleep end; no message, no loss of a
session and no `connect()` is assumed. In `CloudMigration` each mower's HTTP
calls, sleeps and `stop()` end. `ReportStream` needs more: commands are taken
(strongly fair, since sagas and the bound on the queue get in the way), the
polling loop wakes up, and `Answer`, a mower in range answers one of infinitely
many RPT_STARTs; `StreamStarts` is about what the code does with that answer.
In `SendPath` requests and writes end
(`Steps`, they have timeouts), and a dial ends (`Settles`): that is what
`KeepsDialling` of both MQTT modules says of their loops. `MapFetch` and
`FrameSagas` have no fairness and claim no liveness: a fetch may fail.

No fairness is assumed of `connect()`, `send()`, messages or drops, nor of a call
being abandoned.

## 5. Proofs

All theorems are of the form `Spec => []P`, or `Spec => P` for a refinement or an
action property, for every value of the constants under the module's one
`ASSUME`.

- `CommandQueueProofs`: the inductive invariant joins the type invariant with
  `DedupExact`, `SagaSlotOwned`, `NothingLost` and the facts they need: sequence
  numbers in the queue are distinct and not above `lastSeq`, the item in hand is
  not in the queue, and its fate fits the location. `Refinement` maps each step
  to a step of `CommandLifecycle` or a stutter from that invariant.
- `MessagingProofs`, the broker: that an entry belongs to a live caller and a live caller has
  its entry until `close()` is inductive together with "the future of a live
  caller whose entry is there is not cancelled". `FuturesClosed` and
  `OneRequestPerField` follow from it.
- `AliyunMQTTProofs`: `RefusalsBounded` needs that the refusals counted so far
  are not above the refresh cycles, plus one while a refresh is under way;
  `GivenUp` needs what each location says of `stop` and `avail`. `KeepsContract`,
  the refinement of `CloudTransport`, needs of each location what the listeners
  were told there (`ToldInv`). `NobodyHeld` is the theorem of the contract read
  back through the mapping.
- `MammotionMQTTProofs`: the same contract for the sibling. Its invariant says
  what the listeners were told at each location, that a task is gone exactly when
  a `disconnect()` is to wake, and that a second rejection finds the flag of the
  first (`TypeCorrect`, three rejections in a row never happen).
- `BLETransportProofs`: one task at most is inside `_connect_lock`, links are
  numbered up to `last`, and a client whose link is down has its callback still to
  run (`LinksInv`), which is what CONNECTED may be about while it is said
  (`UpInv`): `NoGhost` follows. `LinkIsTold` needs that a live client nobody was
  told of is being set up, or was left by an abandoned `connect()` (`ToldInv`).
- `TokenManagerProofs`: each lock has one holder, every location belongs to a
  kind of task, and the token in an exchange is the held one (`SentHeld`): a
  rejection then means that an answer was lost. The steps fall into legal moves
  of one task (`Moved`) and ends of an exchange (`Exchanged`).
- `HandleProofs`, report streams: a task is in its second try only while it
  verifies, and after `stop()` neither worker nor loop is there to set a flag.
- `HandleProofs`, the send path (`SendInv`). `QuotaKept` is not inductive: what is
  bounded by the quota and the sends of others is what the log holds *and* what
  the sends in flight, this mower's own among them, will add to it (`Charged`).
  `OfflineIsQuiet` needs that a mower not called offline, or one whose sync is
  under way, has had no stray payload yet (`Quiet`). `BackoffExact` needs that
  the log is sorted (`Sorted`): the age of the one send that must leave then
  bounds how many are in the window at any later time (`WindowCount`), which is a
  count of an interval of positions. `GateOwned`: a closed gate always has a
  receive loop that is dialling behind it, so that what opens the gate is still
  to come (`Gate`). `CloudContract`: the transport of this module does only what
  `CloudTransport` allows.
- `MessagingProofs`, the sagas. Every saga shares `Core`: the types, what the
  device may have put on the wire (`Wire`), and what holds at each place of a run
  (`Places`). `FetchInv` adds, for each kind, what makes a frame count of *this*
  run. A stream and a border count the frames they bank, and those of one edition
  are told apart by their numbers, so that as many as the total says are all of
  them (`WholeCount`). Plans and tile chunks are counted, not told apart: there
  at most one frame of the run is under way at a time, in the queue or still to
  come (`Pending`, `PlanInv`, `SvgInv`), which is why a late one spoils them.
  `PathInv` follows the cover paths: what is in the map has come and what has not
  come is of this run (`CoverInv`), the list of an undisturbed run is the device's
  (`LinesInv`), and each hash is covered, in a batch still to be asked for, or in
  the one that is being waited for (`BatchInv`). The batches are shown to cut the
  whole of what is missing, for any batch size (`BatchesCover`). It is the clause
  of `BatchInv` about the queue, at most one frame and of this batch, that the
  counterexample of `path_batches` breaks, and the one that `paced` is there for.
- `ClientProofs`, the migration: `AliyunSurvives` rests on two facts of
  `SharedInv`: a registered mower attached to the Aliyun transport is a member of
  the account, and a mower in `stop()` that is still attached was the last
  member. `OneMigration` needs that who started a hook is no longer
  attached. That the number of transports made stays in its range is an argument
  of cardinality: each is charged to a mower that can make no other (`MadeInv`).
- `ClientProofs`, the map. `MapCore` holds of every fetch, disturbed or not: the
  types, the shape of the root lists (the frames of one list have one place among
  the lists and each its own number, `RootOK`), and what is true where the saga is
  suspended (`Places`). `CalmInv` is about a run that nothing has disturbed. It is
  not enough to say that what the saga *takes* is in the map: a frame acknowledged
  brings the next one, so it must hold of frames still on the wire that those
  before them are in the map (`NewFrames`). While the list is fetched, the frames
  banked are in the root list, which is a part of the edition's (`RootPhase`,
  `Part`); as many distinct numbers as the list has are then all of them
  (`AllBanked`), and the list is exact. While elements are fetched, what is queued
  is in the map with all frames before it, and a hash given up as addressed is
  complete (`DataPhase`): here a frame that is the last of its element can never
  leave it incomplete (`LastIs`). So a run ends only when every hash of an exact
  list is whole, and pruning leaves the edition's copy (`WholeIs`). Two facts
  carry this to `MapCopy`: in an exact list each frame has its own number as its
  place, whatever order the frames came in (`WholeList`), and after the end a
  late frame of the run changes neither list nor elements (`PartUpdated`,
  `ArriveDataCalm`). TLC has checked `MapCore` and `CalmInv` as invariants of the
  run `map` before they were proved.

Safety that is proved and not checked by a run: `SagaSlotOwned`, `GivenUp`,
`LinkIsTold`, `SchedulerLives`, `NoDoomedRequest`, `StoppedIsQuiet`,
`OneMigration`, `GateIsOwned`, and the properties of section 2 marked "proved only".

Three models were put into forms a proof can use, which define the same: the log of
the send window ages by a count of what leaves instead of a filter; the hashes
a path asks for are a set, listed by `SetToSeq`, instead of a filtered sequence;
the root lists are a set of frames with their places instead of sorted sequences.

Every invariant that a run checks is proved, and so are the refinements. Only
model-checked: the liveness properties (fairness and ENABLED are out of reach of
the prover) and the refuted statements. The `MC` modules evaluate the assumptions.

## 6. Where the code and its words part

One run refutes a docstring of the repository; `PROJECT.json` quotes it, with its
line, under `findings`.

- `path_batches`: the batches of a mow path share one queue of frames, and the
  saga asks the map whether something is missing, in which the reducer has put
  every frame that arrived. A frame of batch 1 that waits in the queue while the
  map has all of batch 1 is taken for the end of batch 2, and the saga completes
  without the paths of that batch. It needs more than 20 hashes. `PathWhole` says
  that nothing else does this: while each frame is taken before the next one
  comes, a path that is complete is whole.

Other places where comment and code part, met while modelling. No run is spent
on them; the models do what the code does, and the properties hold all the same.

- `token_manager.py:696-698`, `900`: a connection that the server drops in the
  middle of an exchange is a `ClientError` that `is_transient_network_error()`
  (`base.py:129-135`) does not know; it marks the account for a new login, against
  `tests/unit/http/test_token_refresh.py:211` and `http.py:462-466` (`Dropped` in
  `TokenManager`).
- `mqtt.py:290`: `_give_up()` is said to stop the receive loop. When a sender calls
  it while the loop awaits its credential check, the check clears the stop event
  (196) and the loop dials on (`Checked` in `MammotionMQTT`).
- `client.py:1666`: the account's Mammotion transport is looked for before an await
  (1673) and stored after it (1684): two mowers unbound together make two, and the
  account knows one of them (`NotListed`, `MakeTransport` in `CloudMigration`).
- `command_queue.py:112`: an EMERGENCY command is said to bypass the gate. The
  processor may wait at it with another item in its hands (266), and then the
  EMERGENCY command waits behind it.
- `command_queue.py:44-45`: the age of a command is looked at on dequeue (244)
  only; the gate may hold it beyond its TTL and it is dispatched all the same.
- `broker.py:158-161`: a reply between the last deadline and the run of the
  cancelled caller is given to a future nobody reads, and not to the event bus.
- `aliyun_mqtt.py:428`: the `bind_reply` that announces an expiry is itself a
  message and resets the budget (377-380) that should bound the refreshes.
- `ble.py:276-293`, `327`: the handlers of `connect()` name `BleakError`, and after
  the dial `TimeoutError` and `OSError`; a cancellation, or another error, passes
  them. CONNECTING stays told while nobody connects and the failure is not
  counted; a link whose setup is cut short stays connected without its
  notifications, which 328-331 calls a wedged transport (`Abandoned`), until a
  write fails, the link drops or somebody disconnects.
- `ble.py:306`, `459`: a drop during an await of `connect()` or `send()` clears
  `_client`, and the code behind the await raises `AttributeError`, which the
  docstrings (227-232, 332-335) do not name.
- `token_manager.py:895`: a refresh token refused under the decorator of
  `get_mqtt_credentials()` does not mark the account, against 431-433 and
  687-688.
- `token_manager.py:527`: the scheduler finds the token due before it takes the
  lock, and renews once more what another task has renewed meanwhile.
- `aliyun_mqtt.py:482`: after an expired bind the availability stays that of the
  closed session until the refresh and the sleep are over.
- `transfers.py:125-128`, `166`: the root list ends when as many frame numbers
  were banked as a frame announces. After an edit a list of the same length
  lends its frames, and the map mixes two editions until the next report
  (`map_saga.py:293-294`, `311` look at the map, not at the edition).
- `client.py:332-336`: a changed hash that is reported during a saga is dropped,
  although 315-316 says that a change triggers a fetch.
- `hash_list.py:1035-1043`: a root list that does not match is dropped and its
  elements pruned only while a list is left (838-839, 1047-1048), so elements of
  an old edition may outlive it in an empty map.
- `ble_loop.py:185-198`: the watchdog of the stream looks at `_last_report_at`,
  which every frame stamps (`handle.py:610-616`): a stream whose reports stopped
  while other frames go on counts as active.
- `mqtt_loop.py:74-76` says that the loop defers to BLE while the link streams;
  the flag is set by the confirmation (`handle.py:1541-1543`) and not cleared
  when a stream is stopped for another reason than the loop's.
- `svg_saga.py:80`: an answer is not held against the chunk it answers. A late
  answer to chunk 1 counts for chunk 2, and its hash is the result.
- `transfers.py:210-212`: a late, repeated or pushed `todev_planjob_set` takes the
  place of the plan that was asked for; the fetch counts answers, not plans.
- `edge_saga.py:69-71`: a retry must not begin the walk again, but the flag is set
  only after the send returned: a gateway timeout of a command that arrived begins
  it twice (`WalkUnsure`). And one that was lost is never sent again once the send
  returned.
- `mow_path_saga.py:153-155`: silence on the line hashes is said to be an empty
  answer; the list of an earlier run that is still in the map is used instead.
- `hash_list.py:875-900`: a transaction of another run that is incomplete keeps
  "something is missing" true until one of its frames arrives again; taking it out
  then changes the progress (`mow_path_saga.py:111`), which refreshes the budget.
- `aliyun_mqtt.py:277`: the transport's own gate does not know the firmware, so an
  exempt mower is let through by the handle and refused by the transport, against
  `handle.py:455-457` and `base.py:445-447` (`Refused` in `SendPath`).
- `handle.py:1744-1778`: the send of a fallback is outside the handlers; a 429 or an
  offline answer to it is not recorded.
- `handle.py:391-398`: BLE that drops while the cloud transport is dialling does not
  close the gate again; and a command woken at the gate passes even if the gate
  closes before it runs.
- `base.py:521`: the window is said to be 24 hours long and is 12.
- `handle.py:683`: a power-off notice over BLE writes the state of MQTT into the
  field of BLE.

## 7. Not modelled, and the plan

Abstracted on purpose: payloads and their encoding, logging, topics, time
other than by its order, the user's host application.

Known limits: the reuse of a field name between a closed and a new broker; threads of bleak's
backends (callbacks are modelled when they reach the loop).

The next modules, in order:
1. The Aliyun session of the token manager (`_refresh_aliyun`, `connect_iot`).
2. The BLE heartbeat and the dynamics-line loop, beside `ReportStream`.
3. BluFi frame assembly as a pure algorithm.

Left out for good: generated protobuf code, request and command formatting,
rendering, product tables, the example programs.
