---------------------------- MODULE BLETransport ----------------------------
(***************************************************************************)
(* BLETransport (pymammotion/transport/ble.py): the GATT link to a device. *)
(* Several tasks call connect() and send(); _operation_lock serialises the *)
(* writes, _connect_lock the connects, and the write that finds no link    *)
(* connects while it holds the former.  disconnect(), the disconnect       *)
(* callbacks of bleak and the supply of a BLEDevice take neither lock.     *)
(*                                                                         *)
(* A link is one BleakClient that establish_connection() returned; bleak,  *)
(* the adapter and the radio are the environment.  pc[t]:                  *)
(*    idle          in no call                                             *)
(*    joining       waiting for _connect_lock                              *)
(*    scanning      in _self_managed_discover()                            *)
(*    establishing  in establish_connection()                              *)
(*    releasing     in stop_notify()                                       *)
(*    subscribing   in start_notify()                                      *)
(*    syncing       in _ble_sync()                                         *)
(*    tearing       in client.disconnect() of connect()'s error path       *)
(*    writing       in post_custom_data_bytes() of _write_payload()        *)
(* A writer between "idle" and "idle" holds _operation_lock.  The          *)
(* availability listeners are those of DeviceHandle and never suspend.     *)
(***************************************************************************)
EXTENDS Naturals

CONSTANTS
    Writers,     \* tasks that call send()
    Connectors,  \* tasks that call connect()
    Threshold,   \* connect_failure_threshold
    MaxLinks     \* bound: links established in a behaviour

ASSUME BLEAssumption ==
    /\ Writers \cap Connectors = {}
    /\ Threshold \in Nat \ {0}
    /\ MaxLinks \in Nat

Tasks == Writers \cup Connectors
Links == 1 .. MaxLinks
None  == 0

VARIABLES
    pc,
    using,     \* the link of the bleak call a task awaits
    client,    \* the link of _client and _message, which change together
    last,      \* the links established so far
    up,        \* links whose BleakClient reports is_connected
    drops,     \* links whose disconnect callback is scheduled
    avail,     \* _availability
    closing,   \* disconnect() awaits client.disconnect()
    device,    \* _ble_device is not None
    failures,  \* _consecutive_failures
    cooldown,  \* _connect_cooldown_until lies ahead
    left       \* history: the link an abandoned connect() left half set up

vars == <<pc, using, client, last, up, drops, avail, closing, device,
          failures, cooldown, left>>

Locked == {"scanning", "establishing", "releasing", "subscribing", "syncing", "tearing"}

TypeOK ==
    /\ pc \in [Tasks -> {"idle", "joining", "writing"} \cup Locked]
    /\ using \in [Tasks -> Links \cup {None}]
    /\ client \in Links \cup {None}
    /\ last \in Links \cup {None}
    /\ up \subseteq Links
    /\ drops \subseteq Links
    /\ avail \in {"connected", "connecting", "disconnected"}
    /\ closing \in BOOLEAN
    /\ device \in BOOLEAN
    /\ failures \in 0 .. Threshold - 1
    /\ cooldown \in BOOLEAN
    /\ left \in Links \cup {None}

Init ==
    /\ pc = [t \in Tasks |-> "idle"]
    /\ using = [t \in Tasks |-> None]
    /\ client = None
    /\ last = None
    /\ up = {}
    /\ drops = {}
    /\ avail = "disconnected"
    /\ closing = FALSE
    /\ device = TRUE
    /\ failures = 0
    /\ cooldown = FALSE
    /\ left = None

IsConnected == client \in up

Await(t, l, k) == pc' = [pc EXCEPT ![t] = l] /\ using' = [using EXCEPT ![t] = k]
Leave(t)       == Await(t, "idle", None)

\* The client is given up: _client and _message cleared, DISCONNECTED told.
ForgetClient == client' = None /\ UNCHANGED avail           \* mutant: nobody is told
DropClient   == client' = None /\ avail' = "disconnected"

-----------------------------------------------------------------------------
(* connect().                                                              *)

LockFree   == \A t \in Tasks : pc[t] \notin Locked
WriterFree == \A t \in Writers : pc[t] = "idle"

\* connect() returned with _client = k: a writer goes on to its write, unless
\* there is no client.
Proceed(t, k) == IF t \in Writers /\ k # None THEN Await(t, "writing", k) ELSE Leave(t)

\* Under the lock, a device known: return if connected, else dial.
Dial(t) ==
    \/ IsConnected /\ Proceed(t, client) /\ UNCHANGED avail
    \/ ~ IsConnected /\ Await(t, "establishing", None) /\ avail' = "connecting"

\* The lock is taken: the cooldown is looked at again, and without a device
\* the call fails or scans for one.
EnterBlindly(t) == Dial(t)           \* mutant: no second look at the cooldown
Enter(t) ==
    \/ cooldown /\ Leave(t) /\ UNCHANGED avail
    \/ ~ cooldown /\ device /\ Dial(t)
    \/ ~ cooldown /\ ~ device /\ Leave(t) /\ UNCHANGED avail
    \/ ~ cooldown /\ ~ device /\ Await(t, "scanning", None) /\ UNCHANGED avail

Connect(t) ==
    \/ cooldown /\ Leave(t) /\ UNCHANGED avail
    \/ ~ cooldown /\ ~ LockFree /\ Await(t, "joining", None) /\ UNCHANGED avail
    \/ ~ cooldown /\ LockFree /\ Enter(t)

CallConnect(t) ==
    /\ t \in Connectors
    /\ pc[t] = "idle"
    /\ Connect(t)
    /\ UNCHANGED <<client, last, up, drops, closing, device, failures, cooldown, left>>

Joined(t) ==
    /\ pc[t] = "joining"
    /\ LockFree
    /\ Enter(t)
    /\ UNCHANGED <<client, last, up, drops, closing, device, failures, cooldown, left>>

\* The scan found a device, or none and connect() raises.
Scanned(t) ==
    /\ pc[t] = "scanning"
    /\ \/ device' = TRUE /\ Dial(t)
       \/ UNCHANGED device /\ IF device THEN Dial(t) ELSE Leave(t) /\ UNCHANGED avail
    /\ UNCHANGED <<client, last, up, drops, closing, failures, cooldown, left>>

\* establish_connection() returned a new client.  By then the callbacks of
\* the links that dropped before have run: they take two turns of the loop.
Established(t) ==
    /\ pc[t] = "establishing"
    /\ drops = {}
    /\ last < MaxLinks
    /\ last' = last + 1
    /\ client' = last + 1
    /\ up' = up \cup {last + 1}
    /\ Await(t, "releasing", last + 1)
    /\ UNCHANGED <<drops, avail, closing, device, failures, cooldown, left>>

\* _record_connect_failure(): at the threshold, or at once when the adapter is
\* out of slots, the cooldown begins.
FailureLate(atOnce) ==               \* mutant: off by one
    IF atOnce \/ failures >= Threshold
    THEN failures' = 0 /\ cooldown' = TRUE
    ELSE failures' = failures + 1 /\ UNCHANGED cooldown
Failure(atOnce) ==
    IF atOnce \/ failures + 1 >= Threshold
    THEN failures' = 0 /\ cooldown' = TRUE
    ELSE failures' = failures + 1 /\ UNCHANGED cooldown

EstablishFails(t) ==
    /\ pc[t] = "establishing"
    /\ avail' = "disconnected"
    /\ \E atOnce \in BOOLEAN : Failure(atOnce)
    /\ Leave(t)
    /\ UNCHANGED <<client, last, up, drops, closing, device, left>>

\* stop_notify() returned or raised; _client is read again.
Released(t) ==
    /\ pc[t] = "releasing"
    /\ \/ client # None /\ Await(t, "subscribing", client)
       \/ client = None /\ Leave(t)       \* AttributeError
    /\ UNCHANGED <<client, last, up, drops, avail, closing, device, failures, cooldown, left>>

\* start_notify() succeeded: CONNECTED is told and the failures are forgotten,
\* then _ble_sync() writes.

Subscribed(t) ==
    /\ pc[t] = "subscribing"
    /\ using[t] \in up
    /\ avail' = "connected"
    /\ failures' = 0
    /\ IF IsConnected THEN Await(t, "syncing", client) ELSE Proceed(t, client)
    /\ UNCHANGED <<client, last, up, drops, closing, device, cooldown, left>>

\* The sync writes to the client itself: it does not wait for _operation_lock.
SyncQueued == WriterFree             \* mutant: the sync goes through send()
SyncAtOnce == TRUE

Synced(t) ==
    /\ pc[t] = "syncing"
    /\ SyncAtOnce
    /\ using[t] \in up
    /\ Proceed(t, client)
    /\ UNCHANGED <<client, last, up, drops, avail, closing, device, failures, cooldown, left>>

\* The end of the error path: the client is given up and the failure counted.
TornDown(t) ==
    /\ DropClient
    /\ Failure(FALSE)
    /\ Leave(t)

\* start_notify() or the sync raised: the link is torn down.  Without a client
\* there is nothing to await.
SetupFails(t) ==
    /\ pc[t] = "subscribing" \/ (pc[t] = "syncing" /\ SyncAtOnce)
    /\ IF client = None
       THEN TornDown(t)
       ELSE Await(t, "tearing", client) /\ UNCHANGED <<client, avail, failures, cooldown>>
    /\ UNCHANGED <<last, up, drops, closing, device, left>>

\* client.disconnect() returned or raised, the link being down or not.
TearReturns(t) ==
    /\ pc[t] = "tearing"
    /\ TornDown(t)
    /\ UNCHANGED <<last, up, drops, closing, device, left>>

-----------------------------------------------------------------------------
(* send().                                                                 *)

\* _operation_lock is taken: write, or connect first.
Send(t) ==
    /\ t \in Writers
    /\ WriterFree
    /\ IF IsConnected THEN Await(t, "writing", client) /\ UNCHANGED avail ELSE Connect(t)
    /\ UNCHANGED <<client, last, up, drops, closing, device, failures, cooldown, left>>

\* The write raised: the client is given up, without closing its link.
WriteFails(t) ==
    /\ pc[t] = "writing"
    /\ DropClient
    /\ Leave(t)
    /\ UNCHANGED <<last, up, drops, closing, device, failures, cooldown, left>>

\* The write returned; then is_connected of whatever _client is now.
WriteReturns(t) ==
    /\ pc[t] = "writing"
    /\ using[t] \in up
    /\ \/ IsConnected /\ UNCHANGED <<client, avail>>
       \/ ~ IsConnected /\ client # None /\ DropClient
       \/ client = None /\ UNCHANGED <<client, avail>>       \* AttributeError
    /\ Leave(t)
    /\ UNCHANGED <<last, up, drops, closing, device, failures, cooldown, left>>

-----------------------------------------------------------------------------
(* Abandoned calls.                                                        *)

\* CancelledError at the await of a call -- a timeout of a saga, stop() of the
\* queue or the handle -- or an error its handlers do not name: the locks are
\* released and nothing is told, counted or torn down.
HalfSetUp(t) == pc[t] \in {"releasing", "subscribing", "tearing"}

Abandoned(t) ==
    /\ pc[t] # "idle"
    /\ left' = IF HalfSetUp(t) THEN client ELSE left
    /\ Leave(t)
    /\ UNCHANGED <<client, last, up, drops, avail, closing, device, failures, cooldown>>

-----------------------------------------------------------------------------
(* Everybody else.                                                         *)

\* A link goes down.  bleak calls _handle_disconnect(), which schedules
\* _on_disconnect_async() on the loop.
NotScheduled(l) == UNCHANGED drops   \* mutant: the handler task is lost
Scheduled(l)    == drops' = drops \cup {l}

LinkDrops(l) ==
    /\ l \in up
    /\ up' = up \ {l}
    /\ Scheduled(l)
    /\ UNCHANGED <<pc, using, client, last, avail, closing, device, failures, cooldown, left>>

\* _on_disconnect_async(): whatever client there is is given up.
DropHandled(l) ==
    /\ l \in drops
    /\ drops' = drops \ {l}
    /\ DropClient
    /\ UNCHANGED <<pc, using, last, up, closing, device, failures, cooldown, left>>

\* disconnect().
Disconnect ==
    /\ ~ closing
    /\ IF IsConnected THEN closing' = TRUE /\ UNCHANGED <<client, avail>>
                      ELSE DropClient /\ UNCHANGED closing
    /\ UNCHANGED <<pc, using, last, up, drops, device, failures, cooldown, left>>

\* client.disconnect() returned, or raised with the link still there.
DisconnectReturns ==
    /\ closing
    /\ closing' = FALSE
    /\ DropClient
    /\ UNCHANGED <<pc, using, last, up, drops, device, failures, cooldown, left>>

\* Likewise: a cancelled disconnect(), or no BleakError.
DisconnectAbandoned ==
    /\ closing
    /\ closing' = FALSE
    /\ UNCHANGED <<pc, using, client, last, up, drops, avail, device, failures, cooldown, left>>

SetBleDevice ==
    /\ device' = TRUE
    /\ UNCHANGED <<pc, using, client, last, up, drops, avail, closing, failures, cooldown, left>>

ClearBleDevice ==
    /\ device' = FALSE /\ failures' = 0 /\ cooldown' = FALSE
    /\ UNCHANGED <<pc, using, client, last, up, drops, avail, closing, left>>

CooldownOver ==
    /\ cooldown
    /\ cooldown' = FALSE
    /\ UNCHANGED <<pc, using, client, last, up, drops, avail, closing, device, failures, left>>

-----------------------------------------------------------------------------
\* A call goes on.
Step(t) ==
    \/ Joined(t) \/ Scanned(t)
    \/ Established(t) \/ EstablishFails(t)
    \/ Released(t)
    \/ Subscribed(t) \/ Synced(t) \/ SetupFails(t) \/ TearReturns(t)
    \/ WriteFails(t) \/ WriteReturns(t)

Next ==
    \/ \E t \in Tasks : CallConnect(t) \/ Send(t) \/ Step(t) \/ Abandoned(t)
    \/ \E l \in Links : LinkDrops(l) \/ DropHandled(l)
    \/ Disconnect \/ DisconnectReturns \/ DisconnectAbandoned
    \/ SetBleDevice \/ ClearBleDevice \/ CooldownOver

Spec == Init /\ [][Next]_vars

\* bleak's calls end, and the loop runs what is scheduled.  An asyncio.Lock
\* serves those who wait in their order, so none waits for ever while it is
\* released again and again.
FairSpec ==
    /\ Spec
    /\ \A t \in Tasks : WF_vars(Step(t)) /\ SF_vars(Joined(t))
    /\ \A l \in Links : WF_vars(DropHandled(l))
    /\ WF_vars(DisconnectReturns)

-----------------------------------------------------------------------------
(* Properties.                                                             *)

\* What it says does not outlive what it is about: once the last link is down
\* and its callback has run, CONNECTED is gone, although the callback, the
\* failed write, the error path and disconnect() tell the listeners in any
\* order, or are cut short.  CONNECTING does outlive the connect() that told
\* it, when that is abandoned (ble.py:276-293).
NoGhost == avail = "connected" /\ drops = {} => up # {}

\* "leaving it connected would wedge the transport" (ble.py:328-331): when no
\* connect() is under way, a live client is one the listeners were told of, so
\* that a failed setup, a drop told in the middle of a dial or a disconnect()
\* beside it leaves no link behind their backs.  Only a connect() abandoned in
\* its setup does.
LinkIsTold == LockFree /\ IsConnected => avail = "connected" \/ client = left

\* "must not both call establish_connection": a task that waited for the lock
\* does not dial over the link, or within the cooldown, that the previous
\* holder left behind.
DialsOnlyWhenDown == \A t \in Tasks : pc[t] = "establishing" => ~ IsConnected
DialsOutsideCooldown == \A t \in Tasks : pc[t] = "establishing" => ~ cooldown
DialsAreDue == DialsOnlyWhenDown /\ DialsOutsideCooldown

\* "this nested call doesn't self-deadlock": every connect() and send() ends,
\* though a write connects under its lock and connecting writes.
CallsEnd == \A t \in Tasks : pc[t] # "idle" ~> pc[t] = "idle"

\* "a dropped disconnect would leave _client set and availability CONNECTED
\* until the next write fails": a link that dropped is not held for long.
DropNoticed == client # None /\ ~ IsConnected ~> client = None \/ IsConnected
=============================================================================
