--------------------------- MODULE CloudMigration ---------------------------
(***************************************************************************)
(* The mowers of one account when the Aliyun cloud unbinds them            *)
(* (pymammotion/client.py, device/handle.py).  All of them share one       *)
(* Aliyun transport.  A send that is answered 29004 detaches it from its   *)
(* handle and starts a task, the hook, that looks the mower up at          *)
(* Mammotion, several times over minutes, and moves it to the account's    *)
(* Mammotion transport, which the first to need it makes; or removes it.   *)
(* The user may remove a mower at any time.                                *)
(*                                                                         *)
(* A step is the code between two awaits that suspend.  hook says where    *)
(* the hook of a mower is suspended:                                       *)
(*    none         no hook, or a finished one                              *)
(*    starting     scheduled, not run yet                                  *)
(*    listing      get_user_device_list() and get_user_device_page()       *)
(*    fetching     get_mqtt_credentials(), for a new transport             *)
(*    subscribing  _subscribe_mammotion_topics()                           *)
(*    sleeping     until the next attempt                                  *)
(***************************************************************************)
EXTENDS Naturals, FiniteSets

CONSTANTS
    Devices,    \* the mowers
    WithBLE,    \* those with a BLE transport
    Attempts    \* the length of _UNBOUND_MIGRATION_DELAYS

ASSUME MigrationAssumption ==
    /\ IsFiniteSet(Devices)
    /\ WithBLE \subseteq Devices
    /\ Attempts \in Nat \ {0}

\* The Mammotion transports that are made: a hook makes one at most.
Links == 1 .. Cardinality(Devices)

VARIABLES
    registered,  \* handles in the DeviceRegistry
    members,     \* session.device_ids
    aliyun,      \* handles the Aliyun transport is attached to
    aliyunUp,    \* nobody has disconnected it
    link,        \* of a handle: the Mammotion transport attached, or 0
    made,        \* Mammotion transports made
    closed,      \* those that were disconnected
    current,     \* session.mammotion_transport, or 0
    stopping,    \* handles in stop(), before they disconnect what is attached
    hook,
    target,      \* of a hook: the transport it subscribes on
    try,         \* of a hook: the attempt
    known,       \* of a hook: it has found the account of its mower
    hooks        \* history: hooks that a handle has started

cloud   == <<aliyun, aliyunUp, link, made, closed, current>>
account == <<registered, members, stopping>>
tasks   == <<hook, target, try, known, hooks>>
vars    == <<registered, members, aliyun, aliyunUp, link, made, closed, current,
             stopping, hook, target, try, known, hooks>>

TypeOK ==
    /\ registered \subseteq Devices /\ members \subseteq Devices /\ stopping \subseteq Devices
    /\ aliyun \subseteq Devices /\ aliyunUp \in BOOLEAN
    /\ made \in 0 .. Cardinality(Devices)
    /\ closed \subseteq 1 .. made
    /\ current \in 0 .. made
    /\ link \in [Devices -> 0 .. made] /\ target \in [Devices -> 0 .. made]
    /\ hook \in [Devices -> {"none", "starting", "listing", "fetching", "subscribing", "sleeping"}]
    /\ try \in [Devices -> 1 .. Attempts]
    /\ known \in [Devices -> BOOLEAN]
    /\ hooks \in [Devices -> Nat]

Init ==
    /\ registered = Devices /\ members = Devices /\ stopping = {}
    /\ aliyun = Devices /\ aliyunUp = TRUE
    /\ link = [d \in Devices |-> 0]
    /\ made = 0 /\ closed = {} /\ current = 0
    /\ hook = [d \in Devices |-> "none"]
    /\ target = [d \in Devices |-> 0]
    /\ try = [d \in Devices |-> 1]
    /\ known = [d \in Devices |-> FALSE]
    /\ hooks = [d \in Devices |-> 0]

-----------------------------------------------------------------------------
(* Removal.                                                                *)

\* remove_device() up to the awaits of stop(): while other mowers are left on
\* the account, its transports are detached first.
KeepAll(d, rest) == UNCHANGED <<aliyun, link>>       \* mutant: nothing is detached
DetachShared(d, rest) ==
    /\ aliyun' = IF rest = {} THEN aliyun ELSE aliyun \ {d}
    /\ link'   = IF rest = {} THEN link ELSE [link EXCEPT ![d] = 0]

Unregister(d) ==
    /\ registered' = registered \ {d}
    /\ members' = members \ {d}
    /\ stopping' = IF d \in registered THEN stopping \cup {d} ELSE stopping

RemoveDevice(d) ==
    /\ d \in registered
    /\ Unregister(d)
    /\ IF d \in members THEN DetachShared(d, members \ {d}) ELSE UNCHANGED <<aliyun, link>>
    /\ UNCHANGED <<aliyunUp, made, closed, current, tasks>>

\* stop() goes on: what is attached by now is disconnected.
StopEnds(d) ==
    /\ d \in stopping
    /\ stopping' = stopping \ {d}
    /\ aliyunUp' = (aliyunUp /\ d \notin aliyun)
    /\ aliyun' = aliyun \ {d}
    /\ closed' = closed \cup ({link[d]} \ {0})
    /\ link' = [link EXCEPT ![d] = 0]
    /\ UNCHANGED <<registered, members, made, current, tasks>>

-----------------------------------------------------------------------------
(* The hook.                                                               *)

\* DeviceHandle._on_device_unbound().  Sends that were in flight together are
\* answered alike: the later ones find the transport detached.
MayStart(d) == d \in aliyun /\ hook[d] = "none"

Unbound(d) ==
    /\ d \in registered \cup stopping
    /\ hooks[d] < 2                  \* bound on the answers that are looked at
    /\ MayStart(d)
    /\ aliyun' = aliyun \ {d}
    /\ hook' = [hook EXCEPT ![d] = "starting"]
    /\ try' = [try EXCEPT ![d] = 1]
    /\ hooks' = [hooks EXCEPT ![d] = @ + 1]
    /\ UNCHANGED <<account, aliyunUp, link, made, closed, current, target, known>>

Begin(d) ==
    /\ hook[d] = "starting"
    /\ known' = [known EXCEPT ![d] = d \in members]
    /\ hook' = [hook EXCEPT ![d] = "listing"]
    /\ UNCHANGED <<account, cloud, target, try, hooks>>

\* Once more, or never: the finally block re-arms the handle.
LastLate(d) == try[d] > Attempts                       \* mutant: one attempt too many
Last(d)     == try[d] = Attempts
SleepOn(d) == hook' = [hook EXCEPT ![d] = "sleeping"]  \* mutant: the attempts are not counted
NextAttempt(d) ==
    hook' = [hook EXCEPT ![d] = IF Last(d) THEN "none" ELSE "sleeping"]

\* An exception at any of the awaits, or no credentials: a mower may stay
\* without any transport.
AttemptFails(d) ==
    /\ hook[d] \in {"listing", "fetching", "subscribing"}
    /\ known[d]
    /\ NextAttempt(d)
    /\ target' = [target EXCEPT ![d] = 0]
    /\ UNCHANGED <<account, cloud, try, known, hooks>>

\* The mower is not on Mammotion, or its account was not found: at last, one
\* without BLE is removed.
NotListed(d) ==
    /\ hook[d] = "listing"
    /\ NextAttempt(d)
    /\ IF Last(d) /\ d \notin WithBLE
       THEN Unregister(d)
       ELSE UNCHANGED <<registered, members, stopping>>
    /\ UNCHANGED <<cloud, target, try, known, hooks>>

\* It is: _ensure_mammotion_transport() looks for the account's transport.
Listed(d) ==
    /\ hook[d] = "listing" /\ known[d]
    /\ hook' = [hook EXCEPT ![d] = IF current = 0 THEN "fetching" ELSE "subscribing"]
    /\ target' = [target EXCEPT ![d] = current]
    /\ UNCHANGED <<account, cloud, try, known, hooks>>

\* It makes one, connects it and gives it to the account.
MakeTransport(d) ==
    /\ hook[d] = "fetching"
    /\ made' = made + 1
    /\ current' = made + 1
    /\ target' = [target EXCEPT ![d] = made + 1]
    /\ hook' = [hook EXCEPT ![d] = "subscribing"]
    /\ UNCHANGED <<account, aliyun, aliyunUp, link, closed, try, known, hooks>>

\* The mower joins the account and the transport its handle.
Attach(d) ==
    /\ hook[d] = "subscribing"
    /\ members' = members \cup {d}
    /\ link' = [link EXCEPT ![d] = target[d]]
    /\ hook' = [hook EXCEPT ![d] = "none"]
    /\ target' = [target EXCEPT ![d] = 0]
    /\ UNCHANGED <<registered, stopping, aliyun, aliyunUp, made, closed, current, try, known, hooks>>

Wake(d) ==
    /\ hook[d] = "sleeping"
    /\ try' = [try EXCEPT ![d] = IF Last(d) THEN @ ELSE @ + 1]
    /\ hook' = [hook EXCEPT ![d] = "listing"]
    /\ UNCHANGED <<account, cloud, target, known, hooks>>

-----------------------------------------------------------------------------
\* What ends by itself: HTTP calls, sleeps, stop().
Progress(d) ==
    \/ StopEnds(d) \/ Begin(d) \/ Wake(d)
    \/ AttemptFails(d) \/ NotListed(d) \/ Listed(d) \/ MakeTransport(d) \/ Attach(d)

Next == \E d \in Devices : Progress(d) \/ RemoveDevice(d) \/ Unbound(d)

Spec == Init /\ [][Next]_vars /\ \A d \in Devices : WF_vars(Progress(d))

-----------------------------------------------------------------------------
(* Properties.                                                             *)

\* "Account-shared cloud transports are detached - NOT disconnected - while
\* other devices on the same account remain" (client.py:230-234): the Aliyun
\* transport is not taken down under a mower that still uses it.
AliyunSurvives == ~ aliyunUp => aliyun \cap registered = {}

\* A mower is moved once, however many of its sends are answered 29004, and
\* when: the handle is re-armed as soon as a hook ends (handle.py:834-849).
OneMigration == \A d \in Devices : hooks[d] <= 1

\* A hook ends, moved, removed or not: the handle is always re-armed.
UnboundSettles == \A d \in Devices : hook[d] # "none" ~> hook[d] = "none"
=============================================================================
