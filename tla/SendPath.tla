------------------------------ MODULE SendPath ------------------------------
(***************************************************************************)
(* The way of a command out of one mower's queue (pymammotion/device/      *)
(* handle.py send_raw, active_transport, _send_marked; transport/base.py): *)
(* the gate that a reconnecting cloud transport closes, the choice between *)
(* Bluetooth and the cloud, the send quota of the cloud transport, the     *)
(* sync before the payload, and what an answer does -- the mower is        *)
(* offline, unbound, the account is banned.                                *)
(*                                                                         *)
(* The cloud transport is shared by the mowers of an account: the sends of *)
(* the others, and of send_command_and_wait(), use up the quota.  Its      *)
(* connection does what CloudTransport promises.  Time passes in ticks; the *)
(* window is kept as the ages of the sends in it, the oldest first.        *)
(***************************************************************************)
EXTENDS Naturals, Sequences, FiniteSets, SequencesExt

CONSTANTS
    SendLimit,     \* _SEND_LIMIT
    Window,        \* _SEND_WINDOW, in ticks
    BanTime,       \* _RATE_LIMIT_DURATION
    SyncInterval,  \* _MQTT_SYNC_INTERVAL
    Others,        \* bound: sends of other mowers in flight at a time
    MaxLog         \* bound: sends kept in the window

ASSUME SendAssumption ==
    /\ SendLimit \in Nat \ {0}
    /\ Window \in Nat /\ BanTime \in Nat /\ SyncInterval \in Nat
    /\ Others \in Nat /\ MaxLog \in Nat

VARIABLES
    running, told, dead,  \* the cloud transport: see CloudTransport
    aliyun,    \* it is the Aliyun one
    exempt,    \* the mower's firmware knows no quota
    log,       \* _send_timestamps in the window, as ages
    ban,       \* ticks until _rate_limited_until
    flight,    \* others' sends past the quota
    attached,  \* the cloud transport is registered with the handle
    offline,   \* mqtt_reported_offline
    open,      \* the queue's _transport_gate
    linked,    \* BLE is_connected
    near,      \* BLE is_usable: a cached device and no cooldown
    pc, via,   \* the queue's one send, and the transport it is on
    second,    \* it is the fallback send, outside the handlers
    since,     \* ticks since the last sync
    strays     \* history: payloads to a cloud that calls the mower offline, counted to 2

cloud   == <<running, told, dead>>
quota   == <<log, ban, flight>>
fixed   == <<aliyun, exempt>>
ble     == <<linked, near>>
handle  == <<attached, offline, open>>
sender  == <<pc, via, second, since, strays>>
sendVars == <<cloud, fixed, quota, handle, ble, sender>>

Cloud == INSTANCE CloudTransport

-----------------------------------------------------------------------------
(* The quota.                                                              *)

TooFew == Len(log) > SendLimit                 \* mutant: one send too many
Full   == Len(log) >= SendLimit                \* is_rate_limited, the window
Limited == ban > 0 \/ Full

Blocked == Limited /\ ~ exempt                 \* is_send_blocked()
Refused == Limited /\ (aliyun \/ ~ exempt)     \* the transport's own send()

Oldest   == 1                                  \* mutant: the oldest send
Leaving  == Len(log) - SendLimit + 1           \* the send that must age out

\* seconds_until_send_available()
Release ==
    LET left == IF Len(log) < SendLimit \/ log[Leaving] >= Window THEN 0 ELSE Window - log[Leaving]
    IN IF left > ban THEN left ELSE ban

Record == Len(log) < MaxLog /\ log' = Append(log, 0)

\* The sends that have aged out are popped from the old end of the deque.
Tick ==
    /\ \E gone \in 0 .. Len(log) :
           /\ \A i \in 1 .. gone : log[i] >= Window
           /\ gone < Len(log) => log[gone + 1] < Window
           /\ log' = [i \in 1 .. Len(log) - gone |-> log[gone + i] + 1]
    /\ ban' = (IF ban = 0 THEN 0 ELSE ban - 1)
    /\ since' = (IF since > SyncInterval THEN since ELSE since + 1)
    /\ UNCHANGED <<cloud, fixed, flight, handle, ble, pc, via, second, strays>>

\* Other mowers: past the gates, and answered.
OtherBegins ==
    /\ flight < Others /\ ~ Limited
    /\ flight' = flight + 1
    /\ UNCHANGED <<cloud, fixed, log, ban, handle, ble, sender>>

OtherEnds ==
    /\ flight > 0
    /\ flight' = flight - 1
    /\ \/ Record /\ UNCHANGED ban
       \/ UNCHANGED log /\ ban' \in {ban, BanTime}
    /\ UNCHANGED <<cloud, fixed, handle, ble, sender>>

-----------------------------------------------------------------------------
(* The listeners and what the mower says.                                  *)

\* resume_after_reconnect(): who waits at the gate is let through, even if the
\* gate is closed again before it runs.
Resume ==
    /\ open' = TRUE
    /\ pc' = IF pc = "held" THEN "choose" ELSE pc

StayShut(state) == state = "disconnected"      \* mutant: the gate opens on CONNECTED only
Held(state)     == FALSE

\* The cloud transport's listener.
Heard(state) ==
    IF state = "connecting" \/ Held(state)
    THEN open' = (open /\ linked) /\ UNCHANGED pc
    ELSE Resume

CloudTells ==
    /\ \E state \in Cloud!States : Cloud!Tell(state) /\ Heard(state)
    /\ UNCHANGED <<fixed, quota, attached, offline, ble, via, second, since, strays>>

CloudStarts ==
    /\ Cloud!Start
    /\ UNCHANGED <<fixed, quota, handle, ble, sender>>

CloudStops ==
    /\ Cloud!End \/ Cloud!GiveUp
    /\ IF told' # told THEN Heard(told') ELSE UNCHANGED <<open, pc>>
    /\ UNCHANGED <<fixed, quota, attached, offline, ble, via, second, since, strays>>

BleChanges ==
    /\ \/ ~ linked /\ near /\ linked' = TRUE /\ UNCHANGED near /\ Resume
       \/ linked /\ linked' = FALSE /\ near' \in BOOLEAN /\ UNCHANGED <<open, pc>>
       \/ ~ linked /\ near' = ~ near /\ UNCHANGED <<linked, open, pc>>
    /\ UNCHANGED <<cloud, fixed, quota, attached, offline, via, second, since, strays>>

\* A frame or properties over the cloud clear the flag; a status sets it as it
\* says, a power-off notice sets it.
Flag(value) == offline' = value /\ strays' = IF value THEN strays ELSE 0

Inbound ==
    /\ \/ Flag(FALSE)
       \/ attached /\ Flag(TRUE)
    /\ UNCHANGED <<cloud, fixed, quota, attached, open, ble, pc, via, second, since>>

-----------------------------------------------------------------------------
(* send_raw(), by the queue's processor.                                   *)

Queued ==
    /\ pc = "idle"
    /\ pc' = IF open THEN "choose" ELSE "held"
    /\ UNCHANGED <<cloud, fixed, quota, handle, ble, via, second, since, strays>>

UsableAnyway == attached /\ ~ dead             \* mutant: the flag is not looked at
Usable       == attached /\ ~ dead /\ ~ offline   \* _cloud_transport_usable()

\* Transport.send(): its own gate, then the request.
Hand ==
    IF Refused
    THEN pc' = "idle" /\ UNCHANGED strays
    ELSE pc' = "answer" /\ strays' = (IF offline /\ strays < 2 THEN strays + 1 ELSE strays)

\* _send_marked(): the gate, the sync when it is due, the payload.
Marked ==
    /\ via' = "cloud"
    /\ \/ Blocked /\ pc' = "idle" /\ UNCHANGED strays
       \/ ~ Blocked /\ since > SyncInterval /\ pc' = "sync" /\ UNCHANGED strays
       \/ ~ Blocked /\ since <= SyncInterval /\ Hand

\* active_transport(): a live link, a usable cloud, a link that may be made.
Choose ==
    /\ pc = "choose"
    /\ second' = FALSE
    /\ \/ linked /\ via' = "ble" /\ pc' = "write" /\ UNCHANGED strays
       \/ ~ linked /\ Usable /\ Marked
       \/ ~ linked /\ ~ Usable /\ near /\ via' = "ble" /\ pc' = "write" /\ UNCHANGED strays
       \/ ~ linked /\ ~ Usable /\ ~ near /\ pc' = "idle" /\ UNCHANGED <<via, strays>>
    /\ UNCHANGED <<cloud, fixed, quota, handle, ble, since>>

\* The write ends, or fails: then the cloud is tried, once.
Written ==
    /\ pc = "write"
    /\ \/ pc' = "idle" /\ UNCHANGED <<via, second, strays>>
       \/ ~ second /\ Usable /\ second' = TRUE /\ Marked
    /\ UNCHANGED <<cloud, fixed, quota, handle, ble, since>>

Synced ==
    /\ pc = "sync"
    /\ since' = 0
    /\ Hand
    /\ UNCHANGED <<cloud, fixed, quota, handle, ble, via, second>>

Answered ==
    /\ pc = "answer"
    /\ pc' = "idle"
    /\ Record
    /\ UNCHANGED <<cloud, fixed, ban, flight, handle, ble, via, second, since, strays>>

\* A live link takes over the command, outside the handlers.
FallBack ==
    IF linked /\ ~ second THEN pc' = "write" /\ via' = "ble" /\ second' = TRUE
                          ELSE pc' = "idle" /\ UNCHANGED <<via, second>>

\* The sync or the payload is refused.  What the fallback is told is not kept.
Rejected ==
    /\ pc \in {"sync", "answer"}
    /\ \/ /\ ban' = (IF second THEN ban ELSE BanTime)
          /\ pc' = "idle" /\ UNCHANGED <<via, second, attached, offline>>
       \/ /\ offline' = (offline \/ ~ second)
          /\ FallBack /\ UNCHANGED <<ban, attached>>
       \/ /\ aliyun /\ attached' = (attached /\ second)
          /\ FallBack /\ UNCHANGED <<ban, offline>>
       \/ /\ pc' = "idle" /\ UNCHANGED <<ban, via, second, attached, offline>>
    /\ UNCHANGED <<cloud, fixed, log, flight, open, ble, since, strays>>

-----------------------------------------------------------------------------

SendInit ==
    /\ Cloud!Init
    /\ aliyun \in BOOLEAN /\ exempt \in BOOLEAN
    /\ log = <<>> /\ ban = 0 /\ flight = 0
    /\ attached = TRUE /\ offline = FALSE /\ open = TRUE
    /\ linked = FALSE /\ near \in BOOLEAN
    /\ pc = "idle" /\ via = "cloud" /\ second = FALSE
    /\ since = SyncInterval + 1 /\ strays = 0

Steps == Choose \/ Written \/ Synced \/ Answered \/ Rejected

SendNext ==
    \/ Tick \/ OtherBegins \/ OtherEnds
    \/ CloudTells \/ CloudStarts \/ CloudStops \/ BleChanges \/ Inbound
    \/ Queued \/ Steps

\* A dial ends: KeepsDialling of the two transports.
Settles == told = "connecting" /\ (CloudTells \/ CloudStops) /\ told' # "connecting"

\* Requests and writes have timeouts.
SendFairness == WF_sendVars(Settles) /\ WF_sendVars(Steps)

SendSpec == SendInit /\ [][SendNext]_sendVars /\ SendFairness

-----------------------------------------------------------------------------
(* Properties.                                                             *)

\* The types; the flag of a fallback is set only after a first transport failed,
\* and the gate is closed only for a transport that is dialling.
SendTypeOK ==
    /\ Cloud!TypeOK
    /\ log \in Seq(0 .. Window) /\ ban \in 0 .. BanTime /\ flight \in 0 .. Others
    /\ {aliyun, exempt, attached, offline, open, linked, near, second} \subseteq BOOLEAN
    /\ pc \in {"idle", "held", "choose", "write", "sync", "answer"}
    /\ via \in {"cloud", "ble"} /\ since \in 0 .. SyncInterval + 1
    /\ ~ open => told = "connecting"
    /\ pc = "held" => ~ open

\* The quota is looked at before the request and charged after it, so that sends
\* of several mowers may overshoot it: by those in flight and no more, unless the
\* firmware is exempt (base.py is_rate_limited, record_send).
QuotaKept == ~ (exempt /\ ~ aliyun) => Len(log) <= SendLimit + Others

LimitedIn(t) == ban > t \/ Cardinality({i \in DOMAIN log : log[i] + t <= Window}) >= SendLimit

\* Who backs off as seconds_until_send_available() says is not let through any
\* earlier, and is a moment after it (base.py:450-473, mqtt_loop.py:151).
BackoffExact ==
    /\ \A t \in 0 .. Release : t < Release => LimitedIn(t)
    /\ ~ LimitedIn(Release + 1)

\* "so nothing fires MQTT at a dead device": once the mower is called offline, no
\* payload follows over the cloud but the one whose sync was under way
\* (handle.py:705-709, 1906-1912).
OfflineIsQuiet == strays <= 1

\* A command that was taken from the queue ends, even if it was held at the gate
\* by a connection that comes and goes (command_queue.py:105-118).
CommandEnds == pc # "idle" ~> pc = "idle"
=============================================================================
