---------------------------- MODULE TokenManager ----------------------------
(***************************************************************************)
(* TokenManager (pymammotion/auth/token_manager.py) over MammotionHTTP     *)
(* (pymammotion/http/http.py): the renewal of an account's HTTP login.     *)
(* Every exchange rotates the refresh token on the server, and the old one *)
(* is dead from then on.  The calls of the manager hold _lock; an exchange *)
(* holds _refresh_lock of the HTTP client; the decorator of other HTTP     *)
(* calls takes only the latter.  A token is the number of the exchange     *)
(* that issued it.  pc[t]:                                                 *)
(*    idle        in no call (scheduler: asleep)                           *)
(*    request     invoker: in the request that may be answered by a 401    *)
(*    outer       waiting for _lock                                        *)
(*    ensureLock  waiting for _refresh_lock in ensure_token_valid()        *)
(*    renewLock   waiting for _refresh_lock in refresh_token_v2()          *)
(*    ensuring, renewing   in the exchange, from the one or the other      *)
(*    ensured, renewed     in on_login_refreshed, both locks as before     *)
(*    saving      in on_credentials_updated at the end of refresh_http()   *)
(*    code        in fetch_authorization_token()                           *)
(*    fetch       in the request of get_mqtt_credentials()                 *)
(*    retrying    in the sleep of retry_on_network_error                   *)
(*    storing     in on_credentials_updated at the end of _refresh_mqtt()  *)
(*    stopped     scheduler: ended by itself; cancelled: stopped           *)
(***************************************************************************)
EXTENDS Naturals

CONSTANTS
    Invokers,    \* tasks in MQTTTransport._invoke(): refresh_invoke_token()
    Renewers,    \* tasks that call refresh_mqtt_credentials()
    Plain,       \* tasks in any other call under refresh_token_decorator
    scheduler,   \* the task of the refresh scheduler
    MaxTries,    \* _MAX_ATTEMPTS of retry_on_network_error
    MaxTokens    \* bound: tokens the server issues

ASSUME TokenAssumption ==
    /\ Invokers \cap Renewers = {}
    /\ Plain \cap (Invokers \cup Renewers) = {}
    /\ scheduler \notin Invokers \cup Renewers \cup Plain
    /\ MaxTries \in Nat \ {0}
    /\ MaxTokens \in Nat \ {0}

VARIABLES
    live,         \* server: the refresh token it accepts
    held,         \* login_info of the HTTP client, and _http_creds of the manager
    due,          \* the access token expires within five minutes
    pc,
    sent,         \* the refresh token in the exchange of a task, 0 outside
    call,         \* the local variables of a task's call:
                  \*   stale   stale_token of refresh_invoke_token()
                  \*   second  _refresh_mqtt() has renewed the access token
                  \*   tries   attempts of get_mqtt_credentials()
    reauth,       \* reauth_required
    unavailable,  \* mqtt_unavailable
    broken,       \* history: an exchange was dropped, or its answer lost or unreadable
    served        \* history: stale tokens an invoker has had replaced

vars == <<live, held, due, pc, sent, call, reauth, unavailable,
          broken, served>>

Managed == Invokers \cup Renewers \cup {scheduler}
Tasks   == Managed \cup Plain
Tokens  == 1 .. MaxTokens
NoCall  == [stale |-> 0, second |-> FALSE, tries |-> 1]

TypeOK ==
    /\ live \in Tokens
    /\ held \in Tokens
    /\ due \in BOOLEAN
    /\ pc \in [Tasks -> {"idle", "request", "outer", "ensureLock", "renewLock",
                         "ensuring", "renewing", "ensured", "renewed", "saving",
                         "code", "fetch", "retrying", "storing", "stopped", "cancelled"}]
    /\ sent \in [Tasks -> 0 .. MaxTokens]
    /\ call \in [Tasks -> [stale: 0 .. MaxTokens, second: BOOLEAN, tries: 1 .. MaxTries]]
    /\ reauth \in BOOLEAN
    /\ unavailable \in BOOLEAN
    /\ broken \in BOOLEAN
    /\ served \subseteq Tokens

\* The login is there and has been adopted by seed_from_http().
Init ==
    /\ live = 1 /\ held = 1
    /\ due = FALSE
    /\ pc = [t \in Tasks |-> IF t = scheduler THEN "cancelled" ELSE "idle"]
    /\ sent = [t \in Tasks |-> 0]
    /\ call = [t \in Tasks |-> NoCall]
    /\ reauth = FALSE /\ unavailable = FALSE
    /\ broken = FALSE /\ served = {}

-----------------------------------------------------------------------------
(* Locks and calls, each up to its first suspension.                       *)

OuterFree ==
    \A t \in Managed : pc[t] \in {"idle", "request", "outer", "stopped", "cancelled"}

Unlocked  == TRUE                         \* mutant: no _refresh_lock
InnerFree == \A t \in Tasks : pc[t] \notin {"ensuring", "ensured", "renewing", "renewed"}

\* Task t goes to l with the locals c; the request of an exchange carries the
\* refresh token of this moment.
Move(t, l, c) ==
    /\ pc' = [pc EXCEPT ![t] = l]
    /\ call' = [call EXCEPT ![t] = c]
    /\ sent' = [sent EXCEPT ![t] = IF l \in {"ensuring", "renewing"} THEN held ELSE 0]
Goto(t, l) == Move(t, l, call[t])

\* A call ends; the scheduler goes on with its loop.
Leave(t) == Move(t, "idle", NoCall)

\* A call ends in ReLoginRequiredError, which also ends the scheduler.
Quit(t) == Move(t, IF t = scheduler THEN "stopped" ELSE "idle", NoCall)

FailFast == reauth

\* refresh_http(), and refresh_token_v2() in it.
RefreshHttp(t, c) ==
    \/ FailFast /\ Quit(t)
    \/ ~ FailFast /\ InnerFree /\ Move(t, "renewing", c)
    \/ ~ FailFast /\ ~ InnerFree /\ Move(t, "renewLock", c)

\* After ensure_token_valid() comes the request that it decorates: that of
\* get_mqtt_credentials(), or one that is none of our business.
AfterEnsure(t, c) == IF t \in Renewers THEN Move(t, "fetch", c) ELSE Leave(t)

Ensure(t, c) ==
    \/ ~ due /\ AfterEnsure(t, c)
    \/ due /\ InnerFree /\ Move(t, "ensuring", c)
    \/ due /\ ~ InnerFree /\ Move(t, "ensureLock", c)

\* refresh_invoke_token() under _lock: nothing to do when the token that was
\* refused has been replaced.
NeverReplaced(t) == FALSE                 \* mutant: stale_token is ignored
Replaced(t)      == held # call[t].stale

\* What a call does under _lock: refresh_invoke_token(), _refresh_mqtt(), and
\* the scheduler.
Begin(t) ==
    \/ t \in Invokers /\ Replaced(t) /\ Leave(t)
    \/ t \in Invokers /\ ~ Replaced(t) /\ RefreshHttp(t, call[t])
    \/ t \in Renewers /\ (reauth \/ unavailable) /\ Leave(t)
    \/ t \in Renewers /\ ~ (reauth \/ unavailable) /\ Ensure(t, NoCall)
    \/ t = scheduler /\ RefreshHttp(t, NoCall)

Lock(t) == IF OuterFree THEN Begin(t) ELSE Goto(t, "outer")

Rest == <<live, held, due, reauth, unavailable, broken, served>>

\* MQTTTransport._invoke() notes the token it sends.
Send(t) ==
    /\ pc[t] = "idle"
    /\ Move(t, "request", [NoCall EXCEPT !.stale = held])
    /\ UNCHANGED Rest

\* The answer: a 401, or anything else.
Answered(t) ==
    /\ pc[t] = "request"
    /\ Lock(t) \/ Leave(t)
    /\ UNCHANGED Rest

CallRenew(t) ==
    /\ pc[t] = "idle"
    /\ Lock(t)
    /\ UNCHANGED Rest

CallPlain(t) ==
    /\ pc[t] = "idle"
    /\ due
    /\ Ensure(t, NoCall)
    /\ UNCHANGED Rest

\* The scheduler wakes up: it ends when the account is finished, and renews
\* the HTTP token when it was due before the lock was taken.  Its renewal of
\* the MQTT credentials is a call like that of a renewer.
Wake ==
    /\ pc[scheduler] = "idle"
    /\ \/ reauth /\ Quit(scheduler)
       \/ ~ reauth /\ due /\ Lock(scheduler)
    /\ UNCHANGED Rest

Locked(t) ==
    /\ pc[t] = "outer"
    /\ OuterFree
    /\ Begin(t)
    /\ UNCHANGED Rest

\* _refresh_lock is taken; ensure_token_valid() looks at the expiry again.
InnerLocked(t) ==
    /\ InnerFree
    /\ \/ pc[t] = "renewLock" /\ Goto(t, "renewing")
       \/ pc[t] = "ensureLock" /\ Ensure(t, call[t])
    /\ UNCHANGED Rest

-----------------------------------------------------------------------------
(* The exchange.                                                           *)

Exchanging(t) == pc[t] \in {"ensuring", "renewing"}

\* The server accepts the token it issued last, and issues the next one.
Rotate(t) ==
    /\ sent[t] = live
    /\ live < MaxTokens
    /\ live' = live + 1

\* The answer is there: the new tokens are stored, and the listener copies
\* them into the manager before it first suspends.
Accepted(t) ==
    /\ Exchanging(t)
    /\ Rotate(t)
    /\ held' = live + 1
    /\ due' = FALSE
    /\ served' = IF t \in Invokers THEN served \cup {call[t].stale} ELSE served
    /\ Goto(t, IF pc[t] = "ensuring" THEN "ensured" ELSE "renewed")
    /\ UNCHANGED <<reauth, unavailable, broken>>

\* The server refuses a token that is not its last one.  refresh_http() marks
\* the account; ensure_token_valid() only raises ReLoginRequiredError.
Rejected(t) ==
    /\ Exchanging(t)
    /\ sent[t] # live
    /\ reauth' = (reauth \/ pc[t] = "renewing")
    /\ Quit(t)
    /\ UNCHANGED <<live, held, due, unavailable, broken, served>>

\* A transient failure is raised to the caller, and the scheduler sleeps.
\* get_mqtt_credentials() retries those that retry_on_network_error catches.
Backoff(t) == Leave(t)

MayRetryLate(t) == t \in Renewers /\ call[t].tries <= MaxTries   \* mutant: off by one
MayRetry(t)     == t \in Renewers /\ call[t].tries < MaxTries

\* Mutant: the attempts are not counted.
TryAgainUncounted(t) == Goto(t, "retrying")
TryAgain(t) == Move(t, "retrying", [call[t] EXCEPT !.tries = @ + 1])

Transient(t) ==
    \/ Backoff(t)
    \/ pc[t] \in {"ensuring", "ensured", "fetch"} /\ MayRetry(t) /\ TryAgain(t)

\* The exchange fails with an error that is_transient_network_error() knows (no
\* connection, a timeout, a busy server): before the server has rotated the
\* token, or after it, the answer being lost.
Unreachable(t) ==
    /\ Exchanging(t)
    /\ \/ UNCHANGED <<live, broken>>
       \/ Rotate(t) /\ broken' = TRUE
    /\ Transient(t)
    /\ UNCHANGED <<held, due, reauth, unavailable, served>>

\* Every other exception is final for the account, or for the MQTT credentials.
Final(t) ==
    /\ reauth' = (reauth \/ pc[t] = "renewing")
    /\ unavailable' = (unavailable \/ (t \in Renewers /\ pc[t] = "ensuring"))
    /\ Quit(t)

\* An answer that cannot be decoded.
Garbled(t) ==
    /\ Exchanging(t)
    /\ UNCHANGED live \/ Rotate(t)
    /\ broken' = TRUE
    /\ Final(t)
    /\ UNCHANGED <<held, due, served>>

\* The server drops the connection: a ClientError that is no OSError, which
\* only retry_on_network_error knows.
Dropped(t) ==
    /\ Exchanging(t)
    /\ UNCHANGED live \/ Rotate(t)
    /\ broken' = TRUE
    /\ \/ pc[t] = "ensuring" /\ MayRetry(t) /\ TryAgain(t) /\ UNCHANGED <<reauth, unavailable>>
       \/ ~ (pc[t] = "ensuring" /\ MayRetry(t)) /\ Final(t)
    /\ UNCHANGED <<held, due, served>>

\* on_login_refreshed returned.
Notified(t) ==
    /\ \/ pc[t] = "ensured" /\ AfterEnsure(t, call[t])
       \/ pc[t] = "renewed" /\ Goto(t, "saving")
    /\ UNCHANGED Rest

\* The timeout around the exchange ends while the listener still runs.
NotifyTimesOut(t) ==
    /\ pc[t] \in {"ensured", "renewed"}
    /\ Transient(t)
    /\ UNCHANGED Rest

-----------------------------------------------------------------------------
(* After the exchange.                                                     *)

\* refresh_http() returned: the authorization code is next.
Saved(t) ==
    /\ pc[t] = "saving"
    /\ IF t = scheduler THEN Leave(t) ELSE Goto(t, "code")
    /\ UNCHANGED Rest

\* The JWT is given up: _mark_mqtt_unavailable().
GiveUpMqtt(t) ==
    /\ t \in Renewers
    /\ unavailable' = TRUE
    /\ Leave(t)

\* fetch_authorization_token() returned, and a renewer asks for the JWT again;
\* or it raised.
CodeReturns(t) ==
    /\ pc[t] = "code"
    /\ \/ t \in Renewers /\ Ensure(t, [call[t] EXCEPT !.tries = 1]) /\ UNCHANGED unavailable
       \/ GiveUpMqtt(t)
       \/ Leave(t) /\ UNCHANGED unavailable
    /\ UNCHANGED <<live, held, due, reauth, broken, served>>

\* The request for the JWT returned: with data; without, when the access token
\* is renewed once and then the JWT given up; or it raised.
Fetched(t) ==
    /\ pc[t] = "fetch"
    /\ \/ Goto(t, "storing") /\ UNCHANGED unavailable
       \/ ~ call[t].second /\ RefreshHttp(t, [call[t] EXCEPT !.second = TRUE]) /\ UNCHANGED unavailable
       \/ GiveUpMqtt(t)
       \/ Transient(t) /\ UNCHANGED unavailable
    /\ UNCHANGED <<live, held, due, reauth, broken, served>>

Retry(t) ==
    /\ pc[t] = "retrying"
    /\ Ensure(t, call[t])
    /\ UNCHANGED Rest

Stored(t) ==
    /\ pc[t] = "storing"
    /\ Leave(t)
    /\ UNCHANGED Rest

-----------------------------------------------------------------------------
StartScheduler ==
    /\ pc[scheduler] \in {"stopped", "cancelled"}
    /\ Goto(scheduler, "idle")
    /\ UNCHANGED Rest

\* stop_refresh_scheduler(): cancelled anywhere, the answer of an exchange that
\* is under way is lost.
StopScheduler ==
    /\ pc[scheduler] \notin {"stopped", "cancelled"}
    /\ \/ UNCHANGED <<live, broken>>
       \/ Exchanging(scheduler) /\ Rotate(scheduler) /\ broken' = TRUE
    /\ Goto(scheduler, "cancelled")
    /\ UNCHANGED <<held, due, reauth, unavailable, served>>

Age ==
    /\ ~ due
    /\ due' = TRUE
    /\ UNCHANGED <<live, held, pc, sent, call, reauth, unavailable,
                   broken, served>>

Step(t) ==
    \/ Answered(t)
    \/ Accepted(t) \/ Rejected(t) \/ Unreachable(t) \/ Garbled(t) \/ Dropped(t)
    \/ Notified(t) \/ NotifyTimesOut(t) \/ Saved(t)
    \/ CodeReturns(t) \/ Fetched(t) \/ Retry(t) \/ Stored(t)

Next ==
    \/ \E t \in Invokers : Send(t)
    \/ \E t \in Renewers : CallRenew(t)
    \/ \E t \in Plain : CallPlain(t)
    \/ \E t \in Managed : Locked(t)
    \/ \E t \in Tasks : InnerLocked(t) \/ Step(t)
    \/ Wake \/ StartScheduler \/ StopScheduler \/ Age

Spec == Init /\ [][Next]_vars

\* Requests end (the exchange carries a timeout), listeners and sleeps too, and
\* an asyncio.Lock serves those who wait in their order.
FairSpec ==
    /\ Spec
    /\ \A t \in Managed : SF_vars(Locked(t) \/ InnerLocked(t) \/ Step(t))
    /\ \A t \in Plain : SF_vars(InnerLocked(t) \/ Step(t))

-----------------------------------------------------------------------------
(* Properties.                                                             *)

\* The login survives its own concurrency: the refresh token the client holds
\* is the server's last one unless an answer was lost, and the account is
\* declared finished only after server or network broke an exchange, never by
\* the callers alone.
LoginIntact ==
    /\ held = live \/ broken
    /\ reauth => broken

\* A burst of requests that got a 401 on one dead token "produces one refresh":
\* none of them begins to renew a token that was already renewed for another.
OneRefreshPerStaleToken ==
    [][\A t \in Invokers :
          pc[t] # "renewing" /\ pc'[t] = "renewing" => call'[t].stale \notin served]_vars

\* "every subsequent caller gets the same terminal answer immediately rather
\* than queueing another doomed request": whoever waited for a lock meanwhile,
\* no forced renewal begins once the account is finished.
NoDoomedRequest ==
    [][\A t \in Managed : pc[t] # "renewing" /\ pc'[t] = "renewing" => ~ reauth]_vars

\* "the scheduler must survive every transient failure": it ends by itself only
\* when the account is finished.
SchedulerLives == pc[scheduler] = "stopped" => reauth

\* Every call ends, with two nested locks, a listener that runs under both and
\* a retry under the outer one.
CallsEnd ==
    \A t \in Tasks : pc[t] \notin {"idle", "stopped", "cancelled"}
                        ~> pc[t] \in {"idle", "stopped", "cancelled"}
=============================================================================
