-------------------------- MODULE TokenManagerProofs --------------------------
(***************************************************************************)
(* Proofs about TokenManager, for any tasks of each kind, any number of    *)
(* attempts and any number of tokens.                                      *)
(***************************************************************************)
EXTENDS TokenManager, TLAPS

OutsideOuter == {"idle", "request", "outer", "stopped", "cancelled"}
InExchange   == {"ensuring", "renewing"}
InsideInner  == {"ensuring", "ensured", "renewing", "renewed"}
Locations    == OutsideOuter \cup InExchange \cup InsideInner \cup
                {"ensureLock", "renewLock", "saving", "code", "fetch", "retrying", "storing"}
Locals       == [stale: 0 .. MaxTokens, second: BOOLEAN, tries: 1 .. MaxTries]

\* Which tasks may be where.
Fits(t, l) ==
    /\ l \in Locations
    /\ l \in {"ensureLock", "ensuring", "ensured"} => t \in Renewers \cup Plain
    /\ l \in {"outer", "renewLock", "renewing", "renewed", "saving"} => t \in Managed
    /\ l \in {"fetch", "retrying", "storing"} => t \in Renewers
    /\ l = "code" => t \in Invokers \cup Renewers
    /\ l = "request" => t \in Invokers
    /\ l \in {"stopped", "cancelled"} => t = scheduler

\* What an invoker knows of the token that was refused.
KnowsStale(t, l, c) ==
    /\ t \in Invokers /\ l \in {"request", "outer", "renewLock", "renewing"} => c.stale \in 1 .. held
    /\ t \in Invokers /\ l \in {"renewLock", "renewing"} => c.stale \notin served

Roles          == \A t \in Tasks : Fits(t, pc[t])
OuterExclusive == \A t, u \in Managed : pc[t] \notin OutsideOuter /\ pc[u] \notin OutsideOuter => t = u
InnerExclusive == \A t, u \in Tasks : pc[t] \in InsideInner /\ pc[u] \in InsideInner => t = u
SentHeld       == \A t \in Tasks : pc[t] \in InExchange => sent[t] = held
HeldBelow      == held <= live
WaitersLive    == \A t \in Tasks : pc[t] = "renewLock" => ~ reauth
StaleKnown     == \A t \in Tasks : KnowsStale(t, pc[t], call[t])
ServedReplaced == \A s \in served : s < held

IInv ==
    /\ TypeOK /\ Roles /\ OuterExclusive /\ InnerExclusive /\ SentHeld
    /\ HeldBelow /\ LoginIntact /\ SchedulerLives /\ WaitersLive
    /\ StaleKnown /\ ServedReplaced

\* A task may go to l with the locals c.
Legal(t, l, c) ==
    /\ Fits(t, l)
    /\ c \in Locals
    /\ t \in Managed /\ l \notin OutsideOuter => pc[t] \notin OutsideOuter \/ OuterFree
    /\ l \in InsideInner => pc[t] \in InsideInner \/ InnerFree
    /\ l = "renewLock" => ~ reauth
    /\ l = "renewing" => pc[t] = "renewLock" \/ ~ reauth
    /\ l = "stopped" => reauth
    /\ KnowsStale(t, l, c)

LegalMove(t) == \E l, c : Legal(t, l, c) /\ Move(t, l, c)

\* A task that moves legally, nothing else but mqtt_unavailable changing.
LEMMA Moved ==
    ASSUME IInv, NEW t \in Tasks, LegalMove(t), unavailable' \in BOOLEAN,
           UNCHANGED <<live, held, due, reauth, broken, served>>
    PROVE  IInv'
<1>1. PICK l, c : Legal(t, l, c) /\ Move(t, l, c)
    BY DEF LegalMove
<1> USE DEF IInv
<1>2. TypeOK'
    <2>1. pc' \in [Tasks -> Locations]
        BY <1>1, Zenon DEF Legal, Fits, Move, TypeOK, Locations, OutsideOuter, InExchange, InsideInner
    <2>2. call' \in [Tasks -> Locals]
        BY <1>1 DEF Legal, Move, TypeOK, Locals
    <2>3. sent' \in [Tasks -> 0 .. MaxTokens]
        BY <1>1, TokenAssumption DEF Move, TypeOK, Tokens
    <2> QED
        BY <2>1, <2>2, <2>3 DEF TypeOK, Locations, Locals, OutsideOuter, InExchange, InsideInner
<1>3. Roles'
    BY <1>1 DEF Roles, Legal, Fits, Move, TypeOK
<1>4. OuterExclusive'
    BY <1>1 DEF OuterExclusive, Legal, Move, TypeOK, OuterFree, OutsideOuter, Managed, Tasks
<1>5. InnerExclusive'
    BY <1>1 DEF InnerExclusive, Legal, Move, TypeOK, InnerFree, InsideInner
<1>6. SentHeld'
    BY <1>1 DEF SentHeld, Move, TypeOK, InExchange
<1>7. HeldBelow' /\ LoginIntact'
    BY DEF HeldBelow, LoginIntact
<1>8. SchedulerLives'
    BY <1>1 DEF SchedulerLives, Legal, Move, TypeOK
<1>9. WaitersLive'
    BY <1>1 DEF WaitersLive, Legal, Move, TypeOK
<1>10. StaleKnown'
    BY <1>1 DEF StaleKnown, KnowsStale, Legal, Move, TypeOK
<1>11. ServedReplaced'
    BY DEF ServedReplaced
<1> QED
    BY <1>2, <1>3, <1>4, <1>5, <1>6, <1>7, <1>8, <1>9, <1>10, <1>11

(* The moves that the parts of a call make are legal.                      *)

LEMMA LocalsOK == NoCall \in Locals /\ (IInv => \A t \in Tasks : call[t] \in Locals)
BY TokenAssumption DEF NoCall, Locals, IInv, TypeOK

LEMMA RefreshHttpLegal ==
    ASSUME IInv, NEW t \in Managed, NEW c \in Locals, RefreshHttp(t, c),
           pc[t] \notin OutsideOuter \/ OuterFree,
           t \in Invokers => c.stale \in 1 .. held /\ c.stale \notin served
    PROVE  LegalMove(t)
<1>1. CASE FailFast /\ Quit(t)
    <2> DEFINE l == IF t = scheduler THEN "stopped" ELSE "idle"
    <2>1. Legal(t, l, NoCall)
        BY <1>1, LocalsOK DEF Legal, Fits, Locations, KnowsStale, FailFast, OutsideOuter, InsideInner
    <2> QED
        BY <1>1, <2>1 DEF LegalMove, Quit
<1>2. CASE ~ FailFast /\ InnerFree /\ Move(t, "renewing", c)
    <2>1. Legal(t, "renewing", c)
        BY <1>2 DEF Legal, Fits, Locations, InExchange, KnowsStale, FailFast
    <2> QED
        BY <1>2, <2>1 DEF LegalMove
<1>3. CASE ~ FailFast /\ ~ InnerFree /\ Move(t, "renewLock", c)
    <2>1. Legal(t, "renewLock", c)
        BY <1>3 DEF Legal, Fits, Locations, InsideInner, KnowsStale, FailFast
    <2> QED
        BY <1>3, <2>1 DEF LegalMove
<1> QED
    BY <1>1, <1>2, <1>3 DEF RefreshHttp

LEMMA LeaveLegal == ASSUME NEW t \in Tasks, Leave(t) PROVE LegalMove(t)
<1>1. Legal(t, "idle", NoCall)
    BY LocalsOK DEF Legal, Fits, Locations, KnowsStale, OutsideOuter, InsideInner
<1> QED
    BY <1>1 DEF LegalMove, Leave

LEMMA AfterEnsureLegal ==
    ASSUME NEW t \in Tasks, NEW c \in Locals, AfterEnsure(t, c),
           t \in Managed => pc[t] \notin OutsideOuter \/ OuterFree
    PROVE  LegalMove(t)
<1>1. CASE t \in Renewers /\ Move(t, "fetch", c)
    <2>1. Legal(t, "fetch", c)
        BY <1>1 DEF Legal, Fits, Locations, KnowsStale, InsideInner
    <2> QED
        BY <1>1, <2>1 DEF LegalMove
<1> QED
    BY <1>1, LeaveLegal DEF AfterEnsure

LEMMA EnsureLegal ==
    ASSUME NEW t \in Renewers \cup Plain, NEW c \in Locals, Ensure(t, c),
           t \in Managed => pc[t] \notin OutsideOuter \/ OuterFree
    PROVE  LegalMove(t)
<1>0. t \in Tasks
    BY DEF Tasks, Managed
<1>1. CASE AfterEnsure(t, c)
    BY <1>0, <1>1, AfterEnsureLegal
<1>2. CASE InnerFree /\ Move(t, "ensuring", c)
    <2>1. Legal(t, "ensuring", c)
        BY <1>2 DEF Legal, Fits, Locations, InExchange, KnowsStale
    <2> QED
        BY <1>2, <2>1 DEF LegalMove
<1>3. CASE Move(t, "ensureLock", c)
    <2>1. Legal(t, "ensureLock", c)
        BY <1>3 DEF Legal, Fits, Locations, InsideInner, KnowsStale
    <2> QED
        BY <1>3, <2>1 DEF LegalMove
<1> QED
    BY <1>1, <1>2, <1>3 DEF Ensure

LEMMA BeginLegal ==
    ASSUME IInv, NEW t \in Managed, Begin(t), OuterFree,
           t \in Invokers => pc[t] \in {"request", "outer"}
    PROVE  LegalMove(t)
<1>0. t \in Tasks
    BY DEF Tasks
<1>1. CASE Leave(t)
    BY <1>0, <1>1, LeaveLegal
<1>2. CASE t \in Invokers /\ ~ Replaced(t) /\ RefreshHttp(t, call[t])
    <2>1. call[t].stale \in 1 .. held /\ call[t].stale = held
        BY <1>0, <1>2 DEF IInv, StaleKnown, KnowsStale, Replaced
    <2>2. call[t].stale \notin served
        BY <2>1 DEF IInv, ServedReplaced, TypeOK, Tokens
    <2>3. call[t] \in Locals
        BY <1>0, LocalsOK
    <2> QED
        BY <1>2, <2>1, <2>2, <2>3, RefreshHttpLegal
<1>3. CASE t \in Renewers /\ Ensure(t, NoCall)
    BY <1>3, LocalsOK, EnsureLegal
<1>4. CASE t = scheduler /\ RefreshHttp(t, NoCall)
    <2>1. t \notin Invokers
        BY <1>4, TokenAssumption
    <2> QED
        BY <1>4, <2>1, LocalsOK, RefreshHttpLegal
<1> QED
    BY <1>1, <1>2, <1>3, <1>4 DEF Begin

LEMMA LockLegal ==
    ASSUME IInv, NEW t \in Managed, Lock(t), t \in Invokers => pc[t] \in {"request", "outer"}
    PROVE  LegalMove(t)
<1>0. t \in Tasks
    BY DEF Tasks
<1>1. CASE OuterFree /\ Begin(t)
    BY <1>1, BeginLegal
<1>2. CASE Goto(t, "outer")
    <2>1. KnowsStale(t, "outer", call[t])
        BY <1>0 DEF IInv, StaleKnown, KnowsStale
    <2>2. Legal(t, "outer", call[t])
        BY <1>0, <2>1, LocalsOK DEF Legal, Fits, Locations, OutsideOuter, InsideInner
    <2> QED
        BY <1>2, <2>2 DEF LegalMove, Goto
<1> QED
    BY <1>1, <1>2 DEF Lock

\* A transient failure under _lock.
LEMMA TransientFits ==
    ASSUME IInv, NEW t \in Tasks, Transient(t)
    PROVE  \E l \in {"idle", "retrying"}, c \in Locals :
              /\ Fits(t, l) /\ Move(t, l, c)
              /\ l = "retrying" => pc[t] \notin OutsideOuter
<1>1. CASE Leave(t)
    <2>1. Fits(t, "idle")
        BY DEF Fits, Locations, OutsideOuter
    <2> QED
        BY <1>1, <2>1, LocalsOK DEF Leave
<1>2. CASE pc[t] \in {"ensuring", "ensured", "fetch"} /\ MayRetry(t) /\ TryAgain(t)
    <2> DEFINE c == [call[t] EXCEPT !.tries = @ + 1]
    <2>1. call[t].tries + 1 \in 1 .. MaxTries
        BY <1>2, TokenAssumption DEF IInv, TypeOK, MayRetry
    <2>2. c \in Locals
        BY <2>1, LocalsOK DEF Locals
    <2>3. Fits(t, "retrying")
        BY <1>2 DEF Fits, Locations, MayRetry
    <2>4. pc[t] \notin OutsideOuter
        BY <1>2 DEF OutsideOuter
    <2> QED
        BY <1>2, <2>2, <2>3, <2>4 DEF TryAgain
<1> QED
    BY <1>1, <1>2 DEF Transient, Backoff

LEMMA TransientLegal == ASSUME IInv, NEW t \in Tasks, Transient(t) PROVE LegalMove(t)
<1>1. PICK l \in {"idle", "retrying"}, c \in Locals :
         /\ Fits(t, l) /\ Move(t, l, c)
         /\ l = "retrying" => pc[t] \notin OutsideOuter
    BY TransientFits
<1>2. Legal(t, l, c)
    BY <1>1 DEF Legal, KnowsStale, OutsideOuter, InsideInner
<1> QED
    BY <1>1, <1>2 DEF LegalMove

(* The end of an exchange.                                                 *)

\* Where an exchange may leave its task.
After == {"ensured", "renewed", "idle", "retrying", "stopped", "cancelled"}

LEMMA Exchanged ==
    ASSUME IInv, NEW t \in Tasks, Exchanging(t),
           NEW l \in After, NEW c \in Locals, Fits(t, l), Move(t, l, c),
           live' \in Tokens, held' \in Tokens, held <= held', held' <= live',
           held' = live' \/ broken', reauth' => broken',
           due' \in BOOLEAN, unavailable' \in BOOLEAN, reauth' \in BOOLEAN, broken' \in BOOLEAN,
           reauth => reauth',
           reauth' => reauth \/ pc[t] = "renewing",
           l = "stopped" => reauth',
           \/ served' = served
           \/ t \in Invokers /\ served' = served \cup {call[t].stale} /\ held < held'
    PROVE  IInv'
<1> USE DEF IInv
<1>0. t \in Invokers => pc[t] = "renewing" /\ call[t].stale \in 1 .. held
    <2>1. t \in Invokers => pc[t] = "renewing"
        BY TokenAssumption DEF Roles, Fits, Exchanging
    <2> QED
        BY <2>1 DEF StaleKnown, KnowsStale
<1>1. TypeOK'
    <2>1. pc' \in [Tasks -> Locations]
        BY Zenon DEF Fits, Move, TypeOK, Locations, OutsideOuter, InExchange, InsideInner
    <2>2. call' \in [Tasks -> Locals]
        BY DEF Move, TypeOK, Locals
    <2>3. sent' \in [Tasks -> 0 .. MaxTokens]
        BY TokenAssumption DEF Move, TypeOK, After
    <2>4. served' \subseteq Tokens
        <3>1. held \in Tokens /\ served \subseteq Tokens /\ MaxTokens \in Nat
            BY TokenAssumption DEF TypeOK
        <3>2. t \in Invokers => call[t].stale \in Tokens
            BY <1>0, <3>1 DEF Tokens
        <3> QED
            BY <3>1, <3>2
    <2> QED
        BY <2>1, <2>2, <2>3, <2>4 DEF TypeOK, Locations, Locals, OutsideOuter, InExchange, InsideInner
<1>2. Roles'
    BY DEF Roles, Fits, Move, TypeOK
<1>3. OuterExclusive'
    BY DEF OuterExclusive, Exchanging, Move, TypeOK, OutsideOuter, Managed, Tasks
<1>4. InnerExclusive'
    BY DEF InnerExclusive, Exchanging, Move, TypeOK, InsideInner
<1>5. SentHeld'
    BY DEF SentHeld, InnerExclusive, Exchanging, Move, TypeOK, InExchange, InsideInner, After
<1>6. HeldBelow' /\ LoginIntact'
    BY DEF HeldBelow, LoginIntact
<1>7. SchedulerLives'
    BY DEF SchedulerLives, Move, TypeOK
<1>8. WaitersLive'
    <2> SUFFICES ASSUME NEW u \in Tasks, pc'[u] = "renewLock" PROVE ~ reauth'
        BY DEF WaitersLive
    <2>1. u # t /\ pc[u] = "renewLock"
        BY DEF Move, TypeOK, After
    <2>2. ~ reauth /\ u \in Managed
        BY <2>1 DEF WaitersLive, Roles, Fits
    <2>3. pc[t] = "renewing" => t \in Managed
        BY DEF Roles, Fits
    <2> QED
        BY <2>1, <2>2, <2>3 DEF OuterExclusive, OutsideOuter
<1>9. StaleKnown'
    <2> SUFFICES ASSUME NEW u \in Tasks PROVE KnowsStale(u, pc[u], call[u])'
        BY DEF StaleKnown
    <2>1. CASE u = t
        BY <2>1 DEF KnowsStale, Move, TypeOK, After
    <2>2. CASE u # t
        <3>1. pc'[u] = pc[u] /\ call'[u] = call[u]
            BY <2>2 DEF Move, TypeOK
        <3>2. KnowsStale(u, pc[u], call[u])
            BY DEF StaleKnown
        <3>3. ~ (t \in Invokers /\ u \in Invokers /\ pc[u] \in {"renewLock", "renewing"})
            BY <1>0, <2>2 DEF OuterExclusive, OutsideOuter, Managed
        <3> QED
            BY <3>1, <3>2, <3>3 DEF KnowsStale, TypeOK, Tokens
    <2> QED
        BY <2>1, <2>2
<1>10. ServedReplaced'
    <2>1. \A s \in served : s \in Nat /\ s < held
        BY DEF ServedReplaced, TypeOK, Tokens
    <2>2. held \in Nat /\ held' \in Nat /\ MaxTokens \in Nat
        BY TokenAssumption DEF TypeOK, Tokens
    <2>3. CASE served' = served
        BY <2>1, <2>2, <2>3 DEF ServedReplaced
    <2>4. CASE t \in Invokers /\ served' = served \cup {call[t].stale} /\ held < held'
        BY <1>0, <2>1, <2>2, <2>4 DEF ServedReplaced
    <2> QED
        BY <2>3, <2>4
<1> QED
    BY <1>1, <1>2, <1>3, <1>4, <1>5, <1>6, <1>7, <1>8, <1>9, <1>10

\* What an exchange can have done to the server and to the history.
LEMMA ServerRotates ==
    ASSUME IInv, NEW t \in Tasks, Exchanging(t), Rotate(t)
    PROVE  held = live /\ live' = live + 1 /\ live' \in Tokens
<1>1. sent[t] = held
    BY DEF IInv, SentHeld, Exchanging, InExchange
<1>2. live \in Nat /\ live >= 1 /\ MaxTokens \in Nat
    BY TokenAssumption DEF IInv, TypeOK, Tokens
<1> QED
    BY <1>1, <1>2 DEF Rotate, Tokens

LEMMA QuitFits ==
    ASSUME NEW t \in Tasks, Quit(t)
    PROVE  \E l \in {"idle", "stopped"} :
              Fits(t, l) /\ Move(t, l, NoCall) /\ (l = "stopped" => t = scheduler)
<1> DEFINE l == IF t = scheduler THEN "stopped" ELSE "idle"
<1>1. Fits(t, l)
    BY DEF Fits, Locations, OutsideOuter
<1> QED
    BY <1>1 DEF Quit

LEMMA ExchangeSteps ==
    ASSUME IInv, NEW t \in Tasks,
           Accepted(t) \/ Rejected(t) \/ Unreachable(t) \/ Garbled(t) \/ Dropped(t)
    PROVE  IInv'
<1> USE DEF IInv
<1>0. /\ live \in Tokens /\ held \in Tokens /\ held <= live
      /\ live \in Nat /\ held \in Nat
      /\ due \in BOOLEAN /\ unavailable \in BOOLEAN /\ reauth \in BOOLEAN /\ broken \in BOOLEAN
      /\ held = live \/ broken
      /\ reauth => broken
    BY DEF TypeOK, HeldBelow, LoginIntact, Tokens
<1>1. t = scheduler /\ Exchanging(t) => pc[t] = "renewing"
    BY TokenAssumption DEF Roles, Fits, Exchanging
<1>2. CASE Accepted(t)
    <2> DEFINE l == IF pc[t] = "ensuring" THEN "ensured" ELSE "renewed"
    <2>1. Exchanging(t) /\ Rotate(t) /\ Move(t, l, call[t])
        BY <1>2 DEF Accepted, Goto
    <2>2. held = live /\ live' = live + 1 /\ live' \in Tokens
        BY <2>1, ServerRotates
    <2>3. l \in After /\ Fits(t, l) /\ l # "stopped"
        BY <2>1 DEF After, Roles, Fits, Locations, InsideInner, Exchanging
    <2>4. held' = live' /\ held < held'
        BY <1>0, <1>2, <2>2 DEF Accepted
    <2>5. served' = served \/ (t \in Invokers /\ served' = served \cup {call[t].stale})
        BY <1>2 DEF Accepted
    <2>6. due' = FALSE /\ UNCHANGED <<reauth, unavailable, broken>>
        BY <1>2 DEF Accepted
    <2>7. held <= held' /\ held' <= live' /\ held' \in Tokens
        BY <1>0, <2>2, <2>4
    <2> QED
        BY ONLY IInv, t \in Tasks, <1>0, <2>1, <2>2, <2>3, <2>4, <2>5, <2>6, <2>7, LocalsOK, Exchanged
<1>3. CASE Rejected(t)
    <2>1. PICK l \in {"idle", "stopped"} :
             Fits(t, l) /\ Move(t, l, NoCall) /\ (l = "stopped" => t = scheduler)
        BY <1>3, QuitFits DEF Rejected
    <2>2. Exchanging(t) /\ broken
        BY <1>0, <1>3 DEF Rejected, SentHeld, Exchanging, InExchange
    <2>3. reauth' \in BOOLEAN /\ (reauth => reauth') /\ (reauth' => reauth \/ pc[t] = "renewing")
          /\ (l = "stopped" => reauth')
        BY <1>0, <1>1, <1>3, <2>1, <2>2, Zenon DEF Rejected
    <2>4. UNCHANGED <<live, held, due, unavailable, broken, served>>
        BY <1>3 DEF Rejected
    <2> QED
        BY <1>0, <2>1, <2>2, <2>3, <2>4, LocalsOK, Exchanged DEF After
<1>4. CASE Unreachable(t)
    <2>1. PICK l \in {"idle", "retrying"}, c \in Locals : Fits(t, l) /\ Move(t, l, c)
        BY <1>4, TransientFits DEF Unreachable
    <2>2. Exchanging(t)
        BY <1>4 DEF Unreachable
    <2>3. \/ UNCHANGED <<live, broken>>
          \/ live' = live + 1 /\ live' \in Tokens /\ broken' = TRUE
        BY <1>4, <2>2, ServerRotates DEF Unreachable
    <2>4. UNCHANGED <<held, due, reauth, unavailable, served>>
        BY <1>4 DEF Unreachable
    <2>5. live' \in Tokens /\ held <= live'
        BY <1>0, <2>3
    <2>6. (held' = live' \/ broken') /\ broken' \in BOOLEAN /\ (reauth' => broken')
        BY <1>0, <2>3, <2>4, Zenon
    <2> QED
        BY <1>0, <2>1, <2>2, <2>4, <2>5, <2>6, Exchanged DEF After
<1>5. ASSUME Exchanging(t), UNCHANGED live \/ Rotate(t), broken' = TRUE, UNCHANGED <<held, due, served>>
      PROVE  /\ live' \in Tokens /\ held' \in Tokens /\ held <= held' /\ held' <= live'
             /\ (held' = live' \/ broken') /\ (reauth' => broken') /\ due' \in BOOLEAN /\ broken' \in BOOLEAN
             /\ served' = served
    <2>1. live' = live \/ (live' = live + 1 /\ live' \in Tokens)
        BY <1>5, ServerRotates
    <2>2. live' \in Tokens /\ held <= live'
        BY <1>0, <2>1
    <2> QED
        BY <1>0, <1>5, <2>2
<1>6. ASSUME Exchanging(t), UNCHANGED live \/ Rotate(t), broken' = TRUE, UNCHANGED <<held, due, served>>,
             Final(t)
      PROVE  IInv'
    <2>1. PICK l \in {"idle", "stopped"} :
             Fits(t, l) /\ Move(t, l, NoCall) /\ (l = "stopped" => t = scheduler)
        BY <1>6, QuitFits DEF Final
    <2>2. reauth' \in BOOLEAN /\ (reauth => reauth') /\ (reauth' => reauth \/ pc[t] = "renewing")
          /\ (l = "stopped" => reauth') /\ unavailable' \in BOOLEAN
        BY <1>0, <1>1, <1>6, <2>1, Zenon DEF Final
    <2> QED
        BY <1>5, <1>6, <2>1, <2>2, LocalsOK, Exchanged DEF After
<1>7. CASE Garbled(t)
    BY <1>6, <1>7 DEF Garbled
<1>8. CASE Dropped(t)
    <2>1. Exchanging(t) /\ (UNCHANGED live \/ Rotate(t)) /\ broken' = TRUE /\ UNCHANGED <<held, due, served>>
        BY <1>8 DEF Dropped
    <2>2. CASE Final(t)
        BY <1>6, <2>1, <2>2
    <2>3. CASE pc[t] = "ensuring" /\ MayRetry(t) /\ TryAgain(t) /\ UNCHANGED <<reauth, unavailable>>
        <3>1. Transient(t)
            BY <2>3 DEF Transient
        <3>2. PICK l \in {"idle", "retrying"}, c \in Locals : Fits(t, l) /\ Move(t, l, c)
            BY <3>1, TransientFits
        <3> QED
            BY <1>0, <1>5, <2>1, <2>3, <3>2, Exchanged DEF After
    <2> QED
        BY <1>8, <2>2, <2>3 DEF Dropped
<1> QED
    BY <1>2, <1>3, <1>4, <1>7, <1>8

\* Every other step of a task is a legal move.
LEMMA CallSteps ==
    ASSUME IInv, NEW t \in Tasks,
           \/ t \in Invokers /\ Send(t)
           \/ t \in Renewers /\ CallRenew(t)
           \/ t \in Plain /\ CallPlain(t)
           \/ t \in Managed /\ Locked(t)
           \/ InnerLocked(t) \/ Answered(t) \/ Notified(t) \/ NotifyTimesOut(t) \/ Saved(t)
           \/ CodeReturns(t) \/ Fetched(t) \/ Retry(t) \/ Stored(t)
           \/ t = scheduler /\ (Wake \/ StartScheduler)
    PROVE  LegalMove(t)
<1> USE DEF IInv
<1>0. /\ unavailable \in BOOLEAN
      /\ Fits(t, pc[t]) /\ KnowsStale(t, pc[t], call[t]) /\ call[t] \in Locals
    BY LocalsOK DEF TypeOK, Roles, StaleKnown
<1>1. CASE t \in Invokers /\ Send(t)
    <2> DEFINE c == [NoCall EXCEPT !.stale = held]
    <2>0. held \in 0 .. MaxTokens /\ held \in 1 .. held
        BY TokenAssumption DEF TypeOK, Tokens
    <2>1. c \in Locals /\ c.stale = held
        BY <2>0, LocalsOK DEF NoCall, Locals
    <2>2. Legal(t, "request", c)
        BY <1>1, <2>0, <2>1 DEF Legal, Fits, Locations, OutsideOuter, InsideInner, KnowsStale
    <2>3. LegalMove(t)
        BY <1>1, <2>2 DEF LegalMove, Send
    <2> QED
        BY <1>1, <2>3 DEF Send
<1>2. CASE t \in Renewers /\ CallRenew(t)
    <2>1. LegalMove(t)
        BY <1>2, LockLegal, TokenAssumption DEF CallRenew, Managed
    <2> QED
        BY <1>2, <2>1 DEF CallRenew
<1>3. CASE t \in Plain /\ CallPlain(t)
    <2>1. t \notin Managed
        BY <1>3, TokenAssumption DEF Managed
    <2>2. LegalMove(t)
        BY <1>3, <2>1, LocalsOK, EnsureLegal DEF CallPlain
    <2> QED
        BY <1>3, <2>2 DEF CallPlain
<1>4. CASE t \in Managed /\ Locked(t)
    <2>1. LegalMove(t)
        BY <1>4, BeginLegal DEF Locked
    <2> QED
        BY <1>4, <2>1 DEF Locked
<1>5. CASE InnerLocked(t)
    <2>1. CASE pc[t] = "renewLock" /\ Goto(t, "renewing")
        <3>1. Legal(t, "renewing", call[t])
            BY <1>0, <1>5, <2>1 DEF InnerLocked, Legal, Fits, Locations, InExchange, OutsideOuter, KnowsStale
        <3> QED
            BY <2>1, <3>1 DEF LegalMove, Goto
    <2>2. CASE pc[t] = "ensureLock" /\ Ensure(t, call[t])
        <3>1. t \in Renewers \cup Plain /\ pc[t] \notin OutsideOuter
            BY <1>0, <2>2 DEF Fits, OutsideOuter
        <3> QED
            BY <1>0, <2>2, <3>1, EnsureLegal
    <2> QED
        BY <1>5, <2>1, <2>2 DEF InnerLocked
<1>6. CASE Answered(t)
    <2>1. t \in Invokers /\ t \in Managed
        BY <1>0, <1>6 DEF Answered, Fits, Managed
    <2>2. LegalMove(t)
        BY <1>6, <2>1, LockLegal, LeaveLegal DEF Answered
    <2> QED
        BY <1>6, <2>2 DEF Answered
<1>7. CASE Notified(t)
    <2>1. CASE pc[t] = "ensured" /\ AfterEnsure(t, call[t])
        BY <1>0, <2>1, AfterEnsureLegal DEF OutsideOuter
    <2>2. CASE pc[t] = "renewed" /\ Goto(t, "saving")
        <3>1. Legal(t, "saving", call[t])
            BY <1>0, <2>2 DEF Legal, Fits, Locations, OutsideOuter, InsideInner, KnowsStale
        <3> QED
            BY <2>2, <3>1 DEF LegalMove, Goto
    <2> QED
        BY <1>7, <2>1, <2>2 DEF Notified
<1>8. CASE NotifyTimesOut(t)
    <2>1. LegalMove(t)
        BY <1>8, TransientLegal DEF NotifyTimesOut
    <2> QED
        BY <1>8, <2>1 DEF NotifyTimesOut
<1>9. CASE Saved(t)
    <2>1. CASE t # scheduler /\ Goto(t, "code")
        <3>1. Legal(t, "code", call[t])
            BY <1>0, <1>9, <2>1 DEF Saved, Legal, Fits, Locations, OutsideOuter, InsideInner, KnowsStale, Managed
        <3> QED
            BY <2>1, <3>1 DEF LegalMove, Goto
    <2>2. LegalMove(t)
        BY <1>9, <2>1, LeaveLegal DEF Saved
    <2> QED
        BY <1>9, <2>2 DEF Saved
<1>10. CASE CodeReturns(t)
    <2>1. CASE t \in Renewers /\ Ensure(t, [call[t] EXCEPT !.tries = 1])
        <3> DEFINE c == [call[t] EXCEPT !.tries = 1]
        <3>1. c \in Locals
            BY <1>0, TokenAssumption DEF Locals
        <3>2. pc[t] \notin OutsideOuter
            BY <1>10 DEF CodeReturns, OutsideOuter
        <3> QED
            BY <2>1, <3>1, <3>2, EnsureLegal
    <2>2. CASE Leave(t)
        BY <2>2, LeaveLegal
    <2> QED
        BY <1>0, <1>10, <2>1, <2>2 DEF CodeReturns, GiveUpMqtt
<1>11. CASE Fetched(t)
    <2>0. t \in Renewers /\ t \in Managed /\ t \notin Invokers /\ pc[t] \notin OutsideOuter
        BY <1>0, <1>11, TokenAssumption DEF Fetched, Fits, Managed, OutsideOuter
    <2>1. CASE Goto(t, "storing")
        <3>1. Legal(t, "storing", call[t])
            BY <1>0, <2>0 DEF Legal, Fits, Locations, InsideInner, KnowsStale
        <3> QED
            BY <2>1, <3>1 DEF LegalMove, Goto
    <2>2. CASE RefreshHttp(t, [call[t] EXCEPT !.second = TRUE])
        <3> DEFINE c == [call[t] EXCEPT !.second = TRUE]
        <3>1. c \in Locals
            BY <1>0 DEF Locals
        <3> QED
            BY <2>0, <2>2, <3>1, RefreshHttpLegal
    <2>3. CASE Leave(t)
        BY <2>3, LeaveLegal
    <2>4. CASE Transient(t)
        BY <2>4, TransientLegal
    <2>5. LegalMove(t)
        BY <1>11, <2>1, <2>2, <2>3, <2>4 DEF Fetched, GiveUpMqtt
    <2> QED
        BY <1>0, <1>11, <2>5 DEF Fetched, GiveUpMqtt
<1>12. CASE Retry(t)
    <2>1. t \in Renewers /\ pc[t] \notin OutsideOuter
        BY <1>0, <1>12 DEF Retry, Fits, OutsideOuter
    <2>2. LegalMove(t)
        BY <1>0, <1>12, <2>1, EnsureLegal DEF Retry
    <2> QED
        BY <1>12, <2>2 DEF Retry
<1>13. CASE Stored(t)
    <2>1. LegalMove(t)
        BY <1>13, LeaveLegal DEF Stored
    <2> QED
        BY <1>13, <2>1 DEF Stored
<1>14. CASE t = scheduler /\ Wake
    <2>1. CASE reauth /\ Quit(scheduler)
        <3>1. Legal(t, "stopped", NoCall)
            BY <1>14, <2>1, LocalsOK DEF Legal, Fits, Locations, OutsideOuter, InsideInner, KnowsStale
        <3> QED
            BY <1>14, <2>1, <3>1 DEF LegalMove, Quit
    <2>2. CASE Lock(scheduler)
        BY <1>14, <2>2, LockLegal, TokenAssumption DEF Managed
    <2> QED
        BY <1>14, <2>1, <2>2 DEF Wake
<1>15. CASE t = scheduler /\ StartScheduler
    <2>1. Legal(t, "idle", call[t])
        BY <1>0 DEF Legal, Fits, Locations, OutsideOuter, InsideInner, KnowsStale
    <2>2. LegalMove(t)
        BY <1>15, <2>1 DEF StartScheduler, LegalMove, Goto
    <2> QED
        BY <1>15, <2>2 DEF StartScheduler
<1> QED
    BY <1>1, <1>2, <1>3, <1>4, <1>5, <1>6, <1>7, <1>8, <1>9, <1>10, <1>11, <1>12, <1>13, <1>14, <1>15

LEMMA CallFrame ==
    ASSUME IInv, NEW t \in Tasks,
           \/ t \in Invokers /\ Send(t)
           \/ t \in Renewers /\ CallRenew(t)
           \/ t \in Plain /\ CallPlain(t)
           \/ t \in Managed /\ Locked(t)
           \/ InnerLocked(t) \/ Answered(t) \/ Notified(t) \/ NotifyTimesOut(t) \/ Saved(t)
           \/ CodeReturns(t) \/ Fetched(t) \/ Retry(t) \/ Stored(t)
           \/ t = scheduler /\ (Wake \/ StartScheduler)
    PROVE  unavailable' \in BOOLEAN /\ UNCHANGED <<live, held, due, reauth, broken, served>>
<1>1. unavailable \in BOOLEAN
    BY DEF IInv, TypeOK
<1>2. CASE CodeReturns(t)
    BY <1>1, <1>2 DEF CodeReturns, GiveUpMqtt
<1>3. CASE Fetched(t)
    BY <1>1, <1>3 DEF Fetched, GiveUpMqtt
<1> QED
    BY <1>1, <1>2, <1>3 DEF Rest, Send, CallRenew, CallPlain, Locked, InnerLocked, Answered, Notified,
        NotifyTimesOut, Saved, Retry, Stored, Wake, StartScheduler

-----------------------------------------------------------------------------
(* The invariant.                                                          *)

LEMMA InitInv == Init => IInv
<1> SUFFICES ASSUME Init PROVE IInv
    OBVIOUS
<1>1. scheduler \in Tasks /\ 1 \in Tokens
    BY TokenAssumption DEF Tasks, Managed, Tokens
<1>2. TypeOK
    <2>1. call \in [Tasks -> Locals]
        BY LocalsOK DEF Init
    <2>2. pc \in [Tasks -> {"idle", "cancelled"}]
        BY DEF Init
    <2>3. sent \in [Tasks -> 0 .. MaxTokens]
        BY TokenAssumption DEF Init
    <2> QED
        BY <1>1, <2>1, <2>2, <2>3 DEF Init, TypeOK, Locals
<1>3. \A t \in Tasks : pc[t] \in {"idle", "cancelled"} /\ (pc[t] = "cancelled" => t = scheduler)
    BY DEF Init
<1>4. Roles /\ OuterExclusive /\ InnerExclusive /\ SentHeld /\ WaitersLive /\ StaleKnown /\ SchedulerLives
    BY <1>1, <1>3 DEF Roles, Fits, Locations, OutsideOuter, InExchange, InsideInner, OuterExclusive,
        InnerExclusive, SentHeld, WaitersLive, StaleKnown, KnowsStale, SchedulerLives, Tasks
<1>5. HeldBelow /\ LoginIntact /\ ServedReplaced
    BY DEF Init, HeldBelow, LoginIntact, ServedReplaced
<1> QED
    BY <1>2, <1>4, <1>5 DEF IInv

LEMMA StopStep == ASSUME IInv, StopScheduler PROVE IInv'
<1> USE DEF IInv
<1>0. scheduler \in Tasks /\ call[scheduler] \in Locals
    BY LocalsOK DEF Tasks, Managed
<1>1. Fits(scheduler, "cancelled") /\ Move(scheduler, "cancelled", call[scheduler])
    BY DEF StopScheduler, Fits, Locations, OutsideOuter, Goto
<1>2. UNCHANGED <<held, due, reauth, unavailable, served>>
    BY DEF StopScheduler
<1>3. /\ live \in Tokens /\ held \in Tokens /\ held <= live /\ live \in Nat /\ held \in Nat
      /\ due \in BOOLEAN /\ unavailable \in BOOLEAN /\ reauth \in BOOLEAN /\ broken \in BOOLEAN
      /\ (held = live \/ broken) /\ (reauth => broken)
    BY DEF TypeOK, HeldBelow, LoginIntact, Tokens
<1>4. CASE Exchanging(scheduler)
    <2>1. UNCHANGED <<live, broken>> \/ (live' = live + 1 /\ live' \in Tokens /\ broken' = TRUE)
        BY <1>0, <1>4, ServerRotates DEF StopScheduler
    <2>2. live' \in Tokens /\ held <= live'
        BY <1>3, <2>1
    <2>3. (held' = live' \/ broken') /\ broken' \in BOOLEAN /\ (reauth' => broken')
        BY <1>2, <1>3, <2>1, Zenon
    <2> QED
        BY <1>0, <1>1, <1>2, <1>3, <1>4, <2>2, <2>3, Exchanged DEF After
<1>5. CASE ~ Exchanging(scheduler)
    <2>1. UNCHANGED <<live, broken>>
        BY <1>5 DEF StopScheduler
    <2>2. Legal(scheduler, "cancelled", call[scheduler])
        BY <1>0, <1>1 DEF Legal, OutsideOuter, InsideInner, KnowsStale
    <2>3. LegalMove(scheduler)
        BY <1>1, <2>2 DEF LegalMove
    <2> QED
        BY <1>0, <1>2, <1>3, <2>1, <2>3, Moved
<1> QED
    BY <1>4, <1>5

LEMMA AgeStep == ASSUME IInv, Age PROVE IInv'
BY DEF Age, IInv, TypeOK, Roles, OuterExclusive, InnerExclusive, SentHeld, HeldBelow, LoginIntact,
       SchedulerLives, WaitersLive, StaleKnown, KnowsStale, ServedReplaced

LEMMA StutterStep == ASSUME IInv, UNCHANGED vars PROVE IInv'
BY DEF vars, IInv, TypeOK, Roles, OuterExclusive, InnerExclusive, SentHeld, HeldBelow, LoginIntact,
       SchedulerLives, WaitersLive, StaleKnown, KnowsStale, ServedReplaced

\* The steps of a task are the two kinds treated above.
CallStep(t) ==
    \/ t \in Invokers /\ Send(t)
    \/ t \in Renewers /\ CallRenew(t)
    \/ t \in Plain /\ CallPlain(t)
    \/ t \in Managed /\ Locked(t)
    \/ InnerLocked(t) \/ Answered(t) \/ Notified(t) \/ NotifyTimesOut(t) \/ Saved(t)
    \/ CodeReturns(t) \/ Fetched(t) \/ Retry(t) \/ Stored(t)
    \/ t = scheduler /\ (Wake \/ StartScheduler)

ExchangeStep(t) == Accepted(t) \/ Rejected(t) \/ Unreachable(t) \/ Garbled(t) \/ Dropped(t)

LEMMA Kinds ==
    ASSUME [Next]_vars
    PROVE  \/ \E t \in Tasks : CallStep(t) \/ ExchangeStep(t)
           \/ StopScheduler \/ Age \/ UNCHANGED vars
BY DEF Next, Step, CallStep, ExchangeStep, Tasks, Managed

LEMMA Inductive == IInv /\ [Next]_vars => IInv'
<1> SUFFICES ASSUME IInv, [Next]_vars PROVE IInv'
    OBVIOUS
<1>1. ASSUME NEW t \in Tasks, CallStep(t) PROVE IInv'
    BY <1>1, CallSteps, CallFrame, Moved DEF CallStep
<1>2. ASSUME NEW t \in Tasks, ExchangeStep(t) PROVE IInv'
    BY <1>2, ExchangeSteps DEF ExchangeStep
<1> QED
    BY <1>1, <1>2, StopStep, AgeStep, StutterStep, Kinds

LEMMA Invariance == Spec => []IInv
BY InitInv, Inductive, PTL DEF Spec

\* A forced renewal begins on a live account, and an invoker's with a token that
\* was not renewed before.
LEMMA RenewalBegins ==
    ASSUME IInv, [Next]_vars, NEW t \in Tasks, pc[t] # "renewing", pc'[t] = "renewing"
    PROVE  /\ ~ reauth
           /\ t \in Invokers => call'[t].stale \notin served
<1>1. ASSUME NEW u \in Tasks, LegalMove(u)
      PROVE  ~ reauth /\ (t \in Invokers => call'[t].stale \notin served)
    <2>1. PICK l, c : Legal(u, l, c) /\ Move(u, l, c)
        BY <1>1 DEF LegalMove
    <2>2. u = t /\ l = "renewing" /\ call'[t] = c
        BY <2>1 DEF Move, IInv, TypeOK
    <2> QED
        BY <2>1, <2>2 DEF Legal, KnowsStale, IInv, WaitersLive
<1>2. ASSUME NEW u \in Tasks, CallStep(u) PROVE LegalMove(u)
    BY <1>2, CallSteps DEF CallStep
<1>3. ASSUME NEW u \in Tasks, ExchangeStep(u) PROVE FALSE
    <2>1. CASE Accepted(u)
        BY <2>1 DEF Accepted, Goto, Move, IInv, TypeOK
    <2>2. CASE Rejected(u)
        BY <2>2, QuitFits DEF Rejected, Move, IInv, TypeOK
    <2>3. CASE Unreachable(u)
        BY <2>3, TransientFits DEF Unreachable, Move, IInv, TypeOK
    <2>4. CASE Garbled(u)
        BY <2>4, QuitFits DEF Garbled, Final, Move, IInv, TypeOK
    <2>5. CASE Dropped(u)
        <3>1. CASE Final(u)
            BY <3>1, QuitFits DEF Final, Move, IInv, TypeOK
        <3>2. CASE TryAgain(u)
            BY <3>2 DEF TryAgain, Move, IInv, TypeOK
        <3> QED
            BY <2>5, <3>1, <3>2 DEF Dropped
    <2> QED
        BY <1>3, <2>1, <2>2, <2>3, <2>4, <2>5 DEF ExchangeStep
<1>4. CASE StopScheduler
    BY <1>4 DEF StopScheduler, Goto, Move, IInv, TypeOK
<1>5. CASE Age \/ UNCHANGED vars
    BY <1>5 DEF Age, vars
<1> QED
    BY <1>1, <1>2, <1>3, <1>4, <1>5, Kinds

\* Every variable stays in range; in particular the attempts of
\* get_mqtt_credentials() never exceed _MAX_ATTEMPTS.
THEOREM TypeCorrect == Spec => []TypeOK
<1>1. IInv => TypeOK
    BY DEF IInv
<1> QED
    BY <1>1, Invariance, PTL

\* The client holds the server's last refresh token unless an answer to an
\* exchange was lost, and the account is finished only after that.
THEOREM LoginStaysIntact == Spec => []LoginIntact
<1>1. IInv => LoginIntact
    BY DEF IInv
<1> QED
    BY <1>1, Invariance, PTL

\* The refresh scheduler ends by itself only when the account is finished.
THEOREM SchedulerSurvives == Spec => []SchedulerLives
<1>1. IInv => SchedulerLives
    BY DEF IInv
<1> QED
    BY <1>1, Invariance, PTL

\* No forced renewal begins once the account is finished.
THEOREM NothingDoomed == Spec => NoDoomedRequest
<1>1. IInv /\ [Next]_vars =>
        [\A t \in Managed : pc[t] # "renewing" /\ pc'[t] = "renewing" => ~ reauth]_vars
    BY RenewalBegins DEF Tasks
<1> QED
    BY <1>1, Invariance, PTL DEF Spec, NoDoomedRequest

\* No invoker begins to renew a token that another invoker had renewed.
THEOREM OneRefresh == Spec => OneRefreshPerStaleToken
<1>1. IInv /\ [Next]_vars =>
        [\A t \in Invokers :
            pc[t] # "renewing" /\ pc'[t] = "renewing" => call'[t].stale \notin served]_vars
    BY RenewalBegins DEF Tasks, Managed
<1> QED
    BY <1>1, Invariance, PTL DEF Spec, OneRefreshPerStaleToken
=============================================================================
