------------------------- MODULE BLETransportProofs -------------------------
(***************************************************************************)
(* Proofs about BLETransport, for any writers and connecting tasks, any    *)
(* failure threshold and any number of links.                              *)
(***************************************************************************)
EXTENDS BLETransport, TLAPS

\* One task at most holds _connect_lock.
OneHolder == \A t, s \in Tasks : pc[t] \in Locked /\ pc[s] \in Locked => t = s

\* The links are numbered as they come, and a client is up or its drop is
\* about to be told.
LinksInv ==
    /\ up \cup drops \subseteq 1 .. last
    /\ client # None => client \in up \cup drops

\* The listeners were told of a live client, or will be by the connect() that
\* sets it up, or that connect() was abandoned.
ToldInv ==
    client \in up =>
       \/ avail = "connected"
       \/ client = left
       \/ \E t \in Tasks : HalfSetUp(t)

\* CONNECTED is about a link that is up or whose drop is about to be told.
UpInv == avail = "connected" => up \cup drops # {}

\* A scan begins outside the cooldown, and nobody else can begin one.
ScanInv == \A t \in Tasks : pc[t] = "scanning" => ~ cooldown

IInv ==
    /\ TypeOK
    /\ OneHolder
    /\ LinksInv
    /\ ToldInv
    /\ UpInv
    /\ DialsOnlyWhenDown
    /\ DialsOutsideCooldown
    /\ ScanInv

\* Counting a failure stays below the threshold.
LEMMA FailureCounted ==
    ASSUME failures \in 0 .. Threshold - 1, cooldown \in BOOLEAN,
           NEW atOnce \in BOOLEAN, Failure(atOnce)
    PROVE  failures' \in 0 .. Threshold - 1 /\ cooldown' \in BOOLEAN
<1>1. CASE atOnce \/ failures + 1 >= Threshold
    <2>1. failures' = 0 /\ cooldown' = TRUE
        BY <1>1, Zenon DEF Failure
    <2> QED
        BY <2>1, BLEAssumption
<1>2. CASE ~ (atOnce \/ failures + 1 >= Threshold)
    BY <1>2, BLEAssumption DEF Failure
<1> QED
    BY <1>1, <1>2

LEMMA Inductive == IInv /\ [Next]_vars => IInv'
<1> SUFFICES ASSUME IInv, [Next]_vars PROVE IInv'
    OBVIOUS
<1> USE BLEAssumption DEF IInv, TypeOK, OneHolder, LinksInv, ToldInv, UpInv, DialsOnlyWhenDown,
                          DialsOutsideCooldown, ScanInv, Tasks, Links, None, Locked, IsConnected, LockFree,
                          WriterFree, Await, Leave, Proceed, Dial, Enter, Connect, DropClient,
                          TornDown, SyncAtOnce, Scheduled, HalfSetUp
<1>0. 0 \in 0 .. Threshold - 1
    BY BLEAssumption
<1>1. ASSUME NEW t \in Tasks, CallConnect(t) PROVE IInv'
    BY <1>1 DEF CallConnect
<1>2. ASSUME NEW t \in Tasks, Joined(t) PROVE IInv'
    BY <1>2 DEF Joined
<1>3. ASSUME NEW t \in Tasks, Scanned(t) PROVE IInv'
    <2>1. TypeOK'
        BY <1>3 DEF Scanned
    <2>2. OneHolder'
        BY <1>3 DEF Scanned
    <2>3. LinksInv'
        BY <1>3 DEF Scanned
    <2>4. ToldInv'
        BY <1>3 DEF Scanned
    <2>5. UpInv'
        BY <1>3 DEF Scanned
    <2>6. DialsOnlyWhenDown'
        BY <1>3 DEF Scanned
    <2>7. DialsOutsideCooldown'
        BY <1>3 DEF Scanned
    <2>8. ScanInv'
        BY <1>3 DEF Scanned
    <2> QED
        BY <2>1, <2>2, <2>3, <2>4, <2>5, <2>6, <2>7, <2>8 DEF IInv
<1>4. ASSUME NEW t \in Tasks, Established(t) PROVE IInv'
    BY <1>4 DEF Established
<1>5. ASSUME NEW t \in Tasks, EstablishFails(t) PROVE IInv'
    BY <1>5, FailureCounted DEF EstablishFails
<1>6. ASSUME NEW t \in Tasks, Released(t) PROVE IInv'
    BY <1>6 DEF Released
<1>7. ASSUME NEW t \in Tasks, Subscribed(t) PROVE IInv'
    BY <1>7 DEF Subscribed
<1>8. ASSUME NEW t \in Tasks, Synced(t) PROVE IInv'
    BY <1>8 DEF Synced
<1>9. ASSUME NEW t \in Tasks, SetupFails(t) PROVE IInv'
    <2>1. TypeOK'
        BY <1>9, FailureCounted DEF SetupFails
    <2>2. OneHolder'
        BY <1>9, FailureCounted DEF SetupFails
    <2>3. LinksInv'
        BY <1>9, FailureCounted DEF SetupFails
    <2>4. ToldInv'
        <3>1. CASE client = None
            BY <1>9, <3>1 DEF SetupFails
        <3>2. CASE client # None
            <4>1. pc'[t] = "tearing"
                BY <1>9, <3>2 DEF SetupFails
            <4> QED
                BY <4>1
        <3> QED
            BY <3>1, <3>2
    <2>5. UpInv'
        BY <1>9, FailureCounted DEF SetupFails
    <2>6. DialsOnlyWhenDown'
        BY <1>9, FailureCounted DEF SetupFails
    <2>7. DialsOutsideCooldown'
        BY <1>9, FailureCounted DEF SetupFails
    <2>8. ScanInv'
        BY <1>9, FailureCounted DEF SetupFails
    <2> QED
        BY <2>1, <2>2, <2>3, <2>4, <2>5, <2>6, <2>7, <2>8 DEF IInv
<1>10. ASSUME NEW t \in Tasks, TearReturns(t) PROVE IInv'
    <2>1. TypeOK'
        BY <1>10, FailureCounted DEF TearReturns
    <2>2. OneHolder'
        BY <1>10, FailureCounted DEF TearReturns
    <2>3. LinksInv'
        BY <1>10, FailureCounted DEF TearReturns
    <2>4. ToldInv'
        BY <1>10, FailureCounted DEF TearReturns
    <2>5. UpInv'
        BY <1>10, FailureCounted DEF TearReturns
    <2>6. DialsOnlyWhenDown'
        BY <1>10, FailureCounted DEF TearReturns
    <2>7. DialsOutsideCooldown'
        BY <1>10, FailureCounted DEF TearReturns
    <2>8. ScanInv'
        BY <1>10, FailureCounted DEF TearReturns
    <2> QED
        BY <2>1, <2>2, <2>3, <2>4, <2>5, <2>6, <2>7, <2>8 DEF IInv
<1>11. ASSUME NEW t \in Tasks, Send(t) PROVE IInv'
    BY <1>11 DEF Send
<1>12. ASSUME NEW t \in Tasks, WriteFails(t) PROVE IInv'
    BY <1>12 DEF WriteFails
<1>13. ASSUME NEW t \in Tasks, WriteReturns(t) PROVE IInv'
    BY <1>13 DEF WriteReturns
<1>14. ASSUME NEW l \in Links, LinkDrops(l) PROVE IInv'
    BY <1>14 DEF LinkDrops
<1>15. ASSUME NEW l \in Links, DropHandled(l) PROVE IInv'
    BY <1>15 DEF DropHandled
<1>16. CASE Disconnect
    <2>1. TypeOK'
        BY <1>16 DEF Disconnect
    <2>2. OneHolder'
        BY <1>16 DEF Disconnect
    <2>3. LinksInv'
        BY <1>16 DEF Disconnect
    <2>4. ToldInv'
        BY <1>16 DEF Disconnect
    <2>5. UpInv'
        BY <1>16 DEF Disconnect
    <2>6. DialsOnlyWhenDown'
        BY <1>16 DEF Disconnect
    <2>7. DialsOutsideCooldown'
        BY <1>16 DEF Disconnect
    <2>8. ScanInv'
        BY <1>16 DEF Disconnect
    <2> QED
        BY <2>1, <2>2, <2>3, <2>4, <2>5, <2>6, <2>7, <2>8 DEF IInv
<1>17. CASE DisconnectReturns
    <2>1. TypeOK'
        BY <1>17 DEF DisconnectReturns
    <2>2. OneHolder'
        BY <1>17 DEF DisconnectReturns
    <2>3. LinksInv'
        BY <1>17 DEF DisconnectReturns
    <2>4. ToldInv'
        BY <1>17 DEF DisconnectReturns
    <2>5. UpInv'
        BY <1>17 DEF DisconnectReturns
    <2>6. DialsOnlyWhenDown'
        BY <1>17 DEF DisconnectReturns
    <2>7. DialsOutsideCooldown'
        BY <1>17 DEF DisconnectReturns
    <2>8. ScanInv'
        BY <1>17 DEF DisconnectReturns
    <2> QED
        BY <2>1, <2>2, <2>3, <2>4, <2>5, <2>6, <2>7, <2>8 DEF IInv
<1>18. CASE SetBleDevice
    BY <1>18 DEF SetBleDevice
<1>19. CASE ClearBleDevice
    BY <1>0, <1>19 DEF ClearBleDevice
<1>20. CASE CooldownOver
    BY <1>20 DEF CooldownOver
<1>21. ASSUME NEW t \in Tasks, Abandoned(t) PROVE IInv'
    BY <1>21 DEF Abandoned
<1>22. CASE DisconnectAbandoned
    BY <1>22 DEF DisconnectAbandoned
<1>23. CASE UNCHANGED vars
    BY <1>23 DEF vars
<1> QED
    BY <1>1, <1>2, <1>3, <1>4, <1>5, <1>6, <1>7, <1>8, <1>9, <1>10, <1>11, <1>12, <1>13, <1>14, <1>15, <1>16, <1>17, <1>18, <1>19, <1>20, <1>21, <1>22, <1>23 DEF Next, Step

LEMMA Initial == Init => IInv
<1>1. 0 \in 0 .. Threshold - 1
    BY BLEAssumption
<1>2. Init => TypeOK
    BY <1>1 DEF Init, TypeOK, None
<1>3. Init => OneHolder /\ LinksInv /\ ToldInv /\ UpInv /\ ScanInv
    BY DEF Init, OneHolder, LinksInv, ToldInv, UpInv, ScanInv, Locked, None
<1>4. Init => DialsOnlyWhenDown /\ DialsOutsideCooldown
    BY DEF Init, DialsOnlyWhenDown, DialsOutsideCooldown
<1> QED
    BY <1>2, <1>3, <1>4 DEF IInv

LEMMA Invariance == Spec => []IInv
<1>1. IInv /\ UNCHANGED vars => IInv'
    BY Inductive
<1> QED
    BY Initial, Inductive, PTL DEF Spec

\* The state of BLETransport keeps its type: in particular the failures that
\* are counted stay below the threshold.
THEOREM TypeCorrect == Spec => []TypeOK
<1>1. IInv => TypeOK
    BY DEF IInv
<1> QED
    BY <1>1, Invariance, PTL

\* No live link is held behind the listeners' backs, but one that an abandoned
\* connect() left half set up.
THEOREM LinksAreTold == Spec => []LinkIsTold
<1>1. IInv => LinkIsTold
    BY DEF IInv, ToldInv, LinkIsTold, IsConnected, HalfSetUp, LockFree, Locked
<1> QED
    BY <1>1, Invariance, PTL

\* CONNECTED does not outlive the last link, however the calls end.
THEOREM NoGhosts == Spec => []NoGhost
<1>1. IInv => NoGhost
    BY DEF IInv, UpInv, NoGhost
<1> QED
    BY <1>1, Invariance, PTL

\* establish_connection() is called neither over a live link nor within the
\* cooldown, however many tasks wait for the lock.
THEOREM DialsDue == Spec => []DialsAreDue
<1>1. IInv => DialsAreDue
    BY DEF IInv, DialsAreDue
<1> QED
    BY <1>1, Invariance, PTL
=============================================================================
