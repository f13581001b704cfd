----------------------------- MODULE FrameSagas -----------------------------
(***************************************************************************)
(* The sagas beside the map fetch, over a channel that loses, repeats and  *)
(* reorders (pymammotion/messaging/*_saga.py, transfers.py):               *)
(*    stream  CommonDataSaga: every frame acknowledged, counted by number  *)
(*    plans   PlanFetchSaga and SpinoPlanFetchSaga: one request per index  *)
(*    edge    EdgeMappingSaga: frames of a border walk, acknowledged       *)
(*    svg     SvgSendSaga: chunks sent one by one, each answered           *)
(*    path    MowPathSaga: the line hashes, the route, then the cover path *)
(*            of each batch of hashes, kept in the map over retries        *)
(*                                                                         *)
(* A frame once sent may arrive at any later time, any number of times or  *)
(* never: `sent' only grows.  A frame says what it is of -- the edition of *)
(* the device's data, the answer to a chunk, the transaction of a cover    *)
(* path -- and its number.  The hash list is one frame, and a cover path   *)
(* one frame for each hash asked for.                                      *)
(***************************************************************************)
EXTENDS Naturals, Sequences, FiniteSets, SequencesExt

CONSTANTS
    Kinds,        \* the sagas that are looked at
    Size,         \* Size[e]: frames, plans or line hashes of edition e
    Chunks,       \* frames of an SVG tile
    MaxAttempts,  \* MaxAttempts[k]: Saga.max_attempts
    BatchSize,    \* _BATCH_SIZE
    StallLimit,   \* _NO_PROGRESS_LIMIT
    QueueCap,     \* bound: frames waiting in the saga's queue
    MaxSagas,     \* bound: sagas started
    MaxTx         \* bound: transactions of cover paths

ASSUME SagaAssumption ==
    /\ Kinds \subseteq {"stream", "plans", "edge", "svg", "path"}
    /\ Size \in Seq(Nat) /\ Size # <<>>
    /\ MaxAttempts \in [Kinds -> Nat \ {0}]
    /\ Chunks \in Nat \ {0} /\ BatchSize \in Nat \ {0} /\ StallLimit \in Nat \ {0}
    /\ QueueCap \in Nat /\ MaxSagas \in Nat /\ MaxTx \in Nat

Editions == DOMAIN Size

VARIABLES
    kind,
    edition,   \* device: its present data
    stored,    \* device: chunks of the tile it has
    sent,      \* wire: every frame the device has put on it
    lines,     \* HashList: edition of the sub_cmd 3 list, 0 = none
    cover,     \* HashList: current_mow_path, a set of frames
    at,        \* where the saga's task is
    tries, last,   \* _retry_loop: attempt, last_progress
    total,     \* plans: what the first answer says
    queue,     \* the collector's
    banked,    \* frames taken in this run
    index,     \* plan, chunk or batch asked for
    started,   \* edge: _skip_start
    route,     \* path: _route_val is not None
    todo,      \* path: hash_batches
    asked,     \* path: the hashes of each transaction
    first,     \* path: transactions asked before this run
    before, stalls,  \* path: prev_missing, no_progress
    sagas,     \* bound: sagas started so far
    old, calm, \* history: frames not sent in this run; run undisturbed
    paced      \* history: each frame was taken before the next one came

device == <<edition, stored>>
map    == <<lines, cover>>
path   == <<route, todo, asked, first, before, stalls>>
run    == <<tries, last, total, banked, index, started>>
sagaVars ==
    <<kind, edition, stored, sent, lines, cover, at, tries, last, total, queue, banked,
      index, started, route, todo, asked, first, before, stalls, sagas, old, calm, paced>>

Waiting == {"lines", "route", "wait"}
Running == Waiting \cup {"start", "begin", "ask"}

-----------------------------------------------------------------------------
(* Frames.                                                                 *)

Frame(e, n)   == [of |-> e, n |-> n, total |-> Size[e]]
LineFrame(e)  == [of |-> e, n |-> 0, total |-> 1]      \* the hash list, n = 0
Reply(n, res) == [of |-> res, n |-> n, total |-> Chunks]
Paths(t, hashes) == {[of |-> t, n |-> n, total |-> Len(hashes)] : n \in 1 .. Len(hashes)}

\* has_mow_path_for_hash()
Covered(h) == \E f \in cover : asked[f.of][f.n] = h

\* find_missing_mow_path_frames(), of every transaction of the map.
MissingOf(c) ==
    {m \in {f.of : f \in c} \X (1 .. BatchSize) :
        \E f \in c : f.of = m[1] /\ m[2] <= f.total /\ ~ \E g \in c : g.of = m[1] /\ g.n = m[2]}

progress == IF kind = "path" THEN <<IF route THEN 1 ELSE 0, Cardinality(cover)>> ELSE <<0, 0>>

-----------------------------------------------------------------------------
(* The device and the wire.                                                *)

\* A command of ours is lost, or the device answers it with the frames F.
Put(F)    == sent' = sent \cup F /\ old' = old \ F
Answer(F) == UNCHANGED <<sent, old>> \/ Put(F)

\* Where a frame that comes twice is not told from another one.
Counts == kind \in {"plans", "svg", "path"}

Edit ==
    /\ edition' \in Editions \ {edition}
    /\ calm' = FALSE
    /\ UNCHANGED <<kind, stored, sent, map, at, run, queue, path, sagas, old, paced>>

\* The collector queues the frame, the reducer applies it; the saga runs after.
Wanted(f) ==
    \/ at = "lines" /\ f.n = 0
    \/ at \in {"ask", "wait"} /\ (kind = "path" => f.n > 0)

Arrive(f) ==
    /\ IF Wanted(f) THEN Len(queue) < QueueCap /\ queue' = Append(queue, f)
                    ELSE UNCHANGED queue
    /\ lines' = IF kind = "path" /\ f.n = 0 THEN f.of ELSE lines
    /\ cover' = IF kind = "path" /\ f.n > 0 THEN cover \cup {f} ELSE cover
    /\ calm' = (calm /\ f \notin old) /\ paced' = (paced /\ queue = <<>>)
    /\ old' = IF Counts THEN old \cup {f} ELSE old
    /\ UNCHANGED <<kind, device, sent, at, run, path, sagas>>

\* The job ends: invalidate_mow_path().
JobEnds ==
    /\ kind = "path" /\ cover # {}
    /\ cover' = {}
    /\ calm' = FALSE
    /\ UNCHANGED <<kind, device, sent, lines, at, run, queue, path, sagas, old, paced>>

-----------------------------------------------------------------------------
(* Saga.execute() and its retry loop.                                      *)

\* The client makes a new saga: of a walk under way or not, of a route known
\* or not.
Execute ==
    /\ at \notin Running /\ sagas < MaxSagas
    /\ sagas' = sagas + 1 /\ UNCHANGED paced
    /\ at' = "start"
    /\ tries' = 0
    /\ route' \in (IF kind = "path" THEN BOOLEAN ELSE {FALSE})
    /\ last' = <<IF route' THEN 1 ELSE 0, IF kind = "path" THEN Cardinality(cover) ELSE 0>>
    /\ started' \in (IF kind = "edge" THEN BOOLEAN ELSE {FALSE})
    /\ banked' = {} /\ index' = 0 /\ total' = 0
    /\ stored' = {}
    /\ UNCHANGED <<kind, edition, sent, map, queue, todo, asked, first, before, stalls,
                   old, calm>>

StartRun ==
    /\ at = "start"
    /\ at' = IF kind = "path" THEN "begin" ELSE "ask"
    /\ tries' = tries + 1
    /\ banked' = {} /\ index' = (IF kind = "svg" THEN 1 ELSE 0) /\ total' = 0
    /\ first' = Len(asked)
    /\ old' = sent /\ calm' = TRUE /\ paced' = TRUE
    /\ UNCHANGED <<kind, device, sent, map, last, queue, started, route, todo, asked,
                   before, stalls, sagas>>

\* The locals of _run() and the subscription end with it.
Leave == queue' = <<>> /\ todo' = <<>> /\ before' = 0 /\ stalls' = 0

SpentLate == tries > MaxAttempts[kind]     \* mutant: one attempt too many
Spent     == tries >= MaxAttempts[kind]

\* What changed since the last time refreshes the budget.
Interrupted ==
    /\ Leave
    /\ at' = IF progress = last /\ Spent THEN "failed" ELSE "start"
    /\ tries' = IF progress = last THEN tries ELSE 0
    /\ last' = progress

\* A send -- of a request or of an acknowledgement -- ends in a gateway timeout,
\* or a wait times out, the frames that came behind its deadline unread.
Interrupt ==
    /\ at \in Running \ {"start"}
    /\ Interrupted
    /\ UNCHANGED <<kind, device, sent, map, total, banked, index, started, route, asked,
                   first, sagas, old, calm, paced>>

\* total_timeout, or an error that the loop does not handle.
SagaGivesUp ==
    /\ at \in Running
    /\ at' = "failed" /\ Leave
    /\ UNCHANGED <<kind, device, sent, map, run, route, asked, first, sagas, old, calm,
                   paced>>

Done == at' = "done" /\ Leave

Head1 == Head(queue)
Next1 == queue' = Tail(queue)
Idle  == UNCHANGED <<todo, before, stalls>>

-----------------------------------------------------------------------------
(* CommonDataSaga and ack_stream().                                        *)

AskStream ==
    /\ kind = "stream" /\ at = "ask"
    /\ at' = "wait"
    /\ Answer({Frame(edition, n) : n \in {1} \cap 1 .. Size[edition]})
    /\ UNCHANGED <<kind, device, map, run, queue, path, sagas, calm, paced>>

\* What the device sends when frame f is acknowledged.
After(f) == IF f.of = edition /\ f.n < f.total THEN {Frame(f.of, f.n + 1)} ELSE {}

ByNumber(b, f) == f.n = f.total              \* mutant: the last frame ends it
AllBanked(b, f) == Cardinality(b) >= f.total

TakeStream ==
    LET f == Head1
        b == {g \in banked : g.n # f.n} \cup {f}
    IN /\ kind = "stream" /\ at = "wait" /\ queue # <<>>
       /\ Answer(After(f))
       /\ banked' = b
       /\ IF AllBanked(b, f) THEN Done ELSE Next1 /\ Idle /\ UNCHANGED at
       /\ UNCHANGED <<kind, device, map, tries, last, total, index, started, route,
                      asked, first, sagas, calm, paced>>

-----------------------------------------------------------------------------
(* EdgeMappingSaga: a border walk is begun once.                           *)

AskEdge ==
    /\ kind = "edge" /\ at = "ask"
    /\ started' = TRUE
    /\ at' = "wait"
    /\ Answer({Frame(edition, n) : n \in {1} \cap 1 .. Size[edition]})
    /\ UNCHANGED <<kind, device, map, tries, last, total, banked, index, queue, path,
                   sagas, calm, paced>>

\* The gateway times out and the device has the command all the same: the next
\* run sends it again.
WalkUnsure ==
    /\ kind = "edge" /\ at = "ask" /\ ~ started
    /\ Answer({Frame(edition, n) : n \in {1} \cap 1 .. Size[edition]})
    /\ Interrupted
    /\ UNCHANGED <<kind, device, map, total, banked, index, started, route, asked,
                   first, sagas, calm, paced>>

TakeEdge ==
    LET f == Head1
        b == {g \in banked : g.of # f.of \/ g.n # f.n} \cup {f}
    IN /\ kind = "edge" /\ at = "wait" /\ queue # <<>>
       /\ Answer(After(f))
       /\ banked' = b
       /\ IF f.n >= f.total /\ AllBanked({g \in b : g.of = f.of}, f)
          THEN Done ELSE Next1 /\ Idle /\ UNCHANGED at
       /\ UNCHANGED <<kind, device, map, tries, last, total, index, started, route,
                      asked, first, sagas, calm, paced>>

-----------------------------------------------------------------------------
(* The plans: indexed_fetch(), from index 0.                               *)

AskPlan ==
    /\ kind = "plans" /\ at = "ask"
    /\ at' = "wait"
    /\ Answer(IF index < Size[edition] \/ index = 0 THEN {Frame(edition, index)} ELSE {})
    /\ UNCHANGED <<kind, device, map, run, queue, path, sagas, calm, paced>>

\* The total is that of the first answer.
FirstTotal(f) == IF index = 0 THEN f.total ELSE total
OneLess(f) == index + 2 >= FirstTotal(f)      \* mutant: the last index is not asked
UpTo(f)    == index + 1 >= FirstTotal(f)

TakePlan ==
    LET f == Head1
    IN /\ kind = "plans" /\ at = "wait" /\ queue # <<>>
       /\ total' = FirstTotal(f)
       /\ banked' = IF total' = 0 THEN banked ELSE banked \cup {f}
       /\ IF UpTo(f)
          THEN Done /\ UNCHANGED index
          ELSE /\ at' = "ask" /\ index' = index + 1
               /\ Next1 /\ Idle
       /\ UNCHANGED <<kind, device, sent, map, tries, last, started, route, asked,
                      first, sagas, old, calm, paced>>

-----------------------------------------------------------------------------
(* SvgSendSaga.                                                            *)

\* The chunk is lost, or the device keeps it and answers, or rejects it.
SendChunk ==
    /\ kind = "svg" /\ at = "ask"
    /\ at' = "wait"
    /\ \/ UNCHANGED <<stored, sent, old>>
       \/ stored' = stored \cup {index} /\ Put({Reply(index, 0)})
       \/ UNCHANGED stored /\ Put({Reply(index, 1)})
    /\ UNCHANGED <<kind, edition, map, run, queue, path, sagas, calm, paced>>

AnyResult(f) == TRUE                          \* mutant: the result is not looked at
Accepted(f)  == f.of = 0

\* banked keeps the last answer: its data_hash is the result.
TakeReply ==
    LET f == Head1
    IN /\ kind = "svg" /\ at = "wait" /\ queue # <<>>
       /\ banked' = {f}
       /\ \/ ~ Accepted(f) /\ at' = "failed" /\ Leave /\ UNCHANGED index
          \/ Accepted(f) /\ index = Chunks /\ Done /\ UNCHANGED index
          \/ Accepted(f) /\ index < Chunks /\ at' = "ask" /\ index' = index + 1 /\ Next1 /\ Idle
       /\ UNCHANGED <<kind, device, sent, map, tries, last, total, started, route,
                      asked, first, sagas, old, calm, paced>>

-----------------------------------------------------------------------------
(* MowPathSaga.                                                            *)

\* The sync and the request for the line hashes.
AskLines ==
    /\ at = "begin"
    /\ at' = "lines"
    /\ Answer({LineFrame(edition)})
    /\ UNCHANGED <<kind, device, map, run, queue, path, sagas, calm, paced>>

\* The batches of what is not in the map.  Without line hashes, or with all of
\* them there, the saga is done.
Batches(m) ==
    LET k == (Len(m) + BatchSize - 1) \div BatchSize
    IN [i \in 1 .. k |-> SubSeq(m, (i - 1) * BatchSize + 1,
                                IF i * BatchSize < Len(m) THEN i * BatchSize ELSE Len(m))]

CachedAny(h) == cover # {}                    \* mutant: any path will do
Cached(h)    == Covered(h)
Hashes == IF lines = 0 THEN {} ELSE 1 .. Size[lines]

\* The batches are cut from what is missing, in whatever order it is listed.
Fetch ==
    LET missing == SetToSeq({h \in Hashes : ~ Cached(h)})
    IN IF missing = <<>>
       THEN Done /\ route' = (Hashes # {})
       ELSE /\ at' = "ask" /\ todo' = Batches(missing) /\ route' = TRUE
            /\ queue' = <<>> /\ UNCHANGED <<before, stalls>>

\* The list arrived, or silence is taken for an empty one.  A route that is not
\* known is asked for, unless the job is said to run: then the saga fails.
LinesEnd ==
    /\ at = "lines"
    /\ calm' = (calm /\ queue # <<>>)
    /\ \/ route /\ Fetch
       \/ ~ route /\ at' = "failed" /\ Leave /\ UNCHANGED route
       \/ ~ route /\ at' = "route" /\ queue' = <<>> /\ Idle /\ UNCHANGED route
    /\ UNCHANGED <<kind, device, sent, map, run, asked, first, sagas, old, paced>>

\* broker.send_and_wait() returns the route, and the step goes on.
Routed ==
    /\ at = "route"
    /\ Fetch
    /\ UNCHANGED <<kind, device, sent, map, run, asked, first, sagas, old, calm, paced>>

\* get_line_info_list() of the next batch, under a new transaction.
AskBatch ==
    /\ kind = "path" /\ at = "ask" /\ Len(asked) < MaxTx
    /\ at' = "wait"
    /\ asked' = Append(asked, Head(todo))
    /\ todo' = Tail(todo)
    /\ before' = Cardinality(MissingOf(cover)) /\ stalls' = 0
    /\ Answer(Paths(Len(asked'), Head(todo)))
    /\ UNCHANGED <<kind, device, map, run, queue, route, first, sagas, calm, paced>>

\* A frame of a transaction of another run is taken out of the map.
Residual ==
    /\ kind = "path" /\ at = "wait" /\ queue # <<>>
    /\ Head1.of <= first
    /\ cover' = {f \in cover : f.of # Head1.of}
    /\ Next1
    /\ UNCHANGED <<kind, device, sent, lines, at, run, path, sagas, old, calm, paced>>

\* Any other frame: the map says whether something is missing.
TakeCover ==
    LET now == Cardinality(MissingOf(cover))
        stuck == IF now < before THEN 0 ELSE stalls + 1
    IN /\ kind = "path" /\ at = "wait" /\ queue # <<>>
       /\ Head1.of > first
       /\ \/ stuck >= StallLimit /\ Interrupted /\ UNCHANGED route
          \/ /\ stuck < StallLimit /\ now > 0
             /\ Next1 /\ before' = now /\ stalls' = stuck
             /\ UNCHANGED <<at, todo, tries, last, route>>
          \/ /\ stuck < StallLimit /\ now = 0 /\ todo # <<>>
             /\ Next1 /\ at' = "ask" /\ UNCHANGED <<before, stalls, todo, tries, last,
                                                    route>>
          \/ /\ stuck < StallLimit /\ now = 0 /\ todo = <<>>
             /\ Done /\ route' = FALSE /\ UNCHANGED <<tries, last>>
       /\ UNCHANGED <<kind, device, sent, map, total, banked, index, started, asked,
                      first, sagas, old, calm, paced>>

-----------------------------------------------------------------------------

SagaInit ==
    /\ kind \in Kinds
    /\ edition \in Editions /\ stored = {}
    /\ sent = {} /\ old = {} /\ calm = FALSE /\ paced = FALSE
    /\ lines = 0 /\ cover = {}
    /\ at = "idle" /\ tries = 0 /\ last = <<0, 0>> /\ total = 0
    /\ queue = <<>> /\ banked = {} /\ index = 0 /\ started = FALSE
    /\ route = FALSE /\ todo = <<>> /\ asked = <<>> /\ first = 0 /\ before = 0 /\ stalls = 0
    /\ sagas = 0

SagaNext ==
    \/ Edit \/ JobEnds \/ (\E f \in sent : Arrive(f))
    \/ Execute \/ StartRun \/ Interrupt \/ SagaGivesUp
    \/ AskStream \/ TakeStream \/ AskEdge \/ WalkUnsure \/ TakeEdge
    \/ AskPlan \/ TakePlan \/ SendChunk \/ TakeReply
    \/ AskLines \/ LinesEnd \/ Routed \/ AskBatch \/ Residual \/ TakeCover

SagaSpec == SagaInit /\ [][SagaNext]_sagaVars

-----------------------------------------------------------------------------
(* Properties.                                                             *)

Numbers(F) == {f.n : f \in F}

\* The types, and the budget: a saga is entered at most max_attempts times
\* without progress (saga.py _retry_loop).
SagaTypeOK ==
    /\ kind \in Kinds /\ edition \in Editions /\ stored \subseteq 1 .. Chunks
    /\ old \subseteq sent /\ cover \subseteq sent /\ banked \subseteq sent
    /\ lines \in Editions \cup {0}
    /\ at \in Running \cup {"idle", "done", "failed"}
    /\ tries <= MaxAttempts[kind]
    /\ \A i \in DOMAIN queue : queue[i] \in sent
    /\ at \notin Running => queue = <<>> /\ todo = <<>>
    /\ at = "ask" /\ kind = "path" => todo # <<>>

\* What a saga that ends well hands over is one whole: of a border walk every
\* frame of one hash, whatever was lost, repeated or reordered; of a stream and of
\* the plans what the device has, and of a tile all its chunks on the device and
\* the hash of the last answer, when neither an edit nor a frame of an earlier
\* request came into the run (transfers.py ack_stream, indexed_fetch; edge_saga.py;
\* svg_saga.py).
FetchWhole ==
    at = "done" =>
        /\ kind = "edge" =>
               \E e \in Editions : Size[e] > 0 /\ Numbers({f \in banked : f.of = e}) = 1 .. Size[e]
        /\ kind = "stream" /\ calm => banked = {Frame(edition, n) : n \in 1 .. Size[edition]}
        /\ kind = "plans" /\ calm  => banked = {Frame(edition, n - 1) : n \in 1 .. Size[edition]}
        /\ kind = "svg" /\ calm    => stored = 1 .. Chunks /\ banked = {Reply(Chunks, 0)}

\* "Collect all cover_path_upload frames until none are missing": a path fetch
\* that ends well in a run without an edit, a job's end or a frame that came late
\* or twice leaves the path of every hash of the device's list in the map
\* (mow_path_saga.py:34).
PathPromised ==
    kind = "path" /\ at = "done" /\ calm =>
        lines = edition /\ \A h \in 1 .. Size[edition] : Covered(h)

\* It does so when each frame is also taken before the next one comes, whatever
\* was in the map before and was not asked for again.
PathWhole == paced => PathPromised
=============================================================================
