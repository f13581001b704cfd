------------------------------ MODULE MapFetch -----------------------------
(***************************************************************************)
(* MapFetchSaga over a lossy channel: the retry loop of Saga, the root     *)
(* list fetched with ack_stream, the per-hash transfer, the HashList the   *)
(* state reducer keeps while the saga reads it, and the watcher that       *)
(* starts a fetch when the device reports another map.                     *)
(*                                                                         *)
(* A hash names content, so an edited element has a new hash and the       *)
(* frames of a hash never change.  A frame once sent may arrive at any     *)
(* later time, any number of times or never: `sent' only grows.            *)
(***************************************************************************)
EXTENDS Naturals, Sequences, FiniteSets, Functions

CONSTANTS Hashes,       \* map elements, all of type AREA
          Size,         \* Size[h]: the frames of element h
          Manifest,     \* Manifest[e]: root list of edition e, one element a frame
          MaxAttempts,  \* Saga.max_attempts
          StallLimit,   \* _no_progress_limit
          QueueCap,     \* bound: frames waiting in the saga's queue
          MaxSyncs      \* bound: fetches started

Editions == DOMAIN Manifest

ASSUME MapAssumption == /\ Size \in [Hashes -> Nat \ {0}]
                        /\ Manifest \in Seq(Seq(Hashes)) /\ Manifest # <<>>
                        /\ MaxAttempts \in Nat \ {0} /\ StallLimit \in Nat \ {0}
                        /\ QueueCap \in Nat /\ MaxSyncs \in Nat

VARIABLES
  edition,      \* device: the current entry of Manifest
  reported,     \* handle: edition of the last bol_hash reported, 0 = none yet
  sent,         \* wire: every frame the device has put on it
  root,         \* HashList: the frames in root_hash_lists of sub_cmd 0
  lines,        \* HashList: root_hash_lists also has a sub_cmd 3 list
  got,          \* HashList: got[h] is the set of frames held of h
  pc,           \* saga: where the task is
  attempt, last,            \* _retry_loop: attempt, last_progress
  banked,                   \* ack_stream: keys of frames
  queue, frame,             \* collector queue; the frame being handled
  missing, currentHash, addressed, stalls,   \* locals of step 4
  syncs,        \* bound: fetches started so far
  old, calm     \* history: frames not sent in this run; run undisturbed

device == <<edition, reported>>
hashList == <<root, lines, got>>
step4 == <<missing, currentHash, addressed, stalls>>
saga == <<pc, attempt, last, banked, queue, frame, step4>>
mapVars == <<device, sent, hashList, saga, syncs, old, calm>>

None == "none"
NoFrame == [kind |-> "none"]
Running == {"start", "begin", "root", "ask", "data", "check"}

-----------------------------------------------------------------------------
(* Frames and the HashList                                                 *)

RootFrame(e, n) == [kind |-> "root", total |-> Len(Manifest[e]), n |-> n,
                    hash |-> Manifest[e][n]]
DataFrame(h, n) == [kind |-> "data", total |-> Size[h], n |-> n, hash |-> h]

\* All frames of the elements of edition e.
Whole(e) == [h \in Hashes |-> IF h \in Range(Manifest[e]) THEN 1..Size[h] ELSE {}]

UpdateRootReplaces(r, f) ==          \* mutant: a frame replaces the lists
  {[at |-> 1, pos |-> 1, total |-> f.total, n |-> f.n, hash |-> f.hash]}

\* update_root_hash_list: matching is by total_frame, then by current_frame.  `at'
\* numbers the lists, `pos' the frames of a list, as they came.
UpdateRoot(r, f) ==
  LET list == {x \in r : x.total = f.total}
      same == {x \in list : x.n = f.n}
      at == IF list # {} THEN (CHOOSE x \in list : TRUE).at ELSE Cardinality({x.at : x \in r}) + 1
      pos == IF same # {} THEN (CHOOSE x \in same : TRUE).pos ELSE Cardinality(list) + 1
  IN (r \ same) \union {[at |-> at, pos |-> pos, total |-> f.total, n |-> f.n, hash |-> f.hash]}

\* hashlist, as a set.
Hashlist(r) == {x.hash : x \in r}

\* area_root_hashlist: each hash with its place, list by list in frame order.
Place(r, x) == 1 + Cardinality({y \in r : y.at < x.at \/ (y.at = x.at /\ y.n < x.n)})
AreaRoot(r) == {<<Place(r, x), x.hash>> : x \in r}
AreaOf(e)   == {<<n, Manifest[e][n]>> : n \in DOMAIN Manifest[e]}

\* computed_bol_hash, up to collisions of the hash function.
Matches(r, e) == AreaRoot(r) = AreaOf(e)

\* The one complete list of edition e.  computed_bol_hash cannot tell it from
\* parts of other lists that happen to add up to the same elements.
Exact(r, e) == {<<x.total, x.n, x.hash>> : x \in r}
                 = {<<Len(Manifest[e]), n, Manifest[e][n]>> : n \in DOMAIN Manifest[e]}

\* update_hash_lists: an empty list prunes nothing.  The list includes the
\* hashes of the sub_cmd 3 list, of which none is an area.
Prune(g, r, ln) == IF r = {} /\ ~ln THEN g
                   ELSE [h \in Hashes |-> IF h \in Hashlist(r) THEN g[h] ELSE {}]

\* find_missing_frames of the entry of h; an absent entry misses nothing.
MissingFrames(g, h) == IF g[h] = {} THEN {} ELSE (1..Size[h]) \ g[h]

\* find_incomplete_hashes without the hashes D, as entries of the root lists: a
\* hash counts as often as it is listed.
Incomplete(g, r, D) == {x \in r : x.hash \notin D /\ g[x.hash] # 1..Size[x.hash]}

\* The first of them in the order they are stored.
First(P) == CHOOSE x \in P : \A y \in P : x.at < y.at \/ (x.at = y.at /\ x.pos <= y.pos)

progress == Cardinality(Incomplete(got, root, {}))

-----------------------------------------------------------------------------
(* The device and the wire                                                 *)

\* The frame the device sends when frame f is acknowledged.
After(f) ==
  IF f.kind = "data"
  THEN IF f.n < f.total THEN {DataFrame(f.hash, f.n + 1)} ELSE {}
  ELSE IF f.total = Len(Manifest[edition]) /\ f.n < f.total
       THEN {RootFrame(edition, f.n + 1)} ELSE {}

\* A command of ours is lost, or the device answers it with the frames F.
Answer(F) == \/ UNCHANGED <<sent, old>>
             \/ F # {} /\ sent' = sent \union F /\ old' = old \ F

\* The map is edited on the device.
Edit == /\ edition + 1 \in Editions
        /\ edition' = edition + 1
        /\ calm' = FALSE
        /\ UNCHANGED <<reported, sent, hashList, saga, syncs, old>>

\* A frame arrives: the collector queues it, the reducer applies it, and the
\* saga runs only afterwards.
Arrive(f) ==
  /\ f \in sent
  /\ IF f.kind = "root"
     THEN root' = UpdateRoot(root, f) /\ got' = got
     ELSE /\ root' = root
          /\ got' = Prune([got EXCEPT ![f.hash] = @ \union {f.n}], root, lines)
  /\ IF \/ pc = "root" /\ f.kind = "root"
        \/ pc \in {"ask", "data", "check"} /\ f.kind = "data"
     THEN Len(queue) < QueueCap /\ queue' = Append(queue, f)
     ELSE queue' = queue
  /\ calm' = (calm /\ f \notin old)
  /\ UNCHANGED <<device, sent, lines, pc, attempt, last, banked, frame, step4, syncs, old>>

\* A retransmitted hash list of an interrupted mow path fetch (sub_cmd 3).
LineListArrives ==
  /\ ~lines /\ lines' = TRUE
  /\ UNCHANGED <<device, sent, root, got, saga, syncs, old, calm>>

-----------------------------------------------------------------------------
(* The saga                                                                *)

\* The locals of _run end with it.
Leave == /\ banked' = {} /\ queue' = <<>> /\ frame' = NoFrame
         /\ missing' = {} /\ currentHash' = None /\ addressed' = {} /\ stalls' = 0

\* start_map_sync, then execute and the head of _retry_loop.
Execute == /\ pc' = "start" /\ attempt' = 0
           /\ last' = progress
           /\ syncs' = syncs + 1

\* The user, or the periodic update, asks for a map sync.
Sync == /\ pc \notin Running /\ syncs < MaxSyncs
        /\ Execute
        /\ UNCHANGED <<device, sent, hashList, banked, queue, frame, step4, old, calm>>

\* A report carries the map's bol_hash; _on_bol_hash_changed starts a fetch
\* unless a saga is active.
Report == /\ reported # edition
          /\ reported' = edition
          /\ IF pc \in Running THEN UNCHANGED <<pc, attempt, last, syncs>>
             ELSE syncs < MaxSyncs /\ Execute
          /\ UNCHANGED <<edition, sent, hashList, banked, queue, frame, step4, old, calm>>

NeverStale == FALSE        \* mutant: an unknown hash and a wrong one are the same
StaleRoot == reported # 0 /\ ~Matches(root, reported)

\* The device pushes its list of area names.  Outside a saga the reducer takes
\* the occasion to drop a root list that does not match.
NamesArrive ==
  /\ pc \notin Running /\ StaleRoot
  /\ root' = {} /\ got' = Prune(got, {}, lines)
  /\ UNCHANGED <<device, sent, lines, saga, syncs, old, calm>>

\* _run begins: invalidate_maps drops a root list that does not match, and
\* prunes by what is left of the hash lists.
StartRun ==
  /\ pc = "start" /\ pc' = "begin"
  /\ attempt' = attempt + 1
  /\ root' = IF StaleRoot THEN {} ELSE root
  /\ got' = IF StaleRoot THEN Prune(got, {}, lines) ELSE got
  /\ old' = sent
  /\ calm' = (reported = edition /\ (Matches(root, edition) => Exact(root, edition)))
  /\ UNCHANGED <<device, sent, lines, last, banked, queue, frame, step4, syncs>>

\* After the sync and the area names: subscribe, then ask for the root list.
AskRoot == /\ pc = "begin" /\ pc' = "root"
           /\ Answer({RootFrame(edition, n) : n \in {1} \cap DOMAIN Manifest[edition]})
           /\ UNCHANGED <<device, hashList, attempt, last, banked, queue, frame, step4, syncs, calm>>

\* The saga returns; on_complete prunes by the root list of the result.
Finish == /\ pc' = "done" /\ attempt' = 0 /\ last' = 0
          /\ got' = Prune(got, root, lines)
          /\ Leave

\* ack_stream: acknowledge a frame, bank it, and end when as many are banked
\* as this frame announces.  Step 4 then begins.
TakeRoot ==
  LET f == Head(queue)
      banked2 == banked \union {f.n}
      todo == Incomplete(got, root, {})
  IN /\ pc = "root" /\ queue # <<>>
     /\ Answer(After(f))
     /\ CASE Cardinality(banked2) < f.total ->
                /\ banked' = banked2 /\ queue' = Tail(queue)
                /\ UNCHANGED <<pc, got, attempt, last, frame, step4>>
          [] Cardinality(banked2) >= f.total /\ todo = {} -> Finish
          [] OTHER -> /\ pc' = "ask" /\ currentHash' = First(todo).hash /\ missing' = todo
                      /\ banked' = {} /\ queue' = <<>>
                      /\ UNCHANGED <<got, attempt, last, frame, addressed, stalls>>
     /\ UNCHANGED <<device, root, lines, syncs, calm>>

\* synchronize_hash_data(currentHash)
AskData == /\ pc = "ask" /\ pc' = "data"
           /\ Answer({DataFrame(currentHash, 1)})
           /\ UNCHANGED <<device, hashList, attempt, last, banked, queue, frame, step4, syncs, calm>>

\* Every frame is acknowledged before anything is decided about it.
TakeData == /\ pc = "data" /\ queue # <<>> /\ pc' = "check"
            /\ frame' = Head(queue) /\ queue' = Tail(queue)
            /\ Answer(After(frame'))
            /\ UNCHANGED <<device, hashList, attempt, last, banked, step4, syncs, calm>>

InScope == frame.hash \in Hashlist(missing) \union {currentHash}
Addressed == addressed \union (IF frame.n >= frame.total THEN {frame.hash} ELSE {})

\* A frame of no hash being fetched, or one that leaves its hash incomplete.
CheckMore ==
  /\ pc = "check" /\ pc' = "data"
  /\ ~InScope \/ MissingFrames(got, frame.hash) # {}
  /\ addressed' = IF InScope THEN Addressed ELSE addressed
  /\ frame' = NoFrame
  /\ UNCHANGED <<device, sent, hashList, attempt, last, banked, queue, missing, currentHash,
                 stalls, syncs, old, calm>>

\* _drain_current_hash_frames acknowledges and drops the leading frames of
\* the current hash; the first frame of another hash goes back to the end.
FirstOther == LET others == {i \in DOMAIN queue : queue[i].hash # currentHash}
              IN CHOOSE i \in 1..(Len(queue) + 1) :
                   /\ i \in others \union {Len(queue) + 1}
                   /\ \A k \in others : i <= k
Drained == {queue[i] : i \in 1..(FirstOther - 1)}
AfterDrain == IF FirstOther > Len(queue) THEN <<>>
              ELSE SubSeq(queue, FirstOther + 1, Len(queue)) \o <<queue[FirstOther]>>

SpentLate == attempt > MaxAttempts       \* mutant: one attempt too many
Spent == attempt >= MaxAttempts

\* _retry_loop's handler: only a run that banked nothing counts.
Interrupted ==
  /\ Leave
  /\ CASE progress # last -> pc' = "start" /\ last' = progress /\ attempt' = 0
       [] progress = last /\ ~Spent -> pc' = "start" /\ UNCHANGED <<last, attempt>>
       [] OTHER -> pc' = "failed" /\ last' = 0 /\ attempt' = 0

\* A frame that completes its item: drain, then decide whether to go on.
CheckItem ==
  LET todo == Incomplete(got, root, Addressed)
      stuck == IF Cardinality(todo) < Cardinality(missing) THEN 0 ELSE stalls + 1
  IN /\ pc = "check" /\ InScope /\ MissingFrames(got, frame.hash) = {}
     /\ Answer(UNION {After(f) : f \in Drained})
     /\ CASE stuck >= StallLimit -> Interrupted /\ got' = got
          [] stuck < StallLimit /\ todo = {} -> Finish
          [] OTHER -> /\ missing' = todo /\ addressed' = Addressed /\ stalls' = stuck
                      /\ queue' = AfterDrain /\ frame' = NoFrame
                      /\ currentHash' = First(todo).hash
                      /\ pc' = IF First(todo).hash = currentHash THEN "data" ELSE "ask"
                      /\ UNCHANGED <<got, attempt, last, banked>>
     /\ UNCHANGED <<device, root, lines, syncs, calm>>

\* A step times out with nothing in its queue, or a send ends in a gateway
\* timeout.
Interrupt == /\ pc \in Running \ {"start"}
             /\ pc \in {"root", "data"} => queue = <<>>
             /\ Interrupted
             /\ UNCHANGED <<device, sent, hashList, syncs, old, calm>>

\* total_timeout, or an exception the loop does not handle.
GiveUp == /\ pc \in Running
          /\ pc' = "failed" /\ attempt' = 0 /\ last' = 0 /\ Leave
          /\ UNCHANGED <<device, sent, hashList, syncs, old, calm>>

-----------------------------------------------------------------------------

DataFrames == UNION {{DataFrame(h, n) : n \in 1..Size[h]} : h \in Hashes}
RootFrames == UNION {{RootFrame(e, n) : n \in DOMAIN Manifest[e]} : e \in Editions}

\* The app starts with an empty map, or with the complete first edition from
\* its cache.
MapInit ==
  /\ edition = 1 /\ reported = 0
  /\ sent = {} /\ old = {}
  /\ \/ root = {} /\ got = [h \in Hashes |-> {}]
     \/ /\ root = {[at |-> 1, pos |-> n, total |-> Len(Manifest[1]), n |-> n, hash |-> Manifest[1][n]]
                    : n \in DOMAIN Manifest[1]}
        /\ got = Whole(1)
  /\ lines = FALSE
  /\ pc = "idle" /\ attempt = 0 /\ last = 0
  /\ banked = {} /\ queue = <<>> /\ frame = NoFrame
  /\ missing = {} /\ currentHash = None /\ addressed = {} /\ stalls = 0
  /\ syncs = 0
  /\ calm = FALSE

MapNext == \/ Edit \/ Report \/ Sync \/ LineListArrives \/ NamesArrive
           \/ \E f \in RootFrames \union DataFrames : Arrive(f)
           \/ StartRun \/ AskRoot \/ TakeRoot \/ AskData
           \/ TakeData \/ CheckMore \/ CheckItem
           \/ Interrupt \/ GiveUp

MapSpec == MapInit /\ [][MapNext]_mapVars

-----------------------------------------------------------------------------

MapTypeOK ==
  /\ edition \in Editions /\ reported \in {0} \union Editions
  /\ sent \subseteq RootFrames \union DataFrames /\ old \subseteq sent
  /\ root \subseteq [at : Nat, pos : Nat, total : Nat, n : Nat, hash : Hashes]
  /\ lines \in BOOLEAN
  /\ got \in [Hashes -> SUBSET Nat]
  /\ pc \in Running \union {"idle", "done", "failed"}
  /\ attempt \in 0..MaxAttempts /\ last \in Nat
  /\ banked \subseteq Nat
  /\ queue \in Seq(RootFrames \union DataFrames)
  /\ frame \in DataFrames \union {NoFrame}
  /\ missing \subseteq [at : Nat, pos : Nat, total : Nat, n : Nat, hash : Hashes]
  /\ currentHash \in Hashes \union {None}
  /\ addressed \subseteq Hashes /\ stalls \in 0..StallLimit
  /\ syncs \in 0..MaxSyncs /\ calm \in BOOLEAN

-----------------------------------------------------------------------------
(* Properties                                                              *)

\* Refinement: an undisturbed fetch is one copy of the device's map.  The frame
\* by frame transfer with its losses, duplicates and retries (ack_stream, step
\* 4, _retry_loop) implements MapCopy.
Copy == INSTANCE MapCopy WITH
          Copies <- [list : SUBSET (Nat \X Hashes), frames : [Hashes -> SUBSET Nat]],
          MapOf <- [e \in Editions |-> [list |-> AreaOf(e), frames |-> Whole(e)]],
          edition <- edition,
          phase <- IF pc \in Running THEN "running" ELSE pc,
          copy <- [list |-> AreaRoot(root), frames |-> got],
          calm <- calm
CopySpec == Copy!Spec

\* What the class comment of MapFetchSaga relies on: a frame the saga takes from
\* its queue is in the map already, and no pruning has taken it out again.  An
\* edit or a replayed root list can break this; nothing else does.
TakenIsApplied ==
  calm => \A f \in Range(queue) \union {frame} :
            f.kind = "data" => f.n \in got[f.hash] /\ f.hash \in Hashlist(root)
=============================================================================
