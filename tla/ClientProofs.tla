---------------------------- MODULE ClientProofs ----------------------------
(***************************************************************************)
(* Proofs about two things the client does for an account.                 *)
(*                                                                         *)
(* CloudMigration, for any finite set of mowers and any number of          *)
(* attempts: a mower is moved once, no more transports are made than       *)
(* mowers moved, and the shared Aliyun transport outlives every mower that *)
(* does not need it.                                                       *)
(*                                                                         *)
(* MapFetch, for any elements and frames, any sequence of edits and any    *)
(* limits: the types, that what the saga takes from its queue is in the    *)
(* map, and that a fetch nothing disturbs is one copy of the device's map  *)
(* (MapCopy).                                                              *)
(***************************************************************************)
EXTENDS CloudMigration, MapFetch,
        FiniteSetTheorems, SequenceTheorems, WellFoundedInduction, TLAPS

(***************************************************************************)
(* CloudMigration.                                                         *)
(***************************************************************************)

USE MigrationAssumption

\* The ranges that do not depend on how many transports are made.
SetsOK ==
    /\ registered \subseteq Devices /\ members \subseteq Devices /\ stopping \subseteq Devices
    /\ aliyun \subseteq Devices /\ aliyunUp \in BOOLEAN
HooksOK ==
    /\ hook \in [Devices -> {"none", "starting", "listing", "fetching", "subscribing", "sleeping"}]
    /\ try \in [Devices -> 1 .. Attempts]
    /\ known \in [Devices -> BOOLEAN]
    /\ hooks \in [Devices -> Nat]
LinksOK ==
    /\ made \in Nat
    /\ closed \subseteq 1 .. made
    /\ current \in 0 .. made
    /\ link \in [Devices -> 0 .. made] /\ target \in [Devices -> 0 .. made]

\* A mower with the Aliyun transport attached has not been answered yet; a hook
\* that subscribes does so on a transport the account has.
FreshInv ==
    \A d \in Devices : /\ hooks[d] <= 1
                       /\ d \in aliyun => hooks[d] = 0 /\ hook[d] = "none"
                       /\ hook[d] # "none" => hooks[d] = 1
                       /\ hook[d] = "subscribing" => current # 0

\* Only the last mower of the account stops with the Aliyun transport.
SharedInv ==
    /\ aliyun \cap registered \subseteq members
    /\ stopping \cap aliyun # {} => aliyun \cap registered = {}
    /\ AliyunSurvives

\* The hooks that are past making a transport: with one at the account, the
\* next attempt takes it.
Past(d) ==
    \/ hook[d] \in {"subscribing", "none"}
    \/ hook[d] \in {"sleeping", "listing"} /\ current # 0
UsedUp == {d \in Devices : hooks[d] = 1 /\ Past(d)}
MadeInv == made <= Cardinality(UsedUp)

IInv == SetsOK /\ HooksOK /\ LinksOK /\ FreshInv /\ SharedInv /\ MadeInv

-----------------------------------------------------------------------------
(* How many are used up.                                                   *)

LEMMA UsedUpFinite == IsFiniteSet(UsedUp) /\ Cardinality(UsedUp) \in Nat
                        /\ Cardinality(UsedUp) <= Cardinality(Devices)
<1>1. UsedUp \subseteq Devices
  BY DEF UsedUp, Past
<1>2. QED
  BY <1>1, FS_Subset, FS_CardinalityType DEF MigrationAssumption

\* A step that neither makes a transport nor revives a spent hook.
LEMMA MadeKeeps ==
    ASSUME IInv, made' = made, UsedUp \subseteq UsedUp'
    PROVE  MadeInv'
<1>1. UsedUp' \subseteq Devices
  BY DEF UsedUp, Past
<1>2. IsFiniteSet(UsedUp') /\ Cardinality(UsedUp') \in Nat
  BY <1>1, FS_Subset, FS_CardinalityType
<1>3. Cardinality(UsedUp) <= Cardinality(UsedUp')
  BY <1>2, FS_Subset
<1>4. QED
  BY <1>2, <1>3, UsedUpFinite DEF IInv, LinksOK, MadeInv

-----------------------------------------------------------------------------
(* The steps.                                                              *)

LEMMA InitIInv == Init => IInv
<1> SUFFICES ASSUME Init PROVE IInv
  OBVIOUS
<1>1. SetsOK /\ HooksOK
  BY DEF Init, SetsOK, HooksOK
<1>2. LinksOK
  BY DEF Init, LinksOK
<1>3. FreshInv /\ SharedInv
  BY DEF Init, FreshInv, SharedInv, AliyunSurvives
<1>4. MadeInv
  BY UsedUpFinite DEF Init, MadeInv
<1>5. QED
  BY <1>1, <1>2, <1>3, <1>4 DEF IInv

LEMMA RemoveDeviceKeeps == ASSUME IInv, NEW d \in Devices, RemoveDevice(d) PROVE IInv'
<1> USE DEF RemoveDevice, Unregister, DetachShared, tasks
<1>1. SetsOK' /\ HooksOK'
  BY DEF IInv, SetsOK, HooksOK
<1>2. LinksOK'
  <2>1. link' \in [Devices -> 0 .. made]
    BY DEF IInv, LinksOK
  <2>2. QED
    BY <2>1 DEF IInv, LinksOK
<1>3. FreshInv'
  BY DEF IInv, FreshInv
<1>4. SharedInv'
  <2>1. CASE d \in members /\ members \ {d} # {}
    BY <2>1 DEF IInv, SharedInv, AliyunSurvives
  <2>2. CASE d \in members /\ members \ {d} = {}
    <3>1. aliyun' \cap registered' = {}
      BY <2>2 DEF IInv, SharedInv
    <3>2. QED
      BY <2>2, <3>1 DEF SharedInv, AliyunSurvives
  <2>3. CASE d \notin members
    <3>1. d \notin aliyun
      BY <2>3 DEF IInv, SharedInv
    <3>2. QED
      BY <2>3, <3>1 DEF IInv, SharedInv, AliyunSurvives
  <2>4. QED
    BY <2>1, <2>2, <2>3
<1>5. MadeInv'
  BY MadeKeeps DEF UsedUp, Past
<1>6. QED
  BY <1>1, <1>2, <1>3, <1>4, <1>5 DEF IInv

LEMMA StopEndsKeeps == ASSUME IInv, NEW d \in Devices, StopEnds(d) PROVE IInv'
<1> USE DEF StopEnds, tasks
<1>1. SetsOK' /\ HooksOK'
  BY DEF IInv, SetsOK, HooksOK
<1>2. LinksOK'
  <2>1. link' \in [Devices -> 0 .. made]
    BY DEF IInv, LinksOK
  <2>2. link[d] \in 0 .. made /\ made \in Nat
    BY DEF IInv, LinksOK
  <2>3. {link[d]} \ {0} \subseteq 1 .. made
    BY <2>2
  <2>4. QED
    BY <2>1, <2>3 DEF IInv, LinksOK
<1>3. FreshInv'
  BY DEF IInv, FreshInv
<1>4. SharedInv'
  BY DEF IInv, SharedInv, AliyunSurvives
<1>5. MadeInv'
  BY MadeKeeps DEF UsedUp, Past
<1>6. QED
  BY <1>1, <1>2, <1>3, <1>4, <1>5 DEF IInv

LEMMA UnboundKeeps == ASSUME IInv, NEW d \in Devices, Unbound(d) PROVE IInv'
<1> USE DEF Unbound, MayStart, account
<1>1. SetsOK' /\ HooksOK'
  BY DEF IInv, SetsOK, HooksOK
<1>2. LinksOK'
  BY DEF IInv, LinksOK
<1>3. FreshInv'
  BY DEF IInv, FreshInv, HooksOK
<1>4. SharedInv'
  BY DEF IInv, SharedInv, AliyunSurvives
<1>5. MadeInv'
  <2>1. d \notin UsedUp
    BY DEF IInv, FreshInv, UsedUp, Past
  <2>2. UsedUp \subseteq UsedUp'
    BY <2>1 DEF IInv, HooksOK, UsedUp, Past
  <2>3. QED
    BY <2>2, MadeKeeps
<1>6. QED
  BY <1>1, <1>2, <1>3, <1>4, <1>5 DEF IInv

\* Steps of a hook that touch neither the account nor the transports.
LEMMA HookKeeps ==
    ASSUME IInv, NEW d \in Devices,
           Begin(d) \/ AttemptFails(d) \/ Listed(d) \/ Wake(d)
    PROVE  IInv'
<1> USE DEF Begin, AttemptFails, Listed, Wake, NextAttempt, Last, account, cloud
<1>1. SetsOK' /\ SharedInv'
  BY DEF IInv, SetsOK, SharedInv, AliyunSurvives
<1>2. HooksOK'
  <2>1. try' \in [Devices -> 1 .. Attempts]
    BY DEF IInv, HooksOK
  <2>2. known' \in [Devices -> BOOLEAN]
    <3>1. (d \in members) \in BOOLEAN
      OBVIOUS
    <3>2. known' = known \/ known' = [known EXCEPT ![d] = d \in members]
      OBVIOUS
    <3>3. known \in [Devices -> BOOLEAN]
      BY DEF IInv, HooksOK
    <3>4. QED
      BY ONLY <3>1, <3>2, <3>3, Zenon
  <2>3. hook' \in [Devices -> {"none", "starting", "listing", "fetching", "subscribing", "sleeping"}]
    BY DEF IInv, HooksOK
  <2>4. QED
    BY <2>1, <2>2, <2>3 DEF IInv, HooksOK
<1>3. LinksOK'
  <2>1. target' \in [Devices -> 0 .. made]
    BY DEF IInv, LinksOK
  <2>2. QED
    BY <2>1 DEF IInv, LinksOK
<1>4. FreshInv'
  BY DEF IInv, FreshInv, HooksOK
<1>5. MadeInv'
  <2>1. UsedUp \subseteq UsedUp'
    BY DEF IInv, HooksOK, FreshInv, UsedUp, Past
  <2>2. QED
    BY <2>1, MadeKeeps
<1>6. QED
  BY <1>1, <1>2, <1>3, <1>4, <1>5 DEF IInv

LEMMA NotListedKeeps == ASSUME IInv, NEW d \in Devices, NotListed(d) PROVE IInv'
<1> USE DEF NotListed, NextAttempt, Unregister, cloud
<1>1. SetsOK' /\ HooksOK'
  BY DEF IInv, SetsOK, HooksOK
<1>2. LinksOK'
  BY DEF IInv, LinksOK
<1>3. FreshInv'
  BY DEF IInv, FreshInv, HooksOK
<1>4. SharedInv'
  <2>1. d \notin aliyun
    BY DEF IInv, FreshInv
  <2>2. QED
    BY <2>1 DEF IInv, SharedInv, AliyunSurvives
<1>5. MadeInv'
  <2>1. UsedUp \subseteq UsedUp'
    BY DEF IInv, HooksOK, FreshInv, UsedUp, Past
  <2>2. QED
    BY <2>1, MadeKeeps
<1>6. QED
  BY <1>1, <1>2, <1>3, <1>4, <1>5 DEF IInv

LEMMA MakeTransportKeeps == ASSUME IInv, NEW d \in Devices, MakeTransport(d) PROVE IInv'
<1> USE DEF MakeTransport, account
<1>1. SetsOK' /\ HooksOK' /\ SharedInv'
  BY DEF IInv, SetsOK, HooksOK, SharedInv, AliyunSurvives
<1>2. LinksOK'
  <2>1. made' \in Nat /\ closed' \subseteq 1 .. made' /\ current' \in 0 .. made'
    BY DEF IInv, LinksOK
  <2>2. link' \in [Devices -> 0 .. made'] /\ target' \in [Devices -> 0 .. made']
    BY DEF IInv, LinksOK
  <2>3. QED
    BY <2>1, <2>2 DEF LinksOK
<1>3. FreshInv'
  BY DEF IInv, FreshInv, HooksOK, LinksOK
<1>4. MadeInv'
  <2>1. d \notin UsedUp /\ UsedUp \cup {d} \subseteq UsedUp'
    BY DEF IInv, FreshInv, HooksOK, LinksOK, UsedUp, Past
  <2>2. Cardinality(UsedUp \cup {d}) = Cardinality(UsedUp) + 1
    BY <2>1, UsedUpFinite, FS_AddElement
  <2>3. IsFiniteSet(UsedUp') /\ Cardinality(UsedUp') \in Nat
    <3>1. UsedUp' \subseteq Devices
      BY DEF UsedUp, Past
    <3>2. QED
      BY <3>1, FS_Subset, FS_CardinalityType
  <2>4. Cardinality(UsedUp \cup {d}) <= Cardinality(UsedUp')
    BY <2>1, <2>3, FS_Subset
  <2>5. QED
    BY <2>2, <2>3, <2>4, UsedUpFinite DEF IInv, LinksOK, MadeInv
<1>5. QED
  BY <1>1, <1>2, <1>3, <1>4 DEF IInv

LEMMA AttachKeeps == ASSUME IInv, NEW d \in Devices, Attach(d) PROVE IInv'
<1> USE DEF Attach
<1>1. SetsOK' /\ HooksOK' /\ SharedInv'
  BY DEF IInv, SetsOK, HooksOK, SharedInv, AliyunSurvives
<1>2. LinksOK'
  <2>1. link' \in [Devices -> 0 .. made] /\ target' \in [Devices -> 0 .. made]
    BY DEF IInv, LinksOK
  <2>2. QED
    BY <2>1 DEF IInv, LinksOK
<1>3. FreshInv'
  BY DEF IInv, FreshInv, HooksOK
<1>4. MadeInv'
  <2>1. UsedUp \subseteq UsedUp'
    BY DEF IInv, HooksOK, FreshInv, UsedUp, Past
  <2>2. QED
    BY <2>1, MadeKeeps
<1>5. QED
  BY <1>1, <1>2, <1>3, <1>4 DEF IInv

LEMMA NextIInv == IInv /\ [Next]_vars => IInv'
<1> SUFFICES ASSUME IInv, [Next]_vars PROVE IInv'
  OBVIOUS
<1>1. CASE UNCHANGED vars
  BY <1>1 DEF vars, IInv, SetsOK, HooksOK, LinksOK, FreshInv, SharedInv, AliyunSurvives,
              MadeInv, UsedUp, Past
<1>2. ASSUME NEW d \in Devices, Progress(d) \/ RemoveDevice(d) \/ Unbound(d) PROVE IInv'
  BY <1>2, RemoveDeviceKeeps, StopEndsKeeps, UnboundKeeps, HookKeeps, NotListedKeeps,
     MakeTransportKeeps, AttachKeeps DEF Progress
<1>3. QED
  BY <1>1, <1>2 DEF Next

LEMMA Invariance == Spec => []IInv
BY InitIInv, NextIInv, PTL DEF Spec

-----------------------------------------------------------------------------
(* The results.                                                            *)

\* No more Mammotion transports are made than mowers are moved, and every
\* other variable keeps its type.
THEOREM TypeCorrect == Spec => []TypeOK
<1>1. IInv => TypeOK
  <2> SUFFICES ASSUME IInv PROVE TypeOK
    OBVIOUS
  <2>1. made <= Cardinality(Devices) /\ Cardinality(Devices) \in Nat
    BY UsedUpFinite, FS_CardinalityType DEF IInv, LinksOK, MadeInv
  <2>2. made \in 0 .. Cardinality(Devices)
    BY <2>1 DEF IInv, LinksOK
  <2>3. QED
    BY <2>2 DEF IInv, SetsOK, HooksOK, LinksOK, TypeOK
<1>2. QED
  BY <1>1, Invariance, PTL

\* The Aliyun transport is not disconnected under a mower that uses it, in
\* whatever order mowers are removed, unbound and moved (client.py:227-246).
THEOREM AliyunOutlives == Spec => []AliyunSurvives
BY Invariance, PTL DEF IInv, SharedInv

\* A burst of 29004 answers, or a late one, moves a mower once.
THEOREM MovedOnce == Spec => []OneMigration
<1>1. IInv => OneMigration
  BY DEF IInv, FreshInv, OneMigration
<1>2. QED
  BY <1>1, Invariance, PTL

HIDE MigrationAssumption

(***************************************************************************)
(* MapFetch.                                                               *)
(***************************************************************************)

USE MapAssumption DEF MapAssumption

Entry == [at : Nat, pos : Nat, total : Nat, n : Nat, hash : Hashes]

\* The root lists: the frames of one list have one place among the lists, and
\* each its own number.
RootOK(r) ==
    /\ IsFiniteSet(r) /\ r \subseteq Entry
    /\ \A x \in r : x.n \in 1 .. x.total
    /\ \A x, y \in r : x.total = y.total => x.at = y.at /\ (x.n = y.n => x = y)

Fetching == {"ask", "data", "check"}

\* The frames of this run that may still come for the first time.
MapFresh == sent \ old
RootOf(e) == {RootFrame(e, n) : n \in DOMAIN Manifest[e]}
Part(r, e) == \A x \in r : x.total = Len(Manifest[e]) /\ x.hash = Manifest[e][x.n]

-----------------------------------------------------------------------------

LEMMA Editioned ==
  ASSUME NEW e \in Editions
  PROVE  /\ Manifest[e] \in Seq(Hashes) /\ Len(Manifest[e]) \in Nat
         /\ DOMAIN Manifest[e] = 1 .. Len(Manifest[e])
         /\ \A n \in 1 .. Len(Manifest[e]) : Manifest[e][n] \in Hashes
  BY DEF Editions

LEMMA RootFrameIs ==
  ASSUME NEW f \in RootFrames
  PROVE  /\ f.kind = "root" /\ f.total \in Nat /\ f.n \in 1 .. f.total /\ f.hash \in Hashes
         /\ \E e \in Editions : f \in RootOf(e)
<1>1. PICK e \in Editions : \E n \in DOMAIN Manifest[e] : f = RootFrame(e, n)
  BY DEF RootFrames
<1>2. f \in RootOf(e)
  BY <1>1 DEF RootOf
<1> QED
  BY <1>1, <1>2, Editioned DEF RootFrame

LEMMA RootOfIs ==
  ASSUME NEW e \in Editions, NEW f \in RootOf(e)
  PROVE  /\ f.kind = "root" /\ f.total = Len(Manifest[e]) /\ f.n \in 1 .. Len(Manifest[e])
         /\ f.hash = Manifest[e][f.n] /\ f = RootFrame(e, f.n) /\ f \in RootFrames
<1>1. PICK n \in DOMAIN Manifest[e] : f = RootFrame(e, n)
  BY DEF RootOf
<1>2. f \in RootFrames
  BY <1>1 DEF RootFrames
<1> QED
  BY <1>1, <1>2, Editioned DEF RootFrame

LEMMA DataFrameIs ==
  ASSUME NEW f \in DataFrames
  PROVE  /\ f.kind = "data" /\ f.hash \in Hashes /\ f.total = Size[f.hash]
         /\ f.n \in 1 .. Size[f.hash] /\ Size[f.hash] \in Nat \ {0}
         /\ f = DataFrame(f.hash, f.n)
<1>1. PICK h \in Hashes : \E n \in 1 .. Size[h] : f = DataFrame(h, n)
  BY DEF DataFrames
<1>2. Size[h] \in Nat \ {0}
  OBVIOUS
<1> QED
  BY <1>1, <1>2 DEF DataFrame

LEMMA DataFrameOf ==
  ASSUME NEW h \in Hashes, NEW n \in 1 .. Size[h]
  PROVE  DataFrame(h, n) \in DataFrames
  BY DEF DataFrames

LEMMA NoFrameIs == NoFrame.kind = "none" /\ NoFrame \notin DataFrames /\ NoFrame \notin RootFrames
<1>1. NoFrame.kind = "none"
  BY DEF NoFrame
<1> QED
  BY <1>1, DataFrameIs, RootFrameIs

LEMMA LeastOf ==
  ASSUME NEW S, S \subseteq Nat, S # {}
  PROVE  \E m \in S : \A k \in S : m <= k
<1>1. PICK m \in S : \A k \in S : ~ (<<k, m>> \in OpToRel(<, Nat))
  BY WFMin, NatLessThanWellFounded
<1>2. \A k \in S : ~ (k < m)
  BY <1>1 DEF OpToRel
<1> QED
  BY <1>2

\* The first entry is one of them.
LEMMA FirstIs ==
  ASSUME NEW P, P \subseteq Entry, P # {}
  PROVE  First(P) \in P /\ First(P).hash \in Hashes
<1> DEFINE ats == {x.at : x \in P}
<1>1. ats \subseteq Nat /\ ats # {}
  BY DEF Entry
<1>2. PICK a \in ats : \A k \in ats : a <= k
  BY <1>1, LeastOf
<1> DEFINE front == {x \in P : x.at = a}
           poss == {x.pos : x \in front}
<1>3. poss \subseteq Nat /\ poss # {}
  BY <1>2 DEF Entry
<1>4. PICK p \in poss : \A k \in poss : p <= k
  BY <1>3, LeastOf
<1>5. PICK x \in front : x.pos = p
  OBVIOUS
<1>6. x \in P /\ \A y \in P : x.at < y.at \/ (x.at = y.at /\ x.pos <= y.pos)
  <2> SUFFICES ASSUME NEW y \in P PROVE x.at < y.at \/ (x.at = y.at /\ x.pos <= y.pos)
    OBVIOUS
  <2>1. x.at = a /\ a \in Nat /\ y.at \in Nat /\ a <= y.at
    BY <1>1, <1>2
  <2>2. y.at = a => x.pos <= y.pos
    BY <1>4, <1>5
  <2> QED
    BY <2>1, <2>2
<1>7. First(P) \in P
  BY <1>6 DEF First
<1> QED
  BY <1>7 DEF Entry

-----------------------------------------------------------------------------
(* The root lists.                                                         *)

\* A frame is put in, in the place of the one with its number.
LEMMA Updated ==
  ASSUME NEW r, RootOK(r), NEW f \in RootFrames
  PROVE  /\ RootOK(UpdateRoot(r, f))
         /\ \E x \in UpdateRoot(r, f) : x.total = f.total /\ x.n = f.n /\ x.hash = f.hash
         /\ \A x \in UpdateRoot(r, f) :
               x \in r \/ (x.total = f.total /\ x.n = f.n /\ x.hash = f.hash)
         /\ \A x \in r : x \in UpdateRoot(r, f) \/ (x.total = f.total /\ x.n = f.n)
<1> DEFINE list == {x \in r : x.total = f.total}
           same == {x \in list : x.n = f.n}
           ats == {x.at : x \in r}
           a == IF list # {} THEN (CHOOSE x \in list : TRUE).at ELSE Cardinality(ats) + 1
           p == IF same # {} THEN (CHOOSE x \in same : TRUE).pos ELSE Cardinality(list) + 1
           new == [at |-> a, pos |-> p, total |-> f.total, n |-> f.n, hash |-> f.hash]
<1>1. UpdateRoot(r, f) = (r \ same) \cup {new}
  BY DEF UpdateRoot
<1>2. IsFiniteSet(list) /\ Cardinality(list) \in Nat
  <2>1. list \in SUBSET r
    OBVIOUS
  <2> QED
    BY <2>1, FS_Subset, FS_CardinalityType DEF RootOK
<1>3. IsFiniteSet(ats) /\ Cardinality(ats) \in Nat
  <2> DEFINE g == [x \in r |-> x.at]
  <2>1. g \in Surjection(r, ats)
    BY DEF Surjection
  <2> QED
    BY <2>1, FS_Surjection, FS_CardinalityType DEF RootOK
<1>4. a \in Nat /\ \A x \in list : x.at = a
  <2>1. CASE list = {}
    BY <1>3, <2>1
  <2>2. CASE list # {}
    <3>1. (CHOOSE x \in list : TRUE) \in list
      BY <2>2
    <3>2. a = (CHOOSE x \in list : TRUE).at
      BY <2>2
    <3> HIDE DEF a
    <3> QED
      BY <3>1, <3>2 DEF RootOK, Entry
  <2> QED
    BY <2>1, <2>2
<1>5. p \in Nat
  <2>1. CASE same = {}
    BY <1>2, <2>1
  <2>2. CASE same # {}
    <3>1. (CHOOSE x \in same : TRUE) \in same
      BY <2>2
    <3> QED
      BY <2>2, <3>1 DEF RootOK, Entry
  <2> QED
    BY <2>1, <2>2
<1>6. new \in Entry /\ new.n \in 1 .. new.total
  <2> HIDE DEF a, p
  <2> QED
    BY <1>4, <1>5, RootFrameIs DEF Entry
<1>7. new.total = f.total /\ new.n = f.n /\ new.hash = f.hash /\ new.at = a
  OBVIOUS
<1> HIDE DEF new, a, p
<1>8. RootOK((r \ same) \cup {new})
  <2>1. IsFiniteSet((r \ same) \cup {new})
    BY FS_Difference, FS_AddElement DEF RootOK
  <2>2. \A x, y \in (r \ same) \cup {new} : x.total = y.total => x.at = y.at /\ (x.n = y.n => x = y)
    <3> SUFFICES ASSUME NEW x \in (r \ same) \cup {new}, NEW y \in (r \ same) \cup {new},
                        x.total = y.total
                 PROVE  x.at = y.at /\ (x.n = y.n => x = y)
      OBVIOUS
    <3>1. CASE x \in r /\ y \in r
      BY <3>1 DEF RootOK
    <3>2. CASE x = new /\ y = new
      BY <3>2
    <3>3. CASE x \in r \ same /\ y = new
      BY <1>4, <1>7, <3>3
    <3>4. CASE y \in r \ same /\ x = new
      BY <1>4, <1>7, <3>4
    <3> QED
      BY <3>1, <3>2, <3>3, <3>4
  <2> QED
    BY <1>6, <2>1, <2>2 DEF RootOK
<1> QED
  BY <1>1, <1>7, <1>8

LEMMA ExactIs ==
  ASSUME NEW r, RootOK(r), NEW e \in Editions
  PROVE  Exact(r, e) <=> Part(r, e) /\ \A n \in 1 .. Len(Manifest[e]) : \E x \in r : x.n = n
<1> DEFINE L == Len(Manifest[e])
           have == {<<x.total, x.n, x.hash>> : x \in r}
           want == {<<L, n, Manifest[e][n]>> : n \in 1 .. L}
<1>1. Exact(r, e) <=> have = want
  BY Editioned DEF Exact
<1>2. ASSUME have = want PROVE Part(r, e) /\ \A n \in 1 .. L : \E x \in r : x.n = n
  <2>1. ASSUME NEW x \in r PROVE x.total = L /\ x.hash = Manifest[e][x.n]
    <3>1. <<x.total, x.n, x.hash>> \in want
      BY <1>2
    <3> QED
      BY <3>1
  <2>2. ASSUME NEW n \in 1 .. L PROVE \E x \in r : x.n = n
    <3>1. <<L, n, Manifest[e][n]>> \in have
      BY <1>2
    <3> QED
      BY <3>1
  <2> QED
    BY <2>1, <2>2 DEF Part
<1>3. ASSUME Part(r, e), \A n \in 1 .. L : \E x \in r : x.n = n PROVE have = want
  <2>1. ASSUME NEW x \in r PROVE <<x.total, x.n, x.hash>> \in want
    <3>1. x.n \in 1 .. x.total /\ x.total = L /\ x.hash = Manifest[e][x.n]
      BY <1>3 DEF Part, RootOK
    <3> HIDE DEF L
    <3> QED
      BY <3>1
  <2>2. ASSUME NEW n \in 1 .. L PROVE <<L, n, Manifest[e][n]>> \in have
    <3>1. PICK x \in r : x.n = n
      BY <1>3
    <3> QED
      BY <1>3, <3>1 DEF Part
  <2> QED
    BY <2>1, <2>2
<1> QED
  BY <1>1, <1>2, <1>3

\* In the one complete list each hash has the place of its frame.
LEMMA WholeList ==
  ASSUME NEW r, RootOK(r), NEW e \in Editions, Exact(r, e)
  PROVE  Matches(r, e)
<1> DEFINE L == Len(Manifest[e])
<1>1. L \in Nat /\ DOMAIN Manifest[e] = 1 .. L
  BY Editioned
<1>2. /\ \A x \in r : x.total = L /\ x.n \in 1 .. L /\ x.hash = Manifest[e][x.n]
      /\ \A n \in 1 .. L : \E x \in r : x.n = n
  <2>1. Part(r, e) /\ \A n \in 1 .. L : \E x \in r : x.n = n
    BY ExactIs
  <2>2. ASSUME NEW x \in r PROVE x.total = L /\ x.n \in 1 .. L /\ x.hash = Manifest[e][x.n]
    <3>1. x.n \in 1 .. x.total
      BY DEF RootOK
    <3> QED
      BY <2>1, <3>1 DEF Part
  <2> QED
    BY <2>1, <2>2
<1>3. \A x, y \in r : x.at = y.at /\ (x.n = y.n => x = y)
  BY <1>2 DEF RootOK
<1> HIDE DEF L
<1>4. ASSUME NEW x \in r PROVE Place(r, x) = x.n
  <2> DEFINE B == {y \in r : y.n < x.n}
             g == [y \in B |-> y.n]
  <2>1. \A y \in r : y.at \in Nat /\ x.at \in Nat
    BY DEF RootOK, Entry
  <2>2. {y \in r : y.at < x.at \/ (y.at = x.at /\ y.n < x.n)} = B
    BY <1>3, <2>1
  <2>3. g \in Bijection(B, 1 .. x.n - 1)
    <3>1. g \in [B -> 1 .. x.n - 1]
      BY <1>1, <1>2
    <3>2. \A y, z \in B : g[y] = g[z] => y = z
      BY <1>3
    <3>3. ASSUME NEW n \in 1 .. x.n - 1 PROVE \E y \in B : g[y] = n
      <4>1. n \in 1 .. L /\ n < x.n
        BY <1>1, <1>2
      <4>2. PICK y \in r : y.n = n
        BY <1>2, <4>1
      <4> QED
        BY <4>1, <4>2
    <3> QED
      BY <3>1, <3>2, <3>3 DEF Bijection, Injection, Surjection, IsInjective
  <2>4. B \in SUBSET r /\ IsFiniteSet(B)
    BY FS_Subset DEF RootOK
  <2>5. Cardinality(B) = Cardinality(1 .. x.n - 1)
    <3> HIDE DEF B, g
    <3> QED
      BY <2>3, <2>4, FS_Bijection DEF ExistsBijection
  <2>6. x.n \in Nat /\ x.n >= 1
    BY <1>1, <1>2
  <2>7. Cardinality(1 .. x.n - 1) = x.n - 1
    <3> DEFINE k == x.n - 1
    <3>1. k \in Nat
      BY <2>6
    <3> HIDE DEF k
    <3>2. Cardinality(1 .. k) = k
      BY <3>1, FS_Interval
    <3> QED
      BY <3>2 DEF k
  <2>8. Place(r, x) = 1 + Cardinality(B)
    BY <2>2 DEF Place
  <2> HIDE DEF B
  <2> QED
    BY <2>5, <2>6, <2>7, <2>8
<1>5. AreaRoot(r) = {<<x.n, x.hash>> : x \in r}
  BY <1>4 DEF AreaRoot
<1>6. {<<x.n, x.hash>> : x \in r} = {<<n, Manifest[e][n]>> : n \in 1 .. L}
  <2>1. ASSUME NEW x \in r PROVE <<x.n, x.hash>> \in {<<n, Manifest[e][n]>> : n \in 1 .. L}
    BY <1>2
  <2>2. ASSUME NEW n \in 1 .. L PROVE <<n, Manifest[e][n]>> \in {<<x.n, x.hash>> : x \in r}
    <3>1. PICK x \in r : x.n = n
      BY <1>2
    <3> QED
      BY <1>2, <3>1
  <2> QED
    BY <2>1, <2>2
<1> QED
  BY <1>1, <1>5, <1>6 DEF Matches, AreaOf

LEMMA AreaTyped ==
  ASSUME NEW r, RootOK(r)
  PROVE  AreaRoot(r) \in SUBSET (Nat \X Hashes)
<1> SUFFICES ASSUME NEW x \in r PROVE Place(r, x) \in Nat /\ x.hash \in Hashes
  BY DEF AreaRoot
<1> DEFINE B == {y \in r : y.at < x.at \/ (y.at = x.at /\ y.n < x.n)}
<1>1. B \in SUBSET r
  OBVIOUS
<1>2. Cardinality(B) \in Nat
  BY <1>1, FS_Subset, FS_CardinalityType DEF RootOK
<1> QED
  BY <1>2 DEF Place, RootOK, Entry

\* A frame of an edition added to a part of its list.
LEMMA PartUpdated ==
  ASSUME NEW r, RootOK(r), NEW e \in Editions, Part(r, e), NEW f \in RootOf(e)
  PROVE  /\ Part(UpdateRoot(r, f), e)
         /\ \A x \in r : \E y \in UpdateRoot(r, f) : y.n = x.n /\ y.hash = x.hash
         /\ \E y \in UpdateRoot(r, f) : y.n = f.n
         /\ Exact(r, e) => UpdateRoot(r, f) = r
<1>1. f \in RootFrames /\ f.total = Len(Manifest[e]) /\ f.n \in 1 .. Len(Manifest[e])
      /\ f.hash = Manifest[e][f.n]
  BY RootOfIs
<1>2. Part(UpdateRoot(r, f), e) /\ \E y \in UpdateRoot(r, f) : y.n = f.n
  BY <1>1, Updated DEF Part
<1>3. ASSUME NEW x \in r PROVE \E y \in UpdateRoot(r, f) : y.n = x.n /\ y.hash = x.hash
  <2>1. x \in UpdateRoot(r, f) \/ x.n = f.n
    BY <1>1, Updated
  <2>2. PICK y \in UpdateRoot(r, f) : y.n = f.n /\ y.hash = f.hash
    BY <1>1, Updated
  <2>3. x.hash = Manifest[e][x.n]
    BY DEF Part
  <2> QED
    BY <1>1, <2>1, <2>2, <2>3
<1>4. ASSUME Exact(r, e) PROVE UpdateRoot(r, f) = r
  <2>1. PICK x \in r : x.n = f.n
    BY <1>1, <1>4, ExactIs
  <2>2. \A y \in r : y.total = f.total
    BY <1>1 DEF Part
  <2> DEFINE list == {y \in r : y.total = f.total}
             same == {y \in list : y.n = f.n}
             at == (CHOOSE y \in list : TRUE).at
             pos == (CHOOSE y \in same : TRUE).pos
  <2>3. list = r /\ same = {x}
    BY <2>1, <2>2 DEF RootOK
  <2>4. UpdateRoot(r, f) =
          (r \ same) \cup {[at |-> at, pos |-> pos, total |-> f.total, n |-> f.n, hash |-> f.hash]}
    BY <2>1, <2>3 DEF UpdateRoot
  <2>5. at = x.at
    <3>1. (CHOOSE y \in list : TRUE) \in r
      BY <2>1, <2>3
    <3> QED
      BY <2>1, <2>2, <3>1 DEF RootOK
  <2>6. pos = x.pos
    BY <2>3
  <2>7. x = [at |-> at, pos |-> pos, total |-> f.total, n |-> f.n, hash |-> f.hash]
    <3>1. x \in Entry /\ x.total = f.total /\ x.n = f.n /\ x.hash = f.hash
      BY <1>1, <2>1 DEF Part, RootOK
    <3> HIDE DEF at, pos
    <3> QED
      BY <2>5, <2>6, <3>1 DEF Entry
  <2> QED
    BY <2>1, <2>3, <2>4, <2>7
<1> QED
  BY <1>2, <1>3, <1>4

LEMMA Pruned ==
  ASSUME NEW g \in [Hashes -> SUBSET Nat], NEW r, NEW ln \in BOOLEAN
  PROVE  /\ Prune(g, r, ln) \in [Hashes -> SUBSET Nat]
         /\ \A h \in Hashes : Prune(g, r, ln)[h] \subseteq g[h]
         /\ \A h \in Hashlist(r) \cap Hashes : Prune(g, r, ln)[h] = g[h]
         /\ r # {} => \A h \in Hashes \ Hashlist(r) : Prune(g, r, ln)[h] = {}
  BY DEF Prune

LEMMA IncompleteIs ==
  ASSUME NEW g, NEW r, RootOK(r), NEW D
  PROVE  /\ Incomplete(g, r, D) \subseteq r /\ Incomplete(g, r, D) \subseteq Entry
         /\ IsFiniteSet(Incomplete(g, r, D)) /\ Cardinality(Incomplete(g, r, D)) \in Nat
         /\ \A x \in r \ Incomplete(g, r, D) : x.hash \in D \/ g[x.hash] = 1 .. Size[x.hash]
<1>1. Incomplete(g, r, D) \in SUBSET r
  BY DEF Incomplete
<1> QED
  BY <1>1, FS_Subset, FS_CardinalityType DEF RootOK, Incomplete

\* What the device answers comes onto the wire as frames of this run.
LEMMA AnswerIs ==
  ASSUME NEW F, Answer(F), old \subseteq sent
  PROVE  /\ sent' \subseteq sent \cup F /\ old' \subseteq sent'
         /\ MapFresh' \subseteq MapFresh \cup F
  BY DEF Answer, MapFresh

-----------------------------------------------------------------------------
(* What holds of the places, disturbed or not.                             *)

Places ==
    /\ RootOK(root)
    /\ \A h \in Hashes : got[h] \subseteq 1 .. Size[h]
    /\ pc = "start" => attempt < MaxAttempts
    /\ stalls < StallLimit
    /\ IsFiniteSet(missing) /\ IsFiniteSet(banked)
    /\ pc = "root" => \A i \in 1 .. Len(queue) : queue[i] \in RootFrames
    /\ pc \in Fetching => /\ currentHash \in Hashes
                          /\ \A i \in 1 .. Len(queue) : queue[i] \in DataFrames
    /\ pc \notin Fetching \cup {"root"} => queue = <<>>
    /\ IF pc = "check" THEN frame \in DataFrames ELSE frame = NoFrame
    /\ pc # "root" => banked = {}
    /\ pc \notin Fetching => addressed = {}

MapCore == MapTypeOK /\ Places

USE DEF device, hashList, saga, step4, Running, Fetching, Entry

LEMMA MapInitCore == MapInit => MapCore
<1> SUFFICES ASSUME MapInit PROVE MapCore
  OBVIOUS
<1>1. 1 \in Editions /\ edition \in Editions
  BY EmptySeq, LenProperties DEF MapInit, Editions
<1> DEFINE L == Len(Manifest[1])
           full == {[at |-> 1, pos |-> n, total |-> L, n |-> n, hash |-> Manifest[1][n]] : n \in 1 .. L}
<1>2. L \in Nat /\ DOMAIN Manifest[1] = 1 .. L /\ \A n \in 1 .. L : Manifest[1][n] \in Hashes
  BY <1>1, Editioned
<1>3. RootOK(full)
  <2>1. IsFiniteSet(full)
    <3> DEFINE g == [n \in 1 .. L |->
                       [at |-> 1, pos |-> n, total |-> L, n |-> n, hash |-> Manifest[1][n]]]
    <3>1. g \in Surjection(1 .. L, full)
      BY DEF Surjection
    <3>2. IsFiniteSet(1 .. L)
      <4>1. L \in Nat
        BY <1>2
      <4> HIDE DEF L
      <4> QED
        BY ONLY <4>1, FS_Interval
    <3> QED
      BY <3>1, <3>2, FS_Surjection
  <2>2. \A x \in full : x \in Entry /\ x.n \in 1 .. x.total
    <3> HIDE DEF L
    <3> QED
      BY <1>2
  <2>3. \A x, y \in full : x.at = y.at /\ (x.n = y.n => x = y)
    OBVIOUS
  <2> QED
    BY <2>1, <2>2, <2>3 DEF RootOK
<1>4. RootOK({})
  BY FS_EmptySet DEF RootOK
<1>5. RootOK(root) /\ root \subseteq Entry
  BY <1>2, <1>3, <1>4 DEF MapInit, RootOK
<1>6. got \in [Hashes -> SUBSET Nat] /\ \A h \in Hashes : got[h] \subseteq 1 .. Size[h]
  <2>1. CASE got = [h \in Hashes |-> {}]
    BY <2>1
  <2>2. CASE got = Whole(1)
    BY <2>2 DEF Whole
  <2> QED
    BY <2>1, <2>2 DEF MapInit
<1>7. queue = <<>> /\ queue \in Seq(RootFrames \cup DataFrames)
  BY EmptySeq DEF MapInit
<1>8. MapTypeOK
  <2>1. /\ reported = 0 /\ sent = {} /\ old = {} /\ lines = FALSE /\ calm = FALSE
        /\ banked = {} /\ frame = NoFrame /\ missing = {} /\ currentHash = None /\ addressed = {}
    BY DEF MapInit
  <2>2. /\ attempt \in 0 .. MaxAttempts /\ last \in Nat /\ stalls \in 0 .. StallLimit
        /\ syncs \in 0 .. MaxSyncs
    BY DEF MapInit
  <2>3. pc \in Running \cup {"idle", "done", "failed"}
    BY DEF MapInit
  <2> QED
    BY ONLY <1>1, <1>5, <1>6, <1>7, <2>1, <2>2, <2>3 DEF MapTypeOK, Entry
<1>9. Places
  BY <1>5, <1>6, <1>7, FS_EmptySet DEF MapInit, Places
<1> QED
  BY <1>8, <1>9 DEF MapCore

\* A run ends, and its locals with it.
LEMMA ProgressTyped == MapCore => progress \in Nat
  BY IncompleteIs DEF MapCore, Places, progress

LEMMA InterruptedCore ==
  ASSUME MapCore, pc \in Running, Interrupted,
         UNCHANGED <<device, hashList, syncs, calm>>,
         sent' \subseteq RootFrames \cup DataFrames, old' \subseteq sent'
  PROVE  MapCore' /\ pc' \in {"start", "failed"}
<1>1. /\ pc' \in {"start", "failed"} /\ last' \in Nat /\ attempt' \in 0 .. MaxAttempts
      /\ pc' = "start" => attempt' < MaxAttempts
  <2>1. progress \in Nat /\ last \in Nat /\ attempt \in 0 .. MaxAttempts
    BY ProgressTyped DEF MapCore, MapTypeOK
  <2>2. CASE progress # last
    BY ONLY <2>1, <2>2, Interrupted, MapAssumption DEF Interrupted, MapAssumption
  <2>3. CASE progress = last /\ ~ Spent
    BY ONLY <2>1, <2>3, Interrupted, MapAssumption DEF Interrupted, MapAssumption, Spent
  <2>4. CASE progress = last /\ Spent
    BY ONLY <2>1, <2>4, Interrupted, MapAssumption DEF Interrupted, MapAssumption
  <2> QED
    BY <2>2, <2>3, <2>4
<1>2. Leave
  BY DEF Interrupted
<1>3. MapTypeOK'
  BY <1>1, <1>2, EmptySeq DEF MapCore, MapTypeOK, Leave
<1>4. Places'
  BY <1>1, <1>2, FS_EmptySet DEF MapCore, Places, Leave
<1> QED
  BY <1>1, <1>3, <1>4 DEF MapCore

LEMMA FinishCore ==
  ASSUME MapCore, Finish, UNCHANGED <<device, root, lines, syncs, calm>>,
         sent' \subseteq RootFrames \cup DataFrames, old' \subseteq sent'
  PROVE  MapCore' /\ pc' = "done"
<1>1. got \in [Hashes -> SUBSET Nat] /\ lines \in BOOLEAN
  BY DEF MapCore, MapTypeOK
<1>2. got' \in [Hashes -> SUBSET Nat] /\ \A h \in Hashes : got'[h] \subseteq got[h]
  BY <1>1, Pruned DEF Finish
<1>3. MapTypeOK'
  BY <1>2, EmptySeq DEF MapCore, MapTypeOK, Finish, Leave
<1>4. Places'
  BY <1>2, FS_EmptySet DEF MapCore, Places, Finish, Leave
<1> QED
  BY <1>3, <1>4 DEF MapCore, Finish

\* An answer of the device is of the kind that was asked for.
LEMMA AnswerCore ==
  ASSUME MapCore, NEW F, F \subseteq RootFrames \cup DataFrames, Answer(F)
  PROVE  sent' \subseteq RootFrames \cup DataFrames /\ old' \subseteq sent'
  BY AnswerIs DEF MapCore, MapTypeOK

LEMMA AfterIs ==
  ASSUME MapCore, NEW f
  PROVE  /\ f \in RootFrames => After(f) \subseteq RootOf(edition)
         /\ f \in DataFrames =>
              \A g \in After(f) : g \in DataFrames /\ g.hash = f.hash /\ g.n = f.n + 1
         /\ f \in RootFrames \cup DataFrames => After(f) \subseteq RootFrames \cup DataFrames
<1>1. edition \in Editions
  BY DEF MapCore, MapTypeOK
<1>2. ASSUME f \in RootFrames PROVE After(f) \subseteq RootOf(edition)
  <2>1. f.kind = "root" /\ f.total \in Nat /\ f.n \in 1 .. f.total
    BY <1>2, RootFrameIs
  <2>2. f.total = Len(Manifest[edition]) /\ f.n < f.total => f.n + 1 \in DOMAIN Manifest[edition]
    BY <1>1, <2>1, Editioned
  <2> QED
    BY <2>1, <2>2 DEF After, RootOf
<1>3. ASSUME f \in DataFrames, NEW g \in After(f)
      PROVE  g \in DataFrames /\ g.hash = f.hash /\ g.n = f.n + 1
  <2>1. f.kind = "data" /\ f.hash \in Hashes /\ f.total = Size[f.hash] /\ f.n \in 1 .. Size[f.hash]
        /\ Size[f.hash] \in Nat
    BY <1>3, DataFrameIs
  <2>2. f.n < f.total /\ g = DataFrame(f.hash, f.n + 1)
    BY <1>3, <2>1 DEF After
  <2>3. f.n + 1 \in 1 .. Size[f.hash]
    BY <2>1, <2>2
  <2> QED
    BY <2>1, <2>2, <2>3, DataFrameOf DEF DataFrame
<1> QED
  BY <1>1, <1>2, <1>3, RootOfIs

LEMMA HeadIs ==
  ASSUME MapCore, queue # <<>>
  PROVE  /\ Len(queue) \in Nat \ {0} /\ Head(queue) = queue[1]
         /\ Tail(queue) \in Seq(RootFrames \cup DataFrames) /\ Len(Tail(queue)) = Len(queue) - 1
         /\ \A i \in 1 .. Len(Tail(queue)) : i + 1 \in 1 .. Len(queue) /\ Tail(queue)[i] = queue[i + 1]
<1>1. queue \in Seq(RootFrames \cup DataFrames)
  BY DEF MapCore, MapTypeOK
<1> QED
  BY <1>1, HeadTailProperties, EmptySeq, LenProperties

LEMMA EditCore == ASSUME MapCore, Edit PROVE MapCore'
  BY DEF MapCore, MapTypeOK, Places, Edit

\* A fetch starts.
LEMMA ExecuteCore ==
  ASSUME MapCore, pc \notin Running, Execute, syncs < MaxSyncs, reported' \in {reported, edition},
         UNCHANGED <<edition, sent, hashList, banked, queue, frame, step4, old, calm>>
  PROVE  MapCore'
<1>1. progress \in Nat
  BY ProgressTyped
<1>2. /\ pc' = "start" /\ attempt' = 0 /\ last' \in Nat /\ syncs' = syncs + 1
  BY <1>1 DEF Execute
<1>3. syncs' \in 0 .. MaxSyncs /\ attempt' \in 0 .. MaxAttempts /\ attempt' < MaxAttempts
  BY <1>2 DEF MapCore, MapTypeOK
<1>4. MapTypeOK'
  BY <1>2, <1>3 DEF MapCore, MapTypeOK
<1>5. queue' = <<>> /\ frame' = NoFrame /\ banked' = {} /\ addressed' = {}
  BY DEF MapCore, Places
<1>6. Places'
  BY <1>2, <1>3, <1>5 DEF MapCore, Places
<1> QED
  BY <1>4, <1>6 DEF MapCore

LEMMA ReportCore == ASSUME MapCore, Report PROVE MapCore'
<1>1. CASE pc \in Running
  <2>1. UNCHANGED <<edition, sent, hashList, saga, syncs, old, calm>> /\ reported' = edition
    BY <1>1 DEF Report
  <2> QED
    BY <2>1 DEF MapCore, MapTypeOK, Places
<1>2. CASE pc \notin Running
  BY <1>2, ExecuteCore DEF Report
<1> QED
  BY <1>1, <1>2

LEMMA SyncCore == ASSUME MapCore, Sync PROVE MapCore'
  BY ExecuteCore DEF Sync

LEMMA LineListCore == ASSUME MapCore, LineListArrives PROVE MapCore'
  BY DEF MapCore, MapTypeOK, Places, LineListArrives

\* Dropping the root lists.
LEMMA DroppedIs ==
  ASSUME MapCore
  PROVE  /\ RootOK({})
         /\ Prune(got, {}, lines) \in [Hashes -> SUBSET Nat]
         /\ \A h \in Hashes : Prune(got, {}, lines)[h] \subseteq 1 .. Size[h]
<1>1. got \in [Hashes -> SUBSET Nat] /\ lines \in BOOLEAN /\ \A h \in Hashes : got[h] \subseteq 1 .. Size[h]
  BY DEF MapCore, MapTypeOK, Places
<1>2. \A h \in Hashes : Prune(got, {}, lines)[h] \subseteq got[h]
  BY <1>1, Pruned
<1> QED
  BY <1>1, <1>2, Pruned, FS_EmptySet DEF RootOK

LEMMA NamesCore == ASSUME MapCore, NamesArrive PROVE MapCore'
<1>1. /\ pc \notin Running /\ root' = {} /\ got' = Prune(got, {}, lines)
      /\ UNCHANGED <<device, sent, lines, saga, syncs, old, calm>>
  BY DEF NamesArrive
<1> QED
  BY <1>1, DroppedIs DEF MapCore, MapTypeOK, Places

LEMMA StartRunCore == ASSUME MapCore, StartRun PROVE MapCore'
<1>1. /\ pc = "start" /\ pc' = "begin" /\ attempt' = attempt + 1 /\ old' = sent
      /\ UNCHANGED <<device, sent, lines, last, banked, queue, frame, step4, syncs>>
  BY DEF StartRun
<1>2. calm' \in BOOLEAN
  BY DEF StartRun
<1>3. \/ root' = root /\ got' = got
      \/ root' = {} /\ got' = Prune(got, {}, lines)
  BY DEF StartRun
<1>4. /\ RootOK(root') /\ got' \in [Hashes -> SUBSET Nat]
      /\ \A h \in Hashes : got'[h] \subseteq 1 .. Size[h]
  BY <1>3, DroppedIs DEF MapCore, MapTypeOK, Places
<1>5. root' \subseteq Entry
  BY <1>4 DEF RootOK
<1>6. attempt' \in 0 .. MaxAttempts
  BY <1>1 DEF MapCore, MapTypeOK, Places
<1>7. MapTypeOK'
  BY <1>1, <1>2, <1>4, <1>5, <1>6 DEF MapCore, MapTypeOK
<1>8. Places'
  BY <1>1, <1>4 DEF MapCore, Places
<1> QED
  BY <1>7, <1>8 DEF MapCore

LEMMA AskRootCore == ASSUME MapCore, AskRoot PROVE MapCore'
<1> DEFINE F == {RootFrame(edition, n) : n \in {1} \cap DOMAIN Manifest[edition]}
<1>1. F \subseteq RootFrames
  BY DEF RootFrames, MapCore, MapTypeOK
<1>2. /\ pc = "begin" /\ pc' = "root" /\ Answer(F)
      /\ UNCHANGED <<device, hashList, attempt, last, banked, queue, frame, step4, syncs, calm>>
  BY DEF AskRoot
<1>3. sent' \subseteq RootFrames \cup DataFrames /\ old' \subseteq sent'
  <2> HIDE DEF F
  <2> QED
    BY <1>1, <1>2, AnswerCore
<1>4. MapTypeOK'
  BY <1>2, <1>3 DEF MapCore, MapTypeOK
<1>5. Places'
  BY <1>2, LenProperties, EmptySeq DEF MapCore, Places
<1> QED
  BY <1>4, <1>5 DEF MapCore

LEMMA AskDataCore == ASSUME MapCore, AskData PROVE MapCore'
<1>1. /\ pc = "ask" /\ pc' = "data" /\ Answer({DataFrame(currentHash, 1)})
      /\ UNCHANGED <<device, hashList, attempt, last, banked, queue, frame, step4, syncs, calm>>
  BY DEF AskData
<1>2. {DataFrame(currentHash, 1)} \subseteq DataFrames
  <2>1. currentHash \in Hashes
    BY <1>1 DEF MapCore, Places
  <2>2. Size[currentHash] \in Nat \ {0}
    BY <2>1
  <2> QED
    BY <2>1, <2>2, DataFrameOf
<1>3. sent' \subseteq RootFrames \cup DataFrames /\ old' \subseteq sent'
  BY <1>1, <1>2, AnswerCore
<1>4. MapTypeOK'
  BY <1>1, <1>3 DEF MapCore, MapTypeOK
<1>5. Places'
  BY <1>1 DEF MapCore, Places
<1> QED
  BY <1>4, <1>5 DEF MapCore

LEMMA AppendedIs ==
  ASSUME NEW S, NEW q \in Seq(S), NEW f \in S
  PROVE  /\ Append(q, f) \in Seq(S)
         /\ \A i \in 1 .. Len(Append(q, f)) :
               (i \in 1 .. Len(q) /\ Append(q, f)[i] = q[i]) \/ Append(q, f)[i] = f
  BY AppendProperties, LenProperties

LEMMA ArriveCore ==
  ASSUME MapCore, NEW f \in RootFrames \cup DataFrames, Arrive(f)
  PROVE  MapCore'
<1>1. /\ f.kind = "root" <=> f \in RootFrames
      /\ f.kind = "data" <=> f \in DataFrames
  BY RootFrameIs, DataFrameIs
<1>2. RootOK(root) /\ got \in [Hashes -> SUBSET Nat] /\ lines \in BOOLEAN
      /\ \A h \in Hashes : got[h] \subseteq 1 .. Size[h]
  BY DEF MapCore, MapTypeOK, Places
<1>3. RootOK(root') /\ got' \in [Hashes -> SUBSET Nat] /\ \A h \in Hashes : got'[h] \subseteq 1 .. Size[h]
  <2>1. CASE f \in RootFrames
    <3>1. root' = UpdateRoot(root, f) /\ got' = got
      BY <1>1, <2>1 DEF Arrive
    <3> QED
      BY <1>2, <2>1, <3>1, Updated
  <2>2. CASE f \in DataFrames
    <3> DEFINE g == [got EXCEPT ![f.hash] = @ \cup {f.n}]
    <3>1. root' = root /\ got' = Prune(g, root, lines)
      BY <1>1, <2>2, RootFrameIs DEF Arrive
    <3>2. f.hash \in Hashes /\ f.n \in 1 .. Size[f.hash]
      BY <2>2, DataFrameIs
    <3>3. g \in [Hashes -> SUBSET Nat] /\ \A h \in Hashes : g[h] \subseteq 1 .. Size[h]
      BY <1>2, <3>2
    <3> HIDE DEF g
    <3> QED
      BY <1>2, <3>1, <3>3, Pruned
  <2> QED
    BY <2>1, <2>2
<1>4. root' \subseteq Entry
  BY <1>3 DEF RootOK
<1>5. /\ calm' \in BOOLEAN
      /\ UNCHANGED <<device, sent, lines, pc, attempt, last, banked, frame, step4, syncs, old>>
  BY DEF Arrive
<1>6. \/ queue' = queue
      \/ /\ queue' = Append(queue, f)
         /\ \/ pc = "root" /\ f \in RootFrames
            \/ pc \in Fetching /\ f \in DataFrames
  BY <1>1 DEF Arrive
<1>7. queue \in Seq(RootFrames \cup DataFrames)
  BY DEF MapCore, MapTypeOK
<1>8. queue' \in Seq(RootFrames \cup DataFrames)
  <2> DEFINE S == RootFrames \cup DataFrames
  <2>1. f \in S /\ queue \in Seq(S)
    BY <1>7
  <2> HIDE DEF S
  <2>2. Append(queue, f) \in Seq(S)
    BY ONLY <2>1, AppendedIs
  <2>3. queue' \in Seq(S)
    BY ONLY <1>6, <2>1, <2>2
  <2> QED
    BY <2>3 DEF S
<1>9. /\ pc = "root" => \A i \in 1 .. Len(queue') : queue'[i] \in RootFrames
      /\ pc \in Fetching => \A i \in 1 .. Len(queue') : queue'[i] \in DataFrames
      /\ pc \notin Fetching \cup {"root"} => queue' = <<>>
  <2>1. /\ pc = "root" => \A i \in 1 .. Len(queue) : queue[i] \in RootFrames
        /\ pc \in Fetching => \A i \in 1 .. Len(queue) : queue[i] \in DataFrames
        /\ pc \notin Fetching \cup {"root"} => queue = <<>>
    BY DEF MapCore, Places
  <2>2. CASE queue' = queue
    BY <2>1, <2>2
  <2>3. CASE /\ queue' = Append(queue, f)
             /\ \/ pc = "root" /\ f \in RootFrames
                \/ pc \in Fetching /\ f \in DataFrames
    <3>1. \A i \in 1 .. Len(queue') : (i \in 1 .. Len(queue) /\ queue'[i] = queue[i]) \/ queue'[i] = f
      BY <1>7, <2>3, AppendProperties, LenProperties
    <3> QED
      BY <2>1, <2>3, <3>1
  <2> QED
    BY <1>6, <2>2, <2>3
<1>10. MapTypeOK'
  BY <1>3, <1>4, <1>5, <1>8 DEF MapCore, MapTypeOK
<1>11. Places'
  BY <1>3, <1>5, <1>9 DEF MapCore, Places
<1> QED
  BY <1>10, <1>11 DEF MapCore

\* The three outcomes of a root frame taken from the queue.
LEMMA TakeRootIs ==
  ASSUME MapCore, TakeRoot
  PROVE  LET f == Head(queue)
             banked2 == banked \cup {f.n}
             todo == Incomplete(got, root, {})
         IN /\ pc = "root" /\ queue # <<>> /\ f \in RootFrames /\ Answer(After(f))
            /\ UNCHANGED <<device, root, lines, syncs, calm>>
            /\ IsFiniteSet(banked2) /\ banked2 \subseteq Nat
            /\ \/ /\ banked' = banked2 /\ queue' = Tail(queue)
                  /\ UNCHANGED <<pc, got, attempt, last, frame, step4>>
               \/ /\ Cardinality(banked2) >= f.total /\ todo = {} /\ Finish
               \/ /\ Cardinality(banked2) >= f.total /\ todo # {}
                  /\ pc' = "ask" /\ currentHash' = First(todo).hash /\ missing' = todo
                  /\ banked' = {} /\ queue' = <<>>
                  /\ UNCHANGED <<got, attempt, last, frame, addressed, stalls>>
<1> DEFINE f == Head(queue)
           banked2 == banked \cup {f.n}
           todo == Incomplete(got, root, {})
<1>1. /\ pc = "root" /\ queue # <<>> /\ Answer(After(f))
      /\ UNCHANGED <<device, root, lines, syncs, calm>>
  BY DEF TakeRoot
<1>2. f \in RootFrames /\ f.total \in Nat /\ f.n \in Nat
  <2>1. f \in RootFrames
    BY <1>1, HeadIs DEF MapCore, Places
  <2> QED
    BY <2>1, RootFrameIs
<1>3. IsFiniteSet(banked2) /\ banked2 \subseteq Nat /\ Cardinality(banked2) \in Nat
  <2>1. IsFiniteSet(banked) /\ banked \subseteq Nat
    BY DEF MapCore, MapTypeOK, Places
  <2>2. IsFiniteSet(banked2)
    BY ONLY <2>1, FS_AddElement
  <2>3. Cardinality(banked2) \in Nat
    BY ONLY <2>2, FS_CardinalityType
  <2>4. f.n \in Nat
    BY <1>2
  <2> HIDE DEF f
  <2>5. banked2 \subseteq Nat
    BY <2>1, <2>4
  <2> QED
    BY ONLY <2>2, <2>3, <2>5
<1>4. Cardinality(banked2) < f.total <=> ~ (Cardinality(banked2) >= f.total)
  <2> DEFINE c == Cardinality(banked2)
             t == f.total
  <2>1. c \in Nat /\ t \in Nat
    BY <1>2, <1>3
  <2> HIDE DEF c, t
  <2>2. c < t <=> ~ (c >= t)
    BY <2>1
  <2> QED
    BY <2>2 DEF c, t
<1>5. CASE Cardinality(banked2) < f.total
  <2>1. /\ banked' = banked2 /\ queue' = Tail(queue)
        /\ UNCHANGED <<pc, got, attempt, last, frame, step4>>
    BY ONLY <1>4, <1>5, TakeRoot DEF TakeRoot
  <2> QED
    BY <1>1, <1>2, <1>3, <2>1
<1>6. CASE Cardinality(banked2) >= f.total /\ todo = {}
  <2>1. Finish
    BY ONLY <1>4, <1>6, TakeRoot DEF TakeRoot
  <2> QED
    BY <1>1, <1>2, <1>3, <1>6, <2>1
<1>7. CASE Cardinality(banked2) >= f.total /\ todo # {}
  <2>1. /\ pc' = "ask" /\ currentHash' = First(todo).hash /\ missing' = todo
        /\ banked' = {} /\ queue' = <<>>
        /\ UNCHANGED <<got, attempt, last, frame, addressed, stalls>>
    BY ONLY <1>4, <1>7, TakeRoot DEF TakeRoot
  <2> QED
    BY <1>1, <1>2, <1>3, <1>7, <2>1
<1> QED
  BY <1>4, <1>5, <1>6, <1>7

LEMMA TakeRootCore == ASSUME MapCore, TakeRoot PROVE MapCore'
<1> DEFINE f == Head(queue)
           banked2 == banked \cup {f.n}
           todo == Incomplete(got, root, {})
<1>1. /\ pc = "root" /\ queue # <<>> /\ f \in RootFrames /\ Answer(After(f))
      /\ UNCHANGED <<device, root, lines, syncs, calm>>
      /\ IsFiniteSet(banked2) /\ banked2 \subseteq Nat
  BY TakeRootIs
<1>2. sent' \subseteq RootFrames \cup DataFrames /\ old' \subseteq sent'
  BY <1>1, AfterIs, AnswerCore
<1>3. CASE /\ banked' = banked2 /\ queue' = Tail(queue)
           /\ UNCHANGED <<pc, got, attempt, last, frame, step4>>
  <2>1. /\ queue' \in Seq(RootFrames \cup DataFrames)
        /\ \A i \in 1 .. Len(queue') : queue'[i] \in RootFrames
    BY <1>1, <1>3, HeadIs DEF MapCore, Places
  <2> HIDE DEF banked2
  <2>2. MapTypeOK'
    BY <1>1, <1>2, <1>3, <2>1 DEF MapCore, MapTypeOK
  <2>3. Places'
    BY <1>1, <1>3, <2>1 DEF MapCore, Places
  <2> QED
    BY <2>2, <2>3 DEF MapCore
<1>4. CASE Finish
  BY <1>1, <1>2, <1>4, FinishCore
<1>5. CASE /\ todo # {}
           /\ pc' = "ask" /\ currentHash' = First(todo).hash /\ missing' = todo
           /\ banked' = {} /\ queue' = <<>>
           /\ UNCHANGED <<got, attempt, last, frame, addressed, stalls>>
  <2>1. todo \subseteq Entry /\ IsFiniteSet(todo)
    BY IncompleteIs DEF MapCore, Places
  <2>2. currentHash' \in Hashes
    BY <1>5, <2>1, FirstIs
  <2> HIDE DEF todo
  <2>3. MapTypeOK'
    BY <1>1, <1>2, <1>5, <2>1, <2>2, EmptySeq DEF MapCore, MapTypeOK
  <2>4. Places'
    BY <1>1, <1>5, <2>1, <2>2, EmptySeq, FS_EmptySet DEF MapCore, Places
  <2> QED
    BY <2>3, <2>4 DEF MapCore
<1> QED
  BY <1>3, <1>4, <1>5, TakeRootIs

LEMMA TakeDataCore == ASSUME MapCore, TakeData PROVE MapCore'
<1>1. /\ pc = "data" /\ queue # <<>> /\ pc' = "check"
      /\ frame' = Head(queue) /\ queue' = Tail(queue) /\ Answer(After(frame'))
      /\ UNCHANGED <<device, hashList, attempt, last, banked, step4, syncs, calm>>
  BY DEF TakeData
<1>2. frame' \in DataFrames
  BY <1>1, HeadIs DEF MapCore, Places
<1>3. sent' \subseteq RootFrames \cup DataFrames /\ old' \subseteq sent'
  BY <1>1, <1>2, AfterIs, AnswerCore
<1>4. /\ queue' \in Seq(RootFrames \cup DataFrames)
      /\ \A i \in 1 .. Len(queue') : queue'[i] \in DataFrames
  BY <1>1, HeadIs DEF MapCore, Places
<1>5. MapTypeOK'
  BY <1>1, <1>2, <1>3, <1>4 DEF MapCore, MapTypeOK
<1>6. Places'
  BY <1>1, <1>2, <1>4 DEF MapCore, Places
<1> QED
  BY <1>5, <1>6 DEF MapCore

LEMMA AddressedIs ==
  ASSUME MapCore, pc = "check"
  PROVE  Addressed \subseteq addressed \cup {frame.hash} /\ Addressed \subseteq Hashes
BY DataFrameIs DEF MapCore, MapTypeOK, Places, Addressed

LEMMA CheckMoreCore == ASSUME MapCore, CheckMore PROVE MapCore'
<1>1. /\ pc = "check" /\ pc' = "data" /\ frame' = NoFrame
      /\ addressed' \in {Addressed, addressed}
      /\ UNCHANGED <<device, sent, hashList, attempt, last, banked, queue, missing, currentHash,
                     stalls, syncs, old, calm>>
  BY DEF CheckMore
<1>2. addressed' \subseteq Hashes
  BY <1>1, AddressedIs DEF MapCore, MapTypeOK
<1>3. MapTypeOK'
  BY <1>1, <1>2 DEF MapCore, MapTypeOK
<1>4. Places'
  BY <1>1 DEF MapCore, Places
<1> QED
  BY <1>3, <1>4 DEF MapCore

LEMMA InterruptCore == ASSUME MapCore, Interrupt PROVE MapCore'
  BY InterruptedCore DEF Interrupt, MapCore, MapTypeOK

LEMMA GiveUpCore == ASSUME MapCore, GiveUp PROVE MapCore' /\ pc' = "failed"
<1>1. /\ pc \in Running /\ pc' = "failed" /\ attempt' = 0 /\ last' = 0 /\ Leave
      /\ UNCHANGED <<device, sent, hashList, syncs, old, calm>>
  BY DEF GiveUp
<1>2. MapTypeOK'
  BY <1>1, EmptySeq DEF MapCore, MapTypeOK, Leave
<1>3. Places'
  BY <1>1, FS_EmptySet DEF MapCore, Places, Leave
<1> QED
  BY <1>1, <1>2, <1>3 DEF MapCore

\* What is left of the queue is some of its frames.
LEMMA DrainIs ==
  ASSUME MapCore, pc = "check"
  PROVE  /\ Drained \subseteq DataFrames
         /\ \A f \in Drained : \E k \in 1 .. Len(queue) : f = queue[k]
         /\ AfterDrain \in Seq(RootFrames \cup DataFrames)
         /\ \A i \in 1 .. Len(AfterDrain) : \E k \in 1 .. Len(queue) : AfterDrain[i] = queue[k]
<1> DEFINE T == RootFrames \cup DataFrames
           S == {queue[k] : k \in 1 .. Len(queue)}
           others == {i \in DOMAIN queue : queue[i].hash # currentHash}
<1>1. queue \in Seq(T) /\ Len(queue) \in Nat /\ DOMAIN queue = 1 .. Len(queue)
  BY LenProperties DEF MapCore, MapTypeOK
<1>2. \A i \in 1 .. Len(queue) : queue[i] \in DataFrames
  BY DEF MapCore, Places
<1>3. FirstOther \in 1 .. Len(queue) + 1
  <2>1. others \subseteq 1 .. Len(queue)
    BY <1>1
  <2> HIDE DEF others
  <2>2. others \cup {Len(queue) + 1} \subseteq Nat
    <3>1. 1 .. Len(queue) \subseteq Nat /\ Len(queue) + 1 \in Nat
      BY <1>1
    <3> QED
      BY ONLY <2>1, <3>1
  <2>3. PICK m \in others \cup {Len(queue) + 1} : \A k \in others \cup {Len(queue) + 1} : m <= k
    BY <2>2, LeastOf
  <2>4. m \in 1 .. Len(queue) + 1
    BY <1>1, <2>1, <2>3
  <2>5. FirstOther = CHOOSE i \in 1 .. (Len(queue) + 1) :
                       i \in others \cup {Len(queue) + 1} /\ \A k \in others : i <= k
    BY DEF FirstOther, others
  <2> QED
    BY <2>3, <2>4, <2>5
<1>4. Drained \subseteq DataFrames /\ \A f \in Drained : \E k \in 1 .. Len(queue) : f = queue[k]
  BY <1>1, <1>2, <1>3 DEF Drained
<1>5. S \subseteq T /\ \A i \in 1 .. Len(queue) : queue[i] \in S
  BY <1>2
<1> HIDE DEF S, T
<1>6. AfterDrain \in Seq(S)
  <2>1. CASE FirstOther > Len(queue)
    BY <2>1, EmptySeq DEF AfterDrain
  <2>2. CASE ~ (FirstOther > Len(queue))
    <3> DEFINE m == FirstOther
    <3>1. m \in Int /\ m + 1 \in Int /\ Len(queue) \in Int /\ m \in 1 .. Len(queue)
      BY <1>1, <1>3, <2>2
    <3>2. AfterDrain = SubSeq(queue, m + 1, Len(queue)) \o <<queue[m]>>
      BY <2>2 DEF AfterDrain
    <3> HIDE DEF m
    <3>3. \A i \in m + 1 .. Len(queue) : queue[i] \in S
      BY <1>1, <1>5, <3>1
    <3>4. SubSeq(queue, m + 1, Len(queue)) \in Seq(S)
      BY ONLY <3>1, <3>3, SubSeqProperties
    <3>5. <<queue[m]>> \in Seq(S)
      BY <1>5, <3>1
    <3> QED
      BY <3>2, <3>4, <3>5, ConcatProperties
  <2> QED
    BY <2>1, <2>2
<1>7. \A i \in 1 .. Len(AfterDrain) : AfterDrain[i] \in S
  BY <1>6, ElementOfSeq
<1>8. AfterDrain \in Seq(T)
  BY ONLY <1>5, <1>6, SeqMonotonic
<1> QED
  BY <1>4, <1>7, <1>8 DEF S, T

\* The three outcomes of a frame that completes its hash.
LEMMA CheckItemIs ==
  ASSUME MapCore, CheckItem
  PROVE  LET todo == Incomplete(got, root, Addressed)
         IN /\ pc = "check" /\ InScope /\ MissingFrames(got, frame.hash) = {}
            /\ Answer(UNION {After(f) : f \in Drained})
            /\ UNCHANGED <<device, root, lines, syncs, calm>>
            /\ \/ Interrupted /\ got' = got
               \/ todo = {} /\ Finish
               \/ /\ todo # {}
                  /\ missing' = todo /\ addressed' = Addressed
                  /\ stalls' \in Nat /\ stalls' < StallLimit
                  /\ queue' = AfterDrain /\ frame' = NoFrame
                  /\ currentHash' = First(todo).hash
                  /\ pc' \in {"data", "ask"}
                  /\ UNCHANGED <<got, attempt, last, banked>>
<1> DEFINE todo == Incomplete(got, root, Addressed)
           stuck == IF Cardinality(todo) < Cardinality(missing) THEN 0 ELSE stalls + 1
<1>1. /\ pc = "check" /\ InScope /\ MissingFrames(got, frame.hash) = {}
      /\ Answer(UNION {After(f) : f \in Drained})
      /\ UNCHANGED <<device, root, lines, syncs, calm>>
  BY DEF CheckItem
<1>2. stuck \in Nat
  BY DEF MapCore, MapTypeOK
<1>3. stuck >= StallLimit <=> ~ (stuck < StallLimit)
  <2> HIDE DEF stuck
  <2> QED
    BY <1>2
<1>4. CASE stuck >= StallLimit
  <2>1. Interrupted /\ got' = got
    BY ONLY <1>3, <1>4, CheckItem DEF CheckItem
  <2> QED
    BY <1>1, <2>1
<1>5. CASE stuck < StallLimit /\ todo = {}
  <2>1. Finish
    BY ONLY <1>3, <1>5, CheckItem DEF CheckItem
  <2> QED
    BY <1>1, <1>5, <2>1
<1>6. CASE stuck < StallLimit /\ todo # {}
  <2>1. /\ missing' = todo /\ addressed' = Addressed /\ stalls' = stuck
        /\ queue' = AfterDrain /\ frame' = NoFrame
        /\ currentHash' = First(todo).hash
        /\ pc' = IF First(todo).hash = currentHash THEN "data" ELSE "ask"
        /\ UNCHANGED <<got, attempt, last, banked>>
    BY ONLY <1>3, <1>6, CheckItem DEF CheckItem
  <2>2. stalls' \in Nat /\ stalls' < StallLimit
    BY <1>2, <1>6, <2>1
  <2>3. pc' \in {"data", "ask"}
    BY <2>1
  <2> QED
    BY <1>1, <1>6, <2>1, <2>2, <2>3
<1> QED
  BY <1>3, <1>4, <1>5, <1>6

LEMMA CheckItemCore == ASSUME MapCore, CheckItem PROVE MapCore'
<1> DEFINE todo == Incomplete(got, root, Addressed)
<1>1. /\ pc = "check" /\ Answer(UNION {After(f) : f \in Drained})
      /\ UNCHANGED <<device, root, lines, syncs, calm>>
  BY CheckItemIs
<1>2. sent' \subseteq RootFrames \cup DataFrames /\ old' \subseteq sent'
  <2>1. UNION {After(f) : f \in Drained} \subseteq RootFrames \cup DataFrames
    BY <1>1, DrainIs, AfterIs
  <2> QED
    BY <1>1, <2>1, AnswerCore
<1>3. CASE Interrupted /\ got' = got
  BY <1>1, <1>2, <1>3, InterruptedCore
<1>4. CASE Finish
  BY <1>1, <1>2, <1>4, FinishCore
<1>5. CASE /\ todo # {}
           /\ missing' = todo /\ addressed' = Addressed
           /\ stalls' \in Nat /\ stalls' < StallLimit
           /\ queue' = AfterDrain /\ frame' = NoFrame
           /\ currentHash' = First(todo).hash
           /\ pc' \in {"data", "ask"}
           /\ UNCHANGED <<got, attempt, last, banked>>
  <2>1. todo \subseteq Entry /\ IsFiniteSet(todo)
    BY IncompleteIs DEF MapCore, Places
  <2>2. currentHash' \in Hashes
    BY <1>5, <2>1, FirstIs
  <2>3. addressed' \subseteq Hashes
    BY <1>1, <1>5, AddressedIs
  <2>4. queue' \in Seq(RootFrames \cup DataFrames)
        /\ \A i \in 1 .. Len(queue') : queue'[i] \in DataFrames
    BY <1>1, <1>5, DrainIs DEF MapCore, Places
  <2>5. stalls' \in 0 .. StallLimit
    BY <1>5
  <2> HIDE DEF todo
  <2>6. MapTypeOK'
    BY <1>1, <1>2, <1>5, <2>1, <2>2, <2>3, <2>4, <2>5 DEF MapCore, MapTypeOK
  <2>7. Places'
    BY <1>1, <1>5, <2>1, <2>2, <2>4 DEF MapCore, Places
  <2> QED
    BY <2>6, <2>7 DEF MapCore
<1> QED
  BY <1>3, <1>4, <1>5, CheckItemIs

LEMMA MapStepCore == ASSUME MapCore, [MapNext]_mapVars PROVE MapCore'
<1>1. CASE UNCHANGED mapVars
  BY <1>1 DEF mapVars, MapCore, MapTypeOK, Places
<1>2. CASE MapNext
  BY <1>2, EditCore, ReportCore, SyncCore, LineListCore, NamesCore, ArriveCore, StartRunCore,
     AskRootCore, TakeRootCore, AskDataCore, TakeDataCore, CheckMoreCore, CheckItemCore,
     InterruptCore, GiveUpCore DEF MapNext
<1> QED
  BY <1>1, <1>2

\* Every variable keeps its type, whatever the device, the wire and the retries
\* do: no attempt goes beyond max_attempts (_retry_loop), no stall reaches more
\* than the limit of step 4, and only frames of the device are queued or handled.
THEOREM MapTypeCorrect == MapSpec => []MapTypeOK
<1>1. MapSpec => []MapCore
  BY MapInitCore, MapStepCore, PTL DEF MapSpec
<1>2. MapCore => MapTypeOK
  BY DEF MapCore
<1> QED
  BY <1>1, <1>2, PTL

-----------------------------------------------------------------------------
(* What holds of a run that nothing has disturbed.                         *)

\* A frame, and those before it, are in the map.
Applied(f) == f.hash \in Hashlist(root) /\ 1 .. f.n \subseteq got[f.hash]

\* Only frames of the device's map are new, and data only once it was asked for.
NewFrames ==
    /\ \A f \in MapFresh \cap RootFrames : f \in RootOf(edition)
    /\ \A f \in MapFresh \cap DataFrames :
          f.hash \in Hashlist(root) /\ 1 .. f.n - 1 \subseteq got[f.hash]
    /\ pc \in {"begin", "root"} => MapFresh \cap DataFrames = {}

RootPhase ==
    pc = "root" =>
      /\ \A i \in 1 .. Len(queue) : queue[i] \in RootOf(edition) /\ \E x \in root : x.n = queue[i].n
      /\ \A n \in banked : \E x \in root : x.n = n

DataPhase ==
    /\ pc \in Fetching =>
         /\ Exact(root, edition)
         /\ currentHash \in Hashlist(root)
         /\ \A i \in 1 .. Len(queue) : Applied(queue[i])
         /\ \A h \in addressed : h \in Hashlist(root) /\ got[h] = 1 .. Size[h]
    /\ pc = "check" => Applied(frame)

Copied == pc = "done" => Exact(root, edition) /\ got = Whole(edition)

Undisturbed == Part(root, edition) /\ NewFrames /\ RootPhase /\ DataPhase /\ Copied

Active == Fetching \cup {"begin", "root", "done"}

CalmInv == calm => reported = edition /\ (pc \in Active => Undisturbed)

USE DEF Active

LEMMA HashlistIs ==
  ASSUME NEW r, RootOK(r), NEW e \in Editions, Exact(r, e)
  PROVE  /\ Hashlist(r) = Range(Manifest[e])
         /\ Part(r, e)
<1> DEFINE L == Len(Manifest[e])
<1>1. /\ \A x \in r : x.n \in 1 .. L /\ x.hash = Manifest[e][x.n]
      /\ \A n \in 1 .. L : \E x \in r : x.n = n
      /\ Part(r, e)
  <2>1. Part(r, e) /\ \A n \in 1 .. L : \E x \in r : x.n = n
    BY ExactIs
  <2>2. ASSUME NEW x \in r PROVE x.n \in 1 .. L /\ x.hash = Manifest[e][x.n]
    <3>1. x.n \in 1 .. x.total
      BY DEF RootOK
    <3> QED
      BY <2>1, <3>1 DEF Part
  <2> QED
    BY <2>1, <2>2
<1>2. DOMAIN Manifest[e] = 1 .. L
  BY Editioned
<1>3. \A h : h \in Hashlist(r) <=> h \in Range(Manifest[e])
  <2>1. ASSUME NEW x \in r PROVE x.hash \in Range(Manifest[e])
    BY <1>1, <1>2 DEF Range
  <2>2. ASSUME NEW n \in 1 .. L PROVE Manifest[e][n] \in Hashlist(r)
    <3>1. PICK x \in r : x.n = n
      BY <1>1
    <3> QED
      BY <1>1, <3>1 DEF Hashlist
  <2> QED
    BY <1>2, <2>1, <2>2 DEF Range, Hashlist
<1> QED
  BY <1>1, <1>3

\* When every listed hash is complete, pruning leaves the copy of the edition.
LEMMA WholeIs ==
  ASSUME NEW r, RootOK(r), NEW e \in Editions, Exact(r, e), r # {},
         NEW g \in [Hashes -> SUBSET Nat], NEW ln \in BOOLEAN,
         \A h \in Hashlist(r) : g[h] = 1 .. Size[h]
  PROVE  Prune(g, r, ln) = Whole(e)
<1>1. Hashlist(r) = Range(Manifest[e])
  BY HashlistIs
<1>2. Prune(g, r, ln) = [h \in Hashes |-> IF h \in Hashlist(r) THEN g[h] ELSE {}]
  BY DEF Prune
<1>3. \A h \in Hashes : (IF h \in Hashlist(r) THEN g[h] ELSE {})
                          = (IF h \in Range(Manifest[e]) THEN 1 .. Size[h] ELSE {})
  BY <1>1
<1> QED
  BY <1>2, <1>3 DEF Whole

\* All the numbers of a list are banked when as many are as it has.
LEMMA AllBanked ==
  ASSUME NEW L \in Nat, NEW B, B \subseteq 1 .. L, Cardinality(B) >= L
  PROVE  B = 1 .. L
<1>1. IsFiniteSet(1 .. L) /\ Cardinality(1 .. L) = L
  BY FS_Interval
<1>2. IsFiniteSet(B) /\ Cardinality(B) <= Cardinality(1 .. L)
      /\ (Cardinality(B) = Cardinality(1 .. L) => B = 1 .. L)
  BY <1>1, FS_Subset
<1>3. Cardinality(B) \in Nat
  BY <1>2, FS_CardinalityType
<1> QED
  BY <1>1, <1>2, <1>3

\* A run that has ended in no copy, or begins anew, promises nothing yet.
LEMMA Inactive ==
  ASSUME MapCore, CalmInv, calm' => calm, UNCHANGED device, pc' \notin Active
  PROVE  CalmInv'
  BY DEF CalmInv

LEMMA EditCalm == ASSUME MapCore, CalmInv, Edit PROVE CalmInv'
  BY DEF Edit, CalmInv

LEMMA ReportCalm == ASSUME MapCore, CalmInv, Report PROVE CalmInv'
<1>1. ~ calm' 
  BY DEF Report, CalmInv, MapCore, MapTypeOK
<1> QED
  BY <1>1 DEF CalmInv

LEMMA SyncCalm == ASSUME MapCore, CalmInv, Sync PROVE CalmInv'
  BY Inactive DEF Sync, Execute

LEMMA LineListCalm == ASSUME MapCore, CalmInv, LineListArrives PROVE CalmInv'
<1>1. UNCHANGED <<device, sent, root, got, saga, syncs, old, calm>>
  BY DEF LineListArrives
<1> QED
  BY <1>1 DEF CalmInv, Undisturbed, NewFrames, MapFresh, RootPhase, DataPhase, Applied, Copied

LEMMA NamesCalm == ASSUME MapCore, CalmInv, NamesArrive PROVE CalmInv'
<1>1. /\ pc \notin Running /\ StaleRoot
      /\ UNCHANGED <<device, sent, lines, saga, syncs, old, calm>>
  BY DEF NamesArrive
<1>2. ASSUME calm, pc = "done" PROVE FALSE
  <2>1. reported = edition /\ Exact(root, edition)
    BY <1>2 DEF CalmInv, Undisturbed, Copied
  <2>2. Matches(root, edition)
    BY <2>1, WholeList DEF MapCore, MapTypeOK, Places
  <2> QED
    BY <1>1, <2>1, <2>2 DEF StaleRoot
<1>3. calm => pc \notin Active
  BY <1>1, <1>2
<1> QED
  BY <1>1, <1>3 DEF CalmInv

LEMMA StartRunCalm == ASSUME MapCore, CalmInv, StartRun PROVE CalmInv'
<1> SUFFICES ASSUME calm' PROVE reported' = edition' /\ Undisturbed'
  BY DEF CalmInv
<1>1. /\ pc' = "begin" /\ old' = sent /\ sent' = sent
      /\ UNCHANGED <<edition, reported>>
      /\ root' = IF StaleRoot THEN {} ELSE root
  BY DEF StartRun
<1>2. reported = edition /\ (Matches(root, edition) => Exact(root, edition))
  BY DEF StartRun
<1>3. edition \in Editions /\ edition # 0
  BY DEF MapCore, MapTypeOK, Editions
<1>4. Part(root', edition)
  <2>1. CASE Matches(root, edition)
    <3>1. root' = root
      BY <1>1, <1>2, <2>1 DEF StaleRoot
    <3> QED
      BY <1>2, <1>3, <2>1, <3>1, HashlistIs DEF MapCore, Places
  <2>2. CASE ~ Matches(root, edition)
    <3>1. root' = {}
      BY <1>1, <1>2, <1>3, <2>2 DEF StaleRoot
    <3> QED
      BY <3>1 DEF Part
  <2> QED
    BY <2>1, <2>2
<1>5. MapFresh' = {}
  BY <1>1 DEF MapFresh
<1> QED
  BY <1>1, <1>2, <1>4, <1>5 DEF Undisturbed, NewFrames, RootPhase, DataPhase, Copied

LEMMA AskRootCalm == ASSUME MapCore, CalmInv, AskRoot PROVE CalmInv'
<1> SUFFICES ASSUME calm' PROVE reported' = edition' /\ Undisturbed'
  BY DEF CalmInv
<1> DEFINE F == {RootFrame(edition, n) : n \in {1} \cap DOMAIN Manifest[edition]}
<1>1. /\ pc = "begin" /\ pc' = "root" /\ Answer(F)
      /\ UNCHANGED <<device, hashList, attempt, last, banked, queue, frame, step4, syncs, calm>>
  BY DEF AskRoot
<1>2. reported = edition /\ Part(root, edition) /\ NewFrames /\ queue = <<>> /\ banked = {}
  BY <1>1 DEF CalmInv, Undisturbed, MapCore, Places
<1>3. F \subseteq RootOf(edition)
  BY DEF RootOf
<1> HIDE DEF F
<1>4. MapFresh' \subseteq MapFresh \cup F
  BY <1>1, AnswerIs DEF MapCore, MapTypeOK
<1>5. \A f \in RootOf(edition) : f \notin DataFrames
  BY RootOfIs, DataFrameIs DEF MapCore, MapTypeOK
<1>6. Part(root, edition)' /\ NewFrames'
  BY <1>1, <1>2, <1>3, <1>4, <1>5 DEF NewFrames, Part
<1>7. RootPhase'
  BY <1>1, <1>2, EmptySeq DEF RootPhase
<1> QED
  BY <1>1, <1>2, <1>6, <1>7 DEF Undisturbed, DataPhase, Copied

LEMMA AskDataCalm == ASSUME MapCore, CalmInv, AskData PROVE CalmInv'
<1> SUFFICES ASSUME calm' PROVE reported' = edition' /\ Undisturbed'
  BY DEF CalmInv
<1>1. /\ pc = "ask" /\ pc' = "data" /\ Answer({DataFrame(currentHash, 1)})
      /\ UNCHANGED <<device, hashList, attempt, last, banked, queue, frame, step4, syncs, calm>>
  BY DEF AskData
<1>2. reported = edition /\ Part(root, edition) /\ NewFrames /\ DataPhase
      /\ currentHash \in Hashes /\ currentHash \in Hashlist(root)
  BY <1>1 DEF CalmInv, Undisturbed, DataPhase, MapCore, Places
<1>3. MapFresh' \subseteq MapFresh \cup {DataFrame(currentHash, 1)}
  BY <1>1, AnswerIs DEF MapCore, MapTypeOK
<1>4. DataFrame(currentHash, 1) \notin RootFrames
      /\ DataFrame(currentHash, 1).hash = currentHash /\ DataFrame(currentHash, 1).n = 1
  BY RootFrameIs DEF DataFrame
<1>5. NewFrames'
  <2>1. 1 .. (1 - 1) = {}
    OBVIOUS
  <2> QED
    BY <1>1, <1>2, <1>3, <1>4, <2>1 DEF NewFrames
<1>6. Part(root, edition)' /\ RootPhase' /\ DataPhase' /\ Copied'
  BY <1>1, <1>2 DEF RootPhase, DataPhase, Copied, Applied, Part
<1> QED
  BY <1>1, <1>2, <1>5, <1>6 DEF Undisturbed

\* A root frame of the edition comes.
LEMMA ArriveRootCalm ==
  ASSUME MapCore, CalmInv, calm, NEW f \in RootFrames, Arrive(f), f \notin old, pc \in Active
  PROVE  Undisturbed'
<1>1. f \in MapFresh /\ f.kind = "root" /\ f \notin DataFrames
  BY RootFrameIs, DataFrameIs DEF Arrive, MapFresh
<1>2. /\ root' = UpdateRoot(root, f) /\ got' = got
      /\ queue' = queue \/ (pc = "root" /\ queue' = Append(queue, f))
      /\ UNCHANGED <<device, sent, pc, banked, frame, step4, old>>
  BY <1>1 DEF Arrive
<1>3. Undisturbed /\ edition \in Editions /\ RootOK(root) /\ f \in RootOf(edition)
  BY <1>1 DEF CalmInv, Undisturbed, NewFrames, MapCore, MapTypeOK, Places
<1>4. /\ Part(root', edition)
      /\ \A x \in root : \E y \in root' : y.n = x.n /\ y.hash = x.hash
      /\ \E y \in root' : y.n = f.n
      /\ Exact(root, edition) => root' = root
  BY <1>2, <1>3, PartUpdated DEF Undisturbed
<1>5. Hashlist(root) \subseteq Hashlist(root')
  BY <1>4 DEF Hashlist
<1>6. NewFrames'
  BY <1>2, <1>3, <1>5 DEF Undisturbed, NewFrames, MapFresh
<1>7. RootPhase'
  <2> SUFFICES ASSUME pc = "root"
               PROVE  /\ \A i \in 1 .. Len(queue') :
                           queue'[i] \in RootOf(edition) /\ \E x \in root' : x.n = queue'[i].n
                      /\ \A n \in banked : \E x \in root' : x.n = n
    BY <1>2 DEF RootPhase
  <2>1. /\ \A i \in 1 .. Len(queue) : queue[i] \in RootOf(edition) /\ \E x \in root : x.n = queue[i].n
        /\ \A n \in banked : \E x \in root : x.n = n
    BY <1>3 DEF Undisturbed, RootPhase
  <2>2. \A i \in 1 .. Len(queue') : (i \in 1 .. Len(queue) /\ queue'[i] = queue[i]) \/ queue'[i] = f
    <3> DEFINE S == RootFrames \cup DataFrames
    <3>1. queue \in Seq(S) /\ f \in S
      BY DEF MapCore, MapTypeOK
    <3> HIDE DEF S
    <3>2. \A i \in 1 .. Len(Append(queue, f)) :
             (i \in 1 .. Len(queue) /\ Append(queue, f)[i] = queue[i]) \/ Append(queue, f)[i] = f
      BY ONLY <3>1, AppendedIs
    <3> QED
      BY <1>2, <3>2
  <2>3. ASSUME NEW i \in 1 .. Len(queue')
        PROVE  queue'[i] \in RootOf(edition) /\ \E x \in root' : x.n = queue'[i].n
    <3>1. CASE i \in 1 .. Len(queue) /\ queue'[i] = queue[i]
      BY <1>4, <2>1, <3>1
    <3>2. CASE queue'[i] = f
      BY <1>3, <1>4, <3>2
    <3> QED
      BY <2>2, <3>1, <3>2
  <2>4. \A n \in banked : \E x \in root' : x.n = n
    <3>1. \A x \in root : \E y \in root' : y.n = x.n
      BY ONLY <1>4
    <3> QED
      BY ONLY <2>1, <3>1
  <2> QED
    BY <2>3, <2>4
<1>8. DataPhase'
  BY <1>2, <1>3, <1>4 DEF Undisturbed, DataPhase, Applied
<1>9. Copied'
  BY <1>2, <1>3, <1>4 DEF Undisturbed, Copied
<1> QED
  BY <1>2, <1>4, <1>6, <1>7, <1>8, <1>9 DEF Undisturbed

\* A data frame comes: the reducer adds it to those that came before it.
LEMMA ArriveDataCalm ==
  ASSUME MapCore, CalmInv, calm, NEW f \in DataFrames, Arrive(f), f \notin old, pc \in Active
  PROVE  Undisturbed'
<1> DEFINE g == [got EXCEPT ![f.hash] = @ \cup {f.n}]
<1>1. f \in MapFresh /\ f.kind = "data" /\ f \notin RootFrames /\ f.hash \in Hashes
      /\ f.n \in 1 .. Size[f.hash] /\ Size[f.hash] \in Nat
  BY RootFrameIs, DataFrameIs DEF Arrive, MapFresh
<1>2. /\ root' = root /\ got' = Prune(g, root, lines)
      /\ queue' = queue \/ (pc \in Fetching /\ queue' = Append(queue, f))
      /\ UNCHANGED <<device, sent, pc, banked, frame, step4, old>>
  BY <1>1 DEF Arrive
<1>3. /\ Undisturbed /\ edition \in Editions /\ RootOK(root)
      /\ got \in [Hashes -> SUBSET Nat] /\ lines \in BOOLEAN
      /\ \A h \in Hashes : got[h] \subseteq 1 .. Size[h]
  BY DEF CalmInv, MapCore, MapTypeOK, Places
<1>4. /\ f.hash \in Hashlist(root) /\ 1 .. f.n - 1 \subseteq got[f.hash]
      /\ pc \in Fetching \cup {"done"}
  BY <1>1, <1>3 DEF Undisturbed, NewFrames
<1>5. g \in [Hashes -> SUBSET Nat]
  BY <1>1, <1>3
<1>6. \A h \in Hashlist(root) : h \in Hashes /\ got'[h] = g[h]
  <2>1. \A h \in Hashlist(root) : h \in Hashes
    BY <1>3 DEF RootOK, Hashlist
  <2> HIDE DEF g
  <2>2. \A h \in Hashlist(root) \cap Hashes : Prune(g, root, lines)[h] = g[h]
    BY ONLY <1>3, <1>5, Pruned
  <2> QED
    BY <1>2, <2>1, <2>2
<1>7. \A h \in Hashlist(root) : got[h] \subseteq got'[h]
  BY <1>1, <1>3, <1>6
<1>8. 1 .. f.n \subseteq got'[f.hash]
  <2>1. got'[f.hash] = got[f.hash] \cup {f.n}
    BY <1>1, <1>3, <1>4, <1>6
  <2>2. 1 .. f.n = (1 .. f.n - 1) \cup {f.n}
    BY <1>1
  <2> QED
    BY <1>4, <2>1, <2>2
<1>9. \A h \in Hashlist(root) : got[h] = 1 .. Size[h] => got'[h] = 1 .. Size[h]
  BY <1>1, <1>3, <1>6
<1> HIDE DEF g
<1>10. NewFrames'
  BY <1>2, <1>3, <1>7 DEF Undisturbed, NewFrames, MapFresh
<1>11. RootPhase'
  BY <1>2, <1>4 DEF RootPhase
<1>12. pc \in Fetching => \A i \in 1 .. Len(queue') : Applied(queue[i])'
  <2> SUFFICES ASSUME pc \in Fetching, NEW i \in 1 .. Len(queue')
               PROVE  /\ queue'[i].hash \in Hashlist(root)
                      /\ 1 .. queue'[i].n \subseteq got'[queue'[i].hash]
    BY <1>2 DEF Applied
  <2>1. \A k \in 1 .. Len(queue) : Applied(queue[k])
    BY <1>3 DEF Undisturbed, DataPhase
  <2>2. (i \in 1 .. Len(queue) /\ queue'[i] = queue[i]) \/ queue'[i] = f
    <3> DEFINE S == RootFrames \cup DataFrames
    <3>1. queue \in Seq(S) /\ f \in S
      BY DEF MapCore, MapTypeOK
    <3> HIDE DEF S
    <3>2. \A k \in 1 .. Len(Append(queue, f)) :
             (k \in 1 .. Len(queue) /\ Append(queue, f)[k] = queue[k]) \/ Append(queue, f)[k] = f
      BY ONLY <3>1, AppendedIs
    <3> QED
      BY <1>2, <3>2
  <2>3. CASE i \in 1 .. Len(queue) /\ queue'[i] = queue[i]
    BY <1>7, <2>1, <2>3 DEF Applied
  <2>4. CASE queue'[i] = f
    BY <1>4, <1>8, <2>4
  <2> QED
    BY <2>2, <2>3, <2>4
<1>13. DataPhase'
  <2>1. pc = "check" => Applied(frame)'
    BY <1>2, <1>3, <1>7 DEF Undisturbed, DataPhase, Applied
  <2>2. pc \in Fetching => \A h \in addressed : h \in Hashlist(root) /\ got'[h] = 1 .. Size[h]
    BY <1>3, <1>9 DEF Undisturbed, DataPhase
  <2> QED
    BY <1>2, <1>3, <1>12, <2>1, <2>2 DEF Undisturbed, DataPhase
<1>14. Copied'
  <2> SUFFICES ASSUME pc = "done" PROVE Exact(root, edition) /\ got' = Whole(edition)
    BY <1>2 DEF Copied
  <2>1. Exact(root, edition) /\ got = Whole(edition)
    BY <1>3 DEF Undisturbed, Copied
  <2>2. \A h \in Hashlist(root) : got'[h] = 1 .. Size[h]
    BY <1>3, <1>6, <1>9, <2>1, HashlistIs DEF Whole
  <2>3. \A h \in Hashlist(root) : g[h] = 1 .. Size[h]
    BY <1>6, <2>2
  <2>4. root # {}
    BY <1>4 DEF Hashlist
  <2> QED
    BY <1>2, <1>3, <1>5, <2>1, <2>3, <2>4, WholeIs
<1> QED
  BY <1>2, <1>3, <1>10, <1>11, <1>13, <1>14 DEF Undisturbed

LEMMA ArriveCalm ==
  ASSUME MapCore, CalmInv, NEW f \in RootFrames \cup DataFrames, Arrive(f)
  PROVE  CalmInv'
<1>1. calm' = (calm /\ f \notin old) /\ UNCHANGED <<device, pc>>
  BY DEF Arrive
<1>2. CASE calm /\ f \notin old /\ pc \in Active
  <2>1. Undisturbed'
    BY <1>2, ArriveRootCalm, ArriveDataCalm
  <2> QED
    BY <1>1, <1>2, <2>1 DEF CalmInv
<1>3. CASE pc \notin Active
  BY <1>1, <1>3, Inactive
<1>4. CASE ~ (calm /\ f \notin old)
  BY <1>1, <1>4 DEF CalmInv
<1> QED
  BY <1>2, <1>3, <1>4

\* A run whose list is complete, and every listed hash with it, ends in the copy.
LEMMA FinishCalm ==
  ASSUME MapCore, Finish, UNCHANGED <<device, root, lines, syncs, calm>>,
         reported = edition, Exact(root, edition), root # {},
         \A h \in Hashlist(root) : got[h] = 1 .. Size[h],
         NewFrames' 
  PROVE  CalmInv'
<1>1. /\ edition \in Editions /\ RootOK(root) /\ lines \in BOOLEAN
      /\ got \in [Hashes -> SUBSET Nat]
  BY DEF MapCore, MapTypeOK, Places
<1>2. got' = Whole(edition) /\ pc' = "done"
  BY <1>1, WholeIs DEF Finish
<1>3. Part(root, edition)
  BY <1>1, HashlistIs
<1>4. Copied' /\ RootPhase' /\ DataPhase'
  BY <1>2 DEF Copied, RootPhase, DataPhase
<1> QED
  BY <1>3, <1>4 DEF CalmInv, Undisturbed, Part

LEMMA NoneMissing ==
  ASSUME NEW g, NEW r, NEW D, Incomplete(g, r, D) = {}, \A h \in D : g[h] = 1 .. Size[h]
  PROVE  \A h \in Hashlist(r) : g[h] = 1 .. Size[h]
  BY DEF Incomplete, Hashlist

LEMMA TakeRootCalm == ASSUME MapCore, CalmInv, TakeRoot PROVE CalmInv'
<1> SUFFICES ASSUME calm' PROVE CalmInv'
  BY DEF CalmInv
<1> DEFINE f == Head(queue)
           banked2 == banked \cup {f.n}
           todo == Incomplete(got, root, {})
           L == Len(Manifest[edition])
<1>1. /\ pc = "root" /\ queue # <<>> /\ f \in RootFrames /\ Answer(After(f))
      /\ UNCHANGED <<device, root, lines, syncs, calm>>
      /\ IsFiniteSet(banked2) /\ banked2 \subseteq Nat
  BY TakeRootIs
<1>2. reported = edition /\ Undisturbed /\ edition \in Editions /\ RootOK(root)
  BY <1>1 DEF CalmInv, MapCore, MapTypeOK, Places
<1>3. f \in RootOf(edition) /\ \E x \in root : x.n = f.n
  BY <1>1, <1>2, HeadIs DEF Undisturbed, RootPhase
<1>4. MapFresh' \subseteq MapFresh \cup After(f) /\ After(f) \subseteq RootOf(edition)
  BY <1>1, AfterIs, AnswerIs DEF MapCore, MapTypeOK
<1>5. \A g \in RootOf(edition) : g \notin DataFrames
  BY <1>2, RootOfIs, DataFrameIs
<1>6. MapFresh' \cap DataFrames = {}
  BY <1>1, <1>2, <1>4, <1>5 DEF Undisturbed, NewFrames
<1>7. \A g \in MapFresh' \cap RootFrames : g \in RootOf(edition)
  BY <1>2, <1>4 DEF Undisturbed, NewFrames
<1>8. NewFrames'
  BY <1>1, <1>6, <1>7 DEF NewFrames
<1>9. \A n \in banked2 : \E x \in root : x.n = n
  BY <1>1, <1>2, <1>3 DEF Undisturbed, RootPhase
<1>10. ASSUME Cardinality(banked2) >= f.total PROVE Exact(root, edition) /\ root # {}
  <2>1. f.total = L /\ L \in Nat
    BY <1>2, <1>3, RootOfIs, Editioned
  <2>2. \A x \in root : x.n \in 1 .. L
    BY <1>2 DEF Undisturbed, Part, RootOK
  <2>3. banked2 \subseteq 1 .. L
    BY <1>9, <2>2
  <2>4. banked2 = 1 .. L
    <3>1. Cardinality(banked2) >= L
      BY <1>10, <2>1
    <3> HIDE DEF banked2, L
    <3> QED
      BY <2>1, <2>3, <3>1, AllBanked
  <2> QED
    BY <1>2, <1>3, <1>9, <2>4, ExactIs DEF Undisturbed
<1>11. CASE /\ banked' = banked2 /\ queue' = Tail(queue)
            /\ UNCHANGED <<pc, got, attempt, last, frame, step4>>
  <2>1. \A i \in 1 .. Len(queue') : queue'[i] \in RootOf(edition) /\ \E x \in root : x.n = queue'[i].n
    BY <1>1, <1>2, <1>11, HeadIs DEF Undisturbed, RootPhase
  <2> HIDE DEF banked2
  <2>2. RootPhase'
    BY <1>1, <1>9, <1>11, <2>1 DEF RootPhase
  <2>3. DataPhase' /\ Copied'
    BY <1>1, <1>11 DEF DataPhase, Copied
  <2> QED
    BY <1>1, <1>2, <1>8, <2>2, <2>3 DEF CalmInv, Undisturbed, Part
<1>12. CASE Cardinality(banked2) >= f.total /\ todo = {} /\ Finish
  <2>1. \A h \in Hashlist(root) : got[h] = 1 .. Size[h]
    BY ONLY <1>12, NoneMissing
  <2> QED
    BY <1>1, <1>2, <1>8, <1>10, <1>12, <2>1, FinishCalm
<1>13. CASE /\ Cardinality(banked2) >= f.total /\ todo # {}
            /\ pc' = "ask" /\ currentHash' = First(todo).hash /\ missing' = todo
            /\ banked' = {} /\ queue' = <<>>
            /\ UNCHANGED <<got, attempt, last, frame, addressed, stalls>>
  <2>1. First(todo) \in root
    BY <1>2, <1>13, IncompleteIs, FirstIs
  <2>2. currentHash' \in Hashlist(root)
    BY <1>13, <2>1 DEF Hashlist
  <2>3. addressed' = {}
    BY <1>1, <1>13 DEF MapCore, Places
  <2>4. DataPhase' /\ RootPhase' /\ Copied'
    BY <1>1, <1>10, <1>13, <2>2, <2>3, EmptySeq DEF DataPhase, RootPhase, Copied
  <2> QED
    BY <1>1, <1>2, <1>8, <2>4 DEF CalmInv, Undisturbed, Part
<1> QED
  BY <1>11, <1>12, <1>13, TakeRootIs

\* The frames the device sends on an acknowledgement are the next ones.
LEMMA AckedCalm ==
  ASSUME MapCore, NewFrames, pc \in Fetching, pc' \in Fetching \cup {"done"},
         NEW F, F \subseteq DataFrames, \A f \in F : Applied(f),
         Answer(UNION {After(f) : f \in F}), UNCHANGED <<edition, root>>,
         \A h \in Hashlist(root) : got'[h] = got[h]
  PROVE  NewFrames'
<1> DEFINE G == UNION {After(f) : f \in F}
<1>1. \A g \in G : g \in DataFrames /\ g.hash \in Hashlist(root) /\ 1 .. g.n - 1 \subseteq got[g.hash]
  <2> SUFFICES ASSUME NEW f \in F, NEW g \in After(f)
               PROVE  g \in DataFrames /\ g.hash \in Hashlist(root) /\ 1 .. g.n - 1 \subseteq got[g.hash]
    OBVIOUS
  <2>1. g \in DataFrames /\ g.hash = f.hash /\ g.n = f.n + 1 /\ f.n \in Nat
    BY AfterIs, DataFrameIs
  <2>2. g.n - 1 = f.n
    BY <2>1
  <2> QED
    BY <2>1, <2>2 DEF Applied
<1>2. MapFresh' \subseteq MapFresh \cup G
  BY AnswerIs DEF MapCore, MapTypeOK
<1> HIDE DEF G
<1>3. \A g \in DataFrames : g \notin RootFrames
  BY DataFrameIs, RootFrameIs
<1> QED
  BY <1>1, <1>2, <1>3 DEF NewFrames

LEMMA TakeDataCalm == ASSUME MapCore, CalmInv, TakeData PROVE CalmInv'
<1> SUFFICES ASSUME calm' PROVE reported' = edition' /\ Undisturbed'
  BY DEF CalmInv
<1> DEFINE f == Head(queue)
<1>1. /\ pc = "data" /\ queue # <<>> /\ pc' = "check"
      /\ frame' = f /\ queue' = Tail(queue) /\ Answer(After(f))
      /\ UNCHANGED <<device, hashList, attempt, last, banked, step4, syncs, calm>>
  BY DEF TakeData
<1>2. reported = edition /\ Undisturbed
  BY <1>1 DEF CalmInv
<1>3. f \in DataFrames /\ Applied(f)
  BY <1>1, <1>2, HeadIs DEF MapCore, Places, Undisturbed, DataPhase
<1>4. NewFrames'
  <2> DEFINE F == {f}
  <2>1. UNION {After(g) : g \in F} = After(f)
    OBVIOUS
  <2>2. F \subseteq DataFrames /\ \A g \in F : Applied(g)
    BY <1>3
  <2>3. \A h \in Hashlist(root) : got'[h] = got[h]
    BY <1>1
  <2>4. NewFrames
    BY <1>2 DEF Undisturbed
  <2> HIDE DEF f, F
  <2> QED
    BY <1>1, <2>1, <2>2, <2>3, <2>4, AckedCalm
<1>5. \A i \in 1 .. Len(queue') : \E k \in 1 .. Len(queue) : queue'[i] = queue[k]
  BY <1>1, HeadIs
<1> HIDE DEF f
<1>6. DataPhase'
  BY <1>1, <1>2, <1>3, <1>5 DEF Undisturbed, DataPhase, Applied
<1> QED
  BY <1>1, <1>2, <1>4, <1>6 DEF Undisturbed, Part, RootPhase, Copied

\* An applied frame that leaves its hash incomplete is not its last.
LEMMA LastIs ==
  ASSUME MapCore, pc = "check", Applied(frame), frame.n >= frame.total
  PROVE  got[frame.hash] = 1 .. Size[frame.hash] /\ MissingFrames(got, frame.hash) = {}
<1>1. frame.hash \in Hashes /\ frame.total = Size[frame.hash] /\ frame.n \in 1 .. Size[frame.hash]
      /\ Size[frame.hash] \in Nat
  BY DataFrameIs DEF MapCore, Places
<1>2. frame.n = Size[frame.hash]
  BY <1>1
<1>3. got[frame.hash] = 1 .. Size[frame.hash]
  BY <1>1, <1>2 DEF MapCore, Places, Applied
<1> QED
  BY <1>3 DEF MissingFrames

LEMMA CheckMoreCalm == ASSUME MapCore, CalmInv, CheckMore PROVE CalmInv'
<1> SUFFICES ASSUME calm' PROVE reported' = edition' /\ Undisturbed'
  BY DEF CalmInv
<1>1. /\ pc = "check" /\ pc' = "data"
      /\ UNCHANGED <<device, sent, hashList, attempt, last, banked, queue, missing, currentHash,
                     stalls, syncs, old, calm>>
  BY DEF CheckMore
<1>2. reported = edition /\ Undisturbed /\ Applied(frame)
  BY <1>1 DEF CalmInv, Undisturbed, DataPhase
<1>3. addressed' = addressed
  <2>1. CASE ~ InScope
    BY <2>1 DEF CheckMore
  <2>2. CASE InScope
    <3>1. MissingFrames(got, frame.hash) # {} /\ addressed' = Addressed
      BY <2>2 DEF CheckMore
    <3>2. ~ (frame.n >= frame.total)
      BY <1>1, <1>2, <3>1, LastIs
    <3> QED
      BY <3>1, <3>2 DEF Addressed
  <2> QED
    BY <2>1, <2>2
<1>4. NewFrames' /\ DataPhase'
  BY <1>1, <1>2, <1>3 DEF Undisturbed, NewFrames, MapFresh, DataPhase, Applied
<1> QED
  BY <1>1, <1>2, <1>4 DEF Undisturbed, Part, RootPhase, Copied

LEMMA CheckItemCalm == ASSUME MapCore, CalmInv, CheckItem PROVE CalmInv'
<1> SUFFICES ASSUME calm' PROVE CalmInv'
  BY DEF CalmInv
<1> DEFINE todo == Incomplete(got, root, Addressed)
<1>1. /\ pc = "check" /\ Answer(UNION {After(f) : f \in Drained})
      /\ UNCHANGED <<device, root, lines, syncs, calm>>
  BY CheckItemIs
<1>2. reported = edition /\ Undisturbed /\ Applied(frame)
      /\ edition \in Editions /\ RootOK(root)
      /\ lines \in BOOLEAN /\ got \in [Hashes -> SUBSET Nat]
  BY <1>1 DEF CalmInv, Undisturbed, DataPhase, MapCore, MapTypeOK, Places
<1>3. Exact(root, edition) /\ currentHash \in Hashlist(root)
      /\ \A i \in 1 .. Len(queue) : Applied(queue[i])
  BY <1>1, <1>2 DEF Undisturbed, DataPhase
<1>4. \A h \in Addressed : h \in Hashlist(root) /\ got[h] = 1 .. Size[h]
  <2>1. \A h \in addressed : h \in Hashlist(root) /\ got[h] = 1 .. Size[h]
    BY <1>1, <1>2 DEF Undisturbed, DataPhase
  <2>2. frame.hash \in Hashlist(root)
    BY <1>2 DEF Applied
  <2>3. frame.n >= frame.total => got[frame.hash] = 1 .. Size[frame.hash]
    BY <1>1, <1>2, LastIs
  <2> QED
    BY <2>1, <2>2, <2>3 DEF Addressed
<1>5. Drained \subseteq DataFrames /\ \A f \in Drained : Applied(f)
  BY <1>1, <1>3, DrainIs
<1>6. CASE Interrupted /\ got' = got
  <2>1. pc' \notin Active
    <3>1. sent' \subseteq RootFrames \cup DataFrames /\ old' \subseteq sent'
      BY CheckItemCore DEF MapCore, MapTypeOK
    <3> QED
      BY <1>1, <1>6, <3>1, InterruptedCore
  <2> QED
    BY <1>1, <2>1, Inactive
<1>7. CASE todo = {} /\ Finish
  <2>1. \A h \in Hashlist(root) : got[h] = 1 .. Size[h]
    BY ONLY <1>4, <1>7, NoneMissing
  <2>2. root # {}
    BY <1>3 DEF Hashlist
  <2>3. got' = Prune(got, root, lines) /\ pc' = "done"
    BY <1>7 DEF Finish
  <2>4. \A h \in Hashlist(root) : got'[h] = got[h]
    <3>1. \A h \in Hashlist(root) : h \in Hashes
      BY <1>2 DEF RootOK, Hashlist
    <3>2. \A h \in Hashlist(root) \cap Hashes : Prune(got, root, lines)[h] = got[h]
      BY ONLY <1>2, Pruned
    <3> QED
      BY <2>3, <3>1, <3>2
  <2>5. NewFrames'
    BY <1>1, <1>2, <1>5, <2>3, <2>4, AckedCalm DEF Undisturbed
  <2> QED
    BY <1>1, <1>2, <1>3, <1>7, <2>1, <2>2, <2>5, FinishCalm
<1>8. CASE /\ todo # {}
           /\ missing' = todo /\ addressed' = Addressed
           /\ queue' = AfterDrain /\ frame' = NoFrame
           /\ currentHash' = First(todo).hash
           /\ pc' \in {"data", "ask"}
           /\ UNCHANGED <<got, attempt, last, banked>>
  <2>1. First(todo) \in root
    BY <1>2, <1>8, IncompleteIs, FirstIs
  <2>2. currentHash' \in Hashlist(root)
    BY <1>8, <2>1 DEF Hashlist
  <2>3. NewFrames'
    BY <1>1, <1>2, <1>5, <1>8, AckedCalm DEF Undisturbed
  <2>4. \A i \in 1 .. Len(queue') : \E k \in 1 .. Len(queue) : queue'[i] = queue[k]
    BY <1>1, <1>8, DrainIs
  <2>5. \A i \in 1 .. Len(queue') : Applied(queue[i])'
    BY <1>1, <1>3, <1>8, <2>4 DEF Applied
  <2>6. DataPhase'
    BY <1>1, <1>3, <1>4, <1>8, <2>2, <2>5 DEF DataPhase
  <2> QED
    BY <1>1, <1>2, <1>8, <2>3, <2>6 DEF CalmInv, Undisturbed, Part, RootPhase, Copied
<1> QED
  BY <1>6, <1>7, <1>8, CheckItemIs

LEMMA InterruptCalm == ASSUME MapCore, CalmInv, Interrupt PROVE CalmInv'
<1>1. pc' \notin Active
  BY InterruptedCore DEF Interrupt, MapCore, MapTypeOK
<1> QED
  BY <1>1, Inactive DEF Interrupt

LEMMA GiveUpCalm == ASSUME MapCore, CalmInv, GiveUp PROVE CalmInv'
  BY GiveUpCore, Inactive DEF GiveUp

LEMMA MapInvariant == MapSpec => [](MapCore /\ CalmInv)
<1>1. MapInit => MapCore /\ CalmInv
  BY MapInitCore DEF MapInit, CalmInv
<1>2. ASSUME MapCore, CalmInv, [MapNext]_mapVars PROVE MapCore' /\ CalmInv'
  <2>1. CASE UNCHANGED mapVars
    <3>1. CalmInv'
      BY <1>2, <2>1 DEF mapVars, CalmInv, Undisturbed, NewFrames, MapFresh, RootPhase, DataPhase,
                        Applied, Copied
    <3> QED
      BY <1>2, <3>1, MapStepCore
  <2>2. CASE MapNext
    <3>1. CalmInv'
      BY <1>2, <2>2, EditCalm, ReportCalm, SyncCalm, LineListCalm, NamesCalm, ArriveCalm,
         StartRunCalm, AskRootCalm, TakeRootCalm, AskDataCalm, TakeDataCalm, CheckMoreCalm,
         CheckItemCalm, InterruptCalm, GiveUpCalm DEF MapNext
    <3> QED
      BY <1>2, <3>1, MapStepCore
  <2> QED
    BY <1>2, <2>1, <2>2
<1> QED
  BY <1>1, <1>2, PTL DEF MapSpec

\* What the class comment of MapFetchSaga relies on: a frame the saga takes from
\* its queue was applied by the reducer and is still there, whatever is lost, late
\* or repeated, in every run that no edit and no frame of an earlier exchange hit.
THEOREM FramesTakenAreApplied == MapSpec => []TakenIsApplied
<1>1. ASSUME MapCore, CalmInv PROVE TakenIsApplied
  <2> SUFFICES ASSUME calm, NEW f \in Range(queue) \cup {frame}, f.kind = "data"
               PROVE  f.n \in got[f.hash] /\ f.hash \in Hashlist(root)
    BY DEF TakenIsApplied
  <2>1. f \in DataFrames => Applied(f)
    <3>1. CASE f = frame
      BY <1>1, <3>1, NoFrameIs DEF CalmInv, Undisturbed, DataPhase, MapCore, Places
    <3>2. CASE f \in Range(queue)
      <4>1. queue \in Seq(RootFrames \cup DataFrames)
        BY <1>1 DEF MapCore, MapTypeOK
      <4>2. PICK i \in 1 .. Len(queue) : f = queue[i]
        BY <3>2, <4>1, LenProperties DEF Range
      <4>3. CASE pc \in Fetching
        BY <1>1, <4>2, <4>3 DEF CalmInv, Undisturbed, DataPhase
      <4>4. CASE pc = "root"
        BY <1>1, <4>2, <4>4, RootFrameIs DEF MapCore, Places
      <4>5. CASE pc \notin Fetching \cup {"root"}
        BY <1>1, <4>2, <4>5, EmptySeq DEF MapCore, Places
      <4> QED
        BY <4>3, <4>4, <4>5
    <3> QED
      BY <3>1, <3>2
  <2>2. f \in DataFrames
    <3>1. CASE f = frame
      BY <1>1, <3>1, NoFrameIs DEF MapCore, MapTypeOK
    <3>2. CASE f \in Range(queue)
      <4>1. queue \in Seq(RootFrames \cup DataFrames)
        BY <1>1 DEF MapCore, MapTypeOK
      <4>2. f \in RootFrames \cup DataFrames
        BY <3>2, <4>1, ElementOfSeq, LenProperties DEF Range
      <4> QED
        BY <4>2, RootFrameIs
    <3> QED
      BY <3>1, <3>2
  <2>3. f.n \in 1 .. f.n
    BY <2>2, DataFrameIs
  <2> QED
    BY <2>1, <2>2, <2>3 DEF Applied
<1> QED
  BY <1>1, MapInvariant, PTL

-----------------------------------------------------------------------------
(* The copy of the device's map.                                           *)

Phase == IF pc \in Running THEN "running" ELSE pc
CopyAt == [list |-> AreaRoot(root), frames |-> got]
CopySet == [list : SUBSET (Nat \X Hashes), frames : [Hashes -> SUBSET Nat]]
CopyOf(e) == [list |-> AreaOf(e), frames |-> Whole(e)]

LEMMA CopyTyped == ASSUME MapCore PROVE CopyAt \in CopySet /\ edition \in Editions /\ calm \in BOOLEAN
<1>1. AreaRoot(root) \in SUBSET (Nat \X Hashes)
  BY AreaTyped DEF MapCore, Places
<1> QED
  BY <1>1 DEF MapCore, MapTypeOK, CopyAt, CopySet

\* An undisturbed run that has ended holds the copy of the edition.
LEMMA CopiedIs ==
  ASSUME MapCore, CalmInv, calm, pc = "done"
  PROVE  CopyAt = CopyOf(edition) /\ ~ StaleRoot
<1>1. Exact(root, edition) /\ got = Whole(edition) /\ reported = edition
  BY DEF CalmInv, Undisturbed, Copied
<1>2. AreaRoot(root) = AreaOf(edition)
  BY <1>1, WholeList DEF MapCore, MapTypeOK, Places, Matches
<1> QED
  BY <1>1, <1>2 DEF CopyAt, CopyOf, StaleRoot, Matches

\* A step that leaves the device and the history alone, and what it may do to the copy.
CopyStep ==
    \/ edition' = edition /\ Phase' = "running"
    \/ edition' = edition /\ calm' = calm /\ Phase' = Phase
       /\ (CopyAt' = CopyAt \/ Phase # "done")
    \/ calm' = FALSE /\ Phase' = Phase
    \/ edition' = edition /\ calm' = calm /\ Phase = "running" /\ Phase' \in {"done", "failed"}

LEMMA CopySteps ==
  ASSUME MapCore, CalmInv, MapNext, MapCore', CalmInv'
  PROVE  CopyStep
<1>1. CASE Edit
  BY <1>1 DEF Edit, CopyStep, Phase
<1>2. CASE Report
  BY <1>2 DEF Report, Execute, CopyStep, Phase, CopyAt
<1>3. CASE Sync
  BY <1>3 DEF Sync, Execute, CopyStep, Phase
<1>4. CASE LineListArrives
  BY <1>4 DEF LineListArrives, CopyStep, Phase, CopyAt
<1>5. CASE NamesArrive
  <2>1. UNCHANGED <<edition, pc, calm>> /\ StaleRoot
    BY <1>5 DEF NamesArrive
  <2>2. Phase = "done" => ~ calm
    BY <2>1, CopiedIs DEF Phase
  <2>3. calm' \in BOOLEAN
    BY DEF MapCore, MapTypeOK
  <2> QED
    BY <2>1, <2>2, <2>3 DEF CopyStep, Phase
<1>6. CASE \E f \in RootFrames \cup DataFrames : Arrive(f)
  <2>1. UNCHANGED <<edition, pc>> /\ calm' \in {calm, FALSE}
    BY <1>6, CopyTyped DEF Arrive
  <2>2. ASSUME calm', pc = "done" PROVE CopyAt' = CopyAt
    <3>1. calm /\ pc' = "done"
      BY <2>1, <2>2
    <3>2. CopyAt = CopyOf(edition)
      BY <2>2, <3>1, CopiedIs
    <3>3. (CopyAt = CopyOf(edition))'
      <4>1. (Exact(root, edition) /\ got = Whole(edition))'
        BY <2>2, <3>1 DEF CalmInv, Undisturbed, Copied
      <4>2. (AreaRoot(root) = AreaOf(edition))'
        BY <4>1, WholeList DEF MapCore, MapTypeOK, Places, Matches
      <4> QED
        BY <4>1, <4>2 DEF CopyAt, CopyOf
    <3> QED
      BY <2>1, <3>2, <3>3 DEF CopyOf, AreaOf, Whole
  <2>3. calm' \in BOOLEAN
    BY DEF MapCore, MapTypeOK
  <2>4. CASE ~ calm'
    BY <2>1, <2>3, <2>4 DEF CopyStep, Phase
  <2>5. CASE calm' /\ pc = "done"
    BY <2>1, <2>2, <2>5 DEF CopyStep, Phase
  <2>6. CASE calm' /\ pc # "done"
    BY <2>1, <2>6 DEF CopyStep, Phase
  <2> QED
    BY <2>4, <2>5, <2>6
<1>7. CASE StartRun
  BY <1>7 DEF StartRun, CopyStep, Phase
<1>8. CASE AskRoot \/ AskData \/ TakeData \/ CheckMore
  BY <1>8 DEF AskRoot, AskData, TakeData, CheckMore, CopyStep, Phase
<1>9. CASE TakeRoot
  <2>1. pc = "root" /\ UNCHANGED <<edition, calm>> /\ pc' \in {"root", "ask", "done"}
    BY <1>9, TakeRootIs DEF Finish
  <2> QED
    BY <2>1 DEF CopyStep, Phase
<1>10. CASE CheckItem
  <2>1. pc = "check" /\ UNCHANGED <<edition, calm>>
        /\ pc' \in {"data", "ask", "done", "start", "failed"}
    BY <1>10, CheckItemIs DEF Finish, Interrupted
  <2> QED
    BY <2>1 DEF CopyStep, Phase
<1>11. CASE Interrupt
  <2>1. pc \in Running /\ UNCHANGED <<edition, calm>> /\ pc' \in {"start", "failed"}
    BY <1>11 DEF Interrupt, Interrupted
  <2> QED
    BY <2>1 DEF CopyStep, Phase
<1>12. CASE GiveUp
  BY <1>12 DEF GiveUp, CopyStep, Phase
<1> QED
  BY <1>1, <1>2, <1>3, <1>4, <1>5, <1>6, <1>7, <1>8, <1>9, <1>10, <1>11, <1>12 DEF MapNext

\* Refinement: the fetch, frame by frame, over a wire that loses, delays and
\* repeats, with its retries, edits on the device and pushes in between, is one copy
\* of the device's map whenever nothing disturbs it, and claims nothing otherwise.
THEOREM FetchCopies == MapSpec => CopySpec
<1>1. MapInit => Copy!Init
  <2> SUFFICES ASSUME MapInit PROVE Copy!Init
    OBVIOUS
  <2>1. MapCore /\ pc = "idle"
    BY MapInitCore DEF MapInit
  <2>2. CopyAt \in CopySet /\ edition \in Editions /\ calm \in BOOLEAN
    BY <2>1, CopyTyped
  <2> QED
    BY <2>1, <2>2 DEF Copy!Init, Copy!TypeOK, CopyAt, CopySet
<1>2. ASSUME MapCore, CalmInv, [MapNext]_mapVars, MapCore', CalmInv'
      PROVE  [Copy!Next]_(Copy!vars)
  <2>1. CASE UNCHANGED mapVars
    BY <2>1 DEF mapVars, Copy!vars, AreaRoot, Place
  <2>2. CASE MapNext
    <3>1. CopyStep
      BY <1>2, <2>2, CopySteps
    <3>2. CopyAt' \in CopySet /\ edition' \in Editions /\ calm' \in BOOLEAN
      <4>1. (MapCore => CopyAt \in CopySet /\ edition \in Editions /\ calm \in BOOLEAN)'
        BY CopyTyped, PTL
      <4> QED
        BY <1>2, <4>1
    <3>3. CASE edition' = edition /\ Phase' = "running"
      BY <3>2, <3>3 DEF Copy!Next, Copy!Begin, Phase, CopyAt, CopySet
    <3>4. CASE edition' = edition /\ calm' = calm /\ Phase' = Phase /\ CopyAt' = CopyAt
      BY <3>4 DEF Copy!vars, Phase, CopyAt
    <3>5. CASE edition' = edition /\ calm' = calm /\ Phase' = Phase /\ Phase # "done"
      BY <3>2, <3>5 DEF Copy!Next, Copy!Work, Phase, CopyAt, CopySet
    <3>6. CASE calm' = FALSE /\ Phase' = Phase
      BY <3>2, <3>6 DEF Copy!Next, Copy!Disturb, Phase, CopyAt, CopySet
    <3>7. CASE edition' = edition /\ calm' = calm /\ Phase = "running" /\ Phase' = "done"
      <4>1. calm' => CopyAt' = CopyOf(edition')
        <5>1. pc' = "done"
          BY <3>7 DEF Phase
        <5>2. (calm /\ pc = "done" => CopyAt = CopyOf(edition))'
          BY <1>2, CopiedIs, PTL
        <5> QED
          BY <5>1, <5>2
      <4>2. [e \in Editions |-> [list |-> AreaOf(e), frames |-> Whole(e)]][edition] = CopyOf(edition)
        BY <3>2, <3>7 DEF CopyOf
      <4> QED
        BY <3>2, <3>7, <4>1, <4>2 DEF Copy!Next, Copy!Finish, Phase, CopyAt, CopySet, CopyOf
    <3>8. CASE edition' = edition /\ calm' = calm /\ Phase = "running" /\ Phase' = "failed"
      BY <3>2, <3>8 DEF Copy!Next, Copy!Fail, Phase, CopyAt, CopySet
    <3> QED
      BY <3>1, <3>3, <3>4, <3>5, <3>6, <3>7, <3>8 DEF CopyStep
  <2> QED
    BY <1>2, <2>1, <2>2
<1> QED
  BY <1>1, <1>2, MapInvariant, PTL DEF MapSpec, CopySpec, Copy!Spec
=============================================================================
