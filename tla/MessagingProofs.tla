-------------------------- MODULE MessagingProofs --------------------------
(***************************************************************************)
(* Proofs about the messaging layer: the request/response broker (Broker)  *)
(* and the sagas beside the map fetch (FrameSagas).                        *)
(*                                                                         *)
(* Broker, for any calls, fields and number of attempts: the table and the *)
(* calls in flight agree, and no future stays open.  FrameSagas, for any   *)
(* editions of the device's data, number of chunks, attempts and batch     *)
(* size: what a saga hands over when it ends well is one whole.            *)
(***************************************************************************)
EXTENDS Broker, FrameSagas, FiniteSetTheorems, SequenceTheorems, TLAPS

-----------------------------------------------------------------------------
(* The request/response broker.                                            *)

USE BrokerAssumption

\* A call has an open future only while it is in flight, and no future before
\* it is made.
FutureInv ==
    /\ \A c \in Callers : future[c] = "none" => pc[c] \notin Live
    /\ \A c \in Callers : pc[c] = "idle" => future[c] = "none"
    /\ \A c \in Callers : pc[c] = "rejected" => future[c] = "none"

IInv == TypeOK /\ Registered /\ NoOpenFuture /\ OnePerField /\ FutureInv

LEMMA InitIInv == Init => IInv
<1> SUFFICES ASSUME Init PROVE IInv
  OBVIOUS
<1> USE DEF Init, Live, Ended
<1>1. TypeOK
  <2>1. pending \in [Fields -> Callers \cup {Nobody}] /\ attempt \in [Callers -> 0 .. Retries]
    OBVIOUS
  <2>2. pc \in [Callers -> {"idle"} \cup Live \cup Ended]
    OBVIOUS
  <2>3. future \in [Callers -> {"none", "waiting", "resolved", "cancelled"}]
    OBVIOUS
  <2>4. closed \in BOOLEAN
    OBVIOUS
  <2>5. received \in 0 .. MaxMessages /\ emitted \in 0 .. received
    OBVIOUS
  <2>6. QED
    BY ONLY <2>1, <2>2, <2>3, <2>4, <2>5 DEF TypeOK
<1>2. Registered
  <2>1. \A f \in Fields, c \in Callers : pending[f] # c
    OBVIOUS
  <2>2. QED
    BY <2>1 DEF Registered
<1>3. NoOpenFuture /\ OnePerField /\ FutureInv
  BY DEF NoOpenFuture, OnePerField, FutureInv
<1>4. QED
  BY <1>1, <1>2, <1>3 DEF IInv

\* Registering takes a free entry, so the caller owns it.
LEMMA RegisterKeeps ==
  ASSUME IInv, NEW c \in Callers, Register(c)
  PROVE  IInv'
<1> USE DEF Register, Taken, Goto, Live, Ended, IInv, TypeOK
<1>1. TypeOK'
  OBVIOUS
<1>2. Registered'
  BY DEF Registered
<1>3. NoOpenFuture' /\ FutureInv'
  BY DEF NoOpenFuture, FutureInv
<1>4. OnePerField'
  BY DEF OnePerField, Registered
<1>5. QED
  BY <1>1, <1>2, <1>3, <1>4

\* The finally block gives up the entry and closes the future.
LEMMA EndKeeps ==
  ASSUME IInv, NEW c \in Callers, pc[c] \in Live, NEW how \in Ended \ {"rejected"},
         End(c, how)
  PROVE  IInv'
<1> USE DEF End, CleanUp, EntryPopped, MadeDone, Goto, Live, Ended, IInv, TypeOK
<1>1. TypeOK'
  OBVIOUS
<1>2. Registered'
  BY DEF Registered, OnePerField
<1>3. NoOpenFuture' /\ FutureInv'
  BY DEF NoOpenFuture, FutureInv
<1>4. OnePerField'
  BY DEF OnePerField
<1>5. QED
  BY <1>1, <1>2, <1>3, <1>4

\* A call in flight moves on to another await.
LEMMA MoveKeeps ==
  ASSUME IInv, NEW c \in Callers, pc[c] \in Live, NEW l \in Live, Goto(c, l),
         attempt' \in [Callers -> 0 .. Retries],
         UNCHANGED <<pending, future, closed, received, emitted>>
  PROVE  IInv'
<1> USE DEF Goto, Live, Ended, IInv, TypeOK
<1>1. TypeOK'
  OBVIOUS
<1>2. Registered' /\ OnePerField'
  BY DEF Registered, OnePerField
<1>3. NoOpenFuture' /\ FutureInv'
  BY DEF NoOpenFuture, FutureInv
<1>4. QED
  BY <1>1, <1>2, <1>3

\* A second call for a field is turned away before it touches anything.
LEMMA RejectKeeps ==
  ASSUME IInv, NEW c \in Callers, Reject(c)
  PROVE  IInv'
<1> USE DEF Reject, Goto, Live, Ended, IInv, TypeOK
<1>1. TypeOK'
  OBVIOUS
<1>2. Registered' /\ OnePerField'
  BY DEF Registered, OnePerField
<1>3. NoOpenFuture' /\ FutureInv'
  BY DEF NoOpenFuture, FutureInv
<1>4. QED
  BY <1>1, <1>2, <1>3

\* A message resolves one future or goes to the bus.
LEMMA OnMessageKeeps ==
  ASSUME IInv, NEW f \in Fields, OnMessage(f)
  PROVE  IInv'
<1> USE DEF OnMessage, Live, Ended, IInv
<1>1. TypeOK'
  BY DEF TypeOK
<1>2. Registered' /\ OnePerField'
  BY DEF Registered, OnePerField
<1>3. NoOpenFuture' /\ FutureInv'
  BY DEF TypeOK, NoOpenFuture, FutureInv
<1>4. QED
  BY <1>1, <1>2, <1>3

\* close() cancels what was registered; the callers clean up later.
LEMMA CloseKeeps ==
  ASSUME IInv, Close
  PROVE  IInv'
<1> USE DEF Close, Live, Ended, IInv
<1>1. TypeOK' /\ Registered' /\ OnePerField'
  BY DEF TypeOK, Registered, OnePerField
<1>2. NoOpenFuture' /\ FutureInv'
  BY DEF TypeOK, NoOpenFuture, FutureInv
<1>3. QED
  BY <1>1, <1>2

LEMMA NextIInv == IInv /\ [Next]_vars => IInv'
<1> SUFFICES ASSUME IInv, [Next]_vars PROVE IInv'
  OBVIOUS
<1>1. ASSUME NEW c \in Callers, Step(c) \/ SendRaises(c) \/ Deadline(c) \/ CallerCancelled(c)
      PROVE  IInv'
  <2>1. CASE \E how \in Ended \ {"rejected"} : pc[c] \in Live /\ End(c, how)
    BY <2>1, EndKeeps
  <2>2. CASE \E l \in Live : pc[c] \in Live /\ Goto(c, l)
                /\ UNCHANGED <<pending, future, attempt, closed, received, emitted>>
    BY <2>2, MoveKeeps DEF IInv, TypeOK
  <2>3. CASE Retry(c)
    <3>1. attempt' \in [Callers -> 0 .. Retries]
      BY <2>3 DEF Retry, AttemptsLeft, IInv, TypeOK
    <3>2. QED
      BY <2>3, <3>1, MoveKeeps DEF Retry, Live
  <2>4. QED
    BY <1>1, <2>1, <2>2, <2>3
       DEF Step, SendReturns, Wake, GiveUp, SendRaises, Deadline, CallerCancelled, Live, Ended
<1>2. CASE UNCHANGED vars
  BY <1>2 DEF vars, IInv, TypeOK, Registered, NoOpenFuture, OnePerField, FutureInv
<1>3. QED
  BY <1>1, <1>2, RegisterKeeps, RejectKeeps, OnMessageKeeps, CloseKeeps DEF Next

LEMMA Invariance == Spec => []IInv
BY InitIInv, NextIInv, PTL DEF Spec

\* The broker's tables keep their types.
THEOREM TypeCorrect == Spec => []TypeOK
BY Invariance, PTL DEF IInv

\* The pending table and the calls in flight agree at every step, for any
\* number of calls over any fields.
THEOREM TableAgrees == Spec => []Registered
BY Invariance, PTL DEF IInv

\* No call that has ended leaves a future open.
THEOREM FuturesClosed == Spec => []NoOpenFuture
BY Invariance, PTL DEF IInv

\* At most one request per field is in flight.
THEOREM OneRequestPerField == Spec => []OnePerField
BY Invariance, PTL DEF IInv

HIDE BrokerAssumption

-----------------------------------------------------------------------------
(* The sagas: the inductive invariant, by parts.                           *)

\* What the device may have put on the wire, by saga.
Known(f) ==
    \/ /\ kind \in {"stream", "edge"}
       /\ f.of \in Editions /\ f.n \in 1 .. Size[f.of] /\ f = Frame(f.of, f.n)
    \/ /\ kind = "plans"
       /\ f.of \in Editions /\ f.n \in 0 .. Size[f.of] /\ f = Frame(f.of, f.n)
    \/ /\ kind = "svg"
       /\ f.of \in {0, 1} /\ f.n \in 1 .. Chunks /\ f = Reply(f.n, f.of)
    \/ /\ kind = "path"
       /\ f.of \in Editions /\ f = LineFrame(f.of)
    \/ /\ kind = "path"
       /\ f.of \in 1 .. Len(asked) /\ f.n \in 1 .. Len(asked[f.of])
       /\ f = [of |-> f.of, n |-> f.n, total |-> Len(asked[f.of])]

Batch == {b \in Seq(Nat) : Len(b) <= BatchSize}

SagaTypes ==
    /\ kind \in Kinds /\ edition \in Editions /\ stored \in SUBSET (1 .. Chunks)
    /\ old \in SUBSET sent /\ banked \in SUBSET sent /\ cover \in SUBSET sent
    /\ lines \in Editions \cup {0}
    /\ at \in Running \cup {"idle", "done", "failed"}
    /\ index \in Nat /\ total \in Nat
    /\ queue \in Seq(sent) /\ todo \in Seq(Batch) /\ asked \in Seq(Batch)
    /\ first \in 0 .. Len(asked)
    /\ calm \in BOOLEAN /\ paced \in BOOLEAN

Wire == \A f \in sent : Known(f)

\* What holds of the places, for the sagas of every kind.
Places ==
    /\ tries \in 0 .. MaxAttempts[kind]
    /\ at = "start" => tries < MaxAttempts[kind]
    /\ at \in {"begin", "lines", "route"} => kind = "path"
    /\ at \notin {"lines", "ask", "wait"} => queue = <<>>
    /\ at \notin {"ask", "wait"} => todo = <<>>
    /\ at = "ask" /\ kind = "path" => todo # <<>>
    /\ at \in {"ask", "wait"} /\ kind = "svg" => index \in 1 .. Chunks

\* The frames of this run that have not come yet.
Fresh == sent \ old

WholeOf(e) == {Frame(e, n) : n \in 1 .. Size[e]}

EdgeInv ==
    kind = "edge" /\ at = "done" => \E e \in Editions : Size[e] > 0 /\ WholeOf(e) \subseteq banked

StreamInv ==
    kind = "stream" /\ calm =>
        /\ \A f \in Fresh \cup banked : f.of = edition
        /\ \A i \in 1 .. Len(queue) : queue[i].of = edition
        /\ at = "done" => banked = WholeOf(edition)

\* One frame of A is asked for: it is on its way, or it waits.
Pending(A) ==
    \/ queue = <<>> /\ \E a \in A : Fresh \subseteq {a}
    \/ Fresh = {} /\ \E a \in A : queue = <<a>>

PlanInv ==
    kind = "plans" /\ calm =>
        /\ at = "ask" => Fresh = {} /\ queue = <<>>
        /\ at = "wait" => Pending({Frame(edition, index)})
        /\ at \in {"ask", "wait"} =>
               /\ banked = {Frame(edition, n) : n \in 0 .. index - 1}
               /\ index > 0 => index < Size[edition] /\ total = Size[edition]
        /\ at = "done" => banked = {Frame(edition, n) : n \in 0 .. Size[edition] - 1}

SvgInv ==
    kind = "svg" /\ calm =>
        /\ at = "ask" => Fresh = {} /\ queue = <<>>
        /\ at = "wait" => Pending({Reply(index, 0), Reply(index, 1)})
        /\ at = "wait" /\ (Reply(index, 0) \in Fresh \/ queue = <<Reply(index, 0)>>) =>
               index \in stored
        /\ at \in {"ask", "wait"} => 1 .. index - 1 \subseteq stored
        /\ at = "done" => 1 .. Chunks \subseteq stored /\ banked = {Reply(Chunks, 0)}

\* What is in the map has come, and what has not come is of this run.
CoverInv ==
    kind = "path" =>
        /\ \A f \in cover : f \in old /\ f.n > 0
        /\ \A f \in Fresh : f.n > 0 => f.of > first

\* In an undisturbed run the list of the map is the device's.
LinesInv ==
    kind = "path" /\ calm =>
        /\ \A f \in Fresh : f.n = 0 => f.of = edition
        /\ at \in {"begin", "lines", "route"} => \A f \in Fresh : f.n = 0
        /\ at = "lines" /\ queue # <<>> => lines = edition
        /\ at \in {"route", "ask", "wait", "done"} => lines = edition

In(h, b) == \E n \in 1 .. Len(b) : b[n] = h

\* One frame at a time: a batch is whole before the next one is asked for.
BatchInv ==
    kind = "path" /\ calm /\ paced =>
        /\ at = "ask" => queue = <<>> /\ \A f \in Fresh : f.n = 0
        /\ at = "wait" =>
               /\ Len(queue) <= 1 /\ first < Len(asked)
               /\ \A i \in 1 .. Len(queue) : queue[i] \in cover /\ queue[i].of = Len(asked)
               /\ \A f \in Fresh : f.n > 0 => f.of = Len(asked)
        /\ at \in {"ask", "wait"} =>
               \A h \in 1 .. Size[edition] :
                   \/ Covered(h)
                   \/ \E i \in 1 .. Len(todo) : In(h, todo[i])
                   \/ at = "wait" /\ In(h, asked[Len(asked)])
        /\ at = "done" => \A h \in 1 .. Size[edition] : Covered(h)

-----------------------------------------------------------------------------

\* SetToSeq lists each member of a finite set.
LEMMA SetAsSeq ==
  ASSUME NEW S, IsFiniteSet(S)
  PROVE  /\ SetToSeq(S) \in Seq(S)
         /\ SetToSeq(S) = <<>> => S = {}
         /\ \A x \in S : \E j \in 1 .. Len(SetToSeq(S)) : SetToSeq(S)[j] = x
<1> DEFINE n == Cardinality(S)
           s == SetToSeq(S)
<1>1. n \in Nat /\ ExistsBijection(1 .. n, S)
  BY FS_CardinalityType
<1>2. \E f \in [1 .. n -> S] : IsInjective(f)
  BY <1>1 DEF ExistsBijection, Bijection, Injection
<1>3. s \in [1 .. n -> S] /\ IsInjective(s)
  BY <1>2 DEF SetToSeq
<1>4. s \in Injection(1 .. n, S)
  BY <1>3 DEF Injection
<1>5. Cardinality(1 .. n) = n
  BY <1>1, FS_Interval
<1>6. s \in Surjection(1 .. n, S)
  BY <1>4, <1>5, FS_Injection
<1>7. s \in Seq(S) /\ Len(s) = n
  BY <1>1, <1>3, SeqDef, LenProperties
<1>8. \A x \in S : \E j \in 1 .. n : s[j] = x
  BY <1>6 DEF Surjection
<1>9. s = <<>> => S = {}
  BY <1>1, <1>7, FS_EmptySet, EmptySeq
<1>10. QED
  BY <1>7, <1>8, <1>9

\* The quotient and the multiples of the batch size.
LEMMA Quotient ==
  ASSUME NEW a \in Nat, NEW b \in Nat \ {0}
  PROVE  /\ a \div b \in Nat
         /\ (a \div b) * b <= a /\ a < (a \div b + 1) * b
         /\ \A i \in Nat : i * b <= a => i <= a \div b
<1>1. a \div b \in Nat /\ (a \div b) * b <= a /\ a < (a \div b + 1) * b
  OBVIOUS
<1>2. ASSUME NEW i \in Nat, i * b <= a, i > a \div b PROVE FALSE
  <2>1. i >= a \div b + 1
    BY <1>1, <1>2
  <2>2. i * b >= (a \div b + 1) * b
    BY <1>1, <2>1
  <2>3. QED
    BY <1>1, <1>2, <2>2
<1>3. QED
  BY <1>1, <1>2

\* The batches are cut from the whole of m, none longer than the batch size.
LEMMA BatchesCover ==
  ASSUME NEW m \in Seq(Nat)
  PROVE  /\ Batches(m) \in Seq(Batch)
         /\ m # <<>> => Batches(m) # <<>>
         /\ \A j \in 1 .. Len(m) : \E i \in 1 .. Len(Batches(m)) : In(m[j], Batches(m)[i])
<1> DEFINE L == Len(m)
           B == BatchSize
           k == (L + B - 1) \div B
           lo(i) == (i - 1) * B + 1
           hi(i) == IF i * B < L THEN i * B ELSE L
           part(i) == SubSeq(m, lo(i), hi(i))
           whole == [i \in 1 .. k |-> part(i)]
<1>1. L \in Nat /\ B \in Nat \ {0} /\ L + B - 1 \in Nat
  BY LenProperties, SagaAssumption
<1>2. k \in Nat /\ \A i \in Nat : i * B <= L + B - 1 => i <= k
  <2> DEFINE a == L + B - 1
  <2> HIDE DEF a
  <2>1. a \div B \in Nat /\ \A i \in Nat : i * B <= a => i <= a \div B
    BY <1>1, Quotient DEF a
  <2>2. QED
    BY <2>1 DEF a
<1>3. Batches(m) = whole
  BY DEF Batches
<1>4. ASSUME NEW i \in 1 .. k
      PROVE  /\ lo(i) \in Nat \ {0} /\ hi(i) \in Nat /\ hi(i) <= L /\ hi(i) <= i * B
             /\ part(i) \in Seq(Nat) /\ Len(part(i)) = (IF lo(i) <= hi(i) THEN hi(i) - lo(i) + 1 ELSE 0)
             /\ \A j \in 1 .. hi(i) - lo(i) + 1 : part(i)[j] = m[lo(i) + j - 1]
  <2>1. (i - 1) * B \in Nat /\ i * B \in Nat /\ i * B = (i - 1) * B + B
    BY <1>1, <1>2
  <2>2. lo(i) \in Nat \ {0} /\ hi(i) \in Nat /\ hi(i) <= L /\ hi(i) <= i * B
    BY <1>1, <2>1
  <2>3. \A j \in lo(i) .. hi(i) : m[j] \in Nat
    BY <1>1, <2>2, ElementOfSeq
  <2> HIDE DEF lo, hi
  <2>4. QED
    BY <2>2, <2>3, SubSeqProperties
<1>5. ASSUME NEW i \in 1 .. k PROVE part(i) \in Batch
  <2>1. i * B = (i - 1) * B + B
    BY <1>1, <1>2
  <2>2. Len(part(i)) <= B
    BY <1>1, <1>4, <2>1
  <2>3. QED
    BY <1>4, <2>2 DEF Batch
<1> HIDE DEF part
<1>6. whole \in [1 .. k -> Batch]
  BY <1>5
<1> HIDE DEF k
<1>7. whole \in Seq(Batch) /\ Len(whole) = k
  <2>1. \A w : w \in [1 .. k -> Batch] => w \in Seq(Batch) /\ Len(w) = k
    BY <1>2, SeqDef, LenProperties
  <2>2. QED
    BY <1>6, <2>1
<1>8. ASSUME NEW j \in 1 .. L PROVE \E i \in 1 .. k : In(m[j], part(i))
  <2> DEFINE q == (j - 1) \div B
             i == q + 1
  <2>1. j - 1 \in Nat
    BY <1>1
  <2>2. q \in Nat /\ q * B <= j - 1 /\ j - 1 < (q + 1) * B
    BY <1>1, <2>1, Quotient
  <2> HIDE DEF q
  <2>3. i * B <= L + B - 1
    BY <1>1, <2>2
  <2>4. i <= k
    BY <1>2, <2>2, <2>3
  <2>5. i \in 1 .. k
    BY <2>2, <2>4, <1>2
  <2>6. lo(i) <= j /\ j <= hi(i)
    <3>1. (i - 1) * B = q * B /\ q * B \in Nat /\ i * B \in Nat
      BY <1>1, <2>2
    <3>2. QED
      BY <1>1, <2>2, <3>1
  <2> HIDE DEF lo, hi
  <2> DEFINE x == j - lo(i) + 1
  <2>7. /\ lo(i) \in Nat \ {0} /\ hi(i) \in Nat
        /\ Len(part(i)) = (IF lo(i) <= hi(i) THEN hi(i) - lo(i) + 1 ELSE 0)
        /\ \A y \in 1 .. hi(i) - lo(i) + 1 : part(i)[y] = m[lo(i) + y - 1]
    BY <1>4, <2>5
  <2>8. x \in 1 .. Len(part(i)) /\ x \in 1 .. hi(i) - lo(i) + 1 /\ lo(i) + x - 1 = j
    BY <1>1, <2>6, <2>7
  <2> HIDE DEF x, i
  <2>9. part(i)[x] = m[j]
    BY <2>7, <2>8
  <2>10. QED
    BY <2>5, <2>8, <2>9 DEF In
<1>9. ASSUME m # <<>> PROVE k >= 1
  <2>1. L >= 1
    BY <1>1, <1>9, EmptySeq
  <2>2. 1 * B <= L + B - 1
    BY <1>1, <2>1
  <2>3. QED
    BY <1>2, <2>2
<1>10. \A i \in 1 .. k : whole[i] = part(i)
  OBVIOUS
<1> HIDE DEF whole
<1>11. m # <<>> => whole # <<>>
  BY <1>7, <1>9, EmptySeq
<1>12. QED
  BY <1>3, <1>7, <1>8, <1>10, <1>11

-----------------------------------------------------------------------------
(* Types, wire and places.                                                 *)

Core == SagaTypes /\ Wire /\ Places

LEMMA SizeType == \A e \in Editions : Size[e] \in Nat
<1>1. Size \in Seq(Nat)
  BY SagaAssumption
<1>2. QED
  BY <1>1, LenProperties, ElementOfSeq DEF Editions

LEMMA CoreInit == SagaInit => Core
<1> SUFFICES ASSUME SagaInit PROVE Core
  OBVIOUS
<1> USE DEF SagaInit
<1>1. kind \in Kinds /\ MaxAttempts[kind] \in Nat \ {0}
  BY SagaAssumption
<1>2. <<>> \in Seq(sent) /\ <<>> \in Seq(Batch) /\ Len(<<>>) = 0
  BY EmptySeq
<1>3. SagaTypes
  <2>1. calm \in BOOLEAN /\ paced \in BOOLEAN
    OBVIOUS
  <2>2. first \in 0 .. Len(asked)
    BY <1>2
  <2>3. queue \in Seq(sent) /\ todo \in Seq(Batch) /\ asked \in Seq(Batch)
    BY <1>2
  <2>4. at \in Running \cup {"idle", "done", "failed"}
    OBVIOUS
  <2>5. QED
    BY <1>1, <2>1, <2>2, <2>3, <2>4 DEF SagaTypes
<1>4. Wire
  BY DEF Wire
<1>5. Places
  BY <1>1 DEF Places
<1>6. QED
  BY <1>3, <1>4, <1>5 DEF Core

\* What comes onto the wire when the frames F are answered.
LEMMA AnswerGrows ==
  ASSUME SagaTypes, NEW F, Answer(F)
  PROVE  /\ sent \subseteq sent' /\ sent' \subseteq sent \cup F
         /\ old' \in SUBSET sent' /\ old' \subseteq old
         /\ Fresh' \subseteq Fresh \cup F
         /\ banked \in SUBSET sent' /\ cover \in SUBSET sent'
         /\ queue \in Seq(sent')
<1>1. sent \subseteq sent' /\ sent' \subseteq sent \cup F
  BY DEF Answer, Put, SagaTypes
<1>2. queue \in Seq(sent')
  BY <1>1, SeqMonotonic DEF SagaTypes
<1>3. QED
  BY <1>1, <1>2 DEF Answer, Put, SagaTypes, Fresh

\* The first frame of the queue and the rest of it.
LEMMA QueueHead ==
  ASSUME SagaTypes, queue # <<>>
  PROVE  /\ Head1 \in sent /\ Tail(queue) \in Seq(sent)
         /\ Len(queue) \in Nat \ {0} /\ Head1 = queue[1]
         /\ Len(Tail(queue)) = Len(queue) - 1
         /\ \A i \in 1 .. Len(Tail(queue)) : Tail(queue)[i] = queue[i + 1]
<1>1. QED
  BY HeadTailProperties, LenProperties, EmptySeq DEF SagaTypes, Head1

LEMMA EditCore == Core /\ Edit => Core'
<1> SUFFICES ASSUME Core, Edit PROVE Core'
  OBVIOUS
<1> USE DEF Core, Edit, device, map, path, run
<1>1. SagaTypes'
  BY EmptySeq, SagaAssumption DEF SagaTypes, Running, Waiting
<1>2. Wire'
  BY DEF Wire, Known
<1>3. Places'
  BY SagaAssumption DEF Places, SagaTypes, Running, Waiting
<1>4. QED
  BY <1>1, <1>2, <1>3

LEMMA JobEndsCore == Core /\ JobEnds => Core'
<1> SUFFICES ASSUME Core, JobEnds PROVE Core'
  OBVIOUS
<1> USE DEF Core, JobEnds, device, map, path, run
<1>1. SagaTypes'
  BY EmptySeq, SagaAssumption DEF SagaTypes, Running, Waiting
<1>2. Wire'
  BY DEF Wire, Known
<1>3. Places'
  BY SagaAssumption DEF Places, SagaTypes, Running, Waiting
<1>4. QED
  BY <1>1, <1>2, <1>3

LEMMA ExecuteCore == Core /\ Execute => Core'
<1> SUFFICES ASSUME Core, Execute PROVE Core'
  OBVIOUS
<1> USE DEF Core, Execute, device, map, path, run
<1>1. SagaTypes'
  BY EmptySeq, SagaAssumption DEF SagaTypes, Running, Waiting
<1>2. Wire'
  BY DEF Wire, Known
<1>3. Places'
  BY SagaAssumption DEF Places, SagaTypes, Running, Waiting
<1>4. QED
  BY <1>1, <1>2, <1>3

LEMMA StartRunCore == Core /\ StartRun => Core'
<1> SUFFICES ASSUME Core, StartRun PROVE Core'
  OBVIOUS
<1> USE DEF Core, StartRun, device, map, path, run
<1>1. SagaTypes'
  BY EmptySeq, SagaAssumption DEF SagaTypes, Running, Waiting
<1>2. Wire'
  BY DEF Wire, Known
<1>3. Places'
  BY SagaAssumption DEF Places, SagaTypes, Running, Waiting
<1>4. QED
  BY <1>1, <1>2, <1>3

LEMMA InterruptCore == Core /\ Interrupt => Core'
<1> SUFFICES ASSUME Core, Interrupt PROVE Core'
  OBVIOUS
<1> USE DEF Core, Interrupt, device, map, path, run, Interrupted, Leave, Spent
<1>1. SagaTypes'
  BY EmptySeq, SagaAssumption DEF SagaTypes, Running, Waiting
<1>2. Wire'
  BY DEF Wire, Known
<1>3. Places'
  BY SagaAssumption DEF Places, SagaTypes, Running, Waiting
<1>4. QED
  BY <1>1, <1>2, <1>3

LEMMA SagaGivesUpCore == Core /\ SagaGivesUp => Core'
<1> SUFFICES ASSUME Core, SagaGivesUp PROVE Core'
  OBVIOUS
<1> USE DEF Core, SagaGivesUp, device, map, path, run, Leave
<1>1. SagaTypes'
  BY EmptySeq, SagaAssumption DEF SagaTypes, Running, Waiting
<1>2. Wire'
  BY DEF Wire, Known
<1>3. Places'
  BY SagaAssumption DEF Places, SagaTypes, Running, Waiting
<1>4. QED
  BY <1>1, <1>2, <1>3

LEMMA AskStreamCore == Core /\ AskStream => Core'
<1> SUFFICES ASSUME Core, AskStream PROVE Core'
  OBVIOUS
<1> USE DEF Core, AskStream, device, map, path, run
<1> DEFINE F == {Frame(edition, n) : n \in {1} \cap 1 .. Size[edition]}
<1>1. Answer(F) /\ \A f \in F : Known(f)'
  BY SizeType DEF SagaTypes, Known, Frame
<1> HIDE DEF F
<1>2. /\ sent' \subseteq sent \cup F /\ old' \in SUBSET sent' /\ banked \in SUBSET sent'
      /\ cover \in SUBSET sent' /\ queue \in Seq(sent')
  BY <1>1, AnswerGrows
<1>3. SagaTypes'
  BY <1>1, <1>2, EmptySeq, SagaAssumption DEF SagaTypes, Running, Waiting
<1>4. Wire'
  BY <1>1, <1>2, SizeType DEF Wire, Known
<1>5. Places'
  BY <1>1, <1>2, SagaAssumption DEF Places, SagaTypes, Running, Waiting
<1>6. QED
  BY <1>3, <1>4, <1>5

LEMMA AskEdgeCore == Core /\ AskEdge => Core'
<1> SUFFICES ASSUME Core, AskEdge PROVE Core'
  OBVIOUS
<1> USE DEF Core, AskEdge, device, map, path, run
<1> DEFINE F == {Frame(edition, n) : n \in {1} \cap 1 .. Size[edition]}
<1>1. Answer(F) /\ \A f \in F : Known(f)'
  BY SizeType DEF SagaTypes, Known, Frame
<1> HIDE DEF F
<1>2. /\ sent' \subseteq sent \cup F /\ old' \in SUBSET sent' /\ banked \in SUBSET sent'
      /\ cover \in SUBSET sent' /\ queue \in Seq(sent')
  BY <1>1, AnswerGrows
<1>3. SagaTypes'
  BY <1>1, <1>2, EmptySeq, SagaAssumption DEF SagaTypes, Running, Waiting
<1>4. Wire'
  BY <1>1, <1>2, SizeType DEF Wire, Known
<1>5. Places'
  BY <1>1, <1>2, SagaAssumption DEF Places, SagaTypes, Running, Waiting
<1>6. QED
  BY <1>3, <1>4, <1>5

LEMMA WalkUnsureCore == Core /\ WalkUnsure => Core'
<1> SUFFICES ASSUME Core, WalkUnsure PROVE Core'
  OBVIOUS
<1> USE DEF Core, WalkUnsure, device, map, path, run, Interrupted, Leave, Spent
<1> DEFINE F == {Frame(edition, n) : n \in {1} \cap 1 .. Size[edition]}
<1>1. Answer(F) /\ \A f \in F : Known(f)'
  BY SizeType DEF SagaTypes, Known, Frame
<1> HIDE DEF F
<1>2. /\ sent' \subseteq sent \cup F /\ old' \in SUBSET sent' /\ banked \in SUBSET sent'
      /\ cover \in SUBSET sent' /\ queue \in Seq(sent')
  BY <1>1, AnswerGrows
<1>3. SagaTypes'
  BY <1>1, <1>2, EmptySeq, SagaAssumption DEF SagaTypes, Running, Waiting
<1>4. Wire'
  BY <1>1, <1>2, SizeType DEF Wire, Known
<1>5. Places'
  BY <1>1, <1>2, SagaAssumption DEF Places, SagaTypes, Running, Waiting
<1>6. QED
  BY <1>3, <1>4, <1>5

LEMMA AskPlanCore == Core /\ AskPlan => Core'
<1> SUFFICES ASSUME Core, AskPlan PROVE Core'
  OBVIOUS
<1> USE DEF Core, AskPlan, device, map, path, run
<1> DEFINE F == IF index < Size[edition] \/ index = 0 THEN {Frame(edition, index)} ELSE {}
<1>1. Answer(F) /\ \A f \in F : Known(f)'
  BY SizeType DEF SagaTypes, Known, Frame
<1> HIDE DEF F
<1>2. /\ sent' \subseteq sent \cup F /\ old' \in SUBSET sent' /\ banked \in SUBSET sent'
      /\ cover \in SUBSET sent' /\ queue \in Seq(sent')
  BY <1>1, AnswerGrows
<1>3. SagaTypes'
  BY <1>1, <1>2, EmptySeq, SagaAssumption DEF SagaTypes, Running, Waiting
<1>4. Wire'
  BY <1>1, <1>2, SizeType DEF Wire, Known
<1>5. Places'
  BY <1>1, <1>2, SagaAssumption DEF Places, SagaTypes, Running, Waiting
<1>6. QED
  BY <1>3, <1>4, <1>5

LEMMA AskLinesCore == Core /\ AskLines => Core'
<1> SUFFICES ASSUME Core, AskLines PROVE Core'
  OBVIOUS
<1> USE DEF Core, AskLines, device, map, path, run
<1> DEFINE F == {LineFrame(edition)}
<1>1. Answer(F) /\ \A f \in F : Known(f)'
  BY SizeType DEF SagaTypes, Known, LineFrame, Places
<1> HIDE DEF F
<1>2. /\ sent' \subseteq sent \cup F /\ old' \in SUBSET sent' /\ banked \in SUBSET sent'
      /\ cover \in SUBSET sent' /\ queue \in Seq(sent')
  BY <1>1, AnswerGrows
<1>3. SagaTypes'
  BY <1>1, <1>2, EmptySeq, SagaAssumption DEF SagaTypes, Running, Waiting
<1>4. Wire'
  BY <1>1, <1>2, SizeType DEF Wire, Known
<1>5. Places'
  BY <1>1, <1>2, SagaAssumption DEF Places, SagaTypes, Running, Waiting
<1>6. QED
  BY <1>3, <1>4, <1>5

\* A frame of the wire arrives.
LEMMA ArriveCore ==
  ASSUME Core, NEW f \in sent, Arrive(f)
  PROVE  Core'
<1> USE DEF Core, Arrive, device, map, path, run
<1>1. queue' \in Seq(sent) /\ (~ Wanted(f) => queue' = queue)
  <2>1. Append(queue, f) \in Seq(sent)
    BY AppendProperties DEF SagaTypes
  <2>2. queue' = (IF Wanted(f) THEN Append(queue, f) ELSE queue)
    OBVIOUS
  <2>3. QED
    BY <2>1, <2>2 DEF SagaTypes
<1>2. kind = "path" /\ f.n = 0 => f.of \in Editions
  <2>1. \A t \in 1 .. Len(asked) : Len(asked[t]) \in Nat
    BY ElementOfSeq, LenProperties DEF SagaTypes, Batch
  <2>2. QED
    BY <2>1 DEF Wire, Known
<1>3. calm' \in BOOLEAN /\ paced' \in BOOLEAN
  <2>1. (calm /\ f \notin old) \in BOOLEAN /\ (paced /\ queue = <<>>) \in BOOLEAN
    OBVIOUS
  <2>2. QED
    BY <2>1
<1>4. old' \in SUBSET sent
  BY DEF SagaTypes
<1>5. SagaTypes'
  BY <1>1, <1>2, <1>3, <1>4 DEF SagaTypes
<1>6. Wire'
  BY DEF Wire, Known
<1>7. Places'
  BY <1>1 DEF Places, SagaTypes, Wanted
<1>8. QED
  BY <1>5, <1>6, <1>7

LEMMA TakeStreamCore == Core /\ TakeStream => Core'
<1> SUFFICES ASSUME Core, TakeStream PROVE Core'
  OBVIOUS
<1> USE DEF Core, TakeStream, device, map, path, run, Done, Leave, Next1, Idle
<1>1. /\ Head1 \in sent /\ Tail(queue) \in Seq(sent)
      /\ Len(queue) \in Nat \ {0}
  BY QueueHead
<1>2. Answer(After(Head1)) /\ \A f \in After(Head1) : Known(f)'
  BY <1>1, SizeType DEF SagaTypes, Wire, Known, After, Frame
<1>3. /\ sent' \subseteq sent \cup After(Head1) /\ sent \subseteq sent' /\ old' \in SUBSET sent'
      /\ banked \in SUBSET sent' /\ cover \in SUBSET sent' /\ queue \in Seq(sent')
  BY <1>2, AnswerGrows
<1>4. Tail(queue) \in Seq(sent')
  BY <1>1, <1>3, SeqMonotonic
<1>5. SagaTypes'
  BY <1>1, <1>2, <1>3, <1>4, EmptySeq, SagaAssumption DEF SagaTypes, Running, Waiting
<1>6. Wire'
  BY <1>1, <1>2, <1>3, <1>4, SizeType DEF Wire, Known
<1>7. Places'
  BY <1>1, <1>2, <1>3, <1>4, SagaAssumption DEF Places, SagaTypes, Running, Waiting
<1>8. QED
  BY <1>5, <1>6, <1>7

LEMMA TakeEdgeCore == Core /\ TakeEdge => Core'
<1> SUFFICES ASSUME Core, TakeEdge PROVE Core'
  OBVIOUS
<1> USE DEF Core, TakeEdge, device, map, path, run, Done, Leave, Next1, Idle
<1>1. /\ Head1 \in sent /\ Tail(queue) \in Seq(sent)
      /\ Len(queue) \in Nat \ {0}
  BY QueueHead
<1>2. Answer(After(Head1)) /\ \A f \in After(Head1) : Known(f)'
  BY <1>1, SizeType DEF SagaTypes, Wire, Known, After, Frame
<1>3. /\ sent' \subseteq sent \cup After(Head1) /\ sent \subseteq sent' /\ old' \in SUBSET sent'
      /\ banked \in SUBSET sent' /\ cover \in SUBSET sent' /\ queue \in Seq(sent')
  BY <1>2, AnswerGrows
<1>4. Tail(queue) \in Seq(sent')
  BY <1>1, <1>3, SeqMonotonic
<1>5. SagaTypes'
  BY <1>1, <1>2, <1>3, <1>4, EmptySeq, SagaAssumption DEF SagaTypes, Running, Waiting
<1>6. Wire'
  BY <1>1, <1>2, <1>3, <1>4, SizeType DEF Wire, Known
<1>7. Places'
  BY <1>1, <1>2, <1>3, <1>4, SagaAssumption DEF Places, SagaTypes, Running, Waiting
<1>8. QED
  BY <1>5, <1>6, <1>7

LEMMA TakePlanCore == Core /\ TakePlan => Core'
<1> SUFFICES ASSUME Core, TakePlan PROVE Core'
  OBVIOUS
<1> USE DEF Core, TakePlan, device, map, path, run, Done, Leave, Next1, Idle, FirstTotal
<1>1. /\ Head1 \in sent /\ Tail(queue) \in Seq(sent)
      /\ Len(queue) \in Nat \ {0}
  BY QueueHead
<1>2. total' \in Nat
  BY <1>1, SizeType DEF SagaTypes, Wire, Known, Frame
<1>3. banked' \in SUBSET sent
  BY <1>1 DEF SagaTypes
<1>4. /\ queue' \in Seq(sent') /\ todo' \in Seq(Batch) /\ index' \in Nat
      /\ at' \in {"ask", "done"}
  <2>1. \/ queue' = <<>> /\ todo' = <<>> /\ index' = index
        \/ queue' = Tail(queue) /\ todo' = todo /\ index' = index + 1
    BY DEF UpTo
  <2>2. at' \in {"ask", "done"}
    BY DEF UpTo
  <2>3. <<>> \in Seq(sent) /\ <<>> \in Seq(Batch)
    BY EmptySeq
  <2>4. sent' = sent
    OBVIOUS
  <2>5. queue' \in Seq(sent) /\ todo' \in Seq(Batch)
    BY ONLY Core, <1>1, <2>1, <2>3 DEF Core, SagaTypes
  <2>6. index' \in Nat
    BY ONLY Core, <2>1 DEF Core, SagaTypes
  <2>7. QED
    BY ONLY <2>2, <2>4, <2>5, <2>6
<1>5. SagaTypes'
  BY <1>2, <1>3, <1>4 DEF SagaTypes, Running, Waiting
<1>6. Wire'
  BY <1>1, SizeType DEF Wire, Known
<1>7. Places'
  BY <1>1, SizeType, SagaAssumption DEF Places, SagaTypes, Running, Waiting
<1>8. QED
  BY <1>5, <1>6, <1>7

LEMMA TakeReplyCore == Core /\ TakeReply => Core'
<1> SUFFICES ASSUME Core, TakeReply PROVE Core'
  OBVIOUS
<1> USE DEF Core, TakeReply, device, map, path, run, Done, Leave, Next1, Idle
<1>1. /\ Head1 \in sent /\ Tail(queue) \in Seq(sent)
      /\ Len(queue) \in Nat \ {0}
  BY QueueHead
<1>2. banked' \in SUBSET sent
  BY <1>1 DEF SagaTypes
<1>3. /\ queue' \in Seq(sent') /\ todo' \in Seq(Batch) /\ index' \in Nat
      /\ at' \in {"ask", "done", "failed"}
  <2>1. \/ queue' = <<>> /\ todo' = <<>> /\ index' = index
        \/ queue' = Tail(queue) /\ todo' = todo /\ index' = index + 1
    BY DEF Accepted
  <2>2. at' \in {"ask", "done", "failed"}
    BY DEF Accepted
  <2>3. <<>> \in Seq(sent) /\ <<>> \in Seq(Batch)
    BY EmptySeq
  <2>4. sent' = sent
    OBVIOUS
  <2>5. queue' \in Seq(sent) /\ todo' \in Seq(Batch)
    BY ONLY Core, <1>1, <2>1, <2>3 DEF Core, SagaTypes
  <2>6. index' \in Nat
    BY ONLY Core, <2>1 DEF Core, SagaTypes
  <2>7. QED
    BY ONLY <2>2, <2>4, <2>5, <2>6
<1>4. SagaTypes'
  BY <1>2, <1>3 DEF SagaTypes, Running, Waiting
<1>5. Wire'
  BY <1>1, SizeType DEF Wire, Known
<1>6. Places'
  BY <1>1, SagaAssumption DEF Places, SagaTypes, Running, Waiting
<1>7. QED
  BY <1>4, <1>5, <1>6

LEMMA SendChunkCore == Core /\ SendChunk => Core'
<1> SUFFICES ASSUME Core, SendChunk PROVE Core'
  OBVIOUS
<1> USE DEF Core, SendChunk, device, map, path, run
<1>1. index \in 1 .. Chunks
  BY DEF Places
<1>2. queue \in Seq(sent')
  BY SeqMonotonic DEF SagaTypes, Put
<1>3. SagaTypes'
  BY <1>1, <1>2, EmptySeq, SagaAssumption DEF SagaTypes, Running, Waiting, Put
<1>4. Wire'
  BY <1>1, <1>2, SizeType DEF Wire, Known, Put, Reply
<1>5. Places'
  BY <1>1, <1>2, SagaAssumption DEF Places, SagaTypes, Running, Waiting
<1>6. QED
  BY <1>3, <1>4, <1>5

LEMMA ResidualCore == Core /\ Residual => Core'
<1> SUFFICES ASSUME Core, Residual PROVE Core'
  OBVIOUS
<1> USE DEF Core, Residual, device, map, path, run, Next1
<1>1. /\ Head1 \in sent /\ Tail(queue) \in Seq(sent)
      /\ Len(queue) \in Nat \ {0}
  BY QueueHead
<1>2. SagaTypes'
  BY <1>1, EmptySeq, SagaAssumption DEF SagaTypes, Running, Waiting
<1>3. Wire'
  BY <1>1, SizeType DEF Wire, Known
<1>4. Places'
  BY <1>1, SagaAssumption DEF Places, SagaTypes, Running, Waiting
<1>5. QED
  BY <1>2, <1>3, <1>4

LEMMA TakeCoverCore == Core /\ TakeCover => Core'
<1> SUFFICES ASSUME Core, TakeCover PROVE Core'
  OBVIOUS
<1> USE DEF Core, TakeCover, device, map, path, run, Next1, Interrupted, Leave, Spent, Done
<1>1. /\ Head1 \in sent /\ Tail(queue) \in Seq(sent)
      /\ Len(queue) \in Nat \ {0}
  BY QueueHead
<1>2. SagaTypes'
  BY <1>1, EmptySeq, SagaAssumption DEF SagaTypes, Running, Waiting
<1>3. Wire'
  BY <1>1, SizeType DEF Wire, Known
<1>4. Places'
  BY <1>1, SagaAssumption DEF Places, SagaTypes, Running, Waiting
<1>5. QED
  BY <1>2, <1>3, <1>4

\* A fetch ends when nothing is missing, and puts all that is into the batches.
LEMMA FetchStep ==
  ASSUME Core, Fetch
  PROVE  /\ queue' = <<>> /\ todo' \in Seq(Batch) /\ at' \in {"ask", "done"}
         /\ at' = "done" => todo' = <<>> /\ \A h \in Hashes : Covered(h)
         /\ at' = "ask" =>
                /\ todo' # <<>>
                /\ \A h \in Hashes : Covered(h) \/ \E i \in 1 .. Len(todo') : In(h, todo'[i])
<1> DEFINE M == {h \in Hashes : ~ Cached(h)}
           m == SetToSeq(M)
<1>1. Hashes \subseteq Nat /\ IsFiniteSet(Hashes)
  <2>1. CASE lines = 0
    BY <2>1, FS_EmptySet DEF Hashes
  <2>2. CASE lines # 0
    <3>1. Size[lines] \in Nat
      BY <2>2, SizeType DEF Core, SagaTypes
    <3>2. IsFiniteSet(1 .. Size[lines])
      BY <3>1, FS_Interval
    <3>3. QED
      BY <2>2, <3>1, <3>2 DEF Hashes
  <2>3. QED
    BY <2>1, <2>2
<1>2. M \in SUBSET Nat /\ IsFiniteSet(M)
  BY <1>1, FS_Subset
<1>3. \A h \in Hashes : h \in M \/ Covered(h)
  BY DEF Cached
<1>4. IF m = <<>> THEN Done ELSE at' = "ask" /\ todo' = Batches(m) /\ queue' = <<>>
  BY DEF Fetch
<1> HIDE DEF M
<1>5. /\ m \in Seq(M)
      /\ m = <<>> => M = {}
      /\ \A x \in M : \E j \in 1 .. Len(m) : m[j] = x
  BY <1>2, SetAsSeq
<1>6. m \in Seq(Nat)
  BY <1>2, <1>5, SeqMonotonic
<1> HIDE DEF m
<1>7. CASE m = <<>>
  <2>1. todo' \in Seq(Batch)
    BY <1>4, <1>7, EmptySeq DEF Done, Leave
  <2>2. QED
    BY <1>3, <1>4, <1>5, <1>7, <2>1 DEF Done, Leave
<1>8. CASE m # <<>>
  <2>1. /\ Batches(m) \in Seq(Batch) /\ Batches(m) # <<>>
        /\ \A j \in 1 .. Len(m) : \E i \in 1 .. Len(Batches(m)) : In(m[j], Batches(m)[i])
    BY <1>6, <1>8, BatchesCover
  <2>2. \A h \in M : \E i \in 1 .. Len(Batches(m)) : In(h, Batches(m)[i])
    BY <1>5, <2>1
  <2>3. at' = "ask" /\ todo' = Batches(m) /\ queue' = <<>>
    BY <1>4, <1>8
  <2>4. QED
    BY <1>3, <2>1, <2>2, <2>3
<1>9. QED
  BY <1>7, <1>8

LEMMA LinesEndCore == Core /\ LinesEnd => Core'
<1> SUFFICES ASSUME Core, LinesEnd PROVE Core'
  OBVIOUS
<1> USE DEF Core, LinesEnd, device, map, run
<1>1. kind = "path"
  BY DEF Places
<1>2. calm' \in BOOLEAN
  <2>1. (calm /\ queue # <<>>) \in BOOLEAN
    OBVIOUS
  <2>2. QED
    BY <2>1
<1>3. /\ queue' = <<>> /\ todo' \in Seq(Batch) /\ at' \in {"ask", "done", "failed", "route"}
      /\ at' = "ask" => todo' # <<>>
      /\ at' # "ask" => todo' = <<>>
  <2>1. CASE Fetch
    BY <2>1, FetchStep
  <2>2. CASE Leave /\ at' = "failed"
    BY <2>2, EmptySeq DEF Leave
  <2>3. CASE at' = "route" /\ queue' = <<>> /\ Idle
    BY <2>3 DEF Idle, SagaTypes, Places
  <2>4. QED
    BY <2>1, <2>2, <2>3
<1>4. queue' \in Seq(sent')
  BY <1>3, EmptySeq
<1>5. SagaTypes'
  BY <1>2, <1>3, <1>4 DEF SagaTypes, Running, Waiting
<1>6. Wire'
  BY DEF Wire, Known
<1>7. Places'
  BY <1>1, <1>3 DEF Places
<1>8. QED
  BY <1>5, <1>6, <1>7

LEMMA RoutedCore == Core /\ Routed => Core'
<1> SUFFICES ASSUME Core, Routed PROVE Core'
  OBVIOUS
<1> USE DEF Core, Routed, device, map, run
<1>1. kind = "path"
  BY DEF Places
<1>2. /\ queue' = <<>> /\ todo' \in Seq(Batch) /\ at' \in {"ask", "done"}
      /\ at' = "ask" => todo' # <<>>
      /\ at' # "ask" => todo' = <<>>
  BY FetchStep
<1>3. queue' \in Seq(sent')
  BY <1>2, EmptySeq
<1>4. SagaTypes'
  BY <1>2, <1>3 DEF SagaTypes, Running, Waiting
<1>5. Wire'
  BY DEF Wire, Known
<1>6. Places'
  BY <1>1, <1>2 DEF Places
<1>7. QED
  BY <1>4, <1>5, <1>6

\* The frames that answer a batch are of the transaction it is asked under.
LEMMA AskBatchStep ==
  ASSUME Core, AskBatch
  PROVE  /\ Head(todo) \in Batch /\ Len(asked') = Len(asked) + 1 /\ Len(asked) \in Nat
         /\ todo \in Seq(Batch) /\ todo # <<>> /\ todo' = Tail(todo)
         /\ asked' \in Seq(Batch) /\ asked'[Len(asked')] = Head(todo)
         /\ \A t \in 1 .. Len(asked) : asked'[t] = asked[t]
         /\ Answer(Paths(Len(asked'), Head(todo)))
         /\ \A f \in Paths(Len(asked'), Head(todo)) : f.of = Len(asked') /\ f.n > 0 /\ Known(f)'
<1> USE DEF Core, AskBatch
<1>1. todo \in Seq(Batch) /\ todo # <<>> /\ asked \in Seq(Batch)
  BY DEF SagaTypes, Places
<1>2. Head(todo) \in Batch /\ Len(asked) \in Nat
  BY <1>1, HeadTailProperties, LenProperties
<1>3. /\ asked' \in Seq(Batch) /\ Len(asked') = Len(asked) + 1
      /\ \A t \in 1 .. Len(asked) : asked'[t] = asked[t]
      /\ asked'[Len(asked')] = Head(todo)
  BY <1>1, <1>2, AppendProperties
<1>4. ASSUME NEW f \in Paths(Len(asked'), Head(todo))
      PROVE  f.of = Len(asked') /\ f.n > 0 /\ Known(f)'
  <2>1. Len(Head(todo)) \in Nat
    BY <1>2, LenProperties DEF Batch
  <2>2. PICK n \in 1 .. Len(Head(todo)) :
            f = [of |-> Len(asked'), n |-> n, total |-> Len(Head(todo))]
    BY <1>4 DEF Paths
  <2>3. kind' = "path" /\ Len(asked') \in 1 .. Len(asked')
    BY <1>2, <1>3 DEF device
  <2>4. QED
    BY <1>3, <2>1, <2>2, <2>3 DEF Known
<1>5. QED
  BY <1>1, <1>2, <1>3, <1>4

LEMMA AskBatchCore == Core /\ AskBatch => Core'
<1> SUFFICES ASSUME Core, AskBatch PROVE Core'
  OBVIOUS
<1> USE DEF Core
<1> DEFINE F == Paths(Len(asked'), Head(todo))
<1>1. /\ Head(todo) \in Batch /\ Len(asked') = Len(asked) + 1 /\ Len(asked) \in Nat
      /\ todo \in Seq(Batch) /\ todo # <<>> /\ todo' = Tail(todo)
      /\ asked' \in Seq(Batch) /\ asked'[Len(asked')] = Head(todo)
      /\ \A t \in 1 .. Len(asked) : asked'[t] = asked[t]
      /\ Answer(F)
      /\ \A f \in F : Known(f)'
  BY AskBatchStep
<1> HIDE DEF F
<1>2. /\ sent' \subseteq sent \cup F /\ old' \in SUBSET sent' /\ banked \in SUBSET sent'
      /\ cover \in SUBSET sent' /\ queue \in Seq(sent')
  BY <1>1, AnswerGrows
<1>3. todo' \in Seq(Batch)
  BY <1>1, HeadTailProperties
<1> USE DEF AskBatch, device, map, run
<1>4. SagaTypes'
  BY <1>1, <1>2, <1>3 DEF SagaTypes, Running, Waiting
<1>5. Wire'
  <2>1. \A f \in sent : Known(f) => Known(f)'
    BY <1>1 DEF Known
  <2>2. QED
    BY <1>1, <1>2, <2>1 DEF Wire
<1>6. Places'
  BY DEF Places
<1>7. QED
  BY <1>4, <1>5, <1>6

LEMMA CoreKept == Core /\ [SagaNext]_sagaVars => Core'
<1> SUFFICES ASSUME Core, [SagaNext]_sagaVars PROVE Core'
  OBVIOUS
<1>1. CASE SagaNext
  BY <1>1, EditCore, JobEndsCore, ArriveCore, ExecuteCore, StartRunCore, InterruptCore,
     SagaGivesUpCore, AskStreamCore, TakeStreamCore, AskEdgeCore, WalkUnsureCore,
     TakeEdgeCore, AskPlanCore, TakePlanCore, SendChunkCore, TakeReplyCore, AskLinesCore,
     LinesEndCore, RoutedCore, AskBatchCore, ResidualCore, TakeCoverCore DEF SagaNext
<1>2. CASE UNCHANGED sagaVars
  BY <1>2 DEF sagaVars, Core, SagaTypes, Wire, Known, Places
<1>3. QED
  BY <1>1, <1>2

\* The types hold, and a saga is entered at most max_attempts times without
\* progress (saga.py _retry_loop).
THEOREM SagaTypeCorrect == SagaSpec => []SagaTypeOK
<1>1. Core => SagaTypeOK
  BY LenProperties, ElementOfSeq DEF Core, SagaTypes, Places, SagaTypeOK, Running, Waiting
<1>2. QED
  BY <1>1, CoreInit, CoreKept, PTL DEF SagaSpec

-----------------------------------------------------------------------------
(* The sagas that fetch or send: FetchWhole.                               *)

\* The steps of each saga.
LEMMA KindSteps ==
  ASSUME Core, SagaNext
  PROVE  /\ kind' = kind
         /\ \/ Edit \/ (\E f \in sent : Arrive(f)) \/ Execute \/ StartRun \/ Interrupt \/ SagaGivesUp
            \/ kind = "stream" /\ (AskStream \/ TakeStream)
            \/ kind = "edge" /\ (AskEdge \/ WalkUnsure \/ TakeEdge)
            \/ kind = "plans" /\ (AskPlan \/ TakePlan)
            \/ kind = "svg" /\ (SendChunk \/ TakeReply)
            \/ kind = "path" /\ \/ JobEnds \/ AskLines \/ LinesEnd \/ Routed
                                \/ AskBatch \/ Residual \/ TakeCover
<1>1. CASE Edit \/ (\E f \in sent : Arrive(f)) \/ Execute \/ StartRun \/ Interrupt \/ SagaGivesUp
  BY <1>1 DEF Edit, Arrive, Execute, StartRun, Interrupt, SagaGivesUp
<1>2. CASE AskStream \/ TakeStream
  BY <1>2 DEF AskStream, TakeStream
<1>3. CASE AskEdge \/ WalkUnsure \/ TakeEdge
  BY <1>3 DEF AskEdge, WalkUnsure, TakeEdge
<1>4. CASE AskPlan \/ TakePlan
  BY <1>4 DEF AskPlan, TakePlan
<1>5. CASE SendChunk \/ TakeReply
  BY <1>5 DEF SendChunk, TakeReply
<1>6. CASE JobEnds \/ AskLines \/ LinesEnd \/ Routed \/ AskBatch \/ Residual \/ TakeCover
  BY <1>6 DEF Core, Places, JobEnds, AskLines, LinesEnd, Routed, AskBatch, Residual, TakeCover
<1>7. QED
  BY <1>1, <1>2, <1>3, <1>4, <1>5, <1>6 DEF SagaNext

\* An edition has as many frames as its size says.
LEMMA WholeCount ==
  ASSUME NEW e \in Editions
  PROVE  IsFiniteSet(WholeOf(e)) /\ Cardinality(WholeOf(e)) = Size[e]
<1> DEFINE g == [n \in 1 .. Size[e] |-> Frame(e, n)]
<1>1. Size[e] \in Nat
  BY SizeType
<1>2. g \in [1 .. Size[e] -> WholeOf(e)]
  BY DEF WholeOf
<1>3. \A m, n \in 1 .. Size[e] : g[m] = g[n] => m = n
  BY DEF Frame
<1>4. \A f \in WholeOf(e) : \E n \in 1 .. Size[e] : g[n] = f
  BY DEF WholeOf
<1> HIDE DEF g
<1>5. ExistsBijection(1 .. Size[e], WholeOf(e))
  BY <1>2, <1>3, <1>4 DEF ExistsBijection, Bijection, Injection, Surjection, IsInjective
<1>6. IsFiniteSet(1 .. Size[e]) /\ Cardinality(1 .. Size[e]) = Size[e]
  BY <1>1, FS_Interval
<1>7. QED
  BY <1>5, <1>6, FS_Bijection

\* So frames of one edition, as many as it has, are all of them.
LEMMA CountedWhole ==
  ASSUME NEW e \in Editions, NEW b \in SUBSET WholeOf(e), Cardinality(b) >= Size[e]
  PROVE  b = WholeOf(e)
<1>1. Size[e] \in Nat
  BY SizeType
<1>2. Cardinality(b) \in Nat /\ Cardinality(b) <= Size[e]
  BY WholeCount, FS_Subset, FS_CardinalityType
<1>3. Cardinality(b) = Cardinality(WholeOf(e))
  BY <1>1, <1>2, WholeCount
<1>4. QED
  BY <1>3, WholeCount, FS_Subset

LEMMA EdgeKept ==
  ASSUME Core, EdgeInv, SagaNext
  PROVE  EdgeInv'
<1> USE DEF Core, device, map, path, run
<1> SUFFICES ASSUME kind = "edge", at' = "done"
             PROVE  \E e \in Editions : Size[e] > 0 /\ WholeOf(e) \subseteq banked'
  BY KindSteps DEF EdgeInv, WholeOf
<1>1. CASE \/ Edit \/ (\E f \in sent : Arrive(f)) \/ Execute \/ StartRun \/ Interrupt \/ SagaGivesUp
           \/ AskEdge \/ WalkUnsure
  BY <1>1 DEF EdgeInv, Edit, Arrive, Execute, StartRun, Interrupt, Interrupted, SagaGivesUp,
       AskEdge, WalkUnsure
<1>2. CASE TakeEdge
  <2> DEFINE f == Head1
             c == {g \in banked' : g.of = f.of}
  <2>1. f \in sent /\ banked \in SUBSET sent
    BY <1>2, QueueHead DEF TakeEdge, SagaTypes
  <2>2. banked' = {g \in banked : g.of # f.of \/ g.n # f.n} \cup {f}
    BY <1>2 DEF TakeEdge
  <2>3. f.n >= f.total /\ Cardinality(c) >= f.total
    BY <1>2 DEF TakeEdge, AllBanked
  <2>4. f.of \in Editions /\ f.n \in 1 .. Size[f.of] /\ f.total = Size[f.of]
    BY <2>1 DEF Wire, Known, Frame
  <2>5. c \subseteq WholeOf(f.of)
    BY <2>1, <2>2 DEF Wire, Known, WholeOf
  <2>6. c = WholeOf(f.of)
    BY <2>3, <2>4, <2>5, CountedWhole
  <2>7. Size[f.of] > 0
    BY <2>4, SizeType
  <2>8. QED
    BY <2>4, <2>6, <2>7
<1>3. QED
  BY <1>1, <1>2, KindSteps

LEMMA StreamKept ==
  ASSUME Core, StreamInv, SagaNext
  PROVE  StreamInv'
<1> USE DEF Core, device, map, path, run
<1> SUFFICES ASSUME kind = "stream", calm'
             PROVE  /\ \A f \in Fresh' \cup banked' : f.of = edition'
                    /\ \A i \in 1 .. Len(queue') : queue'[i].of = edition'
                    /\ at' = "done" => banked' = WholeOf(edition')
  BY KindSteps DEF StreamInv, WholeOf
<1>1. CASE Edit
  BY <1>1 DEF Edit
<1>2. ASSUME NEW f \in sent, Arrive(f) PROVE StreamInv'
  <2>1. calm /\ f \in Fresh /\ edition' = edition /\ banked' = banked /\ at' = at /\ Fresh' = Fresh
    BY <1>2 DEF Arrive, Fresh, Counts
  <2>2. \A i \in 1 .. Len(queue') : queue'[i].of = edition
    <3>1. CASE queue' = queue
      BY <2>1, <3>1 DEF StreamInv
    <3>2. CASE queue' = Append(queue, f)
      <4>1. /\ Len(queue') = Len(queue) + 1 /\ Len(queue) \in Nat
            /\ \A i \in 1 .. Len(queue) : queue'[i] = queue[i]
            /\ queue'[Len(queue) + 1] = f
        BY <3>2, AppendProperties, LenProperties DEF SagaTypes
      <4>2. QED
        BY <2>1, <4>1 DEF StreamInv
    <3>3. QED
      BY <1>2, <3>1, <3>2 DEF Arrive
  <2>3. QED
    BY <2>1, <2>2 DEF StreamInv, WholeOf
<1>3. CASE Execute
  BY <1>3 DEF Execute, StreamInv, Fresh
<1>4. CASE StartRun
  BY <1>4, EmptySeq DEF StartRun, Fresh, Places
<1>5. CASE Interrupt \/ SagaGivesUp
  <2>1. at' # "done" /\ queue' = <<>>
    BY <1>5 DEF Interrupt, Interrupted, SagaGivesUp, Leave
  <2>2. Fresh' = Fresh /\ banked' = banked /\ edition' = edition /\ calm' = calm
    BY <1>5 DEF Interrupt, SagaGivesUp, Fresh
  <2>3. QED
    BY <2>1, <2>2, EmptySeq DEF StreamInv
<1>6. CASE AskStream
  <2> DEFINE F == {Frame(edition, n) : n \in {1} \cap 1 .. Size[edition]}
  <2>1. Fresh' \subseteq Fresh \cup F
    BY <1>6, AnswerGrows DEF AskStream
  <2>2. \A f \in F : f.of = edition
    BY DEF Frame
  <2>3. QED
    BY <1>6, <2>1, <2>2 DEF AskStream, StreamInv
<1>7. CASE TakeStream
  <2> DEFINE f == Head1
  <2>1. calm /\ edition' = edition /\ queue # <<>> /\ Answer(After(f))
    BY <1>7 DEF TakeStream
  <2>2. f \in sent /\ f.of = edition /\ banked \in SUBSET sent
    BY <2>1, QueueHead DEF StreamInv, SagaTypes
  <2>3. Fresh' \subseteq Fresh \cup After(f)
    BY <2>1, AnswerGrows
  <2>4. banked' \subseteq banked \cup {f}
    BY <1>7 DEF TakeStream
  <2>5. \A g \in Fresh' \cup banked' : g.of = edition
    BY <2>1, <2>2, <2>3, <2>4 DEF StreamInv, After, Frame
  <2>6. \A i \in 1 .. Len(queue') : queue'[i].of = edition
    <3>1. CASE queue' = <<>>
      BY <3>1, EmptySeq
    <3>2. CASE queue' = Tail(queue)
      BY <2>1, <3>2, QueueHead DEF StreamInv
    <3>3. QED
      BY <1>7, <3>1, <3>2 DEF TakeStream, Done, Leave, Next1
  <2>7. ASSUME at' = "done" PROVE banked' = WholeOf(edition)
    <3>1. Cardinality(banked') >= f.total
      BY <1>7, <2>7 DEF TakeStream, AllBanked
    <3>2. f.total = Size[edition]
      BY <2>2 DEF Wire, Known, Frame
    <3>3. banked' \subseteq WholeOf(edition)
      BY <2>2, <2>4, <2>5 DEF Wire, Known, WholeOf
    <3>4. QED
      BY <3>1, <3>2, <3>3, CountedWhole DEF SagaTypes
  <2>8. QED
    BY <2>1, <2>5, <2>6, <2>7
<1>8. QED
  BY <1>1, <1>2, <1>3, <1>4, <1>5, <1>6, <1>7, KindSteps DEF StreamInv, WholeOf

\* In an undisturbed run of the plans or of a tile one frame at most is under
\* way, and it comes once.
LEMMA PendingArrives ==
  ASSUME Core, NEW f \in sent, Arrive(f), calm', kind \in {"plans", "svg"},
         at \in {"ask", "wait"}, NEW A, Pending(A)
  PROVE  f \in A /\ queue = <<>> /\ queue' = <<f>> /\ Fresh' = {} /\ Fresh \subseteq {f}
<1> USE DEF Core
<1>1. calm /\ f \in Fresh
  BY DEF Arrive, Fresh
<1>2. queue = <<>> /\ f \in A /\ Fresh \subseteq {f}
  BY <1>1 DEF Pending
<1>3. queue' = Append(queue, f)
  BY DEF Arrive, Wanted
<1>4. queue' = <<f>>
  BY <1>2, <1>3
<1>5. Fresh' = {}
  BY <1>2 DEF Arrive, Counts, Fresh
<1>6. QED
  BY <1>2, <1>4, <1>5

LEMMA PlanKept ==
  ASSUME Core, PlanInv, SagaNext
  PROVE  PlanInv'
<1> USE DEF Core, device, map, path, run
<1> SUFFICES ASSUME kind = "plans", calm'
             PROVE  /\ at' = "ask" => Fresh' = {} /\ queue' = <<>>
                    /\ at' = "wait" => Pending({Frame(edition, index)})'
                    /\ at' \in {"ask", "wait"} =>
                           /\ banked' = {Frame(edition', n) : n \in 0 .. index' - 1}
                           /\ index' > 0 => index' < Size[edition'] /\ total' = Size[edition']
                    /\ at' = "done" =>
                           banked' = {Frame(edition', n) : n \in 0 .. Size[edition'] - 1}
  BY KindSteps DEF PlanInv, Frame
<1>1. CASE Edit
  BY <1>1 DEF Edit
<1>2. ASSUME NEW f \in sent, Arrive(f) PROVE PlanInv'
  <2> DEFINE A == {Frame(edition, index)}
  <2>1. /\ calm /\ f \in Fresh /\ edition' = edition /\ banked' = banked /\ at' = at
        /\ index' = index /\ total' = total
    BY <1>2 DEF Arrive, Fresh
  <2>2. CASE at = "wait"
    <3>1. Pending(A)
      BY <2>1, <2>2 DEF PlanInv
    <3> HIDE DEF A
    <3>2. f \in A /\ queue' = <<f>> /\ Fresh' = {}
      BY <1>2, <2>2, <3>1, PendingArrives
    <3> USE DEF A
    <3>3. Pending({Frame(edition, index)})'
      BY <2>1, <3>2 DEF Pending, Frame
    <3>4. QED
      BY <2>1, <2>2, <3>3 DEF PlanInv, Frame
  <2>3. CASE at # "wait"
    BY <2>1, <2>3 DEF PlanInv, Frame
  <2>4. QED
    BY <2>2, <2>3
<1>3. CASE Execute
  BY <1>3 DEF Execute
<1>4. CASE StartRun
  BY <1>4 DEF StartRun, Fresh, Places
<1>5. CASE Interrupt \/ SagaGivesUp
  BY <1>5 DEF Interrupt, Interrupted, SagaGivesUp
<1>6. CASE AskPlan
  <2> DEFINE F == IF index < Size[edition] \/ index = 0 THEN {Frame(edition, index)} ELSE {}
  <2>1. Fresh' \subseteq Fresh \cup F
    BY <1>6, AnswerGrows DEF AskPlan
  <2>2. /\ calm /\ at = "ask" /\ at' = "wait" /\ edition' = edition /\ banked' = banked
        /\ index' = index /\ total' = total /\ queue' = queue
    BY <1>6 DEF AskPlan
  <2>3. Fresh' \subseteq {Frame(edition, index)} /\ queue' = <<>>
    BY <2>1, <2>2 DEF PlanInv
  <2>4. Pending({Frame(edition, index)})'
    BY <2>2, <2>3 DEF Pending, Frame
  <2>5. QED
    BY <2>2, <2>4 DEF PlanInv
<1>7. CASE TakePlan
  <2> DEFINE f == Frame(edition, index)
  <2>1. /\ calm /\ at = "wait" /\ edition' = edition /\ queue # <<>> /\ Fresh' = Fresh
        /\ total' = FirstTotal(Head1)
        /\ banked' = (IF total' = 0 THEN banked ELSE banked \cup {Head1})
        /\ \/ UpTo(Head1) /\ at' = "done" /\ index' = index
           \/ ~ UpTo(Head1) /\ at' = "ask" /\ index' = index + 1 /\ queue' = Tail(queue)
    BY <1>7 DEF TakePlan, Fresh, Done, Next1
  <2>2. Pending({f})
    BY <2>1 DEF PlanInv
  <2>3. Fresh = {} /\ queue = <<f>>
    BY <2>1, <2>2 DEF Pending
  <2>4. Head1 = f /\ Tail(queue) = <<>>
    BY <2>3 DEF Head1
  <2>5. index \in Nat /\ Size[edition] \in Nat /\ f.total = Size[edition]
    BY SizeType DEF SagaTypes, Frame
  <2>6. /\ banked = {Frame(edition, n) : n \in 0 .. index - 1}
        /\ index > 0 => index < Size[edition] /\ total = Size[edition]
    BY <2>1 DEF PlanInv
  <2>7. total' = Size[edition]
    BY <2>1, <2>4, <2>5, <2>6 DEF FirstTotal
  <2>8. banked' = {Frame(edition, n) : n \in 0 .. (IF Size[edition] = 0 THEN index - 1 ELSE index)}
    <3>1. CASE Size[edition] = 0
      BY <2>1, <2>6, <2>7, <3>1
    <3>2. CASE Size[edition] # 0
      <4>1. 0 .. index = (0 .. index - 1) \cup {index}
        BY <2>5
      <4>2. QED
        BY <2>1, <2>4, <2>6, <2>7, <3>2, <4>1
    <3>3. QED
      BY <3>1, <3>2
  <2>9. CASE UpTo(Head1) /\ at' = "done" /\ index' = index
    <3>1. index + 1 >= Size[edition]
      BY <2>4, <2>5, <2>6, <2>9 DEF UpTo, FirstTotal
    <3>2. CASE Size[edition] = 0
      <4>1. index = 0
        BY <2>5, <2>6, <3>2
      <4>2. QED
        BY <2>1, <2>8, <2>9, <3>2, <4>1
    <3>3. CASE Size[edition] # 0
      <4>1. index = Size[edition] - 1
        BY <2>5, <2>6, <3>1, <3>3
      <4>2. QED
        BY <2>1, <2>8, <2>9, <3>3, <4>1
    <3>4. QED
      BY <3>2, <3>3
  <2>10. CASE ~ UpTo(Head1) /\ at' = "ask" /\ index' = index + 1 /\ queue' = Tail(queue)
    <3>1. index + 1 < Size[edition]
      BY <2>4, <2>5, <2>6, <2>10 DEF UpTo, FirstTotal
    <3>2. banked' = {Frame(edition, n) : n \in 0 .. index' - 1}
      <4>1. Size[edition] # 0 /\ index' - 1 = index
        BY <2>5, <2>10, <3>1
      <4>2. QED
        BY <2>8, <4>1
    <3>3. QED
      BY <2>1, <2>3, <2>4, <2>7, <2>10, <3>1, <3>2
  <2>11. QED
    BY <2>1, <2>9, <2>10
<1>8. QED
  BY <1>1, <1>2, <1>3, <1>4, <1>5, <1>6, <1>7, KindSteps DEF PlanInv, Frame

LEMMA SvgKept ==
  ASSUME Core, SvgInv, SagaNext
  PROVE  SvgInv'
<1> USE DEF Core, device, map, path, run
<1> DEFINE Kept == Reply(index, 0) \in Fresh \/ queue = <<Reply(index, 0)>> => index \in stored
<1> SUFFICES ASSUME kind = "svg", calm'
             PROVE  /\ at' = "ask" => Fresh' = {} /\ queue' = <<>>
                    /\ at' = "wait" => Pending({Reply(index, 0), Reply(index, 1)})' /\ Kept'
                    /\ at' \in {"ask", "wait"} => 1 .. index' - 1 \subseteq stored'
                    /\ at' = "done" => 1 .. Chunks \subseteq stored' /\ banked' = {Reply(Chunks, 0)}
  BY KindSteps DEF SvgInv, Reply
<1>1. CASE Edit
  BY <1>1 DEF Edit
<1>2. ASSUME NEW f \in sent, Arrive(f) PROVE SvgInv'
  <2> DEFINE A == {Reply(index, 0), Reply(index, 1)}
  <2>1. /\ calm /\ f \in Fresh /\ stored' = stored /\ banked' = banked /\ at' = at
        /\ index' = index
    BY <1>2 DEF Arrive, Fresh
  <2>2. CASE at = "wait"
    <3>1. Pending(A)
      BY <2>1, <2>2 DEF SvgInv
    <3> HIDE DEF A
    <3>2. f \in A /\ queue' = <<f>> /\ Fresh' = {}
      BY <1>2, <2>2, <3>1, PendingArrives
    <3> USE DEF A
    <3>3. Pending({Reply(index, 0), Reply(index, 1)})'
      BY <2>1, <3>2 DEF Pending, Reply
    <3>4. f = Reply(index, 0) => index \in stored
      BY <2>1, <2>2 DEF SvgInv
    <3>5. queue' = <<Reply(index', 0)>> => f = Reply(index, 0)
      BY <2>1, <3>2 DEF Reply
    <3>6. QED
      BY <2>1, <2>2, <3>2, <3>3, <3>4, <3>5 DEF SvgInv
  <2>3. CASE at # "wait"
    BY <2>1, <2>3 DEF SvgInv, Reply
  <2>4. QED
    BY <2>2, <2>3
<1>3. CASE Execute
  BY <1>3 DEF Execute
<1>4. CASE StartRun
  BY <1>4 DEF StartRun, Fresh, Places
<1>5. CASE Interrupt \/ SagaGivesUp
  BY <1>5 DEF Interrupt, Interrupted, SagaGivesUp
<1>6. CASE SendChunk
  <2>1. /\ calm /\ at = "ask" /\ at' = "wait" /\ banked' = banked /\ index' = index
        /\ queue' = queue
    BY <1>6 DEF SendChunk
  <2>2. Fresh = {} /\ queue = <<>> /\ 1 .. index - 1 \subseteq stored
    BY <2>1 DEF SvgInv
  <2>3. \/ stored' = stored /\ Fresh' = {}
        \/ stored' = stored \cup {index} /\ Fresh' \subseteq {Reply(index, 0)}
        \/ stored' = stored /\ Fresh' \subseteq {Reply(index, 1)}
    BY <1>6, <2>2 DEF SendChunk, Put, Fresh
  <2>4. Pending({Reply(index, 0), Reply(index, 1)})'
    BY <2>1, <2>2, <2>3 DEF Pending
  <2>5. Kept'
    <3>1. queue' # <<Reply(index', 0)>>
      BY <2>1, <2>2
    <3>2. Reply(index, 0) # Reply(index, 1)
      BY DEF Reply
    <3>3. QED
      BY <2>1, <2>3, <3>1, <3>2
  <2>6. QED
    BY <2>1, <2>2, <2>3, <2>4, <2>5
<1>7. CASE TakeReply
  <2> DEFINE f == Head1
  <2>1. /\ calm /\ at = "wait" /\ stored' = stored /\ queue # <<>> /\ Fresh' = Fresh
        /\ banked' = {f}
        /\ \/ at' = "failed"
           \/ Accepted(f) /\ index = Chunks /\ at' = "done"
           \/ Accepted(f) /\ index < Chunks /\ at' = "ask" /\ index' = index + 1 /\ queue' = Tail(queue)
    BY <1>7 DEF TakeReply, Fresh, Done, Next1
  <2>2. Pending({Reply(index, 0), Reply(index, 1)})
    BY <2>1 DEF SvgInv
  <2>3. Fresh = {} /\ queue = <<f>> /\ f \in {Reply(index, 0), Reply(index, 1)}
    BY <2>1, <2>2 DEF Pending, Head1
  <2>4. Tail(queue) = <<>>
    BY <2>3
  <2>5. ASSUME Accepted(f) PROVE f = Reply(index, 0) /\ index \in stored
    <3>1. f = Reply(index, 0)
      BY <2>3, <2>5 DEF Accepted, Reply
    <3>2. QED
      BY <2>1, <2>3, <3>1 DEF SvgInv
  <2>6. index \in 1 .. Chunks /\ 1 .. index - 1 \subseteq stored
    BY <2>1 DEF Places, SvgInv
  <2>7. ASSUME Accepted(f) PROVE 1 .. index \subseteq stored
    <3>1. 1 .. index = (1 .. index - 1) \cup {index}
      BY <2>6
    <3>2. QED
      BY <2>5, <2>6, <2>7, <3>1
  <2>8. QED
    BY <2>1, <2>3, <2>4, <2>5, <2>6, <2>7
<1>8. QED
  BY <1>1, <1>2, <1>3, <1>4, <1>5, <1>6, <1>7, KindSteps DEF SvgInv, Reply

-----------------------------------------------------------------------------

FetchInv == Core /\ EdgeInv /\ StreamInv /\ PlanInv /\ SvgInv

\* What a saga hands over when it ends well is one whole, whatever the channel lost,
\* repeated or reordered (transfers.py ack_stream and indexed_fetch, edge_saga.py,
\* svg_saga.py), for any editions, number of chunks and attempts.
THEOREM FetchIsWhole == SagaSpec => []FetchWhole
<1>1. SagaInit => FetchInv
  BY CoreInit DEF FetchInv, SagaInit, EdgeInv, StreamInv, PlanInv, SvgInv
<1>2. FetchInv /\ [SagaNext]_sagaVars => FetchInv'
  <2> SUFFICES ASSUME FetchInv, [SagaNext]_sagaVars PROVE FetchInv'
    OBVIOUS
  <2>1. Core'
    BY CoreKept DEF FetchInv
  <2>2. CASE SagaNext
    BY <2>1, <2>2, EdgeKept, StreamKept, PlanKept, SvgKept DEF FetchInv
  <2>3. CASE UNCHANGED sagaVars
    BY <2>1, <2>3 DEF FetchInv, sagaVars, EdgeInv, StreamInv, PlanInv, SvgInv, WholeOf, Pending,
       Fresh
  <2>4. QED
    BY <2>2, <2>3
<1>3. FetchInv => FetchWhole
  <2> SUFFICES ASSUME FetchInv, at = "done" PROVE FetchWhole
    BY DEF FetchWhole
  <2> USE DEF FetchInv
  <2>1. edition \in Editions /\ Size[edition] \in Nat /\ stored \subseteq 1 .. Chunks
    BY SizeType DEF Core, SagaTypes
  <2>2. kind = "edge" =>
            \E e \in Editions : Size[e] > 0 /\ Numbers({f \in banked : f.of = e}) = 1 .. Size[e]
    <3> SUFFICES ASSUME kind = "edge"
                 PROVE  \E e \in Editions : /\ Size[e] > 0
                                            /\ Numbers({f \in banked : f.of = e}) = 1 .. Size[e]
      OBVIOUS
    <3>1. PICK e \in Editions : Size[e] > 0 /\ WholeOf(e) \subseteq banked
      BY DEF EdgeInv
    <3>2. \A f \in banked : f.n \in 1 .. Size[f.of]
      BY DEF Core, SagaTypes, Wire, Known
    <3>3. \A n \in 1 .. Size[e] : Frame(e, n) \in banked /\ Frame(e, n).of = e /\ Frame(e, n).n = n
      BY <3>1 DEF WholeOf, Frame
    <3>4. Numbers({f \in banked : f.of = e}) = 1 .. Size[e]
      BY <3>2, <3>3 DEF Numbers
    <3>5. QED
      BY <3>1, <3>4
  <2>3. kind = "stream" /\ calm => banked = {Frame(edition, n) : n \in 1 .. Size[edition]}
    BY DEF StreamInv, WholeOf
  <2>4. kind = "plans" /\ calm => banked = {Frame(edition, n - 1) : n \in 1 .. Size[edition]}
    <3>1. \A n \in 1 .. Size[edition] : n - 1 \in 0 .. Size[edition] - 1
      BY <2>1
    <3>2. \A n \in 0 .. Size[edition] - 1 : n + 1 \in 1 .. Size[edition] /\ (n + 1) - 1 = n
      BY <2>1
    <3>3. {Frame(edition, n) : n \in 0 .. Size[edition] - 1}
              = {Frame(edition, n - 1) : n \in 1 .. Size[edition]}
      BY <3>1, <3>2
    <3>4. QED
      BY <3>3 DEF PlanInv
  <2>5. kind = "svg" /\ calm => stored = 1 .. Chunks /\ banked = {Reply(Chunks, 0)}
    BY <2>1 DEF SvgInv
  <2>6. QED
    BY <2>2, <2>3, <2>4, <2>5 DEF FetchWhole
<1>4. QED
  BY <1>1, <1>2, <1>3, PTL DEF SagaSpec

-----------------------------------------------------------------------------
(* The path saga: PathWhole.                                               *)

\* A frame of the wire is the hash list or one of a cover path.
LEMMA PathFrame ==
  ASSUME Core, kind = "path", NEW f \in sent
  PROVE  /\ f.n = 0 => f.of \in Editions
         /\ f.n # 0 =>
                /\ f.n > 0 /\ f.of \in 1 .. Len(asked) /\ Len(asked) \in Nat
                /\ asked[f.of] \in Batch /\ Len(asked[f.of]) \in 0 .. BatchSize
                /\ f.n \in 1 .. Len(asked[f.of])
                /\ f = [of |-> f.of, n |-> f.n, total |-> Len(asked[f.of])]
<1>1. Len(asked) \in Nat /\ BatchSize \in Nat
  BY LenProperties, SagaAssumption DEF Core, SagaTypes
<1>2. \A t \in 1 .. Len(asked) : asked[t] \in Batch /\ Len(asked[t]) \in 0 .. BatchSize
  BY <1>1, ElementOfSeq, LenProperties DEF Core, SagaTypes, Batch
<1>3. CASE f.n = 0
  BY <1>2, <1>3 DEF Core, Wire, Known
<1>4. CASE f.n # 0
  BY <1>1, <1>2, <1>4 DEF Core, Wire, Known, LineFrame
<1>5. QED
  BY <1>3, <1>4

LEMMA CoverKept ==
  ASSUME Core, CoverInv, SagaNext
  PROVE  CoverInv'
<1> USE DEF device, map, path, run
<1> SUFFICES ASSUME kind = "path"
             PROVE  /\ \A f \in cover' : f \in old' /\ f.n > 0
                    /\ \A f \in Fresh' : f.n > 0 => f.of > first'
  BY KindSteps DEF CoverInv
<1>1. /\ \A f \in cover : f \in old /\ f.n > 0
      /\ \A f \in Fresh : f.n > 0 => f.of > first
  BY DEF CoverInv
<1>2. CASE Edit \/ Execute \/ Interrupt \/ SagaGivesUp
  BY <1>1, <1>2 DEF Edit, Execute, Interrupt, SagaGivesUp, Fresh
<1>3. ASSUME NEW f \in sent, Arrive(f) PROVE CoverInv'
  <2>1. /\ old' = old \cup {f} /\ sent' = sent /\ first' = first
        /\ cover' = IF f.n > 0 THEN cover \cup {f} ELSE cover
    BY <1>3 DEF Arrive, Counts
  <2>2. QED
    BY <1>1, <2>1 DEF CoverInv, Fresh
<1>4. CASE StartRun
  <2>1. Fresh' = {} /\ old' = sent /\ cover' = cover
    BY <1>4 DEF StartRun, Fresh
  <2>2. QED
    BY <1>1, <2>1 DEF Core, SagaTypes
<1>5. CASE JobEnds \/ Residual
  BY <1>1, <1>5 DEF JobEnds, Residual, Fresh
<1>6. CASE LinesEnd \/ Routed \/ TakeCover
  <2>1. UNCHANGED <<cover, old, sent, first>>
    BY <1>6 DEF LinesEnd, Routed, TakeCover
  <2>2. QED
    BY <1>1, <2>1 DEF Fresh
<1>7. CASE AskLines
  <2>1. Fresh' \subseteq Fresh \cup {LineFrame(edition)}
    BY <1>7, AnswerGrows DEF AskLines, Core
  <2>2. old' = old \/ old' = old \ {LineFrame(edition)}
    BY <1>7 DEF AskLines, Answer, Put
  <2>3. LineFrame(edition).n = 0
    BY DEF LineFrame
  <2>4. UNCHANGED <<cover, first>>
    BY <1>7 DEF AskLines
  <2>5. QED
    BY <1>1, <2>1, <2>2, <2>3, <2>4
<1>8. CASE AskBatch
  <2> DEFINE F == Paths(Len(asked'), Head(todo))
  <2>1. /\ Answer(F) /\ \A f \in F : f.of = Len(asked')
        /\ Len(asked') = Len(asked) + 1 /\ Len(asked) \in Nat
    BY <1>8, AskBatchStep
  <2> HIDE DEF F
  <2>2. Fresh' \subseteq Fresh \cup F
    BY <2>1, AnswerGrows DEF Core
  <2>3. old' = old \/ old' = old \ F
    BY <2>1 DEF Answer, Put
  <2>4. UNCHANGED <<cover, first>>
    BY <1>8 DEF AskBatch
  <2>5. first \in 0 .. Len(asked) /\ cover \in SUBSET sent
    BY DEF Core, SagaTypes
  <2>6. \A f \in cover : f.of \in 1 .. Len(asked)
    BY <1>1, <2>5, PathFrame
  <2>7. \A f \in cover : f \notin F
    BY <2>1, <2>6
  <2>8. QED
    BY <1>1, <2>1, <2>2, <2>3, <2>4, <2>5, <2>7
<1>9. QED
  BY <1>2, <1>3, <1>4, <1>5, <1>6, <1>7, <1>8, KindSteps DEF CoverInv

LEMMA LinesKept ==
  ASSUME Core, LinesInv, SagaNext
  PROVE  LinesInv'
<1> USE DEF device, map, path, run
<1> SUFFICES ASSUME kind = "path", calm'
             PROVE  /\ \A f \in Fresh' : f.n = 0 => f.of = edition'
                    /\ at' \in {"begin", "lines", "route"} => \A f \in Fresh' : f.n = 0
                    /\ at' = "lines" /\ queue' # <<>> => lines' = edition'
                    /\ at' \in {"route", "ask", "wait", "done"} => lines' = edition'
  BY KindSteps DEF LinesInv
<1>1. CASE Edit \/ JobEnds
  BY <1>1 DEF Edit, JobEnds
<1>2. ASSUME NEW f \in sent, Arrive(f) PROVE LinesInv'
  <2>1. calm /\ f \in Fresh /\ edition' = edition /\ at' = at /\ Fresh' \subseteq Fresh
    BY <1>2 DEF Arrive, Fresh, Counts
  <2>2. f.n = 0 => lines' = edition
    BY <1>2, <2>1 DEF Arrive, LinesInv
  <2>3. f.n # 0 => lines' = lines /\ (at = "lines" => queue' = queue)
    BY <1>2 DEF Arrive, Wanted
  <2>4. QED
    BY <2>1, <2>2, <2>3 DEF LinesInv
<1>3. CASE Execute \/ Interrupt \/ SagaGivesUp
  <2>1. at' \in {"start", "failed"}
    BY <1>3 DEF Execute, Interrupt, Interrupted, SagaGivesUp
  <2>2. UNCHANGED <<edition, sent, old, calm>>
    BY <1>3 DEF Execute, Interrupt, SagaGivesUp
  <2>3. QED
    BY <2>1, <2>2 DEF LinesInv, Fresh
<1>4. CASE StartRun
  BY <1>4 DEF StartRun, Fresh
<1>5. CASE AskLines
  <2>1. Fresh' \subseteq Fresh \cup {LineFrame(edition)}
    BY <1>5, AnswerGrows DEF AskLines, Core
  <2>2. LineFrame(edition).n = 0 /\ LineFrame(edition).of = edition
    BY DEF LineFrame
  <2>3. calm /\ at = "begin" /\ at' = "lines" /\ queue' = queue /\ edition' = edition
    BY <1>5 DEF AskLines
  <2>4. queue = <<>>
    BY <2>3 DEF Core, Places
  <2>5. QED
    BY <2>1, <2>2, <2>3, <2>4 DEF LinesInv
<1>6. CASE LinesEnd
  <2>1. calm /\ queue # <<>> /\ at = "lines" /\ UNCHANGED <<edition, lines, sent, old>>
    BY <1>6 DEF LinesEnd
  <2>2. at' # "lines"
    BY <1>6, FetchStep DEF LinesEnd
  <2>3. QED
    BY <2>1, <2>2 DEF LinesInv, Fresh
<1>7. CASE Routed
  <2>1. calm /\ at = "route" /\ UNCHANGED <<edition, lines, sent, old>>
    BY <1>7 DEF Routed
  <2>2. at' \in {"ask", "done"}
    BY <1>7, FetchStep DEF Routed
  <2>3. QED
    BY <2>1, <2>2 DEF LinesInv, Fresh
<1>8. CASE AskBatch
  <2>1. /\ Fresh' \subseteq Fresh \cup Paths(Len(asked'), Head(todo))
        /\ \A f \in Paths(Len(asked'), Head(todo)) : f.n > 0
    BY <1>8, AskBatchStep, AnswerGrows DEF Core
  <2>2. calm /\ at = "ask" /\ at' = "wait" /\ UNCHANGED <<edition, lines>>
    BY <1>8 DEF AskBatch
  <2>3. \A f \in Fresh' : f.n = 0 => f \in Fresh
    BY <2>1
  <2>4. QED
    BY <2>2, <2>3 DEF LinesInv
<1>9. CASE Residual
  BY <1>9 DEF Residual, LinesInv, Fresh
<1>10. CASE TakeCover
  <2>1. calm /\ at = "wait" /\ UNCHANGED <<edition, lines, sent, old>>
    BY <1>10 DEF TakeCover
  <2>2. at' \in {"start", "failed", "wait", "ask", "done"}
    BY <1>10 DEF TakeCover, Interrupted, Done
  <2>3. QED
    BY <2>1, <2>2 DEF LinesInv, Fresh
<1>11. QED
  BY <1>1, <1>2, <1>3, <1>4, <1>5, <1>6, <1>7, <1>8, <1>9, <1>10, KindSteps DEF LinesInv

\* Nothing is missing when the map has every path of each transaction it knows.
LEMMA NothingMissing ==
  ASSUME Core, CoverInv, kind = "path", Cardinality(MissingOf(cover)) = 0,
         NEW f \in cover
  PROVE  \A n \in 1 .. Len(asked[f.of]) :
             \E g \in cover : g.of = f.of /\ g.n = n /\ g = [of |-> f.of, n |-> n, total |-> Len(asked[f.of])]
<1>1. /\ Len(asked) \in Nat /\ BatchSize \in Nat
      /\ \A g \in cover : g \in sent /\ g.n # 0
  BY LenProperties, SagaAssumption DEF Core, SagaTypes, CoverInv
<1>2. \A g \in cover :
          /\ g.of \in 1 .. Len(asked) /\ Len(asked[g.of]) \in 0 .. BatchSize
          /\ g = [of |-> g.of, n |-> g.n, total |-> Len(asked[g.of])]
  BY <1>1, PathFrame
<1>3. MissingOf(cover) \subseteq (1 .. Len(asked)) \X (1 .. BatchSize)
  BY <1>2 DEF MissingOf
<1>4. IsFiniteSet((1 .. Len(asked)) \X (1 .. BatchSize))
  <2>1. IsFiniteSet(1 .. Len(asked)) /\ IsFiniteSet(1 .. BatchSize)
    BY <1>1, FS_Interval
  <2>2. QED
    BY ONLY <2>1, FS_Product
<1>5. IsFiniteSet(MissingOf(cover))
  BY <1>3, <1>4, FS_Subset
<1>6. MissingOf(cover) = {}
  BY <1>5, FS_EmptySet
<1>7. ASSUME NEW n \in 1 .. Len(asked[f.of]) PROVE \E g \in cover : g.of = f.of /\ g.n = n
  <2>1. n \in 1 .. BatchSize /\ n <= f.total
    BY <1>1, <1>2
  <2>2. <<f.of, n>> \in {g.of : g \in cover} \X (1 .. BatchSize)
    BY <2>1
  <2>3. <<f.of, n>> \notin MissingOf(cover)
    BY <1>6
  <2>4. QED
    BY <2>1, <2>2, <2>3 DEF MissingOf
<1>8. QED
  BY <1>2, <1>7

\* A path in the map stays one of its hash while its transaction is known.
LEMMA CoveredStays ==
  ASSUME NEW h, Covered(h), cover \subseteq cover',
         \A f \in cover : asked'[f.of] = asked[f.of]
  PROVE  Covered(h)'
BY DEF Covered

LEMMA FetchBatches ==
  ASSUME Core, LinesInv, kind = "path", calm', calm, at \in {"lines", "route"},
         lines = edition, Fetch,
         UNCHANGED <<kind, edition, sent, old, cover, asked>>
  PROVE  BatchInv'
<1>1. Hashes = 1 .. Size[edition]
  BY DEF Hashes, Core, SagaTypes, Editions
<1>2. \A f \in Fresh' : f.n = 0
  BY DEF LinesInv, Fresh
<1>3. \A h : Covered(h)' <=> Covered(h)
  BY DEF Covered
<1>4. /\ queue' = <<>> /\ at' \in {"ask", "done"}
      /\ at' = "done" => \A h \in Hashes : Covered(h)
      /\ at' = "ask" => \A h \in Hashes : Covered(h) \/ \E i \in 1 .. Len(todo') : In(h, todo'[i])
  BY FetchStep
<1>5. QED
  BY <1>1, <1>2, <1>3, <1>4 DEF BatchInv, In

LEMMA BatchAsked ==
  ASSUME Core, CoverInv, BatchInv, AskBatch, calm', paced'
  PROVE  BatchInv'
<1> USE DEF device, map, run
<1> DEFINE F == Paths(Len(asked'), Head(todo))
<1>1. /\ Len(asked') = Len(asked) + 1 /\ Len(asked) \in Nat
      /\ todo \in Seq(Batch) /\ todo # <<>> /\ todo' = Tail(todo)
      /\ asked'[Len(asked')] = Head(todo)
      /\ \A t \in 1 .. Len(asked) : asked'[t] = asked[t]
      /\ Answer(F) /\ \A f \in F : f.of = Len(asked')
  BY AskBatchStep
<1> HIDE DEF F
<1>2. /\ kind = "path" /\ kind' = kind /\ calm /\ paced /\ at = "ask" /\ at' = "wait"
      /\ queue' = queue /\ edition' = edition /\ cover' = cover /\ first' = first
  BY DEF AskBatch, path
<1>3. queue = <<>> /\ \A f \in Fresh : f.n = 0
  BY <1>2 DEF BatchInv
<1>4. Fresh' \subseteq Fresh \cup F
  BY <1>1, AnswerGrows DEF Core
<1>5. first' < Len(asked')
  BY <1>1, <1>2 DEF Core, SagaTypes
<1>6. \A f \in cover : asked'[f.of] = asked[f.of]
  <2>1. \A f \in cover : f \in sent /\ f.n # 0
    BY <1>2 DEF Core, SagaTypes, CoverInv
  <2>2. QED
    BY <1>1, <1>2, <2>1, PathFrame
<1>7. ASSUME NEW h \in 1 .. Size[edition]
      PROVE  \/ Covered(h)'
             \/ \E i \in 1 .. Len(todo') : In(h, todo'[i])
             \/ In(h, asked'[Len(asked')])
  <2>1. CASE Covered(h)
    BY <1>2, <1>6, <2>1, CoveredStays
  <2>2. ASSUME NEW i \in 1 .. Len(todo), In(h, todo[i])
        PROVE  \/ \E j \in 1 .. Len(todo') : In(h, todo'[j])
               \/ In(h, asked'[Len(asked')])
    <3>1. /\ Head(todo) = todo[1] /\ Len(Tail(todo)) = Len(todo) - 1 /\ Len(todo) \in Nat
          /\ \A j \in 1 .. Len(Tail(todo)) : Tail(todo)[j] = todo[j + 1]
      BY <1>1, HeadTailProperties, LenProperties
    <3>2. CASE i = 1
      BY <1>1, <2>2, <3>1, <3>2
    <3>3. CASE i # 1
      <4>1. i - 1 \in 1 .. Len(todo') /\ todo'[i - 1] = todo[i]
        BY <1>1, <3>1, <3>3
      <4>2. QED
        BY <2>2, <4>1
    <3>4. QED
      BY <3>2, <3>3
  <2>3. Covered(h) \/ \E i \in 1 .. Len(todo) : In(h, todo[i])
    BY <1>2 DEF BatchInv
  <2>4. QED
    BY <2>1, <2>2, <2>3
<1>8. Len(queue') = 0
  BY <1>2, <1>3
<1>9. \A f \in Fresh' : f.n > 0 => f.of = Len(asked')
  BY <1>1, <1>3, <1>4
<1>10. \A h \in 1 .. Size[edition'] :
          \/ Covered(h)'
          \/ \E i \in 1 .. Len(todo') : In(h, todo'[i])
          \/ at' = "wait" /\ In(h, asked'[Len(asked')])
  BY <1>2, <1>7
<1>11. QED
  BY <1>2, <1>5, <1>8, <1>9, <1>10 DEF BatchInv, In

LEMMA BatchArrives ==
  ASSUME Core, BatchInv, NEW f \in sent, Arrive(f), kind = "path", calm', paced'
  PROVE  BatchInv'
<1> USE DEF device, map, path, run
<1>1. /\ calm /\ paced /\ f \in Fresh /\ queue = <<>> /\ Fresh' \subseteq Fresh
      /\ UNCHANGED <<kind, edition, at, asked, first, todo>>
  BY DEF Arrive, Fresh, Counts
<1>2. cover' = (IF f.n > 0 THEN cover \cup {f} ELSE cover)
  BY DEF Arrive
<1>3. \A h : Covered(h) => Covered(h)'
  BY <1>1, <1>2 DEF Covered
<1>4. \A h : \A b : In(h, b)' <=> In(h, b)
  BY DEF In
<1>5. CASE at = "wait" /\ f.n > 0
  <2>1. queue' = Append(queue, f)
    BY <1>5 DEF Arrive, Wanted
  <2>2. queue' = <<f>>
    BY <1>1, <2>1
  <2>3. f.of = Len(asked) /\ first < Len(asked) /\ f \in cover'
    BY <1>1, <1>2, <1>5 DEF BatchInv
  <2>4. Len(queue') <= 1 /\ \A i \in 1 .. Len(queue') : queue'[i] \in cover' /\ queue'[i].of = Len(asked)
    BY <2>2, <2>3
  <2>5. QED
    BY <1>1, <1>3, <1>5, <2>3, <2>4 DEF BatchInv, In
<1>6. CASE at = "wait" /\ ~ f.n > 0
  <2>1. queue' = <<>>
    BY <1>1, <1>6 DEF Arrive, Wanted
  <2>2. Len(queue') = 0
    BY <2>1
  <2>3. QED
    BY <1>1, <1>3, <1>6, <2>2 DEF BatchInv, In
<1>7. CASE at # "wait"
  <2>1. at = "ask" => queue' = <<>>
    BY <1>1, <1>7 DEF Arrive, Wanted, BatchInv
  <2>2. QED
    BY <1>1, <1>3, <1>7, <2>1 DEF BatchInv, In
<1>8. QED
  BY <1>5, <1>6, <1>7

LEMMA BatchTaken ==
  ASSUME Core, CoverInv, BatchInv, TakeCover, calm', paced'
  PROVE  BatchInv'
<1> USE DEF device, map
<1> DEFINE f == Head1
           now == Cardinality(MissingOf(cover))
           t == Len(asked)
<1>1. /\ kind = "path" /\ calm /\ paced /\ at = "wait" /\ queue # <<>>
      /\ UNCHANGED <<kind, edition, cover, sent, old, asked, first>>
  BY DEF TakeCover
<1>2. /\ Len(queue) = 1 /\ f = queue[1] /\ Tail(queue) \in Seq(sent) /\ Len(Tail(queue)) = 0
      /\ f \in cover /\ f.of = t /\ first < t
  <2>1. Len(queue) \in Nat \ {0} /\ f = queue[1] /\ Len(Tail(queue)) = Len(queue) - 1
        /\ Tail(queue) \in Seq(sent)
    BY <1>1, QueueHead DEF Core
  <2>2. Len(queue) <= 1
    BY <1>1 DEF BatchInv
  <2>3. QED
    BY <1>1, <2>1, <2>2 DEF BatchInv
<1>3. Tail(queue) = <<>>
  BY <1>2, EmptySeq
<1>4. \A h : Covered(h)' <=> Covered(h)
  BY <1>1 DEF Covered
<1>5. Fresh' = Fresh
  BY <1>1 DEF Fresh
<1>6. \/ at' \in {"start", "failed"}
      \/ at' = at /\ queue' = Tail(queue) /\ todo' = todo
      \/ now = 0 /\ at' = "ask" /\ todo' = todo /\ queue' = Tail(queue)
      \/ now = 0 /\ at' = "done" /\ todo = <<>>
  BY DEF TakeCover, Interrupted, Next1, Done
<1>7. CASE at' \in {"start", "failed"}
  BY <1>7 DEF BatchInv
<1>8. CASE at' = at /\ queue' = Tail(queue) /\ todo' = todo
  <2>1. Len(queue') = 0 /\ at' = "wait"
    BY <1>1, <1>2, <1>8
  <2>2. QED
    BY <1>1, <1>4, <1>5, <1>8, <2>1 DEF BatchInv, In
<1>9. ASSUME now = 0
      PROVE  /\ \A g \in Fresh : g.n = 0
             /\ \A h \in 1 .. Size[edition] : Covered(h) \/ \E i \in 1 .. Len(todo) : In(h, todo[i])
  <2>1. \A n \in 1 .. Len(asked[t]) :
            \E g \in cover : g.of = t /\ g.n = n /\ g = [of |-> t, n |-> n, total |-> Len(asked[t])]
    BY <1>1, <1>2, <1>9, NothingMissing
  <2>2. ASSUME NEW g \in Fresh PROVE g.n = 0
    <3>1. SUFFICES ASSUME g.n # 0 PROVE FALSE
      OBVIOUS
    <3>2. g \in sent /\ g \notin old
      BY DEF Fresh
    <3>3. g.n > 0 /\ g.n \in 1 .. Len(asked[g.of]) /\ g = [of |-> g.of, n |-> g.n, total |-> Len(asked[g.of])]
      BY <1>1, <3>1, <3>2, PathFrame
    <3>4. g.of = t
      BY <1>1, <3>3 DEF BatchInv
    <3>5. g \in cover
      BY <2>1, <3>3, <3>4
    <3>6. QED
      BY <1>1, <3>2, <3>5 DEF CoverInv
  <2>3. ASSUME NEW h, In(h, asked[t]) PROVE Covered(h)
    BY <2>1, <2>3 DEF In, Covered
  <2>4. QED
    BY <1>1, <2>2, <2>3 DEF BatchInv
<1>10. CASE now = 0 /\ at' = "ask" /\ todo' = todo /\ queue' = Tail(queue)
  <2>1. queue' = <<>>
    BY <1>3, <1>10
  <2>2. QED
    BY <1>1, <1>4, <1>5, <1>9, <1>10, <2>1 DEF BatchInv, In
<1>11. CASE now = 0 /\ at' = "done" /\ todo = <<>>
  <2>1. Len(todo) = 0
    BY <1>11
  <2>2. \A h \in 1 .. Size[edition] : Covered(h)
    BY <1>9, <1>11, <2>1
  <2>3. QED
    BY <1>1, <1>4, <1>11, <2>2 DEF BatchInv
<1>12. QED
  BY <1>6, <1>7, <1>8, <1>10, <1>11

LEMMA BatchKept ==
  ASSUME Core, CoverInv, LinesInv, BatchInv, SagaNext
  PROVE  BatchInv'
<1> USE DEF device, map, path, run
<1> SUFFICES ASSUME kind = "path", calm', paced' PROVE BatchInv'
  BY KindSteps DEF BatchInv
<1>1. CASE Edit \/ JobEnds
  BY <1>1 DEF Edit, JobEnds
<1>2. ASSUME NEW f \in sent, Arrive(f) PROVE BatchInv'
  BY <1>2, BatchArrives
<1>3. CASE Execute \/ StartRun \/ Interrupt \/ SagaGivesUp \/ AskLines
  <2>1. at' \in {"start", "failed", "begin", "lines"}
    BY <1>3 DEF Execute, StartRun, Interrupt, Interrupted, SagaGivesUp, AskLines
  <2>2. QED
    BY <2>1 DEF BatchInv
<1>4. CASE LinesEnd
  <2>1. /\ calm /\ queue # <<>> /\ at = "lines"
        /\ UNCHANGED <<kind, edition, sent, old, cover, asked>>
    BY <1>4 DEF LinesEnd
  <2>2. lines = edition
    BY <2>1 DEF LinesInv
  <2>3. Fetch \/ at' \in {"failed", "route"}
    BY <1>4 DEF LinesEnd
  <2>4. QED
    BY <2>1, <2>2, <2>3, FetchBatches DEF BatchInv
<1>5. CASE Routed
  <2>1. /\ calm /\ at = "route" /\ Fetch
        /\ UNCHANGED <<kind, edition, sent, old, cover, asked>>
    BY <1>5 DEF Routed
  <2>2. lines = edition
    BY <2>1 DEF LinesInv
  <2>3. QED
    BY <2>1, <2>2, FetchBatches
<1>6. CASE AskBatch
  BY <1>6, BatchAsked
<1>7. CASE Residual
  <2>1. calm /\ paced /\ at = "wait" /\ queue # <<>> /\ Head1.of <= first
    BY <1>7 DEF Residual
  <2>2. Len(queue) \in Nat \ {0} /\ Head1 = queue[1]
    BY <2>1, QueueHead DEF Core
  <2>3. Head1.of = Len(asked) /\ first < Len(asked)
    BY <2>1, <2>2 DEF BatchInv
  <2>4. first \in Nat /\ Len(asked) \in Nat
    BY LenProperties DEF Core, SagaTypes
  <2>5. QED
    BY <2>1, <2>3, <2>4
<1>8. CASE TakeCover
  BY <1>8, BatchTaken
<1>9. QED
  BY <1>1, <1>2, <1>3, <1>4, <1>5, <1>6, <1>7, <1>8, KindSteps

PathInv == Core /\ CoverInv /\ LinesInv /\ BatchInv

\* A path fetch that ends well in an undisturbed run, each frame taken before the
\* next one comes, leaves the path of every hash of the device's list in the map,
\* whatever the map had before (mow_path_saga.py), for any batch size and editions.
THEOREM PathIsWhole == SagaSpec => []PathWhole
<1>1. SagaInit => PathInv
  BY CoreInit DEF PathInv, SagaInit, CoverInv, LinesInv, BatchInv, Fresh
<1>2. PathInv /\ [SagaNext]_sagaVars => PathInv'
  <2> SUFFICES ASSUME PathInv, [SagaNext]_sagaVars PROVE PathInv'
    OBVIOUS
  <2>1. Core'
    BY CoreKept DEF PathInv
  <2>2. CASE SagaNext
    BY <2>1, <2>2, CoverKept, LinesKept, BatchKept DEF PathInv
  <2>3. CASE UNCHANGED sagaVars
    BY <2>1, <2>3 DEF PathInv, sagaVars, CoverInv, LinesInv, BatchInv, Fresh, Covered, In
  <2>4. QED
    BY <2>2, <2>3
<1>3. PathInv => PathWhole
  BY DEF PathInv, LinesInv, BatchInv, PathWhole, PathPromised
<1>4. QED
  BY <1>1, <1>2, <1>3, PTL DEF SagaSpec
=============================================================================
