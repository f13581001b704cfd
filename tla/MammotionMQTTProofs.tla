------------------------ MODULE MammotionMQTTProofs ------------------------
(***************************************************************************)
(* Proofs about MammotionMQTT for any set of senders: a broker that keeps  *)
(* rejecting is asked at most twice, and the transport keeps the contract  *)
(* of CloudTransport.                                                      *)
(***************************************************************************)
EXTENDS MammotionMQTT, TLAPS

\* disconnect() joins exactly the task it has cancelled.
JoinInv ==
    /\ cancelled <=> closing = "joining"
    /\ closing = "joining" => pc # "off"
    /\ closing = "waking" => pc \in {"off", "starting"}

\* What the listeners were told, by the place of the task.
ToldInv ==
    /\ pc = "waiting" => avail = "disconnected"
    /\ pc \in {"off", "starting"} /\ closing # "waking" => avail = "disconnected"
    /\ pc \in {"checking", "dialing"} => avail = "connecting"

\* A rejection that the flag does not show is being answered, or was the last.
RejectedInv ==
    /\ pc \in {"starting", "checking", "dialing", "waiting"} =>
          rejected = 0 \/ (forced /\ rejected = 1)
    /\ pc = "renewing" => ~ forced /\ rejected \in {0, 1}
    /\ pc = "open" => rejected = 0

IInv == TypeOK /\ JoinInv /\ ToldInv /\ RejectedInv

LEMMA InitIInv == Init => IInv
<1> SUFFICES ASSUME Init PROVE IInv
  OBVIOUS
<1>1. rejected \in 0 .. 2 /\ post \in [Senders -> {"none", "first", "renewal", "second"}]
  BY DEF Init
<1>2. TypeOK
  BY <1>1 DEF Init, TypeOK, States
<1>3. JoinInv /\ ToldInv /\ RejectedInv
  BY DEF Init, JoinInv, ToldInv, RejectedInv
<1>4. QED
  BY <1>2, <1>3 DEF IInv

-----------------------------------------------------------------------------
(* Other tasks.                                                            *)

LEMMA SenderKeeps == IInv /\ Sender => IInv'
<1> SUFFICES ASSUME IInv, NEW s \in Senders,
                    Send(s) \/ Posted(s) \/ Unauthorized(s) \/ Renewed(s) \/ SenderGivesUp(s)
             PROVE  IInv'
  BY DEF Sender
<1> USE DEF Send, Posted, Unauthorized, Renewed, SenderGivesUp, GiveUp, task, IInv
<1>1. UNCHANGED <<pc, avail, forced, cancelled, closing, wanted, rejected>>
  OBVIOUS
<1>2. post' \in [Senders -> {"none", "first", "renewal", "second"}]
  BY DEF TypeOK
<1>3. stop' \in BOOLEAN /\ dead' \in BOOLEAN
  BY DEF TypeOK
<1>4. QED
  BY <1>1, <1>2, <1>3 DEF TypeOK, JoinInv, ToldInv, RejectedInv

LEMMA ConnectKeeps == IInv /\ Connect => IInv'
<1> SUFFICES ASSUME IInv, Connect PROVE IInv'
  OBVIOUS
<1>1. rejected' \in 0 .. 2
  BY DEF Connect
<1>2. TypeOK'
  BY <1>1 DEF IInv, Connect, TypeOK
<1>3. JoinInv' /\ ToldInv' /\ RejectedInv'
  BY DEF IInv, Connect, TypeOK, JoinInv, ToldInv, RejectedInv
<1>4. QED
  BY <1>2, <1>3 DEF IInv

LEMMA DisconnectKeeps == IInv /\ (Disconnect \/ DisconnectReturns) => IInv'
<1> SUFFICES ASSUME IInv, Disconnect \/ DisconnectReturns PROVE IInv'
  OBVIOUS
<1> USE DEF IInv, Disconnect, DisconnectReturns, Cancel, TellTheRest
<1>1. TypeOK'
  BY DEF TypeOK, States
<1>2. JoinInv'
  BY DEF TypeOK, JoinInv
<1>3. ToldInv' /\ RejectedInv'
  BY DEF TypeOK, JoinInv, ToldInv, RejectedInv
<1>4. QED
  BY <1>1, <1>2, <1>3

-----------------------------------------------------------------------------
(* The task.                                                               *)

\* A task that runs is not being joined.
LEMMA RunsAlone == ASSUME IInv, NEW l, At(l) PROVE ~ cancelled /\ closing = "no"
BY DEF IInv, TypeOK, JoinInv, At

\* From the loop head to the dial.
LEMMA DialKeeps ==
    IInv /\ (Begin \/ Checked \/ CheckFails \/ CheckRefused \/ Connected \/ CredentialsRenewed)
        => IInv'
<1> SUFFICES ASSUME IInv,
                    Begin \/ Checked \/ CheckFails \/ CheckRefused \/ Connected \/ CredentialsRenewed
             PROVE  IInv'
  OBVIOUS
<1> USE DEF Begin, Checked, CheckFails, CheckRefused, Connected, CredentialsRenewed,
            RenewOnce, LoopHead, TaskEnds, GiveUp
<1>1. ~ cancelled /\ closing = "no"
  BY RunsAlone
<1>2. TypeOK'
  <2>1. rejected' \in 0 .. 2
    BY DEF IInv, TypeOK
  <2>2. QED
    BY <1>1, <2>1 DEF IInv, TypeOK, States
<1>3. JoinInv'
  BY <1>1 DEF IInv, JoinInv
<1>4. ToldInv'
  BY <1>1 DEF IInv, ToldInv, At
<1>5. RejectedInv'
  BY <1>1 DEF IInv, TypeOK, RejectedInv, At
<1>6. QED
  BY <1>2, <1>3, <1>4, <1>5 DEF IInv

\* From the dial to the sleep, or to the end.
LEMMA SessionKeeps ==
    IInv /\ (LastMessage \/ SessionFails \/ SessionRefused \/ Rejected \/ RenewalFails
                \/ RenewalRefused \/ Ended)
        => IInv'
<1> SUFFICES ASSUME IInv,
                    LastMessage \/ SessionFails \/ SessionRefused \/ Rejected \/ RenewalFails
                       \/ RenewalRefused \/ Ended
             PROVE  IInv'
  OBVIOUS
<1> USE DEF LastMessage, SessionFails, SessionRefused, Rejected, RenewalFails,
            RenewalRefused, Ended, LoopHead, Retry, TaskEnds, GiveUp
<1>1. ~ cancelled /\ closing = "no"
  BY RunsAlone
<1>2. TypeOK'
  <2>1. rejected' \in 0 .. 2
    BY DEF IInv, TypeOK, RejectedInv, At
  <2>2. QED
    BY <1>1, <2>1 DEF IInv, TypeOK, States
<1>3. JoinInv'
  BY <1>1 DEF IInv, JoinInv
<1>4. ToldInv'
  BY <1>1 DEF IInv, ToldInv, At
<1>5. RejectedInv'
  BY <1>1 DEF IInv, TypeOK, RejectedInv, At
<1>6. QED
  BY <1>2, <1>3, <1>4, <1>5 DEF IInv

LEMMA CancelledKeeps == IInv /\ Cancelled => IInv'
<1> SUFFICES ASSUME IInv, Cancelled PROVE IInv'
  OBVIOUS
<1> USE DEF IInv, Cancelled, TaskEnds
<1>1. closing = "joining" /\ pc' = "off" /\ closing' = "waking" /\ ~ cancelled'
  BY DEF JoinInv
<1>2. TypeOK'
  BY <1>1 DEF TypeOK, States
<1>3. JoinInv' /\ ToldInv' /\ RejectedInv'
  BY <1>1 DEF JoinInv, ToldInv, RejectedInv
<1>4. QED
  BY <1>2, <1>3

LEMMA NextIInv == IInv /\ [Next]_vars => IInv'
<1> SUFFICES ASSUME IInv, [Next]_vars PROVE IInv'
  OBVIOUS
<1>1. CASE UNCHANGED vars
  BY <1>1 DEF vars, IInv, TypeOK, JoinInv, ToldInv, RejectedInv
<1>2. CASE Progress
  BY <1>2, DialKeeps, SessionKeeps, CancelledKeeps, DisconnectKeeps DEF Progress
<1>3. CASE Rejected \/ SessionFails \/ SessionRefused \/ LastMessage \/ Connect \/ Disconnect \/ Sender
  BY <1>3, SessionKeeps, ConnectKeeps, DisconnectKeeps, SenderKeeps
<1>4. QED
  BY <1>1, <1>2, <1>3 DEF Next

LEMMA Invariance == Spec => []IInv
BY InitIInv, NextIInv, PTL DEF Spec

\* One forced refresh, then the second rejection ends the task: however
\* failures, refreshes and connections interleave, a broker that rejects is
\* not asked a third time.
THEOREM TypeCorrect == Spec => []TypeOK
BY Invariance, PTL DEF IInv

-----------------------------------------------------------------------------
(* The contract of a cloud transport.                                      *)

\* What runs is the same before and after a step that ends no task.
LEMMA TaskTells ==
    IInv /\ (Begin \/ Connected \/ LastMessage \/ SessionFails \/ RenewalFails \/ Ended
                \/ CredentialsRenewed)
        => [Contract!Next]_Contract!vars
<1> SUFFICES ASSUME IInv,
                    Begin \/ Connected \/ LastMessage \/ SessionFails \/ RenewalFails \/ Ended
                       \/ CredentialsRenewed
             PROVE  [Contract!Next]_Contract!vars
  OBVIOUS
<1> USE DEF Contract!Next, Contract!vars, Contract!Tell, Contract!End, Contract!States,
            At, LoopHead, Retry, TaskEnds
<1>1. ~ cancelled /\ closing = "no"
  BY RunsAlone DEF Begin, Connected, LastMessage, SessionFails, RenewalFails, Ended,
                   CredentialsRenewed
<1>2. CASE Connected
  <2>1. Contract!Tell("connected")
    BY <1>2 DEF Connected, IInv, ToldInv
  <2>2. QED
    BY <2>1
<1>3. CASE CredentialsRenewed
  <2>1. Contract!Tell("connecting")
    BY <1>3 DEF CredentialsRenewed, IInv, ToldInv
  <2>2. QED
    BY <2>1
<1>4. CASE Begin
  <2>1. Contract!Tell("connecting") \/ Contract!End
    BY <1>1, <1>4 DEF Begin
  <2>2. QED
    BY <2>1
<1>5. CASE LastMessage \/ SessionFails \/ RenewalFails \/ Ended
  <2>1. Contract!Tell("disconnected") \/ Contract!End
    BY <1>1, <1>5 DEF LastMessage, SessionFails, RenewalFails, Ended
  <2>2. QED
    BY <2>1
<1>6. QED
  BY <1>2, <1>3, <1>4, <1>5

\* Giving up, in the task or in a sender, leaves the loop where it is.
LEMMA GivesUp ==
    IInv /\ (CheckRefused \/ SessionRefused \/ Rejected \/ RenewalRefused \/ Sender)
        => [Contract!Next]_Contract!vars
<1> SUFFICES ASSUME IInv, CheckRefused \/ SessionRefused \/ Rejected \/ RenewalRefused \/ Sender
             PROVE  [Contract!Next]_Contract!vars
  OBVIOUS
<1>1. avail' = avail /\ closing' = closing /\ (pc = "off" <=> pc' = "off")
  BY DEF CheckRefused, SessionRefused, Rejected, RenewalRefused, Sender, At, GiveUp, Send,
         Posted, Unauthorized, Renewed, SenderGivesUp, task
<1>2. dead' = dead \/ dead' = TRUE
  BY DEF CheckRefused, SessionRefused, Rejected, RenewalRefused, Sender, GiveUp, Send,
         Posted, Unauthorized, Renewed, SenderGivesUp, task
<1>3. QED
  BY <1>1, <1>2 DEF Contract!Next, Contract!vars, Contract!GiveUp

\* A cancelled task is over for the listeners when disconnect() returns, which
\* says what the task may have left unsaid.
LEMMA DisconnectTells ==
    IInv /\ (Disconnect \/ Cancelled \/ DisconnectReturns) => [Contract!Next]_Contract!vars
<1> USE DEF Contract!Next, Contract!vars, Contract!Tell, Contract!End, Contract!States
<1>1. ASSUME IInv, Disconnect PROVE UNCHANGED Contract!vars
  BY <1>1 DEF Disconnect, IInv, ToldInv
<1>2. ASSUME IInv, Cancelled PROVE Contract!Tell("disconnected") \/ UNCHANGED Contract!vars
  BY <1>2 DEF Cancelled, TaskEnds, IInv, JoinInv
<1>3. ASSUME IInv, DisconnectReturns PROVE Contract!Tell("disconnected") \/ Contract!End
  BY <1>3 DEF DisconnectReturns, TellTheRest
<1>4. QED
  BY <1>1, <1>2, <1>3

LEMMA StepKeepsContract == IInv /\ [Next]_vars => [Contract!Next]_Contract!vars
<1> SUFFICES ASSUME IInv, [Next]_vars PROVE [Contract!Next]_Contract!vars
  OBVIOUS
<1>1. CASE Connect
  BY <1>1 DEF Connect, Contract!Next, Contract!Start, Contract!vars
<1>2. CASE Checked \/ CheckFails \/ UNCHANGED vars
  BY <1>2 DEF Checked, CheckFails, At, vars, Contract!vars
<1>3. QED
  BY <1>1, <1>2, TaskTells, GivesUp, DisconnectTells DEF Next, Progress

\* MQTTTransport keeps what a cloud transport promises to the handle, although
\* a task cancelled outside a session ends without a word.
THEOREM KeepsContract == Spec => ContractSpec
<1>1. Init => Contract!Init
  BY DEF Init, Contract!Init
<1>2. QED
  BY <1>1, StepKeepsContract, Invariance, PTL DEF Spec, ContractSpec, Contract!Spec

\* A loop that has ended, in whatever way, leaves no listener with CONNECTING,
\* which would hold the commands of its mowers.
THEOREM NobodyHeld == Spec => []Contract!NothingHeld
<1>1. IInv => Contract!NothingHeld
  BY DEF IInv, TypeOK, ToldInv, Contract!NothingHeld
<1>2. QED
  BY <1>1, Invariance, PTL
=============================================================================
