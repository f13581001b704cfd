-------------------------- MODULE CommandLifecycle --------------------------
(***************************************************************************)
(* What DeviceCommandQueue promises about one command, whatever the        *)
(* transports, sagas and timers around it do: it is run at most once at a  *)
(* time and in at most one life, only a command below saga priority can be *)
(* discarded without having been run, and a final state is final.          *)
(***************************************************************************)
EXTENDS Naturals

CONSTANT MaxItems   \* the commands ever accepted, at most

Ids == 1 .. MaxItems

Waiting  == {"droppable", "protected"}
Final    == {"done", "failed", "discarded", "cancelled"}
Statuses == {"unborn", "running"} \cup Waiting \cup Final

VARIABLE fate

Become(i, s) == fate' = [fate EXCEPT ![i] = s]

Init == fate = [i \in Ids |-> "unborn"]

\* A caller hands over command i.
Accept(i) == fate[i] = "unborn" /\ \E s \in Waiting : Become(i, s)

\* The command is run: nothing else is running.
Run(i) ==
    /\ fate[i] \in Waiting
    /\ \A j \in Ids : fate[j] # "running"
    /\ Become(i, "running")

\* The run ends, well or not.
Finish(i) == fate[i] = "running" /\ \E s \in {"done", "failed"} : Become(i, s)

\* A command that is not an emergency and not a saga may be discarded unrun.
Discard(i) == fate[i] = "droppable" /\ Become(i, "discarded")

\* Shutting the queue down abandons the command the processor holds.
Cancel(i) == fate[i] \in Waiting \cup {"running"} /\ Become(i, "cancelled")

Next == \E i \in Ids : Accept(i) \/ Run(i) \/ Finish(i) \/ Discard(i) \/ Cancel(i)

Spec == Init /\ [][Next]_fate
=============================================================================
