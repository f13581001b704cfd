------------------------------ MODULE MapCopy ------------------------------
(***************************************************************************)
(* What a map fetch promises: when nothing disturbs it, it ends with a     *)
(* copy of the map the device holds.  How the copy comes about -- frames,  *)
(* acks, retries -- is left open: while a fetch runs the copy may be       *)
(* anything.  MapFetch implements this specification.                      *)
(***************************************************************************)
EXTENDS Naturals

CONSTANTS Editions,     \* the states the device's own map goes through
          Copies,       \* what an app can hold of a map
          MapOf         \* MapOf[e]: the copy of edition e, nothing missing

VARIABLES edition,      \* the map on the device
          phase,        \* "idle", "running", "done" or "failed"
          copy,         \* the map in the app
          calm          \* nothing has disturbed the fetch so far

vars == <<edition, phase, copy, calm>>

TypeOK == /\ edition \in Editions
          /\ phase \in {"idle", "running", "done", "failed"}
          /\ copy \in Copies
          /\ calm \in BOOLEAN

Init == TypeOK /\ phase = "idle"

\* A run begins; it is calm when the app knows the device's present edition.
Begin == /\ phase' = "running"
         /\ calm' \in BOOLEAN
         /\ copy' \in Copies
         /\ UNCHANGED edition

\* The copy is worked on.
Work == /\ phase # "done"
        /\ copy' \in Copies
        /\ UNCHANGED <<edition, phase, calm>>

\* The device's map is edited, or a frame of an earlier exchange turns up.
Disturb == /\ calm' = FALSE
           /\ edition' \in Editions
           /\ copy' \in Copies
           /\ UNCHANGED phase

Finish == /\ phase = "running"
          /\ phase' = "done"
          /\ copy' \in Copies
          /\ calm => copy' = MapOf[edition]
          /\ UNCHANGED <<edition, calm>>

Fail == /\ phase = "running"
        /\ phase' = "failed"
        /\ copy' \in Copies
        /\ UNCHANGED <<edition, calm>>

Next == Begin \/ Work \/ Disturb \/ Finish \/ Fail

Spec == Init /\ [][Next]_vars

-----------------------------------------------------------------------------

\* A fetch that nothing disturbed leaves the map of the device in the app, and
\* the map stays that until something changes.
Faithful == phase = "done" /\ calm => copy = MapOf[edition]
=============================================================================
