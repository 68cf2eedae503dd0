--------------------------- MODULE PointLifecycle ---------------------------
(* What the extension promises about every recovery point, whatever happens  *)
(* between the steps that make and remove one: data is collected first, the   *)
(* point is offered only when the data is whole, it is hidden before anything *)
(* is taken away, and it is forgotten only when nothing is left.              *)
(*                                                                          *)
(* The promise covers a point until its operation runs on after publishing    *)
(* it; then the point is "repeated" and nothing is promised (README, F1).     *)
CONSTANT Points

VARIABLES
    phase,    \* [Points -> Phase]
    data      \* [Points -> {"none", "partial", "whole"}]: backup and archive

vars == <<phase, data>>

Phase == {"unpublished", "offered", "hidden", "removed", "repeated"}
Data == {"none", "partial", "whole"}

Init ==
    /\ phase = [p \in Points |-> "unpublished"]
    /\ data = [p \in Points |-> "none"]

Move(p, from, to) ==
    /\ phase[p] = from
    /\ phase' = [phase EXCEPT ![p] = to]

\* Attempts come and go: data is collected, lost to a failure, completed.
Collect(p) ==
    /\ phase[p] = "unpublished"
    /\ \E d \in Data : data' = [data EXCEPT ![p] = d]
    /\ UNCHANGED phase

Offer(p) ==
    /\ data[p] = "whole"
    /\ Move(p, "unpublished", "offered")
    /\ UNCHANGED data

Hide(p) ==
    /\ Move(p, "offered", "hidden")
    /\ UNCHANGED data

\* Hidden data only ever shrinks.
Discard(p) ==
    /\ phase[p] = "hidden"
    /\ data[p] # "none"
    /\ \E d \in {"none", "partial"} : data' = [data EXCEPT ![p] = d]
    /\ UNCHANGED phase

Forget(p) ==
    /\ data[p] = "none"
    /\ Move(p, "hidden", "removed")
    /\ UNCHANGED data

\* An attempt working from an old listing puts a "deleting" manifest back.
Resurface(p) ==
    /\ Move(p, "removed", "hidden")
    /\ UNCHANGED data

Repeat(p) ==
    /\ phase' = [phase EXCEPT ![p] = "repeated"]
    /\ \E d \in Data : data' = [data EXCEPT ![p] = d]

Next == \E p \in Points :
    Collect(p) \/ Offer(p) \/ Hide(p) \/ Discard(p) \/ Forget(p) \/ Resurface(p) \/ Repeat(p)

Spec == Init /\ [][Next]_vars
=============================================================================
