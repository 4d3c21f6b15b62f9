------------------------------- MODULE OneAsk -------------------------------
(***************************************************************************)
(* What the approval flow promises to the people who decide: each task has *)
(* at most one question open about it, a question covers a fixed set of    *)
(* tasks, it is asked once and closed once, for all its tasks together.    *)
(* Abstract specification; Approvals implements it.                        *)
(***************************************************************************)
EXTENDS Naturals

CONSTANTS
    Tasks,
    Questions   \* positive numbers

VARIABLES
    open,    \* [Tasks -> Questions \cup {0}]: the question open about a task, 0 for none
    asked    \* the questions asked so far

vars == <<open, asked>>

TypeOK ==
    /\ open \in [Tasks -> Questions \cup {0}]
    /\ asked \subseteq Questions

Init == open = [t \in Tasks |-> 0] /\ asked = {}

Open(q, S) ==
    /\ q \notin asked
    /\ S # {}
    /\ \A t \in S : open[t] = 0
    /\ open' = [t \in Tasks |-> IF t \in S THEN q ELSE open[t]]
    /\ asked' = asked \cup {q}

Close(q) ==
    /\ \E t \in Tasks : open[t] = q
    /\ open' = [t \in Tasks |-> IF open[t] = q THEN 0 ELSE open[t]]
    /\ UNCHANGED asked

Next == \E q \in Questions : Close(q) \/ \E S \in SUBSET Tasks : Open(q, S)

Spec == Init /\ [][Next]_vars
=============================================================================
