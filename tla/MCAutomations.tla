--------------------------- MODULE MCAutomations ----------------------------
(* One automation, a few runs and slots of it. *)
EXTENDS Automations, TLC

Mix(slots, passes, clicks, edits, reports, failures, stops) ==
    "slot" :> slots @@ "pass" :> passes @@ "click" :> clicks @@ "edit" :> edits @@
    "report" :> reports @@ "failure" :> failures @@ "stop" :> stops

Mixes == {
    Mix(1, 3, 1, 0, 0, 1, 0),   \* a slot and a click
    Mix(2, 4, 0, 0, 0, 2, 0),   \* slots that start nothing, one after the other
    Mix(1, 3, 0, 2, 0, 0, 1),   \* the automation paused and resumed, a process that stops
    Mix(1, 3, 0, 4, 0, 0, 0),   \* edits of two people that cross claims and each other
    Mix(2, 5, 0, 1, 0, 0, 0),   \* an edit that brings an earlier slot back for a late claim
    Mix(1, 2, 1, 0, 1, 0, 0),   \* a run of the agent's own beside Emperor's, a report about one
    Mix(0, 0, 1, 0, 2, 0, 0),   \* a run reported more than once
    Mix(0, 0, 2, 0, 1, 1, 0),   \* clicks that fail
    Mix(0, 0, 2, 0, 0, 0, 1)}   \* clicks that stop half way

Symmetry == Permutations(Schedulers) \cup Permutations(People)
=============================================================================
