---------------------------- MODULE MCTaskSystem ----------------------------
(* Small instances of the task control plane. *)
EXTENDS TaskSystem, TLC

OneTask == {1}

Everywhere == [a \in Agents |-> Tasks]
NoBlockers == [t \in Tasks |-> {}]

PolicyWith(flags) ==
    [p \in {"requireApprovalForDone", "requireReviewBeforeDone",
            "commentRequiredForReview", "blockStatusChangesWithPendingApproval",
            "onlyLeadCanChangeStatus"} |-> p \in flags]

OpenPolicy == PolicyWith({})
StrictPolicy == PolicyWith({"requireApprovalForDone", "requireReviewBeforeDone",
                            "blockStatusChangesWithPendingApproval"})

Workers == Permutations(Agents) \cup Permutations(Slots)
=============================================================================
