-------------------------- MODULE ProjectWorkflow ---------------------------
(***************************************************************************)
(* The status policy of a project: validateTaskStateTransition of          *)
(* src/src/lib/project-workflow.ts, as a predicate of what it reads.       *)
(***************************************************************************)

\* The policy columns of a project row.
Policies ==
    [requireApprovalForDone: BOOLEAN,
     requireReviewBeforeDone: BOOLEAN,
     commentRequiredForReview: BOOLEAN,
     blockStatusChangesWithPendingApproval: BOOLEAN,
     onlyLeadCanChangeStatus: BOOLEAN]

ClosedStates == {"done", "failed", "dead_letter"}

CanWorkerCompleteDirectly(policy) ==
    ~policy.requireApprovalForDone /\ ~policy.requireReviewBeforeDone
      /\ ~policy.onlyLeadCanChangeStatus

(***************************************************************************)
(* May the actor move a task from `state` to `next`?  `lead` and `mine`    *)
(* say who the actor is (the project's lead, the task's assigned agent),   *)
(* `pending` whether the task has a pending approval, `comment` whether    *)
(* the request carries a comment.                                          *)
(***************************************************************************)
TransitionAllowed(policy, state, next, lead, mine, pending, comment) ==
    \/ next = state
    \/ /\ state \notin ClosedStates
       /\ mine /\ ~lead => /\ next = "in_progress" => state \in {"inbox", "blocked"}
                           /\ next = "review" => state = "in_progress"
       /\ next = "blocked" => comment
       /\ policy.blockStatusChangesWithPendingApproval /\ pending => next = "review"
       /\ next = "done" =>
            /\ ~(policy.requireApprovalForDone /\ pending)
            /\ policy.requireReviewBeforeDone => state = "review"
            /\ lead \/ CanWorkerCompleteDirectly(policy)
       /\ next = "review" /\ policy.commentRequiredForReview => comment
       /\ policy.onlyLeadCanChangeStatus /\ ~lead =>
            next \in {"review", "failed", "blocked"} \/ (next = "in_progress" /\ mine)
=============================================================================
