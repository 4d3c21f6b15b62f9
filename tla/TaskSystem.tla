----------------------------- MODULE TaskSystem -----------------------------
(***************************************************************************)
(* The task control plane: request handlers (TaskBoard), the approval flow *)
(* (Approvals) and the watchdogs (Watchdog) over one task table.           *)
(***************************************************************************)
EXTENDS TaskBoard, Watchdog

vars == <<rowVars, approvalVars, boardVars, watchVars>>

Init == RowsInit /\ ApprovalsInit /\ BoardInit /\ WatchdogInit

Next ==
    \/ BoardNext /\ UNCHANGED watchVars
    \/ ApprovalsNext /\ UNCHANGED <<boardVars, watchVars>>
    \/ WatchdogNext /\ UNCHANGED <<approvalVars, boardVars>>

Spec == Init /\ [][Next]_vars

(***************************************************************************)
(* The watchdog runs each minute in at least one process.  Passes may be   *)
(* cut short, but a statement that pass after pass comes to is executed in *)
(* one of them: hence SF, and for each task a pass reclaims.               *)
(***************************************************************************)
OfSystem(step) == step /\ UNCHANGED <<approvalVars, boardVars>>

WatchdogFairness ==
    /\ SF_vars(\E w \in Replicas : OfSystem(StartPass(w)))
    /\ SF_vars(\E w \in Replicas : OfSystem(ResolveOwnStaleIncidents(w)))
    /\ \A t \in Tasks : SF_vars(\E w \in Replicas : OfSystem(ReclaimTask(w, t)))
    /\ SF_vars(\E w \in Replicas : OfSystem(RaiseDeadLetter(w) \/ DetectionStep(w)))

FairSpec == Spec /\ WatchdogFairness

TypeOK == RowsTypeOK /\ ApprovalsTypeOK /\ BoardTypeOK /\ WatchdogTypeOK

(***************************************************************************)
(* A claim takes nothing from anybody, whatever changed since its          *)
(* snapshot: not a person's task, not a lease another agent holds (the     *)
(* claim's SQL never reads lease_owner), not work already in progress      *)
(* under a lease, in review or closed.                                     *)
(***************************************************************************)
ClaimTakesNoLease ==
    [][\A r \in Slots : \A t \in Tasks :
         req[r].op = "claim" /\ req'[r].op = "none" /\ task'[t] # task[t] =>
           /\ task[t].member = None
           /\ task[t].leaseOwner \in {None, req[r].actor}
           /\ task[t].state = "inbox" \/ task[t].leaseUntil = "null"
           /\ task[t].state \in {"inbox", "in_progress"}]_<<task, req>>

(***************************************************************************)
(* "Only the assigned agent can complete this task": the result of an      *)
(* agent that lost the task while its request was running is not written.  *)
(***************************************************************************)
OnlyAssigneeCompletes ==
    [][\A r \in Slots :
         req[r].op = "commit" /\ req'[r].op = "none" /\ task' # task =>
           task[req[r].on].agent = req[r].actor]_<<task, req>>

(***************************************************************************)
(* Through claims and results alone (no PATCH), a task that needs a        *)
(* person's sign-off is done only after an approval of its close.          *)
(***************************************************************************)
DoneWasApproved ==
    \A t \in Tasks : NeedsSignOff(t) /\ task[t].state = "done" =>
        \E i \in Ids : approval[i].status = "approved" /\ approval[i].type = "task_done"
                         /\ t \in approval[i].tasks
=============================================================================
