----------------------------- MODULE Approvals ------------------------------
(***************************************************************************)
(* Asking people to sign off on tasks and applying what they decide        *)
(* (src/src/lib/approvals.ts, src/src/lib/approval-status.ts).             *)
(*                                                                         *)
(* An ask is a request handler: it takes one advisory lock per task in     *)
(* sorted order, looks for a pending approval, inserts one, commits, and   *)
(* only then (requestApprovalForTasks) moves the tasks to review.  A       *)
(* decision is one guarded UPDATE followed, outside any transaction, by a  *)
(* read of the linked tasks and one UPDATE per task.                       *)
(***************************************************************************)
EXTENDS TaskRows

CONSTANTS
    Slots,          \* request handlers that may be in flight at once
    Deciders,       \* decision handlers that may be in flight at once
    MaxApprovals,   \* bound: approvals created in a behaviour
    MayStop         \* the handlers that may stop half way (process exit, lost connection)

ASSUME ApprovalsAssumption ==
    /\ MaxApprovals \in Nat
    /\ IsFiniteSet(Slots) /\ None \notin Slots
    /\ MayStop \subseteq Slots \cup Deciders

VARIABLES
    approval,    \* [Ids -> Approval]: approvals joined with approval_task_links
    taskLock,    \* [Tasks -> Slots \cup {None}]: the per-task advisory locks
    ask,         \* [Slots -> Ask]: createApprovalRequest calls in progress
    decision     \* [Deciders -> Decision]: resolveApproval calls in progress

approvalVars == <<approval, taskLock, ask, decision>>

Ids == 1..MaxApprovals

\* "action" stands for every action type but task_done, "external" for those that expire.
ActionTypes == {"task_done", "action", "external"}
Verdicts == {"approved", "rejected", "dismissed"}
Statuses == Verdicts \cup {"unasked", "pending", "expired"}

Approval == [status: Statuses, type: ActionTypes, tasks: SUBSET Tasks]
Unasked == [status |-> "unasked", type |-> "task_done", tasks |-> {}]

Ask == [step: {"idle", "lock", "check", "insert", "move"},
        from: {"request", "direct"},
        tasks: SUBSET Tasks,
        type: ActionTypes,
        answer: Ids \cup {0}]
NoAsk == [step |-> "idle", from |-> "request", tasks |-> {}, type |-> "task_done", answer |-> 0]

Decision == [step: {"idle", "load", "apply"},
             id: Ids \cup {0},
             verdict: Verdicts,
             todo: SUBSET Tasks]
NoDecision == [step |-> "idle", id |-> 0, verdict |-> "dismissed", todo |-> {}]

ApprovalsInit ==
    /\ approval = [i \in Ids |-> Unasked]
    /\ taskLock = [t \in Tasks |-> None]
    /\ ask = [r \in Slots |-> NoAsk]
    /\ decision = [d \in Deciders |-> NoDecision]

ApprovalsTypeOK ==
    /\ approval \in [Ids -> Approval]
    /\ taskLock \in [Tasks -> Slots \cup {None}]
    /\ ask \in [Slots -> Ask]
    /\ decision \in [Deciders -> Decision]

PendingOn(t) == {i \in Ids : approval[i].status = "pending" /\ t \in approval[i].tasks}

HasPendingApproval(t) == PendingOn(t) # {}

\* Bound: an ask starts only if every ask in flight can still get an id.
IdsLeft ==
    Cardinality({i \in Ids : approval[i].status = "unasked"})
        > Cardinality({r \in Slots : ask[r].step # "idle"})

-----------------------------------------------------------------------------
(* createApprovalRequest, and requestApprovalForTasks around it ("request");  *)
(* "direct" is a caller that moves no task afterwards.                        *)

StartAsk(r, S, type, from) ==
    ask' = [ask EXCEPT ![r] = [step |-> "lock", from |-> from, tasks |-> S,
                               type |-> type, answer |-> 0]]

\* requestApprovalForTasks: every task must exist (not archived).
RequestApproval(r, S, type) ==
    /\ ask[r].step = "idle"
    /\ IdsLeft
    /\ S # {} /\ S \cap archived = {}
    /\ StartAsk(r, S, type, "request")
    /\ UNCHANGED <<rowVars, approval, taskLock, decision>>

\* POST /api/approvals: a person asks from the board, for whatever tasks they name.
AskFromBoard(r, S) ==
    /\ ask[r].step = "idle"
    /\ IdsLeft
    /\ S # {}
    /\ StartAsk(r, S, "task_done", "direct")
    /\ UNCHANGED <<rowVars, approval, taskLock, decision>>

\* Mutants of MayLock: a lock taken from its holder; locks taken in any order.
MayLockHeld(r, t) == \A u \in ask[r].tasks : u < t => taskLock[u] = r
MayLockUnsorted(r, t) == taskLock[t] = None

\* The locks are taken in sorted order, each waiting while another handler holds it.
MayLock(r, t) == taskLock[t] = None /\ \A u \in ask[r].tasks : u < t => taskLock[u] = r

\* pg_advisory_xact_lock for the next task.
LockTask(r, t) ==
    /\ ask[r].step = "lock"
    /\ t \in ask[r].tasks
    /\ MayLock(r, t)
    /\ taskLock' = [taskLock EXCEPT ![t] = r]
    /\ ask' = [ask EXCEPT ![r].step =
                 IF \A u \in ask[r].tasks : u # t => taskLock[u] = r THEN "check" ELSE "lock"]
    /\ UNCHANGED <<rowVars, approval, decision>>

ReleaseLocks(r) ==
    taskLock' = [t \in Tasks |-> IF taskLock[t] = r THEN None ELSE taskLock[t]]

\* After commit: requestApprovalForTasks goes on to move the tasks, the others are done.
Answered(r, i) ==
    ask' = [ask EXCEPT ![r] = IF ask[r].from = "request"
                              THEN [ask[r] EXCEPT !.step = "move", !.answer = i]
                              ELSE NoAsk]

\* Mutant of AlreadyAsked: looks for an approval pending on all of the tasks.
AllAlreadyAsked(r) == \A t \in ask[r].tasks : HasPendingApproval(t)

AlreadyAsked(r) == \E t \in ask[r].tasks : HasPendingApproval(t)

\* An approval pending on any of the tasks answers the ask (LIMIT 1: whichever).
ReuseApproval(r) ==
    /\ ask[r].step = "check"
    /\ \E t \in ask[r].tasks : \E i \in PendingOn(t) : Answered(r, i)
    /\ ReleaseLocks(r)
    /\ UNCHANGED <<rowVars, approval, decision>>

NonePending(r) ==
    /\ ask[r].step = "check"
    /\ ~AlreadyAsked(r)
    /\ ask' = [ask EXCEPT ![r].step = "insert"]
    /\ UNCHANGED <<rowVars, approval, taskLock, decision>>

InsertApproval(r) ==
    /\ ask[r].step = "insert"
    /\ \E i \in Ids :
         /\ approval[i].status = "unasked"
         /\ \A j \in Ids : j < i => approval[j].status # "unasked"
         /\ approval' = [approval EXCEPT ![i] =
                           [status |-> "pending", type |-> ask[r].type, tasks |-> ask[r].tasks]]
         /\ Answered(r, i)
    /\ ReleaseLocks(r)
    /\ UNCHANGED <<rowVars, decision>>

\* The closing UPDATE of requestApprovalForTasks: only `done` is spared; the lease stays.
MoveToReview(r) ==
    /\ ask[r].step = "move"
    /\ task' = [t \in Tasks |-> IF t \in ask[r].tasks /\ task[t].state # "done"
                                THEN [task[t] EXCEPT !.state = "review"] ELSE task[t]]
    /\ ask' = [ask EXCEPT ![r] = NoAsk]
    /\ UNCHANGED <<retries, archived, approval, taskLock, decision>>

\* The connection is gone: the transaction rolls back and its locks are released.
AskStops(r) ==
    /\ r \in MayStop
    /\ ask[r].step # "idle"
    /\ ask' = [ask EXCEPT ![r] = NoAsk]
    /\ ReleaseLocks(r)
    /\ UNCHANGED <<rowVars, approval, decision>>

-----------------------------------------------------------------------------
(* resolveApproval and expireStaleApprovals *)

\* Mutants of ResolutionState: every approval sends the task back to work; every one closes it.
ResolutionReopens(verdict, type) == IF verdict = "dismissed" THEN None ELSE "in_progress"
ResolutionCloses(verdict, type) ==
    IF verdict = "approved" THEN "done" ELSE ResolutionReopens(verdict, type)

\* resolutionTaskState; None: the task is left where it is.
ResolutionState(verdict, type) ==
    CASE verdict \notin {"approved", "rejected"} -> None
      [] verdict = "approved" /\ type = "task_done" -> "done"
      [] OTHER -> "in_progress"

\* Mutant of Undecided: any approval may be decided (again).
Asked(i) == approval[i].status # "unasked"

Undecided(i) == approval[i].status = "pending"

\* UPDATE approvals ... WHERE status = 'pending': the first decision wins.
Decide(d, i, verdict) ==
    /\ decision[d].step = "idle"
    /\ Undecided(i)
    /\ approval' = [approval EXCEPT ![i].status = verdict]
    /\ decision' = [decision EXCEPT ![d] =
                      [step |-> "load", id |-> i, verdict |-> verdict, todo |-> {}]]
    /\ UNCHANGED <<rowVars, taskLock, ask>>

\* loadLinkedTasks; a task read as done needs no second close.
LoadLinkedTasks(d) ==
    /\ decision[d].step = "load"
    /\ LET a    == approval[decision[d].id]
           next == ResolutionState(decision[d].verdict, a.type)
           todo == {t \in a.tasks : next # None /\ ~(next = "done" /\ task[t].state = "done")}
       IN decision' = [decision EXCEPT ![d] =
                         IF todo = {} THEN NoDecision
                         ELSE [decision[d] EXCEPT !.step = "apply", !.todo = todo]]
    /\ UNCHANGED <<rowVars, approval, taskLock, ask>>

\* One unguarded UPDATE per linked task: the state of the verdict, no lease.
ApplyDecision(d, t) ==
    /\ decision[d].step = "apply"
    /\ t \in decision[d].todo
    /\ LET next == ResolutionState(decision[d].verdict, approval[decision[d].id].type)
       IN task' = [task EXCEPT ![t] = [NoLease(@) EXCEPT !.state = next]]
    /\ decision' = [decision EXCEPT ![d] =
                      IF decision[d].todo = {t} THEN NoDecision
                      ELSE [decision[d] EXCEPT !.todo = @ \ {t}]]
    /\ UNCHANGED <<retries, archived, approval, taskLock, ask>>

DecisionStops(d) ==
    /\ d \in MayStop
    /\ decision[d].step # "idle"
    /\ decision' = [decision EXCEPT ![d] = NoDecision]
    /\ UNCHANGED <<rowVars, approval, taskLock, ask>>

\* The sweep's UPDATE, guarded on pending; the linked tasks are not touched.
ExpireApproval(i) ==
    /\ Undecided(i)
    /\ approval[i].type = "external"
    /\ approval' = [approval EXCEPT ![i].status = "expired"]
    /\ UNCHANGED <<rowVars, taskLock, ask, decision>>

-----------------------------------------------------------------------------
AskStep(r) ==
    \/ \E t \in Tasks : LockTask(r, t)
    \/ ReuseApproval(r)
    \/ NonePending(r)
    \/ InsertApproval(r)
    \/ MoveToReview(r)

DecisionStep(d) ==
    \/ LoadLinkedTasks(d)
    \/ \E t \in Tasks : ApplyDecision(d, t)

ApprovalsNext ==
    \/ \E r \in Slots, S \in SUBSET Tasks, type \in ActionTypes : RequestApproval(r, S, type)
    \/ \E r \in Slots, S \in SUBSET Tasks : AskFromBoard(r, S)
    \/ \E r \in Slots : AskStep(r) \/ AskStops(r)
    \/ \E d \in Deciders, i \in Ids, v \in Verdicts : Decide(d, i, v)
    \/ \E d \in Deciders : DecisionStep(d) \/ DecisionStops(d)
    \/ \E i \in Ids : ExpireApproval(i)

avars == <<rowVars, approvalVars>>

ApprovalsStart == RowsInit /\ ApprovalsInit

ApprovalsSpec == ApprovalsStart /\ [][ApprovalsNext]_avars

\* A decision that was started runs on, wherever its handler may stop.
ApprovalsFairness == \A d \in Deciders : WF_avars(DecisionStep(d))

ApprovalsFairSpec == ApprovalsSpec /\ ApprovalsFairness

-----------------------------------------------------------------------------
(***************************************************************************)
(* One pending ask per task, also under concurrency: no task is ever in    *)
(* front of people twice, whatever the overlap of the asks' task sets.     *)
(***************************************************************************)
OnePending == \A t \in Tasks : \A i, j \in PendingOn(t) : i = j

(***************************************************************************)
(* Approvals implements OneAsk: the question open about a task is its      *)
(* pending approval.  Locks, the check-then-insert and the guarded updates *)
(* are what makes the abstract Open and Close atomic.                      *)
(***************************************************************************)
TheOne(ids) == IF ids = {} THEN 0 ELSE CHOOSE i \in ids : TRUE

OpenQuestion == [t \in Tasks |-> TheOne(PendingOn(t))]

Questions == INSTANCE OneAsk WITH
    Questions <- Ids,
    open <- OpenQuestion,
    asked <- {i \in Ids : approval[i].status # "unasked"}

ImplementsOneAsk == Questions!Spec

(***************************************************************************)
(* A decision is final.  Of the people deciding an approval, and the sweep *)
(* expiring it, one wins, and whoever is moving the linked tasks is moving *)
(* them for the verdict that was stored: the loser of the race moves none. *)
(***************************************************************************)
SoleDecider ==
    \A d \in Deciders : decision[d].step # "idle" =>
        /\ approval[decision[d].id].status = decision[d].verdict
        /\ \A e \in Deciders : decision[e].step # "idle" /\ decision[e].id = decision[d].id
                                 => e = d

(***************************************************************************)
(* Multi-task asks cannot deadlock on the advisory locks: while asks are   *)
(* in flight, one of them can go on.  Only an ask that is still locking    *)
(* may have to wait, for the holder of the least task it does not hold.    *)
(***************************************************************************)
CanGoOn(r) ==
    \/ ask[r].step = "lock" /\ \E t \in ask[r].tasks : MayLock(r, t)
    \/ ask[r].step = "check"
    \/ ask[r].step = "insert" /\ \E i \in Ids : approval[i].status = "unasked"
    \/ ask[r].step = "move"

AsksGoOn == (\E r \in Slots : ask[r].step # "idle") => \E r \in Slots : CanGoOn(r)

(***************************************************************************)
(* Approving "close this task" closes it, if the handler runs on: every    *)
(* task linked to an approved task_done ask is done at some point after    *)
(* the decision, whatever other handlers do and wherever they stop.        *)
(***************************************************************************)
ApprovedCloses ==
    \A d \in Deciders \ MayStop, t \in Tasks :
        (decision[d].step = "load" /\ decision[d].verdict = "approved"
          /\ approval[decision[d].id].type = "task_done" /\ t \in approval[decision[d].id].tasks)
        ~> task[t].state = "done"
=============================================================================
