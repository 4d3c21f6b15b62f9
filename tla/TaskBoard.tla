----------------------------- MODULE TaskBoard ------------------------------
(***************************************************************************)
(* The handlers agents and people reach tasks through:                     *)
(* src/src/lib/openclaw/tasks.ts (claim, assign, update, result),          *)
(* src/src/lib/openclaw/runtime.ts (heartbeat), task-archive.ts and        *)
(* agent-deletion.ts.                                                      *)
(*                                                                         *)
(* No handler holds a transaction across its SELECT and its UPDATE, so a   *)
(* handler is steps with what it read in between: it resolves the agent it *)
(* acts for, SELECTs the task, for a result checks the project's policy,   *)
(* and writes.  Any other handler may run in each gap.                     *)
(***************************************************************************)
EXTENDS Approvals, ProjectWorkflow

CONSTANTS
    Scope,        \* [Agents -> SUBSET Tasks]: projects and roles an agent may work in
    Blockers,     \* [Tasks -> SUBSET Tasks]: tasks.blocked_by_task_ids
    MaxActive,    \* projects.max_active_agents
    Policy,       \* the project's status policy
    Lead,         \* projects.lead_agent_id
    SignOff,      \* the tasks with human_approval_required
    Kinds         \* bound: the kinds of request the environment sends

ASSUME TaskBoardAssumption ==
    /\ Scope \in [Agents -> SUBSET Tasks]
    /\ Blockers \in [Tasks -> SUBSET Tasks]
    /\ MaxActive \in Nat
    /\ Policy \in Policies
    /\ Lead \in Agents \cup {None}
    /\ SignOff \subseteq Tasks
    /\ None \notin Tasks

VARIABLES
    req,       \* [Slots -> Request]: the handlers in flight
    deleted    \* the agents whose deleted_at is set

boardVars == <<req, deleted>>

Request == [op: {"none", "resolved", "claim", "assign", "update", "result", "commit"},
            on: Tasks \cup {None},     \* the task the request names
            actor: Agents \cup {None}, \* the agent claiming, assigned to, or reporting
            row: Row,                  \* the SELECTed row
            rows: SUBSET Tasks,        \* claim: the rows its snapshot offers
            to: SUBSET Assignees,      \* update: the assignee asked for, if any
            next: RequestStates]       \* result: the state about to be written

NoRequest == [op |-> "none", on |-> None, actor |-> None, row |-> NewRow(None, None),
              rows |-> {}, to |-> {}, next |-> "inbox"]

BoardInit == req = [r \in Slots |-> NoRequest] /\ deleted = {}

BoardTypeOK == req \in [Slots -> Request] /\ deleted \subseteq Agents

\* resolveAgentId: the request names a live agent, which may be deleted while it runs.
ResolveAgent(r, a) ==
    /\ req[r].op = "none"
    /\ Kinds \cap {"claim", "assign", "result", "heartbeat"} # {}
    /\ a \notin deleted
    /\ req' = [req EXCEPT ![r] = [NoRequest EXCEPT !.op = "resolved", !.actor = a]]
    /\ UNCHANGED <<rowVars, approvalVars, deleted>>

\* The handler of a `kind` request goes on with the agent it resolved.
Resolved(kind, r) == kind \in Kinds /\ req[r].op = "resolved"

Selected(r, op, t, a, to) ==
    req' = [req EXCEPT ![r] = [NoRequest EXCEPT !.op = op, !.on = t, !.actor = a,
                                                !.row = task[t], !.to = to]]

Answer(r) == req' = [req EXCEPT ![r] = NoRequest]

\* What a step of a handler that writes no task leaves alone.
ReadOnly == UNCHANGED <<rowVars, approvalVars, deleted>>
WritesTask == UNCHANGED <<retries, archived, approvalVars, deleted>>

-----------------------------------------------------------------------------
(* claimNextTaskForAgent: one UPDATE whose subquery picks the row *)

\* Mutant of Claimable: other agents' tasks are not left out.
ClaimableOfAnybody(t, a) ==
    /\ task[t].state = "inbox"
    /\ t \notin archived
    /\ task[t].member = None

\* The conditions on the row itself, which PostgreSQL re-checks on the locked version.
Claimable(t, a) ==
    /\ \/ task[t].state = "inbox"
       \/ task[t].state = "in_progress" /\ task[t].agent = a /\ task[t].leaseUntil = "null"
    /\ t \notin archived
    /\ task[t].member = None
    /\ task[t].agent \in {None, a}

\* COUNT(DISTINCT assigned_agent_id) of the project's in_progress tasks, archived ones included.
ActiveAgents == {a \in Agents : \E t \in Tasks : task[t].state = "in_progress" /\ task[t].agent = a}

\* The conditions on other rows, read from the statement's snapshot.
SnapshotOffers(t, a) ==
    /\ Claimable(t, a)
    /\ \A b \in Blockers[t] : task[b].state = "done"
    /\ Cardinality(ActiveAgents) < MaxActive

\* getAgentScope finds no row of an agent deleted meanwhile, and no row is no restriction.
InScope(t, a) == t \in Scope[a] \/ a \in deleted

ClaimSnapshot(r) ==
    /\ Resolved("claim", r)
    /\ \E scope \in {Scope[req[r].actor], {t \in Tasks : InScope(t, req[r].actor)}} :
         req' = [req EXCEPT ![r].op = "claim",
                            ![r].rows = {t \in scope : SnapshotOffers(t, req[r].actor)}]
    /\ ReadOnly

\* FOR UPDATE SKIP LOCKED may pass over a better row, so any row still claimable may be taken.
ClaimUpdate(r, t) ==
    /\ req[r].op = "claim"
    /\ t \in req[r].rows
    /\ Claimable(t, req[r].actor)
    /\ LET a == req[r].actor
       IN task' = [task EXCEPT ![t] = [state |-> "in_progress", agent |-> a, member |-> None,
                                       leaseOwner |-> a, leaseUntil |-> "future"]]
    /\ Answer(r)
    /\ WritesTask

ClaimNothing(r) ==
    /\ req[r].op = "claim"
    /\ \A t \in req[r].rows : ~Claimable(t, req[r].actor)
    /\ Answer(r)
    /\ ReadOnly

-----------------------------------------------------------------------------
(* assignTaskToAgent *)

AssignSelect(r, t) ==
    /\ Resolved("assign", r)
    /\ t \notin archived
    /\ Selected(r, "assign", t, req[r].actor, {})
    /\ ReadOnly

\* Mutant of AssignedRow: assigned_member_id is not cleared.
AssignedRowKeepsMember(row, a, claiming) ==
    [state      |-> IF claiming THEN "in_progress" ELSE row.state,
     agent      |-> a,
     member     |-> row.member,
     leaseOwner |-> IF claiming THEN a ELSE None,
     leaseUntil |-> IF claiming THEN "future" ELSE "null"]

AssignedRow(row, a, claiming) ==
    LET sameAgent == row.agent = a /\ row.member = None
    IN [state      |-> IF claiming THEN "in_progress" ELSE row.state,
        agent      |-> a,
        member     |-> None,
        leaseOwner |-> IF claiming THEN a ELSE IF sameAgent THEN row.leaseOwner ELSE None,
        leaseUntil |-> IF claiming THEN "future" ELSE IF sameAgent THEN row.leaseUntil ELSE "null"]

AssignUpdate(r) ==
    /\ req[r].op = "assign"
    /\ InScope(req[r].on, req[r].actor)
    /\ \E claiming \in BOOLEAN :
         task' = [task EXCEPT ![req[r].on] = AssignedRow(req[r].row, req[r].actor, claiming)]
    /\ Answer(r)
    /\ WritesTask

-----------------------------------------------------------------------------
(* updateTaskForCompany: PATCH of any of title, state, assignee *)

\* A new assignee is resolved once the task is read.
UpdateSelect(r, t) ==
    /\ "update" \in Kinds /\ req[r].op = "none"
    /\ t \notin archived
    /\ \E to \in {{}} \cup {{who} : who \in Assignees} :
         /\ \A who \in to : who[1] \notin deleted
         /\ Selected(r, "update", t, None, to)
    /\ ReadOnly

\* Mutant of UpdatedRow: a reassignment leaves the lease.
UpdatedRowKeepsLease(row, state, who, reassigning) ==
    [row EXCEPT !.state = state, !.agent = who[1], !.member = who[2]]

\* who is an <<agent, member>> pair; without a new assignee the lease is written back as read.
UpdatedRow(row, state, who, reassigning) ==
    LET preserving == row.agent # None /\ who = <<row.agent, None>>
        revoke == reassigning /\ ~preserving
    IN [state      |-> state,
        agent      |-> who[1],
        member     |-> who[2],
        leaseOwner |-> IF revoke THEN None ELSE row.leaseOwner,
        leaseUntil |-> IF revoke THEN "null" ELSE row.leaseUntil]

UpdateUpdate(r) ==
    /\ req[r].op = "update"
    /\ LET row == req[r].row
       IN \E state \in RequestStates \cup {row.state} :
            /\ IsTerminal(row.state) => state = row.state
            /\ \/ /\ req[r].to = {}
                  /\ task' = [task EXCEPT ![req[r].on] =
                                UpdatedRow(row, state, <<row.agent, row.member>>, FALSE)]
               \/ \E who \in req[r].to :
                    task' = [task EXCEPT ![req[r].on] = UpdatedRow(row, state, who, TRUE)]
    /\ Answer(r)
    /\ WritesTask

-----------------------------------------------------------------------------
(* finalizeTaskForAgent *)

ResultSelect(r, t) ==
    /\ Resolved("result", r)
    /\ task[t].agent = req[r].actor
    /\ Selected(r, "result", t, req[r].actor, {})
    /\ ReadOnly

NeedsSignOff(t) == t \in SignOff \/ Policy.requireApprovalForDone

\* Deleting the lead leaves the project without one.
IsLead(a) == a = Lead /\ a \notin deleted

ResultAllowed(r, next, comment) ==
    TransitionAllowed(Policy, req[r].row.state, next, IsLead(req[r].actor), TRUE,
                      HasPendingApproval(req[r].on), comment)

\* The policy lets it through: write it, unless closing the task is for people to decide.
ResultPasses(r) ==
    /\ req[r].op = "result"
    /\ \E next \in RequestStates, comment \in BOOLEAN :
         /\ ResultAllowed(r, next, comment)
         /\ ~(next = "done" /\ NeedsSignOff(req[r].on))
         /\ req' = [req EXCEPT ![r].op = "commit", ![r].next = next]
    /\ ReadOnly

ResultAsks(r) ==
    /\ req[r].op = "result"
    /\ \E comment \in BOOLEAN : ResultAllowed(r, "done", comment)
    /\ NeedsSignOff(req[r].on)
    /\ ask[r].step = "idle" /\ IdsLeft
    /\ StartAsk(r, {req[r].on}, "task_done", "direct")
    /\ Answer(r)
    /\ UNCHANGED <<rowVars, approval, taskLock, decision, deleted>>

ResultUpdate(r) ==
    /\ req[r].op = "commit"
    /\ task' = [task EXCEPT ![req[r].on] = [NoLease(@) EXCEPT !.state = req[r].next]]
    /\ Answer(r)
    /\ WritesTask

\* A 4xx answer, an exception or the end of the process: the handler writes nothing.
RequestEnds(r) ==
    /\ req[r].op \notin {"none", "claim"}
    /\ Answer(r)
    /\ ReadOnly

-----------------------------------------------------------------------------
(* Handlers that write tasks in one statement or one transaction *)

\* acknowledgeAgentHeartbeat renews every in_progress task of the agent, leased or not.
Heartbeat(r) ==
    /\ Resolved("heartbeat", r)
    /\ task' = [t \in Tasks |->
                  IF /\ task[t].agent = req[r].actor /\ task[t].state = "in_progress"
                     /\ t \notin archived
                  THEN [task[t] EXCEPT !.leaseUntil = "future"] ELSE task[t]]
    /\ Answer(r)
    /\ WritesTask

Archive(t) ==
    /\ "archive" \in Kinds
    /\ t \notin archived
    /\ archived' = archived \cup {t}
    /\ UNCHANGED <<task, retries, approvalVars, boardVars>>

Unarchive(t) ==
    /\ "archive" \in Kinds
    /\ t \in archived
    /\ archived' = archived \ {t}
    /\ UNCHANGED <<task, retries, approvalVars, boardVars>>

Released(row) == [NoLease(row) EXCEPT !.agent = None]

\* deleteAgent releases the agent's tasks; their state stays what it was.
DeleteAgent(a) ==
    /\ "delete" \in Kinds
    /\ a \notin deleted
    /\ task' = [t \in Tasks |-> IF task[t].agent = a THEN Released(task[t]) ELSE task[t]]
    /\ deleted' = deleted \cup {a}
    /\ UNCHANGED <<retries, archived, approvalVars, req>>

\* Ten minutes without a renewal.  A copy of the row read earlier holds no later time.
LeaseRunsOut(t) ==
    /\ task[t].leaseUntil = "future"
    /\ task' = [task EXCEPT ![t].leaseUntil = "past"]
    /\ req' = [r \in Slots |-> IF req[r].on = t /\ req[r].row.leaseUntil = "future"
                               THEN [req[r] EXCEPT !.row.leaseUntil = "past"] ELSE req[r]]
    /\ WritesTask

-----------------------------------------------------------------------------
BoardNext ==
    \/ \E r \in Slots, a \in Agents : ResolveAgent(r, a)
    \/ \E r \in Slots, t \in Tasks :
         ClaimUpdate(r, t) \/ AssignSelect(r, t) \/ UpdateSelect(r, t) \/ ResultSelect(r, t)
    \/ \E r \in Slots :
         \/ ClaimSnapshot(r) \/ ClaimNothing(r) \/ AssignUpdate(r) \/ UpdateUpdate(r)
         \/ ResultPasses(r) \/ ResultAsks(r) \/ ResultUpdate(r) \/ RequestEnds(r)
         \/ Heartbeat(r)
    \/ \E a \in Agents : DeleteAgent(a)
    \/ \E t \in Tasks : Archive(t) \/ Unarchive(t) \/ LeaseRunsOut(t)
=============================================================================
