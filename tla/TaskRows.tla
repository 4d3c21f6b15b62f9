------------------------------ MODULE TaskRows ------------------------------
(***************************************************************************)
(* The rows of the `tasks` table: the columns the task handlers, the       *)
(* approval flow and the watchdog read and write, and the vocabulary they  *)
(* share (src/src/lib/task-state.ts, src/src/lib/task-assignee.ts).        *)
(*                                                                         *)
(* Every module that changes a task extends this one, so a composition of  *)
(* those modules has one `task` table.  Left out: title, goal, priority,   *)
(* description, output and the timestamps no guard of these modules reads. *)
(***************************************************************************)
EXTENDS Naturals, FiniteSets

CONSTANTS
    Tasks,       \* task ids; the code sorts them (as strings), so they are ordered
    Agents,      \* agents of the one company modelled
    Members,     \* company memberships a task may be assigned to
    None,        \* SQL NULL
    MaxRetries   \* tasks.max_retries

ASSUME TaskRowsAssumption ==
    /\ Tasks \subseteq Nat
    /\ MaxRetries \in Nat
    /\ None \notin Agents
    /\ None \notin Members

VARIABLES
    task,        \* [Tasks -> Row]: the columns handlers copy from a SELECT to an UPDATE
    retries,     \* [Tasks -> 0..MaxRetries]: tasks.retries
    archived     \* the tasks whose deleted_at is set

rowVars == <<task, retries, archived>>

\* What normalizeTaskState can return: a request never names dead_letter.
RequestStates == {"inbox", "in_progress", "review", "blocked", "done", "failed"}

TaskStates == RequestStates \cup {"dead_letter"}

IsTerminal(state) == state \in {"done", "failed", "dead_letter"}

SlaTracked == {"inbox", "in_progress", "review"}

(***************************************************************************)
(* assigned_agent_id, assigned_member_id, lease_owner, lease_until.  A     *)
(* lease_until is null, in the future or in the past; `LeaseRunsOut` moves *)
(* it from future to past.                                                 *)
(***************************************************************************)
LeaseTimes == {"null", "future", "past"}

Row == [state: TaskStates,
        agent: Agents \cup {None},
        member: Members \cup {None},
        leaseOwner: Agents \cup {None},
        leaseUntil: LeaseTimes]

\* The row createTaskForProject inserts: inbox, no lease, one assignee or none.
NewRow(agent, member) ==
    [state |-> "inbox", agent |-> agent, member |-> member,
     leaseOwner |-> None, leaseUntil |-> "null"]

\* What resolveTaskAssignee yields: an agent, a member or nobody.
Assignees ==
    (Agents \X {None}) \cup ({None} \X Members) \cup {<<None, None>>}

RowsInit ==
    /\ task \in [Tasks -> {NewRow(who[1], who[2]) : who \in Assignees}]
    /\ retries = [t \in Tasks |-> 0]
    /\ archived = {}

RowsTypeOK ==
    /\ task \in [Tasks -> Row]
    /\ retries \in [Tasks -> 0..MaxRetries]
    /\ archived \subseteq Tasks

NoLease(row) == [row EXCEPT !.leaseOwner = None, !.leaseUntil = "null"]

LeaseExpired(t) == task[t].state = "in_progress" /\ task[t].leaseUntil = "past"

(***************************************************************************)
(* A task has one assignee at most, though handlers write copies of the    *)
(* assignee columns they read earlier: no write ever fails on the table's  *)
(* tasks_single_assignee check.                                            *)
(***************************************************************************)
OneAssignee ==
    \A t \in Tasks : task[t].agent = None \/ task[t].member = None

(***************************************************************************)
(* Nobody but the agent a task is assigned to owns its lease: a            *)
(* reassignment revokes the lease of the previous agent, however the       *)
(* writes of the other handlers interleave with it.                        *)
(***************************************************************************)
LeaseOwnerIsAssignee ==
    \A t \in Tasks : task[t].leaseOwner \in {None, task[t].agent}

(***************************************************************************)
(* A done, failed or dead-lettered task keeps its state.                   *)
(***************************************************************************)
TerminalStays ==
    [][\A t \in Tasks :
         IsTerminal(task[t].state) => task'[t].state = task[t].state]_task
=============================================================================
