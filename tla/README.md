# EmperorClaw: TLA+ models, checks and proofs

EmperorClaw is a control plane for AI agents: a Next.js/TypeScript server on PostgreSQL that hands
tasks to agents, asks people to sign off on what agents want to do, watches leases and deadlines,
wakes and reminds agents, runs automations on a schedule, carries conversations to bridges that
run the agents, and installs agents on machines through a daemon. This directory holds
specifications of its concurrent parts: what handlers, periodic jobs, bridges and daemons do when
they run at the same time, several server processes run at once, requests and answers are lost, and
any of them may stop half way.

Paths below are relative to the repository root; most of the code modelled is under `src/lib/` and
`integrations/hermes/emperor-claw/bridge/`.

## The system

| Component | State | Operations | Talks to |
|---|---|---|---|
| Task handlers (`openclaw/tasks.ts`, `openclaw/runtime.ts`, `task-archive.ts`, `agent-deletion.ts`) | `tasks` rows: state, assignee, lease, retries | claim, assign, PATCH, result, heartbeat, archive, agent deletion | approvals (a result that needs sign-off), wake (new assignee) |
| Project status policy (`project-workflow.ts`) | policy columns of `projects` | decides whether a result's transition is allowed | task handlers |
| Approvals (`approvals.ts`, `approval-status.ts`) | `approvals`, `approval_task_links`, per-task advisory locks | ask, decide, expire | moves tasks to review, done, in_progress |
| Watchdog (`watchdog.ts`) | session advisory lock, `incidents` | retry or dead-letter expired leases, raise and resolve incidents | tasks |
| Task wake (`task-wake.ts`) | `agents.metadata_json.agentWake`, per-agent advisory lock | post or queue a wake, flush the queue, re-queue a failed batch | messages |
| Stall sweep (`stall-sweep.ts`) | nudge and escalation events, advisory lock | nudge an owner once, escalate once, per stall | tasks, messages |
| Automations (`pipeline-runs.ts`, `pipelines.ts`, `pipeline-schedule.ts`) | `pipelines`, `pipeline_runs`, advisory lock per automation | claim a slot, start a run, hand out its task, close, pause after failures | tasks, scheduler |
| Messaging (`control-plane.ts`, `direct-message-queue.ts`, `agent-control.ts`, `api/mcp/messages/send`) | delivery states, replies, stop commands, row lock per agent | send, cancel, resend, stop, write a state, reply | bridges |
| Hermes bridge (`bridge/emperor_bridge/`) | state file, outbox, queue, a turn per thread | sync, dispatch, submit, settle, post, control, recover | messaging, the gateway |
| Runtime hosts (`runtime-hosts/`) | hosts, jobs, tokens, sockets | dispatch, ack, result, hello and reconcile, sweep, retry, remove, revoke | host daemon |
| Host daemon (`bridge/emperor_hostd/`) | job records, units, profiles | connect, accept or refuse a command, run it, poll, replay | runtime hosts, systemd |
| Lifecycle monitor (`lifecycle.ts`) | sessions, agent status | degrade silent sessions, start the periodic jobs | wake, approvals, stalls, automations |
| Message routing (`message-routing.ts`) | loop counters | agent-to-agent loop guard | messaging |
| MCP access (`mcp.ts`) | idempotency records | look up, run, save | every handler |
| Cost brake, objectives, action policy | alerts, objectives, one-use approvals | notify once, plan, ask first | approvals, messages |
| Realtime, accounts and roles, storage, interface, other bridges, devices | caches, accounts, files | I/O, presentation | the API |

Inside the server handlers communicate through the database alone. There is one connection pool per
process and rarely a transaction around a handler: a typical handler is a SELECT, some checks and an
UPDATE by id, so the hard behaviours are what other handlers do between the SELECT and the UPDATE,
which statements a crash separates, and what several processes running the same periodic job do to
each other. Towards bridges and daemons it is lost requests, lost answers, repetition and restarts.
`PROJECT.json` lists these hazards line by line.

What makes each modelled part correct:

- tasks: lease and assignee never disagree; a claim takes a task from nobody; a task that needs
  sign-off is not done without it;
- approvals: one open question per task, one decision per question, and the decision takes effect;
- watchdog: an expired lease is always taken up again, each reclaim costs exactly one retry, and
  incidents are neither duplicated nor left behind;
- wake: every assignment is announced, and at most once;
- stalls: reminders are a window apart, escalation follows a nudge, and what stands still is escalated
  after two windows and the time its messages were held back;
- automations: one run at a time unless forced or reported, a slot fires once, a run ends with its task;
- conversation: a reply is stored once in a day, never while a stop waits or to a prompt it
  cancelled, and every prompt settles;
- hosts: a job runs at most once, but for a removal that was cut short; one at a time, but for units
  whose end was recorded without an exit code; every job settles, and the agent has the token it runs
  with and no other.

## Modules

| Module | Models | Extends |
|---|---|---|
| `TaskRows` | the task table and the vocabulary of its states | |
| `Approvals` | asks, decisions and expiry | `TaskRows` |
| `OneAsk` | abstract: a task has one question open, opened and closed for all its tasks together | |
| `ProjectWorkflow` | `validateTaskStateTransition` as a predicate | |
| `TaskBoard` | the task handlers | `Approvals`, `ProjectWorkflow` |
| `Watchdog` | the watchdog pass | `TaskRows` |
| `TaskSystem` | all of the above over one task table | `TaskBoard`, `Watchdog` |
| `TaskWake` | the wake queue of one agent | |
| `StallSweep` | the reminders of one company | |
| `Automations` | the runs of one automation | |
| `DirectThread` | the server's side of one direct thread | |
| `HermesBridge` | the bridge and the gateway it relies on, composed with the thread | `DirectThread` |
| `HostLink` | the socket of one host and the tokens both sides know | |
| `HostJobs` | the server's side: jobs, dispatch, sweep, requests | `HostLink` |
| `HostDaemon` | the daemon, its records, units and the agent's profile | `HostLink` |
| `RuntimeHosts` | the three composed | `HostJobs`, `HostDaemon` |
| `MC...` | instances for TLC | |
| `..._proofs` | theorems and proofs | |

**Atomicity.** One action is one SQL statement, with the code up to the next one; in the bridge and the
daemon, one step between two awaits, with the save that follows it. A handler keeps
what it read in a record (`req[r].row`, `pass[w].count`, `handler[h].read`, `start[h]`, `edit[p]`) until its write, and
any action of another handler may come between. Transactions under an advisory lock are still
several actions: the lock is a variable, and mutual exclusion is a result, not an assumption. Reads
that change nothing for the handler but its answer are folded into a neighbouring step, on the side that
loses no interleaving: a new assignee is resolved with the PATCH's SELECT (an agent deleted later is
written all the same), an assign's scope is checked with its UPDATE, a result's project and pending
approvals are read together. The agent a request acts for is resolved in a step of its own
(`ResolveAgent`): a deletion may come before the first read of any task. Deletion is one transaction
and archiving one statement. A job's conditional transition (read, then UPDATE ... WHERE the status
is the one read) is one action: when the row changed in between it does nothing. The
statements of the host sweep are actions of their own, a coarser world than the one transaction
they are in: each may come at any time.

**PostgreSQL.** The statement `claimNextTaskForAgent` runs reads its snapshot (`ClaimSnapshot`),
then locks one row and re-checks on its newest version the conditions on that row, but not those on
other rows (`Claimable` against `SnapshotOffers`). `SKIP LOCKED` lets it pass over rows, so any
offered row may be the one. A guarded UPDATE (`... WHERE status = 'pending'`) is one action whose
guard is the condition. A lost session releases its advisory locks and rolls back.

**Time.** `lease_until` is null, future or past, and `LeaseRunsOut` moves it on. Ten minutes are
long against one request, so the copies handlers hold age with it. In `TaskWake` the last wake is
recent or old; a caller reads its clock before it waits for the lock, so it may decide by an older
time than the queue's (`early`). `StallSweep` keeps ages in ticks and drops an age that no longer
matters; the clock turns between sweeps, which take seconds, and not before one was started, since a
window is many times the quarter of an hour between two (`turn`). In `Automations` time is the number
of slots that came due. A stored reply grows a day old when it likes, but not within a transaction. Acknowledgement timeouts, job deadlines and the daemon's polls may pass at any
moment; the long silences of a host (a quarter of an hour, an hour in the queue) are events a
behaviour is given a number of.

**Identity.** `lease_owner` holds the reference an agent gave for itself (its id or its name); the
model holds the agent that reference resolves to. Rows of runs and jobs are numbered as they are
inserted. A setup token is named by its job and attempt, a reply's idempotency key by its prompt and
attempt.

**Environment.** Who may call a handler (tokens, roles) is not modelled: a request is free to arrive
for any task and agent. Creating a task is an initial row of any assignee. `Kinds` says which kinds
of request an instance sends. The gateway of the bridge and systemd under the daemon are modelled
from what the code relies on: a submission id is admitted once; a unit runs on when its daemon stops
and leaves an exit code in a file, or dies without one.

**Sockets.** `HostLink` has one queue each way, lost when the socket closes. The server may hold the
old socket of a host that is gone (`old`) and send into it. Frames that arrived on the old socket and
are handled after the newer hello are not modelled.

## Runs

| Run | Configuration | Shows |
|---|---|---|
| `approvals` | 2 tasks, 2 asks, 2 deciders, 2 approvals; one ask and one decider may stop (390,245 states) | `OnePending`, no deadlock of asks (`AsksGoOn`), the refinement of `OneAsk` (`ImplementsOneAsk`), and that a decision closes its task (`ApprovedCloses`) |
| `task_races` | 1 task, 2 agents, 1 person, 2 requests of any kind, deletions; symmetric (810,047) | `OneAssignee`, `LeaseOwnerIsAssignee`, `ClaimTakesNoLease`: whichever two requests race |
| `sign_off` | 1 task under a strict policy, lead and worker, 2 deciders, 2 approvals; ask and deciders may stop (971,676) | `DoneWasApproved`, `SoleDecider` |
| `watchdog` | 1 task, 1 agent, 1 request, 2 watchdogs that may crash, `MaxRetries` 1, 2 incidents, one deadline (128,388) | `OneOpenIncident`, `DeadLetterExhausted`, `ReclaimsCharged`, and that leases are recovered and incidents resolved in the end |
| `wake` | 2 tasks, 2 callers, 1 monitor, 2 assignments per task; calm, or one failed post and one stop (228,032) | `OneWakePerAssignment`, `KeptUnlessTrouble`, `WakesDelivered` |
| `stalls` | 2 tasks, lead and worker, 2 monitors, window 1, horizon 5, one sweep cut short (762,308) | `RemindersApart`, `EscalationFollowsNudge`, `StallsEscalate` |
| `automations` | 2 schedulers, 2 people, 3 runs, 2 slots, 9 mixes; symmetric (1,913,597) | `OneRunning`, `SlotFiredOnce`, `RunFollowsItsTask` |
| `conversation` | 2 prompts, 1 stop, 2 attempts, 9 mixes (364,239) | `OneReplyADay`, `NoLateReply`, `ParkedNotRerun`, `EveryPromptSettles` |
| `hosts` | 1 host, 1 agent, 3 jobs, 2 dispatches, 2 attempts, 25 mixes (584,045) | `RunsOnce`, `OneUnitAtATime`, `OneJobSent`, `AgentKeepsItsToken`, `RemovedStaysGone`, `JobsSettle`, `TokensRevoked` |

Three more runs end in a counterexample: the code does other than its documentation or comments say.

| Run | Refutes | Counterexample |
|---|---|---|
| `late_result` | `OnlyAssigneeCompletes` | an agent reports a result, the task is reassigned before the UPDATE, the former agent completes it |
| `wake_requeue` | `WakesKept` | a failed post's batch is put back without `lastWakeAt`, and such an entry is read as absent |
| `stall_mistaken` | `EveryStallNudged` | a task moves between a sweep's re-check and its event, which then counts for the next stall: it is escalated without a nudge |

### Behaviours worth knowing

Found while modelling; each is a behaviour of the models, and no document promises the contrary
unless quoted.

- A PATCH that read a task open writes its old state over a done (`task_races`); an assign with mode
  `claim` puts a finished task in progress; a rejected ask reopens a task that was done when it was asked.
- An ask over two tasks is answered by a pending approval of one of them (`AlreadyAsked`); the other
  waits in review for an approval that does not name it.
- `ApprovedCloses` is about deciders that run on: when the process stops after the decision is stored,
  the task is never closed. Likewise a watchdog that stops between `DeadLetter` and
  `RaiseDeadLetter` leaves a dead letter without an incident, and no later pass selects the task.
- `DoneWasApproved` is about claims and results: `updateTaskForCompany` asks neither for an approval
  nor for the project's policy.
- A heartbeat renews `updated_at` of every task in progress, so a task whose runtime lives is never
  found to stand still.
- An edit of an automation that leaves its schedule alone writes back the next slot it read. Over a
  claim in between, the slot is due again and fires twice, against `pipeline-runs.ts:559-561`; a null
  that is written back is filled by a scheduler with a slot computed earlier. Likewise two people who
  resume or pause it at once: the second writes the slot it computed before the first one's was fired.
  From a slot that came back a scheduler goes on to the one that follows its own `now`, which may be
  old: later slots fire again too. `SlotFiredOnce` excepts the slots from the earliest one an edit
  brought back (`restored`). A run whose process stopped between its insert and its task stays running
  until it is forced or reported (`stopped` in `RunFollowsItsTask`).
- The agent's report endpoint sets any of its automation's runs to any status, `running` when it names
  none (`runs/route.ts:85,121-137`), without the lock and whatever state the run is in. So an ended run
  goes on again, beside another, against `pipeline-runs.ts:210-211`, and nothing closes it when its task
  has ended before. `OneRunning` and `RunFollowsItsTask` except runs a report set back to running
  (`reopened`) and runs the agent started itself.
- A message about a stall is held back while its agent, or for an escalation the company, was told
  something within the window, or when the sweep is cut short. Other tasks may hold it back again and again,
  until the task is past `stallMaxAgeDays` and is given up (`stall-sweep.ts:234`). `StallsEscalate` says
  that this is the only way: whatever was not held back for that long is escalated in time.
- A reply is recognised as a repetition for 24 hours (`IDEMPOTENCY_WINDOW_MS`, `send/route.ts:77-81,191`)
  while the outbox tries it without limit. One whose answer was lost and that stays parked for a day is
  stored again, which `outbox.py:6-8` excludes. `OneReplyADay` counts the replies of one day.
- A person who opens the thread marks its queued stop commands seen (`control-plane.ts:960-981`). A stop
  that the bridge has not polled by then is not found any more: it is never applied, and no longer
  refuses replies. What keeps its turn from answering is that the prompts it cancelled stay cancelled,
  as `NoLateReply` says; the turn runs on unanswered.
- A prompt that is resent after its turn was interrupted is not answered: the bridge and the gateway
  remember having settled it (`Interrupted`). A batch whose reply is parked is run again for its other
  prompts after a restart, which `outbox.py:3-6` excludes.
- Hosts: a removal the daemon does itself, without a unit, is recorded after it is done
  (`connection.py:302-313`). When the session or the daemon ends in between, the job is sent and done
  again, against `connection.py:270-271`; removing twice does no harm. `RunsOnce` counts how often
  that happened (`cuts`). A unit goes on after its job was recorded as ended when it could not be stopped at
  its deadline (`runner.py:371-376`), when `systemd-run` timed out although it started it (`runner.py:233-243`), or
  when polls missed it three times; the next job then runs beside it. `OneUnitAtATime` and the two
  properties about the profile except such records (`Outlived`).
- Hosts: the row lock of a dispatch is not what keeps one job under way: without it `OneJobSent`
  still holds, since jobs leave the queue first in, first out by a conditional UPDATE. A removal the
  host does not know after it said it runs becomes `lost`, although `job-state.ts:9-11` sends
  it back to the queue, and fails after three attempts that were busy or unanswered. A removal inserted between
  the check for revocation and a revocation waits for ever (`JobsSettle` excepts revoked hosts). A
  command sent between `helloDone` and the welcome makes the daemon close the connection
  (`BeginSession`). A setup that fails for want of memory leaves the tokens of its earlier attempts to
  the sweep. A second Retry while the first is under way may cut off the first one's token; the model
  has one request of an administrator at a time.

### Bounds, and why they are enough

- *Slots*: handlers of one kind in flight. The races are between two writers; a third repeats the
  part of one of the two. Deadlock on the sorted locks needs two asks over two tasks.
- *One task* where the property is about one row: rows meet only in the claim's blockers and
  capacity, which only take offers away, and in an ask over several tasks, where there are two.
  `Blockers` is empty and `MaxActive` 1 or 2 in the runs; the theorems hold for any value.
- *MaxRetries = 1*: both branches, the last retry and the dead letter.
- *MaxApprovals = 2*, *MaxIncidents = 2*, *MaxAssigned = 2*: one more than each promise allows, so a
  second approval, incident or announcement is a state of the model.
- *Deadlines*: each deadline of a task passes once; deadlines of a row do not move back. `watchdog`
  has one of the two, which are raised and resolved by the same statements.
- *MayStop*, *Troubles*, *MaxStops*: which handlers may stop half way, and how often. One of each
  kind may, so that the other runs on and meets what was left behind.
- *Stalls*: a window of one tick, a horizon of five, ages up to six: an age is fresh, a window old, or too
  old. Two windows and their ticks make four, so a task may be held back once and is escalated in
  time, and held back twice it may be given up. Two tasks compete for the agent they are told to; two
  monitors for the lock.
- *Scenarios*: `Automations`, the conversation and the hosts have too many kinds of events to allow
  all of each at once. A behaviour starts with a mix that says how often each may happen; the `MC`
  module lists the mixes, each a conflict of two or three of them, and together they fire every action and
  every branch. `MaxStreak = 2` pauses an automation after its second failure, `MaxAttempts = 2` of a job
  gives one repetition and the end, `MaxJobs = 3` a setup, a retry or restart, and a removal.
- Symmetry over interchangeable agents and handlers is used in `task_races` and `automations` only, which have no liveness.
- Deadlock is checked in `TaskSystem`, where some request can always arrive, and in `StallSweep`. In the
  other modules approvals, assignments, rows or the events of a mix are used up, so those runs do not check it.

### Fairness

- `approvals`: a decision that was started runs on (weak fairness of `DecisionStep`). That asks do
  not deadlock is a state property (`AsksGoOn`): while asks are in flight, one finds the guard of its next
  step (`CanGoOn`, which names the guards of `AskStep` one by one, so that it can be proved about) true.
- `watchdog`: it runs every minute in each process. A pass may be cut short, but a statement that
  pass after pass comes to is executed in one of them: strong fairness of starting a pass, of its
  resolve step, of reclaiming each task, and of the rest. No fairness of any request, heartbeat or
  person, and none of crashing.
- `wake`: a handler that waits for the advisory lock gets it in the end, since PostgreSQL queues the
  waiters: strong fairness of `LockAndRead`, as others take the lock in between. The monitor ticks
  every 15 seconds (strong: it has nothing to do in between), and the window passes.
- `stall_mistaken`: some process sweeps every quarter of an hour and a sweep that is not cut short ends; the
  clock waits for a sweep under way, hence strong fairness of `Tick`. `stalls` needs none: that a stall
  is escalated in time is a state property (`StallsEscalate`).
- `conversation`: the loops of the bridge go on, a stopped process is started again, a request reaches a
  server that answers, a turn ends or is ended for being idle. What goes wrong is bounded by the mix.
- `hosts`: while the server, the daemon or a unit has something to do, something is done
  (`Progress`); faults and people are not fair.

## Proofs

All for every value of the constants, from the constant assumptions named in each module
(`TaskRowsAssumption`, `ApprovalsAssumption`, `TaskBoardAssumption`, `WatchdogAssumption`,
`TaskWakeAssumption`, `StallAssumption`, `AutomationsAssumption`, `HostAssumption`, `DirectThreadAssumption`).
That rows chosen by their number exist rests on `LeastNumber` (`LeastNumber_proofs`).

- `Approvals_proofs`: what a row is after the helpers on rows; `ApprovalsTypeCorrect`; `OnePendingAlways`; `ApprovalsImplementOneAsk`.
  `OnePending` is not inductive: an insert is safe only because the ask holds the lock of each of its
  tasks and found nothing pending since it took them. The strengthening says that a slot past
  `lock` holds the lock of each of its tasks, and that one at `insert` has no pending approval on
  any of them. From this every step opens or closes one question for all of its tasks,
  or changes none, which is the refinement.
  `OneDeciderAlways` (`SoleDecider`): a slot at work on an approval decided it, and so found it
  pending; a decided approval stays as it is, so nobody else gets as far.
  `AsksNeverDeadlock` (`AsksGoOn`): a lock belongs to an ask that has not answered yet and wants the task,
  and an ask that is still locking holds an initial segment of its tasks, as it takes them in order. So
  if it has to wait, the task it wants is held by an ask that lacks only greater ones: among
  finitely many asks (`IsFiniteSet(Slots)`) such a chain ends with one that can go on. That the bound
  on approvals stops none either is counted: no more asks are yet to insert than ids are left.
- `TaskSystem_proofs`: `TypeCorrect`, then one invariant per promise, each preserved action by action.
  - `OneAssigneeAlways` and `LeaseFollowsAssignee` need the same of the copies handlers hold, since an
    assign or a PATCH writes a copy back.
  - `ClaimsTakeNoLease` follows from these and from the conditions PostgreSQL re-checks.
  - `DeadLetterAfterRetries`, `OneIncidentPerReason` and `EveryReclaimCharged` need mutual exclusion of
    passes (a replica in a pass holds the lock), and that what a pass remembers still is what the
    table holds: its count of retries for each task it has yet to handle, and the absence of an
    open incident for the task it is about to insert one for.
  - `DoneOnlyApproved` (`DoneWasApproved`) assumes that no PATCH of a task is among the requests, which
    is what the property is about: a PATCH may set `done`. A handler that is to close a task with
    sign-off carries the approval that lets it, and an approval once granted stays granted.
- `TaskWake_proofs`: `WakeTypeCorrect`; then two invariants about where a wake is.
  - `WakesAreKept` (`KeptUnlessTrouble`): while nothing failed or stopped, only the holder of the lock
    writes the queue, so what it read still is what is queued when it writes; and each owed wake is
    queued or with the handler that took it.
  - `OneWakeEach` (`OneWakePerAssignment`), troubles or not: messages sent, handlers that carry the
    task and its place in the queue together never exceed the assignments. A handler that ends,
    posts or puts back moves one unit from one place to another, or loses it.
- `StallSweep_proofs`: `StallTypeCorrect`, then three invariants.
  - `AgentsAreNotPestered` (`RemindersApart`): the lock lets one sweep work at a time, and one that
    does not work holds nothing; so while it works an agent who was reminded is one it read as
    reminded, and whom it leaves alone, or one it reminded itself a moment ago.
  - `OwnersAreNudgedFirst` (`EscalationFollowsNudge`): unless an event counts for a stall it is not about,
    the nudges on file are those the owner got about the row as it stands, and what a sweep found
    nudged is that row until the re-check says otherwise.
  - `StallsAreEscalated` (`StallsEscalate`): a task that is not escalated is at most a window and the ticks
    it was held back old, or a window older than its nudge. When the clock turns, a whole sweep has
    been, and left no task that is due but those whose owner, or those above, are still told
    something: those are the ones the tick counts as held back.
- `RuntimeHosts_proofs`: `HostTypeCorrect`, then three invariants.
  - `HostRunsOnce` and `HostRunsOneUnit`: the daemon writes its record before it starts a unit and never
    forgets it: a job without a record was begun as often as its removal was cut short, and once more
    while the session waits for it (`Begun`); one about to start has no unit yet, and what runs or is
    about to has the one record that says so, unless the daemon recorded its end without an exit code.
  - `HostSendsOneJob`: a dispatch chose its job while none was sent or running, and holds the lock of the
    host's row until it marked it sent; nothing else makes a job sent or running that was not.
  - `HostAgentKeepsItsToken` and `HostRemovedStaysGone` need the whole way of a command. Jobs are
    inserted one behind the other, a removal only once the agent is deleted, a setup behind one that
    failed. What is on its way or on file is of a job, in the order of the jobs, and new when the
    job is. What the server or the daemon calls a success is one of the unit. So the last setup the
    daemon followed wrote the `.env`, its token is kept unless a later one takes its place, and
    after a removal nothing is left that could install. While the session waits for a removal it does
    itself, no record runs and no setup comes behind it, so that what the thread removed is still
    gone when it is recorded (`DiscardInv`). The exception is a setup the daemon lost track of, whose unit
    goes on unrecorded (`Astray`).
- `Automations_proofs`: first `OneRunGoesOn` (`OneRunning`) and `RunsFollowTasks` (`RunFollowsItsTask`). Rows are
  inserted in order; only the holder of the advisory lock is about to insert, and unless it was forced
  nothing but the agent's own runs goes on meanwhile. A row is handed out by the one start
  that inserted it, which has its task from the step after and writes it on the row before it
  looks whether the task closed. A run that has ended goes on again only by a report, which is noted
  (`RunsEnd`); from then on it counts as one without lock or task (`Foreign`), as the agent's own do.
  Records are followed by their fields only, so no bound of the model is used.
  - `AutomationsTypeCorrect` (`TypeOK`): what is noted of a run is how it ended, so the type of the
    handlers rests on the fact that the row of a run about to be closed has ended and stays so.
  - `SlotsFireOnce` (`SlotFiredOnce`): the next slot only moves forward but for edits. A slot
    somebody claimed came due, and while the automation is active it lies before the next one, so
    a second claim of it, which compares what it read with the row, finds another. An edit that
    writes a slot that came due spoils this for that slot and those behind it. The proof is what
    showed that these have to be excepted too: an earlier form excepted the slot alone, which
    TLC refutes with one more slot.
- `HermesBridge_proofs`: `RepliesStoredOnce` (`OneReplyADay`), from one invariant: a request inside its
  transaction holds the row, no stop waits while it does, and what it is about to store under its
  key is not stored yet, whatever of it grew a day old before.
  - `NoLateReplies` (`NoLateReply`) needs moreover that its prompt was not stopped since it looked: only a stop
    stops prompts, a stop takes the row, and a stopped prompt stays so until it is sent again.
  - `BridgeTypeCorrect` (`TypeOK`): the type says that a queue and a batch hold no prompt twice, which
    takes more than types. An accepted prompt is in one place: queued, in the slot's batch, or dropped by
    a kill under way. So what a sync, a retry or a poll does to the queue leaves a list.
    And one batch at most is on its way on file, the slot's while the process runs, so that a
    restart, which takes up what it finds there, takes up one.
  - `ParkedPromptsNotRerun` (`ParkedNotRerun`): what is queued, may be submitted, or is on its way on file
    has no parked reply. A reply is parked for the slot's batch when it settled, which is recorded on
    file before, so a restart in between passes the batch over.

Every invariant and action property of the runs that pass is a theorem. Liveness under fairness is out
of the prover's reach and is model-checked only.

## Plan

1. Done: task core, approvals, watchdog, wake queue, their composition and its proofs; the stall sweep,
   automations, the direct thread with the Hermes bridge, runtime hosts with their daemon.
2. Done: every invariant and action property of the passing runs proved; liveness stays with TLC.
3. `Idempotency` (`mcp.ts`) with an abstract at-most-once specification, `LoopGuard`
   (`message-routing.ts`), `ActionPolicy` (one-use approvals), `SessionLifecycle` (`lifecycle.ts`).

## Not modelled

- Of modelled components: task notes, listings and recurring definitions; approval cards, the message
  that tells the agent of a decision, and "always allow"; the wording and redaction of messages; audits,
  task events and broadcasts (written after the state they report, read by no guard here); the
  notification of people about stalls; the per-company cap of a scheduler pass and unreadable schedules;
  the figures a run's report adds; incidents an agent files or a person reopens; which of several
  threads of one removal is still at work; rooms, attachments and the duplicate filters on equal texts;
  several threads in one bridge, standby, objectives and budgets; pairing, inventory and adoption of
  agents, host updates, pruning of old jobs and records, several agents on one host.
- Components the plan names, until they are; `PROJECT.json` says for each why.
- The interface, realtime broadcast, accounts and roles, object storage, the Codex bridge and the OpenClaw plugin, and
  the device firmware: I/O and presentation, with no state these properties are about. They are most
  of the repository's lines, so the part of them the models cover is small by choice: the models
  cover the code that has to be right when things happen at once.
