---------------------------- MODULE Automations -----------------------------
(***************************************************************************)
(* The runs of one automation (src/src/lib/pipeline-runs.ts): Emperor's    *)
(* scheduler in several processes, people who run, pause and resume it,    *)
(* the agent that does the work as a task or reports runs of its own.      *)
(*                                                                         *)
(* A scheduler claims a slot by moving nextRunAt with a compare-and-set.   *)
(* Starting a run is a sequence of statements: check the automation, under *)
(* an advisory lock check that nothing runs and insert the run, create the *)
(* task, write the task on the run, look whether the task closed already.  *)
(* Time is the number of slots that came due; rows are numbered as they    *)
(* are inserted, and a row's number stands for its startedAt.              *)
(***************************************************************************)
EXTENDS Naturals, FiniteSets

CONSTANTS
    Schedulers,     \* processes that run the scheduler
    People,         \* people with at most one request in flight each
    None,
    Edits,          \* what people change: "pause", "resume", "keep" (anything else)
    MaxStreak,      \* SCHEDULER_FAILURES_BEFORE_PAUSE
    MaxRuns,        \* bound: rows of pipeline_runs
    MaxTime,        \* bound: slots that come due
    Scenarios       \* bounds: how often each thing of Kinds may happen in a behaviour

Starters == Schedulers \cup People

\* What a behaviour is given a number of: slots that come due, scheduler passes that find
\* something, Run now, edits, reports, statements of a start that fail, processes that stop.
Kinds == {"slot", "pass", "click", "edit", "report", "failure", "stop"}

ASSUME AutomationsAssumption ==
    /\ None \notin Starters
    /\ Schedulers \cap People = {}
    /\ Edits \subseteq {"pause", "resume", "keep"}
    /\ MaxStreak \in Nat \ {0} /\ MaxRuns \in Nat \ {0} /\ MaxTime \in Nat
    /\ Scenarios \subseteq [Kinds -> Nat]

VARIABLES
    clock,      \* the number of slots that came due
    pipeline,   \* the row of the automation
    run,        \* [Rows -> Run]: pipeline_runs
    taskOf,     \* [Rows -> state of the task handed out for the run]
    runLock,    \* holder of the advisory lock pipeline-run:<id>
    start,      \* [Starters -> Start]: runs being started, slots being claimed
    edit,       \* [People -> Edit]: PATCH requests in flight
    closer,     \* [Rows -> closePipelineRunsForTask in flight for the run's task]
    report,     \* the agent's report in flight
    left,       \* what is left of the scenario
    stopped,    \* a process stopped half way, or closing a run that could not start failed
    restored,   \* history: the slots an edit made the next one again after they came due (0: none)
    reopened    \* history: the runs a report set back to running

autoVars == <<clock, pipeline, run, taskOf, runLock, start, edit, closer, report,
              left, stopped, restored, reopened>>

Rows == 1..MaxRuns
Ended == {"succeeded", "failed"}
Reported == Ended \cup {"running", "skipped"}    \* "partial" goes as "succeeded" does
Statuses == Reported \cup {"none", "discarded"}
Reasons == {"no_agent", "start_error", "already_running"}

\* reason and repeat are those of a slot that started nothing ("" and 0: a real run).
Run == [status: Statuses,
        source: {"manual", "schedule", "agent"},
        slot: 0..MaxTime, force: BOOLEAN, linked: BOOLEAN,
        reason: Reasons \cup {""}, repeat: Nat, streakClosed: BOOLEAN]
NoRun == [status |-> "none", source |-> "manual", slot |-> 0, force |-> FALSE, linked |-> FALSE,
          reason |-> "", repeat |-> 0, streakClosed |-> FALSE]

\* slot is 0 for Run now; row is the run, or the row of the streak, being written.
Start == [step: {"idle", "unset", "claim", "load", "lock", "insert", "hand", "link", "recheck",
                 "discard", "fail", "sync", "record", "count", "note", "last", "pause"},
          slot: 0..MaxTime, now: 0..MaxTime, force: BOOLEAN, row: 0..MaxRuns,
          reason: Reasons \cup {""}, repeat: Nat]
NoStart == [step |-> "idle", slot |-> 0, now |-> 0, force |-> FALSE, row |-> 0,
            reason |-> "", repeat |-> 0]

Edit == [step: {"idle", "write", "streak"}, to: Edits \cup {""}, status: {"active", "paused"},
         nextRunAt: 0..MaxTime + 1, now: 0..MaxTime]
NoEdit == [step |-> "idle", to |-> "", status |-> "active", nextRunAt |-> 0, now |-> 0]

Report == [step: {"idle", "write", "last"}, row: 0..MaxRuns, status: Reported,
           repeat: Nat, streakClosed: BOOLEAN]
NoReport == [step |-> "idle", row |-> 0, status |-> "running", repeat |-> 0, streakClosed |-> FALSE]

\* nextRunAt 0: null; lastRunAt: the row it came from.
AutoInit ==
    /\ clock = 0
    /\ pipeline = [status |-> "active", nextRunAt |-> 0,
                   lastRunAt |-> 0, lastRunStatus |-> "none"]
    /\ run = [r \in Rows |-> NoRun]
    /\ taskOf = [r \in Rows |-> "none"]
    /\ runLock = None
    /\ start = [h \in Starters |-> NoStart]
    /\ edit = [p \in People |-> NoEdit]
    /\ closer = [r \in Rows |-> "none"]
    /\ report = NoReport
    /\ left \in Scenarios
    /\ stopped = FALSE
    /\ restored = {} /\ reopened = {}

Running == {r \in Rows : run[r].status = "running"}
Unused == {r \in Rows : run[r].status = "none"}
NextRow == CHOOSE r \in Unused : \A s \in Unused : r <= s

\* orderBy(desc(startedAt)); 0: there is none.
Latest ==
    LET used == {r \in Rows : run[r].status \notin {"none", "discarded"}}
    IN IF used = {} THEN 0 ELSE CHOOSE r \in used : \A s \in used : s <= r

\* Mutant of ComputeNextRunAt: the next slot is computed from the next slot.
ComputeNextRunAtLate(status, now) == IF status = "active" THEN now + 2 ELSE 0

\* computeNextRunAt: the first slot after now.
ComputeNextRunAt(status, now) == IF status = "active" THEN now + 1 ELSE 0

Becomes(h, step) == start' = [start EXCEPT ![h].step = step]
Done(h) == start' = [start EXCEPT ![h] = NoStart]

\* One of the k the scenario has.
Spend(k) == left[k] > 0 /\ left' = [left EXCEPT ![k] = @ - 1]

-----------------------------------------------------------------------------
(* runScheduledPipelines *)

SlotComesDue ==
    /\ clock < MaxTime
    /\ Spend("slot")
    /\ clock' = clock + 1
    /\ UNCHANGED <<pipeline, run, taskOf, runLock, start, edit, closer, report, stopped, restored, reopened>>

\* The two SELECTs of a pass, with its `now`: an automation without a slot, or a due one.
SelectScheduled(w) ==
    /\ start[w].step = "idle"
    /\ pipeline.status = "active"
    /\ pipeline.nextRunAt <= clock
    /\ Spend("pass")
    /\ start' = [start EXCEPT ![w] =
                   [NoStart EXCEPT !.step = IF pipeline.nextRunAt = 0 THEN "unset" ELSE "claim",
                                   !.slot = pipeline.nextRunAt, !.now = clock]]
    /\ UNCHANGED <<clock, pipeline, run, taskOf, runLock, edit, closer, report, stopped, restored, reopened>>

\* The first slot is set without firing, WHERE next_run_at IS NULL; whatever the status is now.
SetFirstSlot(w) ==
    /\ start[w].step = "unset"
    /\ pipeline' = IF pipeline.nextRunAt = 0
                   THEN [pipeline EXCEPT !.nextRunAt = ComputeNextRunAt("active", start[w].now)]
                   ELSE pipeline
    /\ Done(w)
    /\ UNCHANGED <<clock, run, taskOf, runLock, edit, closer, report, left, stopped, restored, reopened>>

\* Mutant of Claimable: the compare of the compare-and-set is left out.
ClaimableAnySlot(slot) == pipeline.status = "active"

Claimable(slot) == pipeline.status = "active" /\ pipeline.nextRunAt = slot

ClaimSlot(w) ==
    /\ start[w].step = "claim"
    /\ IF Claimable(start[w].slot)
       THEN /\ pipeline' = [pipeline EXCEPT
                              !.nextRunAt = ComputeNextRunAt("active", start[w].now)]
            /\ Becomes(w, "load")
       ELSE Done(w) /\ UNCHANGED pipeline
    /\ UNCHANGED <<clock, run, taskOf, runLock, edit, closer, report, left, stopped, restored, reopened>>

-----------------------------------------------------------------------------
(* startPipelineRun *)

RunNow(p, force) ==
    /\ start[p].step = "idle" /\ edit[p].step = "idle"
    /\ Spend("click")
    /\ start' = [start EXCEPT ![p] = [NoStart EXCEPT !.step = "load", !.force = force]]
    /\ UNCHANGED <<clock, pipeline, run, taskOf, runLock, edit, closer, report, stopped, restored, reopened>>

\* A start that was refused: a scheduled slot is recorded, a person is told.
Refused(h, reason) ==
    IF h \in Schedulers
    THEN start' = [start EXCEPT ![h].step = "record", ![h].reason = reason]
    ELSE Done(h)

\* Not active (any more): neither started nor recorded.
LoadPipeline(h) ==
    /\ start[h].step = "load"
    /\ IF pipeline.status = "active" THEN Becomes(h, "lock") ELSE Done(h)
    /\ UNCHANGED <<clock, pipeline, run, taskOf, runLock, edit, closer, report, left, stopped,
                   restored, reopened>>

\* resolveRunner throws: no agent, deleted or paused.
NoRunner(h) ==
    /\ start[h].step = "load"
    /\ pipeline.status = "active"
    /\ Spend("failure")
    /\ Refused(h, "no_agent")
    /\ UNCHANGED <<clock, pipeline, run, taskOf, runLock, edit, closer, report, stopped, restored, reopened>>

\* Mutant of RunLockFree: the check and the insert run beside another handler's.
RunLockIgnored == runLock \in Starters \cup {None}

RunLockFree == runLock = None

\* The lock, and what runs when it is held.
CheckRunning(h) ==
    /\ start[h].step = "lock"
    /\ RunLockFree
    /\ IF Running # {} /\ ~start[h].force
       THEN Refused(h, "already_running") /\ UNCHANGED runLock
       ELSE Becomes(h, "insert") /\ runLock' = h
    /\ UNCHANGED <<clock, pipeline, run, taskOf, edit, closer, report, left, stopped, restored, reopened>>

\* The run and the automation's count and last run, in one transaction.
InsertRun(h) ==
    /\ start[h].step = "insert"
    /\ Unused # {}
    /\ run' = [run EXCEPT ![NextRow] =
                 [NoRun EXCEPT !.status = "running", !.slot = start[h].slot,
                               !.force = start[h].force,
                               !.source = IF h \in Schedulers THEN "schedule" ELSE "manual"]]
    /\ pipeline' = [pipeline EXCEPT !.lastRunAt = NextRow,
                                    !.lastRunStatus = "running"]
    /\ start' = [start EXCEPT ![h].step = "hand", ![h].row = NextRow]
    /\ runLock' = None
    /\ UNCHANGED <<clock, taskOf, edit, closer, report, left, stopped, restored, reopened>>

\* createTaskForProject.
HandOut(h) ==
    /\ start[h].step = "hand"
    /\ taskOf' = [taskOf EXCEPT ![start[h].row] = "open"]
    /\ Becomes(h, "link")
    /\ UNCHANGED <<clock, pipeline, run, runLock, edit, closer, report, left, stopped, restored, reopened>>

\* The task, or writing it on the run, fails: a slot without a task is discarded.
HandOutFails(h) ==
    /\ start[h].step \in {"hand", "link"}
    /\ Spend("failure")
    /\ start' = [start EXCEPT
                   ![h].step = IF h \in Schedulers /\ start[h].step = "hand"
                               THEN "discard" ELSE "fail",
                   ![h].reason = "start_error"]
    /\ UNCHANGED <<clock, pipeline, run, taskOf, runLock, edit, closer, report, stopped, restored, reopened>>

LinkTask(h) ==
    /\ start[h].step = "link"
    /\ run' = [run EXCEPT ![start[h].row].linked = TRUE]
    /\ Becomes(h, "recheck")
    /\ UNCHANGED <<clock, pipeline, taskOf, runLock, edit, closer, report, left, stopped, restored, reopened>>

\* Mutant of TaskClosed: the task is not looked at again once it is written on the run.
TaskNotLookedAt(r) == FALSE

TaskClosed(r) == taskOf[r] \in Ended

\* UPDATE pipeline_runs ... WHERE status = 'running'.
EndRun(r, status) ==
    run' = IF run[r].status = "running" THEN [run EXCEPT ![r].status = status] ELSE run

\* A fast agent closed the task before it was written on the run: close the run here.
RecheckTask(h) ==
    /\ start[h].step = "recheck"
    /\ LET r == start[h].row
       IN IF TaskClosed(r) /\ run[r].status = "running"
          THEN EndRun(r, taskOf[r]) /\ Becomes(h, "sync")
          ELSE Done(h) /\ UNCHANGED run
    /\ UNCHANGED <<clock, pipeline, taskOf, runLock, edit, closer, report, left, stopped, restored, reopened>>

DiscardRun(h) ==
    /\ start[h].step = "discard"
    /\ IF run[start[h].row].status = "running"
       THEN run' = [run EXCEPT ![start[h].row].status = "discarded"]
       ELSE UNCHANGED run
    /\ Becomes(h, "record")
    /\ UNCHANGED <<clock, pipeline, taskOf, runLock, edit, closer, report, left, stopped, restored, reopened>>

FailRun(h) ==
    /\ start[h].step = "fail"
    /\ EndRun(start[h].row, "failed")
    /\ IF run[start[h].row].status = "running" THEN Becomes(h, "sync")
       ELSE Refused(h, start[h].reason)
    /\ UNCHANGED <<clock, pipeline, taskOf, runLock, edit, closer, report, left, stopped, restored, reopened>>

\* The error of discardRun or failRun is logged and the run left as it is.
CleanUpFails(h) ==
    /\ start[h].step \in {"discard", "fail"}
    /\ Spend("failure")
    /\ Refused(h, start[h].reason)
    /\ stopped' = TRUE
    /\ UNCHANGED <<clock, pipeline, run, taskOf, runLock, edit, closer, report, restored, reopened>>

\* syncLastRunStatus: the last run's status follows a run that ended while it is the last.
Synced(r) ==
    pipeline' = IF pipeline.lastRunAt = r
                THEN [pipeline EXCEPT !.lastRunStatus = run[r].status] ELSE pipeline

SyncLastRun(h) ==
    /\ start[h].step = "sync"
    /\ Synced(start[h].row)
    /\ IF start[h].reason # "" THEN Refused(h, start[h].reason) ELSE Done(h)
    /\ UNCHANGED <<clock, run, taskOf, runLock, edit, closer, report, left, stopped, restored, reopened>>

-----------------------------------------------------------------------------
(* recordScheduleOutcome and pauseBySystem *)

OutcomeOf(reason) == IF reason = "already_running" THEN "skipped" ELSE "failed"

\* The latest row counts the same kind of failure, in a streak no resume has closed.
SameStreak(r, reason) ==
    /\ r # 0
    /\ run[r].status = OutcomeOf(reason) /\ run[r].source = "schedule"
    /\ run[r].reason = reason
    /\ ~run[r].streakClosed

ReadLatest(w) ==
    /\ start[w].step = "record"
    /\ start' = [start EXCEPT
                   ![w].step = IF SameStreak(Latest, start[w].reason) THEN "count" ELSE "note",
                   ![w].row = Latest,
                   ![w].repeat = IF SameStreak(Latest, start[w].reason)
                                 THEN run[Latest].repeat + 1 ELSE 1]
    /\ UNCHANGED <<clock, pipeline, run, taskOf, runLock, edit, closer, report, left, stopped,
                   restored, reopened>>

\* What is left of a recorded slot: the pause after a streak of failures.
Recorded(w) ==
    IF OutcomeOf(start[w].reason) = "failed" /\ start[w].repeat >= MaxStreak
    THEN Becomes(w, "pause") ELSE Done(w)

\* The stats are written back as they were read, open streak included.
CountRepeat(w) ==
    /\ start[w].step = "count"
    /\ run' = [run EXCEPT ![start[w].row].repeat = start[w].repeat,
                          ![start[w].row].streakClosed = FALSE]
    /\ Recorded(w)
    /\ UNCHANGED <<clock, pipeline, taskOf, runLock, edit, closer, report, left, stopped, restored, reopened>>

NoteOutcome(w) ==
    /\ start[w].step = "note"
    /\ Unused # {}
    /\ run' = [run EXCEPT ![NextRow] =
                 [NoRun EXCEPT !.status = OutcomeOf(start[w].reason), !.source = "schedule",
                               !.slot = start[w].slot, !.reason = start[w].reason,
                               !.repeat = 1]]
    /\ IF OutcomeOf(start[w].reason) = "failed"
       THEN start' = [start EXCEPT ![w].step = "last", ![w].row = NextRow]
       ELSE Done(w)
    /\ UNCHANGED <<clock, pipeline, taskOf, runLock, edit, closer, report, left, stopped, restored, reopened>>

NoteLastRun(w) ==
    /\ start[w].step = "last"
    /\ pipeline' = [pipeline EXCEPT !.lastRunAt = start[w].row, !.lastRunStatus = "failed"]
    /\ Recorded(w)
    /\ UNCHANGED <<clock, run, taskOf, runLock, edit, closer, report, left, stopped, restored, reopened>>

PauseBySystem(w) ==
    /\ start[w].step = "pause"
    /\ pipeline' = IF pipeline.status = "active"
                   THEN [pipeline EXCEPT !.status = "paused", !.nextRunAt = 0] ELSE pipeline
    /\ Done(w)
    /\ UNCHANGED <<clock, run, taskOf, runLock, edit, closer, report, left, stopped, restored, reopened>>

-----------------------------------------------------------------------------
(* PATCH /api/pipelines/[id]: the row is read, checked, and written back by id. *)

\* A status it has already is a "keep".
EditRead(p, to) ==
    /\ edit[p].step = "idle" /\ start[p].step = "idle"
    /\ to = "pause" => pipeline.status = "active"
    /\ to = "resume" => pipeline.status = "paused"
    /\ Spend("edit")
    /\ edit' = [edit EXCEPT ![p] = [step |-> "write", to |-> to, status |-> pipeline.status,
                                    nextRunAt |-> pipeline.nextRunAt, now |-> clock]]
    /\ UNCHANGED <<clock, pipeline, run, taskOf, runLock, start, closer, report, stopped, restored, reopened>>

NextStatus(e) == CASE e.to = "pause" -> "paused" [] e.to = "resume" -> "active" [] OTHER -> e.status

\* The next slot moves only when the schedule does; otherwise the one read is written back.
EditWrite(p) ==
    /\ edit[p].step = "write"
    /\ LET e == edit[p]
           s == NextStatus(e)
           next == IF s # e.status THEN ComputeNextRunAt(s, e.now) ELSE e.nextRunAt
       IN /\ pipeline' = [pipeline EXCEPT !.status = s, !.nextRunAt = next]
          /\ restored' = IF /\ s = "active" /\ next <= clock
                            /\ pipeline.status # "active" \/ pipeline.nextRunAt # next
                         THEN restored \cup {next} ELSE restored
          /\ edit' = [edit EXCEPT ![p] = IF s = "active" /\ e.status # "active"
                                         THEN [e EXCEPT !.step = "streak"] ELSE NoEdit]
    /\ UNCHANGED <<clock, run, taskOf, runLock, start, closer, report, left, stopped, reopened>>

\* closeScheduleStreak, after the automation is on again.
CloseScheduleStreak(p) ==
    /\ edit[p].step = "streak"
    /\ run' = [r \in Rows |-> IF run[r].reason # "" THEN [run[r] EXCEPT !.streakClosed = TRUE]
                              ELSE run[r]]
    /\ edit' = [edit EXCEPT ![p] = NoEdit]
    /\ UNCHANGED <<clock, pipeline, taskOf, runLock, start, closer, report, left, stopped,
                   restored, reopened>>

-----------------------------------------------------------------------------
(* The agent's task, closePipelineRunsForTask, and the runs the agent reports *)

\* The task is done or failed; its broadcast is followed up off the request path.
AgentClosesTask(r, status) ==
    /\ taskOf[r] = "open"
    /\ taskOf' = [taskOf EXCEPT ![r] = status]
    /\ closer' = [closer EXCEPT ![r] = "close"]
    /\ UNCHANGED <<clock, pipeline, run, runLock, start, edit, report, left, stopped, restored, reopened>>

\* The run is found by the task written on it, and by nothing else.
CloseRunForTask(r) ==
    /\ closer[r] = "close"
    /\ IF run[r].linked /\ run[r].status = "running"
       THEN EndRun(r, taskOf[r]) /\ closer' = [closer EXCEPT ![r] = "sync"]
       ELSE closer' = [closer EXCEPT ![r] = "none"] /\ UNCHANGED run
    /\ UNCHANGED <<clock, pipeline, taskOf, runLock, start, edit, report, left, stopped, restored, reopened>>

SyncClosedRun(r) ==
    /\ closer[r] = "sync"
    /\ Synced(r)
    /\ closer' = [closer EXCEPT ![r] = "none"]
    /\ UNCHANGED <<clock, run, taskOf, runLock, start, edit, report, left, stopped, restored, reopened>>

\* The runs a report finds by id, and its UPDATE finds again.
StillReported(r) == run[r].status \notin {"none", "discarded"}

\* POST runs with a runId: any status for any run there is, Emperor's own included.
ReportRead(r, status) ==
    /\ report.step = "idle"
    /\ StillReported(r)
    /\ Spend("report")
    /\ report' = [step |-> "write", row |-> r, status |-> status,
                  repeat |-> run[r].repeat, streakClosed |-> run[r].streakClosed]
    /\ UNCHANGED <<clock, pipeline, run, taskOf, runLock, start, edit, closer, stopped, restored,
                   reopened>>

\* By id, without the lock, whatever the run's status is now; the stats as they were read.
ReportWrite ==
    /\ report.step = "write"
    /\ LET r == report.row
       IN IF StillReported(r)
          THEN /\ run' = [run EXCEPT ![r].status = report.status, ![r].repeat = report.repeat,
                                     ![r].streakClosed = report.streakClosed]
               /\ report' = IF report.status = "running" THEN NoReport
                            ELSE [NoReport EXCEPT !.step = "last", !.row = r, !.status = report.status]
               /\ reopened' = IF report.status = "running" /\ run[r].status # "running"
                              THEN reopened \cup {r} ELSE reopened
          ELSE report' = NoReport /\ UNCHANGED <<run, reopened>>
    /\ UNCHANGED <<clock, pipeline, taskOf, runLock, start, edit, closer, left, stopped, restored>>

\* POST runs without one: a run of the agent's own, or of its cron, that goes on or is over.
ReportStart(source, status) ==
    /\ report.step = "idle"
    /\ Unused # {}
    /\ Spend("report")
    /\ run' = [run EXCEPT ![NextRow] = [NoRun EXCEPT !.status = status, !.source = source]]
    /\ report' = [NoReport EXCEPT !.step = "last", !.row = NextRow, !.status = status]
    /\ UNCHANGED <<clock, pipeline, taskOf, runLock, start, edit, closer, stopped, restored,
                   reopened>>

ReportLastRun ==
    /\ report.step = "last"
    /\ pipeline' = [pipeline EXCEPT !.lastRunAt = report.row, !.lastRunStatus = report.status]
    /\ report' = NoReport
    /\ UNCHANGED <<clock, run, taskOf, runLock, start, edit, closer, left, stopped, restored,
                   reopened>>

-----------------------------------------------------------------------------
\* A server process stops: what it was doing is gone, its transaction rolled back.
Crash(h) ==
    /\ Spend("stop")
    /\ start[h].step # "idle"
    /\ Done(h)
    /\ runLock' = IF runLock = h THEN None ELSE runLock
    /\ stopped' = TRUE
    /\ UNCHANGED <<clock, pipeline, run, taskOf, edit, closer, report, restored, reopened>>

CloserStops(r) ==
    /\ Spend("stop")
    /\ closer[r] # "none"
    /\ closer' = [closer EXCEPT ![r] = "none"]
    /\ stopped' = TRUE
    /\ UNCHANGED <<clock, pipeline, run, taskOf, runLock, start, edit, report, restored, reopened>>

StartStep(h) ==
    \/ LoadPipeline(h) \/ NoRunner(h)
    \/ CheckRunning(h) \/ InsertRun(h)
    \/ HandOut(h) \/ HandOutFails(h) \/ LinkTask(h) \/ RecheckTask(h)
    \/ DiscardRun(h) \/ FailRun(h) \/ CleanUpFails(h) \/ SyncLastRun(h)

SchedulerStep(w) ==
    \/ SetFirstSlot(w) \/ ClaimSlot(w)
    \/ ReadLatest(w) \/ CountRepeat(w) \/ NoteOutcome(w) \/ NoteLastRun(w)
    \/ PauseBySystem(w)

CloserStep(r) == CloseRunForTask(r) \/ SyncClosedRun(r)

AutoNext ==
    \/ SlotComesDue
    \/ \E w \in Schedulers : SelectScheduled(w) \/ SchedulerStep(w)
    \/ \E h \in Starters : StartStep(h) \/ Crash(h)
    \/ \E p \in People : \/ \E force \in BOOLEAN : RunNow(p, force)
                         \/ \E to \in Edits : EditRead(p, to)
                         \/ EditWrite(p) \/ CloseScheduleStreak(p)
    \/ \E r \in Rows : \/ \E status \in Ended : AgentClosesTask(r, status)
                       \/ CloserStep(r) \/ CloserStops(r)
    \/ \E status \in Reported : \/ \E r \in Rows : ReportRead(r, status)
                               \/ \E source \in {"agent", "schedule"} : ReportStart(source, status)
    \/ ReportWrite \/ ReportLastRun

AutoSpec == AutoInit /\ [][AutoNext]_autoVars

-----------------------------------------------------------------------------
(* Type of every variable. *)
TypeOK ==
    /\ clock \in 0..MaxTime
    /\ pipeline \in [status: {"active", "paused"}, nextRunAt: 0..MaxTime + 1,
                     lastRunAt: 0..MaxRuns, lastRunStatus: Statuses]
    /\ run \in [Rows -> Run]
    /\ taskOf \in [Rows -> Ended \cup {"none", "open"}]
    /\ runLock \in Starters \cup {None}
    /\ start \in [Starters -> Start]
    /\ edit \in [People -> Edit]
    /\ closer \in [Rows -> {"none", "close", "sync"}]
    /\ report \in Report
    /\ left \in [Kinds -> Nat] /\ stopped \in BOOLEAN
    /\ restored \subseteq 0..MaxTime + 1 /\ reopened \subseteq Rows

\* The runs the agent reported from their start: no start of Emperor's, no slot of its schedule.
Own(r) == run[r].source = "agent" \/ (run[r].source = "schedule" /\ run[r].slot = 0)

\* What the runs route starts or starts again without the lock and without a task.
Foreign(r) == Own(r) \/ r \in reopened

(***************************************************************************)
(* Two clicks, two server processes, or a click and a slot never start two *)
(* runs that go on side by side: of two running runs the later was forced, *)
(* or one of them takes no lock: it is the agent's own, or had ended and   *)
(* was set back to running by a report.                                    *)
(***************************************************************************)
OneRunning ==
    \A q, r \in Running : q < r => run[r].force \/ Foreign(q) \/ Foreign(r)

(***************************************************************************)
(* A slot is fired at most once, by whichever process claimed it: through  *)
(* late claims, crashes, pauses and resumes no slot starts a second run,   *)
(* not even after a first one that was discarded.  Only an edit that was   *)
(* under way while a slot came due brings it back: it writes the slot it   *)
(* read over a claim in between, or the one it computed from an old `now`  *)
(* over another's resume or pause; or it brings back an earlier slot, or   *)
(* that there was none, and a scheduler goes on to the slot that follows   *)
(* its own old `now`.                                                      *)
(***************************************************************************)
SlotFiredOnce ==
    \A q, r \in Rows :
        (run[q].slot = run[r].slot /\ run[r].slot # 0 /\ run[q].reason = "" /\ run[r].reason = "")
            => q = r \/ \E slot \in restored : slot <= run[r].slot

\* A start is at work on the run.
Handing(r) ==
    \E h \in Starters :
        start[h].row = r /\ start[h].step \in {"hand", "link", "recheck", "discard", "fail"}

(***************************************************************************)
(* A run that was started gets its task, or ends; and it ends when its     *)
(* task does, also when the agent closed the task before the run knew it:  *)
(* a run goes on only while it is being handed out, or its task is open or *)
(* just closed.  Only a stop or a failed clean-up leaves it running, or a  *)
(* report that sets it back to running once it has ended.                  *)
(***************************************************************************)
RunFollowsItsTask ==
    \A r \in Running :
        \/ stopped
        \/ Foreign(r)
        \/ Handing(r)
        \/ run[r].linked /\ (taskOf[r] = "open" \/ closer[r] = "close")
=============================================================================
