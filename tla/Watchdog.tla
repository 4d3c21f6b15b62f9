------------------------------ MODULE Watchdog ------------------------------
(***************************************************************************)
(* The watchdog pass (src/src/lib/watchdog.ts): every server process runs  *)
(* one each minute under a session advisory lock.  A pass resolves its own *)
(* stale incidents, reclaims expired leases (retry, or dead-letter and     *)
(* raise an incident), then raises SLA and unclaimed-queue incidents.      *)
(* Every step is a statement of its own: other handlers run in between,    *)
(* and the process may stop between any two.                               *)
(***************************************************************************)
EXTENDS TaskRows

CONSTANTS
    Replicas,      \* server processes, each with its watchdog
    MaxIncidents,  \* bound: open dead-letter incidents told apart per task
    Deadlines,     \* bound: the deadlines that may pass (a subset of WatchReasons)
    MayCrash       \* TRUE: a process may stop (or a statement throw) in the middle of a pass

ASSUME WatchdogAssumption ==
    /\ None \notin Replicas
    /\ MaxIncidents \in Nat \ {0}
    /\ MayCrash \in BOOLEAN

VARIABLES
    passLock,   \* the replica whose session holds the advisory lock, or None
    pass,       \* [Replicas -> Pass]
    incident,   \* [Tasks -> [Reasons -> 0..MaxIncidents]]: open incidents
    aged        \* [Tasks -> SUBSET WatchReasons]: sla_due_at passed / created an hour ago

watchVars == <<passLock, pass, incident, aged>>

\* The reasons the watchdog also resolves (WATCHDOG_RESOLVABLE).
WatchReasons == {"sla_breach", "unclaimed_stale"}
Reasons == WatchReasons \cup {"max_retries_exceeded"}

Steps == {"off", "resolve", "leases", "dead", "sla_breach", "unclaimed_stale"}

\* found: the rows a SELECT of the pass returned and that are still to be handled;
\* count: tasks.retries as that SELECT read it; missing: the task whose incident is to be inserted.
Pass == [step: Steps,
         found: SUBSET Tasks,
         count: [Tasks -> 0..MaxRetries],
         missing: Tasks \cup {None}]

NoPass == [step |-> "off", found |-> {}, count |-> [t \in Tasks |-> 0], missing |-> None]

WatchdogInit ==
    /\ passLock = None
    /\ pass = [w \in Replicas |-> NoPass]
    /\ incident = [t \in Tasks |-> [c \in Reasons |-> 0]]
    /\ aged = [t \in Tasks |-> {}]

WatchdogTypeOK ==
    /\ passLock \in Replicas \cup {None}
    /\ pass \in [Replicas -> Pass]
    /\ incident \in [Tasks -> [Reasons -> 0..MaxIncidents]]
    /\ aged \in [Tasks -> SUBSET WatchReasons]

-----------------------------------------------------------------------------
\* The condition an incident of the watchdog stands for.
Holds(t, reason) ==
    /\ t \notin archived
    /\ IF reason = "unclaimed_stale" THEN task[t].state = "inbox"
                                     ELSE task[t].state \in SlaTracked

Raise(t, reason) ==
    incident' = [incident EXCEPT ![t][reason] = IF @ < MaxIncidents THEN @ + 1 ELSE @]

\* Mutant of PassLockFree: the answer of pg_try_advisory_lock is not looked at.
PassLockIgnored == TRUE

PassLockFree == passLock = None

\* pg_try_advisory_lock; a replica that does not get it skips this minute.
StartPass(w) ==
    /\ pass[w].step = "off"
    /\ PassLockFree
    /\ passLock' = w
    /\ pass' = [pass EXCEPT ![w] = [NoPass EXCEPT !.step = "resolve"]]
    /\ UNCHANGED <<rowVars, incident, aged>>

\* Mutant of Resolvable: the unclaimed-queue incidents are left open.
ResolvableSlaOnly(t, c) == c = "sla_breach" /\ ~Holds(t, c)

Resolvable(t, c) == c \in WatchReasons /\ ~Holds(t, c)

\* Mutant of ExpiredRows: passes over a task nobody owns the lease of.
OwnedExpiredRows == {t \in Tasks : LeaseExpired(t) /\ task[t].leaseOwner # None}

\* The SELECT of expired leases: archived tasks too.
ExpiredRows == {t \in Tasks : LeaseExpired(t)}

\* resolveOwnStaleIncidents, then that SELECT.
ResolveOwnStaleIncidents(w) ==
    /\ pass[w].step = "resolve"
    /\ incident' = [t \in Tasks |-> [c \in Reasons |->
                      IF Resolvable(t, c) THEN 0 ELSE incident[t][c]]]
    /\ pass' = [pass EXCEPT ![w] = [step |-> "leases", found |-> ExpiredRows,
                                    count |-> retries, missing |-> None]]
    /\ UNCHANGED <<rowVars, passLock, aged>>

Handled(w, t) == pass' = [pass EXCEPT ![w].found = @ \ {t}]

\* Mutants of RetriesLeft: one retry too many; one too few.
RetriesOneMore(w, t) == pass[w].count[t] <= MaxRetries
RetriesOneLess(w, t) == pass[w].count[t] + 1 < MaxRetries

RetriesLeft(w, t) == pass[w].count[t] < MaxRetries

\* UPDATE ... WHERE state = 'in_progress' AND lease_until < now: back to the inbox.
\* (A lease renewed and run out again since the SELECT would wait for the next pass.)
RetryTask(w, t) ==
    /\ pass[w].step = "leases" /\ t \in pass[w].found
    /\ RetriesLeft(w, t)
    /\ LeaseExpired(t)
    /\ task' = [task EXCEPT ![t] = NewRow(None, None)]
    /\ retries' = [retries EXCEPT ![t] = pass[w].count[t] + 1]
    /\ Handled(w, t)
    /\ UNCHANGED <<archived, passLock, incident, aged>>

\* The other branch keeps assignee and lease; the incident is a later INSERT.
DeadLetter(w, t) ==
    /\ pass[w].step = "leases" /\ t \in pass[w].found
    /\ ~RetriesLeft(w, t)
    /\ LeaseExpired(t)
    /\ task' = [task EXCEPT ![t].state = "dead_letter"]
    /\ pass' = [pass EXCEPT ![w].found = @ \ {t}, ![w].step = "dead", ![w].missing = t]
    /\ UNCHANGED <<retries, archived, passLock, incident, aged>>

RaiseDeadLetter(w) ==
    /\ pass[w].step = "dead"
    /\ Raise(pass[w].missing, "max_retries_exceeded")
    /\ pass' = [pass EXCEPT ![w].step = "leases", ![w].missing = None]
    /\ UNCHANGED <<rowVars, passLock, aged>>

\* The task moved on between the SELECT and the UPDATE: zero rows, next task.
SkipTask(w, t) ==
    /\ pass[w].step = "leases" /\ t \in pass[w].found
    /\ ~LeaseExpired(t)
    /\ Handled(w, t)
    /\ UNCHANGED <<rowVars, passLock, incident, aged>>

\* The SELECT of a detection: overdue tasks of the states the reason is about.
Detect(w, from, reason) ==
    /\ pass[w].step = from /\ pass[w].found = {} /\ pass[w].missing = None
    /\ pass' = [pass EXCEPT ![w] = [NoPass EXCEPT !.step = reason,
                   !.found = {t \in Tasks : reason \in aged[t] /\ Holds(t, reason)}]]
    /\ UNCHANGED <<rowVars, passLock, incident, aged>>

\* SELECT of an open incident of this task and reason; the INSERT is the next step.
CheckOpenIncident(w, t) ==
    /\ pass[w].step \in WatchReasons /\ t \in pass[w].found /\ pass[w].missing = None
    /\ pass' = [pass EXCEPT ![w].found = @ \ {t},
                            ![w].missing = IF incident[t][pass[w].step] = 0 THEN t ELSE None]
    /\ UNCHANGED <<rowVars, passLock, incident, aged>>

InsertIncident(w) ==
    /\ pass[w].step \in WatchReasons /\ pass[w].missing # None
    /\ Raise(pass[w].missing, pass[w].step)
    /\ pass' = [pass EXCEPT ![w].missing = None]
    /\ UNCHANGED <<rowVars, passLock, aged>>

EndPass(w) ==
    /\ pass[w].step = "unclaimed_stale" /\ pass[w].found = {} /\ pass[w].missing = None
    /\ pass' = [pass EXCEPT ![w] = NoPass]
    /\ passLock' = None
    /\ UNCHANGED <<rowVars, incident, aged>>

\* An exception (finally unlocks) or the end of the process (its session ends): the lock is free.
Crash(w) ==
    /\ MayCrash
    /\ pass[w].step # "off"
    /\ pass' = [pass EXCEPT ![w] = NoPass]
    /\ passLock' = None
    /\ UNCHANGED <<rowVars, incident, aged>>

-----------------------------------------------------------------------------
ReclaimTask(w, t) == RetryTask(w, t) \/ DeadLetter(w, t) \/ SkipTask(w, t)

DetectionStep(w) ==
    \/ Detect(w, "leases", "sla_breach")
    \/ Detect(w, "sla_breach", "unclaimed_stale")
    \/ \E t \in Tasks : CheckOpenIncident(w, t)
    \/ InsertIncident(w)
    \/ EndPass(w)

PassStep(w) ==
    \/ StartPass(w)
    \/ ResolveOwnStaleIncidents(w)
    \/ \E t \in Tasks : ReclaimTask(w, t)
    \/ RaiseDeadLetter(w)
    \/ DetectionStep(w)

\* PATCH /api/mcp/incidents/[id]: an incident is acknowledged or resolved, and
\* the watchdog, which looks for open ones, no longer sees it.
ResolveIncident(t, reason) ==
    /\ incident[t][reason] > 0
    /\ incident' = [incident EXCEPT ![t][reason] = @ - 1]
    /\ UNCHANGED <<rowVars, passLock, pass, aged>>

\* A deadline passes: the task's SLA, or an hour since it was created.
Ages(t, reason) ==
    /\ reason \in Deadlines
    /\ reason \notin aged[t]
    /\ aged' = [aged EXCEPT ![t] = @ \cup {reason}]
    /\ UNCHANGED <<rowVars, passLock, pass, incident>>

WatchdogNext ==
    \/ \E w \in Replicas : PassStep(w) \/ Crash(w)
    \/ \E t \in Tasks : \E c \in Reasons : ResolveIncident(t, c)
    \/ \E t \in Tasks : \E c \in WatchReasons : Ages(t, c)

-----------------------------------------------------------------------------
(***************************************************************************)
(* A pass takes a task back only while its lease is really run out (a      *)
(* heartbeat or a result that came in since the SELECT wins), and each     *)
(* time either charges exactly one retry or, none being left, dead-letters *)
(* the task.  The UPDATE writes a count read earlier: a second replica in  *)
(* a pass at the same time would lose charges.                             *)
(***************************************************************************)
ReclaimsCharged ==
    [][\A t \in Tasks : pass' # pass /\ task'[t] # task[t] =>
         /\ LeaseExpired(t)
         /\ \/ retries'[t] = retries[t] + 1 /\ task'[t].state = "inbox"
            \/ retries[t] = MaxRetries /\ task'[t].state = "dead_letter"]_<<task, retries, pass>>

(***************************************************************************)
(* A task is dead-lettered only after it was retried max_retries times.    *)
(***************************************************************************)
DeadLetterExhausted ==
    \A t \in Tasks : task[t].state = "dead_letter" => retries[t] = MaxRetries

(***************************************************************************)
(* However many server processes run a watchdog, a task never has two open *)
(* incidents of one watchdog reason.                                       *)
(***************************************************************************)
OneOpenIncident ==
    \A t \in Tasks : \A c \in WatchReasons : incident[t][c] <= 1

(***************************************************************************)
(* A task whose lease ran out does not stay so: it is renewed, taken back  *)
(* to the inbox, dead-lettered or moved on by somebody.                    *)
(***************************************************************************)
ExpiredLeaseRecovered == \A t \in Tasks : LeaseExpired(t) ~> ~LeaseExpired(t)

(***************************************************************************)
(* An incident the watchdog raised does not outlive its cause: once the    *)
(* task has moved on it is resolved, unless the cause comes back.          *)
(***************************************************************************)
StaleIncidentsResolved ==
    \A t \in Tasks : \A c \in WatchReasons :
        (incident[t][c] > 0 /\ ~Holds(t, c)) ~> (incident[t][c] = 0 \/ Holds(t, c))
=============================================================================
