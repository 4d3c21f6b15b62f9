------------------------------ MODULE TaskWake ------------------------------
(***************************************************************************)
(* Waking an agent when tasks are assigned to it                           *)
(* (src/src/lib/task-wake.ts): the first assignment posts at once, those   *)
(* within a minute of it wait on the agent's row and go out as one         *)
(* message.                                                                *)
(*                                                                         *)
(* One agent: the queue and its advisory lock are per agent.  A transaction*)
(* is two steps (read, write); the posting and a failed post's re-queueing *)
(* come after it, outside the lock.                                        *)
(***************************************************************************)
EXTENDS Naturals

CONSTANTS
    Tasks,
    Callers,      \* assignment handlers that may be in flight at once
    Monitors,     \* server processes, each with its lifecycle monitor
    None,
    MaxAssigned,  \* bound: assignments of one task
    Troubles      \* sets of troubles, one of which a behaviour may meet: "fail", a
                  \* post fails (postWakeMessage throws before its INSERT), and
                  \* "stop", a handler stops half way

ASSUME TaskWakeAssumption ==
    /\ Callers \cap Monitors = {}
    /\ None \notin Callers \cup Monitors \cup Tasks
    /\ MaxAssigned \in Nat
    /\ Troubles \subseteq SUBSET {"fail", "stop"}

VARIABLES
    mine,       \* the open tasks assigned to the agent
    agentWake,  \* agents.metadata_json.agentWake
    wakeLock,   \* the agent's advisory lock: who holds it, or None
    handler,    \* [Callers \cup Monitors -> Handler]
    assigned,   \* [Tasks -> 0..MaxAssigned]: assignments so far
    told,       \* [Tasks -> 0..MaxAssigned]: messages that announced the task
    owed,       \* the tasks of `mine` whose last assignment no message announced yet
    trouble     \* the troubles of this behaviour

vars == <<mine, agentWake, wakeLock, handler, assigned, told, owed, trouble>>

(***************************************************************************)
(* last: how long ago lastWakeAt is, "none" when the key is missing.       *)
(* `early`: the clock the handler read is within the window of that wake,  *)
(* which passed since.                                                     *)
(***************************************************************************)
AgentWake == [last: {"none", "recent", "old"}, pending: SUBSET Tasks]

Handler == [step: {"idle", "lock", "write", "filter", "post", "requeue"},
            on: Tasks \cup {None},
            early: BOOLEAN,
            read: AgentWake,
            batch: SUBSET Tasks]

NoWake == [last |-> "none", pending |-> {}]
NoHandler == [step |-> "idle", on |-> None, early |-> FALSE, read |-> NoWake, batch |-> {}]

Init ==
    /\ mine = {}
    /\ agentWake = NoWake
    /\ wakeLock = None
    /\ handler = [h \in Callers \cup Monitors |-> NoHandler]
    /\ assigned = [t \in Tasks |-> 0]
    /\ told = [t \in Tasks |-> 0]
    /\ owed = {}
    /\ trouble \in Troubles

TypeOK ==
    /\ mine \subseteq Tasks /\ owed \subseteq mine
    /\ agentWake \in AgentWake
    /\ wakeLock \in Callers \cup Monitors \cup {None}
    /\ handler \in [Callers \cup Monitors -> Handler]
    /\ assigned \in [Tasks -> 0..MaxAssigned]
    /\ told \in [Tasks -> Nat]
    /\ trouble \in Troubles

\* readAgentWakeState: without a numeric lastWakeAt the whole entry counts as absent.
Readable(wake) == IF wake.last = "none" THEN NoWake ELSE wake

StillOpen(batch) == batch \cap mine

Goes(h, step) == handler' = [handler EXCEPT ![h].step = step]
Ends(h) == handler' = [handler EXCEPT ![h] = NoHandler]

-----------------------------------------------------------------------------
\* A handler of another module made the agent the task's assignee and calls
\* wakeAgentOnTaskAssignment, which reads the clock before it takes the lock.
Assign(c, t) ==
    /\ handler[c].step = "idle"
    /\ t \notin mine
    /\ assigned[t] < MaxAssigned
    /\ mine' = mine \cup {t}
    /\ owed' = owed \cup {t}
    /\ assigned' = [assigned EXCEPT ![t] = @ + 1]
    /\ handler' = [handler EXCEPT ![c] = [NoHandler EXCEPT !.step = "lock", !.on = t]]
    /\ UNCHANGED <<agentWake, wakeLock, told, trouble>>

\* The task is closed by a result (finalizeTaskForAgent) or in another way:
\* archived, or assigned to somebody else.
MovesOn(t) ==
    /\ t \in mine
    /\ mine' = mine \ {t}
    /\ owed' = owed \ {t}
    /\ UNCHANGED <<agentWake, wakeLock, handler, assigned, told, trouble>>

\* flushPendingAgentWakes: agents with a non-empty pending list are candidates.
Tick(m) ==
    /\ handler[m].step = "idle"
    /\ agentWake.pending # {}
    /\ handler' = [handler EXCEPT ![m] = [NoHandler EXCEPT !.step = "lock"]]
    /\ UNCHANGED <<mine, agentWake, wakeLock, assigned, told, owed, trouble>>

\* Mutant of WakeLockFree: the entry is read and written without the lock.
WakeLockIgnored == TRUE

WakeLockFree == wakeLock = None

LockAndRead(h) ==
    /\ handler[h].step = "lock"
    /\ WakeLockFree
    /\ wakeLock' = h
    /\ handler' = [handler EXCEPT ![h].step = "write", ![h].read = Readable(agentWake)]
    /\ UNCHANGED <<mine, agentWake, assigned, told, owed, trouble>>

\* Mutant of InWindow: an agent that was woken once is in the window for ever.
InWindowEver(h) == handler[h].read.last # "none"

InWindow(h) ==
    \/ handler[h].read.last = "recent"
    \/ handler[h].read.last = "old" /\ handler[h].early

\* Mutant of WithThisTask: the pending list is replaced.
ThisTaskAlone(c) == {handler[c].on}

WithThisTask(c) == handler[c].read.pending \cup {handler[c].on}

\* decideWakeCoalescing "queue": the time of the last wake is kept.
Queue(c) ==
    /\ handler[c].step = "write"
    /\ InWindow(c)
    /\ agentWake' = [last |-> handler[c].read.last, pending |-> WithThisTask(c)]
    /\ Ends(c)
    /\ wakeLock' = None
    /\ UNCHANGED <<mine, assigned, told, owed, trouble>>

\* "flush": everything queued and this task; dropping what moved on is a later read.
Flush(c) ==
    /\ handler[c].step = "write"
    /\ ~InWindow(c)
    /\ agentWake' = [last |-> "recent", pending |-> {}]
    /\ handler' = [handler EXCEPT ![c] = [NoHandler EXCEPT !.step = "filter", !.batch = WithThisTask(c)]]
    /\ wakeLock' = None
    /\ UNCHANGED <<mine, assigned, told, owed, trouble>>

FilterStillOpen(c) ==
    /\ handler[c].step = "filter"
    /\ LET live == StillOpen(handler[c].batch)
       IN handler' = [handler EXCEPT ![c] =
                        IF live = {} THEN NoHandler ELSE [handler[c] EXCEPT !.step = "post",
                                                               !.batch = live]]
    /\ UNCHANGED <<mine, agentWake, wakeLock, assigned, told, owed, trouble>>

\* The monitor filters inside its transaction, and leaves an entry it cannot read as it is.
FlushPending(m) ==
    /\ handler[m].step = "write"
    /\ handler[m].read.pending # {} /\ ~InWindow(m)
    /\ agentWake' = [last |-> "recent", pending |-> {}]
    /\ LET live == StillOpen(handler[m].read.pending)
       IN handler' = [handler EXCEPT ![m] =
                        IF live = {} THEN NoHandler
                        ELSE [NoHandler EXCEPT !.step = "post", !.batch = live]]
    /\ wakeLock' = None
    /\ UNCHANGED <<mine, assigned, told, owed, trouble>>

NothingToFlush(m) ==
    /\ handler[m].step = "write"
    /\ handler[m].read.pending = {} \/ InWindow(m)
    /\ Ends(m)
    /\ wakeLock' = None
    /\ UNCHANGED <<mine, agentWake, assigned, told, owed, trouble>>

PostWakeMessage(h) ==
    /\ handler[h].step = "post"
    /\ told' = [t \in Tasks |-> IF t \in handler[h].batch THEN told[t] + 1 ELSE told[t]]
    /\ owed' = owed \ handler[h].batch
    /\ Ends(h)
    /\ UNCHANGED <<mine, agentWake, wakeLock, assigned, trouble>>

PostFails(h) ==
    /\ "fail" \in trouble
    /\ handler[h].step = "post"
    /\ Goes(h, "requeue")
    /\ UNCHANGED <<mine, agentWake, wakeLock, assigned, told, owed, trouble>>

\* requeueAgentWakes: not under the lock, and the entry it writes has no lastWakeAt.
RequeueAgentWakes(h) ==
    /\ handler[h].step = "requeue"
    /\ agentWake' = [last |-> "none", pending |-> handler[h].batch]
    /\ Ends(h)
    /\ UNCHANGED <<mine, wakeLock, assigned, told, owed, trouble>>

HandlerStops(h) ==
    /\ "stop" \in trouble
    /\ handler[h].step # "idle"
    /\ Ends(h)
    /\ wakeLock' = IF wakeLock = h THEN None ELSE wakeLock
    /\ UNCHANGED <<mine, agentWake, assigned, told, owed, trouble>>

\* AGENT_WAKE_COALESCE_MS pass; a handler that read the clock before decides as of then.
WindowPasses ==
    /\ agentWake.last = "recent" \/ \E h \in DOMAIN handler : handler[h].read.last = "recent"
    /\ agentWake' = [agentWake EXCEPT !.last = IF @ = "recent" THEN "old" ELSE @]
    /\ handler' = [h \in DOMAIN handler |->
                     IF handler[h].step \in {"lock", "write"}
                     THEN [handler[h] EXCEPT !.early = TRUE,
                                             !.read.last = IF @ = "recent" THEN "old" ELSE @]
                     ELSE handler[h]]
    /\ UNCHANGED <<mine, wakeLock, assigned, told, owed, trouble>>

-----------------------------------------------------------------------------
\* Mutant of AfterLock: a monitor queues as an assignment does, with no task at hand.
AfterLockUntold(h) == Queue(h) \/ Flush(h) \/ FilterStillOpen(h) \/ PostWakeMessage(h)

AfterLock(h) ==
    \/ h \in Callers /\ (Queue(h) \/ Flush(h) \/ FilterStillOpen(h))
    \/ h \in Monitors /\ (FlushPending(h) \/ NothingToFlush(h))
    \/ PostWakeMessage(h)
    \/ RequeueAgentWakes(h)

Next ==
    \/ \E c \in Callers, t \in Tasks : Assign(c, t)
    \/ \E t \in Tasks : MovesOn(t)
    \/ \E m \in Monitors : Tick(m)
    \/ \E h \in Callers \cup Monitors :
         LockAndRead(h) \/ AfterLock(h) \/ PostFails(h) \/ HandlerStops(h)
    \/ WindowPasses

Spec == Init /\ [][Next]_vars

(***************************************************************************)
(* A handler that was started runs on (PostgreSQL queues the waiters of an *)
(* advisory lock: hence SF), the monitor ticks every 15 seconds and time   *)
(* passes.                                                                 *)
(***************************************************************************)
Fairness ==
    /\ \A h \in Callers \cup Monitors : SF_vars(LockAndRead(h)) /\ WF_vars(AfterLock(h))
    /\ \A m \in Monitors : SF_vars(Tick(m))
    /\ WF_vars(WindowPasses)

FairSpec == Spec /\ Fairness

-----------------------------------------------------------------------------
(***************************************************************************)
(* A wake is never dropped: as long as the agent has not been told of a    *)
(* task that is still its own, the task is on the queue the next flush     *)
(* will read, or in the hands of a handler that is going to post it.       *)
(***************************************************************************)
Carries(h, t) ==
    \/ handler[h].step \in {"lock", "write"} /\ handler[h].on = t
    \/ handler[h].step \in {"filter", "post", "requeue"} /\ t \in handler[h].batch

WakesKept ==
    \A t \in owed : t \in Readable(agentWake).pending \/ \E h \in DOMAIN handler : Carries(h, t)

(***************************************************************************)
(* Nothing but a failed post or a handler that stops half way can take a   *)
(* wake off the queue, whatever assignments, flushes and ticks race.       *)
(***************************************************************************)
KeptUnlessTrouble == trouble = {} => WakesKept

(***************************************************************************)
(* One wake per assignment event: however assignments, flushes and monitor *)
(* ticks race, a task is announced at most once per assignment.            *)
(***************************************************************************)
OneWakePerAssignment == \A t \in Tasks : told[t] <= assigned[t]

(***************************************************************************)
(* Without trouble the agent is told of every task it is given, or the     *)
(* task moves on.                                                          *)
(***************************************************************************)
WakesDelivered == \A t \in Tasks : trouble = {} /\ t \in owed ~> t \notin owed
=============================================================================
