----------------------------- MODULE StallSweep ------------------------------
(***************************************************************************)
(* Reminders about tasks that do not move (src/src/lib/stall-sweep.ts): an *)
(* agent is nudged about a task that stood still for a window, somebody    *)
(* above it is told after another window, and then there is quiet until    *)
(* the task is updated.                                                    *)
(*                                                                         *)
(* The sweep reads what is due, re-checks each task, posts the messages    *)
(* and only then records per task that it did.  It holds an advisory lock, *)
(* but no lock on the tasks.  Times are kept as ages, in ticks of the      *)
(* clock; an age that no longer matters is dropped.  A sweep takes seconds *)
(* and a window hours: the clock turns between sweeps, and as some process *)
(* starts one every quarter of an hour, not before one was started.        *)
(***************************************************************************)
EXTENDS Naturals

CONSTANTS
    Tasks,      \* the tasks of one company
    Agents,
    Sweepers,   \* server processes, each with its lifecycle monitor
    Above,      \* [Agents -> SUBSET Agents]: chart manager, project lead, creators
    Window,     \* stallSweepHours, in ticks
    Horizon,    \* stallMaxAgeDays, in ticks
    MaxAge,     \* bound: past the horizon, a task is not seen to get older
    MaxStops,   \* bound: sweeps cut short
    States,     \* bound: the states tasks are in, "inbox" standing for review as well
                \* and "closed" for blocked and every terminal state
    Kinds       \* bound: what happens to tasks, of "move" and "heartbeat"

ASSUME StallAssumption ==
    /\ Above \in [Agents -> SUBSET Agents] /\ \A a \in Agents : a \notin Above[a]
    /\ Window \in Nat \ {0} /\ Horizon \in Nat /\ MaxAge \in Nat /\ MaxAge > Horizon
    /\ MaxStops \in Nat
    /\ States \subseteq {"inbox", "in_progress", "closed"}
    /\ Kinds \subseteq {"move", "heartbeat"}

VARIABLES
    task,        \* [Tasks -> TaskRow]
    nudged,      \* [Tasks -> age of the last stall_nudge event since the last update, if any]
    escalated,   \* the tasks with a stall_escalation event since their last update
    told,        \* the age of the company's last stall_escalation event, if in the window
    reminded,    \* [Agents -> age of the last message of a sweep, if in the window]
    sweep,       \* [Sweepers -> Sweep]
    stops,       \* sweeps cut short so far
    turn,        \* the sweeps since the clock turned: none yet, all cut short, or a whole one
    warned,      \* history: [Tasks -> age of the last nudge since the last update, if any]
    mistaken,    \* history: the tasks whose last event is about an earlier stall
    held         \* history: [Tasks -> ticks since the last update that its message was held back]

vars == <<task, nudged, escalated, told, reminded, sweep, stops, turn, warned, mistaken, held>>
eventVars == <<nudged, escalated, told>>

TaskRow == [state: States, agent: Agents, updated: 0..MaxAge]

Optional(S) == {{}} \cup {{x} : x \in S}

(***************************************************************************)
(* item: how far the sweep came with a task, found by its query (never     *)
(* nudged, or nudged), queued for a message, or with its message posted    *)
(* and its event to record.                                                *)
(***************************************************************************)
Items == {"none", "foundIdle", "foundNudged", "nudge", "escalate", "nudgePosted", "escalatePosted"}

Sweep == [active: BOOLEAN,
          item: [Tasks -> Items],
          seen: [Tasks -> SUBSET TaskRow],   \* the row its query read
          to: [Tasks -> SUBSET Agents],      \* whom the message goes to, if anybody
          coolingAgents: SUBSET Agents,
          coolingCompany: BOOLEAN]

Idle == [active |-> FALSE,
         item |-> [t \in Tasks |-> "none"],
         seen |-> [t \in Tasks |-> {}],
         to |-> [t \in Tasks |-> {}],
         coolingAgents |-> {},
         coolingCompany |-> FALSE]

Init ==
    /\ task \in [Tasks -> {row \in TaskRow : row.updated = 0 /\ row.state # "closed"}]
    /\ nudged = [t \in Tasks |-> {}]
    /\ escalated = {}
    /\ told = {}
    /\ reminded = [a \in Agents |-> {}]
    /\ sweep = [w \in Sweepers |-> Idle]
    /\ stops = 0
    /\ turn = "open"
    /\ warned = [t \in Tasks |-> {}]
    /\ mistaken = {}
    /\ held = [t \in Tasks |-> 0]

TypeOK ==
    /\ task \in [Tasks -> TaskRow]
    /\ nudged \in [Tasks -> Optional(0..Window + 1)] /\ warned \in [Tasks -> Optional(0..Window + 1)]
    /\ escalated \subseteq Tasks /\ mistaken \subseteq Tasks
    /\ told \in Optional(0..Window) /\ reminded \in [Agents -> Optional(0..Window)]
    /\ sweep \in [Sweepers -> Sweep] /\ stops \in 0..MaxStops
    /\ turn \in {"open", "cut", "swept"} /\ held \in [Tasks -> Nat]

Old(age) == age > Window
Tracked(t) == task[t].state # "closed"

-----------------------------------------------------------------------------
(* What moves tasks, and time *)

\* updated_at is set to now: events before it are of an earlier stall.
Updated(ts) ==
    /\ nudged' = [t \in Tasks |-> IF t \in ts THEN {} ELSE nudged[t]]
    /\ warned' = [t \in Tasks |-> IF t \in ts THEN {} ELSE warned[t]]
    /\ escalated' = escalated \ ts
    /\ mistaken' = mistaken \ ts
    /\ held' = [t \in Tasks |-> IF t \in ts THEN 0 ELSE held[t]]

\* A note, a change of state, a reassignment: each sets updated_at.
Moves(t) ==
    /\ "move" \in Kinds
    /\ \E row \in TaskRow : row.updated = 0 /\ task' = [task EXCEPT ![t] = row]
    /\ Updated({t})
    /\ UNCHANGED <<told, reminded, sweep, stops, turn>>

\* A heartbeat renews the leases of the agent's tasks in progress and sets their updated_at.
Heartbeat(a) ==
    /\ "heartbeat" \in Kinds
    /\ LET ts == {t \in Tasks : task[t].agent = a /\ task[t].state = "in_progress"}
       IN /\ task' = [t \in Tasks |-> IF t \in ts THEN [task[t] EXCEPT !.updated = 0] ELSE task[t]]
          /\ Updated(ts)
    /\ UNCHANGED <<told, reminded, sweep, stops, turn>>

Older(age, most) == IF age < most THEN age + 1 ELSE age

\* Mutant of InWindow: what happened once stays recent.
InWindowEver(ages) == ages

InWindow(ages) == {age \in ages : ~Old(age)}

\* Mutant of Due: the horizon is taken for the window.
DueAtHorizon(t) ==
    /\ Tracked(t) /\ task[t].updated > Horizon
    /\ t \notin escalated
    /\ \A age \in nudged[t] : Old(age)

\* What the query finds: "Abandoned backlog" is beyond the horizon.
Due(t) ==
    /\ Tracked(t)
    /\ Old(task[t].updated) /\ task[t].updated <= Horizon
    /\ t \notin escalated
    /\ \A age \in nudged[t] : Old(age)

\* Its owner was reminded within the window, or, of an escalation, somebody above or the people.
Quieted(t) ==
    \/ nudged[t] = {} /\ reminded[task[t].agent] # {}
    \/ nudged[t] # {} /\ (told # {} \/ \E a \in Above[task[t].agent] : reminded[a] # {})

\* What may hold back the message about a task until the clock turns.
HeldBack(t) == turn = "cut" \/ Quieted(t)

Tick ==
    /\ turn # "open" /\ \A w \in Sweepers : ~sweep[w].active
    /\ turn' = "open"
    /\ task' = [t \in Tasks |-> [task[t] EXCEPT !.updated = Older(@, MaxAge)]]
    /\ nudged' = [t \in Tasks |-> {Older(age, Window + 1) : age \in nudged[t]}]
    /\ warned' = [t \in Tasks |-> {Older(age, Window + 1) : age \in warned[t]}]
    /\ told' = InWindow({age + 1 : age \in told})
    /\ reminded' = [a \in Agents |-> InWindow({age + 1 : age \in reminded[a]})]
    /\ held' = [t \in Tasks |-> IF Due(t) /\ HeldBack(t) THEN held[t] + 1 ELSE held[t]]
    /\ UNCHANGED <<escalated, sweep, stops, mistaken>>

-----------------------------------------------------------------------------
(* runStallSweep *)

\* pg_try_advisory_xact_lock: a concurrent monitor skips this run.
SweepLockFree == \A w \in Sweepers : ~sweep[w].active

\* Mutant of Cooling: recent messages are not looked at.
CoolingNobody == {}

Cooling == {a \in Agents : reminded[a] # {}}

\* The three SELECTs of a sweep; what they read is written by sweeps alone, but for the tasks.
SelectDue(w) ==
    /\ ~sweep[w].active
    /\ SweepLockFree
    /\ sweep' = [sweep EXCEPT ![w] =
         [active |-> TRUE,
          item |-> [t \in Tasks |-> IF ~Due(t) THEN "none"
                                    ELSE IF nudged[t] = {} THEN "foundIdle" ELSE "foundNudged"],
          seen |-> [t \in Tasks |-> IF Due(t) THEN {task[t]} ELSE {}],
          to |-> [t \in Tasks |-> {}],
          coolingAgents |-> Cooling,
          coolingCompany |-> told # {}]]
    /\ UNCHANGED <<task, eventVars, reminded, stops, turn, warned, mistaken, held>>

At(w, items) == {t \in Tasks : sweep[w].item[t] \in items}

\* Mutant of Unmoved: the re-check looks at the assignee and the state, not at updated_at.
UnmovedAssignee(w, t) ==
    \A row \in sweep[w].seen[t] : task[t].agent = row.agent /\ Tracked(t)

\* "Re-check the assignee/state right before posting".
Unmoved(w, t) ==
    \A row \in sweep[w].seen[t] :
        task[t].updated = row.updated /\ task[t].agent = row.agent /\ Tracked(t)

Owner(w, t) == {row.agent : row \in sweep[w].seen[t]}

Queue(w, t, item, to) ==
    /\ sweep' = [sweep EXCEPT ![w].item[t] = item, ![w].to[t] = to]
    /\ UNCHANGED <<task, eventVars, reminded, stops, turn, warned, mistaken, held>>

Drop(w, t) == [sweep EXCEPT ![w].item[t] = "none", ![w].seen[t] = {}, ![w].to[t] = {}]

QueueNudge(w, t) ==
    /\ sweep[w].item[t] = "foundIdle"
    /\ Unmoved(w, t)
    /\ Owner(w, t) \cap sweep[w].coolingAgents = {}
    /\ Queue(w, t, "nudge", Owner(w, t))

\* stallEscalationTarget over chart manager, lead and creator, any of which may be missing.
Targets(w, t) ==
    LET above == UNION {Above[a] : a \in Owner(w, t)}
    IN IF above = {} THEN {{}} ELSE {{a} : a \in above}

\* Without a target the people of the company are told and the event is recorded all the same.
QueueEscalation(w, t) ==
    /\ sweep[w].item[t] = "foundNudged"
    /\ Unmoved(w, t)
    /\ ~sweep[w].coolingCompany
    /\ \E to \in Targets(w, t) :
         /\ to \cap sweep[w].coolingAgents = {}
         /\ Queue(w, t, IF to = {} THEN "escalatePosted" ELSE "escalate", to)

SkipTask(w, t) ==
    /\ \/ sweep[w].item[t] \in {"foundIdle", "foundNudged"} /\ ~Unmoved(w, t)
       \/ sweep[w].item[t] = "foundIdle" /\ Owner(w, t) \cap sweep[w].coolingAgents # {}
       \/ /\ sweep[w].item[t] = "foundNudged"
          /\ \/ sweep[w].coolingCompany
             \/ \E to \in Targets(w, t) : to \cap sweep[w].coolingAgents # {}
    /\ sweep' = Drop(w, t)
    /\ UNCHANGED <<task, eventVars, reminded, stops, turn, warned, mistaken, held>>

\* One message lists all the tasks queued for its agent.
For(w, item, a) == {t \in At(w, {item}) : a \in sweep[w].to[t]}

Post(w, item, posted, a) ==
    /\ For(w, item, a) # {}
    /\ sweep' = [sweep EXCEPT ![w].item =
                   [t \in Tasks |-> IF t \in For(w, item, a) THEN posted ELSE @[t]]]
    /\ reminded' = [reminded EXCEPT ![a] = {0}]
    /\ UNCHANGED <<task, eventVars, stops, turn, mistaken, held>>

PostNudge(w, a) ==
    /\ At(w, {"foundIdle", "foundNudged"}) = {}
    /\ Post(w, "nudge", "nudgePosted", a)
    /\ warned' = [t \in Tasks |-> IF t \in For(w, "nudge", a) /\ Unmoved(w, t) THEN {0} ELSE warned[t]]

PostEscalation(w, a) ==
    /\ At(w, {"foundIdle", "foundNudged", "nudge"}) = {}
    /\ Post(w, "escalate", "escalatePosted", a)
    /\ UNCHANGED warned

Records(w, t) ==
    /\ sweep' = Drop(w, t)
    /\ mistaken' = IF Unmoved(w, t) THEN mistaken ELSE mistaken \cup {t}
    /\ UNCHANGED <<task, reminded, stops, turn, warned, held>>

\* "Record the per-task stall events last": nothing looks at the task again.
RecordNudge(w, t) ==
    /\ At(w, Items \ {"none", "nudgePosted", "escalatePosted"}) = {}
    /\ sweep[w].item[t] = "nudgePosted"
    /\ nudged' = [nudged EXCEPT ![t] = {0}]
    /\ UNCHANGED <<escalated, told>>
    /\ Records(w, t)

RecordEscalation(w, t) ==
    /\ At(w, Items \ {"none", "escalatePosted"}) = {}
    /\ sweep[w].item[t] = "escalatePosted"
    /\ escalated' = escalated \cup {t}
    /\ told' = {0}
    /\ UNCHANGED nudged
    /\ Records(w, t)

SweepEnds(w) ==
    /\ sweep[w].active /\ At(w, Items \ {"none"}) = {}
    /\ sweep' = [sweep EXCEPT ![w] = Idle]
    /\ turn' = "swept"
    /\ UNCHANGED <<task, eventVars, reminded, stops, warned, mistaken, held>>

\* The process ends, or a statement fails and the sweep with it.
SweepStops(w) ==
    /\ sweep[w].active
    /\ stops < MaxStops
    /\ stops' = stops + 1
    /\ sweep' = [sweep EXCEPT ![w] = Idle]
    /\ turn' = IF turn = "open" THEN "cut" ELSE turn
    /\ UNCHANGED <<task, eventVars, reminded, warned, mistaken, held>>

SweepStep(w) ==
    \/ SweepEnds(w)
    \/ \E a \in Agents : PostNudge(w, a) \/ PostEscalation(w, a)
    \/ \E t \in Tasks :
         \/ QueueNudge(w, t) \/ QueueEscalation(w, t) \/ SkipTask(w, t)
         \/ RecordNudge(w, t) \/ RecordEscalation(w, t)

Next ==
    \/ Tick
    \/ \E a \in Agents : Heartbeat(a)
    \/ \E w \in Sweepers : SelectDue(w) \/ SweepStep(w) \/ SweepStops(w)
    \/ \E t \in Tasks : Moves(t)

Spec == Init /\ [][Next]_vars

(***************************************************************************)
(* Some process runs the sweep every quarter of an hour, and one that is   *)
(* not cut short comes to its end.  The clock waits for a sweep under way, *)
(* hence SF.                                                               *)
(***************************************************************************)
Fairness ==
    /\ SF_vars(Tick)
    /\ WF_vars(\E w \in Sweepers : SelectDue(w))
    /\ WF_vars(\E w \in Sweepers : SweepStep(w))

FairSpec == Spec /\ Fairness

-----------------------------------------------------------------------------
Posted == {"nudgePosted", "escalatePosted"}

(***************************************************************************)
(* A sweep that stopped before it recorded anything, or a second monitor,  *)
(* does not pester: an agent gets no reminder in the window of one that    *)
(* another sweep sent it.                                                  *)
(***************************************************************************)
RemindersApart ==
    [][\A w \in Sweepers, t \in Tasks : \A a \in sweep[w].to[t] :
         sweep[w].item[t] \notin Posted /\ sweep'[w].item[t] \in Posted =>
             reminded[a] = {} \/ \E s \in At(w, Posted) : a \in sweep[w].to[s]]_<<sweep, reminded>>

(***************************************************************************)
(* "One targeted nudge to the owner; if still stale after another window"  *)
(* somebody is told: the owner of an escalated task was nudged about this  *)
(* very stall, more than a window ago.  Except when the task moved between *)
(* a nudge and its event, which then counts as one about the new stall.    *)
(***************************************************************************)
EscalationFollowsNudge ==
    [][\A w \in Sweepers, t \in Tasks :
         sweep[w].item[t] = "foundNudged" /\ sweep'[w].item[t] \in {"escalate", "escalatePosted"} =>
             t \in mistaken \/ \E age \in warned[t] : Old(age)]_<<sweep, warned>>

(***************************************************************************)
(* "One targeted nudge to the owner; if still stale after another window"  *)
(* the escalation: a task that stands still is escalated after two windows *)
(* and as many ticks as its message was held back, by a sweep cut short or *)
(* by other messages of the window.  Only one held back for longer than    *)
(* the horizon leaves is ever given up, and others can hold it back again  *)
(* and again.                                                              *)
(***************************************************************************)
Patience == 2 * (Window + 1)

StallsEscalate ==
    \A t \in Tasks : Tracked(t) /\ t \notin escalated =>
        \/ task[t].updated <= Patience + held[t]
        \/ Horizon < Patience + held[t]

(***************************************************************************)
(* "Nudge once, escalate once, then stay quiet until the task updates": a  *)
(* task that stands still after an update is nudged about again.           *)
(***************************************************************************)
EveryStallNudged ==
    \A t \in Tasks : Tracked(t) /\ Old(task[t].updated) ~>
        warned[t] # {} \/ ~Tracked(t) \/ ~Old(task[t].updated)
=============================================================================
