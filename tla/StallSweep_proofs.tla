-------------------------- MODULE StallSweep_proofs --------------------------
(***************************************************************************)
(* Proofs about StallSweep, for any tasks, agents, chart and windows.      *)
(***************************************************************************)
EXTENDS StallSweep, TLAPS

(***************************************************************************)
(* A step of a sweep about one task replaces what it holds of that task    *)
(* and leaves all else of every sweep.                                     *)
(***************************************************************************)
About(w, t, item, seen, to) ==
    /\ sweep' \in [Sweepers -> Sweep]
    /\ \A v \in Sweepers \ {w} : sweep'[v] = sweep[v]
    /\ sweep'[w].active = sweep[w].active
    /\ sweep'[w].coolingAgents = sweep[w].coolingAgents
    /\ sweep'[w].coolingCompany = sweep[w].coolingCompany
    /\ \A s \in Tasks \ {t} : /\ sweep'[w].item[s] = sweep[w].item[s]
                              /\ sweep'[w].seen[s] = sweep[w].seen[s]
                              /\ sweep'[w].to[s] = sweep[w].to[s]
    /\ sweep'[w].item[t] = item /\ sweep'[w].seen[t] = seen /\ sweep'[w].to[t] = to

\* A task that is dropped leaves the sweep's hands.
LEMMA DropIsAbout ==
    ASSUME sweep \in [Sweepers -> Sweep], NEW w \in Sweepers, NEW t \in Tasks, sweep' = Drop(w, t)
    PROVE  About(w, t, "none", {}, {})
<1>1. PICK old \in Sweep : old = sweep[w]
  OBVIOUS
<1>2. PICK new : new = [old EXCEPT !.item[t] = "none", !.seen[t] = {}, !.to[t] = {}]
  OBVIOUS
<1>3. sweep' = [sweep EXCEPT ![w] = new]
  BY <1>1, <1>2 DEF Drop
<1>4. new \in Sweep
  BY <1>1, <1>2 DEF Sweep, Items
<1>5. /\ new.active = old.active /\ new.coolingAgents = old.coolingAgents
      /\ new.coolingCompany = old.coolingCompany
      /\ new.item = [old.item EXCEPT ![t] = "none"]
      /\ new.seen = [old.seen EXCEPT ![t] = {}]
      /\ new.to = [old.to EXCEPT ![t] = {}]
  BY <1>1, <1>2 DEF Sweep
<1>6. old.item \in [Tasks -> Items] /\ old.seen \in [Tasks -> SUBSET TaskRow]
      /\ old.to \in [Tasks -> SUBSET Agents]
  BY <1>1 DEF Sweep
<1> QED BY <1>1, <1>3, <1>4, <1>5, <1>6 DEF About

\* A task that is queued has its message and whom it goes to.
LEMMA QueueIsAbout ==
    ASSUME sweep \in [Sweepers -> Sweep], NEW w \in Sweepers, NEW t \in Tasks,
           NEW item \in Items, NEW to \in SUBSET Agents, Queue(w, t, item, to)
    PROVE  About(w, t, item, sweep[w].seen[t], to)
<1>1. PICK old \in Sweep : old = sweep[w]
  OBVIOUS
<1>2. PICK new : new = [old EXCEPT !.item[t] = item, !.to[t] = to]
  OBVIOUS
<1>3. sweep' = [sweep EXCEPT ![w] = new]
  BY <1>1, <1>2 DEF Queue
<1>4. new \in Sweep
  BY <1>1, <1>2 DEF Sweep
<1>5. /\ new.active = old.active /\ new.coolingAgents = old.coolingAgents
      /\ new.coolingCompany = old.coolingCompany
      /\ new.item = [old.item EXCEPT ![t] = item]
      /\ new.seen = old.seen
      /\ new.to = [old.to EXCEPT ![t] = to]
  BY <1>1, <1>2 DEF Sweep
<1>6. old.item \in [Tasks -> Items] /\ old.to \in [Tasks -> SUBSET Agents]
  BY <1>1 DEF Sweep
<1> QED BY <1>1, <1>3, <1>4, <1>5, <1>6 DEF About

\* A message is about all the tasks queued for its agent, and about no other.
PostedFor(w, item, posted, a) ==
    /\ sweep' \in [Sweepers -> Sweep]
    /\ \A v \in Sweepers \ {w} : sweep'[v] = sweep[v]
    /\ sweep'[w].active = sweep[w].active
    /\ sweep'[w].coolingAgents = sweep[w].coolingAgents
    /\ sweep'[w].coolingCompany = sweep[w].coolingCompany
    /\ sweep'[w].seen = sweep[w].seen
    /\ sweep'[w].to = sweep[w].to
    /\ \A s \in Tasks : sweep'[w].item[s] =
           IF s \in For(w, item, a) THEN posted ELSE sweep[w].item[s]

LEMMA PostIsFor ==
    ASSUME sweep \in [Sweepers -> Sweep], NEW w \in Sweepers, NEW a \in Agents,
           NEW item \in Items, NEW posted \in Items, Post(w, item, posted, a)
    PROVE  PostedFor(w, item, posted, a)
<1>1. PICK old \in Sweep : old = sweep[w]
  OBVIOUS
<1>2. PICK items : items = [s \in Tasks |-> IF s \in For(w, item, a) THEN posted ELSE old.item[s]]
  OBVIOUS
<1>3. PICK new : new = [old EXCEPT !.item = items]
  OBVIOUS
<1>4. sweep' = [sweep EXCEPT ![w] = new]
  BY <1>1, <1>2, <1>3 DEF Post
<1>5. items \in [Tasks -> Items]
  BY <1>1, <1>2 DEF Sweep
<1>6. new \in Sweep
  BY <1>1, <1>3, <1>5 DEF Sweep
<1>7. /\ new.active = old.active /\ new.coolingAgents = old.coolingAgents
      /\ new.coolingCompany = old.coolingCompany
      /\ new.item = items /\ new.seen = old.seen /\ new.to = old.to
  BY <1>1, <1>3 DEF Sweep
<1> QED BY <1>1, <1>2, <1>4, <1>6, <1>7 DEF PostedFor

\* Of a task found or queued, the owner and whom to tell are agents.
LEMMA OwnersAreAgents ==
    ASSUME sweep \in [Sweepers -> Sweep], NEW w \in Sweepers, NEW t \in Tasks
    PROVE  /\ Owner(w, t) \subseteq Agents
           /\ \A to \in Targets(w, t) : to \subseteq Agents
<1> USE StallAssumption
<1>1. sweep[w].seen[t] \subseteq TaskRow
  BY DEF Sweep
<1>2. Owner(w, t) \subseteq Agents
  BY <1>1 DEF Owner, TaskRow
<1>3. \A to \in Targets(w, t) : to \subseteq Agents
  BY <1>2 DEF Targets
<1> QED BY <1>2, <1>3

LEMMA TypeInit == Init => TypeOK
<1> USE StallAssumption
<1> SUFFICES ASSUME Init PROVE TypeOK
  OBVIOUS
<1>1. task \in [Tasks -> TaskRow]
  BY DEF Init
<1>2. nudged \in [Tasks -> Optional(0..Window + 1)] /\ warned \in [Tasks -> Optional(0..Window + 1)]
  BY DEF Init, Optional
<1>3. told \in Optional(0..Window) /\ reminded \in [Agents -> Optional(0..Window)]
  BY DEF Init, Optional
<1>4. Idle \in Sweep
  BY DEF Idle, Sweep, Items
<1>5. sweep \in [Sweepers -> Sweep] /\ stops \in 0..MaxStops
  BY <1>4 DEF Init
<1> QED BY <1>1, <1>2, <1>3, <1>5 DEF TypeOK, Init

\* Events that an update outdates are gone, and the others as they were.
LEMMA UpdatedType ==
    ASSUME TypeOK, NEW ts \in SUBSET Tasks, Updated(ts)
    PROVE  /\ nudged' \in [Tasks -> Optional(0..Window + 1)]
           /\ warned' \in [Tasks -> Optional(0..Window + 1)]
           /\ escalated' \subseteq Tasks /\ mistaken' \subseteq Tasks
           /\ held' \in [Tasks -> Nat]
<1>1. {} \in Optional(0..Window + 1)
  BY DEF Optional
<1> QED BY <1>1 DEF TypeOK, Updated

\* A tick later an age is still an age.
LEMMA OlderType ==
    ASSUME NEW ages \in Optional(0..Window + 1)
    PROVE  {Older(age, Window + 1) : age \in ages} \in Optional(0..Window + 1)
<1>1. Window \in Nat
  BY StallAssumption
<1>2. \A age \in 0..Window + 1 : Older(age, Window + 1) \in 0..Window + 1
  BY <1>1 DEF Older
<1>3. CASE ages = {}
  BY <1>3 DEF Optional
<1>4. CASE ages # {}
  <2>1. PICK x \in 0..Window + 1 : ages = {x}
    BY <1>4 DEF Optional
  <2>2. {Older(age, Window + 1) : age \in ages} = {Older(x, Window + 1)}
    BY <2>1
  <2> QED BY <2>2, <1>2 DEF Optional
<1> QED BY <1>3, <1>4

\* A tick later what was in the window may have left it.
LEMMA InWindowType ==
    ASSUME NEW ages \in Optional(0..Window)
    PROVE  InWindow({age + 1 : age \in ages}) \in Optional(0..Window)
<1>1. Window \in Nat
  BY StallAssumption
<1>2. CASE ages = {}
  BY <1>2 DEF Optional, InWindow
<1>3. CASE ages # {}
  <2>1. PICK x \in 0..Window : ages = {x}
    BY <1>3 DEF Optional
  <2>2. InWindow({age + 1 : age \in ages}) = {age \in {x + 1} : ~Old(age)}
    BY <2>1 DEF InWindow
  <2>3. CASE Old(x + 1)
    BY <2>2, <2>3 DEF Optional
  <2>4. CASE ~Old(x + 1)
    <3>1. x + 1 \in 0..Window
      BY <2>4, <1>1 DEF Old
    <3>2. InWindow({age + 1 : age \in ages}) = {x + 1}
      BY <2>2, <2>4
    <3> QED BY <3>1, <3>2 DEF Optional
  <2> QED BY <2>3, <2>4
<1> QED BY <1>2, <1>3

LEMMA TypeTick == ASSUME TypeOK, Tick PROVE TypeOK'
<1> USE StallAssumption
<1>1. MaxAge \in Nat /\ \A age \in 0..MaxAge : Older(age, MaxAge) \in 0..MaxAge
  BY DEF Older
<1>2. \A t \in Tasks : [task[t] EXCEPT !.updated = Older(@, MaxAge)] \in TaskRow
  BY <1>1 DEF TypeOK, TaskRow
<1>3. task' \in [Tasks -> TaskRow]
  BY <1>2 DEF Tick
<1>4. nudged' \in [Tasks -> Optional(0..Window + 1)] /\ warned' \in [Tasks -> Optional(0..Window + 1)]
  BY OlderType DEF TypeOK, Tick
<1>5. told' \in Optional(0..Window) /\ reminded' \in [Agents -> Optional(0..Window)]
  BY InWindowType DEF TypeOK, Tick
<1>6. held' \in [Tasks -> Nat]
  BY DEF TypeOK, Tick
<1> QED BY <1>3, <1>4, <1>5, <1>6 DEF TypeOK, Tick

LEMMA TypeSelect == ASSUME TypeOK, NEW w \in Sweepers, SelectDue(w) PROVE TypeOK'
<1>1. PICK new :
         new = [active |-> TRUE,
                item |-> [t \in Tasks |-> IF ~Due(t) THEN "none"
                                          ELSE IF nudged[t] = {} THEN "foundIdle" ELSE "foundNudged"],
                seen |-> [t \in Tasks |-> IF Due(t) THEN {task[t]} ELSE {}],
                to |-> [t \in Tasks |-> {}],
                coolingAgents |-> Cooling,
                coolingCompany |-> told # {}]
  OBVIOUS
<1>2. new \in Sweep
  BY <1>1 DEF TypeOK, Sweep, Items, Cooling
<1>3. sweep' = [sweep EXCEPT ![w] = new]
  BY <1>1 DEF SelectDue
<1>4. sweep' \in [Sweepers -> Sweep]
  BY <1>2, <1>3 DEF TypeOK
<1> QED BY <1>4 DEF TypeOK, SelectDue, eventVars

(***************************************************************************)
(* Every action keeps the types.                                           *)
(***************************************************************************)
LEMMA TypeStep == ASSUME TypeOK, [Next]_vars PROVE TypeOK'
<1> USE StallAssumption
<1>1. CASE Tick
  BY <1>1, TypeTick
<1>2. ASSUME NEW a \in Agents, Heartbeat(a) PROVE TypeOK'
  <2>1. PICK ts \in SUBSET Tasks :
           /\ task' = [t \in Tasks |-> IF t \in ts THEN [task[t] EXCEPT !.updated = 0] ELSE task[t]]
           /\ Updated(ts)
    <3> DEFINE theirs == {t \in Tasks : task[t].agent = a /\ task[t].state = "in_progress"}
    <3>1. theirs \in SUBSET Tasks
      OBVIOUS
    <3> QED BY <3>1, <1>2 DEF Heartbeat
  <2>2. \A t \in Tasks : [task[t] EXCEPT !.updated = 0] \in TaskRow
    <3>1. 0 \in 0..MaxAge
      OBVIOUS
    <3> QED BY <3>1 DEF TypeOK, TaskRow
  <2>3. task' \in [Tasks -> TaskRow]
    BY <2>1, <2>2 DEF TypeOK
  <2> QED BY <2>1, <2>3, <1>2, UpdatedType DEF TypeOK, Heartbeat
<1>3. ASSUME NEW t \in Tasks, Moves(t) PROVE TypeOK'
  <2>1. task' \in [Tasks -> TaskRow]
    BY <1>3 DEF Moves, TypeOK
  <2> QED BY <2>1, <1>3, UpdatedType DEF TypeOK, Moves
<1>4. ASSUME NEW w \in Sweepers, SelectDue(w) PROVE TypeOK'
  BY <1>4, TypeSelect
<1>5. ASSUME NEW w \in Sweepers, SweepEnds(w) \/ SweepStops(w) PROVE TypeOK'
  <2>1. Idle \in Sweep
    BY DEF Idle, Sweep, Items
  <2>2. sweep' \in [Sweepers -> Sweep]
    BY <2>1, <1>5 DEF TypeOK, SweepEnds, SweepStops
  <2>3. stops' \in 0..MaxStops
    BY <1>5 DEF TypeOK, SweepEnds, SweepStops
  <2> QED BY <2>2, <2>3, <1>5 DEF TypeOK, SweepEnds, SweepStops, eventVars
<1>6. ASSUME NEW w \in Sweepers, NEW a \in Agents, PostNudge(w, a) \/ PostEscalation(w, a) PROVE TypeOK'
  <2>1. sweep' \in [Sweepers -> Sweep]
    BY <1>6, PostIsFor DEF TypeOK, PostNudge, PostEscalation, PostedFor, Items
  <2>2. {0} \in Optional(0..Window) /\ {0} \in Optional(0..Window + 1)
    BY DEF Optional
  <2>3. reminded' \in [Agents -> Optional(0..Window)]
    BY <2>2, <1>6 DEF TypeOK, PostNudge, PostEscalation, Post
  <2>4. warned' \in [Tasks -> Optional(0..Window + 1)]
    BY <2>2, <1>6 DEF TypeOK, PostNudge, PostEscalation
  <2> QED BY <2>1, <2>3, <2>4, <1>6 DEF TypeOK, PostNudge, PostEscalation, Post, eventVars
<1>7. ASSUME NEW w \in Sweepers, NEW t \in Tasks,
             QueueNudge(w, t) \/ QueueEscalation(w, t) \/ SkipTask(w, t)
      PROVE  TypeOK'
  <2>1. sweep' \in [Sweepers -> Sweep]
    BY <1>7, OwnersAreAgents, QueueIsAbout, DropIsAbout
       DEF TypeOK, QueueNudge, QueueEscalation, SkipTask, About, Items
  <2> QED BY <2>1, <1>7 DEF TypeOK, QueueNudge, QueueEscalation, SkipTask, Queue, eventVars
<1>8. ASSUME NEW w \in Sweepers, NEW t \in Tasks, RecordNudge(w, t) \/ RecordEscalation(w, t)
      PROVE  TypeOK'
  <2>1. sweep' \in [Sweepers -> Sweep]
    BY <1>8, DropIsAbout DEF TypeOK, RecordNudge, RecordEscalation, Records, About
  <2>2. {0} \in Optional(0..Window) /\ {0} \in Optional(0..Window + 1)
    BY DEF Optional
  <2>3. nudged' \in [Tasks -> Optional(0..Window + 1)] /\ told' \in Optional(0..Window)
    BY <2>2, <1>8 DEF TypeOK, RecordNudge, RecordEscalation
  <2>4. escalated' \subseteq Tasks /\ mistaken' \subseteq Tasks
    BY <1>8 DEF TypeOK, RecordNudge, RecordEscalation, Records
  <2> QED BY <2>1, <2>3, <2>4, <1>8 DEF TypeOK, RecordNudge, RecordEscalation, Records
<1>9. CASE UNCHANGED vars
  BY <1>9 DEF vars, TypeOK
<1> QED BY <1>1, <1>2, <1>3, <1>4, <1>5, <1>6, <1>7, <1>8, <1>9 DEF Next, SweepStep

(***************************************************************************)
(* Whatever happens to tasks, sweeps and processes, what the sweep keeps   *)
(* and what a company's tables hold is well formed: of each task one last  *)
(* event at most, of each agent one last reminder, none beyond the window. *)
(***************************************************************************)
THEOREM StallTypeCorrect == Spec => []TypeOK
<1> QED BY TypeInit, TypeStep, PTL DEF Spec

(***************************************************************************)
(* What the advisory lock buys: one sweep at a time, and one that is not   *)
(* under way has nothing in hand.                                          *)
(***************************************************************************)
Alone == \A v, w \in Sweepers : sweep[v].active /\ sweep[w].active => v = w

Resting == \A w \in Sweepers, t \in Tasks : ~sweep[w].active => sweep[w].item[t] = "none"

\* Still to be decided or posted.
Unposted == {"foundIdle", "foundNudged", "nudge", "escalate"}

(***************************************************************************)
(* Nobody is chosen before a task is queued, then one agent at most, and   *)
(* none who was reminded when the sweep looked.                            *)
(***************************************************************************)
Addressed == \A w \in Sweepers, t \in Tasks :
    /\ sweep[w].item[t] \in {"none", "foundIdle", "foundNudged"} => sweep[w].to[t] = {}
    /\ \A r, q \in sweep[w].seen[t] : r = q
    /\ \A a, b \in sweep[w].to[t] : a = b
    /\ \A a \in sweep[w].to[t] : a \notin sweep[w].coolingAgents

(***************************************************************************)
(* As long as a sweep may post, a reminded agent is one it saw reminded,   *)
(* or one it reminded itself of a task it has not recorded yet.            *)
(***************************************************************************)
Reminded == \A w \in Sweepers, s \in Tasks, a \in Agents :
    sweep[w].item[s] \in Unposted /\ reminded[a] # {} =>
        \/ a \in sweep[w].coolingAgents
        \/ \E t \in At(w, Posted) : a \in sweep[w].to[t]

SweepInv == Alone /\ Resting /\ Addressed /\ Reminded

LEMMA SweepInvInit == Init => SweepInv
<1> SUFFICES ASSUME Init PROVE SweepInv
  OBVIOUS
<1>1. \A w \in Sweepers : sweep[w] = Idle
  BY DEF Init
<1>2. ~Idle.active /\ \A t \in Tasks : /\ Idle.item[t] = "none"
                                           /\ Idle.seen[t] = {} /\ Idle.to[t] = {}
  BY DEF Idle
<1> QED BY <1>1, <1>2 DEF SweepInv, Alone, Resting, Addressed, Reminded, Unposted

\* Sweeps stay as they are, and nobody is reminded.
LEMMA SweepsStay ==
    ASSUME SweepInv, sweep' = sweep,
           \A a \in Agents : reminded'[a] # {} => reminded[a] # {}
    PROVE  SweepInv'
<1>1. Alone' /\ Resting' /\ Addressed'
  BY DEF SweepInv, Alone, Resting, Addressed
<1>2. Reminded'
  BY DEF SweepInv, Reminded, At
<1> QED BY <1>1, <1>2 DEF SweepInv

\* A sweep starts: nobody else's is under way, and it knows who was reminded.
LEMMA SweepInvSelect == ASSUME TypeOK, SweepInv, NEW w \in Sweepers, SelectDue(w) PROVE SweepInv'
<1>1. /\ sweep'[w].active
      /\ \A t \in Tasks : sweep'[w].item[t] \in {"none", "foundIdle", "foundNudged"}
      /\ \A t \in Tasks : sweep'[w].to[t] = {} /\ \A r, q \in sweep'[w].seen[t] : r = q
      /\ sweep'[w].coolingAgents = Cooling
  BY DEF SelectDue, TypeOK
<1>2. \A v \in Sweepers \ {w} : sweep'[v] = sweep[v] /\ ~sweep[v].active
  BY DEF SelectDue, SweepLockFree, TypeOK
<1>3. \A v \in Sweepers \ {w}, t \in Tasks : sweep[v].item[t] = "none"
  BY <1>2 DEF SweepInv, Resting
<1>4. Alone' /\ Resting' /\ Addressed'
  BY <1>1, <1>2, <1>3 DEF SweepInv, Alone, Resting, Addressed
<1>5. Reminded'
  <2> SUFFICES ASSUME NEW v \in Sweepers, NEW s \in Tasks, NEW a \in Agents,
                      sweep'[v].item[s] \in Unposted, reminded'[a] # {}
               PROVE  a \in sweep'[v].coolingAgents
    BY DEF Reminded
  <2>1. v = w
    BY <1>2, <1>3 DEF Unposted
  <2> QED BY <2>1, <1>1 DEF SelectDue, Cooling
<1> QED BY <1>4, <1>5 DEF SweepInv

\* A sweep is over, at its end or cut short.
LEMMA SweepInvOver ==
    ASSUME TypeOK, SweepInv, NEW w \in Sweepers, sweep' = [sweep EXCEPT ![w] = Idle], UNCHANGED reminded
    PROVE  SweepInv'
<1>1. /\ ~sweep'[w].active
      /\ \A t \in Tasks : /\ sweep'[w].item[t] = "none"
                          /\ sweep'[w].seen[t] = {} /\ sweep'[w].to[t] = {}
  BY DEF TypeOK, Idle
<1>2. \A v \in Sweepers \ {w} : sweep'[v] = sweep[v]
  BY DEF TypeOK
<1>3. Alone' /\ Resting' /\ Addressed'
  BY <1>1, <1>2 DEF SweepInv, Alone, Resting, Addressed
<1>4. Reminded'
  <2> SUFFICES ASSUME NEW v \in Sweepers, NEW s \in Tasks, NEW a \in Agents,
                      sweep'[v].item[s] \in Unposted, reminded'[a] # {}
               PROVE  a \in sweep'[v].coolingAgents \/ \E t \in At(v, Posted)' : a \in sweep'[v].to[t]
    BY DEF Reminded
  <2>1. v # w
    BY <1>1 DEF Unposted
  <2> QED BY <2>1, <1>2 DEF SweepInv, Reminded, At
<1> QED BY <1>3, <1>4 DEF SweepInv

\* The sweep under way goes on, whatever it does, and the others stay.
LEMMA SameSweep ==
    ASSUME Alone, Resting, NEW w \in Sweepers, sweep[w].active, sweep'[w].active = sweep[w].active,
           \A v \in Sweepers \ {w} : sweep'[v] = sweep[v]
    PROVE  Alone' /\ Resting'
<1>1. \A v \in Sweepers : sweep'[v].active => v = w
  BY DEF Alone
<1>2. Alone'
  BY <1>1 DEF Alone
<1>3. Resting'
  BY DEF Resting
<1> QED BY <1>2, <1>3

(***************************************************************************)
(* A sweep decides about a task, or drops it undecided: it may have one    *)
(* task less to post about, and as many it posted about as before.         *)
(***************************************************************************)
LEMMA SweepInvDecides ==
    ASSUME TypeOK, SweepInv, NEW w \in Sweepers, NEW t \in Tasks,
           NEW item, NEW seen, NEW to, About(w, t, item, seen, to), UNCHANGED reminded,
           seen \subseteq sweep[w].seen[t],
           sweep[w].item[t] \in {"foundIdle", "foundNudged"},
           item \in {"none", "foundIdle", "foundNudged"} => to = {},
           \A a, b \in to : a = b, \A a \in to : a \notin sweep[w].coolingAgents
    PROVE  SweepInv'
<1>1. sweep[w].active
  BY DEF SweepInv, Resting
<1>2. Alone' /\ Resting'
  BY <1>1, SameSweep DEF About, SweepInv
<1>3. Addressed'
  BY DEF About, SweepInv, Addressed
<1>4. Reminded'
  <2> SUFFICES ASSUME NEW v \in Sweepers, NEW s \in Tasks, NEW a \in Agents,
                      sweep'[v].item[s] \in Unposted, reminded'[a] # {}
               PROVE  a \in sweep'[v].coolingAgents \/ \E u \in At(v, Posted)' : a \in sweep'[v].to[u]
    BY DEF Reminded
  <2>1. CASE v # w
    BY <2>1 DEF About, SweepInv, Reminded, At
  <2>2. CASE v = w
    <3>1. a \in sweep[w].coolingAgents \/ \E u \in At(w, Posted) : a \in sweep[w].to[u]
      BY DEF SweepInv, Reminded, Unposted
    <3>2. \A u \in At(w, Posted) : u \in At(w, Posted)' /\ sweep'[w].to[u] = sweep[w].to[u]
      BY DEF About, At, Posted
    <3> QED BY <2>2, <3>1, <3>2 DEF About
  <2> QED BY <2>1, <2>2
<1> QED BY <1>2, <1>3, <1>4 DEF SweepInv

\* A sweep records a task when it has no more to post.
LEMMA SweepInvRecords ==
    ASSUME TypeOK, SweepInv, NEW w \in Sweepers, NEW t \in Tasks,
           sweep' = Drop(w, t), UNCHANGED reminded,
           sweep[w].item[t] \in Posted, \A s \in Tasks : sweep[w].item[s] \notin Unposted
    PROVE  SweepInv'
<1>1. About(w, t, "none", {}, {})
  BY DropIsAbout DEF TypeOK
<1>2. sweep[w].active
  BY DEF SweepInv, Resting, Posted
<1>3. Alone' /\ Resting'
  BY <1>1, <1>2, SameSweep DEF About, SweepInv
<1>4. Addressed'
  BY <1>1 DEF About, SweepInv, Addressed
<1>5. \A s \in Tasks : sweep'[w].item[s] \notin Unposted
  BY <1>1 DEF About, Unposted
<1>6. Reminded'
  BY <1>1, <1>5 DEF About, SweepInv, Reminded, At
<1> QED BY <1>3, <1>4, <1>6 DEF SweepInv

\* A message goes out: the agent is reminded of the tasks it lists.
LEMMA SweepInvPosts ==
    ASSUME TypeOK, SweepInv, NEW w \in Sweepers, NEW a \in Agents,
           NEW item \in {"nudge", "escalate"}, NEW posted \in Posted, Post(w, item, posted, a)
    PROVE  SweepInv'
<1>1. PostedFor(w, item, posted, a)
  BY PostIsFor DEF TypeOK, Items, Posted
<1>2. PICK q \in Tasks : sweep[w].item[q] = item /\ a \in sweep[w].to[q]
  BY DEF Post, For, At
<1>3. sweep[w].active
  BY <1>2 DEF SweepInv, Resting
<1>4. Alone' /\ Resting'
  BY <1>1, <1>3, SameSweep DEF PostedFor, SweepInv
<1>5. Addressed'
  BY <1>1 DEF PostedFor, SweepInv, Addressed, For, At, Posted
<1>6. Reminded'
  <2> SUFFICES ASSUME NEW v \in Sweepers, NEW s \in Tasks, NEW b \in Agents,
                      sweep'[v].item[s] \in Unposted, reminded'[b] # {}
               PROVE  b \in sweep'[v].coolingAgents \/ \E u \in At(v, Posted)' : b \in sweep'[v].to[u]
    BY DEF Reminded
  <2>1. v = w
    <3>1. CASE v # w
      BY <3>1, <1>1, <1>3 DEF PostedFor, SweepInv, Alone, Resting, Unposted
    <3> QED BY <3>1
  <2>2. CASE b = a
    BY <2>1, <2>2, <1>1, <1>2 DEF PostedFor, For, At
  <2>3. CASE b # a
    <3>1. reminded[b] # {} /\ sweep[w].item[s] \in Unposted
      BY <2>1, <2>3, <1>1 DEF Post, TypeOK, PostedFor, Unposted, Posted
    <3>2. b \in sweep[w].coolingAgents \/ \E u \in At(w, Posted) : b \in sweep[w].to[u]
      BY <3>1 DEF SweepInv, Reminded
    <3>3. \A u \in At(w, Posted) : u \in At(w, Posted)' /\ sweep'[w].to[u] = sweep[w].to[u]
      BY <1>1 DEF PostedFor, At
    <3> QED BY <2>1, <3>2, <3>3, <1>1 DEF PostedFor
  <2> QED BY <2>2, <2>3
<1> QED BY <1>4, <1>5, <1>6 DEF SweepInv

\* Of whom a queued message is for: one agent, and none it saw reminded.
LEMMA QueuedFor ==
    ASSUME TypeOK, SweepInv, NEW w \in Sweepers, NEW t \in Tasks
    PROVE  /\ \A a, b \in Owner(w, t) : a = b
           /\ \A to \in Targets(w, t) : \A a, b \in to : a = b
BY DEF SweepInv, Addressed, Owner, Targets

LEMMA SweepInvStep == ASSUME TypeOK, SweepInv, [Next]_vars PROVE SweepInv'
<1>1. CASE Tick
  <2>1. \A a \in Agents : reminded'[a] # {} => reminded[a] # {}
    BY <1>1 DEF Tick, InWindow
  <2> QED BY <2>1, <1>1, SweepsStay DEF Tick
<1>2. ASSUME NEW a \in Agents, Heartbeat(a) PROVE SweepInv'
  BY <1>2, SweepsStay DEF Heartbeat
<1>3. ASSUME NEW t \in Tasks, Moves(t) PROVE SweepInv'
  BY <1>3, SweepsStay DEF Moves
<1>4. ASSUME NEW w \in Sweepers, SelectDue(w) PROVE SweepInv'
  BY <1>4, SweepInvSelect
<1>5. ASSUME NEW w \in Sweepers, SweepEnds(w) \/ SweepStops(w) PROVE SweepInv'
  BY <1>5, SweepInvOver DEF SweepEnds, SweepStops
<1>6. ASSUME NEW w \in Sweepers, NEW a \in Agents, PostNudge(w, a) \/ PostEscalation(w, a) PROVE SweepInv'
  BY <1>6, SweepInvPosts DEF PostNudge, PostEscalation, Posted
<1>7. ASSUME NEW w \in Sweepers, NEW t \in Tasks, QueueNudge(w, t) PROVE SweepInv'
  <2>1. About(w, t, "nudge", sweep[w].seen[t], Owner(w, t))
    BY <1>7, OwnersAreAgents, QueueIsAbout DEF TypeOK, QueueNudge, Items
  <2> QED BY <2>1, <1>7, SweepInvDecides, QueuedFor DEF QueueNudge, Queue
<1>8. ASSUME NEW w \in Sweepers, NEW t \in Tasks, QueueEscalation(w, t) PROVE SweepInv'
  <2>1. PICK to \in Targets(w, t) :
           /\ to \cap sweep[w].coolingAgents = {}
           /\ Queue(w, t, IF to = {} THEN "escalatePosted" ELSE "escalate", to)
    BY <1>8 DEF QueueEscalation
  <2>2. to \subseteq Agents
    BY OwnersAreAgents DEF TypeOK
  <2>3. About(w, t, IF to = {} THEN "escalatePosted" ELSE "escalate", sweep[w].seen[t], to)
    BY <2>1, <2>2, QueueIsAbout DEF TypeOK, Items
  <2> QED BY <2>1, <2>3, <1>8, SweepInvDecides, QueuedFor DEF QueueEscalation, Queue
<1>9. ASSUME NEW w \in Sweepers, NEW t \in Tasks, SkipTask(w, t) PROVE SweepInv'
  <2>1. About(w, t, "none", {}, {})
    BY <1>9, DropIsAbout DEF TypeOK, SkipTask
  <2> QED BY <2>1, <1>9, SweepInvDecides DEF SkipTask
<1>10. ASSUME NEW w \in Sweepers, NEW t \in Tasks, RecordNudge(w, t) \/ RecordEscalation(w, t)
       PROVE  SweepInv'
  <2>1. \A s \in Tasks : sweep[w].item[s] \notin Unposted
    BY <1>10 DEF RecordNudge, RecordEscalation, At, Unposted, Items
  <2> QED BY <2>1, <1>10, SweepInvRecords DEF RecordNudge, RecordEscalation, Records, Posted
<1>11. CASE UNCHANGED vars
  BY <1>11, SweepsStay DEF vars
<1> QED BY <1>1, <1>2, <1>3, <1>4, <1>5, <1>6, <1>7, <1>8, <1>9, <1>10, <1>11 DEF Next, SweepStep

LEMMA SweepInvAlways == Spec => []SweepInv
<1> QED BY StallTypeCorrect, SweepInvInit, SweepInvStep, PTL DEF Spec

(***************************************************************************)
(* A message goes to an agent the sweep saw unreminded, and only this      *)
(* sweep reminds anybody after that.                                       *)
(***************************************************************************)
Apart ==
    \A w \in Sweepers, t \in Tasks : \A a \in sweep[w].to[t] :
        sweep[w].item[t] \notin Posted /\ sweep'[w].item[t] \in Posted =>
            reminded[a] = {} \/ \E s \in At(w, Posted) : a \in sweep[w].to[s]

LEMMA ApartStep == ASSUME TypeOK, SweepInv, [Next]_vars PROVE [Apart]_<<sweep, reminded>>
<1> SUFFICES ASSUME NEW v \in Sweepers, NEW s \in Tasks, NEW b \in sweep[v].to[s],
                    sweep[v].item[s] \notin Posted, sweep'[v].item[s] \in Posted
             PROVE  reminded[b] = {} \/ \E u \in At(v, Posted) : b \in sweep[v].to[u]
  BY DEF Apart
<1>1. b \in Agents /\ b \notin sweep[v].coolingAgents
  BY DEF TypeOK, Sweep, SweepInv, Addressed
<1>2. sweep[v].item[s] \in Unposted
  <2>1. sweep[v].item[s] \notin {"none", "foundIdle", "foundNudged"}
    BY DEF SweepInv, Addressed
  <2> QED BY <2>1 DEF TypeOK, Sweep, Items, Posted, Unposted
<1> QED BY <1>1, <1>2 DEF SweepInv, Reminded

(***************************************************************************)
(* An agent gets no reminder in the window of one another sweep sent it,   *)
(* wherever earlier sweeps stopped and however many monitors run           *)
(* (runStallSweep's cooldown and its advisory lock).                       *)
(***************************************************************************)
THEOREM AgentsAreNotPestered == Spec => RemindersApart
<1> QED BY StallTypeCorrect, SweepInvAlways, ApartStep, PTL DEF Spec, RemindersApart, Apart

(***************************************************************************)
(* What a sweep has in hand: a task read when it had stood still for a     *)
(* window.  The events of one that did not move are those the sweep read,  *)
(* and its last nudge the one this sweep posted.                           *)
(***************************************************************************)
InHand(w, t) ==
    /\ sweep[w].item[t] # "none" =>
           sweep[w].seen[t] # {} /\ \A row \in sweep[w].seen[t] : Old(row.updated)
    /\ sweep[w].item[t] \in {"foundIdle", "nudge", "nudgePosted"} => nudged[t] = {}
    /\ sweep[w].item[t] = "nudgePosted" /\ Unmoved(w, t) => warned[t] = {0}
    /\ sweep[w].item[t] = "foundNudged" /\ Unmoved(w, t) =>
           nudged[t] # {} /\ \A age \in nudged[t] : Old(age)

\* A recorded nudge, but for one taken from an earlier stall, is the last one posted.
NudgesTrue == \A t \in Tasks : nudged[t] # {} /\ t \notin mistaken => warned[t] = nudged[t]

NudgeInv == NudgesTrue /\ \A w \in Sweepers, t \in Tasks : InHand(w, t)

LEMMA NudgeInvInit == Init => NudgeInv
<1> SUFFICES ASSUME Init PROVE NudgeInv
  OBVIOUS
<1>1. \A w \in Sweepers, t \in Tasks : sweep[w].item[t] = "none"
  BY DEF Init, Idle
<1> QED BY <1>1 DEF NudgeInv, NudgesTrue, InHand, Init

\* Nothing in hand, nothing to check.
LEMMA OutOfHand ==
    ASSUME NEW w \in Sweepers, NEW t \in Tasks, sweep'[w].item[t] = "none"
    PROVE  InHand(w, t)'
BY DEF InHand

\* While a sweep is under way the others have nothing in hand.
LEMMA OthersRest ==
    ASSUME SweepInv, NEW w \in Sweepers, sweep[w].active,
           NEW v \in Sweepers \ {w}, sweep'[v] = sweep[v], NEW t \in Tasks
    PROVE  InHand(v, t)'
BY OutOfHand DEF SweepInv, Alone, Resting

(***************************************************************************)
(* Tasks are updated: one that was in hand moved, since an update makes    *)
(* young what was old when the sweep read it.                              *)
(***************************************************************************)
LEMMA NudgeInvUpdated ==
    ASSUME TypeOK, NudgeInv, sweep' = sweep, NEW ts \in SUBSET Tasks, Updated(ts),
           \A t \in Tasks \ ts : task'[t] = task[t],
           \A t \in ts : task'[t].updated = 0
    PROVE  NudgeInv'
<1>1. NudgesTrue'
  BY DEF NudgeInv, NudgesTrue, Updated
<1>2. ASSUME NEW w \in Sweepers, NEW t \in Tasks PROVE InHand(w, t)'
  <2>1. InHand(w, t)
    BY DEF NudgeInv
  <2>2. CASE t \notin ts
    <3>1. nudged'[t] = nudged[t] /\ warned'[t] = warned[t] /\ task'[t] = task[t]
      BY <2>2 DEF Updated
    <3>2. Unmoved(w, t)' <=> Unmoved(w, t)
      BY <3>1 DEF Unmoved, Tracked
    <3> QED BY <2>1, <3>1, <3>2 DEF InHand
  <2>3. CASE t \in ts
    <3>1. nudged'[t] = {} /\ task'[t].updated = 0
      BY <2>3 DEF Updated
    <3>2. ~Old(0)
      BY StallAssumption DEF Old
    <3>3. sweep[w].item[t] # "none" => ~Unmoved(w, t)'
      BY <2>1, <3>1, <3>2 DEF InHand, Unmoved
    <3> QED BY <2>1, <3>1, <3>3 DEF InHand
  <2> QED BY <2>2, <2>3
<1> QED BY <1>1, <1>2 DEF NudgeInv

\* The clock turns: no sweep is under way, and nudges age with their events.
LEMMA NudgeInvTick == ASSUME TypeOK, SweepInv, NudgeInv, Tick PROVE NudgeInv'
<1>1. ASSUME NEW w \in Sweepers, NEW t \in Tasks PROVE InHand(w, t)'
  BY OutOfHand DEF Tick, SweepInv, Resting
<1>2. ASSUME NEW t \in Tasks, nudged'[t] # {}, t \notin mistaken' PROVE warned'[t] = nudged'[t]
  <2>1. /\ nudged'[t] = {Older(age, Window + 1) : age \in nudged[t]}
        /\ warned'[t] = {Older(age, Window + 1) : age \in warned[t]}
    BY DEF Tick
  <2>2. nudged[t] # {} /\ t \notin mistaken
    BY <1>2, <2>1 DEF Tick
  <2>3. warned[t] = nudged[t]
    BY <2>2 DEF NudgeInv, NudgesTrue
  <2> QED BY <2>1, <2>3
<1> QED BY <1>1, <1>2 DEF NudgeInv, NudgesTrue

LEMMA NudgeInvSelect ==
    ASSUME TypeOK, SweepInv, NudgeInv, NEW w \in Sweepers, SelectDue(w)
    PROVE  NudgeInv'
<1>1. NudgesTrue'
  BY DEF SelectDue, eventVars, NudgeInv, NudgesTrue
<1>2. ASSUME NEW v \in Sweepers \ {w}, NEW t \in Tasks PROVE InHand(v, t)'
  <2>1. sweep'[v].item[t] = "none"
    BY DEF SelectDue, SweepLockFree, TypeOK, SweepInv, Resting
  <2> QED BY <2>1, OutOfHand
<1>3. ASSUME NEW t \in Tasks PROVE InHand(w, t)'
  <2>1. /\ sweep'[w].item[t] = IF ~Due(t) THEN "none"
                               ELSE IF nudged[t] = {} THEN "foundIdle" ELSE "foundNudged"
        /\ sweep'[w].seen[t] = IF Due(t) THEN {task[t]} ELSE {}
    BY DEF SelectDue, TypeOK
  <2>2. nudged'[t] = nudged[t]
    BY DEF SelectDue, eventVars
  <2> QED BY <2>1, <2>2 DEF InHand, Due
<1> QED BY <1>1, <1>2, <1>3 DEF NudgeInv

\* A sweep is over: what it had in hand is forgotten.
LEMMA NudgeInvOver ==
    ASSUME TypeOK, NudgeInv, NEW w \in Sweepers, sweep' = [sweep EXCEPT ![w] = Idle],
           UNCHANGED <<task, eventVars, warned, mistaken>>
    PROVE  NudgeInv'
<1>1. NudgesTrue'
  BY DEF eventVars, NudgeInv, NudgesTrue
<1>2. ASSUME NEW v \in Sweepers, NEW t \in Tasks PROVE InHand(v, t)'
  <2>1. CASE v = w
    BY <2>1, OutOfHand DEF TypeOK, Idle
  <2>2. CASE v # w
    BY <2>2 DEF TypeOK, eventVars, NudgeInv, InHand, Unmoved, Tracked
  <2> QED BY <2>1, <2>2
<1> QED BY <1>1, <1>2 DEF NudgeInv

\* A decision about a task: a nudge for one that has none, or anything that is not a nudge.
LEMMA NudgeInvDecides ==
    ASSUME TypeOK, SweepInv, NudgeInv, NEW w \in Sweepers, NEW t \in Tasks,
           NEW item, NEW seen, NEW to, About(w, t, item, seen, to),
           UNCHANGED <<task, eventVars, warned, mistaken>>,
           sweep[w].item[t] \in {"foundIdle", "foundNudged"},
           item # "none" => seen = sweep[w].seen[t],
           \/ item \in {"none", "escalate", "escalatePosted"}
           \/ item = "nudge" /\ sweep[w].item[t] = "foundIdle"
    PROVE  NudgeInv'
<1>1. NudgesTrue'
  BY DEF eventVars, NudgeInv, NudgesTrue
<1>2. sweep[w].active
  BY DEF SweepInv, Resting
<1>3. ASSUME NEW v \in Sweepers \ {w}, NEW s \in Tasks PROVE InHand(v, s)'
  BY <1>2, OthersRest DEF About
<1>4. ASSUME NEW s \in Tasks PROVE InHand(w, s)'
  <2>1. InHand(w, s)
    BY DEF NudgeInv
  <2>2. CASE s # t
    BY <2>1, <2>2 DEF About, eventVars, InHand, Unmoved, Tracked
  <2>3. CASE s = t
    BY <2>1, <2>3 DEF About, eventVars, InHand
  <2> QED BY <2>2, <2>3
<1> QED BY <1>1, <1>3, <1>4 DEF NudgeInv

\* A nudge goes out: the tasks it lists were never nudged about since their update.
LEMMA NudgeInvPostNudge ==
    ASSUME TypeOK, SweepInv, NudgeInv, NEW w \in Sweepers, NEW a \in Agents, PostNudge(w, a)
    PROVE  NudgeInv'
<1>1. PostedFor(w, "nudge", "nudgePosted", a)
  BY PostIsFor DEF TypeOK, Items, PostNudge
<1>2. UNCHANGED <<task, nudged, mistaken>>
  BY DEF PostNudge, Post, eventVars
<1>3. \A t \in Tasks : warned'[t] = IF t \in For(w, "nudge", a) /\ Unmoved(w, t) THEN {0} ELSE warned[t]
  BY DEF PostNudge
<1>4. \A t \in For(w, "nudge", a) : t \in Tasks /\ sweep[w].item[t] = "nudge" /\ nudged[t] = {}
  BY DEF For, At, NudgeInv, InHand
<1>5. NudgesTrue'
  BY <1>2, <1>3, <1>4 DEF NudgeInv, NudgesTrue
<1>6. sweep[w].active
  BY <1>4 DEF PostNudge, Post, SweepInv, Resting
<1>7. ASSUME NEW v \in Sweepers \ {w}, NEW t \in Tasks PROVE InHand(v, t)'
  BY <1>1, <1>6, OthersRest DEF PostedFor
<1>8. ASSUME NEW t \in Tasks PROVE InHand(w, t)'
  <2>1. InHand(w, t)
    BY DEF NudgeInv
  <2>2. Unmoved(w, t)' <=> Unmoved(w, t)
    BY <1>1, <1>2 DEF PostedFor, Unmoved, Tracked
  <2>3. CASE t \in For(w, "nudge", a)
    BY <2>1, <2>2, <2>3, <1>1, <1>2, <1>3, <1>4 DEF PostedFor, InHand
  <2>4. CASE t \notin For(w, "nudge", a)
    BY <2>1, <2>2, <2>4, <1>1, <1>2, <1>3 DEF PostedFor, InHand
  <2> QED BY <2>3, <2>4
<1> QED BY <1>5, <1>7, <1>8 DEF NudgeInv

LEMMA NudgeInvPostEscalation ==
    ASSUME TypeOK, SweepInv, NudgeInv, NEW w \in Sweepers, NEW a \in Agents, PostEscalation(w, a)
    PROVE  NudgeInv'
<1>1. PostedFor(w, "escalate", "escalatePosted", a)
  BY PostIsFor DEF TypeOK, Items, PostEscalation
<1>2. UNCHANGED <<task, nudged, mistaken, warned>>
  BY DEF PostEscalation, Post, eventVars
<1>3. NudgesTrue'
  BY <1>2 DEF NudgeInv, NudgesTrue
<1>4. sweep[w].active
  BY DEF PostEscalation, Post, For, At, SweepInv, Resting
<1>5. ASSUME NEW v \in Sweepers \ {w}, NEW t \in Tasks PROVE InHand(v, t)'
  BY <1>1, <1>4, OthersRest DEF PostedFor
<1>6. ASSUME NEW t \in Tasks PROVE InHand(w, t)'
  <2>1. InHand(w, t)
    BY DEF NudgeInv
  <2>2. Unmoved(w, t)' <=> Unmoved(w, t)
    BY <1>1, <1>2 DEF PostedFor, Unmoved, Tracked
  <2>3. t \in For(w, "escalate", a) => sweep[w].item[t] = "escalate"
    BY DEF For, At
  <2> QED BY <2>1, <2>2, <2>3, <1>1, <1>2 DEF PostedFor, InHand
<1> QED BY <1>3, <1>5, <1>6 DEF NudgeInv

(***************************************************************************)
(* An event is recorded: of a nudge, which is the last one if the task did *)
(* not move since it was read, and mistaken if it did; or of an escalation.*)
(***************************************************************************)
LEMMA NudgeInvRecords ==
    ASSUME TypeOK, SweepInv, NudgeInv, NEW w \in Sweepers, NEW t \in Tasks,
           RecordNudge(w, t) \/ RecordEscalation(w, t)
    PROVE  NudgeInv'
<1>1. About(w, t, "none", {}, {})
  BY DropIsAbout DEF TypeOK, RecordNudge, RecordEscalation, Records
<1>2. UNCHANGED <<task, warned>>
  BY DEF RecordNudge, RecordEscalation, Records
<1>3. sweep[w].active
  BY DEF RecordNudge, RecordEscalation, SweepInv, Resting
<1>4. \A s \in Tasks \ {t} : nudged'[s] = nudged[s]
  BY DEF RecordNudge, RecordEscalation, TypeOK
<1>5. ASSUME NEW v \in Sweepers \ {w}, NEW s \in Tasks PROVE InHand(v, s)'
  BY <1>1, <1>3, OthersRest DEF About
<1>6. ASSUME NEW s \in Tasks PROVE InHand(w, s)'
  <2>1. CASE s = t
    BY <2>1, <1>1, OutOfHand DEF About
  <2>2. CASE s # t
    BY <2>2, <1>1, <1>2, <1>4 DEF About, NudgeInv, InHand, Unmoved, Tracked
  <2> QED BY <2>1, <2>2
<1>7. NudgesTrue'
  <2> SUFFICES ASSUME NEW s \in Tasks, nudged'[s] # {}, s \notin mistaken'
               PROVE  warned'[s] = nudged'[s]
    BY DEF NudgesTrue
  <2>1. s \notin mistaken
    BY DEF RecordNudge, RecordEscalation, Records
  <2>2. CASE s # t \/ RecordEscalation(w, t)
    <3>1. nudged'[s] = nudged[s]
      BY <2>2, <1>4 DEF RecordEscalation
    <3> QED BY <2>1, <3>1, <1>2 DEF NudgeInv, NudgesTrue
  <2>3. CASE s = t /\ RecordNudge(w, t)
    <3>1. nudged'[t] = {0}
      BY <2>3 DEF RecordNudge, TypeOK
    <3>2. Unmoved(w, t) /\ sweep[w].item[t] = "nudgePosted"
      BY <2>3 DEF RecordNudge, Records
    <3> QED BY <2>3, <3>1, <3>2, <1>2 DEF NudgeInv, InHand
  <2> QED BY <2>2, <2>3
<1> QED BY <1>5, <1>6, <1>7 DEF NudgeInv

LEMMA NudgeInvStep == ASSUME TypeOK, SweepInv, NudgeInv, [Next]_vars PROVE NudgeInv'
<1>1. CASE Tick
  BY <1>1, NudgeInvTick
<1>2. ASSUME NEW a \in Agents, Heartbeat(a) PROVE NudgeInv'
  <2> DEFINE ts == {t \in Tasks : task[t].agent = a /\ task[t].state = "in_progress"}
  <2>1. ts \in SUBSET Tasks /\ Updated(ts) /\ sweep' = sweep
    BY <1>2 DEF Heartbeat
  <2>2. task' = [t \in Tasks |-> IF t \in ts THEN [task[t] EXCEPT !.updated = 0] ELSE task[t]]
    BY <1>2 DEF Heartbeat
  <2>3. \A t \in ts : task'[t].updated = 0
    <3>1. \A t \in ts : [task[t] EXCEPT !.updated = 0].updated = 0
      BY DEF TypeOK, TaskRow
    <3> HIDE DEF ts
    <3> QED BY <2>1, <2>2, <3>1
  <2>4. \A t \in Tasks \ ts : task'[t] = task[t]
    <3> HIDE DEF ts
    <3> QED BY <2>2
  <2> HIDE DEF ts
  <2> QED BY <2>1, <2>3, <2>4, NudgeInvUpdated
<1>3. ASSUME NEW t \in Tasks, Moves(t) PROVE NudgeInv'
  <2>1. task'[t].updated = 0 /\ \A s \in Tasks \ {t} : task'[s] = task[s]
    BY <1>3 DEF Moves, TypeOK
  <2> QED BY <2>1, <1>3, NudgeInvUpdated DEF Moves
<1>4. ASSUME NEW w \in Sweepers, SelectDue(w) PROVE NudgeInv'
  BY <1>4, NudgeInvSelect
<1>5. ASSUME NEW w \in Sweepers, SweepEnds(w) \/ SweepStops(w) PROVE NudgeInv'
  BY <1>5, NudgeInvOver DEF SweepEnds, SweepStops
<1>6. ASSUME NEW w \in Sweepers, NEW a \in Agents, PostNudge(w, a) \/ PostEscalation(w, a) PROVE NudgeInv'
  BY <1>6, NudgeInvPostNudge, NudgeInvPostEscalation
<1>7. ASSUME NEW w \in Sweepers, NEW t \in Tasks, QueueNudge(w, t) PROVE NudgeInv'
  <2>1. About(w, t, "nudge", sweep[w].seen[t], Owner(w, t))
    BY <1>7, OwnersAreAgents, QueueIsAbout DEF TypeOK, QueueNudge, Items
  <2> QED BY <2>1, <1>7, NudgeInvDecides DEF QueueNudge, Queue
<1>8. ASSUME NEW w \in Sweepers, NEW t \in Tasks, QueueEscalation(w, t) PROVE NudgeInv'
  <2>1. PICK to \in Targets(w, t) : Queue(w, t, IF to = {} THEN "escalatePosted" ELSE "escalate", to)
    BY <1>8 DEF QueueEscalation
  <2>2. to \subseteq Agents
    BY OwnersAreAgents DEF TypeOK
  <2>3. About(w, t, IF to = {} THEN "escalatePosted" ELSE "escalate", sweep[w].seen[t], to)
    BY <2>1, <2>2, QueueIsAbout DEF TypeOK, Items
  <2> QED BY <2>1, <2>3, <1>8, NudgeInvDecides DEF QueueEscalation, Queue
<1>9. ASSUME NEW w \in Sweepers, NEW t \in Tasks, SkipTask(w, t) PROVE NudgeInv'
  <2>1. About(w, t, "none", {}, {})
    BY <1>9, DropIsAbout DEF TypeOK, SkipTask
  <2> QED BY <2>1, <1>9, NudgeInvDecides DEF SkipTask
<1>10. ASSUME NEW w \in Sweepers, NEW t \in Tasks, RecordNudge(w, t) \/ RecordEscalation(w, t)
       PROVE  NudgeInv'
  BY <1>10, NudgeInvRecords
<1>11. CASE UNCHANGED vars
  BY <1>11 DEF vars, NudgeInv, NudgesTrue, InHand, Unmoved, Tracked
<1> QED BY <1>1, <1>2, <1>3, <1>4, <1>5, <1>6, <1>7, <1>8, <1>9, <1>10, <1>11 DEF Next, SweepStep

\* The step at which somebody above the owner is to be told.
Follows ==
    \A w \in Sweepers, t \in Tasks :
        sweep[w].item[t] = "foundNudged" /\ sweep'[w].item[t] \in {"escalate", "escalatePosted"} =>
            t \in mistaken \/ \E age \in warned[t] : Old(age)

(***************************************************************************)
(* Only a task that did not move since the sweep read it is queued: its    *)
(* recorded nudge is old, and the one that was posted.                     *)
(***************************************************************************)
LEMMA FollowsStep ==
    ASSUME TypeOK, SweepInv, NudgeInv, [Next]_vars
    PROVE  [Follows]_<<sweep, warned>>
<1> SUFFICES ASSUME NEW v \in Sweepers, NEW s \in Tasks, sweep[v].item[s] = "foundNudged",
                    sweep'[v].item[s] \in {"escalate", "escalatePosted"}
             PROVE  s \in mistaken \/ \E age \in warned[s] : Old(age)
  BY DEF Follows
<1>1. Unmoved(v, s)
  <2>1. CASE sweep' = sweep
    BY <2>1
  <2>2. ASSUME NEW w \in Sweepers, SelectDue(w) PROVE Unmoved(v, s)
    BY <2>2 DEF SelectDue, TypeOK, SweepLockFree, SweepInv, Resting
  <2>3. ASSUME NEW w \in Sweepers, SweepEnds(w) \/ SweepStops(w) PROVE Unmoved(v, s)
    BY <2>3 DEF SweepEnds, SweepStops, TypeOK, Idle
  <2>4. ASSUME NEW w \in Sweepers, NEW a \in Agents, PostNudge(w, a) \/ PostEscalation(w, a)
        PROVE  Unmoved(v, s)
    <3>1. \E item \in {"nudge", "escalate"}, posted \in Posted : PostedFor(w, item, posted, a)
      BY <2>4, PostIsFor DEF PostNudge, PostEscalation, Posted, TypeOK, Items
    <3> QED BY <3>1 DEF PostedFor, For, At
  <2>5. ASSUME NEW w \in Sweepers, NEW t \in Tasks, QueueEscalation(w, t) PROVE Unmoved(v, s)
    <3>1. PICK to \in Targets(w, t) : Queue(w, t, IF to = {} THEN "escalatePosted" ELSE "escalate", to)
      BY <2>5 DEF QueueEscalation
    <3>2. About(w, t, IF to = {} THEN "escalatePosted" ELSE "escalate", sweep[w].seen[t], to)
      BY <3>1, OwnersAreAgents, QueueIsAbout DEF TypeOK, Items
    <3>3. v = w /\ s = t
      BY <3>2 DEF About
    <3> QED BY <3>3, <2>5 DEF QueueEscalation
  <2>6. ASSUME NEW w \in Sweepers, NEW t \in Tasks, QueueNudge(w, t) PROVE Unmoved(v, s)
    <3>1. About(w, t, "nudge", sweep[w].seen[t], Owner(w, t))
      BY <2>6, OwnersAreAgents, QueueIsAbout DEF TypeOK, QueueNudge, Items
    <3> QED BY <3>1 DEF About
  <2>7. ASSUME NEW w \in Sweepers, NEW t \in Tasks,
               SkipTask(w, t) \/ RecordNudge(w, t) \/ RecordEscalation(w, t)
        PROVE  Unmoved(v, s)
    <3>1. About(w, t, "none", {}, {})
      BY <2>7, DropIsAbout DEF TypeOK, SkipTask, RecordNudge, RecordEscalation, Records
    <3> QED BY <3>1 DEF About
  <2> QED BY <2>1, <2>2, <2>3, <2>4, <2>5, <2>6, <2>7
          DEF Next, SweepStep, Tick, Heartbeat, Moves, vars
<1>2. nudged[s] # {} /\ \A age \in nudged[s] : Old(age)
  BY <1>1 DEF NudgeInv, InHand
<1> QED BY <1>2 DEF NudgeInv, NudgesTrue

(***************************************************************************)
(* Nobody above an agent is told of a stall before the agent itself was    *)
(* nudged about this very stall and had another window ("one targeted      *)
(* nudge to the owner" first), but for tasks that moved between a nudge    *)
(* and its event.                                                          *)
(***************************************************************************)
THEOREM OwnersAreNudgedFirst == Spec => EscalationFollowsNudge
<1>1. Spec => []NudgeInv
  BY StallTypeCorrect, SweepInvAlways, NudgeInvInit, NudgeInvStep, PTL DEF Spec
<1> QED BY <1>1, StallTypeCorrect, SweepInvAlways, FollowsStep, PTL
        DEF Spec, EscalationFollowsNudge, Follows

(***************************************************************************)
(* How long a task that stands still waits.  Before its nudge a window,    *)
(* after it another, and the ticks it was held back; one that is too old   *)
(* by now was held back too long.                                          *)
(***************************************************************************)
Paced == \A t \in Tasks : Tracked(t) /\ t \notin escalated =>
    \/ Horizon < Patience + held[t]
    \/ nudged[t] = {} /\ task[t].updated <= Window + 1 + held[t]
    \/ \E n \in nudged[t] : task[t].updated <= n + Window + 1 + held[t]

\* What a sweep knows of recent messages is so.
CoolingTrue == \A w \in Sweepers : sweep[w].active =>
    /\ \A a \in sweep[w].coolingAgents : reminded[a] # {}
    /\ sweep[w].coolingCompany => told # {}

\* A task is as a sweep under way read it, or has just been updated.
SeenStands == \A w \in Sweepers, t \in Tasks : sweep[w].active =>
    \A row \in sweep[w].seen[t] : task[t] = row \/ task[t].updated = 0

(***************************************************************************)
(* No task that is due is left without a reason, by a sweep that is done   *)
(* with it or by one that came to its end.                                 *)
(***************************************************************************)
NoneLeft == \A t \in Tasks : Due(t) =>
    /\ turn = "swept" => Quieted(t)
    /\ \A w \in Sweepers : sweep[w].active /\ sweep[w].item[t] = "none" => Quieted(t)

PaceInv == Paced /\ CoolingTrue /\ SeenStands /\ NoneLeft

LEMMA PaceInvInit == Init => PaceInv
<1> SUFFICES ASSUME Init PROVE PaceInv
  OBVIOUS
<1>1. \A w \in Sweepers : ~sweep[w].active
  BY DEF Init, Idle
<1>2. \A t \in Tasks : nudged[t] = {} /\ task[t].updated = 0 /\ held[t] = 0
  BY DEF Init
<1>3. Window \in Nat
  BY StallAssumption
<1>4. Paced
  BY <1>2, <1>3 DEF Paced
<1>5. ~(turn = "swept")
  BY DEF Init
<1> QED BY <1>1, <1>4, <1>5 DEF PaceInv, CoolingTrue, SeenStands, NoneLeft

\* A task that was just updated, nudged about or escalated is not due.
LEMMA NotDue ==
    ASSUME NEW t \in Tasks, task[t].updated = 0 \/ t \in escalated \/ nudged[t] = {0}
    PROVE  ~Due(t)
<1>1. ~Old(0)
  BY StallAssumption DEF Old
<1> QED BY <1>1 DEF Due

\* More is said in the window, and the task stays: it is due and kept quiet as before.
LEMMA StaysQuiet ==
    ASSUME NEW t \in Tasks, task'[t] = task[t], nudged'[t] = nudged[t], t \in escalated' <=> t \in escalated,
           told # {} => told' # {}, \A a \in Agents : reminded[a] # {} => reminded'[a] # {},
           task[t].agent \in Agents
    PROVE  /\ Due(t)' => Due(t)
           /\ Quieted(t) => Quieted(t)'
<1>1. Above[task[t].agent] \subseteq Agents
  BY StallAssumption
<1> QED BY <1>1 DEF Due, Quieted, Tracked

\* The pace of a task that stays as it is, events included.
LEMMA StaysPaced ==
    ASSUME Paced, UNCHANGED <<task, nudged, held>>, escalated \subseteq escalated'
    PROVE  Paced'
BY DEF Paced, Tracked

\* Tasks are updated: their stall begins anew.
LEMMA PaceInvUpdated ==
    ASSUME TypeOK, PaceInv, UNCHANGED <<told, reminded, sweep, turn>>, NEW ts \in SUBSET Tasks, Updated(ts),
           \A t \in Tasks \ ts : task'[t] = task[t],
           \A t \in ts : task'[t].updated = 0
    PROVE  PaceInv'
<1>1. \A t \in ts : nudged'[t] = {} /\ held'[t] = 0
  BY DEF Updated
<1>2. \A t \in Tasks \ ts : /\ nudged'[t] = nudged[t] /\ held'[t] = held[t]
                            /\ t \in escalated' <=> t \in escalated
  BY DEF Updated
<1>3. Paced'
  <2>1. ASSUME NEW t \in ts
        PROVE  nudged'[t] = {} /\ task'[t].updated <= Window + 1 + held'[t]
    BY <1>1, <2>1, StallAssumption
  <2>2. ASSUME NEW t \in Tasks \ ts PROVE Tracked(t)' <=> Tracked(t)
    BY <2>2 DEF Tracked
  <2> QED BY <1>2, <2>1, <2>2 DEF PaceInv, Paced
<1>4. CoolingTrue' /\ SeenStands'
  BY DEF PaceInv, CoolingTrue, SeenStands
<1>5. ASSUME NEW t \in Tasks, Due(t)' PROVE Due(t) /\ (Quieted(t) => Quieted(t)')
  <2>1. t \notin ts
    <3>1. ~Old(0)
      BY StallAssumption DEF Old
    <3> QED BY <3>1, <1>5 DEF Due
  <2>2. task[t].agent \in Agents
    BY DEF TypeOK, TaskRow
  <2> QED BY <1>2, <1>5, <2>1, <2>2, StaysQuiet
<1>6. NoneLeft'
  BY <1>5 DEF PaceInv, NoneLeft
<1> QED BY <1>3, <1>4, <1>6 DEF PaceInv

(***************************************************************************)
(* The clock turns, after a whole sweep or none but cut ones: what was due *)
(* and is not escalated was held back.                                     *)
(***************************************************************************)
LEMMA PaceInvTick == ASSUME TypeOK, PaceInv, Tick PROVE PaceInv'
<1>1. \A w \in Sweepers : ~sweep'[w].active
  BY DEF Tick
<1>2. \A t \in Tasks : Due(t) => HeldBack(t)
  BY DEF Tick, PaceInv, NoneLeft, HeldBack, TypeOK
<1>3. ASSUME NEW t \in Tasks, Tracked(t)', t \notin escalated'
      PROVE  \/ Horizon < Patience + held'[t]
             \/ nudged'[t] = {} /\ task'[t].updated <= Window + 1 + held'[t]
             \/ \E n \in nudged'[t] : task'[t].updated <= n + Window + 1 + held'[t]
  <2>1. PICK u \in 0..MaxAge : u = task[t].updated
    BY DEF TypeOK, TaskRow
  <2>2. task'[t] = [task[t] EXCEPT !.updated = Older(u, MaxAge)]
    BY <2>1 DEF Tick
  <2>3. task'[t].updated = Older(u, MaxAge) /\ task'[t].state = task[t].state
    BY <2>1, <2>2 DEF TypeOK, TaskRow
  <2>4. Tracked(t) /\ t \notin escalated
    BY <1>3, <2>3 DEF Tracked, Tick
  <2>5. held'[t] = IF Due(t) THEN held[t] + 1 ELSE held[t]
    BY <1>2 DEF Tick
  <2>6. held[t] \in Nat /\ Window \in Nat /\ Horizon \in Nat /\ MaxAge \in Nat
    BY StallAssumption DEF TypeOK
  <2>7. task'[t].updated <= u + 1
    BY <2>1, <2>3, <2>6 DEF Older
  <2>8. task'[t].updated \in Nat
    BY <2>1, <2>3, <2>6 DEF Older
  <2>9. CASE Horizon < Patience + held[t]
    BY <2>5, <2>6, <2>9 DEF Patience
  <2>10. CASE nudged[t] = {} /\ u <= Window + 1 + held[t]
    <3>1. nudged'[t] = {}
      BY <2>10 DEF Tick
    <3>2. Due(t) <=> u > Window /\ u <= Horizon
      BY <2>1, <2>4, <2>10 DEF Due, Old
    <3> QED BY <2>1, <2>5, <2>6, <2>7, <2>8, <2>10, <3>1, <3>2 DEF Patience
  <2>11. ASSUME NEW n \in nudged[t], u <= n + Window + 1 + held[t]
         PROVE  \/ Horizon < Patience + held'[t]
                \/ \E m \in nudged'[t] : task'[t].updated <= m + Window + 1 + held'[t]
    <3>1. nudged[t] \in Optional(0..Window + 1)
      BY DEF TypeOK
    <3>2. nudged[t] = {n} /\ n \in 0..Window + 1
      BY <3>1 DEF Optional
    <3>3. Older(n, Window + 1) \in nudged'[t]
      BY DEF Tick
    <3>4. Due(t) <=> u > Window /\ u <= Horizon /\ n > Window
      BY <2>1, <2>4, <3>2 DEF Due, Old
    <3>5. CASE n <= Window
      <4>1. Older(n, Window + 1) = n + 1
        BY <2>6, <3>2, <3>5 DEF Older
      <4>2. held'[t] = held[t]
        BY <2>5, <2>6, <3>2, <3>4, <3>5
      <4> QED BY <2>1, <2>6, <2>7, <2>8, <2>11, <3>2, <3>3, <4>1, <4>2
    <3>6. CASE n > Window
      <4>1. n = Window + 1 /\ Older(n, Window + 1) = n
        BY <2>6, <3>2, <3>6 DEF Older
      <4> QED BY <2>1, <2>5, <2>6, <2>7, <2>8, <2>11, <3>3, <3>4, <4>1 DEF Patience
    <3> QED BY <2>6, <3>2, <3>5, <3>6
  <2> QED BY <2>1, <2>4, <2>9, <2>10, <2>11 DEF PaceInv, Paced
<1>4. Paced'
  BY <1>3 DEF Paced
<1>5. ~(turn' = "swept")
  BY DEF Tick
<1> QED BY <1>1, <1>4, <1>5 DEF PaceInv, CoolingTrue, SeenStands, NoneLeft

\* A sweep starts: every task that is due is found.
LEMMA PaceInvSelect ==
    ASSUME TypeOK, SweepInv, PaceInv, NEW w \in Sweepers, SelectDue(w) PROVE PaceInv'
<1>1. UNCHANGED <<task, nudged, escalated, told, reminded, turn, held>>
  BY DEF SelectDue, eventVars
<1>2. \A v \in Sweepers \ {w} : ~sweep'[v].active
  BY DEF SelectDue, SweepLockFree, TypeOK
<1>3. \A t \in Tasks : /\ Due(t) => sweep'[w].item[t] # "none"
                      /\ sweep'[w].seen[t] = IF Due(t) THEN {task[t]} ELSE {}
  BY DEF SelectDue, TypeOK
<1>4. sweep'[w].coolingAgents = Cooling /\ (sweep'[w].coolingCompany <=> told # {})
  BY DEF SelectDue, TypeOK
<1>5. Paced'
  BY <1>1, StaysPaced DEF PaceInv
<1>6. CoolingTrue' /\ SeenStands'
  BY <1>1, <1>2, <1>3, <1>4 DEF CoolingTrue, SeenStands, Cooling
<1>7. \A t \in Tasks : (Due(t)' <=> Due(t)) /\ (Quieted(t)' <=> Quieted(t))
  BY <1>1 DEF Due, Quieted, Tracked
<1>8. NoneLeft'
  BY <1>1, <1>2, <1>3, <1>7 DEF PaceInv, NoneLeft
<1> QED BY <1>5, <1>6, <1>8 DEF PaceInv

\* A sweep is over: at its end it is done with every task.
LEMMA PaceInvOver ==
    ASSUME TypeOK, PaceInv, NEW w \in Sweepers, SweepEnds(w) \/ SweepStops(w) PROVE PaceInv'
<1>1. UNCHANGED <<task, nudged, escalated, told, reminded, held>> /\ sweep' = [sweep EXCEPT ![w] = Idle]
  BY DEF SweepEnds, SweepStops, eventVars
<1>2. ~sweep'[w].active /\ \A v \in Sweepers \ {w} : sweep'[v] = sweep[v]
  BY <1>1 DEF TypeOK, Idle
<1>3. Paced'
  BY <1>1, StaysPaced DEF PaceInv
<1>4. CoolingTrue' /\ SeenStands'
  BY <1>1, <1>2 DEF PaceInv, CoolingTrue, SeenStands
<1>5. \A t \in Tasks : (Due(t)' <=> Due(t)) /\ (Quieted(t)' <=> Quieted(t))
  BY <1>1 DEF Due, Quieted, Tracked
<1>6. ASSUME NEW t \in Tasks, Due(t), turn' = "swept" PROVE Quieted(t)
  <2>1. CASE SweepEnds(w)
    <3>1. sweep[w].active /\ sweep[w].item[t] \in Items
      BY <2>1 DEF SweepEnds, TypeOK, Sweep
    <3>2. sweep[w].item[t] = "none"
      BY <2>1, <3>1 DEF SweepEnds, At
    <3> QED BY <1>6, <3>1, <3>2 DEF PaceInv, NoneLeft
  <2>2. CASE SweepStops(w)
    BY <1>6, <2>2 DEF SweepStops, PaceInv, NoneLeft
  <2> QED BY <2>1, <2>2
<1>7. NoneLeft'
  BY <1>2, <1>5, <1>6 DEF PaceInv, NoneLeft
<1> QED BY <1>3, <1>4, <1>7 DEF PaceInv

(***************************************************************************)
(* The sweep under way decides or records: what is due and no longer in    *)
(* its hands it skipped, because of what was said in the window.           *)
(***************************************************************************)
LEMMA PaceInvHandled ==
    ASSUME TypeOK, SweepInv, PaceInv, NEW w \in Sweepers, NEW t \in Tasks,
           NEW item, NEW seen, NEW to, About(w, t, item, seen, to), seen \subseteq sweep[w].seen[t],
           sweep[w].item[t] # "none",
           UNCHANGED <<task, reminded, turn, held>>, told # {} => told' # {},
           \A s \in Tasks \ {t} : nudged'[s] = nudged[s] /\ (s \in escalated' <=> s \in escalated),
           item = "none" /\ Due(t)' => Quieted(t)', Due(t)' => Due(t) /\ (Quieted(t) => Quieted(t)'),
           Paced'
    PROVE  PaceInv'
<1>1. sweep[w].active
  BY DEF SweepInv, Resting
<1>2. \A v \in Sweepers \ {w} : sweep'[v] = sweep[v] /\ ~sweep[v].active
  BY <1>1 DEF About, SweepInv, Alone
<1>3. CoolingTrue'
  BY <1>2 DEF About, PaceInv, CoolingTrue
<1>4. SeenStands'
  BY <1>2 DEF About, PaceInv, SeenStands
<1>5. ASSUME NEW s \in Tasks, Due(s)' PROVE Due(s) /\ (Quieted(s) => Quieted(s)')
  <2>1. CASE s = t
    BY <1>5, <2>1
  <2>2. CASE s # t
    <3>1. task[s].agent \in Agents
      BY DEF TypeOK, TaskRow
    <3> QED BY <1>5, <2>2, <3>1, StaysQuiet
  <2> QED BY <2>1, <2>2
<1>6. ASSUME NEW s \in Tasks, Due(s)', sweep'[w].item[s] = "none" PROVE Quieted(s)'
  <2>1. CASE s = t
    BY <1>6, <2>1 DEF About
  <2>2. CASE s # t
    BY <1>1, <1>5, <1>6, <2>2 DEF About, PaceInv, NoneLeft
  <2> QED BY <2>1, <2>2
<1>7. NoneLeft'
  BY <1>2, <1>5, <1>6 DEF PaceInv, NoneLeft
<1> QED BY <1>3, <1>4, <1>7 DEF PaceInv

\* A task is queued.
LEMMA PaceInvQueues ==
    ASSUME TypeOK, SweepInv, PaceInv, NEW w \in Sweepers, NEW t \in Tasks,
           NEW item \in Items \ {"none"}, NEW to, About(w, t, item, sweep[w].seen[t], to),
           sweep[w].item[t] # "none",
           UNCHANGED <<task, eventVars, reminded, turn, held>>
    PROVE  PaceInv'
<1>1. Due(t)' => Due(t) /\ (Quieted(t) => Quieted(t)')
  BY DEF Due, Quieted, Tracked, eventVars
<1>2. Paced'
  BY StaysPaced DEF PaceInv, eventVars
<1> QED BY <1>1, <1>2, PaceInvHandled DEF eventVars

(***************************************************************************)
(* A task is skipped: it was updated after the sweep read it, or what the  *)
(* sweep knew of recent messages keeps it quiet.                           *)
(***************************************************************************)
LEMMA PaceInvSkips ==
    ASSUME TypeOK, SweepInv, NudgeInv, PaceInv, NEW w \in Sweepers, NEW t \in Tasks, SkipTask(w, t)
    PROVE  PaceInv'
<1>1. About(w, t, "none", {}, {})
  BY DropIsAbout DEF TypeOK, SkipTask
<1>2. UNCHANGED <<task, nudged, escalated, told, reminded, turn, held>>
  BY DEF SkipTask, eventVars
<1>3. sweep[w].item[t] # "none" /\ sweep[w].active
  BY DEF SkipTask, SweepInv, Resting
<1>4. InHand(w, t)
  BY DEF NudgeInv
<1>5. PICK row \in sweep[w].seen[t] : Old(row.updated)
  BY <1>3, <1>4 DEF InHand
<1>6. \A r \in sweep[w].seen[t] : r = row
  BY <1>5 DEF SweepInv, Addressed
<1>7. ASSUME Due(t) PROVE Quieted(t)
  <2>1. task[t] = row
    BY <1>3, <1>5, <1>7, NotDue DEF PaceInv, SeenStands
  <2>2. Unmoved(w, t) /\ Owner(w, t) = {task[t].agent}
    BY <1>5, <1>6, <1>7, <2>1 DEF Unmoved, Owner, Due
  <2>3. task[t].agent \in Agents
    BY DEF TypeOK, TaskRow
  <2>4. Above[task[t].agent] \subseteq Agents
    BY <2>3, StallAssumption
  <2>5. CASE sweep[w].item[t] = "foundIdle" /\ Owner(w, t) \cap sweep[w].coolingAgents # {}
    BY <1>3, <1>4, <2>2, <2>5 DEF InHand, PaceInv, CoolingTrue, Quieted
  <2>6. CASE sweep[w].item[t] = "foundNudged" /\ sweep[w].coolingCompany
    BY <1>3, <1>4, <2>2, <2>6 DEF InHand, PaceInv, CoolingTrue, Quieted
  <2>7. ASSUME sweep[w].item[t] = "foundNudged",
               NEW target \in Targets(w, t), target \cap sweep[w].coolingAgents # {}
        PROVE  Quieted(t)
    <3>1. UNION {Above[a] : a \in Owner(w, t)} = Above[task[t].agent]
      BY <2>2
    <3>2. target \subseteq Above[task[t].agent]
      BY <3>1 DEF Targets
    <3>3. PICK a \in Above[task[t].agent] : reminded[a] # {}
      BY <1>3, <2>7, <3>2 DEF PaceInv, CoolingTrue
    <3> QED BY <1>4, <2>2, <2>7, <3>3 DEF InHand, Quieted
  <2> QED BY <2>2, <2>5, <2>6, <2>7 DEF SkipTask
<1>8. (Due(t)' <=> Due(t)) /\ (Quieted(t)' <=> Quieted(t))
  BY <1>2 DEF Due, Quieted, Tracked
<1>9. Paced'
  BY <1>2, StaysPaced DEF PaceInv
<1> QED BY <1>1, <1>2, <1>3, <1>7, <1>8, <1>9, PaceInvHandled

\* A message goes out, and everybody it quiets stays quiet.
LEMMA PaceInvPosts ==
    ASSUME TypeOK, SweepInv, PaceInv, NEW w \in Sweepers, NEW a \in Agents,
           NEW item \in {"nudge", "escalate"}, NEW posted \in Posted, Post(w, item, posted, a)
    PROVE  PaceInv'
<1>1. PostedFor(w, item, posted, a)
  BY PostIsFor DEF TypeOK, Items, Posted
<1>2. PICK q \in Tasks : sweep[w].item[q] = item
  BY DEF Post, For, At
<1>3. sweep[w].active
  BY <1>2 DEF SweepInv, Resting
<1>4. UNCHANGED <<task, nudged, escalated, told, turn, held>>
  BY DEF Post, eventVars
<1>5. \A b \in Agents : reminded[b] # {} => reminded'[b] # {}
  BY DEF Post, TypeOK
<1>6. \A v \in Sweepers \ {w} : sweep'[v] = sweep[v] /\ ~sweep[v].active
  BY <1>1, <1>3 DEF PostedFor, SweepInv, Alone
<1>7. Paced'
  BY <1>4, StaysPaced DEF PaceInv
<1>8. CoolingTrue'
  <2>1. sweep[w].coolingAgents \subseteq Agents
    BY DEF TypeOK, Sweep
  <2> QED BY <2>1, <1>1, <1>3, <1>4, <1>5, <1>6 DEF PostedFor, PaceInv, CoolingTrue
<1>9. SeenStands'
  BY <1>1, <1>3, <1>4, <1>6 DEF PostedFor, PaceInv, SeenStands
<1>10. ASSUME NEW s \in Tasks PROVE (Due(s)' => Due(s)) /\ (Quieted(s) => Quieted(s)')
  <2>1. task[s].agent \in Agents
    BY DEF TypeOK, TaskRow
  <2> QED BY <1>4, <1>5, <2>1, StaysQuiet
<1>11. \A s \in Tasks : sweep'[w].item[s] = "none" => sweep[w].item[s] = "none"
  BY <1>1 DEF PostedFor, Posted
<1>12. NoneLeft'
  BY <1>3, <1>4, <1>6, <1>10, <1>11 DEF PaceInv, NoneLeft
<1> QED BY <1>7, <1>8, <1>9, <1>12 DEF PaceInv

(***************************************************************************)
(* An event is recorded: a nudge for a task that had none, which waits for *)
(* another window, or an escalation.                                       *)
(***************************************************************************)
LEMMA PaceInvRecords ==
    ASSUME TypeOK, SweepInv, NudgeInv, PaceInv, NEW w \in Sweepers, NEW t \in Tasks,
           RecordNudge(w, t) \/ RecordEscalation(w, t)
    PROVE  PaceInv'
<1>1. About(w, t, "none", {}, {})
  BY DropIsAbout DEF TypeOK, RecordNudge, RecordEscalation, Records
<1>2. UNCHANGED <<task, reminded, turn, held>> /\ (told # {} => told' # {})
  BY DEF RecordNudge, RecordEscalation, Records
<1>3. sweep[w].item[t] # "none"
  BY DEF RecordNudge, RecordEscalation
<1>4. \A s \in Tasks \ {t} : nudged'[s] = nudged[s] /\ (s \in escalated' <=> s \in escalated)
  BY DEF RecordNudge, RecordEscalation, TypeOK
<1>5. nudged'[t] = {0} \/ t \in escalated'
  BY DEF RecordNudge, RecordEscalation, TypeOK
<1>6. ~Due(t)'
  <2>1. ~Old(0)
    BY StallAssumption DEF Old
  <2> QED BY <1>5, <2>1 DEF Due
<1>7. Paced'
  <2>1. CASE RecordEscalation(w, t)
    BY <2>1, <1>2, StaysPaced DEF RecordEscalation, PaceInv
  <2>2. CASE RecordNudge(w, t)
    <3>1. nudged[t] = {} /\ nudged'[t] = {0} /\ escalated' = escalated
      BY <2>2 DEF RecordNudge, NudgeInv, InHand, TypeOK
    <3>2. held[t] \in Nat /\ Window \in Nat /\ task[t].updated \in Nat
      BY StallAssumption DEF TypeOK, TaskRow
    <3>3. task[t].updated <= Window + 1 + held[t] => task[t].updated <= 0 + Window + 1 + held[t]
      BY <3>2
    <3>4. \A s \in Tasks : Tracked(s)' <=> Tracked(s)
      BY <1>2 DEF Tracked
    <3> QED BY <1>2, <1>4, <3>1, <3>3, <3>4 DEF PaceInv, Paced
  <2> QED BY <2>1, <2>2
<1> QED BY <1>1, <1>2, <1>3, <1>4, <1>6, <1>7, PaceInvHandled

LEMMA PaceInvStep == ASSUME TypeOK, SweepInv, NudgeInv, PaceInv, [Next]_vars PROVE PaceInv'
<1>1. CASE Tick
  BY <1>1, PaceInvTick
<1>2. ASSUME NEW a \in Agents, Heartbeat(a) PROVE PaceInv'
  <2> DEFINE ts == {t \in Tasks : task[t].agent = a /\ task[t].state = "in_progress"}
  <2>1. ts \in SUBSET Tasks /\ Updated(ts) /\ UNCHANGED <<told, reminded, sweep, turn>>
    BY <1>2 DEF Heartbeat
  <2>2. task' = [t \in Tasks |-> IF t \in ts THEN [task[t] EXCEPT !.updated = 0] ELSE task[t]]
    BY <1>2 DEF Heartbeat
  <2>3. \A t \in ts : task'[t].updated = 0
    <3>1. \A t \in ts : [task[t] EXCEPT !.updated = 0].updated = 0
      BY DEF TypeOK, TaskRow
    <3> HIDE DEF ts
    <3> QED BY <2>1, <2>2, <3>1
  <2>4. \A t \in Tasks \ ts : task'[t] = task[t]
    <3> HIDE DEF ts
    <3> QED BY <2>2
  <2> HIDE DEF ts
  <2> QED BY <2>1, <2>3, <2>4, PaceInvUpdated
<1>3. ASSUME NEW t \in Tasks, Moves(t) PROVE PaceInv'
  <2>1. task'[t].updated = 0 /\ \A s \in Tasks \ {t} : task'[s] = task[s]
    BY <1>3 DEF Moves, TypeOK
  <2> QED BY <2>1, <1>3, PaceInvUpdated DEF Moves
<1>4. ASSUME NEW w \in Sweepers, SelectDue(w) PROVE PaceInv'
  BY <1>4, PaceInvSelect
<1>5. ASSUME NEW w \in Sweepers, SweepEnds(w) \/ SweepStops(w) PROVE PaceInv'
  BY <1>5, PaceInvOver
<1>6. ASSUME NEW w \in Sweepers, NEW a \in Agents, PostNudge(w, a) \/ PostEscalation(w, a) PROVE PaceInv'
  BY <1>6, PaceInvPosts DEF PostNudge, PostEscalation, Posted
<1>7. ASSUME NEW w \in Sweepers, NEW t \in Tasks, QueueNudge(w, t) PROVE PaceInv'
  <2>1. About(w, t, "nudge", sweep[w].seen[t], Owner(w, t))
    BY <1>7, OwnersAreAgents, QueueIsAbout DEF TypeOK, QueueNudge, Items
  <2> QED BY <2>1, <1>7, PaceInvQueues DEF QueueNudge, Queue, Items
<1>8. ASSUME NEW w \in Sweepers, NEW t \in Tasks, QueueEscalation(w, t) PROVE PaceInv'
  <2>1. PICK to \in Targets(w, t) : Queue(w, t, IF to = {} THEN "escalatePosted" ELSE "escalate", to)
    BY <1>8 DEF QueueEscalation
  <2>2. to \subseteq Agents
    BY OwnersAreAgents DEF TypeOK
  <2>3. About(w, t, IF to = {} THEN "escalatePosted" ELSE "escalate", sweep[w].seen[t], to)
    BY <2>1, <2>2, QueueIsAbout DEF TypeOK, Items
  <2> QED BY <2>1, <2>3, <1>8, PaceInvQueues DEF QueueEscalation, Queue, Items
<1>9. ASSUME NEW w \in Sweepers, NEW t \in Tasks, SkipTask(w, t) PROVE PaceInv'
  BY <1>9, PaceInvSkips
<1>10. ASSUME NEW w \in Sweepers, NEW t \in Tasks, RecordNudge(w, t) \/ RecordEscalation(w, t)
       PROVE  PaceInv'
  BY <1>10, PaceInvRecords
<1>11. CASE UNCHANGED vars
  BY <1>11 DEF vars, PaceInv, Paced, CoolingTrue, SeenStands, NoneLeft, Due, Quieted, Tracked
<1> QED BY <1>1, <1>2, <1>3, <1>4, <1>5, <1>6, <1>7, <1>8, <1>9, <1>10, <1>11 DEF Next, SweepStep

(***************************************************************************)
(* A task that stands still is escalated after two windows and as many     *)
(* ticks as its messages were held back, whatever else the company's tasks *)
(* and sweeps do; one given up as abandoned was held back too long.        *)
(***************************************************************************)
THEOREM StallsAreEscalated == Spec => []StallsEscalate
<1>1. ASSUME TypeOK, Paced PROVE StallsEscalate
  <2> SUFFICES ASSUME NEW t \in Tasks, Tracked(t), t \notin escalated
               PROVE  task[t].updated <= Patience + held[t] \/ Horizon < Patience + held[t]
    BY DEF StallsEscalate
  <2>1. held[t] \in Nat /\ Window \in Nat /\ task[t].updated \in Nat
    BY <1>1, StallAssumption DEF TypeOK, TaskRow
  <2>2. \A n \in nudged[t] : n \in 0..Window + 1
    BY <1>1 DEF TypeOK, Optional
  <2> QED BY <1>1, <2>1, <2>2 DEF Paced, Patience
<1>2. Spec => []NudgeInv
  BY StallTypeCorrect, SweepInvAlways, NudgeInvInit, NudgeInvStep, PTL DEF Spec
<1>3. Spec => []PaceInv
  BY <1>2, StallTypeCorrect, SweepInvAlways, PaceInvInit, PaceInvStep, PTL DEF Spec
<1>4. PaceInv => Paced
  BY DEF PaceInv
<1> QED BY <1>1, <1>3, <1>4, StallTypeCorrect, PTL
=============================================================================
