-------------------------- MODULE TaskWake_proofs ---------------------------
(***************************************************************************)
(* Proofs about the wake queue, for any number of tasks, assignment        *)
(* handlers, servers and assignments, and any mix of troubles.             *)
(***************************************************************************)
EXTENDS TaskWake, FiniteSetTheorems, TLAPS

Handlers == Callers \cup Monitors

(***************************************************************************)
(* Who is on which errand: a handler between its read and its write holds  *)
(* the lock; an assignment is about a task, a monitor about none.          *)
(***************************************************************************)
Locked == \A h \in Handlers : handler[h].step = "write" => wakeLock = h

Errands ==
    /\ \A c \in Callers : handler[c].step \in {"lock", "write"} => handler[c].on \in Tasks
    /\ \A m \in Monitors : handler[m].on = None

Basics == TypeOK /\ Locked /\ Errands

LEMMA NoHandlerType == NoHandler \in Handler /\ NoWake \in AgentWake
BY DEF NoHandler, Handler, NoWake, AgentWake

LEMMA BasicsInit == ASSUME Init PROVE Basics
<1>1. TypeOK
  BY TaskWakeAssumption, NoHandlerType DEF Init, TypeOK
<1>2. Locked /\ Errands
  BY DEF Init, Locked, Errands, NoHandler, Handlers
<1> QED BY <1>1, <1>2 DEF Basics

\* A step of one handler, whose new state is given.
LEMMA OneHandlerMoves ==
    ASSUME Basics, NEW h \in Handlers, NEW new \in Handler, handler' = [handler EXCEPT ![h] = new],
           mine' \subseteq Tasks, owed' \subseteq mine', agentWake' \in AgentWake,
           wakeLock' \in Handlers \cup {None},
           assigned' \in [Tasks -> 0..MaxAssigned], told' \in [Tasks -> Nat], UNCHANGED trouble,
           new.step = "write" => wakeLock' = h,
           \A g \in Handlers : g # h /\ wakeLock = g => wakeLock' = g,
           h \in Callers /\ new.step \in {"lock", "write"} => new.on \in Tasks,
           h \in Monitors => new.on = None
    PROVE  Basics'
<1>1. handler \in [Handlers -> Handler]
  BY DEF Basics, TypeOK, Handlers
<1>2. handler'[h] = new /\ \A g \in Handlers : g # h => handler'[g] = handler[g]
  BY <1>1
<1>3. TypeOK'
  <2>1. handler' \in [Handlers -> Handler]
    BY <1>1
  <2> QED BY <2>1 DEF Basics, TypeOK, Handlers
<1>4. Locked' /\ Errands'
  BY <1>2 DEF Basics, Locked, Errands, Handlers
<1> QED BY <1>3, <1>4 DEF Basics

LEMMA BasicsStep == ASSUME Basics, [Next]_vars PROVE Basics'
<1>1. /\ handler \in [Handlers -> Handler] /\ agentWake \in AgentWake
      /\ mine \subseteq Tasks /\ owed \subseteq mine /\ wakeLock \in Handlers \cup {None}
      /\ assigned \in [Tasks -> 0..MaxAssigned] /\ told \in [Tasks -> Nat]
      /\ \A h \in Handlers : handler[h] \in Handler /\ handler[h].read \in AgentWake
                              /\ handler[h].batch \subseteq Tasks
                              /\ handler[h].read.pending \subseteq Tasks
  BY DEF Basics, TypeOK, Handlers, Handler, AgentWake
<1>2. None \notin Handlers
  BY TaskWakeAssumption DEF Handlers
<1>3. ASSUME NEW c \in Callers, NEW t \in Tasks, Assign(c, t) PROVE Basics'
  <2> DEFINE new == [NoHandler EXCEPT !.step = "lock", !.on = t]
  <2>1. new \in Handler /\ new.step = "lock" /\ new.on = t
    BY NoHandlerType DEF Handler, NoHandler
  <2>2. assigned' \in [Tasks -> 0..MaxAssigned]
    <3>1. assigned[t] + 1 \in 0..MaxAssigned
      BY <1>1, <1>3, TaskWakeAssumption DEF Assign
    <3> QED BY <1>1, <1>3, <3>1 DEF Assign
  <2>3. /\ handler' = [handler EXCEPT ![c] = new] /\ mine' \subseteq Tasks /\ owed' \subseteq mine'
        /\ UNCHANGED <<agentWake, wakeLock, told, trouble>>
    BY <1>1, <1>3 DEF Assign
  <2>4. c \notin Monitors
    BY TaskWakeAssumption
  <2> HIDE DEF new
  <2> QED BY <1>1, <2>1, <2>2, <2>3, <2>4, OneHandlerMoves DEF Handlers
<1>4. ASSUME NEW t \in Tasks, MovesOn(t) PROVE Basics'
  BY <1>4 DEF MovesOn, Basics, TypeOK, Locked, Errands
<1>5. ASSUME NEW m \in Monitors, Tick(m) PROVE Basics'
  <2> DEFINE new == [NoHandler EXCEPT !.step = "lock"]
  <2>1. new \in Handler /\ new.step = "lock" /\ new.on = None
    BY NoHandlerType DEF Handler, NoHandler
  <2>2. /\ handler' = [handler EXCEPT ![m] = new]
        /\ UNCHANGED <<mine, agentWake, wakeLock, assigned, told, owed, trouble>>
    BY <1>5 DEF Tick
  <2>3. m \notin Callers
    BY TaskWakeAssumption
  <2> HIDE DEF new
  <2> QED BY <1>1, <2>1, <2>2, <2>3, OneHandlerMoves DEF Handlers
<1>6. ASSUME NEW h \in Handlers, LockAndRead(h) PROVE Basics'
  <2> DEFINE new == [handler[h] EXCEPT !.step = "write", !.read = Readable(agentWake)]
  <2>1. Readable(agentWake) \in AgentWake
    BY <1>1, NoHandlerType DEF Readable
  <2>2. new \in Handler /\ handler' = [handler EXCEPT ![h] = new] /\ new.step = "write"
        /\ new.on = handler[h].on
    BY <1>1, <1>6, <2>1 DEF LockAndRead, Handler
  <2>3. wakeLock = None /\ wakeLock' = h /\ handler[h].step = "lock"
        /\ UNCHANGED <<mine, agentWake, assigned, told, owed, trouble>>
    BY <1>6 DEF LockAndRead, WakeLockFree
  <2> HIDE DEF new
  <2> QED BY <1>1, <1>2, <2>2, <2>3, OneHandlerMoves DEF Basics, Errands
<1>7. ASSUME NEW c \in Callers, Queue(c) PROVE Basics'
  <2>1. handler[c].on \in Tasks /\ wakeLock = c /\ wakeLock' = None
    BY <1>7 DEF Queue, Basics, Errands, Locked, Handlers
  <2>2. agentWake' \in AgentWake
    BY <1>1, <1>7, <2>1 DEF Queue, WithThisTask, AgentWake, Handlers
  <2>3. handler' = [handler EXCEPT ![c] = NoHandler]
        /\ UNCHANGED <<mine, assigned, told, owed, trouble>>
    BY <1>7 DEF Queue, Ends
  <2> QED BY <1>1, <2>1, <2>2, <2>3, NoHandlerType, OneHandlerMoves DEF NoHandler, Handlers
<1>8. ASSUME NEW c \in Callers, Flush(c) PROVE Basics'
  <2> DEFINE new == [NoHandler EXCEPT !.step = "filter", !.batch = WithThisTask(c)]
  <2>1. handler[c].on \in Tasks /\ wakeLock = c /\ wakeLock' = None
    BY <1>8 DEF Flush, Basics, Errands, Locked, Handlers
  <2>2. agentWake' \in AgentWake
    BY <1>8 DEF Flush, AgentWake
  <2>3. WithThisTask(c) \subseteq Tasks
    BY <1>1, <2>1 DEF WithThisTask, Handlers
  <2>4. new \in Handler /\ new.step = "filter" /\ new.on = None
    BY <2>3, NoHandlerType DEF Handler, NoHandler
  <2>5. handler' = [handler EXCEPT ![c] = new] /\ UNCHANGED <<mine, assigned, told, owed, trouble>>
    BY <1>8 DEF Flush
  <2> HIDE DEF new
  <2> QED BY <1>1, <2>1, <2>2, <2>4, <2>5, OneHandlerMoves DEF Handlers
<1>9. ASSUME NEW c \in Callers, FilterStillOpen(c) PROVE Basics'
  <2> DEFINE live == StillOpen(handler[c].batch)
             new == IF live = {} THEN NoHandler
                    ELSE [handler[c] EXCEPT !.step = "post", !.batch = live]
  <2>1. live \subseteq Tasks
    BY <1>1 DEF StillOpen
  <2>2. new \in Handler /\ new.step \in {"idle", "post"}
    BY <1>1, <2>1, NoHandlerType DEF Handler, Handlers, NoHandler
  <2>3. /\ handler' = [handler EXCEPT ![c] = new]
        /\ UNCHANGED <<mine, agentWake, wakeLock, assigned, told, owed, trouble>>
    BY <1>9 DEF FilterStillOpen
  <2>4. c \notin Monitors
    BY TaskWakeAssumption
  <2> HIDE DEF new
  <2> QED BY <1>1, <2>2, <2>3, <2>4, OneHandlerMoves DEF Handlers
<1>10. ASSUME NEW m \in Monitors, FlushPending(m) PROVE Basics'
  <2> DEFINE live == StillOpen(handler[m].read.pending)
             new == IF live = {} THEN NoHandler
                    ELSE [NoHandler EXCEPT !.step = "post", !.batch = live]
  <2>1. live \subseteq Tasks
    BY <1>1 DEF StillOpen
  <2>2. new \in Handler /\ new.step \in {"idle", "post"} /\ new.on = None
    BY <2>1, NoHandlerType DEF Handler, NoHandler
  <2>3. /\ handler' = [handler EXCEPT ![m] = new] /\ wakeLock' = None
        /\ agentWake' \in AgentWake
        /\ UNCHANGED <<mine, assigned, told, owed, trouble>>
    BY <1>10 DEF FlushPending, AgentWake
  <2>4. wakeLock = m
    BY <1>10 DEF FlushPending, Basics, Locked, Handlers
  <2> HIDE DEF new
  <2> QED BY <1>1, <2>2, <2>3, <2>4, OneHandlerMoves DEF Handlers
<1>11. ASSUME NEW m \in Monitors, NothingToFlush(m) PROVE Basics'
  <2>1. wakeLock = m
    BY <1>11 DEF NothingToFlush, Basics, Locked, Handlers
  <2> QED BY <1>1, <1>11, <2>1, NoHandlerType, OneHandlerMoves
          DEF NothingToFlush, Ends, NoHandler, Handlers
<1>12. ASSUME NEW h \in Handlers, PostWakeMessage(h) PROVE Basics'
  <2>1. told' \in [Tasks -> Nat]
    BY <1>1, <1>12 DEF PostWakeMessage
  <2> QED BY <1>1, <1>12, <2>1, NoHandlerType, OneHandlerMoves
          DEF PostWakeMessage, Ends, NoHandler
<1>13. ASSUME NEW h \in Handlers, PostFails(h) PROVE Basics'
  <2> DEFINE new == [handler[h] EXCEPT !.step = "requeue"]
  <2>1. new \in Handler /\ new.step = "requeue" /\ new.on = handler[h].on
    BY <1>1 DEF Handler
  <2>2. /\ handler' = [handler EXCEPT ![h] = new]
        /\ UNCHANGED <<mine, agentWake, wakeLock, assigned, told, owed, trouble>>
    BY <1>1, <1>13 DEF PostFails, Goes
  <2> HIDE DEF new
  <2> QED BY <1>1, <2>1, <2>2, OneHandlerMoves DEF Basics, Errands
<1>14. ASSUME NEW h \in Handlers, RequeueAgentWakes(h) PROVE Basics'
  <2>1. agentWake' \in AgentWake
    BY <1>1, <1>14 DEF RequeueAgentWakes, AgentWake
  <2> QED BY <1>1, <1>14, <2>1, NoHandlerType, OneHandlerMoves
          DEF RequeueAgentWakes, Ends, NoHandler
<1>15. ASSUME NEW h \in Handlers, HandlerStops(h) PROVE Basics'
  BY <1>1, <1>15, NoHandlerType, OneHandlerMoves DEF HandlerStops, Ends, NoHandler
<1>16. ASSUME WindowPasses PROVE Basics'
  <2>1. agentWake' \in AgentWake
    BY <1>1, <1>16 DEF WindowPasses, AgentWake
  <2>2. ASSUME NEW h \in Handlers
        PROVE  /\ handler'[h] \in Handler
               /\ handler'[h].step = handler[h].step /\ handler'[h].on = handler[h].on
    <3>1. handler'[h] = handler[h]
            \/ \E last \in {"none", "recent", "old"} :
                 handler'[h] = [handler[h] EXCEPT !.early = TRUE, !.read.last = last]
      BY <1>1, <1>16 DEF WindowPasses, AgentWake
    <3>2. ASSUME NEW last \in {"none", "recent", "old"}
          PROVE  [handler[h] EXCEPT !.early = TRUE, !.read.last = last] \in Handler
      BY <1>1 DEF Handler, AgentWake
    <3> QED BY <1>1, <3>1, <3>2 DEF Handler
  <2>3. handler' \in [Handlers -> Handler]
    BY <1>1, <1>16, <2>2 DEF WindowPasses
  <2>4. UNCHANGED <<mine, wakeLock, assigned, told, owed, trouble>>
    BY <1>16 DEF WindowPasses
  <2>5. TypeOK'
    BY <2>1, <2>3, <2>4 DEF Basics, TypeOK, Handlers
  <2>6. Locked' /\ Errands'
    BY <2>2, <2>4 DEF Basics, Locked, Errands, Handlers
  <2> QED BY <2>5, <2>6 DEF Basics
<1>17. CASE UNCHANGED vars
  BY <1>17 DEF vars, Basics, TypeOK, Locked, Errands
<1> QED
  BY <1>3, <1>4, <1>5, <1>6, <1>7, <1>8, <1>9, <1>10, <1>11, <1>12, <1>13, <1>14, <1>15, <1>16, <1>17
     DEF Next, AfterLock, Handlers

(***************************************************************************)
(* Type correctness of the wake queue.                                     *)
(***************************************************************************)
THEOREM WakeTypeCorrect == Spec => []TypeOK
<1>1. Init => Basics BY BasicsInit
<1>2. Basics /\ [Next]_vars => Basics' BY BasicsStep
<1>3. Basics => TypeOK BY DEF Basics
<1> QED BY <1>1, <1>2, <1>3, PTL DEF Spec
-----------------------------------------------------------------------------
(***************************************************************************)
(* Nothing is lost while nothing fails.  Then nobody writes the queue but  *)
(* the holder of the lock, so what it read is still what is queued when it *)
(* writes, and an entry without a lastWakeAt, which a reader takes for an  *)
(* empty one, is empty.                                                    *)
(***************************************************************************)
Calm ==
    /\ agentWake.last = "none" => agentWake.pending = {}
    /\ \A h \in Handlers : handler[h].step # "requeue"
    /\ \A h \in Handlers : handler[h].step = "write" =>
           handler[h].read.pending = agentWake.pending
    /\ \A t \in owed : t \in agentWake.pending \/ \E h \in Handlers : Carries(h, t)

KeptInv == Basics /\ (trouble = {} => Calm)

LEMMA KeptInit == ASSUME Init PROVE KeptInv
<1>1. Calm
  BY DEF Init, Calm, NoHandler, NoWake, Handlers
<1> QED BY <1>1, BasicsInit DEF KeptInv

\* A step of one handler that puts down no task without queueing or announcing it.
LEMMA CalmMoves ==
    ASSUME Basics, Calm, NEW h \in Handlers, NEW new, handler' = [handler EXCEPT ![h] = new],
           agentWake'.last = "none" => agentWake'.pending = {},
           new.step # "requeue",
           new.step = "write" => new.read.pending = agentWake'.pending,
           agentWake'.pending = agentWake.pending \/ wakeLock = h,
           \A t \in owed' : t \notin owed \/ t \in agentWake.pending \/ Carries(h, t) =>
                                t \in agentWake'.pending \/ Carries(h, t)'
    PROVE  Calm'
<1>1. handler'[h] = new /\ \A g \in Handlers : g # h => handler'[g] = handler[g]
  BY DEF Basics, TypeOK, Handlers
<1>2. \A g \in Handlers : handler'[g].step # "requeue"
  BY <1>1 DEF Calm
<1>3. ASSUME NEW g \in Handlers, handler'[g].step = "write"
      PROVE  handler'[g].read.pending = agentWake'.pending
  <2>1. CASE g = h
    BY <1>1, <1>3, <2>1
  <2>2. CASE g # h
    <3>1. wakeLock = g
      BY <1>1, <1>3, <2>2 DEF Basics, Locked
    <3> QED BY <1>1, <1>3, <2>2, <3>1 DEF Calm
  <2> QED BY <2>1, <2>2
<1>4. ASSUME NEW t \in owed'
      PROVE  t \in agentWake'.pending \/ \E g \in Handlers : Carries(g, t)'
  <2>1. \A g \in Handlers : g # h => (Carries(g, t)' <=> Carries(g, t))
    BY <1>1 DEF Carries
  <2>2. CASE t \in owed /\ \E g \in Handlers : g # h /\ Carries(g, t)
    BY <2>1, <2>2
  <2>3. CASE t \notin owed \/ t \in agentWake.pending \/ Carries(h, t)
    BY <2>3
  <2> QED BY <2>2, <2>3 DEF Calm
<1> QED BY <1>2, <1>3, <1>4 DEF Calm

\* The passing of time leaves what handlers carry.
LEMMA WindowKeepsErrands ==
    ASSUME Basics, WindowPasses, NEW h \in Handlers
    PROVE  /\ handler'[h].step = handler[h].step /\ handler'[h].on = handler[h].on
           /\ handler'[h].batch = handler[h].batch
           /\ handler'[h].read.pending = handler[h].read.pending
<1>1. handler[h] \in Handler /\ handler[h].read \in AgentWake
  BY DEF Basics, TypeOK, Handlers, Handler
<1>2. handler'[h] = handler[h]
        \/ \E last : handler'[h] = [handler[h] EXCEPT !.early = TRUE, !.read.last = last]
  BY DEF WindowPasses, Basics, TypeOK, Handlers
<1>3. ASSUME NEW last, handler'[h] = [handler[h] EXCEPT !.early = TRUE, !.read.last = last]
      PROVE  /\ handler'[h].step = handler[h].step /\ handler'[h].on = handler[h].on
             /\ handler'[h].batch = handler[h].batch
             /\ handler'[h].read.pending = handler[h].read.pending
  BY <1>1, <1>3 DEF Handler, AgentWake
<1> QED BY <1>2, <1>3

LEMMA CalmStep == ASSUME Basics, Calm, trouble = {}, [Next]_vars PROVE Calm'
<1>1. /\ handler \in [Handlers -> Handler] /\ agentWake \in AgentWake
      /\ owed \subseteq mine /\ mine \subseteq Tasks
      /\ \A h \in Handlers : handler[h] \in Handler
  BY DEF Basics, TypeOK, Handlers
<1>2. None \notin Tasks /\ NoHandler.step = "idle" /\ NoHandler.on = None
  BY TaskWakeAssumption DEF NoHandler
<1>3. ASSUME NEW c \in Callers, NEW t \in Tasks, Assign(c, t) PROVE Calm'
  <2> DEFINE new == [NoHandler EXCEPT !.step = "lock", !.on = t]
  <2>1. new.step = "lock" /\ new.on = t
    BY DEF NoHandler
  <2>2. /\ handler' = [handler EXCEPT ![c] = new] /\ owed' = owed \cup {t}
        /\ UNCHANGED agentWake /\ handler[c].step = "idle"
    BY <1>3 DEF Assign
  <2>3. Carries(c, t)' /\ \A u : ~Carries(c, u)
    <3> HIDE DEF new
    <3> QED BY <1>1, <2>1, <2>2 DEF Carries, Handlers
  <2> HIDE DEF new
  <2> QED BY <2>1, <2>2, <2>3, CalmMoves DEF Handlers, Calm
<1>4. ASSUME NEW t \in Tasks, MovesOn(t) PROVE Calm'
  BY <1>4 DEF MovesOn, Calm, Carries
<1>5. ASSUME NEW m \in Monitors, Tick(m) PROVE Calm'
  <2> DEFINE new == [NoHandler EXCEPT !.step = "lock"]
  <2>1. new.step = "lock"
    BY DEF NoHandler
  <2>2. /\ handler' = [handler EXCEPT ![m] = new] /\ handler[m].step = "idle"
        /\ UNCHANGED <<agentWake, owed>>
    BY <1>5 DEF Tick
  <2>3. \A u : ~Carries(m, u)
    BY <2>2 DEF Carries
  <2> HIDE DEF new
  <2> QED BY <2>1, <2>2, <2>3, CalmMoves DEF Handlers, Calm
<1>6. ASSUME NEW h \in Handlers, LockAndRead(h) PROVE Calm'
  <2> DEFINE new == [handler[h] EXCEPT !.step = "write", !.read = Readable(agentWake)]
  <2>1. /\ new.step = "write" /\ new.on = handler[h].on /\ new.read = Readable(agentWake)
        /\ handler' = [handler EXCEPT ![h] = new] /\ handler[h].step = "lock"
        /\ UNCHANGED <<agentWake, owed>>
    BY <1>1, <1>6 DEF LockAndRead, Handler
  <2>2. Readable(agentWake).pending = agentWake.pending
    BY DEF Readable, NoWake, Calm
  <2>3. \A u : Carries(h, u) => Carries(h, u)'
    <3> HIDE DEF new
    <3> QED BY <1>1, <2>1 DEF Carries
  <2> HIDE DEF new
  <2> QED BY <2>1, <2>2, <2>3, CalmMoves DEF Calm
<1>7. ASSUME NEW c \in Callers, Queue(c) PROVE Calm'
  <2>1. /\ wakeLock = c /\ handler[c].read.pending = agentWake.pending
        /\ handler[c].step = "write"
    BY <1>7 DEF Queue, Basics, Locked, Calm, Handlers
  <2>2. /\ agentWake'.last = handler[c].read.last /\ agentWake'.last # "none"
        /\ agentWake'.pending = handler[c].read.pending \cup {handler[c].on}
        /\ handler' = [handler EXCEPT ![c] = NoHandler] /\ owed' = owed
    BY <1>7 DEF Queue, WithThisTask, InWindow, Ends
  <2>3. \A u : Carries(c, u) => u = handler[c].on
    BY <2>1 DEF Carries
  <2> QED BY <1>1, <1>2, <2>1, <2>2, <2>3, CalmMoves DEF Handlers, Calm
<1>8. ASSUME NEW c \in Callers, Flush(c) PROVE Calm'
  <2> DEFINE new == [NoHandler EXCEPT !.step = "filter", !.batch = WithThisTask(c)]
  <2>1. /\ wakeLock = c /\ handler[c].read.pending = agentWake.pending
        /\ handler[c].step = "write"
    BY <1>8 DEF Flush, Basics, Locked, Calm, Handlers
  <2>2. /\ agentWake'.last = "recent" /\ owed' = owed
        /\ handler' = [handler EXCEPT ![c] = new]
        /\ new.step = "filter" /\ new.batch = handler[c].read.pending \cup {handler[c].on}
    BY <1>8 DEF Flush, WithThisTask, NoHandler
  <2>3. \A u : Carries(c, u) => u = handler[c].on
    BY <2>1 DEF Carries
  <2> HIDE DEF new
  <2>4. handler'[c] = new
    BY <1>1, <2>2 DEF Handlers
  <2>5. \A u : u \in agentWake.pending \/ Carries(c, u) => Carries(c, u)'
    BY <2>1, <2>2, <2>3, <2>4 DEF Carries
  <2> QED BY <2>1, <2>2, <2>5, CalmMoves DEF Handlers
<1>9. ASSUME NEW c \in Callers, FilterStillOpen(c) PROVE Calm'
  <2> DEFINE live == StillOpen(handler[c].batch)
             new == IF live = {} THEN NoHandler
                    ELSE [handler[c] EXCEPT !.step = "post", !.batch = live]
  <2>1. /\ handler' = [handler EXCEPT ![c] = new] /\ handler[c].step = "filter"
        /\ UNCHANGED <<agentWake, owed, mine>>
    BY <1>9 DEF FilterStillOpen
  <2>2. /\ new.step \in {"idle", "post"}
        /\ live # {} => new.step = "post" /\ new.batch = live
    BY <1>1, <1>2 DEF Handler, Handlers
  <2>3. live = handler[c].batch \cap mine
    BY DEF StillOpen
  <2> HIDE DEF new, live
  <2>4. handler'[c] = new
    BY <1>1, <2>1 DEF Handlers
  <2>5. \A u \in owed : Carries(c, u) => Carries(c, u)'
    BY <1>1, <2>1, <2>2, <2>3, <2>4 DEF Carries
  <2> QED BY <2>1, <2>2, <2>5, CalmMoves DEF Handlers, Calm
<1>10. ASSUME NEW m \in Monitors, FlushPending(m) PROVE Calm'
  <2> DEFINE live == StillOpen(handler[m].read.pending)
             new == IF live = {} THEN NoHandler
                    ELSE [NoHandler EXCEPT !.step = "post", !.batch = live]
  <2>1. /\ wakeLock = m /\ handler[m].read.pending = agentWake.pending
        /\ handler[m].step = "write" /\ handler[m].on = None
    BY <1>10 DEF FlushPending, Basics, Locked, Errands, Calm, Handlers
  <2>2. /\ handler' = [handler EXCEPT ![m] = new] /\ agentWake'.last = "recent"
        /\ UNCHANGED <<owed, mine>>
    BY <1>10 DEF FlushPending
  <2>3. /\ new.step \in {"idle", "post"}
        /\ live # {} => new.step = "post" /\ new.batch = live
    BY <1>2 DEF NoHandler
  <2>4. live = handler[m].read.pending \cap mine
    BY DEF StillOpen
  <2> HIDE DEF new, live
  <2>5. handler'[m] = new
    BY <1>1, <2>2 DEF Handlers
  <2>6. \A u \in owed : u \in agentWake.pending \/ Carries(m, u) => Carries(m, u)'
    BY <1>1, <1>2, <2>1, <2>2, <2>3, <2>4, <2>5 DEF Carries
  <2> QED BY <2>1, <2>2, <2>3, <2>6, CalmMoves DEF Handlers
<1>11. ASSUME NEW m \in Monitors, NothingToFlush(m) PROVE Calm'
  <2>1. /\ handler[m].step = "write" /\ handler[m].on = None
        /\ handler' = [handler EXCEPT ![m] = NoHandler] /\ UNCHANGED <<agentWake, owed>>
    BY <1>11 DEF NothingToFlush, Ends, Basics, Errands
  <2>2. \A u \in owed : ~Carries(m, u)
    BY <1>1, <1>2, <2>1 DEF Carries
  <2> QED BY <1>2, <2>1, <2>2, CalmMoves DEF Handlers, Calm
<1>12. ASSUME NEW h \in Handlers, PostWakeMessage(h) PROVE Calm'
  <2>1. /\ handler[h].step = "post" /\ owed' = owed \ handler[h].batch
        /\ handler' = [handler EXCEPT ![h] = NoHandler] /\ UNCHANGED agentWake
    BY <1>12 DEF PostWakeMessage, Ends
  <2>2. \A u \in owed' : u \in owed /\ ~Carries(h, u)
    BY <2>1 DEF Carries
  <2> QED BY <1>2, <2>1, <2>2, CalmMoves DEF Calm
<1>13. ASSUME NEW h \in Handlers, PostFails(h) \/ HandlerStops(h) \/ RequeueAgentWakes(h)
       PROVE  Calm'
  BY <1>13 DEF PostFails, HandlerStops, RequeueAgentWakes, Calm
<1>14. ASSUME WindowPasses PROVE Calm'
  <2>1. /\ agentWake'.pending = agentWake.pending /\ owed' = owed
        /\ agentWake'.last = "none" => agentWake.last = "none"
    BY <1>1, <1>14 DEF WindowPasses, AgentWake
  <2>2. \A h \in Handlers : \A t : Carries(h, t)' <=> Carries(h, t)
    BY <1>14, WindowKeepsErrands DEF Carries
  <2> QED BY <1>14, <2>1, <2>2, WindowKeepsErrands DEF Calm
<1>15. CASE UNCHANGED vars
  BY <1>15 DEF vars, Calm, Carries
<1> QED
  BY <1>3, <1>4, <1>5, <1>6, <1>7, <1>8, <1>9, <1>10, <1>11, <1>12, <1>13, <1>14, <1>15
     DEF Next, AfterLock, Handlers

LEMMA KeptStep == ASSUME KeptInv, [Next]_vars PROVE KeptInv'
<1>1. trouble' = trouble
  BY DEF vars, Next, AfterLock, Assign, MovesOn, Tick, LockAndRead, Queue, Flush, FilterStillOpen,
         FlushPending, NothingToFlush, PostWakeMessage, PostFails, RequeueAgentWakes, HandlerStops,
         WindowPasses
<1> QED BY <1>1, BasicsStep, CalmStep DEF KeptInv

(***************************************************************************)
(* While no post fails and no handler stops half way, a task the agent was *)
(* not told of yet is queued where the next reader sees it, or carried by  *)
(* a handler that will post it.                                            *)
(***************************************************************************)
THEOREM WakesAreKept == Spec => []KeptUnlessTrouble
<1>1. Init => KeptInv BY KeptInit
<1>2. KeptInv /\ [Next]_vars => KeptInv' BY KeptStep
<1>3. KeptInv => KeptUnlessTrouble
  <2> SUFFICES ASSUME Basics, Calm PROVE WakesKept
    BY DEF KeptInv, KeptUnlessTrouble
  <2>1. DOMAIN handler = Handlers
    BY DEF Basics, TypeOK, Handlers
  <2>2. Readable(agentWake).pending = agentWake.pending
    BY DEF Readable, NoWake, Calm
  <2> QED BY <2>1, <2>2 DEF Calm, WakesKept
<1> QED BY <1>1, <1>2, <1>3, PTL DEF Spec
-----------------------------------------------------------------------------
(***************************************************************************)
(* One announcement per assignment, troubles or not.  Each assignment is   *)
(* one announcement to come, wherever it is: with a handler carrying the   *)
(* task, or on the queue and in the copy the holder of the lock read of    *)
(* it, which count once because they end up in one entry or one message.   *)
(***************************************************************************)
Carriers(t) == {h \in Handlers : Carries(h, t)}

Queued(t) ==
    \/ t \in agentWake.pending
    \/ \E h \in Handlers : handler[h].step = "write" /\ t \in handler[h].read.pending

One(yes) == IF yes THEN 1 ELSE 0

Announced == \A t \in Tasks :
    /\ IsFiniteSet(Carriers(t))
    /\ told[t] + Cardinality(Carriers(t)) + One(Queued(t)) <= assigned[t]

ToldInv == Basics /\ Announced

\* How many carry a task changes with the one handler that moves.
LEMMA OneMoreOrLess ==
    ASSUME NEW S, IsFiniteSet(S), NEW T, NEW h, \A x : x # h => (x \in T <=> x \in S)
    PROVE  /\ IsFiniteSet(T)
           /\ Cardinality(S) \in Nat
           /\ Cardinality(T) + One(h \in S) = Cardinality(S) + One(h \in T)
<1>1. Cardinality(S) \in Nat
  BY FS_CardinalityType
<1>2. CASE h \in S <=> h \in T
  <2>1. T = S
    BY <1>2
  <2> QED BY <1>1, <2>1 DEF One
<1>3. CASE h \in S /\ h \notin T
  <2>1. T = S \ {h}
    BY <1>3
  <2> QED BY <1>1, <1>3, <2>1, FS_RemoveElement DEF One
<1>4. CASE h \notin S /\ h \in T
  <2>1. T = S \cup {h}
    BY <1>4
  <2> QED BY <1>1, <1>4, <2>1, FS_AddElement DEF One
<1> QED BY <1>2, <1>3, <1>4

\* A step of one handler that spends, of each task, no more than it finds.
LEMMA ToldMoves ==
    ASSUME ToldInv, Basics', NEW h \in Handlers, NEW new, handler' = [handler EXCEPT ![h] = new],
           \A t \in Tasks : told'[t] + One(Carries(h, t)') + One(Queued(t)') + assigned[t]
                              <= told[t] + One(Carries(h, t)) + One(Queued(t)) + assigned'[t]
    PROVE  Announced'
<1>1. \A g \in Handlers : g # h => handler'[g] = handler[g]
  BY DEF ToldInv, Basics, TypeOK, Handlers
<1>2. SUFFICES ASSUME NEW t \in Tasks
               PROVE  /\ IsFiniteSet(Carriers(t)')
                      /\ told'[t] + Cardinality(Carriers(t)') + One(Queued(t)') <= assigned'[t]
  BY DEF Announced
<1>3. \A x : x # h => (x \in Carriers(t)' <=> x \in Carriers(t))
  BY <1>1 DEF Carriers, Carries
<1>4. /\ IsFiniteSet(Carriers(t))
      /\ told[t] + Cardinality(Carriers(t)) + One(Queued(t)) <= assigned[t]
  BY DEF ToldInv, Announced
<1>5. /\ IsFiniteSet(Carriers(t)') /\ Cardinality(Carriers(t)) \in Nat
      /\ Cardinality(Carriers(t)') + One(h \in Carriers(t))
           = Cardinality(Carriers(t)) + One(h \in Carriers(t)')
  BY <1>3, <1>4, OneMoreOrLess
<1>6. Cardinality(Carriers(t)') \in Nat
  BY <1>5, FS_CardinalityType
<1>7. One(h \in Carriers(t)) = One(Carries(h, t)) /\ One(h \in Carriers(t)') = One(Carries(h, t)')
  BY DEF Carriers, One
<1>8. told[t] \in Nat /\ told'[t] \in Nat /\ assigned[t] \in Nat /\ assigned'[t] \in Nat
  BY TaskWakeAssumption DEF ToldInv, Basics, TypeOK
<1>9. /\ One(Carries(h, t)) \in Nat /\ One(Carries(h, t)') \in Nat
      /\ One(Queued(t)) \in Nat /\ One(Queued(t)') \in Nat
  BY DEF One
<1>10. told'[t] + One(Carries(h, t)') + One(Queued(t)') + assigned[t]
          <= told[t] + One(Carries(h, t)) + One(Queued(t)) + assigned'[t]
  OBVIOUS
<1> QED BY <1>4, <1>5, <1>6, <1>7, <1>8, <1>9, <1>10

\* The common case: nothing is announced or assigned, and what is passed on is handed over.
LEMMA HandedOver ==
    ASSUME ToldInv, Basics', NEW h \in Handlers, NEW new, handler' = [handler EXCEPT ![h] = new],
           UNCHANGED <<told, assigned>>,
           \A t \in Tasks : /\ Carries(h, t)' => Carries(h, t) \/ (Queued(t) /\ ~Queued(t)')
                            /\ Queued(t)' => Queued(t) \/ (Carries(h, t) /\ ~Carries(h, t)')
    PROVE  Announced'
<1>1. ASSUME NEW t \in Tasks
      PROVE  told'[t] + One(Carries(h, t)') + One(Queued(t)') + assigned[t]
                <= told[t] + One(Carries(h, t)) + One(Queued(t)) + assigned'[t]
  <2>1. told[t] \in Nat /\ assigned[t] \in Nat /\ told'[t] = told[t] /\ assigned'[t] = assigned[t]
    BY TaskWakeAssumption DEF ToldInv, Basics, TypeOK
  <2>2. One(Carries(h, t)') + One(Queued(t)') <= One(Carries(h, t)) + One(Queued(t))
    BY DEF One
  <2>3. /\ One(Carries(h, t)) \in Nat /\ One(Carries(h, t)') \in Nat
        /\ One(Queued(t)) \in Nat /\ One(Queued(t)') \in Nat
    BY DEF One
  <2> QED BY <2>1, <2>2, <2>3
<1> QED BY <1>1, ToldMoves

LEMMA ToldInit == ASSUME Init PROVE ToldInv
<1>1. \A t \in Tasks : Carriers(t) = {} /\ ~Queued(t)
  <2>1. \A h \in Handlers : handler[h] = NoHandler
    BY DEF Init, Handlers
  <2>2. \A h \in Handlers : handler[h].step = "idle"
    BY <2>1 DEF NoHandler
  <2>3. \A t : ~Queued(t)
    BY <2>2 DEF Init, NoWake, Queued
  <2>4. \A h \in Handlers : \A t : ~Carries(h, t)
    BY <2>2 DEF Carries
  <2> QED BY <2>3, <2>4 DEF Carriers
<1>2. ASSUME NEW t \in Tasks
      PROVE  /\ IsFiniteSet(Carriers(t))
             /\ told[t] + Cardinality(Carriers(t)) + One(Queued(t)) <= assigned[t]
  <2>1. told[t] = 0 /\ assigned[t] = 0
    BY DEF Init
  <2>2. IsFiniteSet(Carriers(t)) /\ Cardinality(Carriers(t)) = 0
    BY <1>1, FS_EmptySet
  <2>3. One(Queued(t)) = 0
    BY <1>1 DEF One
  <2> QED BY <2>1, <2>2, <2>3
<1> QED BY <1>2, BasicsInit DEF ToldInv, Announced

\* After the holder of the lock is done with it, nobody holds a copy of the queue.
LEMMA NoCopyLeft ==
    ASSUME Basics, NEW h \in Handlers, NEW new, handler' = [handler EXCEPT ![h] = new],
           handler[h].step = "write", new.step # "write", NEW t
    PROVE  Queued(t)' <=> t \in agentWake'.pending
<1>1. handler'[h] = new /\ \A g \in Handlers : g # h => handler'[g] = handler[g]
  BY DEF Basics, TypeOK, Handlers
<1>2. \A g \in Handlers : g # h => handler[g].step # "write"
  BY DEF Basics, Locked
<1> QED BY <1>1, <1>2 DEF Queued

\* A step in which no handler comes to hold a copy leaves on the queue what was there before.
LEMMA QueueNotLonger ==
    ASSUME Basics, NEW h \in Handlers, NEW new, handler' = [handler EXCEPT ![h] = new],
           new.step # "write", NEW t, t \in agentWake'.pending => Queued(t)
    PROVE  Queued(t)' => Queued(t)
<1>1. handler'[h] = new /\ \A g \in Handlers : g # h => handler'[g] = handler[g]
  BY DEF Basics, TypeOK, Handlers
<1> QED BY <1>1 DEF Queued

LEMMA ToldStep == ASSUME ToldInv, [Next]_vars PROVE ToldInv'
<1> USE DEF ToldInv
<1>1. Basics'
  BY BasicsStep
<1> SUFFICES Announced'
  BY <1>1
<1>2. /\ handler \in [Handlers -> Handler]
      /\ \A h \in Handlers : handler[h] \in Handler
  BY DEF Basics, TypeOK, Handlers
<1>3. None \notin Tasks /\ NoHandler.step = "idle" /\ NoHandler.on = None /\ NoHandler \in Handler
  BY TaskWakeAssumption, NoHandlerType DEF NoHandler
<1>4. ASSUME NEW c \in Callers, NEW t0 \in Tasks, Assign(c, t0) PROVE Announced'
  <2> DEFINE new == [NoHandler EXCEPT !.step = "lock", !.on = t0]
  <2>1. new.step = "lock" /\ new.on = t0
    BY DEF NoHandler
  <2>2. /\ handler' = [handler EXCEPT ![c] = new] /\ handler[c].step = "idle"
        /\ UNCHANGED <<agentWake, told>> /\ assigned' = [assigned EXCEPT ![t0] = assigned[t0] + 1]
    BY <1>4 DEF Assign
  <2> HIDE DEF new
  <2>3. handler'[c] = new
    BY <1>2, <2>2 DEF Handlers
  <2>4. ASSUME NEW t \in Tasks
        PROVE  told'[t] + One(Carries(c, t)') + One(Queued(t)') + assigned[t]
                 <= told[t] + One(Carries(c, t)) + One(Queued(t)) + assigned'[t]
    <3>1. told[t] \in Nat /\ told'[t] = told[t] /\ assigned[t] \in Nat
      BY <2>2, TaskWakeAssumption DEF Basics, TypeOK
    <3>2. assigned'[t] = IF t = t0 THEN assigned[t] + 1 ELSE assigned[t]
      BY <2>2 DEF Basics, TypeOK
    <3>3. ~Carries(c, t) /\ (Carries(c, t)' => t = t0)
      BY <2>1, <2>2, <2>3 DEF Carries
    <3>4. Queued(t)' => Queued(t)
      BY <2>1, <2>2, QueueNotLonger DEF Handlers, Queued
    <3>5. One(Queued(t)') <= One(Queued(t)) /\ One(Queued(t)) \in Nat /\ One(Queued(t)') \in Nat
      BY <3>4 DEF One
    <3>6. One(Carries(c, t)) = 0 /\ One(Carries(c, t)') = (IF Carries(c, t)' THEN 1 ELSE 0)
      BY <3>3 DEF One
    <3> QED BY <3>1, <3>2, <3>3, <3>5, <3>6
  <2> QED BY <1>1, <2>2, <2>4, ToldMoves DEF Handlers
<1>5. ASSUME UNCHANGED <<told, assigned>>,
             \A h \in Handlers, t \in Tasks : Carries(h, t)' <=> Carries(h, t),
             \A t \in Tasks : Queued(t)' => Queued(t)
      PROVE  Announced'
  <2>1. \A t \in Tasks : Carriers(t)' = Carriers(t) /\ One(Queued(t)') <= One(Queued(t))
    BY <1>5 DEF Carriers, One
  <2>2. ASSUME NEW t \in Tasks
        PROVE  told'[t] + Cardinality(Carriers(t)') + One(Queued(t)') <= assigned'[t]
    <3>1. told[t] \in Nat /\ assigned[t] \in Nat /\ told'[t] = told[t] /\ assigned'[t] = assigned[t]
      BY <1>5, TaskWakeAssumption DEF Basics, TypeOK
    <3>2. Cardinality(Carriers(t)) \in Nat
      BY FS_CardinalityType DEF Announced
    <3>3. told[t] + Cardinality(Carriers(t)) + One(Queued(t)) <= assigned[t]
      BY DEF Announced
    <3>4. One(Queued(t)) \in Nat /\ One(Queued(t)') \in Nat
      BY DEF One
    <3> QED BY <2>1, <3>1, <3>2, <3>3, <3>4
  <2> QED BY <2>1, <2>2 DEF Announced
<1>6. ASSUME NEW t \in Tasks, MovesOn(t) PROVE Announced'
  BY <1>5, <1>6 DEF MovesOn, Carries, Queued
<1>7. ASSUME NEW m \in Monitors, Tick(m) PROVE Announced'
  <2> DEFINE new == [NoHandler EXCEPT !.step = "lock"]
  <2>1. new.step = "lock" /\ new.on = None
    BY DEF NoHandler
  <2>2. handler' = [handler EXCEPT ![m] = new] /\ UNCHANGED <<agentWake, told, assigned>>
    BY <1>7 DEF Tick
  <2> HIDE DEF new
  <2>3. \A t \in Tasks : ~Carries(m, t)'
    BY <1>2, <1>3, <2>1, <2>2 DEF Carries, Handlers
  <2>4. \A t \in Tasks : Queued(t)' => Queued(t)
    BY <2>1, <2>2, QueueNotLonger DEF Queued, Handlers
  <2> QED BY <1>1, <2>2, <2>3, <2>4, HandedOver DEF Handlers
<1>8. ASSUME NEW h \in Handlers, LockAndRead(h) PROVE Announced'
  <2> DEFINE new == [handler[h] EXCEPT !.step = "write", !.read = Readable(agentWake)]
  <2>1. /\ new.step = "write" /\ new.on = handler[h].on /\ new.read = Readable(agentWake)
        /\ handler' = [handler EXCEPT ![h] = new] /\ handler[h].step = "lock"
        /\ UNCHANGED <<agentWake, told, assigned>>
    BY <1>2, <1>8 DEF LockAndRead, Handler
  <2>2. Readable(agentWake).pending \subseteq agentWake.pending
    BY DEF Readable, NoWake
  <2> HIDE DEF new
  <2>3. handler'[h] = new /\ \A g \in Handlers : g # h => handler'[g] = handler[g]
    BY <1>2, <2>1
  <2>4. \A t : Carries(h, t)' => Carries(h, t)
    BY <2>1, <2>3 DEF Carries
  <2>5. \A t : Queued(t)' => Queued(t)
    BY <2>1, <2>2, <2>3 DEF Queued
  <2> QED BY <1>1, <2>1, <2>4, <2>5, HandedOver
<1>9. ASSUME NEW c \in Callers, Queue(c) PROVE Announced'
  <2>1. /\ handler[c].step = "write" /\ handler' = [handler EXCEPT ![c] = NoHandler]
        /\ agentWake'.pending = handler[c].read.pending \cup {handler[c].on}
        /\ UNCHANGED <<told, assigned>>
    BY <1>9 DEF Queue, WithThisTask, Ends
  <2>2. \A t : ~Carries(c, t)'
    BY <1>2, <1>3, <2>1 DEF Carries, Handlers
  <2>3. \A t \in Tasks : Queued(t)' => Queued(t) \/ Carries(c, t)
    <3>1. \A t : Queued(t)' <=> t \in agentWake'.pending
      BY <1>3, <2>1, NoCopyLeft DEF Handlers
    <3> QED BY <2>1, <3>1 DEF Queued, Carries, Handlers
  <2> QED BY <1>1, <2>1, <2>2, <2>3, HandedOver DEF Handlers
<1>10. ASSUME NEW c \in Callers, Flush(c) PROVE Announced'
  <2> DEFINE new == [NoHandler EXCEPT !.step = "filter", !.batch = WithThisTask(c)]
  <2>1. /\ handler[c].step = "write" /\ handler' = [handler EXCEPT ![c] = new]
        /\ agentWake'.pending = {} /\ UNCHANGED <<told, assigned>>
    BY <1>10 DEF Flush
  <2>2. new.step = "filter" /\ new.batch = handler[c].read.pending \cup {handler[c].on}
    BY DEF NoHandler, WithThisTask
  <2> HIDE DEF new
  <2>3. \A t : ~Queued(t)'
    BY <2>1, <2>2, NoCopyLeft DEF Handlers
  <2>4. \A t \in Tasks : Carries(c, t)' => Carries(c, t) \/ Queued(t)
    BY <1>2, <2>1, <2>2 DEF Carries, Queued, Handlers
  <2> QED BY <1>1, <2>1, <2>3, <2>4, HandedOver DEF Handlers
<1>11. ASSUME NEW c \in Callers, FilterStillOpen(c) PROVE Announced'
  <2> DEFINE live == StillOpen(handler[c].batch)
             new == IF live = {} THEN NoHandler
                    ELSE [handler[c] EXCEPT !.step = "post", !.batch = live]
  <2>1. /\ handler' = [handler EXCEPT ![c] = new] /\ handler[c].step = "filter"
        /\ UNCHANGED <<agentWake, told, assigned>>
    BY <1>11 DEF FilterStillOpen
  <2>2. new.step = "idle" \/ (new.step = "post" /\ new.batch = live)
    BY <1>2, <1>3 DEF Handler, Handlers
  <2>3. live \subseteq handler[c].batch
    BY DEF StillOpen
  <2> HIDE DEF new, live
  <2>4. \A t : Carries(c, t)' => Carries(c, t)
    BY <1>2, <2>1, <2>2, <2>3 DEF Carries, Handlers
  <2>5. \A t \in Tasks : Queued(t)' => Queued(t)
    BY <2>1, <2>2, QueueNotLonger DEF Queued, Handlers
  <2> QED BY <1>1, <2>1, <2>4, <2>5, HandedOver DEF Handlers
<1>12. ASSUME NEW m \in Monitors, FlushPending(m) PROVE Announced'
  <2> DEFINE live == StillOpen(handler[m].read.pending)
             new == IF live = {} THEN NoHandler
                    ELSE [NoHandler EXCEPT !.step = "post", !.batch = live]
  <2>1. /\ handler[m].step = "write" /\ handler' = [handler EXCEPT ![m] = new]
        /\ agentWake'.pending = {} /\ UNCHANGED <<told, assigned>>
    BY <1>12 DEF FlushPending
  <2>2. new.step = "idle" \/ (new.step = "post" /\ new.batch = live)
    BY <1>3 DEF NoHandler
  <2>3. live \subseteq handler[m].read.pending
    BY DEF StillOpen
  <2> HIDE DEF new, live
  <2>4. \A t : ~Queued(t)'
    BY <2>1, <2>2, NoCopyLeft DEF Handlers
  <2>5. \A t \in Tasks : Carries(m, t)' => Queued(t)
    BY <1>2, <2>1, <2>2, <2>3 DEF Carries, Queued, Handlers
  <2> QED BY <1>1, <2>1, <2>4, <2>5, HandedOver DEF Handlers
<1>13. ASSUME NEW h \in Handlers, handler' = [handler EXCEPT ![h] = NoHandler],
              UNCHANGED <<agentWake, told, assigned>>
       PROVE  Announced'
  <2>1. \A t : ~Carries(h, t)'
    BY <1>2, <1>3, <1>13 DEF Carries
  <2>2. \A t \in Tasks : Queued(t)' => Queued(t)
    BY <1>3, <1>13, QueueNotLonger DEF Queued
  <2> QED BY <1>1, <1>13, <2>1, <2>2, HandedOver
<1>14. ASSUME NEW h \in Handlers, NothingToFlush(h) \/ HandlerStops(h) PROVE Announced'
  BY <1>13, <1>14 DEF NothingToFlush, HandlerStops, Ends
<1>15. ASSUME NEW h \in Handlers, PostWakeMessage(h) PROVE Announced'
  <2>1. /\ handler[h].step = "post" /\ handler' = [handler EXCEPT ![h] = NoHandler]
        /\ UNCHANGED <<agentWake, assigned>>
        /\ told' = [t \in Tasks |-> IF t \in handler[h].batch THEN told[t] + 1 ELSE told[t]]
    BY <1>15 DEF PostWakeMessage, Ends
  <2>2. ASSUME NEW t \in Tasks
        PROVE  told'[t] + One(Carries(h, t)') + One(Queued(t)') + assigned[t]
                 <= told[t] + One(Carries(h, t)) + One(Queued(t)) + assigned'[t]
    <3>1. told[t] \in Nat /\ assigned[t] \in Nat /\ assigned'[t] = assigned[t]
      BY <2>1, TaskWakeAssumption DEF Basics, TypeOK
    <3>2. ~Carries(h, t)' /\ (Carries(h, t) <=> t \in handler[h].batch)
      BY <1>2, <1>3, <2>1 DEF Carries
    <3>3. Queued(t)' => Queued(t)
      BY <1>3, <2>1, QueueNotLonger DEF Queued
    <3>4. One(Queued(t)') <= One(Queued(t)) /\ One(Queued(t)) \in Nat /\ One(Queued(t)') \in Nat
      BY <3>3 DEF One
    <3>5. One(Carries(h, t)') = 0 /\ told'[t] = told[t] + One(Carries(h, t))
            /\ One(Carries(h, t)) \in Nat
      BY <2>1, <3>1, <3>2 DEF One
    <3> QED BY <3>1, <3>4, <3>5
  <2> QED BY <1>1, <2>1, <2>2, ToldMoves
<1>16. ASSUME NEW h \in Handlers, PostFails(h) PROVE Announced'
  <2> DEFINE new == [handler[h] EXCEPT !.step = "requeue"]
  <2>1. /\ handler' = [handler EXCEPT ![h] = new] /\ handler[h].step = "post"
        /\ UNCHANGED <<agentWake, told, assigned>>
    BY <1>2, <1>16 DEF PostFails, Goes
  <2>2. new.step = "requeue" /\ new.batch = handler[h].batch
    BY <1>2 DEF Handler
  <2> HIDE DEF new
  <2>3. \A t : Carries(h, t)' => Carries(h, t)
    BY <1>2, <2>1, <2>2 DEF Carries
  <2>4. \A t \in Tasks : Queued(t)' => Queued(t)
    BY <2>1, <2>2, QueueNotLonger DEF Queued
  <2> QED BY <1>1, <2>1, <2>3, <2>4, HandedOver
<1>17. ASSUME NEW h \in Handlers, RequeueAgentWakes(h) PROVE Announced'
  <2>1. /\ handler[h].step = "requeue" /\ handler' = [handler EXCEPT ![h] = NoHandler]
        /\ agentWake'.pending = handler[h].batch /\ UNCHANGED <<told, assigned>>
    BY <1>17 DEF RequeueAgentWakes, Ends
  <2>2. \A t : ~Carries(h, t)'
    BY <1>2, <1>3, <2>1 DEF Carries
  <2>3. \A t \in Tasks : Queued(t)' => Queued(t) \/ Carries(h, t)
    <3>1. \A g \in Handlers : g # h => handler'[g] = handler[g]
      BY <2>1
    <3>2. handler'[h].step # "write"
      BY <1>2, <1>3, <2>1
    <3> QED BY <2>1, <3>1, <3>2 DEF Queued, Carries
  <2> QED BY <1>1, <2>1, <2>2, <2>3, HandedOver
<1>18. ASSUME WindowPasses PROVE Announced'
  <2>1. agentWake'.pending = agentWake.pending /\ UNCHANGED <<told, assigned>>
    BY <1>18 DEF WindowPasses, Basics, TypeOK, AgentWake
  <2>2. \A h \in Handlers : \A t : Carries(h, t)' <=> Carries(h, t)
    BY <1>18, WindowKeepsErrands DEF Carries
  <2>3. \A t : Queued(t)' => Queued(t)
    BY <1>18, <2>1, WindowKeepsErrands DEF Queued
  <2> QED BY <1>5, <2>1, <2>2, <2>3
<1>19. CASE UNCHANGED vars
  BY <1>5, <1>19 DEF vars, Carries, Queued
<1> QED
  BY <1>4, <1>6, <1>7, <1>8, <1>9, <1>10, <1>11, <1>12, <1>14, <1>15, <1>16, <1>17, <1>18, <1>19
     DEF Next, AfterLock, Handlers

(***************************************************************************)
(* However assignments, flushes, ticks, failing posts and stops race, an   *)
(* assignment is announced at most once.                                   *)
(***************************************************************************)
THEOREM OneWakeEach == Spec => []OneWakePerAssignment
<1>1. Init => ToldInv BY ToldInit
<1>2. ToldInv /\ [Next]_vars => ToldInv' BY ToldStep
<1>3. ToldInv => OneWakePerAssignment
  <2> SUFFICES ASSUME ToldInv, NEW t \in Tasks PROVE told[t] <= assigned[t]
    BY DEF OneWakePerAssignment
  <2>1. told[t] \in Nat /\ assigned[t] \in Nat
    BY TaskWakeAssumption DEF ToldInv, Basics, TypeOK
  <2>2. Cardinality(Carriers(t)) \in Nat /\ One(Queued(t)) \in Nat
    BY FS_CardinalityType DEF ToldInv, Announced, One
  <2> QED BY <2>1, <2>2 DEF ToldInv, Announced
<1> QED BY <1>1, <1>2, <1>3, PTL DEF Spec
=============================================================================
