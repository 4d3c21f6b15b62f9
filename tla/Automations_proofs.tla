------------------------- MODULE Automations_proofs -------------------------
(***************************************************************************)
(* Proofs about Automations, for any number of schedulers, people, rows    *)
(* and slots, and any mix of faults and requests.                          *)
(***************************************************************************)
EXTENDS Automations, LeastNumber_proofs, TLAPS

(***************************************************************************)
(* Why two starts never run side by side: rows are inserted in order; only *)
(* the holder of the advisory lock is about to insert, and unless it was   *)
(* forced nothing but the agent's own runs goes on meanwhile.              *)
(* Why a run follows its task: a row is handed out by the one start that   *)
(* inserted it, which has its task from the step after and has written it  *)
(* on the row before it looks whether the task closed.                     *)
(***************************************************************************)
RunShape(x) ==
    x = [status |-> x.status, source |-> x.source, slot |-> x.slot, force |-> x.force,
         linked |-> x.linked, reason |-> x.reason, repeat |-> x.repeat,
         streakClosed |-> x.streakClosed]

StartShape(x) ==
    x = [step |-> x.step, slot |-> x.slot, now |-> x.now, force |-> x.force, row |-> x.row,
         reason |-> x.reason, repeat |-> x.repeat]

Shaped ==
    /\ run = [r \in Rows |-> run[r]] /\ \A r \in Rows : RunShape(run[r])
    /\ start = [h \in Starters |-> start[h]] /\ \A h \in Starters : StartShape(start[h])
    /\ taskOf \in [Rows -> Ended \cup {"none", "open"}]
    /\ closer \in [Rows -> {"none", "close", "sync"}]

Used(r) == run[r].status # "none"
NoGaps == \A q, r \in Rows : Used(r) /\ q <= r => Used(q)

Inserting(h) == start[h].step = "insert"
Locked == \A h \in Starters : Inserting(h) => runLock = h
Clear == \A h \in Starters : Inserting(h) =>
            start[h].force \/ \A r \in Running : Foreign(r)

HandsOut(h) == start[h].step \in {"hand", "link", "recheck", "discard", "fail"}
InHand == \A h \in Starters : HandsOut(h) => start[h].row \in Rows /\ Used(start[h].row)
OneHand == \A g, h \in Starters : HandsOut(g) /\ HandsOut(h) /\ start[g].row = start[h].row => g = h
HandedOut == \A h \in Starters :
    /\ start[h].step = "hand" => taskOf[start[h].row] = "none"
    /\ start[h].step \in {"link", "recheck"} => taskOf[start[h].row] # "none"
    /\ start[h].step = "recheck" => run[start[h].row].linked
Closing == \A r \in Rows : closer[r] = "close" => taskOf[r] \in Ended
Tasks == \A r \in Rows : taskOf[r] # "none" => Used(r)

RunsInv == NoGaps /\ Locked /\ Clear /\ OneRunning
TasksInv == InHand /\ OneHand /\ HandedOut /\ Closing /\ Tasks /\ RunFollowsItsTask
AutoInv == Shaped /\ RunsInv /\ TasksInv

LEMMA AutoInvInit == ASSUME AutoInit PROVE AutoInv
<1>1. Shaped
  BY DEF AutoInit, Shaped, RunShape, StartShape, NoRun, NoStart
<1>2. RunsInv
  BY DEF AutoInit, RunsInv, NoGaps, Locked, Clear, OneRunning, Running, Used, Inserting, NoRun,
         NoStart
<1>3. TasksInv
  BY DEF AutoInit, TasksInv, InHand, OneHand, HandedOut, Closing, Tasks, RunFollowsItsTask, Running,
         Used, HandsOut, NoRun, NoStart
<1> QED BY <1>1, <1>2, <1>3 DEF AutoInv

\* The next row: not used, and after all that are.
LEMMA NextRowIsNext ==
    ASSUME NoGaps, Unused # {}
    PROVE  /\ NextRow \in Rows /\ ~Used(NextRow)
           /\ \A r \in Rows : Used(r) => r < NextRow
           /\ \A r \in Unused : NextRow <= r
<1>1. Unused \in SUBSET Nat
  BY DEF Unused, Rows
<1>2. \E r \in Unused : \A s \in Unused : r <= s
  BY <1>1, LeastNumber
<1>3. NextRow \in Unused /\ \A r \in Unused : NextRow <= r
  BY <1>2 DEF NextRow
<1>4. NextRow \in Rows /\ ~Used(NextRow)
  BY <1>3 DEF Unused, Used
<1>5. ASSUME NEW r \in Rows, Used(r) PROVE r < NextRow
  BY <1>4, <1>5, AutomationsAssumption DEF NoGaps, Rows
<1> QED BY <1>3, <1>4, <1>5

\* Rows go on as they are, end, are inserted ended, or are set back to running by a report.
SameRun(r) == /\ run'[r].source = run[r].source /\ run'[r].slot = run[r].slot
              /\ run'[r].force = run[r].force /\ run'[r].linked = run[r].linked
RunsEnd ==
    /\ run' = [r \in Rows |-> run'[r]] /\ \A r \in Rows : RunShape(run'[r])
    /\ NoGaps'
    /\ \A r \in Rows : Used(r) => Used(r)' /\ SameRun(r)
    /\ \A r \in Rows : run'[r].status = "running" =>
          Used(r) /\ (run[r].status = "running" \/ r \in reopened')
    /\ reopened \subseteq reopened'

LEMMA ForeignKept ==
    ASSUME reopened \subseteq reopened', NEW r, run'[r].source = run[r].source,
           run'[r].slot = run[r].slot, Foreign(r)
    PROVE  Foreign(r)'
  BY DEF Foreign, Own

\* What goes on was going on, or is foreign; and what was foreign is.
LEMMA StillRunning ==
    ASSUME RunsEnd
    PROVE  /\ \A r \in Running' :
                 r \in Rows /\ Used(r) /\ SameRun(r) /\ (r \in Running \/ Foreign(r)')
           /\ \A r \in Rows : Used(r) /\ Foreign(r) => Foreign(r)'
<1>1. ASSUME NEW r \in Rows, Used(r), Foreign(r) PROVE Foreign(r)'
  BY <1>1, ForeignKept DEF RunsEnd, SameRun
<1>2. ASSUME NEW r \in Running'
      PROVE  r \in Rows /\ Used(r) /\ SameRun(r) /\ (r \in Running \/ Foreign(r)')
  <2>1. r \in Rows /\ run'[r].status = "running"
    BY <1>2 DEF Running
  <2> QED BY <2>1 DEF RunsEnd, Running, Foreign
<1> QED BY <1>1, <1>2

\* Of what goes on, no two go on side by side; nor does one beside a start that may insert.
LEMMA RunsStayApart ==
    ASSUME AutoInv, RunsEnd
    PROVE  /\ OneRunning'
           /\ (\A r \in Running : Foreign(r)) => \A r \in Running' : Foreign(r)'
<1>1. \A r \in Running' :
        r \in Rows /\ Used(r) /\ SameRun(r) /\ (r \in Running \/ Foreign(r)')
  BY StillRunning
<1>2. \A r \in Rows : Used(r) /\ Foreign(r) => Foreign(r)'
  BY StillRunning
<1>3. OneRunning'
  <2> SUFFICES ASSUME NEW q \in Running', NEW r \in Running', q < r,
                      ~Foreign(q)', ~Foreign(r)'
               PROVE  run'[r].force
    BY DEF OneRunning
  <2>1. q \in Running /\ r \in Running /\ ~Foreign(q) /\ ~Foreign(r)
    BY <1>1, <1>2
  <2>2. run[r].force
    BY <2>1 DEF AutoInv, RunsInv, OneRunning
  <2> QED BY <1>1, <2>2 DEF SameRun
<1> QED BY <1>1, <1>2, <1>3

\* A start that is not about to insert a run or at work on one does nothing to the runs of others.
LEMMA StartMoves ==
    ASSUME AutoInv, RunsEnd, NEW h \in Starters, NEW new, start' = [start EXCEPT ![h] = new],
           StartShape(new), new.step \notin {"insert", "hand", "link", "recheck", "discard", "fail"},
           HandsOut(h) => stopped' \/ run'[start[h].row].status # "running",
           UNCHANGED <<taskOf, closer>>, stopped => stopped',
           runLock' = runLock \/ (runLock = h /\ runLock' = None)
    PROVE  AutoInv'
<1>1. /\ \A g \in Starters : start'[g] = IF g = h THEN new ELSE start[g]
      /\ start' = [g \in Starters |-> start'[g]]
  BY DEF AutoInv, Shaped
<1>2. /\ \A g \in Starters : (Inserting(g) \/ HandsOut(g))' => g # h /\ start'[g] = start[g]
      /\ \A g \in Starters : Inserting(g)' => Inserting(g)
      /\ \A g \in Starters : HandsOut(g)' => HandsOut(g)
  BY <1>1 DEF Inserting, HandsOut
<1>3. \A r \in Running' :
        r \in Rows /\ Used(r) /\ SameRun(r) /\ (r \in Running \/ Foreign(r)')
  BY StillRunning
<1>4. Shaped'
  BY <1>1 DEF AutoInv, Shaped, RunsEnd
<1>5. RunsInv'
  <2>1. Locked'
    BY <1>2 DEF AutoInv, RunsInv, Locked, Inserting
  <2>2. Clear'
    BY <1>2, RunsStayApart DEF AutoInv, RunsInv, Clear, Inserting
  <2> QED BY <2>1, <2>2, RunsStayApart DEF RunsInv, RunsEnd
<1>6. (InHand /\ OneHand)'
  BY <1>2 DEF AutoInv, TasksInv, InHand, OneHand, RunsEnd
<1>7. (HandedOut /\ Closing /\ Tasks)'
  <2>1. HandedOut'
    <3> SUFFICES ASSUME NEW g \in Starters, HandsOut(g)'
                 PROVE  /\ start'[g].step = "hand" => taskOf'[start'[g].row] = "none"
                        /\ start'[g].step \in {"link", "recheck"} => taskOf'[start'[g].row] # "none"
                        /\ start'[g].step = "recheck" => run'[start'[g].row].linked
      BY DEF HandedOut, HandsOut
    <3> QED BY <1>2 DEF AutoInv, TasksInv, HandedOut, InHand, RunsEnd, SameRun
  <2> QED BY <2>1 DEF AutoInv, TasksInv, Closing, Tasks, RunsEnd
<1>8. RunFollowsItsTask'
  <2> SUFFICES ASSUME NEW r \in Running', ~stopped', ~Foreign(r)'
               PROVE  Handing(r)' \/ (run'[r].linked /\ (taskOf'[r] = "open" \/ closer'[r] = "close"))
    BY DEF RunFollowsItsTask
  <2>1. r \in Running /\ r \in Rows /\ Used(r)
    BY <1>3
  <2>2. ~stopped /\ ~Foreign(r) /\ run'[r].linked = run[r].linked
    BY <1>3, <2>1, StillRunning DEF SameRun
  <2>3. CASE Handing(r)
    <3>1. PICK g \in Starters : start[g].row = r /\ HandsOut(g)
      BY <2>3 DEF Handing, HandsOut
    <3>2. g # h
      BY <3>1 DEF Running
    <3> QED BY <1>1, <3>1, <3>2 DEF Handing, HandsOut
  <2> QED BY <2>1, <2>2, <2>3 DEF AutoInv, TasksInv, RunFollowsItsTask
<1> QED BY <1>4, <1>5, <1>6, <1>7, <1>8 DEF AutoInv, TasksInv

\* What changes rows the same way and touches no start.
LEMMA RowsMove ==
    ASSUME AutoInv, RunsEnd, UNCHANGED <<start, taskOf, closer, runLock>>, stopped => stopped'
    PROVE  AutoInv'
<1>1. \A r \in Running' :
        r \in Rows /\ Used(r) /\ SameRun(r) /\ (r \in Running \/ Foreign(r)')
  BY StillRunning
<1>2. Shaped'
  BY DEF AutoInv, Shaped, RunsEnd
<1>3. RunsInv'
  <2>1. Clear'
    BY RunsStayApart DEF AutoInv, RunsInv, Clear, Inserting
  <2> QED BY <2>1, RunsStayApart DEF AutoInv, RunsInv, Locked, Inserting, RunsEnd
<1>4. TasksInv'
  <2>1. (InHand /\ OneHand /\ Closing /\ Tasks)'
    BY DEF AutoInv, TasksInv, InHand, OneHand, Closing, Tasks, HandsOut, RunsEnd
  <2>2. HandedOut'
    <3> SUFFICES ASSUME NEW g \in Starters, start[g].step = "recheck"
                 PROVE  run'[start[g].row].linked
      BY DEF AutoInv, TasksInv, HandedOut
    <3> QED BY DEF AutoInv, TasksInv, HandedOut, InHand, HandsOut, RunsEnd, SameRun
  <2>3. RunFollowsItsTask'
    <3> SUFFICES ASSUME NEW r \in Running', ~stopped', ~Foreign(r)'
                 PROVE  Handing(r)' \/ (run'[r].linked /\ (taskOf'[r] = "open" \/ closer'[r] = "close"))
      BY DEF RunFollowsItsTask
    <3>1. r \in Running /\ Used(r) /\ ~Foreign(r) /\ run'[r].linked = run[r].linked
      BY <1>1, StillRunning DEF SameRun
    <3> QED BY <3>1 DEF AutoInv, TasksInv, RunFollowsItsTask, Handing
  <2> QED BY <2>1, <2>2, <2>3 DEF TasksInv
<1> QED BY <1>2, <1>3, <1>4 DEF AutoInv

\* The ways rows change without one being inserted that runs.
LEMMA SameRows == ASSUME AutoInv, UNCHANGED run, reopened \subseteq reopened' PROVE RunsEnd
<1>1. NoGaps'
  BY DEF AutoInv, RunsInv, NoGaps, Used
<1> QED BY <1>1 DEF AutoInv, Shaped, Used, RunsEnd, SameRun

LEMMA OneRowEnds ==
    ASSUME AutoInv, NEW r \in Rows, NEW status, status \notin {"none", "running"}, Used(r),
           run' = [run EXCEPT ![r].status = status], reopened \subseteq reopened'
    PROVE  RunsEnd /\ run'[r].status = status
<1>1. \A q \in Rows : run'[q] = IF q = r THEN [run[q] EXCEPT !.status = status] ELSE run[q]
  BY DEF AutoInv, Shaped
<1>2. \A q \in Rows : RunShape(run'[q]) /\ (Used(q)' <=> Used(q))
  BY <1>1 DEF AutoInv, Shaped, RunShape, Used
<1>3. NoGaps'
  BY <1>2 DEF AutoInv, RunsInv, NoGaps
<1>4. run' = [q \in Rows |-> run'[q]]
  BY DEF AutoInv, Shaped
<1>5. ASSUME NEW q \in Rows
      PROVE  SameRun(q) /\ (run'[q].status = "running" => run[q].status = "running")
  BY <1>1 DEF AutoInv, Shaped, RunShape, SameRun
<1>6. run'[r].status = status
  BY <1>1 DEF AutoInv, Shaped, RunShape
<1> QED BY <1>2, <1>3, <1>4, <1>5, <1>6 DEF RunsEnd, Used

LEMMA NotesKept ==
    ASSUME AutoInv, run' = [r \in Rows |-> run'[r]], reopened \subseteq reopened',
           \A r \in Rows : RunShape(run'[r]) /\ run'[r].status = run[r].status /\ SameRun(r)
    PROVE  RunsEnd
  BY DEF AutoInv, RunsInv, NoGaps, Used, RunsEnd

\* A row that is inserted comes after the others, which stay as they are.
LEMMA RowInserted ==
    ASSUME AutoInv, Unused # {}, NEW row, RunShape(row), row.status # "none",
           run' = [run EXCEPT ![NextRow] = row]
    PROVE  /\ run' = [r \in Rows |-> run'[r]] /\ \A r \in Rows : RunShape(run'[r])
           /\ run'[NextRow] = row /\ \A r \in Rows \ {NextRow} : run'[r] = run[r]
           /\ NoGaps'
<1>1. NextRow \in Rows /\ ~Used(NextRow) /\ \A r \in Unused : NextRow <= r
  BY NextRowIsNext DEF AutoInv, RunsInv
<1>2. \A r \in Rows : run'[r] = IF r = NextRow THEN row ELSE run[r]
  BY DEF AutoInv, Shaped
<1>3. run' = [r \in Rows |-> run'[r]] /\ \A r \in Rows : RunShape(run'[r])
  BY <1>2 DEF AutoInv, Shaped
<1>4. ASSUME NEW q \in Rows, NEW r \in Rows, Used(r)', q <= r PROVE Used(q)'
  <2>1. CASE q = NextRow
    BY <1>2, <2>1 DEF Used
  <2>2. CASE q # NextRow /\ r # NextRow
    BY <1>2, <1>4, <2>2 DEF AutoInv, RunsInv, NoGaps, Used
  <2>3. CASE q # NextRow /\ r = NextRow
    <3>1. Used(q)
      <4>1. q < NextRow
        BY <1>4, <2>3, AutomationsAssumption DEF Rows
      <4> QED BY <1>1, <4>1, AutomationsAssumption DEF Unused, Used, Rows
    <3> QED BY <1>2, <2>3, <3>1 DEF Used
  <2> QED BY <2>1, <2>2, <2>3
<1> QED BY <1>1, <1>2, <1>3, <1>4 DEF NoGaps

LEMMA OutcomeInserted ==
    ASSUME AutoInv, Unused # {}, NEW row, RunShape(row), row.status \notin {"none", "running"},
           run' = [run EXCEPT ![NextRow] = row], reopened \subseteq reopened'
    PROVE  RunsEnd
<1>1. /\ run' = [r \in Rows |-> run'[r]] /\ \A r \in Rows : RunShape(run'[r])
      /\ run'[NextRow] = row /\ \A r \in Rows \ {NextRow} : run'[r] = run[r]
      /\ NoGaps'
  BY RowInserted
<1>2. ~Used(NextRow)
  BY NextRowIsNext DEF AutoInv, RunsInv
<1>3. ASSUME NEW r \in Rows, Used(r) PROVE run'[r] = run[r]
  BY <1>1, <1>2, <1>3
<1> QED BY <1>1, <1>2, <1>3 DEF RunsEnd, Used, SameRun

-----------------------------------------------------------------------------
(* The steps of a start that matter to other starts or to tasks *)

LEMMA LockTaken ==
    ASSUME AutoInv, NEW h \in Starters, start[h].step = "lock", runLock = None,
           Running = {} \/ start[h].force, Becomes(h, "insert"), runLock' = h,
           UNCHANGED <<run, taskOf, closer, stopped>>, reopened \subseteq reopened'
    PROVE  AutoInv'
<1>1. /\ start' = [g \in Starters |-> start'[g]]
      /\ \A g \in Starters : start'[g] = IF g = h THEN [start[g] EXCEPT !.step = "insert"] ELSE start[g]
  BY DEF AutoInv, Shaped, Becomes
<1>2. /\ StartShape(start'[h]) /\ start'[h].step = "insert" /\ start'[h].force = start[h].force
      /\ ~HandsOut(h) /\ ~HandsOut(h)'
  BY <1>1 DEF AutoInv, Shaped, StartShape, HandsOut
<1>3. \A g \in Starters : ~Inserting(g)
  BY AutomationsAssumption DEF AutoInv, RunsInv, Locked
<1>4. Shaped'
  BY <1>1, <1>2 DEF AutoInv, Shaped
<1>5. RunsInv'
  <2>1. OneRunning'
    BY SameRows, RunsStayApart
  <2>2. (NoGaps /\ Locked)'
    BY <1>1, <1>2, <1>3 DEF AutoInv, RunsInv, NoGaps, Locked, Used, Inserting
  <2>3. Clear'
    BY <1>1, <1>2, <1>3 DEF Clear, Running, Inserting
  <2> QED BY <2>1, <2>2, <2>3 DEF RunsInv
<1>6. \A g \in Starters : HandsOut(g)' => HandsOut(g) /\ start'[g] = start[g]
  BY <1>1, <1>2 DEF HandsOut
<1>7. (InHand /\ OneHand /\ Closing /\ Tasks)'
  BY <1>6 DEF AutoInv, TasksInv, InHand, OneHand, Closing, Tasks, Used
<1>8. HandedOut'
  BY <1>6 DEF AutoInv, TasksInv, HandedOut, HandsOut
<1>9. RunFollowsItsTask'
  <2>1. \A r \in Running : (Foreign(r) => Foreign(r)') /\ (Handing(r) => Handing(r)')
    BY <1>1, <1>2, ForeignKept DEF Handing, HandsOut
  <2> QED BY <2>1 DEF AutoInv, TasksInv, RunFollowsItsTask, Running
<1> QED BY <1>4, <1>5, <1>7, <1>8, <1>9 DEF AutoInv, TasksInv

\* A row is inserted that runs: by a start that hands it out from then on, or by the agent.
LEMMA RunInserted ==
    ASSUME AutoInv, Unused # {}, NEW row, RunShape(row), row.status = "running",
           run' = [run EXCEPT ![NextRow] = row],
           UNCHANGED <<taskOf, closer, stopped>>, reopened \subseteq reopened',
           \/ /\ row.source = "agent" \/ (row.source = "schedule" /\ row.slot = 0)
              /\ UNCHANGED <<start, runLock>>
           \/ \E h \in Starters :
                 /\ Inserting(h) /\ row.force = start[h].force
                 /\ start' = [start EXCEPT ![h].step = "hand", ![h].row = NextRow]
    PROVE  AutoInv'
<1>1. /\ run' = [r \in Rows |-> run'[r]] /\ \A r \in Rows : RunShape(run'[r])
      /\ run'[NextRow] = row /\ \A r \in Rows \ {NextRow} : run'[r] = run[r]
      /\ NoGaps'
  BY RowInserted
<1>2. NextRow \in Rows /\ ~Used(NextRow) /\ \A r \in Rows : Used(r) => r < NextRow
  BY NextRowIsNext DEF AutoInv, RunsInv
<1>3. \A r \in Rows : (Used(r)' <=> Used(r) \/ r = NextRow)
  BY <1>1, <1>2 DEF Used
<1>4. Running' = Running \cup {NextRow}
  BY <1>1, <1>2 DEF Running, Used
<1>5. NextRow \notin Running
  BY <1>2 DEF Running, Used
<1>8. \A r \in Running : r # NextRow /\ run'[r] = run[r] /\ (Foreign(r) => Foreign(r)')
  BY <1>1, <1>5, ForeignKept DEF Running
<1>6. CASE /\ row.source = "agent" \/ (row.source = "schedule" /\ row.slot = 0)
           /\ UNCHANGED <<start, runLock>>
  <2>0. \A r : r = NextRow => Foreign(r)'
    BY <1>1, <1>6 DEF Foreign, Own
  <2>1. Shaped'
    BY <1>1, <1>6 DEF AutoInv, Shaped
  <2>2. OneRunning'
    BY <1>4, <1>8, <2>0 DEF AutoInv, RunsInv, OneRunning
  <2>3. RunsInv'
    BY <1>1, <1>4, <1>6, <1>8, <2>0, <2>2 DEF AutoInv, RunsInv, Locked, Clear, Inserting
  <2>4. (InHand /\ OneHand /\ Closing /\ Tasks)'
    BY <1>3, <1>6 DEF AutoInv, TasksInv, InHand, OneHand, Closing, Tasks, HandsOut
  <2>5. HandedOut'
    BY <1>1, <1>2, <1>6 DEF AutoInv, TasksInv, HandedOut, InHand, HandsOut
  <2>6. RunFollowsItsTask'
    BY <1>4, <1>6, <1>8, <2>0 DEF AutoInv, TasksInv, RunFollowsItsTask, Handing
  <2> QED BY <2>1, <2>3, <2>4, <2>5, <2>6 DEF AutoInv, TasksInv
<1>7. ASSUME NEW h \in Starters, Inserting(h), row.force = start[h].force,
             start' = [start EXCEPT ![h].step = "hand", ![h].row = NextRow]
      PROVE  AutoInv'
  <2>1. /\ start' = [g \in Starters |-> start'[g]]
        /\ \A g \in Starters : start'[g] = IF g = h THEN [start[g] EXCEPT !.step = "hand", !.row = NextRow]
                                                    ELSE start[g]
    BY <1>7 DEF AutoInv, Shaped
  <2>2. StartShape(start'[h]) /\ start'[h].step = "hand" /\ start'[h].row = NextRow
    BY <2>1 DEF AutoInv, Shaped, StartShape
  <2>3. \A g \in Starters : g # h => start'[g] = start[g] /\ ~Inserting(g)
    BY <1>7, <2>1 DEF AutoInv, RunsInv, Locked
  <2>4. \A g \in Starters : ~Inserting(g)'
    BY <2>2, <2>3 DEF Inserting
  <2>5. Shaped'
    BY <1>1, <2>1, <2>2 DEF AutoInv, Shaped
  <2>6. OneRunning'
    <3> SUFFICES ASSUME NEW q \in Running', NEW r \in Running', q < r
                 PROVE  run'[r].force \/ Foreign(q)' \/ Foreign(r)'
      BY DEF OneRunning
    <3>1. CASE q # NextRow /\ r # NextRow
      BY <1>4, <1>8, <3>1 DEF AutoInv, RunsInv, OneRunning
    <3>2. CASE r = NextRow
      <4>1. q \in Running
        BY <1>2, <1>4, <3>2, AutomationsAssumption DEF Rows
      <4> QED BY <1>1, <1>7, <1>8, <3>2, <4>1 DEF AutoInv, RunsInv, Clear
    <3>3. CASE q = NextRow /\ r # NextRow
      <4>1. r < NextRow /\ r \in Nat /\ NextRow \in Nat
        BY <1>2, <1>4, <3>3, AutomationsAssumption DEF Running, Used, Rows
      <4> QED BY <3>3, <4>1
    <3> QED BY <3>1, <3>2, <3>3
  <2>7. RunsInv'
    BY <1>1, <2>4, <2>6 DEF RunsInv, Locked, Clear
  <2>8. ~HandsOut(h) /\ HandsOut(h)' /\ \A g \in Starters : g # h => (HandsOut(g)' <=> HandsOut(g))
    BY <1>7, <2>2, <2>3 DEF HandsOut, Inserting
  <2>9. (InHand /\ OneHand)'
    <3>1. \A g \in Starters : HandsOut(g) => start[g].row # NextRow
      BY <1>2 DEF AutoInv, TasksInv, InHand
    <3> QED BY <1>2, <1>3, <2>2, <2>3, <2>8, <3>1 DEF AutoInv, TasksInv, InHand, OneHand
  <2>10. (Closing /\ Tasks)'
    BY <1>3 DEF AutoInv, TasksInv, Closing, Tasks
  <2>11. HandedOut'
    <3> SUFFICES ASSUME NEW g \in Starters, HandsOut(g)'
                 PROVE  /\ start'[g].step = "hand" => taskOf'[start'[g].row] = "none"
                        /\ start'[g].step \in {"link", "recheck"} => taskOf'[start'[g].row] # "none"
                        /\ start'[g].step = "recheck" => run'[start'[g].row].linked
      BY DEF HandedOut, HandsOut
    <3>1. CASE g = h
      BY <1>2, <2>2, <3>1 DEF AutoInv, TasksInv, Tasks
    <3>2. CASE g # h
      <4>1. start[g].row \in Rows \ {NextRow}
        BY <1>2, <2>8, <3>2 DEF AutoInv, TasksInv, InHand
      <4> QED BY <1>1, <2>3, <3>2, <4>1 DEF AutoInv, TasksInv, HandedOut
    <3> QED BY <3>1, <3>2
  <2>12. RunFollowsItsTask'
    <3> SUFFICES ASSUME NEW r \in Running', ~stopped', ~Foreign(r)'
                 PROVE  Handing(r)' \/ (run'[r].linked /\ (taskOf'[r] = "open" \/ closer'[r] = "close"))
      BY DEF RunFollowsItsTask
    <3>1. CASE r = NextRow
      BY <2>2, <3>1 DEF Handing
    <3>2. CASE r # NextRow
      <4>1. r \in Running /\ run'[r] = run[r]
        BY <1>1, <1>4, <3>2 DEF Running
      <4>2. CASE Handing(r)
        <5>1. PICK g \in Starters : start[g].row = r /\ HandsOut(g)
          BY <4>2 DEF Handing, HandsOut
        <5> QED BY <2>3, <2>8, <5>1 DEF Handing, HandsOut
      <4> QED BY <1>8, <4>1, <4>2 DEF AutoInv, TasksInv, RunFollowsItsTask
    <3> QED BY <3>1, <3>2
  <2> QED BY <2>5, <2>7, <2>9, <2>10, <2>11, <2>12 DEF AutoInv, TasksInv
<1> QED BY <1>6, <1>7

\* A start goes on with its row: it hands out the task, writes it on the row, or turns to clean up.
LEMMA WorkGoesOn ==
    ASSUME AutoInv, NEW h \in Starters, HandsOut(h), NEW new, StartShape(new),
           start' = [start EXCEPT ![h] = new], new.row = start[h].row,
           new.step \in {"link", "recheck", "discard", "fail"},
           \/ UNCHANGED taskOf
           \/ start[h].step = "hand" /\ taskOf' = [taskOf EXCEPT ![start[h].row] = "open"],
           UNCHANGED run \/ run' = [run EXCEPT ![start[h].row].linked = TRUE],
           new.step \in {"link", "recheck"} => taskOf'[start[h].row] # "none",
           new.step = "recheck" => run'[start[h].row].linked,
           UNCHANGED <<closer, stopped, runLock>>, reopened \subseteq reopened'
    PROVE  AutoInv'
<1> DEFINE r == start[h].row
<1>1. r \in Rows /\ Used(r) /\ \A g \in Starters : g # h /\ HandsOut(g) => start[g].row # r
  BY DEF AutoInv, TasksInv, InHand, OneHand
<1> HIDE DEF r
<1>2. /\ start' = [g \in Starters |-> start'[g]]
      /\ \A g \in Starters : start'[g] = IF g = h THEN new ELSE start[g]
  BY DEF AutoInv, Shaped
<1>3. /\ HandsOut(h)' /\ ~Inserting(h)' /\ start'[h].row = r
      /\ \A g \in Starters : g # h => (HandsOut(g)' <=> HandsOut(g)) /\ (Inserting(g)' <=> Inserting(g))
  BY <1>2 DEF HandsOut, Inserting, r
<1>4. /\ run' = [q \in Rows |-> run'[q]]
      /\ \A q \in Rows : run'[q] = run[q] \/ (q = r /\ run'[q] = [run[q] EXCEPT !.linked = TRUE])
  <2>1. CASE UNCHANGED run
    BY <2>1 DEF AutoInv, Shaped
  <2>2. CASE run' = [run EXCEPT ![r].linked = TRUE]
    <3>1. \A q \in Rows : run'[q] = IF q = r THEN [run[q] EXCEPT !.linked = TRUE] ELSE run[q]
      BY <2>2 DEF AutoInv, Shaped
    <3>2. run' = [q \in Rows |-> run'[q]]
      BY <2>2 DEF AutoInv, Shaped
    <3> QED BY <3>1, <3>2
  <2> QED BY <2>1, <2>2 DEF r
<1>5. ASSUME NEW q \in Rows
      PROVE  /\ RunShape(run'[q]) /\ run'[q].status = run[q].status
             /\ run'[q].source = run[q].source /\ run'[q].slot = run[q].slot
             /\ run'[q].force = run[q].force
             /\ run'[q].linked = run[q].linked \/ (q = r /\ run'[q].linked)
  <2>1. RunShape(run[q])
    BY DEF AutoInv, Shaped
  <2>2. CASE run'[q] = run[q]
    BY <2>1, <2>2
  <2>3. CASE q = r /\ run'[q] = [run[q] EXCEPT !.linked = TRUE]
    BY <2>1, <2>3 DEF RunShape
  <2> QED BY <1>4, <2>2, <2>3
<1>6. taskOf' \in [Rows -> Ended \cup {"none", "open"}] /\ \A q \in Rows : q # r => taskOf'[q] = taskOf[q]
  BY DEF AutoInv, Shaped, r
<1>7. Shaped'
  BY <1>2, <1>4, <1>5, <1>6 DEF AutoInv, Shaped
<1>8. Running' = Running /\ \A q \in Rows : (Used(q)' <=> Used(q))
  <2>1. \A q \in Rows : run'[q].status = run[q].status
    BY <1>5
  <2> QED BY <2>1 DEF Running, Used
<1>9. RunsInv'
  <2> \A q \in Rows : run'[q].force = run[q].force /\ (Foreign(q) => Foreign(q)')
    BY <1>5, ForeignKept
  <2>1. OneRunning'
    <3> SUFFICES ASSUME NEW q \in Running, NEW s \in Running, q < s
                 PROVE  run'[s].force \/ Foreign(q)' \/ Foreign(s)'
      BY <1>8 DEF OneRunning
    <3>1. q \in Rows /\ s \in Rows
      BY DEF Running
    <3>2. run[s].force \/ Foreign(q) \/ Foreign(s)
      BY DEF AutoInv, RunsInv, OneRunning
    <3> QED BY <3>1, <3>2
  <2>2. (NoGaps /\ Locked)'
    BY <1>3, <1>8 DEF AutoInv, RunsInv, NoGaps, Locked
  <2>3. Clear'
    <3> SUFFICES ASSUME NEW g \in Starters, Inserting(g)'
                 PROVE  start'[g].force \/ \A q \in Running' : Foreign(q)'
      BY DEF Clear
    <3>1. g # h /\ Inserting(g) /\ start'[g] = start[g]
      BY <1>2, <1>3
    <3>2. \A q \in Running : q \in Rows
      BY DEF Running
    <3> QED BY <1>8, <3>1, <3>2 DEF AutoInv, RunsInv, Clear
  <2> QED BY <2>1, <2>2, <2>3 DEF RunsInv
<1>10. (InHand /\ OneHand)'
  BY <1>1, <1>2, <1>3, <1>8 DEF AutoInv, TasksInv, InHand, OneHand
<1>11. (Closing /\ Tasks)'
  <2>1. \A q \in Rows : closer[q] = "close" => taskOf'[q] = taskOf[q]
    BY <1>6 DEF AutoInv, TasksInv, Closing, HandedOut, Ended, r
  <2> QED BY <1>1, <1>6, <1>8, <2>1 DEF AutoInv, TasksInv, Closing, Tasks
<1>12. HandedOut'
  <2> SUFFICES ASSUME NEW g \in Starters, HandsOut(g)'
               PROVE  /\ start'[g].step = "hand" => taskOf'[start'[g].row] = "none"
                      /\ start'[g].step \in {"link", "recheck"} => taskOf'[start'[g].row] # "none"
                      /\ start'[g].step = "recheck" => run'[start'[g].row].linked
    BY DEF HandedOut, HandsOut
  <2>1. CASE g = h
    BY <1>2, <1>3, <2>1 DEF r
  <2>2. CASE g # h
    <3>1. start'[g] = start[g] /\ HandsOut(g) /\ start[g].row \in Rows /\ start[g].row # r
      BY <1>1, <1>2, <1>3, <2>2 DEF AutoInv, TasksInv, InHand
    <3> QED BY <1>5, <1>6, <3>1 DEF AutoInv, TasksInv, HandedOut
  <2> QED BY <2>1, <2>2
<1>13. RunFollowsItsTask'
  <2> SUFFICES ASSUME NEW q \in Running', ~stopped', ~Foreign(q)'
               PROVE  Handing(q)' \/ (run'[q].linked /\ (taskOf'[q] = "open" \/ closer'[q] = "close"))
    BY DEF RunFollowsItsTask
  <2>1. CASE q = r
    BY <1>3, <2>1 DEF Handing, HandsOut
  <2>2. CASE q # r
    <3>1. q \in Running /\ q \in Rows /\ taskOf'[q] = taskOf[q] /\ run'[q].linked = run[q].linked
          /\ ~Foreign(q)
      BY <1>5, <1>6, <1>8, <2>2, ForeignKept DEF Running
    <3>2. CASE Handing(q)
      <4>1. PICK g \in Starters : start[g].row = q /\ HandsOut(g)
        BY <3>2 DEF Handing, HandsOut
      <4> QED BY <1>2, <1>3, <2>2, <4>1 DEF Handing, HandsOut, r
    <3> QED BY <3>1, <3>2 DEF AutoInv, TasksInv, RunFollowsItsTask
  <2> QED BY <2>1, <2>2
<1> QED BY <1>7, <1>9, <1>10, <1>11, <1>12, <1>13 DEF AutoInv, TasksInv

\* A start is done with a row whose run goes on and whose task is still open.
LEMMA HandedOver ==
    ASSUME AutoInv, NEW h \in Starters, start[h].step = "recheck", ~TaskClosed(start[h].row),
           Done(h), UNCHANGED <<run, taskOf, closer, stopped, runLock>>,
           reopened \subseteq reopened'
    PROVE  AutoInv'
<1> DEFINE r == start[h].row
<1>1. r \in Rows /\ Used(r) /\ taskOf[r] = "open" /\ run[r].linked
  BY DEF AutoInv, Shaped, TasksInv, InHand, HandedOut, HandsOut, TaskClosed
<1>2. /\ start' = [g \in Starters |-> start'[g]]
      /\ \A g \in Starters : start'[g] = IF g = h THEN NoStart ELSE start[g]
  BY DEF AutoInv, Shaped, Done
<1>3. /\ StartShape(NoStart)
      /\ \A g \in Starters : (Inserting(g) \/ HandsOut(g))' => g # h /\ start'[g] = start[g]
  <2>1. StartShape(NoStart) /\ NoStart.step = "idle"
    BY DEF StartShape, NoStart
  <2> QED BY <1>2, <2>1 DEF Inserting, HandsOut
<1>4. Shaped'
  BY <1>2, <1>3 DEF AutoInv, Shaped
<1>5. RunsInv'
  BY <1>3, SameRows, RunsStayApart DEF AutoInv, RunsInv, NoGaps, Locked, Clear, Used, Inserting
<1>6. (InHand /\ OneHand /\ Closing /\ Tasks)'
  BY <1>3 DEF AutoInv, TasksInv, InHand, OneHand, Closing, Tasks, Used, HandsOut
<1>7. HandedOut'
  <2>1. \A g \in Starters : start'[g].step \in {"hand", "link", "recheck"} => start'[g] = start[g]
    BY <1>3 DEF HandsOut
  <2> QED BY <2>1 DEF AutoInv, TasksInv, HandedOut
<1>8. RunFollowsItsTask'
  <2> SUFFICES ASSUME NEW q \in Running, ~stopped, ~Foreign(q)
               PROVE  Handing(q)' \/ (run[q].linked /\ (taskOf[q] = "open" \/ closer[q] = "close"))
    BY ForeignKept DEF RunFollowsItsTask, Running
  <2>1. CASE q = r
    BY <1>1, <2>1
  <2>2. CASE q # r /\ Handing(q)
    <3>1. PICK g \in Starters : start[g].row = q /\ HandsOut(g)
      BY <2>2 DEF Handing, HandsOut
    <3> QED BY <1>2, <2>2, <3>1 DEF Handing, HandsOut
  <2> QED BY <2>1, <2>2 DEF AutoInv, TasksInv, RunFollowsItsTask
<1> QED BY <1>4, <1>5, <1>6, <1>7, <1>8 DEF AutoInv, TasksInv

-----------------------------------------------------------------------------
(* The agent's task *)

\* The task of a run is closed, or the closing of one is followed up.
LEMMA CloserMoves ==
    ASSUME AutoInv, NEW r \in Rows, NEW step \in {"none", "close", "sync"}, RunsEnd,
           closer' = [closer EXCEPT ![r] = step], UNCHANGED <<start, runLock>>, stopped => stopped',
           taskOf' \in [Rows -> Ended \cup {"none", "open"}],
           \A q \in Rows : taskOf'[q] = taskOf[q] \/ (taskOf[q] = "open" /\ q = r /\ step = "close"),
           step = "close" => taskOf'[r] \in Ended,
           \/ step = "close" \/ stopped'
           \/ (run'[r].status = "running" /\ run[r].linked => closer[r] # "close" /\ taskOf'[r] = taskOf[r])
    PROVE  AutoInv'
<1>1. \A q \in Running' :
        q \in Rows /\ Used(q) /\ SameRun(q) /\ (q \in Running \/ Foreign(q)')
  BY StillRunning
<1>2. closer' \in [Rows -> {"none", "close", "sync"}]
      /\ \A q \in Rows : closer'[q] = IF q = r THEN step ELSE closer[q]
  BY DEF AutoInv, Shaped
<1>3. Shaped'
  BY <1>2 DEF AutoInv, Shaped, RunsEnd
<1>4. RunsInv'
  <2>1. Clear'
    BY RunsStayApart DEF AutoInv, RunsInv, Clear, Inserting
  <2> QED BY <2>1, RunsStayApart DEF AutoInv, RunsInv, Locked, Inserting, RunsEnd
<1>5. (InHand /\ OneHand)'
  BY DEF AutoInv, TasksInv, InHand, OneHand, HandsOut, RunsEnd
<1>6. \A q \in Rows : (taskOf'[q] = "none" <=> taskOf[q] = "none")
                     /\ (taskOf[q] \in Ended => taskOf'[q] = taskOf[q])
  BY DEF Ended
<1>7. (Closing /\ Tasks)'
  BY <1>2, <1>6 DEF AutoInv, TasksInv, Closing, Tasks, RunsEnd
<1>8. HandedOut'
  <2> SUFFICES ASSUME NEW g \in Starters, HandsOut(g)
               PROVE  /\ start[g].step = "hand" => taskOf'[start[g].row] = "none"
                      /\ start[g].step \in {"link", "recheck"} => taskOf'[start[g].row] # "none"
                      /\ start[g].step = "recheck" => run'[start[g].row].linked
    BY DEF HandedOut, HandsOut
  <2>1. start[g].row \in Rows /\ Used(start[g].row)
    BY DEF AutoInv, TasksInv, InHand
  <2> QED BY <1>6, <2>1 DEF AutoInv, TasksInv, HandedOut, RunsEnd, SameRun
<1>9. RunFollowsItsTask'
  <2> SUFFICES ASSUME NEW q \in Running', ~stopped', ~Foreign(q)'
               PROVE  Handing(q)' \/ (run'[q].linked /\ (taskOf'[q] = "open" \/ closer'[q] = "close"))
    BY DEF RunFollowsItsTask
  <2>1. /\ q \in Running /\ q \in Rows /\ ~Foreign(q) /\ run'[q].linked = run[q].linked
        /\ run'[q].status = "running"
    BY <1>1, StillRunning DEF Running, SameRun
  <2>2. Handing(q) => Handing(q)'
    BY DEF Handing
  <2>3. Handing(q) \/ (run[q].linked /\ (taskOf[q] = "open" \/ closer[q] = "close"))
    BY <2>1 DEF AutoInv, TasksInv, RunFollowsItsTask
  <2> QED BY <1>2, <2>1, <2>2, <2>3
<1> QED BY <1>3, <1>4, <1>5, <1>7, <1>8, <1>9 DEF AutoInv, TasksInv

-----------------------------------------------------------------------------
LEMMA NothingShape == StartShape(NoStart) /\ NoStart.step = "idle" /\ RunShape(NoRun)
  BY DEF StartShape, RunShape, NoStart, NoRun

\* A start that goes on to a step at which it works on no row, with nothing else changed but rows.
QuietSteps == {"idle", "unset", "claim", "load", "lock", "sync", "record", "count", "note", "last", "pause"}

LEMMA StartGoesOn ==
    ASSUME AutoInv, RunsEnd, NEW h \in Starters,
           \/ Done(h)
           \/ \E step \in QuietSteps : Becomes(h, step)
           \/ \E reason : Refused(h, reason),
           HandsOut(h) => stopped' \/ run'[start[h].row].status # "running",
           UNCHANGED <<taskOf, closer>>, stopped => stopped',
           runLock' = runLock \/ (runLock = h /\ runLock' = None)
    PROVE  AutoInv'
<1>1. StartShape(start[h])
  BY DEF AutoInv, Shaped
<1>2. CASE Done(h)
  <2>1. start' = [start EXCEPT ![h] = NoStart]
    BY <1>2 DEF Done
  <2> QED BY <2>1, NothingShape, StartMoves
<1>3. ASSUME NEW step \in QuietSteps, Becomes(h, step) PROVE AutoInv'
  <2>0. PICK new : new = [start[h] EXCEPT !.step = step]
    OBVIOUS
  <2>1. start' = [start EXCEPT ![h] = new]
    BY <2>0, <1>3 DEF Becomes
  <2>2. StartShape(new) /\ new.step = step
    BY <2>0, <1>1 DEF StartShape
  <2>3. step \notin {"insert", "hand", "link", "recheck", "discard", "fail"}
    BY DEF QuietSteps
  <2> QED BY <2>1, <2>2, <2>3, StartMoves
<1>4. ASSUME NEW reason, h \in Schedulers, Refused(h, reason) PROVE AutoInv'
  <2>0. PICK new : new = [start[h] EXCEPT !.step = "record", !.reason = reason]
    OBVIOUS
  <2>1. start' = [start EXCEPT ![h] = new]
    BY <2>0, <1>4 DEF Refused, AutoInv, Shaped
  <2>2. StartShape(new) /\ new.step = "record"
    BY <2>0, <1>1 DEF StartShape
  <2> QED BY <2>1, <2>2, StartMoves
<1> QED BY <1>2, <1>3, <1>4 DEF Refused

\* A report is about a row, and only reports set a run back to running.
Reporting == report.step = "write" => report.row \in Rows /\ report.status \in Reported

LEMMA ReportingInit == AutoInit => Reporting
  BY DEF AutoInit, NoReport, Reporting

LEMMA ReportsMove ==
    ASSUME Reporting, [AutoNext]_autoVars PROVE Reporting' /\ reopened \subseteq reopened'
<1>1. ASSUME NEW h \in Starters, StartStep(h) \/ Crash(h) PROVE UNCHANGED <<report, reopened>>
  BY <1>1 DEF StartStep, LoadPipeline, NoRunner, CheckRunning, InsertRun, HandOut, HandOutFails,
              LinkTask, RecheckTask, DiscardRun, FailRun, CleanUpFails, SyncLastRun, Crash
<1>2. ASSUME NEW w \in Schedulers, SelectScheduled(w) \/ SchedulerStep(w) PROVE UNCHANGED <<report, reopened>>
  BY <1>2 DEF SelectScheduled, SchedulerStep, SetFirstSlot, ClaimSlot, ReadLatest, CountRepeat,
              NoteOutcome, NoteLastRun, PauseBySystem
<1>3. ASSUME NEW p \in People, \/ \E force \in BOOLEAN : RunNow(p, force)
                               \/ \E to \in Edits : EditRead(p, to)
                               \/ EditWrite(p) \/ CloseScheduleStreak(p)
      PROVE  UNCHANGED <<report, reopened>>
  BY <1>3 DEF RunNow, EditRead, EditWrite, CloseScheduleStreak
<1>4. ASSUME NEW r \in Rows, \/ \E status \in Ended : AgentClosesTask(r, status)
                             \/ CloserStep(r) \/ CloserStops(r)
      PROVE  UNCHANGED <<report, reopened>>
  BY <1>4 DEF AgentClosesTask, CloserStep, CloseRunForTask, SyncClosedRun, CloserStops
<1>5. ASSUME NEW status \in Reported, NEW r \in Rows, ReportRead(r, status)
      PROVE  Reporting' /\ UNCHANGED reopened
  BY <1>5 DEF ReportRead, Reporting
<1>6. ASSUME NEW status \in Reported, NEW source, ReportStart(source, status)
      PROVE  Reporting' /\ UNCHANGED reopened
  <2>1. report'.step = "last" /\ UNCHANGED reopened
    BY <1>6 DEF ReportStart, NoReport
  <2> QED BY <2>1 DEF Reporting
<1>7. ASSUME ReportWrite PROVE Reporting' /\ reopened \subseteq reopened'
  <2>1. reopened \subseteq reopened'
    BY <1>7 DEF ReportWrite
  <2>2. PICK over : over = [NoReport EXCEPT !.step = "last", !.row = report.row, !.status = report.status]
    OBVIOUS
  <2>3. report' = NoReport \/ report' = over
    BY <1>7, <2>2 DEF ReportWrite
  <2>4. NoReport.step = "idle" /\ over.step = "last"
    BY <2>2 DEF NoReport
  <2> QED BY <2>1, <2>3, <2>4 DEF Reporting
<1>8. ReportLastRun => Reporting' /\ UNCHANGED reopened
  BY DEF ReportLastRun, NoReport, Reporting
<1>9. SlotComesDue \/ UNCHANGED autoVars => UNCHANGED <<report, reopened>>
  BY DEF SlotComesDue, autoVars
<1>10. UNCHANGED <<report, reopened>> => Reporting' /\ reopened \subseteq reopened'
  BY DEF Reporting
<1> QED BY <1>1, <1>2, <1>3, <1>4, <1>5, <1>6, <1>7, <1>8, <1>9, <1>10 DEF AutoNext

LEMMA AutoInvStep == ASSUME AutoInv, Reporting, [AutoNext]_autoVars PROVE AutoInv'
<1> reopened \subseteq reopened'
  BY ReportsMove
<1>1. UNCHANGED run => RunsEnd
  BY SameRows
<1>2. \A h \in Starters : StartShape(start[h]) /\ StartShape(NoStart)
  BY NothingShape DEF AutoInv, Shaped
<1>3. ASSUME NEW w \in Schedulers, SelectScheduled(w) PROVE AutoInv'
  <2>0. PICK new : new = [NoStart EXCEPT !.step = IF pipeline.nextRunAt = 0 THEN "unset" ELSE "claim",
                                         !.slot = pipeline.nextRunAt, !.now = clock]
    OBVIOUS
  <2>1. StartShape(new) /\ new.step \in {"unset", "claim"}
    BY <2>0 DEF StartShape, NoStart
  <2>2. start' = [start EXCEPT ![w] = new] /\ ~HandsOut(w)
    BY <2>0, <1>3 DEF SelectScheduled, HandsOut
  <2>3. UNCHANGED <<run, taskOf, closer, stopped, runLock>>
    BY <1>3 DEF SelectScheduled
  <2> QED BY <1>1, <2>1, <2>2, <2>3, StartMoves DEF Starters
<1>4. ASSUME NEW w \in Schedulers, SetFirstSlot(w) \/ ClaimSlot(w) \/ NoteLastRun(w) \/ PauseBySystem(w)
      PROVE  AutoInv'
  <2>1. UNCHANGED <<run, taskOf, closer, stopped, runLock>> /\ ~HandsOut(w)
    BY <1>4 DEF SetFirstSlot, ClaimSlot, NoteLastRun, PauseBySystem, HandsOut
  <2>2. Done(w) \/ \E step \in QuietSteps : Becomes(w, step)
    BY <1>4 DEF SetFirstSlot, ClaimSlot, NoteLastRun, PauseBySystem, Recorded, QuietSteps
  <2> QED BY <1>1, <2>1, <2>2, StartGoesOn DEF Starters
<1>5. ASSUME NEW w \in Schedulers, ReadLatest(w) PROVE AutoInv'
  <2>1. PICK step \in {"count", "note"} : \E row, repeat :
           start' = [start EXCEPT ![w].step = step, ![w].row = row, ![w].repeat = repeat]
    BY <1>5 DEF ReadLatest
  <2>2. PICK row, repeat :
           start' = [start EXCEPT ![w].step = step, ![w].row = row, ![w].repeat = repeat]
    BY <2>1
  <2>3. PICK new : new = [start[w] EXCEPT !.step = step, !.row = row, !.repeat = repeat]
    OBVIOUS
  <2>4. StartShape(new) /\ new.step = step
    <3>1. StartShape(start[w])
      BY <1>2 DEF Starters
    <3> QED BY <2>3, <3>1 DEF StartShape
  <2>5. start' = [start EXCEPT ![w] = new]
    BY <2>2, <2>3 DEF AutoInv, Shaped, Starters
  <2>6. UNCHANGED <<run, taskOf, closer, stopped, runLock>> /\ ~HandsOut(w)
    BY <1>5 DEF ReadLatest, HandsOut
  <2> QED BY <1>1, <2>4, <2>5, <2>6, StartMoves DEF Starters
<1>6. ASSUME NEW w \in Schedulers, CountRepeat(w) PROVE AutoInv'
  <2>1. UNCHANGED <<taskOf, closer, stopped, runLock>> /\ ~HandsOut(w)
    BY <1>6 DEF CountRepeat, HandsOut
  <2>2. Done(w) \/ \E step \in QuietSteps : Becomes(w, step)
    BY <1>6 DEF CountRepeat, Recorded, QuietSteps
  <2>3. RunsEnd
    <3>1. PICK i, repeat : run' = [run EXCEPT ![i].repeat = repeat, ![i].streakClosed = FALSE]
      BY <1>6 DEF CountRepeat
    <3>2. /\ run' = [r \in Rows |-> run'[r]]
          /\ \A r \in Rows : run'[r] = IF r = i THEN [run[r] EXCEPT !.repeat = repeat, !.streakClosed = FALSE]
                                     ELSE run[r]
      BY <3>1 DEF AutoInv, Shaped
    <3>3. ASSUME NEW r \in Rows
          PROVE  RunShape(run'[r]) /\ run'[r].status = run[r].status /\ SameRun(r)
      <4>1. RunShape(run[r])
        BY DEF AutoInv, Shaped
      <4> QED BY <3>2, <4>1 DEF RunShape, SameRun
    <3> QED BY <3>2, <3>3, NotesKept
  <2> QED BY <2>1, <2>2, <2>3, StartGoesOn DEF Starters
<1>7. ASSUME NEW w \in Schedulers, NoteOutcome(w) PROVE AutoInv'
  <2>1. UNCHANGED <<taskOf, closer, stopped, runLock>> /\ ~HandsOut(w)
    BY <1>7 DEF NoteOutcome, HandsOut
  <2>2. RunsEnd
    <3>0. PICK row : row = [NoRun EXCEPT !.status = OutcomeOf(start[w].reason), !.source = "schedule",
                                         !.slot = start[w].slot, !.reason = start[w].reason, !.repeat = 1]
      OBVIOUS
    <3>1. RunShape(row) /\ row.status \notin {"none", "running"}
      BY <3>0 DEF RunShape, NoRun, OutcomeOf
    <3>2. Unused # {} /\ run' = [run EXCEPT ![NextRow] = row]
      BY <3>0, <1>7 DEF NoteOutcome
    <3> QED BY <3>1, <3>2, OutcomeInserted
  <2>3. CASE Done(w)
    BY <2>1, <2>2, <2>3, StartGoesOn DEF Starters
  <2>4. CASE start' = [start EXCEPT ![w].step = "last", ![w].row = NextRow]
    <3>0. PICK new : new = [start[w] EXCEPT !.step = "last", !.row = NextRow]
      OBVIOUS
    <3>1. StartShape(new) /\ new.step = "last"
      <4>1. StartShape(start[w])
        BY <1>2 DEF Starters
      <4> QED BY <3>0, <4>1 DEF StartShape
    <3>2. start' = [start EXCEPT ![w] = new]
      BY <3>0, <2>4 DEF AutoInv, Shaped, Starters
    <3> QED BY <2>1, <2>2, <3>1, <3>2, StartMoves DEF Starters
  <2> QED BY <1>7, <2>3, <2>4 DEF NoteOutcome
<1>8. ASSUME NEW h \in Starters, LoadPipeline(h) \/ NoRunner(h) PROVE AutoInv'
  <2>1. UNCHANGED <<run, taskOf, closer, stopped, runLock>> /\ ~HandsOut(h)
    BY <1>8 DEF LoadPipeline, NoRunner, HandsOut
  <2>2. \/ Done(h) \/ \E step \in QuietSteps : Becomes(h, step)
        \/ \E reason : Refused(h, reason)
    BY <1>8 DEF LoadPipeline, NoRunner, QuietSteps
  <2> QED BY <1>1, <2>1, <2>2, StartGoesOn
<1>9. ASSUME NEW h \in Starters, CheckRunning(h) PROVE AutoInv'
  <2>1. start[h].step = "lock" /\ runLock = None /\ UNCHANGED <<run, taskOf, closer, stopped>>
    BY <1>9 DEF CheckRunning, RunLockFree
  <2>2. CASE Refused(h, "already_running") /\ UNCHANGED runLock
    BY <1>1, <2>1, <2>2, StartGoesOn DEF HandsOut
  <2>3. CASE (Running = {} \/ start[h].force) /\ Becomes(h, "insert") /\ runLock' = h
    BY <2>1, <2>3, LockTaken
  <2> QED BY <1>9, <2>2, <2>3 DEF CheckRunning
<1>10. ASSUME NEW h \in Starters, InsertRun(h) PROVE AutoInv'
  <2>0. PICK row : row = [NoRun EXCEPT !.status = "running", !.slot = start[h].slot,
                                       !.force = start[h].force,
                                       !.source = IF h \in Schedulers THEN "schedule" ELSE "manual"]
    OBVIOUS
  <2>1. RunShape(row) /\ row.status = "running" /\ row.force = start[h].force
    BY <2>0 DEF RunShape, NoRun
  <2>2. /\ Unused # {} /\ run' = [run EXCEPT ![NextRow] = row] /\ Inserting(h)
        /\ start' = [start EXCEPT ![h].step = "hand", ![h].row = NextRow]
        /\ UNCHANGED <<taskOf, closer, stopped>>
    BY <2>0, <1>10 DEF InsertRun, Inserting
  <2> QED BY <2>1, <2>2, RunInserted
<1>11. ASSUME NEW h \in Starters, NEW step \in {"link", "recheck", "discard", "fail"}, NEW reason,
              HandsOut(h), start' = [start EXCEPT ![h].step = step, ![h].reason = reason],
              \/ UNCHANGED taskOf
              \/ start[h].step = "hand" /\ taskOf' = [taskOf EXCEPT ![start[h].row] = "open"],
              UNCHANGED run \/ run' = [run EXCEPT ![start[h].row].linked = TRUE],
              step \in {"link", "recheck"} => taskOf'[start[h].row] # "none",
              step = "recheck" => run'[start[h].row].linked,
              UNCHANGED <<closer, stopped, runLock>>
       PROVE  AutoInv'
  <2>0. PICK new : new = [start[h] EXCEPT !.step = step, !.reason = reason]
    OBVIOUS
  <2>1. StartShape(new) /\ new.step = step /\ new.row = start[h].row
    <3>1. StartShape(start[h])
      BY <1>2
    <3> QED BY <2>0, <3>1 DEF StartShape
  <2>2. start' = [start EXCEPT ![h] = new]
    BY <2>0, <1>11 DEF AutoInv, Shaped
  <2> QED BY <1>11, <2>1, <2>2, WorkGoesOn
<1>12. ASSUME NEW h \in Starters, NEW step, Becomes(h, step)
       PROVE  start' = [start EXCEPT ![h].step = step, ![h].reason = start[h].reason]
  <2>1. [start[h] EXCEPT !.step = step] = [start[h] EXCEPT !.step = step, !.reason = start[h].reason]
    BY <1>2 DEF StartShape
  <2> QED BY <1>12, <2>1 DEF Becomes, AutoInv, Shaped
<1>13. ASSUME NEW h \in Starters, HandOut(h) PROVE AutoInv'
  <2>1. /\ HandsOut(h) /\ start[h].step = "hand" /\ taskOf' = [taskOf EXCEPT ![start[h].row] = "open"]
        /\ Becomes(h, "link") /\ UNCHANGED <<run, closer, stopped, runLock>>
    BY <1>13 DEF HandOut, HandsOut
  <2>2. taskOf'[start[h].row] = "open"
    BY <2>1 DEF AutoInv, Shaped, TasksInv, InHand
  <2> QED BY <1>11, <1>12, <2>1, <2>2
<1>14. ASSUME NEW h \in Starters, HandOutFails(h) PROVE AutoInv'
  <2>1. PICK step \in {"discard", "fail"} :
           start' = [start EXCEPT ![h].step = step, ![h].reason = "start_error"]
    BY <1>14 DEF HandOutFails
  <2>2. HandsOut(h) /\ UNCHANGED <<run, taskOf, closer, stopped, runLock>>
    BY <1>14 DEF HandOutFails, HandsOut
  <2> QED BY <1>11, <2>1, <2>2
<1>15. ASSUME NEW h \in Starters, LinkTask(h) PROVE AutoInv'
  <2>1. /\ HandsOut(h) /\ run' = [run EXCEPT ![start[h].row].linked = TRUE]
        /\ Becomes(h, "recheck") /\ UNCHANGED <<taskOf, closer, stopped, runLock>>
    BY <1>15 DEF LinkTask, HandsOut
  <2>2. start[h].row \in Rows /\ taskOf[start[h].row] # "none"
    BY <1>15, <2>1 DEF LinkTask, AutoInv, TasksInv, InHand, HandedOut
  <2>3. run'[start[h].row].linked
    <3>1. run'[start[h].row] = [run[start[h].row] EXCEPT !.linked = TRUE] /\ RunShape(run[start[h].row])
      BY <2>1, <2>2 DEF AutoInv, Shaped
    <3> QED BY <3>1 DEF RunShape
  <2> QED BY <1>11, <1>12, <2>1, <2>2, <2>3
<1>16. ASSUME NEW h \in Starters, RecheckTask(h) PROVE AutoInv'
  <2> DEFINE r == start[h].row
  <2>1. HandsOut(h) /\ r \in Rows /\ Used(r) /\ UNCHANGED <<taskOf, closer, stopped, runLock>>
    BY <1>16 DEF RecheckTask, HandsOut, AutoInv, TasksInv, InHand
  <2>2. CASE TaskClosed(r) /\ run[r].status = "running"
    <3>1. /\ Becomes(h, "sync") /\ run' = [run EXCEPT ![r].status = taskOf[r]]
          /\ taskOf[r] \notin {"none", "running"}
      BY <1>16, <2>2 DEF RecheckTask, EndRun, TaskClosed, Ended
    <3>2. RunsEnd /\ run'[r].status # "running"
      BY <2>1, <3>1, OneRowEnds
    <3> QED BY <2>1, <3>1, <3>2, StartGoesOn DEF QuietSteps
  <2>3. CASE ~TaskClosed(r)
    BY <1>16, <2>1, <2>3, HandedOver DEF RecheckTask
  <2>4. CASE run[r].status # "running"
    <3>1. Done(h) /\ UNCHANGED run
      BY <1>16, <2>4 DEF RecheckTask
    <3> QED BY <1>1, <2>1, <2>4, <3>1, StartGoesOn
  <2> QED BY <2>2, <2>3, <2>4
<1>17. ASSUME NEW h \in Starters, DiscardRun(h) \/ FailRun(h) PROVE AutoInv'
  <2> DEFINE r == start[h].row
  <2>1. r \in Rows /\ Used(r) /\ UNCHANGED <<taskOf, closer, stopped, runLock>>
    BY <1>17 DEF DiscardRun, FailRun, HandsOut, AutoInv, TasksInv, InHand
  <2>2. \/ Becomes(h, "record") \/ Becomes(h, "sync") \/ \E reason : Refused(h, reason)
    BY <1>17 DEF DiscardRun, FailRun
  <2>3. RunsEnd /\ run'[r].status # "running"
    <3>1. CASE run[r].status # "running"
      BY <1>1, <1>17, <3>1 DEF DiscardRun, FailRun, EndRun
    <3>2. CASE run[r].status = "running"
      <4>1. PICK status \in {"discarded", "failed"} : run' = [run EXCEPT ![r].status = status]
        BY <1>17, <3>2 DEF DiscardRun, FailRun, EndRun
      <4> QED BY <2>1, <4>1, OneRowEnds
    <3> QED BY <3>1, <3>2
  <2> QED BY <2>1, <2>2, <2>3, StartGoesOn DEF QuietSteps
<1>18. ASSUME NEW h \in Starters, CleanUpFails(h) \/ SyncLastRun(h) \/ Crash(h) PROVE AutoInv'
  <2>1. /\ UNCHANGED <<run, taskOf, closer>> /\ (stopped => stopped') /\ (HandsOut(h) => stopped')
        /\ runLock' = runLock \/ (runLock = h /\ runLock' = None)
    <3>1. CASE CleanUpFails(h)
      BY <3>1 DEF CleanUpFails
    <3>2. CASE SyncLastRun(h)
      BY <3>2 DEF SyncLastRun, HandsOut
    <3>3. CASE Crash(h)
      BY <3>3 DEF Crash
    <3> QED BY <1>18, <3>1, <3>2, <3>3
  <2>2. Done(h) \/ \E reason : Refused(h, reason)
    BY <1>18 DEF CleanUpFails, SyncLastRun, Crash
  <2> QED BY <1>1, <2>1, <2>2, StartGoesOn
<1>19. ASSUME NEW p \in People, NEW force, RunNow(p, force) PROVE AutoInv'
  <2>0. PICK new : new = [NoStart EXCEPT !.step = "load", !.force = force]
    OBVIOUS
  <2>1. StartShape(new) /\ new.step = "load"
    BY <2>0 DEF StartShape, NoStart
  <2>2. /\ start' = [start EXCEPT ![p] = new] /\ ~HandsOut(p)
        /\ UNCHANGED <<run, taskOf, closer, stopped, runLock>>
    BY <2>0, <1>19 DEF RunNow, HandsOut
  <2> QED BY <1>1, <2>1, <2>2, StartMoves DEF Starters
<1>20. ASSUME \/ SlotComesDue \/ ReportLastRun
              \/ \E r \in Rows : \E status \in Reported : ReportRead(r, status)
              \/ \E p \in People : EditWrite(p) \/ \E to : EditRead(p, to)
       PROVE  AutoInv'
  <2>1. UNCHANGED <<run, start, taskOf, closer, stopped, runLock>>
    BY <1>20 DEF SlotComesDue, ReportLastRun, ReportRead, EditWrite, EditRead
  <2> QED BY <1>1, <2>1, RowsMove
<1>21. ASSUME NEW p \in People, CloseScheduleStreak(p) PROVE AutoInv'
  <2>1. /\ UNCHANGED <<start, taskOf, closer, stopped, runLock>>
        /\ run' = [r \in Rows |-> IF run[r].reason # "" THEN [run[r] EXCEPT !.streakClosed = TRUE]
                                  ELSE run[r]]
    BY <1>21 DEF CloseScheduleStreak
  <2>2. ASSUME NEW r \in Rows
        PROVE  RunShape(run'[r]) /\ run'[r].status = run[r].status /\ SameRun(r)
    <3>1. RunShape(run[r])
      BY DEF AutoInv, Shaped
    <3> QED BY <2>1, <3>1 DEF RunShape, SameRun
  <2>3. RunsEnd
    BY <2>1, <2>2, NotesKept
  <2> QED BY <2>1, <2>3, RowsMove
<1>22. ASSUME NEW r \in Rows, NEW status \in Ended, AgentClosesTask(r, status) PROVE AutoInv'
  <2>1. /\ taskOf[r] = "open" /\ taskOf' = [taskOf EXCEPT ![r] = status]
        /\ closer' = [closer EXCEPT ![r] = "close"] /\ UNCHANGED <<run, start, stopped, runLock>>
    BY <1>22 DEF AgentClosesTask
  <2>2. /\ taskOf' \in [Rows -> Ended \cup {"none", "open"}] /\ taskOf'[r] \in Ended
        /\ \A q \in Rows : taskOf'[q] = taskOf[q] \/ (taskOf[q] = "open" /\ q = r)
    BY <2>1 DEF AutoInv, Shaped
  <2> QED BY <1>1, <2>1, <2>2, CloserMoves
<1>23. ASSUME NEW r \in Rows, CloseRunForTask(r) PROVE AutoInv'
  <2>1. /\ closer[r] = "close" /\ UNCHANGED <<start, taskOf, stopped, runLock>>
        /\ taskOf \in [Rows -> Ended \cup {"none", "open"}]
    BY <1>23 DEF CloseRunForTask, AutoInv, Shaped
  <2>2. CASE run[r].linked /\ run[r].status = "running"
    <3>1. run' = [run EXCEPT ![r].status = taskOf[r]] /\ closer' = [closer EXCEPT ![r] = "sync"]
      BY <1>23, <2>2 DEF CloseRunForTask, EndRun
    <3>2. taskOf[r] \notin {"none", "running"} /\ Used(r)
      BY <2>1, <2>2 DEF AutoInv, TasksInv, Closing, Ended, Used
    <3>3. RunsEnd /\ run'[r].status # "running"
      BY <3>1, <3>2, OneRowEnds
    <3> QED BY <2>1, <3>1, <3>3, CloserMoves
  <2>3. CASE ~(run[r].linked /\ run[r].status = "running")
    <3>1. UNCHANGED run /\ closer' = [closer EXCEPT ![r] = "none"]
      BY <1>23, <2>3 DEF CloseRunForTask
    <3> QED BY <1>1, <2>1, <2>3, <3>1, CloserMoves
  <2> QED BY <2>2, <2>3
<1>24. ASSUME NEW r \in Rows, SyncClosedRun(r) \/ CloserStops(r) PROVE AutoInv'
  <2>1. /\ UNCHANGED <<run, start, taskOf, runLock>> /\ (stopped => stopped')
        /\ closer' = [closer EXCEPT ![r] = "none"] /\ (closer[r] = "sync" \/ stopped')
        /\ taskOf \in [Rows -> Ended \cup {"none", "open"}]
    BY <1>24 DEF SyncClosedRun, CloserStops, AutoInv, Shaped
  <2> QED BY <1>1, <2>1, CloserMoves
<1>25. ASSUME ReportWrite PROVE AutoInv'
  <2> DEFINE r == report.row
  <2>1. UNCHANGED <<start, taskOf, closer, stopped, runLock>>
    BY <1>25 DEF ReportWrite
  <2>2. CASE r \in Rows /\ StillReported(r)
    <3>1. /\ run' = [run EXCEPT ![r].status = report.status, ![r].repeat = report.repeat,
                               ![r].streakClosed = report.streakClosed]
          /\ report.status = "running" /\ run[r].status # "running" => r \in reopened'
      BY <1>25, <2>2 DEF ReportWrite
    <3>2. PICK row : row = [run[r] EXCEPT !.status = report.status, !.repeat = report.repeat,
                                          !.streakClosed = report.streakClosed]
      OBVIOUS
    <3>3. RunShape(run[r])
      BY <2>2 DEF AutoInv, Shaped
    <3>4. /\ RunShape(row) /\ row.status = report.status /\ row.source = run[r].source
          /\ row.slot = run[r].slot /\ row.force = run[r].force /\ row.linked = run[r].linked
      BY <3>2, <3>3 DEF RunShape
    <3>5. run' = [q \in Rows |-> run'[q]] /\ \A q \in Rows : run'[q] = IF q = r THEN row ELSE run[q]
      BY <2>2, <3>1, <3>2 DEF AutoInv, Shaped
    <3>6. ASSUME NEW q \in Rows PROVE RunShape(run'[q]) /\ SameRun(q)
      BY <3>4, <3>5 DEF AutoInv, Shaped, SameRun
    <3>7. RunsEnd
      <4>1. Used(r) /\ report.status # "none"
        BY <1>25, <2>2 DEF StillReported, Used, ReportWrite, Reporting, Reported, Ended
      <4>2. \A q \in Rows : Used(q)' <=> Used(q)
        BY <3>4, <3>5, <4>1 DEF Used
      <4>3. NoGaps'
        BY <4>2 DEF AutoInv, RunsInv, NoGaps
      <4>4. ASSUME NEW q \in Rows, run'[q].status = "running"
            PROVE  Used(q) /\ (run[q].status = "running" \/ q \in reopened')
        BY <3>1, <3>4, <3>5, <4>1, <4>4 DEF Used
      <4> QED BY <3>5, <3>6, <4>2, <4>3, <4>4 DEF RunsEnd
    <3> QED BY <2>1, <3>7, RowsMove
  <2>3. CASE ~StillReported(r)
    <3>1. UNCHANGED run
      BY <1>25, <2>3 DEF ReportWrite
    <3> QED BY <1>1, <2>1, <3>1, RowsMove
  <2> QED BY <1>25, <2>2, <2>3 DEF ReportWrite, Reporting
<1>26. ASSUME NEW source \in {"agent", "schedule"}, NEW status \in Reported, ReportStart(source, status)
       PROVE  AutoInv'
  <2>0. PICK row : row = [NoRun EXCEPT !.status = status, !.source = source]
    OBVIOUS
  <2>1. RunShape(row) /\ row.status = status /\ row.source = source /\ row.slot = 0
    BY <2>0 DEF RunShape, NoRun
  <2>2. /\ Unused # {} /\ run' = [run EXCEPT ![NextRow] = row]
        /\ UNCHANGED <<start, taskOf, closer, stopped, runLock>>
    BY <2>0, <1>26 DEF ReportStart
  <2>3. CASE status = "running"
    BY <2>1, <2>2, <2>3, RunInserted
  <2>4. CASE status # "running"
    <3>1. row.status \notin {"none", "running"}
      BY <2>1, <2>4 DEF Reported, Ended
    <3>2. RunsEnd
      BY <2>1, <2>2, <3>1, OutcomeInserted
    <3> QED BY <2>2, <3>2, RowsMove
  <2> QED BY <2>3, <2>4
<1>27. CASE UNCHANGED autoVars
  BY <1>1, <1>27, RowsMove DEF autoVars
<1>28. ASSUME NEW h \in Starters, StartStep(h) \/ Crash(h) PROVE AutoInv'
  BY <1>8, <1>9, <1>10, <1>13, <1>14, <1>15, <1>16, <1>17, <1>18, <1>28 DEF StartStep
<1>29. ASSUME NEW w \in Schedulers, SelectScheduled(w) \/ SchedulerStep(w) PROVE AutoInv'
  BY <1>3, <1>4, <1>5, <1>6, <1>7, <1>29 DEF SchedulerStep
<1>30. ASSUME NEW p \in People, \/ \E force \in BOOLEAN : RunNow(p, force)
                                \/ \E to \in Edits : EditRead(p, to)
                                \/ EditWrite(p) \/ CloseScheduleStreak(p)
       PROVE  AutoInv'
  BY <1>19, <1>20, <1>21, <1>30
<1>31. ASSUME NEW r \in Rows, \/ \E status \in Ended : AgentClosesTask(r, status)
                              \/ CloserStep(r) \/ CloserStops(r)
       PROVE  AutoInv'
  BY <1>22, <1>23, <1>24, <1>31 DEF CloserStep
<1> QED BY <1>20, <1>25, <1>26, <1>27, <1>28, <1>29, <1>30, <1>31 DEF AutoNext

-----------------------------------------------------------------------------
(***************************************************************************)
(* Two starts never leave two runs going on side by side, unless the later *)
(* was forced, or one is the agent's own or was set back to running by a   *)
(* report: pipeline-runs.ts checks and inserts under one advisory lock,    *)
(* which a report does not take.                                           *)
(***************************************************************************)
THEOREM OneRunGoesOn == AutoSpec => []OneRunning
<1>1. AutoInit => AutoInv /\ Reporting BY AutoInvInit, ReportingInit
<1>2. AutoInv /\ Reporting /\ [AutoNext]_autoVars => AutoInv' /\ Reporting'
  BY AutoInvStep, ReportsMove
<1>3. AutoInv => OneRunning BY DEF AutoInv, RunsInv
<1> QED BY <1>1, <1>2, <1>3, PTL DEF AutoSpec

(***************************************************************************)
(* A run goes on only while it is handed out, or its task is open or just  *)
(* closed, whichever of the task's end and the row's link comes first:     *)
(* unless a process stopped or a clean-up failed, or a report set the run  *)
(* back to running.                                                        *)
(***************************************************************************)
THEOREM RunsFollowTasks == AutoSpec => []RunFollowsItsTask
<1>1. AutoInit => AutoInv /\ Reporting BY AutoInvInit, ReportingInit
<1>2. AutoInv /\ Reporting /\ [AutoNext]_autoVars => AutoInv' /\ Reporting'
  BY AutoInvStep, ReportsMove
<1>3. AutoInv => RunFollowsItsTask BY DEF AutoInv, TasksInv
<1> QED BY <1>1, <1>2, <1>3, PTL DEF AutoSpec

-----------------------------------------------------------------------------
(***************************************************************************)
(* Why every value stays in its type: the row a handler is about to write, *)
(* or to write on the automation as its last run, is one there is.         *)
(***************************************************************************)
RowsAtHand == \A h \in Starters : start[h].step \in {"sync", "count"} => start[h].row \in Rows
TypeInv == TypeOK /\ RowsAtHand

LEMMA TypeInvInit == ASSUME AutoInit PROVE TypeInv
<1>1. NoRun \in Run
  BY AutomationsAssumption DEF NoRun, Run, Statuses, Reported
<1>2. NoStart \in Start
  BY AutomationsAssumption DEF NoStart, Start
<1>3. NoEdit \in Edit
  BY AutomationsAssumption DEF NoEdit, Edit
<1>4. pipeline \in [status: {"active", "paused"}, nextRunAt: 0..MaxTime + 1,
                    lastRunAt: 0..MaxRuns, lastRunStatus: Statuses]
  BY AutomationsAssumption DEF AutoInit, Statuses
<1>5. report \in Report
  BY AutomationsAssumption DEF AutoInit, NoReport, Report, Reported
<1>6. left \in [Kinds -> Nat]
  BY AutomationsAssumption DEF AutoInit
<1>7. TypeOK
  <2>1. run \in [Rows -> Run] /\ start \in [Starters -> Start] /\ edit \in [People -> Edit]
    BY <1>1, <1>2, <1>3 DEF AutoInit
  <2>2. taskOf \in [Rows -> Ended \cup {"none", "open"}] /\ closer \in [Rows -> {"none", "close", "sync"}]
    BY DEF AutoInit
  <2>3. clock \in 0..MaxTime
    BY AutomationsAssumption DEF AutoInit
  <2>5. stopped \in BOOLEAN
    BY DEF AutoInit
  <2>4. restored \subseteq 0..MaxTime + 1 /\ reopened \subseteq Rows /\ runLock \in Starters \cup {None}
    BY DEF AutoInit
  <2> QED BY <1>4, <1>5, <1>6, <2>1, <2>2, <2>3, <2>4, <2>5 DEF TypeOK
<1>8. RowsAtHand
  BY DEF AutoInit, RowsAtHand, NoStart
<1> QED BY <1>7, <1>8 DEF TypeInv

Steps == {"idle", "unset", "claim", "load", "lock", "insert", "hand", "link", "recheck",
          "discard", "fail", "sync", "record", "count", "note", "last", "pause"}

\* One start goes on, with the slot, the time and the row it has.
Goes(h, step) ==
    /\ start' \in [Starters -> Start]
    /\ \A g \in Starters : g # h => start'[g] = start[g]
    /\ start'[h].step = step /\ start'[h].slot = start[h].slot /\ start'[h].row = start[h].row

\* One start is over.
IsDone(h) ==
    /\ start' \in [Starters -> Start]
    /\ \A g \in Starters : g # h => start'[g] = start[g]
    /\ start'[h] = NoStart /\ start'[h].step = "idle" /\ start'[h].slot = 0

LEMMA StartReplaced ==
    ASSUME TypeOK, NEW h \in Starters, NEW new \in Start, start' = [start EXCEPT ![h] = new]
    PROVE  /\ start' \in [Starters -> Start] /\ start'[h] = new
           /\ \A g \in Starters : g # h => start'[g] = start[g]
  BY DEF TypeOK

LEMMA ItGoes ==
    ASSUME TypeOK, NEW h \in Starters, NEW step \in Steps, Becomes(h, step)
    PROVE  Goes(h, step) /\ start'[h].reason = start[h].reason
<1>0. PICK new : new = [start[h] EXCEPT !.step = step]
  OBVIOUS
<1>1. start[h] \in Start
  BY DEF TypeOK
<1>2. /\ new \in Start /\ new.step = step /\ new.slot = start[h].slot /\ new.row = start[h].row
      /\ new.reason = start[h].reason
  BY <1>0, <1>1 DEF Start, Steps
<1>3. start' = [start EXCEPT ![h] = new]
  BY <1>0 DEF Becomes
<1> QED BY <1>2, <1>3, StartReplaced DEF Goes

LEMMA ItGoesWith ==
    ASSUME TypeOK, NEW h \in Starters, NEW step \in Steps, NEW reason \in Reasons \cup {""},
           start' = [start EXCEPT ![h].step = step, ![h].reason = reason]
    PROVE  Goes(h, step) /\ start'[h].reason = reason
<1>0. PICK new : new = [start[h] EXCEPT !.step = step, !.reason = reason]
  OBVIOUS
<1>1. start[h] \in Start
  BY DEF TypeOK
<1>2. /\ new \in Start /\ new.step = step /\ new.slot = start[h].slot /\ new.row = start[h].row
      /\ new.reason = reason
  BY <1>0, <1>1 DEF Start, Steps
<1>3. start' = [start EXCEPT ![h] = new]
  BY <1>0 DEF TypeOK
<1> QED BY <1>2, <1>3, StartReplaced DEF Goes

LEMMA ItIsDone == ASSUME TypeOK, NEW h \in Starters, Done(h) PROVE IsDone(h)
<1>1. NoStart \in Start /\ NoStart.step = "idle" /\ NoStart.slot = 0
  BY AutomationsAssumption DEF NoStart, Start
<1> QED BY <1>1, StartReplaced DEF Done, IsDone

LEMMA ItIsRefused ==
    ASSUME TypeOK, NEW h \in Starters, NEW reason \in Reasons \cup {""}, Refused(h, reason)
    PROVE  IsDone(h) \/ (Goes(h, "record") /\ start'[h].reason = reason)
<1>1. CASE h \in Schedulers
  BY <1>1, ItGoesWith DEF Refused, Steps
<1>2. CASE h \notin Schedulers
  BY <1>2, ItIsDone DEF Refused
<1> QED BY <1>1, <1>2

\* Rows keep their slot and their reason.
SlotsKept == \A r \in Rows : run'[r].slot = run[r].slot /\ run'[r].reason = run[r].reason

LEMMA StatusWritten ==
    ASSUME TypeOK, NEW r \in Rows, NEW status \in Statuses, run' = [run EXCEPT ![r].status = status]
    PROVE  /\ run' \in [Rows -> Run] /\ SlotsKept
           /\ \A q \in Rows : run'[q].status = IF q = r THEN status ELSE run[q].status
<1>1. \A q \in Rows : run'[q] = IF q = r THEN [run[q] EXCEPT !.status = status] ELSE run[q]
  BY DEF TypeOK
<1>2. ASSUME NEW x \in Run
      PROVE  /\ [x EXCEPT !.status = status] \in Run /\ [x EXCEPT !.status = status].status = status
             /\ [x EXCEPT !.status = status].slot = x.slot /\ [x EXCEPT !.status = status].reason = x.reason
  BY DEF Run, Statuses
<1>3. \A q \in Rows : run[q] \in Run
  BY DEF TypeOK
<1>4. run' \in [Rows -> Run]
  BY <1>1, <1>2, <1>3 DEF TypeOK
<1> QED BY <1>1, <1>2, <1>3, <1>4 DEF SlotsKept

\* The row that was started last, or 0.
LEMMA LatestTyped == Latest \in 0..MaxRuns
<1> DEFINE used == {r \in Rows : run[r].status \notin {"none", "discarded"}}
           gaps == {MaxRuns - r : r \in used}
<1>1. CASE used = {}
  BY <1>1, AutomationsAssumption DEF Latest
<1>2. CASE used # {}
  <2>1. \A r \in used : r \in Nat /\ r \in 0..MaxRuns /\ MaxRuns - r \in Nat
    BY AutomationsAssumption DEF Rows
  <2>2. gaps \in SUBSET Nat /\ gaps # {}
    BY <1>2, <2>1
  <2>3. PICK g \in gaps : \A k \in gaps : g <= k
    BY <2>2, LeastNumber
  <2>4. PICK r \in used : g = MaxRuns - r
    BY <2>3
  <2>5. \A s \in used : MaxRuns - r <= MaxRuns - s
    BY <2>3, <2>4
  <2>6. \A s \in used : s <= r
    BY <2>1, <2>5, AutomationsAssumption
  <2>7. Latest \in used
    BY <1>2, <2>6 DEF Latest
  <2> QED BY <2>1, <2>7
<1> QED BY <1>1, <1>2

\* What changes no row and no start that is about to write one on the automation.
LEMMA HandsKeep ==
    ASSUME TypeInv,
           \A h \in Starters :
              start'[h] = start[h] \/ start'[h].step \notin {"sync", "count"} \/ start'[h].row \in Rows
    PROVE  RowsAtHand'
  BY DEF TypeInv, RowsAtHand

LEMMA Spent == ASSUME TypeOK, NEW k \in Kinds, Spend(k) PROVE left' \in [Kinds -> Nat]
  BY DEF TypeOK, Spend

PipelineType ==
    pipeline \in [status: {"active", "paused"}, nextRunAt: 0..MaxTime + 1,
                  lastRunAt: 0..MaxRuns, lastRunStatus: Statuses]

\* A step of a start that changes no more than the automation, rows, tasks and the lock.
LEMMA StartTypes ==
    ASSUME TypeInv, NEW h \in Starters,
           IsDone(h) \/ \E step \in Steps : Goes(h, step), 
           start'[h].step \in {"sync", "count"} => start'[h].row \in Rows, run' \in [Rows -> Run],
           PipelineType', runLock' \in Starters \cup {None}, left' \in [Kinds -> Nat],
           taskOf' \in [Rows -> Ended \cup {"none", "open"}], stopped' \in BOOLEAN,
           UNCHANGED <<clock, edit, closer, report, restored, reopened>>
    PROVE  TypeInv'
<1>1. start' \in [Starters -> Start] /\ \A g \in Starters : g # h => start'[g] = start[g]
  BY DEF IsDone, Goes
<1>2. TypeOK'
  BY <1>1 DEF TypeInv, TypeOK, PipelineType
<1>3. RowsAtHand'
  BY <1>1, HandsKeep
<1> QED BY <1>2, <1>3 DEF TypeInv

LEMMA TypeInvStep == ASSUME AutoInv, Reporting, TypeInv, [AutoNext]_autoVars PROVE TypeInv'
<1>1. /\ TypeOK /\ PipelineType /\ report \in Report /\ run \in [Rows -> Run] /\ left \in [Kinds -> Nat]
      /\ runLock \in Starters \cup {None} /\ taskOf \in [Rows -> Ended \cup {"none", "open"}]
      /\ stopped \in BOOLEAN /\ clock \in Nat /\ MaxTime \in Nat /\ clock <= MaxTime
  BY AutomationsAssumption DEF TypeInv, TypeOK, PipelineType
<1>2. \A h \in Starters : start[h] \in Start /\ (HandsOut(h) => start[h].row \in Rows /\ Used(start[h].row))
  BY DEF TypeInv, TypeOK, AutoInv, TasksInv, InHand
<1>3. Unused # {} => NextRow \in Rows /\ NextRow \in 0..MaxRuns /\ ~Used(NextRow)
  BY NextRowIsNext, AutomationsAssumption DEF AutoInv, RunsInv, Rows
<1>4. ASSUME NEW row \in Run, Unused # {}, run' = [run EXCEPT ![NextRow] = row]
      PROVE  run' \in [Rows -> Run] /\ run'[NextRow] = row
  BY <1>1, <1>3, <1>4
<1>5. ASSUME NEW h \in Starters, Done(h) PROVE IsDone(h)
  BY <1>1, <1>5, ItIsDone
<1>6. ASSUME NEW w \in Schedulers, SelectScheduled(w) PROVE TypeInv'
  <2>0. PICK new : new = [NoStart EXCEPT !.step = IF pipeline.nextRunAt = 0 THEN "unset" ELSE "claim",
                                         !.slot = pipeline.nextRunAt, !.now = clock]
    OBVIOUS
  <2>1. pipeline.nextRunAt \in 0..MaxTime /\ clock \in 0..MaxTime
    BY <1>1, <1>6 DEF SelectScheduled, PipelineType
  <2>2. new \in Start /\ new.step \in {"unset", "claim"}
    <3>1. NoStart \in Start
      BY AutomationsAssumption DEF NoStart, Start
    <3>2. PICK step \in {"unset", "claim"} :
             new = [NoStart EXCEPT !.step = step, !.slot = pipeline.nextRunAt, !.now = clock]
      BY <2>0
    <3> QED BY <2>1, <3>1, <3>2 DEF Start
  <2>3. start' = [start EXCEPT ![w] = new] /\ left' \in [Kinds -> Nat]
    BY <2>0, <1>1, <1>6, Spent DEF SelectScheduled, Kinds
  <2>4. /\ start' \in [Starters -> Start] /\ start'[w] = new
        /\ \A g \in Starters : g # w => start'[g] = start[g]
    BY <1>1, <2>2, <2>3, StartReplaced DEF Starters
  <2>5. UNCHANGED <<clock, pipeline, run, taskOf, runLock, edit, closer, report, stopped, restored, reopened>>
    BY <1>6 DEF SelectScheduled
  <2>6. TypeOK'
    BY <2>3, <2>4, <2>5 DEF TypeInv, TypeOK
  <2>7. RowsAtHand'
    BY <2>2, <2>4, <2>5, HandsKeep
  <2> QED BY <2>6, <2>7 DEF TypeInv
<1>7. ASSUME NEW w \in Schedulers, SetFirstSlot(w) \/ ClaimSlot(w) PROVE TypeInv'
  <2>1. start[w].now + 1 \in 0..MaxTime + 1
    <3>1. start[w].now \in 0..MaxTime
      BY <1>2 DEF Start, Starters
    <3> QED BY <1>1, <3>1
  <2>2. pipeline' = [pipeline EXCEPT !.nextRunAt = start[w].now + 1] \/ pipeline' = pipeline
    BY <1>7 DEF SetFirstSlot, ClaimSlot, ComputeNextRunAt
  <2>3. PipelineType'
    BY <1>1, <2>1, <2>2 DEF PipelineType
  <2>4. IsDone(w) \/ Goes(w, "load")
    BY <1>1, <1>5, <1>7, ItGoes DEF SetFirstSlot, ClaimSlot, Starters, Steps
  <2>5. UNCHANGED <<clock, run, taskOf, runLock, edit, closer, report, left, stopped, restored, reopened>>
    BY <1>7 DEF SetFirstSlot, ClaimSlot
  <2>6. start'[w].step \notin {"sync", "count"} /\ "load" \in Steps
    BY <2>4 DEF IsDone, Goes, Steps
  <2> QED BY <1>1, <2>3, <2>4, <2>5, <2>6, StartTypes DEF Starters
<1>8. ASSUME NEW p \in People, NEW force \in BOOLEAN, RunNow(p, force) PROVE TypeInv'
  <2>0. PICK new : new = [NoStart EXCEPT !.step = "load", !.force = force]
    OBVIOUS
  <2>1. NoStart \in Start
    BY AutomationsAssumption DEF NoStart, Start
  <2>2. new \in Start /\ new.step = "load"
    BY <2>0, <2>1 DEF Start
  <2>3. start' = [start EXCEPT ![p] = new] /\ left' \in [Kinds -> Nat]
    BY <2>0, <1>1, <1>8, Spent DEF RunNow, Kinds
  <2>4. /\ start' \in [Starters -> Start] /\ start'[p] = new
        /\ \A g \in Starters : g # p => start'[g] = start[g]
    BY <1>1, <2>2, <2>3, StartReplaced DEF Starters
  <2>5. UNCHANGED <<clock, pipeline, run, taskOf, runLock, edit, closer, report, stopped, restored, reopened>>
    BY <1>8 DEF RunNow
  <2>6. TypeOK'
    BY <2>3, <2>4, <2>5 DEF TypeInv, TypeOK
  <2>7. RowsAtHand'
    BY <2>2, <2>4, <2>5, HandsKeep
  <2> QED BY <2>6, <2>7 DEF TypeInv
\* The steps of a start that write no row.
<1>9. ASSUME NEW h \in Starters, NEW step \in Steps \ {"sync", "count"},
             IsDone(h) \/ Goes(h, step),
             UNCHANGED run, PipelineType', runLock' \in Starters \cup {None}, left' \in [Kinds -> Nat],
             taskOf' \in [Rows -> Ended \cup {"none", "open"}], stopped' \in BOOLEAN,
             UNCHANGED <<clock, edit, closer, report, restored, reopened>>
      PROVE  TypeInv'
  <2>1. start'[h].step \notin {"sync", "count"} /\ (IsDone(h) \/ \E s \in Steps : Goes(h, s))
    BY <1>9 DEF IsDone, Goes
  <2> QED BY <1>1, <1>9, <2>1, StartTypes
<1>10. ASSUME NEW h \in Starters, LoadPipeline(h) \/ NoRunner(h) \/ CheckRunning(h) PROVE TypeInv'
  <2>1. /\ UNCHANGED <<clock, pipeline, run, taskOf, edit, closer, report, stopped, restored, reopened>>
        /\ left' \in [Kinds -> Nat] /\ runLock' \in Starters \cup {None}
    <3>1. CASE NoRunner(h)
      BY <1>1, <3>1, Spent DEF NoRunner, Kinds
    <3>2. CASE LoadPipeline(h) \/ CheckRunning(h)
      BY <1>1, <3>2 DEF LoadPipeline, CheckRunning
    <3> QED BY <1>10, <3>1, <3>2
  <2>2. \/ Done(h) \/ \E step \in {"lock", "insert"} : Becomes(h, step)
        \/ \E reason \in Reasons : Refused(h, reason)
    BY <1>10 DEF LoadPipeline, NoRunner, CheckRunning, Reasons
  <2>3. PICK step \in {"lock", "insert", "record"} : IsDone(h) \/ Goes(h, step)
    BY <1>1, <1>5, <2>2, ItGoes, ItIsRefused DEF Steps
  <2> QED BY <1>1, <1>9, <2>1, <2>3 DEF PipelineType, Steps
<1>11. ASSUME NEW h \in Starters, InsertRun(h) PROVE TypeInv'
  <2>0. PICK row : row = [NoRun EXCEPT !.status = "running", !.slot = start[h].slot,
                                       !.force = start[h].force,
                                       !.source = IF h \in Schedulers THEN "schedule" ELSE "manual"]
    OBVIOUS
  <2>1. row \in Run
    <3>1. NoRun \in Run
      BY AutomationsAssumption DEF NoRun, Run, Statuses, Reported
    <3>2. start[h].slot \in 0..MaxTime /\ start[h].force \in BOOLEAN
      BY <1>2 DEF Start
    <3> QED BY <2>0, <3>1, <3>2 DEF Run, Statuses, Reported
  <2>2. Unused # {} /\ run' = [run EXCEPT ![NextRow] = row]
    BY <2>0, <1>11 DEF InsertRun
  <2>3. PICK new : new = [start[h] EXCEPT !.step = "hand", !.row = NextRow]
    OBVIOUS
  <2>4. start' = [start EXCEPT ![h] = new] /\ new \in Start /\ new.step = "hand"
    <3>1. start' = [start EXCEPT ![h] = new]
      BY <1>1, <2>3, <1>11 DEF InsertRun, TypeOK
    <3> QED BY <1>2, <1>3, <2>2, <2>3, <3>1 DEF Start
  <2>5. /\ start' \in [Starters -> Start] /\ start'[h] = new
        /\ \A g \in Starters : g # h => start'[g] = start[g]
    BY <1>1, <2>4, StartReplaced
  <2>6. PipelineType'
    <3>1. pipeline' = [pipeline EXCEPT !.lastRunAt = NextRow, !.lastRunStatus = "running"]
      BY <1>11 DEF InsertRun
    <3> QED BY <1>1, <1>3, <2>2, <3>1 DEF PipelineType, Statuses, Reported
  <2>7. UNCHANGED <<clock, taskOf, edit, closer, report, left, stopped, restored, reopened>> /\ runLock' = None
    BY <1>11 DEF InsertRun
  <2>8. TypeOK'
    BY <1>1, <1>4, <2>1, <2>2, <2>5, <2>6, <2>7 DEF TypeOK, PipelineType
  <2>9. RowsAtHand'
    BY <1>4, <2>1, <2>2, <2>4, <2>5, <2>7, HandsKeep
  <2> QED BY <2>8, <2>9 DEF TypeInv
<1>12. ASSUME NEW h \in Starters, HandOut(h) \/ HandOutFails(h) PROVE TypeInv'
  <2>1. UNCHANGED <<clock, pipeline, run, runLock, edit, closer, report, stopped, restored, reopened>>
    BY <1>12 DEF HandOut, HandOutFails
  <2>2. /\ taskOf' \in [Rows -> Ended \cup {"none", "open"}] /\ left' \in [Kinds -> Nat]
        /\ \E step \in {"link", "discard", "fail"} : Goes(h, step)
    <3>1. CASE HandOut(h)
      BY <1>1, <3>1, ItGoes DEF HandOut, Steps
    <3>2. CASE HandOutFails(h)
      <4>1. PICK step \in {"discard", "fail"} :
               start' = [start EXCEPT ![h].step = step, ![h].reason = "start_error"]
        BY <3>2 DEF HandOutFails
      <4>2. "start_error" \in Reasons \cup {""} /\ step \in Steps
        BY DEF Reasons, Steps
      <4>3. taskOf' = taskOf /\ left' \in [Kinds -> Nat]
        BY <1>1, <3>2, Spent DEF HandOutFails, Kinds
      <4> QED BY <1>1, <4>1, <4>2, <4>3, ItGoesWith
    <3> QED BY <1>12, <3>1, <3>2
  <2> QED BY <1>1, <1>9, <2>1, <2>2 DEF PipelineType, Steps
<1>13. ASSUME NEW h \in Starters, LinkTask(h) PROVE TypeInv'
  <2> DEFINE r == start[h].row
  <2>1. /\ r \in Rows /\ Goes(h, "recheck") /\ run' = [run EXCEPT ![r].linked = TRUE]
        /\ UNCHANGED <<clock, pipeline, taskOf, runLock, edit, closer, report, left, stopped, restored,
                       reopened>>
    BY <1>1, <1>2, <1>13, ItGoes DEF LinkTask, HandsOut, Steps
  <2>2. \A q \in Rows : run'[q] = run[q] \/ run'[q] = [run[q] EXCEPT !.linked = TRUE]
    BY <1>1, <2>1
  <2>3. \A x \in Run : [x EXCEPT !.linked = TRUE] \in Run /\ [x EXCEPT !.linked = TRUE].status = x.status
    BY DEF Run
  <2>4. run' \in [Rows -> Run] /\ \A q \in Rows : run'[q].status = run[q].status
    BY <1>1, <2>1, <2>2, <2>3
  <2>5. start'[h].step = "recheck" /\ "recheck" \in Steps
    BY <2>1 DEF Goes, Steps
  <2> QED BY <1>1, <2>1, <2>4, <2>5, StartTypes DEF PipelineType
<1>14. ASSUME NEW h \in Starters, RecheckTask(h) \/ DiscardRun(h) \/ FailRun(h) PROVE TypeInv'
  <2> DEFINE r == start[h].row
  <2>1. /\ r \in Rows /\ start[h].reason \in Reasons \cup {""}
        /\ UNCHANGED <<clock, pipeline, taskOf, runLock, edit, closer, report, left, stopped, restored,
                       reopened>>
    BY <1>2, <1>14 DEF RecheckTask, DiscardRun, FailRun, HandsOut, Start
  <2>3. ASSUME NEW status \in Ended \cup {"discarded"}, run[r].status = "running",
               run' = [run EXCEPT ![r].status = status],
               Becomes(h, "record") \/ Becomes(h, "sync")
        PROVE  TypeInv'
    <3>1. run' \in [Rows -> Run]
      BY <1>1, <2>1, <2>3, StatusWritten DEF Statuses, Reported
    <3>2. Goes(h, "record") \/ Goes(h, "sync")
      BY <1>1, <2>1, <2>3, ItGoes DEF Steps
    <3>3. /\ \E step \in Steps : Goes(h, step)
          /\ start'[h].step \in {"sync", "count"} => start'[h].row \in Rows
      BY <2>1, <3>2 DEF Goes, Steps
    <3> QED BY <1>1, <2>1, <3>1, <3>3, StartTypes DEF PipelineType
  <2>4. CASE RecheckTask(h)
    <3>1. CASE TaskClosed(r) /\ run[r].status = "running"
      <4>1. run' = [run EXCEPT ![r].status = taskOf[r]] /\ taskOf[r] \in Ended /\ Becomes(h, "sync")
        BY <2>4, <3>1 DEF RecheckTask, EndRun, TaskClosed
      <4> QED BY <2>3, <3>1, <4>1
    <3>2. CASE ~(TaskClosed(r) /\ run[r].status = "running")
      <4>1. IsDone(h) /\ UNCHANGED run
        BY <1>5, <2>4, <3>2 DEF RecheckTask
      <4>2. "idle" \in Steps \ {"sync", "count"}
        BY DEF Steps
      <4> QED BY <1>1, <1>9, <2>1, <4>1, <4>2 DEF PipelineType
    <3> QED BY <3>1, <3>2
  <2>5. CASE DiscardRun(h) \/ FailRun(h)
    <3>1. CASE run[r].status = "running"
      BY <2>3, <2>5, <3>1 DEF DiscardRun, FailRun, EndRun, Ended
    <3>2. CASE run[r].status # "running"
      <4>1. UNCHANGED run /\ (Becomes(h, "record") \/ Refused(h, start[h].reason))
        BY <2>5, <3>2 DEF DiscardRun, FailRun, EndRun
      <4>2. IsDone(h) \/ Goes(h, "record")
        BY <1>1, <2>1, <4>1, ItGoes, ItIsRefused DEF Steps
      <4> QED BY <1>1, <1>9, <2>1, <4>1, <4>2 DEF PipelineType, Steps
    <3> QED BY <3>1, <3>2
  <2> QED BY <1>14, <2>4, <2>5
<1>15. ASSUME NEW h \in Starters, CleanUpFails(h) \/ Crash(h) PROVE TypeInv'
  <2>1. /\ UNCHANGED <<clock, pipeline, run, taskOf, edit, closer, report, restored,
                       reopened>> /\ stopped' = TRUE
        /\ runLock' \in Starters \cup {None} /\ left' \in [Kinds -> Nat]
    <3>1. CASE CleanUpFails(h)
      BY <1>1, <3>1, Spent DEF CleanUpFails, Kinds
    <3>2. CASE Crash(h)
      BY <1>1, <3>2, Spent DEF Crash, Kinds
    <3> QED BY <1>15, <3>1, <3>2
  <2>2. IsDone(h) \/ Goes(h, "record")
    <3>1. start[h].reason \in Reasons \cup {""}
      BY <1>2 DEF Start
    <3>2. Done(h) \/ Refused(h, start[h].reason)
      BY <1>15 DEF CleanUpFails, Crash
    <3> QED BY <1>1, <1>5, <3>1, <3>2, ItIsRefused
  <2> QED BY <1>1, <1>9, <2>1, <2>2 DEF PipelineType, Steps
<1>16. ASSUME NEW h \in Starters, SyncLastRun(h) PROVE TypeInv'
  <2>1. UNCHANGED <<clock, run, taskOf, runLock, edit, closer, report, left, stopped, restored, reopened>>
    BY <1>16 DEF SyncLastRun
  <2>2. IsDone(h) \/ Goes(h, "record")
    <3>1. start[h].reason \in Reasons \cup {""}
      BY <1>2 DEF Start
    <3>2. Done(h) \/ Refused(h, start[h].reason)
      BY <1>16 DEF SyncLastRun
    <3> QED BY <1>1, <1>5, <3>1, <3>2, ItIsRefused
  <2>3. PipelineType'
    <3>1. start[h].row \in Rows /\ Synced(start[h].row)
      BY <1>16 DEF SyncLastRun, TypeInv, RowsAtHand
    <3>2. run[start[h].row].status \in Statuses
      BY <1>1, <3>1 DEF Run
    <3> QED BY <1>1, <3>1, <3>2 DEF Synced, PipelineType
  <2> QED BY <1>1, <1>9, <2>1, <2>2, <2>3 DEF Steps
<1>17. ASSUME NEW w \in Schedulers, ReadLatest(w) PROVE TypeInv'
  <2>1. PICK step \in {"count", "note"}, repeat \in Nat :
           /\ start' = [start EXCEPT ![w].step = step, ![w].row = Latest, ![w].repeat = repeat]
           /\ step = "count" => Latest # 0
    <3>1. CASE SameStreak(Latest, start[w].reason)
      <4>1. Latest \in Rows /\ Latest # 0
        BY <3>1, LatestTyped, AutomationsAssumption DEF SameStreak, Rows
      <4>2. run[Latest].repeat + 1 \in Nat
        <5>1. \A x \in Run : x.repeat \in Nat
          BY DEF Run
        <5>2. run[Latest].repeat \in Nat
          BY <1>1, <4>1, <5>1
        <5> QED BY <5>2
      <4> QED BY <1>17, <3>1, <4>1, <4>2 DEF ReadLatest
    <3>2. CASE ~SameStreak(Latest, start[w].reason)
      BY <1>17, <3>2 DEF ReadLatest
    <3> QED BY <3>1, <3>2
  <2>2. PICK new : new = [start[w] EXCEPT !.step = step, !.row = Latest, !.repeat = repeat]
    OBVIOUS
  <2>3. new \in Start /\ new.step = step /\ new.row = Latest
    <3>1. start[w] \in Start
      BY <1>2 DEF Starters
    <3> QED BY <2>2, <3>1, LatestTyped DEF Start
  <2>4. start' = [start EXCEPT ![w] = new]
    BY <1>1, <2>1, <2>2 DEF TypeOK, Starters
  <2>5. /\ start' \in [Starters -> Start] /\ start'[w] = new
        /\ \A g \in Starters : g # w => start'[g] = start[g]
    BY <1>1, <2>3, <2>4, StartReplaced DEF Starters
  <2>6. UNCHANGED <<clock, pipeline, run, taskOf, runLock, edit, closer, report, left, stopped,
                    restored, reopened>>
    BY <1>17 DEF ReadLatest
  <2>7. TypeOK'
    BY <2>5, <2>6 DEF TypeInv, TypeOK
  <2>8. step = "count" => Latest \in Rows
    BY <2>1, LatestTyped, AutomationsAssumption DEF Rows
  <2>9. RowsAtHand'
    BY <2>3, <2>5, <2>6, <2>8, HandsKeep
  <2> QED BY <2>7, <2>9 DEF TypeInv
<1>18. ASSUME NEW w \in Schedulers, Recorded(w) PROVE IsDone(w) \/ Goes(w, "pause")
  BY <1>1, <1>5, <1>18, ItGoes DEF Recorded, Starters, Steps
<1>19. ASSUME NEW w \in Schedulers, CountRepeat(w) PROVE TypeInv'
  <2>1. UNCHANGED <<clock, pipeline, taskOf, runLock, edit, closer, report, left, stopped, restored, reopened>>
    BY <1>19 DEF CountRepeat
  <2>2. IsDone(w) \/ Goes(w, "pause")
    BY <1>18, <1>19 DEF CountRepeat
  <2>3. start[w].row \in Rows /\ start[w].repeat \in Nat
    <3>1. start[w] \in Start
      BY <1>2 DEF Starters
    <3> QED BY <1>19, <3>1 DEF CountRepeat, TypeInv, RowsAtHand, Starters, Start
  <2>4. run' \in [Rows -> Run] /\ \A q \in Rows : run'[q].status = run[q].status
    <3>1. run' = [run EXCEPT ![start[w].row].repeat = start[w].repeat, ![start[w].row].streakClosed = FALSE]
      BY <1>19 DEF CountRepeat
    <3>2. \A q \in Rows : \/ run'[q] = run[q]
                           \/ run'[q] = [run[q] EXCEPT !.repeat = start[w].repeat, !.streakClosed = FALSE]
      BY <1>1, <2>3, <3>1
    <3>3. ASSUME NEW x \in Run, NEW y, y = [x EXCEPT !.repeat = start[w].repeat, !.streakClosed = FALSE]
          PROVE  y \in Run /\ y.status = x.status
      BY <2>3, <3>3 DEF Run
    <3>4. run' = [q \in Rows |-> run'[q]]
      BY <1>1, <3>1
    <3> QED BY <1>1, <3>2, <3>3, <3>4
  <2>5. start'[w].step \notin {"sync", "count"} /\ "pause" \in Steps
    BY <2>2 DEF IsDone, Goes, Steps
  <2> QED BY <1>1, <2>1, <2>2, <2>4, <2>5, StartTypes DEF PipelineType, Starters
<1>20. ASSUME NEW w \in Schedulers, NoteOutcome(w) PROVE TypeInv'
  <2>0. PICK row : row = [NoRun EXCEPT !.status = OutcomeOf(start[w].reason), !.source = "schedule",
                                       !.slot = start[w].slot, !.reason = start[w].reason, !.repeat = 1]
    OBVIOUS
  <2>1. row \in Run
    <3>1. NoRun \in Run
      BY AutomationsAssumption DEF NoRun, Run, Statuses, Reported
    <3>2. start[w].slot \in 0..MaxTime /\ start[w].reason \in Reasons \cup {""}
      BY <1>2 DEF Start, Starters
    <3>3. OutcomeOf(start[w].reason) \in {"skipped", "failed"}
      BY DEF OutcomeOf
    <3> QED BY <2>0, <3>1, <3>2, <3>3 DEF Run, Statuses, Reported, Ended
  <2>2. Unused # {} /\ run' = [run EXCEPT ![NextRow] = row]
    BY <2>0, <1>20 DEF NoteOutcome
  <2>3. UNCHANGED <<clock, pipeline, taskOf, runLock, edit, closer, report, left, stopped, restored, reopened>>
    BY <1>20 DEF NoteOutcome
  <2>4. /\ start' \in [Starters -> Start] /\ start'[w].step \in {"last", "idle"}
        /\ \A g \in Starters : g # w => start'[g] = start[g]
    <3>1. CASE Done(w)
      BY <1>5, <3>1 DEF IsDone, Starters
    <3>2. CASE start' = [start EXCEPT ![w].step = "last", ![w].row = NextRow]
      <4>1. PICK new : new = [start[w] EXCEPT !.step = "last", !.row = NextRow]
        OBVIOUS
      <4>2. start' = [start EXCEPT ![w] = new]
        BY <1>1, <3>2, <4>1 DEF TypeOK, Starters
      <4>3. start[w] \in Start /\ NextRow \in 0..MaxRuns
        BY <1>2, <1>3, <2>2 DEF Starters
      <4>4. new \in Start /\ new.step = "last"
        BY <4>1, <4>3 DEF Start
      <4> QED BY <1>1, <4>2, <4>4, StartReplaced DEF Starters
    <3> QED BY <1>20, <3>1, <3>2 DEF NoteOutcome
  <2>5. TypeOK'
    BY <1>1, <1>4, <2>1, <2>2, <2>3, <2>4 DEF TypeOK
  <2>6. RowsAtHand'
    BY <1>4, <2>1, <2>2, <2>3, <2>4, HandsKeep
  <2> QED BY <2>5, <2>6 DEF TypeInv
<1>21. ASSUME NEW w \in Schedulers, NoteLastRun(w) \/ PauseBySystem(w) PROVE TypeInv'
  <2>1. UNCHANGED <<clock, run, taskOf, runLock, edit, closer, report, left, stopped, restored, reopened>>
    BY <1>21 DEF NoteLastRun, PauseBySystem
  <2>2. IsDone(w) \/ Goes(w, "pause")
    BY <1>5, <1>18, <1>21 DEF NoteLastRun, PauseBySystem, Starters
  <2>3. PipelineType'
    <3>1. start[w].row \in 0..MaxRuns
      BY <1>2 DEF Start, Starters
    <3>2. CASE NoteLastRun(w)
      BY <1>1, <3>1, <3>2 DEF NoteLastRun, PipelineType, Statuses, Reported, Ended
    <3>3. CASE PauseBySystem(w)
      <4>1. 0 \in 0..MaxTime + 1
        BY <1>1
      <4>2. pipeline' = pipeline \/ pipeline' = [pipeline EXCEPT !.status = "paused", !.nextRunAt = 0]
        BY <3>3 DEF PauseBySystem
      <4> QED BY <1>1, <4>1, <4>2 DEF PipelineType
    <3> QED BY <1>21, <3>2, <3>3
  <2>4. "pause" \in Steps \ {"sync", "count"}
    BY DEF Steps
  <2> QED BY <1>1, <1>9, <2>1, <2>2, <2>3, <2>4 DEF Starters
<1>22. ASSUME SlotComesDue PROVE TypeInv'
  <2>1. /\ UNCHANGED <<pipeline, run, taskOf, runLock, start, edit, closer, report, stopped, restored,
                       reopened>>
        /\ clock' \in 0..MaxTime /\ left' \in [Kinds -> Nat]
    BY <1>1, <1>22, Spent DEF SlotComesDue, Kinds
  <2>2. TypeOK'
    BY <2>1 DEF TypeInv, TypeOK
  <2>3. RowsAtHand'
    BY <2>1 DEF TypeInv, RowsAtHand
  <2> QED BY <2>2, <2>3 DEF TypeInv
<1>23. ASSUME NEW p \in People, NEW to \in Edits, EditRead(p, to) PROVE TypeInv'
  <2>0. PICK e : e = [step |-> "write", to |-> to, status |-> pipeline.status,
                      nextRunAt |-> pipeline.nextRunAt, now |-> clock]
    OBVIOUS
  <2>1. e \in Edit
    <3>1. clock \in 0..MaxTime
      BY <1>1
    <3>2. pipeline.status \in {"active", "paused"} /\ pipeline.nextRunAt \in 0..MaxTime + 1
      BY <1>1 DEF PipelineType
    <3> QED BY <2>0, <3>1, <3>2 DEF Edit
  <2>2. /\ UNCHANGED <<clock, pipeline, run, taskOf, runLock, start, closer, report, stopped, restored,
                       reopened>>
        /\ left' \in [Kinds -> Nat] /\ edit' = [edit EXCEPT ![p] = e]
    BY <1>1, <1>23, <2>0, Spent DEF EditRead, Kinds
  <2>3. TypeOK'
    BY <2>1, <2>2 DEF TypeInv, TypeOK
  <2>4. RowsAtHand'
    BY <2>2 DEF TypeInv, RowsAtHand
  <2> QED BY <2>3, <2>4 DEF TypeInv
<1>24. ASSUME NEW p \in People, EditWrite(p) PROVE TypeInv'
  <2> DEFINE e == edit[p]
             s == NextStatus(e)
             next == IF s # e.status THEN ComputeNextRunAt(s, e.now) ELSE e.nextRunAt
  <2>1. e \in Edit
    BY DEF TypeInv, TypeOK
  <2>2. s \in {"active", "paused"}
    BY <2>1 DEF Edit, NextStatus
  <2>3. next \in 0..MaxTime + 1
    <3>1. e.now \in 0..MaxTime /\ e.nextRunAt \in 0..MaxTime + 1
      BY <2>1 DEF Edit
    <3>2. e.now + 1 \in 0..MaxTime + 1 /\ 0 \in 0..MaxTime + 1
      BY <1>1, <3>1
    <3> QED BY <3>1, <3>2 DEF ComputeNextRunAt
  <2>4. /\ pipeline' = [pipeline EXCEPT !.status = s, !.nextRunAt = next]
        /\ restored' \in {restored, restored \cup {next}}
        /\ edit' = [edit EXCEPT ![p] = IF s = "active" /\ e.status # "active"
                                        THEN [e EXCEPT !.step = "streak"] ELSE NoEdit]
        /\ UNCHANGED <<clock, run, taskOf, runLock, start, closer, report, left, stopped, reopened>>
    BY <1>24 DEF EditWrite
  <2>5. PipelineType'
    <3> HIDE DEF s, next
    <3> QED BY <1>1, <2>2, <2>3, <2>4 DEF PipelineType
  <2>6. edit' \in [People -> Edit]
    <3>1. NoEdit \in Edit
      BY AutomationsAssumption DEF NoEdit, Edit
    <3>2. [e EXCEPT !.step = "streak"] \in Edit
      BY <2>1 DEF Edit
    <3> QED BY <2>4, <3>1, <3>2 DEF TypeInv, TypeOK
  <2>7. restored' \subseteq 0..MaxTime + 1
    <3> HIDE DEF next
    <3> QED BY <2>3, <2>4 DEF TypeInv, TypeOK
  <2>8. TypeOK'
    BY <2>4, <2>5, <2>6, <2>7 DEF TypeInv, TypeOK, PipelineType
  <2>9. RowsAtHand'
    BY <2>4 DEF TypeInv, RowsAtHand
  <2> QED BY <2>8, <2>9 DEF TypeInv
<1>25. ASSUME NEW p \in People, CloseScheduleStreak(p) PROVE TypeInv'
  <2>1. /\ UNCHANGED <<clock, pipeline, taskOf, runLock, start, closer, report, left, stopped, restored,
                       reopened>>
        /\ run' = [r \in Rows |-> IF run[r].reason # "" THEN [run[r] EXCEPT !.streakClosed = TRUE]
                                  ELSE run[r]]
        /\ edit' = [edit EXCEPT ![p] = NoEdit]
    BY <1>25 DEF CloseScheduleStreak
  <2>2. \A x \in Run : [x EXCEPT !.streakClosed = TRUE] \in Run
                      /\ [x EXCEPT !.streakClosed = TRUE].status = x.status
    BY DEF Run
  <2>3. run' \in [Rows -> Run] /\ \A r \in Rows : run'[r].status = run[r].status
    BY <1>1, <2>1, <2>2
  <2>4. edit' \in [People -> Edit]
    <3>1. NoEdit \in Edit
      BY AutomationsAssumption DEF NoEdit, Edit
    <3> QED BY <2>1, <3>1 DEF TypeInv, TypeOK
  <2>5. TypeOK'
    BY <2>1, <2>3, <2>4 DEF TypeInv, TypeOK
  <2>6. RowsAtHand'
    BY <2>1, <2>3, HandsKeep
  <2> QED BY <2>5, <2>6 DEF TypeInv
<1>26. ASSUME NEW r \in Rows, NEW status \in Ended, AgentClosesTask(r, status) PROVE TypeInv'
  <2>1. /\ taskOf' = [taskOf EXCEPT ![r] = status] /\ closer' = [closer EXCEPT ![r] = "close"]
        /\ UNCHANGED <<clock, pipeline, run, runLock, start, edit, report, left, stopped, restored, reopened>>
    BY <1>26 DEF AgentClosesTask
  <2>2. TypeOK'
    BY <2>1 DEF TypeInv, TypeOK
  <2>3. \A q \in Rows : closer'[q] = closer[q] \/ closer'[q] # "sync"
    BY <2>1 DEF TypeInv, TypeOK
  <2>4. RowsAtHand'
    BY <2>1, <2>3, HandsKeep
  <2> QED BY <2>2, <2>4 DEF TypeInv
<1>27. ASSUME NEW r \in Rows, CloseRunForTask(r) PROVE TypeInv'
  <2>1. UNCHANGED <<clock, pipeline, taskOf, runLock, start, edit, report, left, stopped, restored, reopened>>
    BY <1>27 DEF CloseRunForTask
  <2>2. closer \in [Rows -> {"none", "close", "sync"}]
    BY <1>1 DEF TypeOK
  <2>3. run' \in [Rows -> Run] /\ closer' \in [Rows -> {"none", "close", "sync"}]
    <3>1. CASE run[r].linked /\ run[r].status = "running"
      <4>1. /\ run' = [run EXCEPT ![r].status = taskOf[r]] /\ closer' = [closer EXCEPT ![r] = "sync"]
            /\ taskOf[r] \in Ended
        BY <1>27, <3>1 DEF CloseRunForTask, EndRun, AutoInv, TasksInv, Closing
      <4>2. run' \in [Rows -> Run]
        BY <1>1, <4>1, StatusWritten DEF Statuses, Reported
      <4> QED BY <2>2, <4>1, <4>2
    <3>2. CASE ~(run[r].linked /\ run[r].status = "running")
      BY <1>1, <1>27, <2>2, <3>2 DEF CloseRunForTask
    <3> QED BY <3>1, <3>2
  <2>4. TypeOK'
    BY <2>1, <2>3 DEF TypeInv, TypeOK
  <2>5. RowsAtHand'
    BY <2>1, <2>3, HandsKeep
  <2> QED BY <2>4, <2>5 DEF TypeInv
<1>28. ASSUME NEW r \in Rows, SyncClosedRun(r) \/ CloserStops(r) PROVE TypeInv'
  <2>1. /\ UNCHANGED <<clock, run, taskOf, runLock, start, edit, report, restored, reopened>>
        /\ closer' = [closer EXCEPT ![r] = "none"] /\ stopped' \in BOOLEAN
    BY <1>1, <1>28 DEF SyncClosedRun, CloserStops
  <2>2. PipelineType' /\ left' \in [Kinds -> Nat]
    <3>1. CASE SyncClosedRun(r)
      <4>1. run[r].status \in Statuses /\ Synced(r) /\ left' = left
        BY <1>1, <3>1 DEF SyncClosedRun, Run
      <4> QED BY <1>1, <4>1 DEF Synced, PipelineType
    <3>2. CASE CloserStops(r)
      BY <1>1, <3>2, Spent DEF CloserStops, Kinds, PipelineType
    <3> QED BY <1>28, <3>1, <3>2
  <2>3. TypeOK'
    BY <2>1, <2>2 DEF TypeInv, TypeOK, PipelineType
  <2>4. \A q \in Rows : closer'[q] = closer[q] \/ closer'[q] # "sync"
    BY <2>1 DEF TypeInv, TypeOK
  <2>5. RowsAtHand'
    BY <2>1, <2>4, HandsKeep
  <2> QED BY <2>3, <2>5 DEF TypeInv
<1>29. ASSUME NEW r \in Rows, NEW status \in Reported, ReportRead(r, status) PROVE TypeInv'
  <2>1. /\ UNCHANGED <<clock, pipeline, run, taskOf, runLock, start, edit, closer, stopped, restored,
                        reopened>>
        /\ left' \in [Kinds -> Nat]
        /\ report' = [step |-> "write", row |-> r, status |-> status,
                      repeat |-> run[r].repeat, streakClosed |-> run[r].streakClosed]
    BY <1>1, <1>29, Spent DEF ReportRead, Kinds
  <2>2. report' \in Report
    <3>1. r \in 0..MaxRuns
      BY AutomationsAssumption DEF Rows
    <3>2. run[r].repeat \in Nat /\ run[r].streakClosed \in BOOLEAN
      BY <1>1 DEF Run
    <3> QED BY <2>1, <3>1, <3>2 DEF Report
  <2>3. TypeOK'
    BY <2>1, <2>2 DEF TypeInv, TypeOK
  <2>4. RowsAtHand'
    BY <2>1 DEF TypeInv, RowsAtHand
  <2> QED BY <2>3, <2>4 DEF TypeInv
<1>37. ASSUME ReportWrite PROVE TypeInv'
  <2> DEFINE r == report.row
  <2>1. /\ UNCHANGED <<clock, pipeline, taskOf, runLock, start, edit, closer, left, stopped, restored>>
        /\ r \in Rows /\ report.status \in Reported /\ report.repeat \in Nat
        /\ report.streakClosed \in BOOLEAN
    BY <1>1, <1>37 DEF ReportWrite, Reporting, Report
  <2>2. report' \in Report
    <3>1. NoReport \in Report
      BY AutomationsAssumption DEF NoReport, Report, Reported
    <3>2. \/ report' = NoReport
          \/ report' = [NoReport EXCEPT !.step = "last", !.row = r, !.status = report.status]
      BY <1>37 DEF ReportWrite
    <3>3. r \in 0..MaxRuns
      BY <2>1, AutomationsAssumption DEF Rows
    <3> QED BY <2>1, <3>1, <3>2, <3>3 DEF Report
  <2>3. reopened' \subseteq Rows
    <3>1. reopened' \in {reopened, reopened \cup {r}}
      BY <1>37 DEF ReportWrite
    <3> QED BY <1>1, <2>1, <3>1 DEF TypeOK
  <2>4. run' \in [Rows -> Run]
    <3>1. PICK new : new = [run[r] EXCEPT !.status = report.status, !.repeat = report.repeat,
                                          !.streakClosed = report.streakClosed]
      OBVIOUS
    <3>2. new \in Run
      <4>1. run[r] \in Run /\ report.status \in Statuses
        BY <1>1, <2>1 DEF Statuses
      <4> QED BY <2>1, <3>1, <4>1 DEF Run
    <3>3. run' = run \/ run' = [run EXCEPT ![r] = new]
      BY <1>1, <1>37, <2>1, <3>1 DEF ReportWrite
    <3> QED BY <1>1, <3>2, <3>3
  <2>5. TypeOK'
    BY <2>1, <2>2, <2>3, <2>4 DEF TypeInv, TypeOK
  <2>6. RowsAtHand'
    BY <2>1 DEF TypeInv, RowsAtHand
  <2> QED BY <2>5, <2>6 DEF TypeInv
<1>30. ASSUME NEW source \in {"agent", "schedule"}, NEW status \in Reported, ReportStart(source, status)
       PROVE  TypeInv'
  <2>0. PICK row : row = [NoRun EXCEPT !.status = status, !.source = source]
    OBVIOUS
  <2>1. row \in Run
    <3>1. NoRun \in Run
      BY AutomationsAssumption DEF NoRun, Run, Statuses, Reported
    <3> QED BY <2>0, <3>1 DEF Run, Statuses
  <2>2. /\ UNCHANGED <<clock, pipeline, taskOf, runLock, start, edit, closer, stopped, restored, reopened>>
        /\ left' \in [Kinds -> Nat] /\ Unused # {} /\ run' = [run EXCEPT ![NextRow] = row]
        /\ report' = [NoReport EXCEPT !.step = "last", !.row = NextRow, !.status = status]
    BY <1>1, <1>30, <2>0, Spent DEF ReportStart, Kinds
  <2>3. report' \in Report
    <3>1. NoReport \in Report
      BY AutomationsAssumption DEF NoReport, Report, Reported
    <3> QED BY <1>3, <2>2, <3>1 DEF Report
  <2>4. TypeOK'
    BY <1>4, <2>1, <2>2, <2>3 DEF TypeInv, TypeOK
  <2>5. RowsAtHand'
    BY <2>2 DEF TypeInv, RowsAtHand
  <2> QED BY <2>4, <2>5 DEF TypeInv
<1>31. ASSUME ReportLastRun PROVE TypeInv'
  <2>1. /\ UNCHANGED <<clock, run, taskOf, runLock, start, edit, closer, left, stopped, restored, reopened>>
        /\ pipeline' = [pipeline EXCEPT !.lastRunAt = report.row, !.lastRunStatus = report.status]
        /\ report' = NoReport
    BY <1>31 DEF ReportLastRun
  <2>2. PipelineType'
    <3>1. report.row \in 0..MaxRuns /\ report.status \in Statuses
      BY <1>1 DEF Report, Statuses
    <3> QED BY <1>1, <2>1, <3>1 DEF PipelineType
  <2>3. report' \in Report
    BY <2>1, AutomationsAssumption DEF NoReport, Report, Reported
  <2>4. TypeOK'
    BY <2>1, <2>2, <2>3 DEF TypeInv, TypeOK, PipelineType
  <2>5. RowsAtHand'
    BY <2>1 DEF TypeInv, RowsAtHand
  <2> QED BY <2>4, <2>5 DEF TypeInv
<1>32. CASE UNCHANGED autoVars
  BY <1>32 DEF autoVars, TypeInv, TypeOK, RowsAtHand
<1>33. ASSUME NEW h \in Starters, StartStep(h) \/ Crash(h) PROVE TypeInv'
  BY <1>10, <1>11, <1>12, <1>13, <1>14, <1>15, <1>16, <1>33 DEF StartStep
<1>34. ASSUME NEW w \in Schedulers, SelectScheduled(w) \/ SchedulerStep(w) PROVE TypeInv'
  BY <1>6, <1>7, <1>17, <1>19, <1>20, <1>21, <1>34 DEF SchedulerStep
<1>35. ASSUME NEW p \in People, \/ \E force \in BOOLEAN : RunNow(p, force)
                                \/ \E to \in Edits : EditRead(p, to)
                                \/ EditWrite(p) \/ CloseScheduleStreak(p)
       PROVE  TypeInv'
  BY <1>8, <1>23, <1>24, <1>25, <1>35
<1>36. ASSUME NEW r \in Rows, \/ \E status \in Ended : AgentClosesTask(r, status)
                              \/ CloserStep(r) \/ CloserStops(r)
       PROVE  TypeInv'
  BY <1>26, <1>27, <1>28, <1>36 DEF CloserStep
<1> QED BY <1>22, <1>29, <1>30, <1>31, <1>32, <1>33, <1>34, <1>35, <1>36, <1>37 DEF AutoNext

-----------------------------------------------------------------------------
(***************************************************************************)
(* Every row, request and start stays what pipeline-runs.ts makes it: the  *)
(* automation names a row as its last run, with a status a run can have,   *)
(* and no start is at work on a row that is not there.                     *)
(***************************************************************************)
THEOREM AutomationsTypeCorrect == AutoSpec => []TypeOK
<1>1. AutoInit => AutoInv /\ Reporting /\ TypeInv
  BY AutoInvInit, ReportingInit, TypeInvInit
<1>2. AutoInv /\ Reporting /\ TypeInv /\ [AutoNext]_autoVars => AutoInv' /\ Reporting' /\ TypeInv'
  BY AutoInvStep, ReportsMove, TypeInvStep
<1>3. TypeInv => TypeOK
  BY DEF TypeInv
<1> QED BY <1>1, <1>2, <1>3, PTL DEF AutoSpec

-----------------------------------------------------------------------------
(***************************************************************************)
(* Why a slot fires once: a slot is taken by a start that claimed it and   *)
(* goes on to insert its run, and then by that run.  A taken slot came due *)
(* and lies before the next slot of the automation while that is active,   *)
(* so no claim compares equal to it, and a claim moves the next slot past  *)
(* all that came due.  An edit that writes back a next slot that came due  *)
(* spoils the slots from that one on; the others are clean.                *)
(***************************************************************************)
Claiming(h) == start[h].step \in {"unset", "claim"}
ClaimsDue == \A h \in Starters : Claiming(h) =>
    /\ start[h].slot <= start[h].now /\ start[h].now <= clock
    /\ start[h].step = "claim" => start[h].slot # 0

EditsPast == \A p \in People : edit[p].now <= clock

Fires(h, s) == start[h].step \in {"load", "lock", "insert"} /\ start[h].slot = s
FiredBy(r, s) == run[r].slot = s /\ run[r].reason = ""
Taken(s) == (\E h \in Starters : Fires(h, s)) \/ \E r \in Rows : FiredBy(r, s)

Slots == 1..MaxTime
Clean(s) == \A t \in restored : s < t
SlotGone(s) == s <= clock /\ (pipeline.status = "active" => s < pipeline.nextRunAt)
SlotsGone == \A s \in Slots : Clean(s) /\ Taken(s) => SlotGone(s)
OneTaker(s) ==
    /\ \A g, h \in Starters : Fires(g, s) /\ Fires(h, s) => g = h
    /\ \A q, r \in Rows : FiredBy(q, s) /\ FiredBy(r, s) => q = r
    /\ \A h \in Starters, r \in Rows : ~(Fires(h, s) /\ FiredBy(r, s))
OneTakerEach == \A s \in Slots : Clean(s) => OneTaker(s)

\* A start that records a slot says why.
ReasonedSteps == {"discard", "fail", "record", "count", "note"}
Reasoned == \A h \in Starters : start[h].step \in ReasonedSteps => start[h].reason # ""

\* The steps of a start that has no slot to take any more.
WorkSteps == {"hand", "link", "recheck", "discard", "fail", "sync", "record", "count", "note", "last",
              "pause"}

SlotInv == ClaimsDue /\ EditsPast /\ SlotsGone /\ OneTakerEach /\ Reasoned

LEMMA SlotsAreNumbers == \A s \in Slots : s \in Nat /\ s # 0
  BY AutomationsAssumption DEF Slots

LEMMA SlotBounds ==
    /\ \A n \in 0..MaxTime : n # 0 => n \in Slots
    /\ \A n \in 0..MaxTime + 1, s \in Slots : ~(s < n) => n <= s
  BY AutomationsAssumption DEF Slots

LEMMA SlotInvInit == ASSUME AutoInit PROVE SlotInv
<1>1. \A s \in Slots : s # 0
  BY SlotsAreNumbers
<1>2. \A s \in Slots : ~Taken(s) /\ OneTaker(s)
  BY <1>1 DEF AutoInit, Taken, OneTaker, Fires, FiredBy, NoStart, NoRun
<1>3. ClaimsDue /\ EditsPast /\ Reasoned
  <2>1. \A h \in Starters : start[h].step = "idle"
    BY DEF AutoInit, NoStart
  <2>2. clock = 0 /\ \A p \in People : edit[p].now = 0
    BY DEF AutoInit, NoEdit
  <2>3. ClaimsDue /\ Reasoned
    BY <2>1 DEF ClaimsDue, Claiming, Reasoned, ReasonedSteps
  <2>4. EditsPast
    BY <2>2 DEF EditsPast
  <2> QED BY <2>3, <2>4
<1> QED BY <1>2, <1>3 DEF SlotInv, SlotsGone, OneTakerEach

\* No slot is taken that was not, by whoever takes it.
TakenKept == \A s \in Slots :
    /\ \A h \in Starters : Fires(h, s)' => Fires(h, s)
    /\ \A r \in Rows : FiredBy(r, s)' => FiredBy(r, s)

\* A slot that is gone stays gone, unless it is spoilt.
GoneKept == \A s \in Slots : Clean(s)' => Clean(s) /\ (Taken(s) /\ SlotGone(s) => SlotGone(s)')

StartsSay == ClaimsDue /\ EditsPast /\ Reasoned

LEMMA SlotsStay ==
    ASSUME SlotInv, TakenKept, GoneKept, StartsSay'
    PROVE  SlotInv'
<1>1. ASSUME NEW s \in Slots, Clean(s)' PROVE OneTaker(s)' /\ (Taken(s)' => SlotGone(s)')
  <2>1. Clean(s) /\ OneTaker(s) /\ (Taken(s) => SlotGone(s)) /\ (Taken(s) => SlotGone(s)')
    BY <1>1 DEF GoneKept, SlotInv, OneTakerEach, SlotsGone
  <2>2. Taken(s)' => Taken(s)
    BY DEF TakenKept, Taken
  <2>3. OneTaker(s)'
    BY <2>1 DEF TakenKept, OneTaker
  <2> QED BY <2>1, <2>2, <2>3
<1> QED BY <1>1 DEF SlotInv, StartsSay, SlotsGone, OneTakerEach

LEMMA SameAutomation ==
    ASSUME SlotInv, pipeline'.status = pipeline.status, pipeline'.nextRunAt = pipeline.nextRunAt,
           UNCHANGED <<clock, restored>>
    PROVE  GoneKept
  BY DEF GoneKept, Clean, SlotGone

\* A start that neither takes a slot nor begins to claim one.
LEMMA StartKeeps ==
    ASSUME SlotInv, NEW h \in Starters, \A g \in Starters : g # h => start'[g] = start[g],
           start'[h].step \notin {"unset", "claim"}, UNCHANGED <<clock, edit>>,
           start'[h].step \in ReasonedSteps => start'[h].reason # "",
           \/ start'[h].step \notin {"load", "lock", "insert"}
           \/ start'[h].slot = 0
           \/ start[h].step \in {"load", "lock", "insert"} /\ start'[h].slot = start[h].slot
    PROVE  StartsSay' /\ \A s \in Slots, g \in Starters : Fires(g, s)' => Fires(g, s)
<1>1. \A s \in Slots : s # 0
  BY SlotsAreNumbers
<1>2. \A s \in Slots, g \in Starters : Fires(g, s)' => Fires(g, s)
  BY <1>1 DEF Fires
<1>3. ClaimsDue' /\ EditsPast' /\ Reasoned'
  BY DEF SlotInv, ClaimsDue, Claiming, EditsPast, Reasoned, ReasonedSteps
<1> QED BY <1>2, <1>3 DEF StartsSay

LEMMA SlotInvStep == ASSUME AutoInv, TypeInv, SlotInv, [AutoNext]_autoVars PROVE SlotInv'
<1>1. /\ TypeOK /\ clock \in Nat /\ restored \subseteq Nat /\ pipeline.nextRunAt \in Nat
      /\ pipeline.status \in {"active", "paused"} /\ run \in [Rows -> Run]
  BY AutomationsAssumption DEF TypeInv, TypeOK
<1>2. \A h \in Starters : /\ start[h].slot \in Nat /\ start[h].now \in Nat
                         /\ start[h].reason \in Reasons \cup {""}
  <2>1. \A h \in Starters : start[h] \in Start
    BY DEF TypeInv, TypeOK
  <2>2. \A x \in Start : x.slot \in 0..MaxTime /\ x.now \in 0..MaxTime /\ x.reason \in Reasons \cup {""}
    BY DEF Start
  <2>3. \A n \in 0..MaxTime : n \in Nat
    BY AutomationsAssumption
  <2> QED BY <2>1, <2>2, <2>3
<1>3. Schedulers \subseteq Starters /\ People \subseteq Starters
  BY DEF Starters
<1>4. \A reason \in Reasons : reason # "" /\ reason \in Reasons \cup {""}
  BY DEF Reasons
<1>5. ASSUME NEW h \in Starters, IsDone(h), UNCHANGED <<clock, edit>>
      PROVE  StartsSay' /\ \A s \in Slots, g \in Starters : Fires(g, s)' => Fires(g, s)
  BY <1>5, StartKeeps DEF IsDone, ReasonedSteps
\* A start goes on without taking a slot.
<1>6. ASSUME NEW h \in Starters, NEW step \in WorkSteps,
             Goes(h, step), start'[h].reason # "" \/ step \notin ReasonedSteps,
             UNCHANGED <<clock, edit>>
      PROVE  StartsSay' /\ \A s \in Slots, g \in Starters : Fires(g, s)' => Fires(g, s)
  BY <1>6, StartKeeps DEF Goes, WorkSteps, ReasonedSteps
\* A start goes on, without rows, the automation or edits being changed in what matters here.
<1>7. ASSUME NEW h \in Starters,
             \/ IsDone(h)
             \/ \E step \in WorkSteps :
                   Goes(h, step) /\ (start'[h].reason # "" \/ step \notin ReasonedSteps),
             SlotsKept, pipeline'.status = pipeline.status, pipeline'.nextRunAt = pipeline.nextRunAt,
             UNCHANGED <<clock, edit, restored>>
      PROVE  SlotInv'
  <2>1. StartsSay' /\ \A s \in Slots, g \in Starters : Fires(g, s)' => Fires(g, s)
    BY <1>5, <1>6, <1>7
  <2>2. TakenKept
    BY <1>7, <2>1 DEF TakenKept, FiredBy, SlotsKept
  <2> QED BY <1>7, <2>1, <2>2, SlotsStay, SameAutomation
<1>8. ASSUME NEW h \in Starters, Done(h) PROVE IsDone(h)
  BY <1>1, <1>8, ItIsDone
<1>9. ASSUME NEW h \in Starters, NEW reason \in Reasons, Refused(h, reason)
      PROVE  IsDone(h) \/ (Goes(h, "record") /\ start'[h].reason # "")
  BY <1>1, <1>4, <1>9, ItIsRefused
<1>10. UNCHANGED run => SlotsKept
  BY DEF SlotsKept
<1>11. ASSUME SlotComesDue PROVE SlotInv'
  <2>1. /\ UNCHANGED <<pipeline, run, start, edit, restored>> /\ clock' = clock + 1
    BY <1>11 DEF SlotComesDue
  <2>2. TakenKept
    BY <2>1 DEF TakenKept, Fires, FiredBy
  <2>3. GoneKept
    BY <1>1, <2>1, SlotsAreNumbers DEF GoneKept, Clean, SlotGone
  <2>4. ClaimsDue'
    <3>1. \A n \in Nat, c \in Nat : n <= c => n <= c + 1
      OBVIOUS
    <3>2. \A h \in Starters : start[h].now <= clock => start[h].now <= clock + 1
      BY <1>1, <1>2, <3>1
    <3> QED BY <2>1, <3>2 DEF SlotInv, ClaimsDue, Claiming
  <2>5. EditsPast'
    <3>1. \A p \in People : edit[p].now \in Nat
      <4>1. \A p \in People : edit[p] \in Edit
        BY <1>1 DEF TypeOK
      <4>2. \A e \in Edit : e.now \in 0..MaxTime
        BY DEF Edit
      <4>3. \A n \in 0..MaxTime : n \in Nat
        BY AutomationsAssumption
      <4> QED BY <4>1, <4>2, <4>3
    <3> QED BY <1>1, <2>1, <3>1 DEF SlotInv, EditsPast
  <2>6. Reasoned'
    BY <2>1 DEF SlotInv, Reasoned, ReasonedSteps
  <2> QED BY <2>2, <2>3, <2>4, <2>5, <2>6, SlotsStay DEF StartsSay
<1>12. ASSUME NEW w \in Schedulers, SelectScheduled(w) PROVE SlotInv'
  <2>0. PICK new : new = [NoStart EXCEPT !.step = IF pipeline.nextRunAt = 0 THEN "unset" ELSE "claim",
                                         !.slot = pipeline.nextRunAt, !.now = clock]
    OBVIOUS
  <2>1. /\ start' = [start EXCEPT ![w] = new] /\ pipeline.nextRunAt <= clock
        /\ UNCHANGED <<clock, pipeline, run, edit, restored>>
    BY <2>0, <1>12 DEF SelectScheduled
  <2>2. /\ new.step \in {"unset", "claim"} /\ new.slot = pipeline.nextRunAt /\ new.now = clock
        /\ new.step = "claim" => new.slot # 0
    BY <2>0 DEF NoStart
  <2>3. \A g \in Starters : start'[g] = IF g = w THEN new ELSE start[g]
    BY <1>1, <2>1 DEF TypeOK
  <2>4. TakenKept
    BY <2>1, <2>2, <2>3 DEF TakenKept, Fires, FiredBy
  <2>5. GoneKept
    BY <2>1, SameAutomation
  <2>6. ClaimsDue'
    BY <1>1, <2>1, <2>2, <2>3 DEF SlotInv, ClaimsDue, Claiming
  <2>7. EditsPast' /\ Reasoned'
    BY <2>1, <2>2, <2>3 DEF SlotInv, EditsPast, Reasoned, ReasonedSteps
  <2> QED BY <2>4, <2>5, <2>6, <2>7, SlotsStay DEF StartsSay
<1>13. ASSUME NEW w \in Schedulers, SetFirstSlot(w) PROVE SlotInv'
  <2>1. IsDone(w) /\ UNCHANGED <<clock, run, edit, restored>>
    BY <1>3, <1>8, <1>13 DEF SetFirstSlot
  <2>2. StartsSay' /\ TakenKept
    BY <1>3, <1>5, <2>1 DEF TakenKept, FiredBy
  <2>3. GoneKept
    <3>1. CASE pipeline.nextRunAt # 0
      BY <1>13, <2>1, <3>1, SameAutomation DEF SetFirstSlot
    <3>2. CASE pipeline.nextRunAt = 0
      <4>1. pipeline'.status = pipeline.status
        BY <1>13, <3>2, <1>1 DEF SetFirstSlot, TypeOK
      <4>2. ASSUME NEW s \in Slots, SlotGone(s) PROVE pipeline.status # "active" /\ SlotGone(s)'
        BY <2>1, <3>2, <4>1, <4>2, SlotsAreNumbers DEF SlotGone
      <4> QED BY <2>1, <4>2 DEF GoneKept, Clean
    <3> QED BY <3>1, <3>2
  <2> QED BY <2>2, <2>3, SlotsStay
<1>14. ASSUME NEW w \in Schedulers, ClaimSlot(w) PROVE SlotInv'
  <2> DEFINE t == start[w].slot
  <2>1. CASE Done(w) /\ UNCHANGED pipeline
    <3>1. IsDone(w) /\ UNCHANGED <<clock, run, edit, restored>>
      BY <1>3, <1>8, <1>14, <2>1 DEF ClaimSlot
    <3> QED BY <1>3, <1>7, <1>10, <2>1, <3>1
  <2>2. CASE Claimable(t)
    <3>1. /\ t \in Nat /\ t # 0 /\ t <= start[w].now /\ start[w].now <= clock /\ start[w].now \in Nat
          /\ pipeline.status = "active" /\ pipeline.nextRunAt = t
      BY <1>2, <1>3, <1>14, <2>2 DEF ClaimSlot, Claimable, SlotInv, ClaimsDue, Claiming
    <3>2. /\ pipeline' = [pipeline EXCEPT !.nextRunAt = start[w].now + 1] /\ Becomes(w, "load")
          /\ UNCHANGED <<clock, run, edit, restored>> /\ start[w].step = "claim"
      BY <1>14, <2>2 DEF ClaimSlot, ComputeNextRunAt
    <3>3. pipeline'.status = pipeline.status /\ pipeline'.nextRunAt = start[w].now + 1
      BY <1>1, <3>2 DEF TypeOK
    <3>4. Goes(w, "load")
      BY <1>1, <1>3, <3>2, ItGoes DEF Steps
    <3>5. /\ start'[w].step = "load" /\ start'[w].slot = t
          /\ \A g \in Starters : g # w => start'[g] = start[g]
      BY <3>4 DEF Goes
    <3>6. \A s \in Slots : ~Fires(w, s)
      BY <3>2 DEF Fires
    <3>7. /\ \A s \in Slots, g \in Starters : Fires(g, s)' => Fires(g, s) \/ (g = w /\ s = t)
          /\ \A s \in Slots, r \in Rows : FiredBy(r, s)' <=> FiredBy(r, s)
      BY <3>2, <3>5 DEF Fires, FiredBy
    <3>8. ASSUME NEW s \in Slots, Clean(s)' PROVE OneTaker(s)' /\ (Taken(s)' => SlotGone(s)')
      <4>1. Clean(s) /\ OneTaker(s) /\ (Taken(s) => SlotGone(s))
        BY <3>2, <3>8 DEF Clean, SlotInv, OneTakerEach, SlotsGone
      <4>2. s \in Nat
        BY SlotsAreNumbers
      <4>3. CASE s = t
        <5>1. ~Taken(s)
          BY <3>1, <4>1, <4>3 DEF SlotGone
        <5>2. OneTaker(s)'
          BY <3>7, <4>3, <5>1 DEF OneTaker, Taken
        <5>3. SlotGone(s)'
          BY <1>1, <3>1, <3>2, <3>3, <4>3 DEF SlotGone
        <5> QED BY <5>2, <5>3
      <4>4. CASE s # t
        <5>1. OneTaker(s)' /\ (Taken(s)' => Taken(s))
          BY <3>7, <4>1, <4>4 DEF OneTaker, Taken
        <5>2. SlotGone(s) => SlotGone(s)'
          BY <1>1, <3>1, <3>2, <3>3, <4>2 DEF SlotGone
        <5> QED BY <4>1, <5>1, <5>2
      <4> QED BY <4>3, <4>4
    <3>9. ClaimsDue' /\ EditsPast' /\ Reasoned'
      BY <3>2, <3>5 DEF SlotInv, ClaimsDue, Claiming, EditsPast, Reasoned, ReasonedSteps
    <3> QED BY <3>8, <3>9 DEF SlotInv, SlotsGone, OneTakerEach
  <2> QED BY <1>14, <2>1, <2>2 DEF ClaimSlot
<1>15. ASSUME NEW p \in People, NEW force \in BOOLEAN, RunNow(p, force) PROVE SlotInv'
  <2>0. PICK new : new = [NoStart EXCEPT !.step = "load", !.force = force]
    OBVIOUS
  <2>1. new.step = "load" /\ new.slot = 0
    BY <2>0 DEF NoStart
  <2>2. /\ start' = [start EXCEPT ![p] = new] /\ UNCHANGED <<clock, pipeline, run, edit, restored>>
    BY <2>0, <1>15 DEF RunNow
  <2>3. start'[p] = new /\ \A g \in Starters : g # p => start'[g] = start[g]
    BY <1>1, <1>3, <2>2 DEF TypeOK
  <2>4. StartsSay' /\ \A s \in Slots, g \in Starters : Fires(g, s)' => Fires(g, s)
    BY <1>3, <2>1, <2>2, <2>3, StartKeeps DEF ReasonedSteps
  <2>5. TakenKept
    BY <2>2, <2>4 DEF TakenKept, FiredBy
  <2> QED BY <2>2, <2>4, <2>5, SlotsStay, SameAutomation
\* A start that goes on with the slot it took.
<1>16. ASSUME NEW h \in Starters, start[h].step \in {"load", "lock"}, NEW step \in {"lock", "insert"},
              Goes(h, step), UNCHANGED <<clock, pipeline, run, edit, restored>>
       PROVE  SlotInv'
  <2>1. StartsSay' /\ \A s \in Slots, g \in Starters : Fires(g, s)' => Fires(g, s)
    BY <1>16, StartKeeps DEF Goes, ReasonedSteps
  <2>2. TakenKept
    BY <1>16, <2>1 DEF TakenKept, FiredBy
  <2> QED BY <1>16, <2>1, <2>2, SlotsStay, SameAutomation
<1>17. ASSUME NEW h \in Starters, LoadPipeline(h) \/ NoRunner(h) \/ CheckRunning(h) PROVE SlotInv'
  <2>1. UNCHANGED <<clock, pipeline, run, edit, restored>> /\ start[h].step \in {"load", "lock"}
    BY <1>17 DEF LoadPipeline, NoRunner, CheckRunning
  <2>2. \/ Done(h) \/ \E step \in {"lock", "insert"} : Becomes(h, step)
        \/ \E reason \in Reasons : Refused(h, reason)
    BY <1>17 DEF LoadPipeline, NoRunner, CheckRunning, Reasons
  <2>3. CASE \E step \in {"lock", "insert"} : Becomes(h, step)
    BY <1>1, <1>16, <2>1, <2>3, ItGoes DEF Steps
  <2>4. CASE Done(h) \/ \E reason \in Reasons : Refused(h, reason)
    BY <1>7, <1>8, <1>9, <1>10, <2>1, <2>4 DEF WorkSteps, ReasonedSteps
  <2> QED BY <2>2, <2>3, <2>4
<1>18. ASSUME NEW h \in Starters, InsertRun(h) PROVE SlotInv'
  <2>0. PICK row : row = [NoRun EXCEPT !.status = "running", !.slot = start[h].slot,
                                       !.force = start[h].force,
                                       !.source = IF h \in Schedulers THEN "schedule" ELSE "manual"]
    OBVIOUS
  <2>1. row.slot = start[h].slot
    BY <2>0 DEF NoRun
  <2>2. /\ start[h].step = "insert" /\ run' = [run EXCEPT ![NextRow] = row]
        /\ start' = [start EXCEPT ![h].step = "hand", ![h].row = NextRow]
        /\ UNCHANGED <<clock, edit, restored>>
        /\ pipeline' = [pipeline EXCEPT !.lastRunAt = NextRow, !.lastRunStatus = "running"]
    BY <2>0, <1>18 DEF InsertRun
  <2>3. /\ \A r \in Rows : run'[r] = IF r = NextRow THEN row ELSE run[r]
        /\ pipeline'.status = pipeline.status /\ pipeline'.nextRunAt = pipeline.nextRunAt
    BY <1>1, <2>2 DEF TypeOK
  <2>4. /\ start'[h].step = "hand"
        /\ \A g \in Starters : g # h => start'[g] = start[g]
    <3>1. start[h] \in Start
      BY <1>1 DEF TypeOK
    <3>2. start'[h] = [start[h] EXCEPT !.step = "hand", !.row = NextRow]
      BY <1>1, <2>2 DEF TypeOK
    <3>3. start'[h].step = "hand"
      BY <3>1, <3>2 DEF Start
    <3> QED BY <1>1, <2>2, <3>3 DEF TypeOK
  <2>5. /\ \A s \in Slots, g \in Starters : Fires(g, s)' => g # h /\ Fires(g, s)
        /\ \A s \in Slots, r \in Rows :
              FiredBy(r, s)' => (r # NextRow /\ FiredBy(r, s)) \/ (r = NextRow /\ Fires(h, s))
    <3>1. \A s \in Slots, g \in Starters : Fires(g, s)' => g # h /\ Fires(g, s)
      BY <2>4 DEF Fires
    <3>2. ASSUME NEW s \in Slots, NEW r \in Rows, FiredBy(r, s)'
          PROVE  (r # NextRow /\ FiredBy(r, s)) \/ (r = NextRow /\ Fires(h, s))
      <4>1. CASE r = NextRow
        BY <2>1, <2>2, <2>3, <3>2, <4>1 DEF Fires, FiredBy
      <4>2. CASE r # NextRow
        BY <2>3, <3>2, <4>2 DEF FiredBy
      <4> QED BY <4>1, <4>2
    <3> QED BY <3>1, <3>2
  <2>6. ASSUME NEW s \in Slots, Clean(s)' PROVE OneTaker(s)' /\ (Taken(s)' => SlotGone(s)')
    <3>1. Clean(s) /\ OneTaker(s) /\ (Taken(s) => SlotGone(s))
      BY <2>2, <2>6 DEF Clean, SlotInv, OneTakerEach, SlotsGone
    <3>2. Taken(s)' => Taken(s)
      BY <2>5 DEF Taken
    <3>3. OneTaker(s)'
      BY <2>5, <3>1 DEF OneTaker
    <3>4. SlotGone(s)' <=> SlotGone(s)
      BY <2>2, <2>3 DEF SlotGone
    <3> QED BY <3>1, <3>2, <3>3, <3>4
  <2>7. ClaimsDue' /\ EditsPast' /\ Reasoned'
    BY <2>2, <2>4 DEF SlotInv, ClaimsDue, Claiming, EditsPast, Reasoned, ReasonedSteps
  <2> QED BY <2>6, <2>7 DEF SlotInv, SlotsGone, OneTakerEach
<1>19. ASSUME NEW h \in Starters, HandOut(h) \/ HandOutFails(h) PROVE SlotInv'
  <2>1. UNCHANGED <<clock, pipeline, run, edit, restored>>
    BY <1>19 DEF HandOut, HandOutFails
  <2>2. CASE HandOut(h)
    <3>1. Goes(h, "link")
      BY <1>1, <2>2, ItGoes DEF HandOut, Steps
    <3> QED BY <1>7, <1>10, <2>1, <3>1 DEF WorkSteps, ReasonedSteps
  <2>3. CASE HandOutFails(h)
    <3>1. PICK step \in {"discard", "fail"} :
             start' = [start EXCEPT ![h].step = step, ![h].reason = "start_error"]
      BY <2>3 DEF HandOutFails
    <3>2. "start_error" \in Reasons \cup {""} /\ step \in Steps /\ "start_error" # ""
      BY DEF Reasons, Steps
    <3>3. Goes(h, step) /\ start'[h].reason # ""
      BY <1>1, <3>1, <3>2, ItGoesWith
    <3> QED BY <1>7, <1>10, <2>1, <3>3 DEF WorkSteps, ReasonedSteps
  <2> QED BY <1>19, <2>2, <2>3
<1>20. ASSUME NEW h \in Starters, LinkTask(h) PROVE SlotInv'
  <2>1. /\ UNCHANGED <<clock, pipeline, edit, restored>> /\ run' = [run EXCEPT ![start[h].row].linked = TRUE]
        /\ Goes(h, "recheck")
    BY <1>1, <1>20, ItGoes DEF LinkTask, Steps
  <2>2. SlotsKept
    <3>1. \A r \in Rows : run'[r] = run[r] \/ run'[r] = [run[r] EXCEPT !.linked = TRUE]
      BY <1>1, <2>1
    <3>2. \A x \in Run : /\ [x EXCEPT !.linked = TRUE].slot = x.slot
                         /\ [x EXCEPT !.linked = TRUE].reason = x.reason
      BY DEF Run
    <3> QED BY <1>1, <3>1, <3>2 DEF SlotsKept
  <2> QED BY <1>7, <2>1, <2>2 DEF WorkSteps, ReasonedSteps
\* The end of a run is written, or is not.
<1>21. ASSUME NEW r \in Rows, NEW status \in Statuses, run' = [run EXCEPT ![r].status = status]
       PROVE  SlotsKept
  BY <1>1, <1>21, StatusWritten
<1>22. ASSUME NEW h \in Starters, RecheckTask(h) PROVE SlotInv'
  <2>1. UNCHANGED <<clock, pipeline, edit, restored>> /\ start[h].row \in Rows
    BY <1>22 DEF RecheckTask, HandsOut, AutoInv, TasksInv, InHand
  <2>2. Done(h) \/ Becomes(h, "sync")
    BY <1>22 DEF RecheckTask
  <2>3. IsDone(h) \/ Goes(h, "sync")
    BY <1>1, <1>8, <2>2, ItGoes DEF Steps
  <2>4. SlotsKept
    BY <1>10, <1>21, <1>22, <2>1 DEF RecheckTask, EndRun, TaskClosed, Statuses, Reported
  <2> QED BY <1>7, <2>1, <2>3, <2>4 DEF WorkSteps, ReasonedSteps
<1>23. ASSUME NEW h \in Starters, DiscardRun(h) \/ FailRun(h) \/ CleanUpFails(h) PROVE SlotInv'
  <2>1. /\ UNCHANGED <<clock, pipeline, edit, restored>> /\ start[h].row \in Rows
        /\ start[h].reason # "" /\ start[h].reason \in Reasons
    <3>1. start[h].step \in {"discard", "fail"} /\ UNCHANGED <<clock, pipeline, edit, restored>>
      BY <1>23 DEF DiscardRun, FailRun, CleanUpFails
    <3>2. start[h].row \in Rows
      BY <3>1 DEF HandsOut, AutoInv, TasksInv, InHand
    <3>3. start[h].reason # ""
      BY <3>1 DEF SlotInv, Reasoned, ReasonedSteps
    <3> QED BY <1>2, <3>1, <3>2, <3>3
  <2>2. Becomes(h, "record") \/ Becomes(h, "sync") \/ Refused(h, start[h].reason)
    BY <1>23 DEF DiscardRun, FailRun, CleanUpFails
  <2>3. IsDone(h) \/ Goes(h, "sync") \/ (Goes(h, "record") /\ start'[h].reason # "")
    <3>1. CASE Refused(h, start[h].reason)
      BY <1>9, <2>1, <3>1
    <3>2. CASE Becomes(h, "record") \/ Becomes(h, "sync")
      BY <1>1, <2>1, <3>2, ItGoes DEF Steps
    <3> QED BY <2>2, <3>1, <3>2
  <2>4. SlotsKept
    <3>1. "failed" \in Statuses /\ "discarded" \in Statuses
      BY DEF Statuses, Reported, Ended
    <3> QED BY <1>10, <1>21, <1>23, <2>1, <3>1 DEF DiscardRun, FailRun, CleanUpFails, EndRun
  <2> QED BY <1>7, <2>1, <2>3, <2>4 DEF WorkSteps, ReasonedSteps
<1>24. ASSUME NEW h \in Starters, SyncLastRun(h) PROVE SlotInv'
  <2>1. UNCHANGED <<clock, run, edit, restored>> /\ Synced(start[h].row)
    BY <1>24 DEF SyncLastRun
  <2>2. pipeline'.status = pipeline.status /\ pipeline'.nextRunAt = pipeline.nextRunAt
    BY <1>1, <2>1 DEF Synced, TypeOK
  <2>3. Done(h) \/ \E reason \in Reasons : Refused(h, reason)
    BY <1>2, <1>24 DEF SyncLastRun
  <2>4. IsDone(h) \/ (Goes(h, "record") /\ start'[h].reason # "")
    BY <1>8, <1>9, <2>3
  <2> QED BY <1>7, <1>10, <2>1, <2>2, <2>4 DEF WorkSteps, ReasonedSteps
<1>25. ASSUME NEW h \in Starters, Crash(h) PROVE SlotInv'
  BY <1>7, <1>8, <1>10, <1>25 DEF Crash
<1>26. ASSUME NEW w \in Schedulers, ReadLatest(w) PROVE SlotInv'
  <2>1. PICK step \in {"count", "note"} : \E row, repeat :
           start' = [start EXCEPT ![w].step = step, ![w].row = row, ![w].repeat = repeat]
    BY <1>26 DEF ReadLatest
  <2>2. PICK row, repeat :
           start' = [start EXCEPT ![w].step = step, ![w].row = row, ![w].repeat = repeat]
    BY <2>1
  <2>3. start'[w] = [start[w] EXCEPT !.step = step, !.row = row, !.repeat = repeat]
        /\ \A g \in Starters : g # w => start'[g] = start[g]
    BY <1>1, <1>3, <2>2 DEF TypeOK
  <2>4. start'[w].step = step /\ start'[w].reason = start[w].reason
    <3>1. start[w] \in Start
      BY <1>1, <1>3 DEF TypeOK
    <3> QED BY <2>3, <3>1 DEF Start
  <2>5. start[w].reason # "" /\ UNCHANGED <<clock, pipeline, run, edit, restored>>
    BY <1>3, <1>26 DEF ReadLatest, SlotInv, Reasoned, ReasonedSteps
  <2>6. StartsSay' /\ \A s \in Slots, g \in Starters : Fires(g, s)' => Fires(g, s)
    BY <1>3, <2>3, <2>4, <2>5, StartKeeps
  <2>7. TakenKept
    BY <2>5, <2>6 DEF TakenKept, FiredBy
  <2> QED BY <2>5, <2>6, <2>7, SlotsStay, SameAutomation
<1>27. ASSUME NEW w \in Schedulers, Recorded(w) PROVE IsDone(w) \/ Goes(w, "pause")
  BY <1>1, <1>3, <1>8, <1>27, ItGoes DEF Recorded, Steps
<1>28. ASSUME NEW w \in Schedulers, CountRepeat(w) PROVE SlotInv'
  <2>1. UNCHANGED <<clock, pipeline, edit, restored>> /\ (IsDone(w) \/ Goes(w, "pause"))
    BY <1>27, <1>28 DEF CountRepeat
  <2>2. SlotsKept
    <3>1. PICK i, repeat : run' = [run EXCEPT ![i].repeat = repeat, ![i].streakClosed = FALSE]
      BY <1>28 DEF CountRepeat
    <3>2. \A r \in Rows : \/ run'[r] = run[r]
                          \/ run'[r] = [run[r] EXCEPT !.repeat = repeat, !.streakClosed = FALSE]
      BY <1>1, <3>1
    <3>3. \A x \in Run : /\ [x EXCEPT !.repeat = repeat, !.streakClosed = FALSE].slot = x.slot
                         /\ [x EXCEPT !.repeat = repeat, !.streakClosed = FALSE].reason = x.reason
      BY DEF Run
    <3> QED BY <1>1, <3>2, <3>3 DEF SlotsKept
  <2> QED BY <1>3, <1>7, <2>1, <2>2 DEF WorkSteps, ReasonedSteps
<1>29. ASSUME NEW w \in Schedulers, NoteOutcome(w) PROVE SlotInv'
  <2>0. PICK row : row = [NoRun EXCEPT !.status = OutcomeOf(start[w].reason), !.source = "schedule",
                                       !.slot = start[w].slot, !.reason = start[w].reason, !.repeat = 1]
    OBVIOUS
  <2>1. row.reason # ""
    <3>1. start[w].reason # ""
      BY <1>3, <1>29 DEF NoteOutcome, SlotInv, Reasoned, ReasonedSteps
    <3> QED BY <2>0, <3>1 DEF NoRun
  <2>2. run' = [run EXCEPT ![NextRow] = row] /\ UNCHANGED <<clock, pipeline, edit, restored>>
    BY <2>0, <1>29 DEF NoteOutcome
  <2>3. /\ start'[w].step \in {"last", "idle"}
        /\ \A g \in Starters : g # w => start'[g] = start[g]
    <3>1. CASE Done(w)
      BY <1>3, <1>8, <3>1 DEF IsDone
    <3>2. CASE start' = [start EXCEPT ![w].step = "last", ![w].row = NextRow]
      <4>1. /\ start'[w] = [start[w] EXCEPT !.step = "last", !.row = NextRow]
            /\ \A g \in Starters : g # w => start'[g] = start[g]
        BY <1>1, <1>3, <3>2 DEF TypeOK
      <4>2. start[w] \in Start
        BY <1>1, <1>3 DEF TypeOK
      <4> QED BY <4>1, <4>2 DEF Start
    <3> QED BY <1>29, <3>1, <3>2 DEF NoteOutcome
  <2>4. StartsSay' /\ \A s \in Slots, g \in Starters : Fires(g, s)' => Fires(g, s)
    BY <1>3, <2>2, <2>3, StartKeeps DEF ReasonedSteps
  <2>5. TakenKept
    <3>1. \A r \in Rows : run'[r] = IF r = NextRow THEN row ELSE run[r]
      BY <1>1, <2>2
    <3> QED BY <2>1, <2>4, <3>1 DEF TakenKept, FiredBy
  <2> QED BY <2>2, <2>4, <2>5, SlotsStay, SameAutomation
<1>30. ASSUME NEW w \in Schedulers, NoteLastRun(w) PROVE SlotInv'
  <2>1. UNCHANGED <<clock, run, edit, restored>> /\ (IsDone(w) \/ Goes(w, "pause"))
    BY <1>27, <1>30 DEF NoteLastRun
  <2>2. pipeline'.status = pipeline.status /\ pipeline'.nextRunAt = pipeline.nextRunAt
    BY <1>1, <1>30 DEF NoteLastRun, TypeOK
  <2> QED BY <1>3, <1>7, <1>10, <2>1, <2>2 DEF WorkSteps, ReasonedSteps
<1>31. ASSUME NEW w \in Schedulers, PauseBySystem(w) PROVE SlotInv'
  <2>1. UNCHANGED <<clock, run, edit, restored>> /\ IsDone(w)
    BY <1>3, <1>8, <1>31 DEF PauseBySystem
  <2>2. StartsSay' /\ TakenKept
    BY <1>3, <1>5, <2>1 DEF TakenKept, FiredBy
  <2>3. pipeline' = pipeline \/ pipeline'.status = "paused"
    BY <1>1, <1>31 DEF PauseBySystem, TypeOK
  <2>4. GoneKept
    BY <2>1, <2>3 DEF GoneKept, Clean, SlotGone
  <2> QED BY <2>2, <2>4, SlotsStay
<1>32. ASSUME NEW p \in People, NEW to \in Edits, EditRead(p, to) PROVE SlotInv'
  <2>1. /\ UNCHANGED <<clock, pipeline, run, start, restored>>
        /\ edit' = [edit EXCEPT ![p] = [step |-> "write", to |-> to, status |-> pipeline.status,
                                         nextRunAt |-> pipeline.nextRunAt, now |-> clock]]
    BY <1>32 DEF EditRead
  <2>2. EditsPast'
    <3>1. \A q \in People : edit'[q] = edit[q] \/ edit'[q].now = clock
      BY <1>1, <2>1 DEF TypeOK
    <3> QED BY <1>1, <2>1, <3>1 DEF SlotInv, EditsPast
  <2>3. ClaimsDue' /\ Reasoned'
    BY <2>1 DEF SlotInv, ClaimsDue, Claiming, Reasoned, ReasonedSteps
  <2>4. TakenKept /\ GoneKept
    BY <2>1, SameAutomation DEF TakenKept, Fires, FiredBy
  <2> QED BY <2>2, <2>3, <2>4, SlotsStay DEF StartsSay
<1>33. ASSUME NEW p \in People, EditWrite(p) PROVE SlotInv'
  <2> DEFINE e == edit[p]
             s == NextStatus(e)
             next == IF s # e.status THEN ComputeNextRunAt(s, e.now) ELSE e.nextRunAt
  <2>1. e \in Edit
    BY <1>1 DEF TypeOK
  <2>2. /\ pipeline' = [pipeline EXCEPT !.status = s, !.nextRunAt = next]
        /\ restored' = IF /\ s = "active" /\ next <= clock
                          /\ pipeline.status # "active" \/ pipeline.nextRunAt # next
                       THEN restored \cup {next} ELSE restored
        /\ edit' = [edit EXCEPT ![p] = IF s = "active" /\ e.status # "active"
                                        THEN [e EXCEPT !.step = "streak"] ELSE NoEdit]
        /\ UNCHANGED <<clock, run, start>>
    BY <1>33 DEF EditWrite
  <2>3. next \in Nat
    <3>1. e.now \in 0..MaxTime /\ e.nextRunAt \in 0..MaxTime + 1
      BY <2>1 DEF Edit
    <3> QED BY <3>1, AutomationsAssumption DEF ComputeNextRunAt
  <2> HIDE DEF s, next
  <2>4. pipeline'.status = s /\ pipeline'.nextRunAt = next
    BY <1>1, <2>2 DEF TypeOK
  <2>5. GoneKept
    <3> SUFFICES ASSUME NEW t \in Slots, Clean(t)'
                 PROVE  Clean(t) /\ (Taken(t) /\ SlotGone(t) => SlotGone(t)')
      BY DEF GoneKept
    <3>1. Clean(t) /\ t \in Nat
      BY <2>2, SlotsAreNumbers DEF Clean
    <3>2. ASSUME SlotGone(t), s = "active" PROVE t < next
      <4>1. CASE next <= clock /\ (pipeline.status # "active" \/ pipeline.nextRunAt # next)
        <5>1. next \in restored'
          BY <2>2, <3>2, <4>1
        <5> QED BY <5>1 DEF Clean
      <4>2. CASE ~(next <= clock)
        BY <1>1, <2>3, <3>1, <3>2, <4>2 DEF SlotGone
      <4>3. CASE pipeline.status = "active" /\ pipeline.nextRunAt = next
        BY <3>2, <4>3 DEF SlotGone
      <4> QED BY <4>1, <4>2, <4>3
    <3>3. SlotGone(t) => SlotGone(t)'
      BY <2>2, <2>4, <3>2 DEF SlotGone
    <3> QED BY <3>1, <3>3
  <2>6. EditsPast'
    <3>1. [e EXCEPT !.step = "streak"].now = e.now
      BY <2>1 DEF Edit
    <3>2. \A q \in People : edit'[q] = edit[q] \/ edit'[q].now = e.now \/ edit'[q].now = 0
      BY <1>1, <2>2, <3>1 DEF TypeOK, NoEdit
    <3> QED BY <1>1, <2>2, <3>2 DEF SlotInv, EditsPast
  <2>7. ClaimsDue' /\ Reasoned'
    BY <2>2 DEF SlotInv, ClaimsDue, Claiming, Reasoned, ReasonedSteps
  <2>8. TakenKept
    BY <2>2 DEF TakenKept, Fires, FiredBy
  <2> QED BY <2>5, <2>6, <2>7, <2>8, SlotsStay DEF StartsSay
\* What only changes what is no one's slot.
<1>34. ASSUME SlotsKept, UNCHANGED <<clock, start, restored>>,
              pipeline'.status = pipeline.status, pipeline'.nextRunAt = pipeline.nextRunAt,
              \A p \in People : edit'[p] = edit[p] \/ edit'[p] = NoEdit
       PROVE  SlotInv'
  <2>1. TakenKept
    BY <1>34 DEF TakenKept, Fires, FiredBy, SlotsKept
  <2>2. ClaimsDue' /\ Reasoned'
    BY <1>34 DEF SlotInv, ClaimsDue, Claiming, Reasoned, ReasonedSteps
  <2>3. EditsPast'
    <3>1. NoEdit.now = 0 /\ 0 <= clock
      BY <1>1 DEF NoEdit
    <3>2. ASSUME NEW p \in People PROVE edit'[p].now <= clock
      <4>1. edit[p].now <= clock
        BY DEF SlotInv, EditsPast
      <4> QED BY <1>34, <3>1, <4>1
    <3> QED BY <1>34, <3>2 DEF EditsPast
  <2> QED BY <1>34, <2>1, <2>2, <2>3, SlotsStay, SameAutomation DEF StartsSay
<1>35. ASSUME NEW p \in People, CloseScheduleStreak(p) PROVE SlotInv'
  <2>1. /\ UNCHANGED <<clock, pipeline, start, restored>> /\ edit' = [edit EXCEPT ![p] = NoEdit]
        /\ run' = [r \in Rows |-> IF run[r].reason # "" THEN [run[r] EXCEPT !.streakClosed = TRUE]
                                  ELSE run[r]]
    BY <1>35 DEF CloseScheduleStreak
  <2>2. \A x \in Run : /\ [x EXCEPT !.streakClosed = TRUE].slot = x.slot
                       /\ [x EXCEPT !.streakClosed = TRUE].reason = x.reason
    BY DEF Run
  <2>3. SlotsKept
    BY <1>1, <2>1, <2>2 DEF SlotsKept
  <2>4. \A q \in People : edit'[q] = edit[q] \/ edit'[q] = NoEdit
    BY <1>1, <2>1 DEF TypeOK
  <2> QED BY <1>34, <2>1, <2>3, <2>4
<1>36. ASSUME NEW r \in Rows, NEW status \in Ended,
              AgentClosesTask(r, status) \/ CloserStep(r) \/ CloserStops(r)
       PROVE  SlotInv'
  <2>1. UNCHANGED <<clock, start, restored, edit>>
    BY <1>36 DEF AgentClosesTask, CloserStep, CloseRunForTask, SyncClosedRun, CloserStops
  <2>2. pipeline'.status = pipeline.status /\ pipeline'.nextRunAt = pipeline.nextRunAt
    <3>1. pipeline' = pipeline \/ Synced(r)
      BY <1>36 DEF AgentClosesTask, CloserStep, CloseRunForTask, SyncClosedRun, CloserStops
    <3> QED BY <1>1, <3>1 DEF Synced, TypeOK
  <2>3. SlotsKept
    <3>1. CASE CloseRunForTask(r)
      <4>1. taskOf[r] \in Ended
        BY <3>1 DEF CloseRunForTask, AutoInv, TasksInv, Closing
      <4>2. taskOf[r] \in Statuses
        BY <4>1 DEF Statuses, Reported
      <4> QED BY <1>10, <1>21, <3>1, <4>2 DEF CloseRunForTask, EndRun
    <3>2. CASE AgentClosesTask(r, status) \/ SyncClosedRun(r) \/ CloserStops(r)
      BY <1>10, <3>2 DEF AgentClosesTask, SyncClosedRun, CloserStops
    <3> QED BY <1>36, <3>1, <3>2 DEF CloserStep
  <2> QED BY <1>34, <2>1, <2>2, <2>3
<1>37. ASSUME NEW source, NEW status, ReportStart(source, status) PROVE SlotInv'
  <2>0. PICK row : row = [NoRun EXCEPT !.status = status, !.source = source]
    OBVIOUS
  <2>1. row.slot = 0
    BY <2>0 DEF NoRun
  <2>2. run' = [run EXCEPT ![NextRow] = row] /\ UNCHANGED <<clock, pipeline, start, edit, restored>>
    BY <2>0, <1>37 DEF ReportStart
  <2>3. \A r \in Rows : run'[r] = IF r = NextRow THEN row ELSE run[r]
    BY <1>1, <2>2
  <2>4. TakenKept
    BY <2>1, <2>2, <2>3, SlotsAreNumbers DEF TakenKept, Fires, FiredBy
  <2>5. StartsSay'
    BY <2>2 DEF SlotInv, StartsSay, ClaimsDue, Claiming, EditsPast, Reasoned, ReasonedSteps
  <2> QED BY <2>2, <2>4, <2>5, SlotsStay, SameAutomation
<1>38. ASSUME ReportLastRun \/ ReportWrite \/ \E r, status : ReportRead(r, status) PROVE SlotInv'
  <2>1. UNCHANGED <<clock, start, edit, restored>>
    BY <1>38 DEF ReportLastRun, ReportWrite, ReportRead
  <2>2. pipeline'.status = pipeline.status /\ pipeline'.nextRunAt = pipeline.nextRunAt
    BY <1>1, <1>38 DEF ReportLastRun, ReportWrite, ReportRead, TypeOK
  <2>3. SlotsKept
    <3>1. CASE UNCHANGED run
      BY <1>10, <3>1
    <3>2. CASE ~UNCHANGED run
      <4>0. run' = [run EXCEPT ![report.row].status = report.status, ![report.row].repeat = report.repeat,
                               ![report.row].streakClosed = report.streakClosed]
        BY <1>38, <3>2 DEF ReportLastRun, ReportWrite, ReportRead
      <4>1. PICK i, status, repeat, closed :
               run' = [run EXCEPT ![i].status = status, ![i].repeat = repeat, ![i].streakClosed = closed]
        BY <4>0
      <4>2. \A r \in Rows :
               \/ run'[r] = run[r]
               \/ run'[r] = [run[r] EXCEPT !.status = status, !.repeat = repeat, !.streakClosed = closed]
        BY <1>1, <4>1
      <4>3. ASSUME NEW x \in Run, NEW y,
                   y = [x EXCEPT !.status = status, !.repeat = repeat, !.streakClosed = closed]
            PROVE  y.slot = x.slot /\ y.reason = x.reason
        BY <4>3 DEF Run
      <4> QED BY <1>1, <4>2, <4>3 DEF SlotsKept
    <3> QED BY <3>1, <3>2
  <2> QED BY <1>34, <2>1, <2>2, <2>3
<1>39. CASE UNCHANGED autoVars
  BY <1>10, <1>34, <1>39 DEF autoVars
<1>40. ASSUME NEW h \in Starters, StartStep(h) \/ Crash(h) PROVE SlotInv'
  BY <1>17, <1>18, <1>19, <1>20, <1>22, <1>23, <1>24, <1>25, <1>40 DEF StartStep
<1>41. ASSUME NEW w \in Schedulers, SelectScheduled(w) \/ SchedulerStep(w) PROVE SlotInv'
  BY <1>12, <1>13, <1>14, <1>26, <1>28, <1>29, <1>30, <1>31, <1>41 DEF SchedulerStep
<1>42. ASSUME NEW p \in People, \/ \E force \in BOOLEAN : RunNow(p, force)
                                \/ \E to \in Edits : EditRead(p, to)
                                \/ EditWrite(p) \/ CloseScheduleStreak(p)
       PROVE  SlotInv'
  BY <1>15, <1>32, <1>33, <1>35, <1>42
<1>43. "failed" \in Ended
  BY DEF Ended
<1>44. ASSUME NEW r \in Rows, \/ \E status \in Ended : AgentClosesTask(r, status)
                              \/ CloserStep(r) \/ CloserStops(r)
       PROVE  SlotInv'
  BY <1>36, <1>43, <1>44
<1> QED BY <1>11, <1>37, <1>38, <1>39, <1>40, <1>41, <1>42, <1>44 DEF AutoNext

(***************************************************************************)
(* No slot of an automation starts two runs, whichever processes claim it, *)
(* stop or are late, and however often it is paused and resumed: the       *)
(* compare-and-set of runScheduledPipelines, given that no edit wrote an   *)
(* earlier slot back.                                                      *)
(***************************************************************************)
THEOREM SlotsFireOnce == AutoSpec => []SlotFiredOnce
<1>1. AutoInit => AutoInv /\ Reporting /\ TypeInv /\ SlotInv
  BY AutoInvInit, ReportingInit, TypeInvInit, SlotInvInit
<1>2. AutoInv /\ Reporting /\ TypeInv /\ SlotInv /\ [AutoNext]_autoVars
        => AutoInv' /\ Reporting' /\ TypeInv' /\ SlotInv'
  BY AutoInvStep, ReportsMove, TypeInvStep, SlotInvStep
<1>3. TypeInv /\ SlotInv => SlotFiredOnce
  <2> SUFFICES ASSUME TypeInv, SlotInv, NEW q \in Rows, NEW r \in Rows, run[q].slot = run[r].slot,
                      run[r].slot # 0, run[q].reason = "", run[r].reason = ""
               PROVE  q = r \/ \E slot \in restored : slot <= run[r].slot
    BY DEF SlotFiredOnce
  <2> DEFINE s == run[r].slot
  <2>1. s \in Slots
    <3>1. \A x \in Run : x.slot \in 0..MaxTime
      BY DEF Run
    <3>2. s \in 0..MaxTime
      BY <3>1 DEF TypeInv, TypeOK
    <3> QED BY <3>2, SlotBounds
  <2>2. CASE Clean(s)
    <3>1. OneTaker(s) /\ FiredBy(q, s) /\ FiredBy(r, s)
      BY <2>1, <2>2 DEF SlotInv, OneTakerEach, FiredBy
    <3> QED BY <3>1 DEF OneTaker
  <2>3. CASE ~Clean(s)
    <3>1. PICK t \in restored : ~(s < t)
      BY <2>3 DEF Clean
    <3>2. t \in 0..MaxTime + 1
      BY DEF TypeInv, TypeOK
    <3> QED BY <2>1, <3>1, <3>2, SlotBounds
  <2> QED BY <2>2, <2>3
<1> QED BY <1>1, <1>2, <1>3, PTL DEF AutoSpec
=============================================================================
