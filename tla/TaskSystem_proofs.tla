------------------------- MODULE TaskSystem_proofs --------------------------
(***************************************************************************)
(* Proofs about the task control plane, for any number of tasks, agents,   *)
(* handlers in flight and watchdogs, any project policy and any mix of     *)
(* requests.                                                               *)
(***************************************************************************)
EXTENDS TaskSystem, Approvals_proofs

(***************************************************************************)
(* Types.  The rows written from a stale copy are rows.                    *)
(***************************************************************************)
\* A handler past its SELECT names a task (a claim finds one only at its end).
Named == \A r \in Slots : req[r].op \notin {"none", "resolved", "claim"} => req[r].on \in Tasks

Types == ATypes /\ BoardTypeOK /\ Named /\ WatchdogTypeOK

LEMMA NewRowType ==
    ASSUME NEW who \in Assignees
    PROVE  NewRow(who[1], who[2]) \in Row
BY DEF Assignees, NewRow, Row, TaskStates, RequestStates, LeaseTimes

LEMMA EmptyRowType == NewRow(None, None) \in Row
BY DEF NewRow, Row, TaskStates, RequestStates, LeaseTimes

LEMMA NoRequestType == NoRequest \in Request
BY EmptyRowType DEF NoRequest, Request, RequestStates

LEMMA AssignedRowType ==
    ASSUME NEW row \in Row, NEW a \in Agents \cup {None}, NEW claiming \in BOOLEAN
    PROVE  AssignedRow(row, a, claiming) \in Row
BY DEF AssignedRow, Row, TaskStates, RequestStates, LeaseTimes

LEMMA UpdatedRowType ==
    ASSUME NEW row \in Row, NEW state \in TaskStates,
           NEW who \in (Agents \cup {None}) \X (Members \cup {None}), NEW reassigning \in BOOLEAN
    PROVE  UpdatedRow(row, state, who, reassigning) \in Row
BY DEF UpdatedRow, Row, LeaseTimes

LEMMA RenewedRowType ==
    ASSUME NEW row \in Row, NEW time \in LeaseTimes
    PROVE  [row EXCEPT !.leaseUntil = time] \in Row
BY DEF Row

\* A write of one task, or of none, keeps the table well typed.
LEMMA OneWriteType ==
    ASSUME task \in [Tasks -> Row], NEW t, NEW row \in Row, task' = [task EXCEPT ![t] = row]
    PROVE  task' \in [Tasks -> Row]
OBVIOUS

LEMMA BoardTypes == ASSUME Types, BoardNext, UNCHANGED watchVars PROVE Types'
<1> USE DEF Types
<1>1. BoardTypeOK /\ Named /\ RowsTypeOK /\ ApprovalsTypeOK /\ ATypes
  BY DEF ATypes
<1>2. \A r \in Slots : req[r] \in Request /\ req[r].row \in Row
                        /\ req[r].actor \in Agents \cup {None} /\ req[r].next \in RequestStates
                        /\ req[r].to \subseteq Assignees
  BY <1>1 DEF BoardTypeOK, Request
<1>3. WatchdogTypeOK'
  BY DEF WatchdogTypeOK, watchVars
<1>4. ASSUME ATypes', BoardTypeOK', Named' PROVE Types'
  BY <1>3, <1>4
<1>5. ASSUME task' \in [Tasks -> Row], UNCHANGED <<retries, archived, approvalVars>> PROVE ATypes'
  BY <1>1, <1>5 DEF ATypes, RowsTypeOK, ApprovalsTypeOK, Applying, Working, approvalVars
<1>6. ASSUME NEW r \in Slots, Answer(r) PROVE req' \in [Slots -> Request] /\ Named'
  BY <1>1, <1>6, NoRequestType DEF Answer, BoardTypeOK, Named, NoRequest
<1>7. ASSUME NEW r \in Slots, NEW op \in {"assign", "update", "result"}, NEW t \in Tasks,
             NEW a \in Agents \cup {None}, NEW to \in SUBSET Assignees, Selected(r, op, t, a, to)
      PROVE  req' \in [Slots -> Request] /\ Named'
  <2>1. task[t] \in Row
    BY <1>1 DEF RowsTypeOK
  <2>2. [NoRequest EXCEPT !.op = op, !.on = t, !.actor = a, !.row = task[t], !.to = to] \in Request
    BY <2>1, NoRequestType DEF Request
  <2>3. req' \in [Slots -> Request]
    BY <1>1, <1>7, <2>2 DEF Selected, BoardTypeOK
  <2>4. req'[r].on = t /\ \A q \in Slots : q # r => req'[q] = req[q]
    BY <1>1, <1>7 DEF Selected, BoardTypeOK, NoRequest
  <2> QED BY <1>1, <2>3, <2>4 DEF Named
<1>8. ASSUME ReadOnly PROVE ATypes' /\ UNCHANGED deleted
  BY <1>1, <1>5, <1>8 DEF ReadOnly, rowVars, RowsTypeOK
<1>9. ASSUME NEW r \in Slots, ClaimSnapshot(r) PROVE Types'
  <2>1. PICK rows \in SUBSET Tasks : req' = [req EXCEPT ![r].op = "claim", ![r].rows = rows]
    BY <1>9 DEF ClaimSnapshot
  <2>2. [req[r] EXCEPT !.op = "claim", !.rows = rows] \in Request
    BY <1>2 DEF Request
  <2>3. req' = [req EXCEPT ![r] = [req[r] EXCEPT !.op = "claim", !.rows = rows]]
    BY <1>1, <2>1 DEF BoardTypeOK
  <2>4. req' \in [Slots -> Request]
    BY <1>1, <2>2, <2>3 DEF BoardTypeOK
  <2>5. req'[r].op = "claim" /\ \A q \in Slots : q # r => req'[q] = req[q]
    BY <1>1, <1>2, <2>3 DEF BoardTypeOK, Request
  <2> QED BY <1>1, <1>4, <1>8, <1>9, <2>4, <2>5 DEF ClaimSnapshot, BoardTypeOK, Named
<1>10. ASSUME NEW r \in Slots, NEW t \in Tasks, ClaimUpdate(r, t) PROVE Types'
  <2> DEFINE row == [state |-> "in_progress", agent |-> req[r].actor, member |-> None,
                     leaseOwner |-> req[r].actor, leaseUntil |-> "future"]
  <2>1. row \in Row
    BY <1>2 DEF Row, TaskStates, RequestStates, LeaseTimes
  <2>2. task' = [task EXCEPT ![t] = row]
    BY <1>10 DEF ClaimUpdate
  <2>3. task' \in [Tasks -> Row]
    BY <1>1, <2>1, <2>2 DEF RowsTypeOK
  <2> QED BY <1>1, <1>4, <1>5, <1>6, <1>10, <2>3 DEF ClaimUpdate, WritesTask, BoardTypeOK
<1>11. ASSUME NEW r \in Slots, ClaimNothing(r) \/ RequestEnds(r) PROVE Types'
  BY <1>1, <1>4, <1>6, <1>8, <1>11 DEF ClaimNothing, RequestEnds, BoardTypeOK
<1>12. ASSUME NEW r \in Slots, NEW t \in Tasks, UpdateSelect(r, t) PROVE Types'
  <2>1. PICK to \in {{}} \cup {{who} : who \in Assignees} : Selected(r, "update", t, None, to)
    BY <1>12 DEF UpdateSelect
  <2>2. to \in SUBSET Assignees
    OBVIOUS
  <2> QED BY <1>1, <1>4, <1>7, <1>8, <1>12, <2>1, <2>2 DEF UpdateSelect, BoardTypeOK
<1>13. ASSUME NEW r \in Slots, NEW t \in Tasks, AssignSelect(r, t) \/ ResultSelect(r, t)
       PROVE  Types'
  <2>1. {} \in SUBSET Assignees
    OBVIOUS
  <2> QED BY <1>1, <1>2, <1>4, <1>7, <1>8, <1>13, <2>1 DEF AssignSelect, ResultSelect, BoardTypeOK
<1>14. ASSUME NEW r \in Slots, AssignUpdate(r) PROVE Types'
  <2>1. PICK claiming \in BOOLEAN :
          task' = [task EXCEPT ![req[r].on] = AssignedRow(req[r].row, req[r].actor, claiming)]
    BY <1>14 DEF AssignUpdate
  <2>2. AssignedRow(req[r].row, req[r].actor, claiming) \in Row
    BY <1>2, AssignedRowType
  <2>3. task' \in [Tasks -> Row]
    BY <1>1, <2>1, <2>2 DEF RowsTypeOK
  <2> QED BY <1>1, <1>4, <1>5, <1>6, <1>14, <2>3 DEF AssignUpdate, WritesTask, BoardTypeOK
<1>15. ASSUME NEW r \in Slots, UpdateUpdate(r) PROVE Types'
  <2>1. PICK state \in RequestStates \cup {req[r].row.state} :
          \/ task' = [task EXCEPT ![req[r].on] =
                        UpdatedRow(req[r].row, state, <<req[r].row.agent, req[r].row.member>>, FALSE)]
          \/ \E who \in Assignees :
               task' = [task EXCEPT ![req[r].on] = UpdatedRow(req[r].row, state, who, TRUE)]
    BY <1>2, <1>15 DEF UpdateUpdate
  <2>2. state \in TaskStates /\ req[r].row \in Row
    BY <1>2 DEF Row, TaskStates
  <2>3. UpdatedRow(req[r].row, state, <<req[r].row.agent, req[r].row.member>>, FALSE) \in Row
    <3>1. <<req[r].row.agent, req[r].row.member>> \in (Agents \cup {None}) \X (Members \cup {None})
      BY <2>2 DEF Row
    <3> QED BY <2>2, <3>1, UpdatedRowType
  <2>4. \A who \in Assignees : UpdatedRow(req[r].row, state, who, TRUE) \in Row
    <3>1. Assignees \subseteq (Agents \cup {None}) \X (Members \cup {None})
      BY DEF Assignees
    <3> QED BY <2>2, <3>1, UpdatedRowType
  <2>5. task' \in [Tasks -> Row]
    BY <1>1, <2>1, <2>3, <2>4 DEF RowsTypeOK
  <2> QED BY <1>1, <1>4, <1>5, <1>6, <1>15, <2>5 DEF UpdateUpdate, WritesTask, BoardTypeOK
<1>16. ASSUME NEW r \in Slots, ResultPasses(r) PROVE Types'
  <2>1. PICK next \in RequestStates : req' = [req EXCEPT ![r].op = "commit", ![r].next = next]
    BY <1>16 DEF ResultPasses
  <2>2. [req[r] EXCEPT !.op = "commit", !.next = next] \in Request
    BY <1>2 DEF Request
  <2>3. req' = [req EXCEPT ![r] = [req[r] EXCEPT !.op = "commit", !.next = next]]
    BY <1>1, <2>1 DEF BoardTypeOK
  <2>4. req' \in [Slots -> Request]
    BY <1>1, <2>2, <2>3 DEF BoardTypeOK
  <2>5. \A q \in Slots : req'[q].on = req[q].on /\ (q # r => req'[q] = req[q])
    BY <1>1, <1>2, <2>3 DEF BoardTypeOK, Request
  <2>6. req[r].op = "result"
    BY <1>16 DEF ResultPasses
  <2>7. Named'
    BY <1>1, <2>5, <2>6 DEF Named
  <2> QED BY <1>1, <1>4, <1>8, <1>16, <2>4, <2>7 DEF ResultPasses, BoardTypeOK
<1>17. ASSUME NEW r \in Slots, ResultAsks(r) PROVE Types'
  <2>1. /\ UNCHANGED <<rowVars, approval, taskLock, decision, deleted>>
        /\ Answer(r) /\ StartAsk(r, {req[r].on}, "task_done", "direct")
        /\ req[r].op = "result"
    BY <1>17 DEF ResultAsks
  <2>3. req[r].on \in Tasks
    BY <1>1, <2>1 DEF Named
  <2>4. ask' \in [Slots -> Ask]
    BY <1>1, <2>1, <2>3 DEF StartAsk, ApprovalsTypeOK, Ask, ActionTypes
  <2>5. ATypes'
    BY <1>1, <2>1, <2>4 DEF ATypes, RowsTypeOK, ApprovalsTypeOK, Applying, Working, rowVars
  <2> QED BY <1>1, <1>4, <1>6, <2>1, <2>5 DEF BoardTypeOK
<1>18. ASSUME NEW r \in Slots, ResultUpdate(r) PROVE Types'
  <2>1. task' = [task EXCEPT ![req[r].on] = [NoLease(task[req[r].on]) EXCEPT !.state = req[r].next]]
    BY <1>18 DEF ResultUpdate
  <2>2. \A t \in Tasks : [NoLease(task[t]) EXCEPT !.state = req[r].next] \in Row
    BY <1>1, <1>2, RowNoLease, RowWithState DEF RowsTypeOK, TaskStates
  <2>3. task' \in [Tasks -> Row]
    BY <1>1, <2>1, <2>2 DEF RowsTypeOK
  <2> QED BY <1>1, <1>4, <1>5, <1>6, <1>18, <2>3 DEF ResultUpdate, WritesTask, BoardTypeOK
<1>19. ASSUME NEW r \in Slots, Heartbeat(r) PROVE Types'
  <2>1. \A t \in Tasks : [task[t] EXCEPT !.leaseUntil = "future"] \in Row
    BY <1>1, RenewedRowType DEF RowsTypeOK, LeaseTimes
  <2>2. task' \in [Tasks -> Row]
    BY <1>1, <1>19, <2>1 DEF Heartbeat, RowsTypeOK
  <2> QED BY <1>1, <1>4, <1>5, <1>6, <1>19, <2>2 DEF Heartbeat, WritesTask, BoardTypeOK
<1>20. ASSUME NEW t \in Tasks, Archive(t) \/ Unarchive(t) PROVE Types'
  <2>1. /\ UNCHANGED <<task, retries, approvalVars, boardVars>>
        /\ archived' \subseteq Tasks
    BY <1>1, <1>20 DEF Archive, Unarchive, RowsTypeOK
  <2>2. ATypes'
    BY <1>1, <2>1 DEF ATypes, RowsTypeOK, ApprovalsTypeOK, Applying, Working, approvalVars
  <2> QED BY <1>1, <1>4, <2>1, <2>2 DEF BoardTypeOK, Named, boardVars
<1>21. ASSUME NEW a \in Agents, DeleteAgent(a) PROVE Types'
  <2>1. \A t \in Tasks : [NoLease(task[t]) EXCEPT !.agent = None] \in Row
    <3>1. \A t \in Tasks : NoLease(task[t]) \in Row
      BY <1>1, RowNoLease DEF RowsTypeOK
    <3> QED BY <3>1 DEF Row
  <2>2. task' \in [Tasks -> Row]
    BY <1>1, <1>21, <2>1 DEF DeleteAgent, Released, RowsTypeOK
  <2> QED BY <1>1, <1>4, <1>5, <1>21, <2>2 DEF DeleteAgent, BoardTypeOK, Named
<1>22. ASSUME NEW t \in Tasks, LeaseRunsOut(t) PROVE Types'
  <2>1. [task[t] EXCEPT !.leaseUntil = "past"] \in Row
    BY <1>1, RenewedRowType DEF RowsTypeOK, LeaseTimes
  <2>2. task' \in [Tasks -> Row]
    BY <1>1, <1>22, <2>1 DEF LeaseRunsOut, RowsTypeOK
  <2>3. \A r \in Slots : [req[r] EXCEPT !.row.leaseUntil = "past"] \in Request
    <3>1. \A r \in Slots : [req[r].row EXCEPT !.leaseUntil = "past"] \in Row
      BY <1>2, RenewedRowType DEF LeaseTimes
    <3> QED BY <1>2, <3>1 DEF Request
  <2>4. req' \in [Slots -> Request]
    BY <1>1, <1>22, <2>3 DEF LeaseRunsOut, BoardTypeOK
  <2>5. \A q \in Slots : req'[q].on = req[q].on /\ req'[q].op = req[q].op
    BY <1>1, <1>2, <1>22 DEF LeaseRunsOut, BoardTypeOK, Request
  <2>6. Named'
    BY <1>1, <2>5 DEF Named
  <2> QED BY <1>1, <1>4, <1>5, <1>22, <2>2, <2>4, <2>6 DEF LeaseRunsOut, WritesTask, BoardTypeOK
<1>23. ASSUME NEW r \in Slots, NEW a \in Agents, ResolveAgent(r, a) PROVE Types'
  <2>1. [NoRequest EXCEPT !.op = "resolved", !.actor = a] \in Request
    BY NoRequestType DEF Request
  <2>2. req'[r].op = "resolved" /\ \A q \in Slots : q # r => req'[q] = req[q]
    BY <1>1, <1>23 DEF ResolveAgent, BoardTypeOK, NoRequest
  <2>3. ReadOnly
    BY <1>23 DEF ResolveAgent, ReadOnly
  <2> QED BY <1>1, <1>4, <1>8, <1>23, <2>1, <2>2, <2>3 DEF ResolveAgent, BoardTypeOK, Named
<1> QED
  BY <1>9, <1>10, <1>11, <1>12, <1>13, <1>14, <1>15, <1>16, <1>17, <1>18, <1>19, <1>20, <1>21, <1>22,
     <1>23
     DEF BoardNext

LEMMA WatchdogTypes ==
    ASSUME Types, WatchdogNext, UNCHANGED <<approvalVars, boardVars>> PROVE Types'
<1> USE TaskRowsAssumption, WatchdogAssumption DEF Types
<1>1. RowsTypeOK /\ ApprovalsTypeOK /\ ATypes
  BY DEF ATypes
<1>2. ASSUME RowsTypeOK' PROVE ATypes' /\ BoardTypeOK' /\ Named'
  BY <1>1, <1>2 DEF ATypes, ApprovalsTypeOK, Applying, Working, BoardTypeOK, Named,
                    approvalVars, boardVars
<1>3. \A w \in Replicas : /\ pass[w] \in Pass
                          /\ pass[w].count \in [Tasks -> 0..MaxRetries]
                          /\ pass[w].found \subseteq Tasks
  BY DEF WatchdogTypeOK, Pass
<1>4. NoPass \in Pass /\ [NoPass EXCEPT !.step = "resolve"] \in Pass
  BY DEF NoPass, Pass, Steps
<1>5. ASSUME NEW w \in Replicas, StartPass(w) PROVE Types'
  <2>1. RowsTypeOK'
    BY <1>1, <1>5 DEF StartPass, rowVars, RowsTypeOK
  <2> QED BY <1>2, <1>4, <1>5, <2>1 DEF StartPass, WatchdogTypeOK
<1>6. ASSUME NEW w \in Replicas, ResolveOwnStaleIncidents(w) PROVE Types'
  <2>1. RowsTypeOK'
    BY <1>1, <1>6 DEF ResolveOwnStaleIncidents, rowVars, RowsTypeOK
  <2>2. [step |-> "leases", found |-> {t \in Tasks : LeaseExpired(t)},
         count |-> retries, missing |-> None] \in Pass
    BY <1>1 DEF Pass, Steps, RowsTypeOK
  <2>3. incident' \in [Tasks -> [Reasons -> 0..MaxIncidents]]
    <3>1. 0 \in 0..MaxIncidents
      OBVIOUS
    <3> QED BY <1>6, <3>1 DEF ResolveOwnStaleIncidents, Resolvable, WatchdogTypeOK
  <2> QED BY <1>2, <1>6, <2>1, <2>2, <2>3 DEF ResolveOwnStaleIncidents, ExpiredRows, WatchdogTypeOK
<1>7. ASSUME NEW w \in Replicas, NEW t \in Tasks, Handled(w, t)
      PROVE  pass' \in [Replicas -> Pass]
  <2>1. [pass[w] EXCEPT !.found = @ \ {t}] \in Pass
    BY <1>3 DEF Pass
  <2>2. pass' = [pass EXCEPT ![w] = [pass[w] EXCEPT !.found = @ \ {t}]]
    BY <1>7 DEF Handled, WatchdogTypeOK
  <2> QED BY <2>1, <2>2 DEF WatchdogTypeOK
<1>8. ASSUME NEW w \in Replicas, NEW t \in Tasks, RetryTask(w, t) PROVE Types'
  <2>1. NewRow(None, None) \in Row
    BY EmptyRowType
  <2>2. pass[w].count[t] + 1 \in 0..MaxRetries
    <3> HIDE DEF Types
    <3>1. pass[w].count[t] \in 0..MaxRetries
      BY <1>3
    <3>2. pass[w].count[t] < MaxRetries
      BY <1>8 DEF RetryTask, RetriesLeft
    <3>3. MaxRetries \in Nat
      BY TaskRowsAssumption
    <3> QED BY <3>1, <3>2, <3>3
  <2>3. RowsTypeOK'
    BY <1>1, <1>8, <2>1, <2>2 DEF RetryTask, RowsTypeOK
  <2> QED BY <1>2, <1>7, <1>8, <2>3 DEF RetryTask, WatchdogTypeOK
<1>9. ASSUME NEW w \in Replicas, NEW t \in Tasks, DeadLetter(w, t) PROVE Types'
  <2>1. [task[t] EXCEPT !.state = "dead_letter"] \in Row
    BY <1>1, RowWithState DEF RowsTypeOK, TaskStates
  <2>2. RowsTypeOK'
    BY <1>1, <1>9, <2>1 DEF DeadLetter, RowsTypeOK
  <2>3. [pass[w] EXCEPT !.found = @ \ {t}, !.step = "dead", !.missing = t] \in Pass
    BY <1>3 DEF Pass, Steps
  <2>4. pass' = [pass EXCEPT ![w] = [pass[w] EXCEPT !.found = @ \ {t}, !.step = "dead", !.missing = t]]
    BY <1>9 DEF DeadLetter, WatchdogTypeOK
  <2> QED BY <1>2, <1>9, <2>2, <2>3, <2>4 DEF DeadLetter, WatchdogTypeOK
<1>10. ASSUME NEW t, NEW c, Raise(t, c)
       PROVE  incident' \in [Tasks -> [Reasons -> 0..MaxIncidents]]
  <2>1. \A n \in 0..MaxIncidents : (IF n < MaxIncidents THEN n + 1 ELSE n) \in 0..MaxIncidents
    OBVIOUS
  <2> QED BY <1>10, <2>1 DEF Raise, WatchdogTypeOK
<1>11. ASSUME NEW w \in Replicas, RaiseDeadLetter(w) PROVE Types'
  <2>1. [pass[w] EXCEPT !.step = "leases", !.missing = None] \in Pass
    BY <1>3 DEF Pass, Steps
  <2>2. pass' = [pass EXCEPT ![w] = [pass[w] EXCEPT !.step = "leases", !.missing = None]]
    BY <1>11 DEF RaiseDeadLetter, WatchdogTypeOK
  <2>3. RowsTypeOK'
    BY <1>1, <1>11 DEF RaiseDeadLetter, rowVars, RowsTypeOK
  <2> QED BY <1>2, <1>10, <1>11, <2>1, <2>2, <2>3 DEF RaiseDeadLetter, WatchdogTypeOK
<1>12. ASSUME NEW w \in Replicas, NEW t \in Tasks, SkipTask(w, t) PROVE Types'
  <2>1. RowsTypeOK'
    BY <1>1, <1>12 DEF SkipTask, rowVars, RowsTypeOK
  <2> QED BY <1>2, <1>7, <1>12, <2>1 DEF SkipTask, WatchdogTypeOK
<1>13. ASSUME NEW w \in Replicas, NEW from, NEW reason \in WatchReasons, Detect(w, from, reason)
       PROVE  Types'
  <2>1. [NoPass EXCEPT !.step = reason,
                       !.found = {t \in Tasks : reason \in aged[t] /\ Holds(t, reason)}] \in Pass
    BY <1>4 DEF Pass, Steps, WatchReasons
  <2>2. RowsTypeOK'
    BY <1>1, <1>13 DEF Detect, rowVars, RowsTypeOK
  <2> QED BY <1>2, <1>13, <2>1, <2>2 DEF Detect, WatchdogTypeOK
<1>14. ASSUME NEW w \in Replicas, NEW t \in Tasks, CheckOpenIncident(w, t) PROVE Types'
  <2> DEFINE missing == IF incident[t][pass[w].step] = 0 THEN t ELSE None
  <2>1. [pass[w] EXCEPT !.found = @ \ {t}, !.missing = missing] \in Pass
    BY <1>3 DEF Pass
  <2>2. pass' = [pass EXCEPT ![w] = [pass[w] EXCEPT !.found = @ \ {t}, !.missing = missing]]
    BY <1>14 DEF CheckOpenIncident, WatchdogTypeOK
  <2>3. RowsTypeOK'
    BY <1>1, <1>14 DEF CheckOpenIncident, rowVars, RowsTypeOK
  <2> QED BY <1>2, <1>14, <2>1, <2>2, <2>3 DEF CheckOpenIncident, WatchdogTypeOK
<1>15. ASSUME NEW w \in Replicas, InsertIncident(w) PROVE Types'
  <2>1. [pass[w] EXCEPT !.missing = None] \in Pass
    BY <1>3 DEF Pass
  <2>2. pass' = [pass EXCEPT ![w] = [pass[w] EXCEPT !.missing = None]]
    BY <1>15 DEF InsertIncident, WatchdogTypeOK
  <2>3. RowsTypeOK'
    BY <1>1, <1>15 DEF InsertIncident, rowVars, RowsTypeOK
  <2> QED BY <1>2, <1>10, <1>15, <2>1, <2>2, <2>3 DEF InsertIncident, WatchdogTypeOK
<1>16. ASSUME NEW w \in Replicas, EndPass(w) \/ Crash(w) PROVE Types'
  <2>1. RowsTypeOK'
    BY <1>1, <1>16 DEF EndPass, Crash, rowVars, RowsTypeOK
  <2> QED BY <1>2, <1>4, <1>16, <2>1 DEF EndPass, Crash, WatchdogTypeOK
<1>17. ASSUME NEW t \in Tasks, NEW c \in Reasons, ResolveIncident(t, c) PROVE Types'
  <2>1. RowsTypeOK'
    BY <1>1, <1>17 DEF ResolveIncident, rowVars, RowsTypeOK
  <2>2. incident[t][c] - 1 \in 0..MaxIncidents
    BY <1>17 DEF ResolveIncident, WatchdogTypeOK
  <2> QED BY <1>2, <1>17, <2>1, <2>2 DEF ResolveIncident, WatchdogTypeOK
<1>18. ASSUME NEW t \in Tasks, NEW c \in WatchReasons, Ages(t, c) PROVE Types'
  <2>1. RowsTypeOK'
    BY <1>1, <1>18 DEF Ages, rowVars, RowsTypeOK
  <2> QED BY <1>2, <1>18, <2>1 DEF Ages, WatchdogTypeOK
<1> QED
  BY <1>5, <1>6, <1>8, <1>9, <1>11, <1>12, <1>13, <1>14, <1>15, <1>16, <1>17, <1>18
     DEF WatchdogNext, PassStep, ReclaimTask, DetectionStep, WatchReasons

LEMMA TypesInit == ASSUME Init PROVE Types
<1>1. ATypes
  BY ATypesInit DEF Init
<1>2. BoardTypeOK /\ Named
  BY NoRequestType DEF Init, BoardInit, BoardTypeOK, Named, NoRequest
<1>3. WatchdogTypeOK
  BY TaskRowsAssumption, WatchdogAssumption
     DEF Init, WatchdogInit, WatchdogTypeOK, NoPass, Pass, Steps
<1> QED BY <1>1, <1>2, <1>3 DEF Types

LEMMA TypesStep == ASSUME Types, [Next]_vars PROVE Types'
<1>1. CASE BoardNext /\ UNCHANGED watchVars
  BY <1>1, BoardTypes
<1>2. ASSUME [ApprovalsNext]_avars, UNCHANGED <<boardVars, watchVars>> PROVE Types'
  <2>1. ATypes'
    BY <1>2, ATypesStep DEF Types
  <2> QED
    BY <1>2, <2>1 DEF Types, boardVars, watchVars, BoardTypeOK, Named, WatchdogTypeOK
<1>3. CASE WatchdogNext /\ UNCHANGED <<approvalVars, boardVars>>
  BY <1>3, WatchdogTypes
<1>4. CASE UNCHANGED vars
  BY <1>2, <1>4 DEF vars, avars
<1> QED BY <1>1, <1>2, <1>3, <1>4 DEF Next

(***************************************************************************)
(* Type correctness of the whole control plane.                            *)
(***************************************************************************)
THEOREM TypeCorrect == Spec => []TypeOK
<1>1. Init => Types BY TypesInit
<1>2. Types /\ [Next]_vars => Types' BY TypesStep
<1>3. Types => TypeOK BY DEF Types, ATypes, TypeOK
<1> QED BY <1>1, <1>2, <1>3, PTL DEF Spec

-----------------------------------------------------------------------------
(***************************************************************************)
(* Assignee and lease.  The table alone is not inductive: a handler writes *)
(* back columns of the row it read, so what is true of the rows must be    *)
(* true of every copy in flight.                                           *)
(***************************************************************************)
Sound(row) ==
    /\ row.agent = None \/ row.member = None
    /\ row.leaseOwner \in {None, row.agent}

RowsSound ==
    /\ \A t \in Tasks : Sound(task[t])
    /\ \A r \in Slots : Sound(req[r].row)

SoundInv == Types /\ RowsSound

LEMMA NewRowSound == ASSUME NEW who \in Assignees PROVE Sound(NewRow(who[1], who[2]))
BY DEF Assignees, NewRow, Sound

LEMMA EmptyRowSound == Sound(NewRow(None, None)) /\ Sound(NoRequest.row)
BY DEF NewRow, Sound, NoRequest

\* Writing the state or the time of the lease, or revoking the lease, keeps a row sound.
LEMMA EditsSound ==
    ASSUME NEW row \in Row, Sound(row), NEW state
    PROVE  /\ Sound([row EXCEPT !.state = state])
           /\ Sound([NoLease(row) EXCEPT !.state = state])
BY DEF Row, Sound, NoLease

LEMMA LeaseEditsSound ==
    ASSUME NEW row \in Row, Sound(row)
    PROVE  /\ \A time : Sound([row EXCEPT !.leaseUntil = time])
           /\ Sound([NoLease(row) EXCEPT !.agent = None])
BY DEF Row, Sound, NoLease

LEMMA AssignedRowSound ==
    ASSUME NEW row \in Row, Sound(row), NEW a, NEW claiming \in BOOLEAN
    PROVE  Sound(AssignedRow(row, a, claiming))
BY DEF Row, Sound, AssignedRow

LEMMA UpdatedRowSound ==
    ASSUME NEW row \in Row, Sound(row), NEW state
    PROVE  /\ Sound(UpdatedRow(row, state, <<row.agent, row.member>>, FALSE))
           /\ \A who \in Assignees : Sound(UpdatedRow(row, state, who, TRUE))
BY DEF Row, Sound, UpdatedRow, Assignees

LEMMA SoundBoard == ASSUME SoundInv, BoardNext, UNCHANGED watchVars PROVE RowsSound'
<1> USE DEF SoundInv
<1>1. /\ \A t \in Tasks : task[t] \in Row /\ Sound(task[t])
      /\ \A r \in Slots : req[r] \in Request /\ req[r].row \in Row /\ Sound(req[r].row)
      /\ task \in [Tasks -> Row] /\ req \in [Slots -> Request]
  BY DEF Types, ATypes, RowsTypeOK, BoardTypeOK, Request, RowsSound
<1>2. ASSUME NEW r \in Slots, Answer(r), \A t \in Tasks : Sound(task'[t]) PROVE RowsSound'
  BY <1>1, <1>2, EmptyRowSound DEF Answer, RowsSound
<1>3. ASSUME NEW r \in Slots, NEW op, NEW t \in Tasks, NEW a, NEW to, Selected(r, op, t, a, to),
             UNCHANGED task
      PROVE  RowsSound'
  <2>1. req'[r].row = task[t] /\ \A q \in Slots : q # r => req'[q] = req[q]
    BY <1>1, <1>3 DEF Selected, NoRequest
  <2> QED BY <1>1, <1>3, <2>1 DEF RowsSound
<1>4. ASSUME NEW t, NEW row, Sound(row), task' = [task EXCEPT ![t] = row]
      PROVE  \A u \in Tasks : Sound(task'[u])
  BY <1>1, <1>4
<1>5. ASSUME NEW r \in Slots, ClaimSnapshot(r) PROVE RowsSound'
  <2>1. UNCHANGED task /\ \A q \in Slots : req'[q].row = req[q].row
    BY <1>1, <1>5 DEF ClaimSnapshot, ReadOnly, rowVars, Request
  <2> QED BY <1>1, <2>1 DEF RowsSound
<1>6. ASSUME NEW r \in Slots, NEW t \in Tasks, ClaimUpdate(r, t) PROVE RowsSound'
  <2> DEFINE row == [state |-> "in_progress", agent |-> req[r].actor, member |-> None,
                     leaseOwner |-> req[r].actor, leaseUntil |-> "future"]
  <2>1. task' = [task EXCEPT ![t] = row] /\ Answer(r)
    BY <1>6 DEF ClaimUpdate
  <2>2. Sound(row)
    BY DEF Sound
  <2> QED BY <1>2, <1>4, <2>1, <2>2
<1>7. ASSUME NEW r \in Slots, ClaimNothing(r) \/ RequestEnds(r) \/ ResultAsks(r) PROVE RowsSound'
  <2>1. UNCHANGED task /\ Answer(r)
    BY <1>7 DEF ClaimNothing, RequestEnds, ResultAsks, ReadOnly, rowVars
  <2> QED BY <1>1, <1>2, <2>1
<1>8. ASSUME NEW r \in Slots, NEW t \in Tasks,
             UpdateSelect(r, t) \/ AssignSelect(r, t) \/ ResultSelect(r, t)
      PROVE  RowsSound'
  BY <1>3, <1>8 DEF UpdateSelect, AssignSelect, ResultSelect, ReadOnly, rowVars
<1>9. ASSUME NEW r \in Slots, AssignUpdate(r) PROVE RowsSound'
  <2>1. PICK claiming \in BOOLEAN :
          task' = [task EXCEPT ![req[r].on] = AssignedRow(req[r].row, req[r].actor, claiming)]
    BY <1>9 DEF AssignUpdate
  <2>2. Sound(AssignedRow(req[r].row, req[r].actor, claiming))
    BY <1>1, AssignedRowSound
  <2> QED BY <1>2, <1>4, <1>9, <2>1, <2>2 DEF AssignUpdate
<1>10. ASSUME NEW r \in Slots, UpdateUpdate(r) PROVE RowsSound'
  <2>1. PICK state \in RequestStates \cup {req[r].row.state} :
          \/ task' = [task EXCEPT ![req[r].on] =
                        UpdatedRow(req[r].row, state, <<req[r].row.agent, req[r].row.member>>, FALSE)]
          \/ \E who \in Assignees :
               task' = [task EXCEPT ![req[r].on] = UpdatedRow(req[r].row, state, who, TRUE)]
    BY <1>1, <1>10 DEF UpdateUpdate, Request
  <2>2. \A t \in Tasks : Sound(task'[t])
    BY <1>1, <1>4, <2>1, UpdatedRowSound
  <2> QED BY <1>2, <1>10, <2>2 DEF UpdateUpdate
<1>11. ASSUME NEW r \in Slots, ResultPasses(r) PROVE RowsSound'
  <2>1. UNCHANGED task /\ \A q \in Slots : req'[q].row = req[q].row
    BY <1>1, <1>11 DEF ResultPasses, ReadOnly, rowVars, Request
  <2> QED BY <1>1, <2>1 DEF RowsSound
<1>12. ASSUME NEW r \in Slots, ResultUpdate(r) PROVE RowsSound'
  <2>1. \A t \in Tasks : Sound([NoLease(task[t]) EXCEPT !.state = req[r].next])
    BY <1>1, EditsSound
  <2>2. task' = [task EXCEPT ![req[r].on] = [NoLease(task[req[r].on]) EXCEPT !.state = req[r].next]]
    BY <1>12 DEF ResultUpdate
  <2>3. \A t \in Tasks : Sound(task'[t])
    BY <1>1, <2>1, <2>2
  <2> QED BY <1>2, <1>12, <2>3 DEF ResultUpdate
<1>13. ASSUME NEW r \in Slots, Heartbeat(r) PROVE RowsSound'
  <2>1. \A t \in Tasks : task'[t] = task[t] \/ task'[t] = [task[t] EXCEPT !.leaseUntil = "future"]
    BY <1>13 DEF Heartbeat
  <2>2. \A t \in Tasks : Sound(task'[t])
    <3>1. \A t \in Tasks : Sound([task[t] EXCEPT !.leaseUntil = "future"])
      BY <1>1, LeaseEditsSound
    <3> QED BY <1>1, <2>1, <3>1
  <2> QED BY <1>2, <1>13, <2>2 DEF Heartbeat
<1>14. ASSUME NEW t \in Tasks, Archive(t) \/ Unarchive(t) PROVE RowsSound'
  BY <1>1, <1>14 DEF Archive, Unarchive, boardVars, RowsSound
<1>15. ASSUME NEW a \in Agents, DeleteAgent(a) PROVE RowsSound'
  <2>1. \A t \in Tasks : task'[t] \in {task[t], [NoLease(task[t]) EXCEPT !.agent = None]}
    BY <1>15 DEF DeleteAgent, Released
  <2>2. \A t \in Tasks : Sound(task'[t])
    BY <1>1, <2>1, LeaseEditsSound
  <2> QED BY <1>1, <1>15, <2>2 DEF DeleteAgent, RowsSound
<1>16. ASSUME NEW t \in Tasks, LeaseRunsOut(t) PROVE RowsSound'
  <2>1. task' = [task EXCEPT ![t] = [task[t] EXCEPT !.leaseUntil = "past"]]
    BY <1>1, <1>16 DEF LeaseRunsOut
  <2>2. \A u \in Tasks : Sound(task'[u])
    BY <1>1, <1>4, <2>1, LeaseEditsSound
  <2>3. \A r \in Slots : \/ req'[r].row = req[r].row
                         \/ req'[r].row = [req[r].row EXCEPT !.leaseUntil = "past"]
    BY <1>1, <1>16 DEF LeaseRunsOut, Request
  <2>4. \A r \in Slots : Sound(req'[r].row)
    <3>1. \A r \in Slots : Sound([req[r].row EXCEPT !.leaseUntil = "past"])
      BY <1>1, LeaseEditsSound
    <3> QED BY <1>1, <2>3, <3>1
  <2> QED BY <2>2, <2>4 DEF RowsSound
<1>17. ASSUME NEW r \in Slots, NEW a \in Agents, ResolveAgent(r, a) PROVE RowsSound'
  <2>1. UNCHANGED task
    BY <1>17 DEF ResolveAgent, rowVars
  <2>2. req'[r].row = NoRequest.row /\ \A q \in Slots : q # r => req'[q] = req[q]
    BY <1>1, <1>17 DEF ResolveAgent, NoRequest
  <2> QED BY <1>1, <2>1, <2>2, EmptyRowSound DEF RowsSound
<1> QED
  BY <1>5, <1>6, <1>7, <1>8, <1>9, <1>10, <1>11, <1>12, <1>13, <1>14, <1>15, <1>16, <1>17 DEF BoardNext

LEMMA SoundStep == ASSUME SoundInv, [Next]_vars PROVE SoundInv'
<1>1. Types'
  BY TypesStep DEF SoundInv
<1>2. /\ \A t \in Tasks : task[t] \in Row /\ Sound(task[t])
      /\ task \in [Tasks -> Row]
  BY DEF SoundInv, Types, ATypes, RowsTypeOK, RowsSound
<1>3. CASE BoardNext /\ UNCHANGED watchVars
  BY <1>1, <1>3, SoundBoard DEF SoundInv
<1>4. ASSUME UNCHANGED req, \A t \in Tasks : \/ task'[t] = task[t]
                                            \/ task'[t] = NewRow(None, None)
                                            \/ \E s : task'[t] = [task[t] EXCEPT !.state = s]
                                            \/ \E u : task'[t] = [NoLease(task[t]) EXCEPT !.state = u]
      PROVE  SoundInv'
  <2>1. ASSUME NEW t \in Tasks PROVE Sound(task'[t])
    <3>1. \A s : Sound([task[t] EXCEPT !.state = s]) /\ Sound([NoLease(task[t]) EXCEPT !.state = s])
      BY <1>2, EditsSound
    <3> QED BY <1>2, <1>4, <3>1, EmptyRowSound
  <2> QED BY <1>1, <1>4, <2>1 DEF SoundInv, RowsSound
<1>5. CASE ApprovalsNext /\ UNCHANGED <<boardVars, watchVars>>
  <2>1. ASSUME NEW r \in Slots, MoveToReview(r) PROVE SoundInv'
    BY <1>4, <1>5, <2>1 DEF MoveToReview, boardVars
  <2>2. ASSUME NEW d \in Deciders, NEW t \in Tasks, ApplyDecision(d, t) PROVE SoundInv'
    BY <1>2, <1>4, <1>5, <2>2 DEF ApplyDecision, boardVars
  <2>3. \/ UNCHANGED task
        \/ \E r \in Slots : MoveToReview(r)
        \/ \E d \in Deciders, t \in Tasks : ApplyDecision(d, t)
    BY <1>5 DEF ApprovalsNext, AskStep, DecisionStep, RequestApproval, AskFromBoard, LockTask,
                ReuseApproval, NonePending, InsertApproval, AskStops, Decide, LoadLinkedTasks,
                DecisionStops, ExpireApproval, rowVars
  <2> QED BY <1>4, <1>5, <2>1, <2>2, <2>3 DEF boardVars
<1>6. CASE WatchdogNext /\ UNCHANGED <<approvalVars, boardVars>>
  <2>1. ASSUME NEW w \in Replicas, NEW t \in Tasks, RetryTask(w, t) PROVE SoundInv'
    BY <1>2, <1>4, <1>6, <2>1 DEF RetryTask, boardVars
  <2>2. ASSUME NEW w \in Replicas, NEW t \in Tasks, DeadLetter(w, t) PROVE SoundInv'
    <3>1. task' = [task EXCEPT ![t] = [task[t] EXCEPT !.state = "dead_letter"]]
      BY <1>2, <2>2 DEF DeadLetter
    <3> QED BY <1>2, <1>4, <1>6, <3>1 DEF boardVars
  <2>3. \/ UNCHANGED task
        \/ \E w \in Replicas, t \in Tasks : RetryTask(w, t) \/ DeadLetter(w, t)
    BY <1>6 DEF WatchdogNext, PassStep, ReclaimTask, DetectionStep, StartPass,
                ResolveOwnStaleIncidents, RaiseDeadLetter, SkipTask, Detect, CheckOpenIncident,
                InsertIncident, EndPass, Crash, ResolveIncident, Ages, rowVars
  <2> QED BY <1>4, <1>6, <2>1, <2>2, <2>3 DEF boardVars
<1>7. CASE UNCHANGED vars
  BY <1>4, <1>7 DEF vars, rowVars, boardVars
<1> QED BY <1>3, <1>5, <1>6, <1>7 DEF Next

LEMMA SoundInit == ASSUME Init PROVE SoundInv
<1>1. \A t \in Tasks : Sound(task[t])
  BY NewRowSound DEF Init, RowsInit
<1>2. \A r \in Slots : Sound(req[r].row)
  BY EmptyRowSound DEF Init, BoardInit
<1> QED BY <1>1, <1>2, TypesInit DEF SoundInv, RowsSound

(***************************************************************************)
(* A task has one assignee at most, however its handlers interleave.       *)
(***************************************************************************)
THEOREM OneAssigneeAlways == Spec => []OneAssignee
<1>1. Init => SoundInv BY SoundInit
<1>2. SoundInv /\ [Next]_vars => SoundInv' BY SoundStep
<1>3. SoundInv => OneAssignee BY DEF SoundInv, RowsSound, Sound, OneAssignee
<1> QED BY <1>1, <1>2, <1>3, PTL DEF Spec

(***************************************************************************)
(* Nobody but its assignee owns the lease of a task.                       *)
(***************************************************************************)
THEOREM LeaseFollowsAssignee == Spec => []LeaseOwnerIsAssignee
<1>1. Init => SoundInv BY SoundInit
<1>2. SoundInv /\ [Next]_vars => SoundInv' BY SoundStep
<1>3. SoundInv => LeaseOwnerIsAssignee BY DEF SoundInv, RowsSound, Sound, LeaseOwnerIsAssignee
<1> QED BY <1>1, <1>2, <1>3, PTL DEF Spec

\* The only step that ends a claim and writes a task is the claim's own UPDATE.
LEMMA ClaimIsItsUpdate ==
    ASSUME Types, [Next]_vars, NEW r \in Slots, NEW t \in Tasks,
           req[r].op = "claim", req'[r].op = "none", task'[t] # task[t]
    PROVE  ClaimUpdate(r, t)
<1>1. /\ task \in [Tasks -> Row] /\ req \in [Slots -> Request]
  BY DEF Types, ATypes, RowsTypeOK, BoardTypeOK
<1>2. BoardNext
  BY DEF Next, vars, boardVars
<1>3. ASSUME NEW q \in Slots, req[q].op # "claim", Answer(q) PROVE FALSE
  BY <1>1, <1>3 DEF Answer
<1>4. ASSUME NEW q \in Slots, NEW u \in Tasks, ClaimUpdate(q, u) PROVE q = r /\ u = t
  BY <1>1, <1>4 DEF ClaimUpdate, Answer
<1>5. ~ \E u \in Tasks : LeaseRunsOut(u)
  BY <1>1 DEF LeaseRunsOut, Request
<1> QED
  BY <1>2, <1>3, <1>4, <1>5
     DEF BoardNext, ResolveAgent, Resolved, ClaimSnapshot, UpdateSelect, AssignSelect, ResultSelect,
         ClaimNothing, AssignUpdate, UpdateUpdate, ResultPasses, ResultAsks, ResultUpdate, RequestEnds,
         Heartbeat, DeleteAgent, Archive, Unarchive, ReadOnly, rowVars, boardVars

(***************************************************************************)
(* A claim takes over no person's task and no lease of another agent: its  *)
(* SQL checks the assignee, and the owner of a lease is the assignee.      *)
(***************************************************************************)
THEOREM ClaimsTakeNoLease == Spec => ClaimTakesNoLease
<1>1. Init => SoundInv BY SoundInit
<1>2. SoundInv /\ [Next]_vars => SoundInv' BY SoundStep
<1> DEFINE Fair == \A r \in Slots : \A t \in Tasks :
             req[r].op = "claim" /\ req'[r].op = "none" /\ task'[t] # task[t] =>
               /\ task[t].member = None
               /\ task[t].leaseOwner \in {None, req[r].actor}
               /\ task[t].state = "inbox" \/ task[t].leaseUntil = "null"
               /\ task[t].state \in {"inbox", "in_progress"}
<1>3. SoundInv /\ [Next]_vars => [Fair]_<<task, req>>
  <2> SUFFICES ASSUME SoundInv, [Next]_vars, NEW r \in Slots, NEW t \in Tasks,
                      req[r].op = "claim", req'[r].op = "none", task'[t] # task[t]
               PROVE  /\ task[t].member = None
                      /\ task[t].leaseOwner \in {None, req[r].actor}
                      /\ task[t].state = "inbox" \/ task[t].leaseUntil = "null"
                      /\ task[t].state \in {"inbox", "in_progress"}
    OBVIOUS
  <2>1. Claimable(t, req[r].actor)
    BY ClaimIsItsUpdate DEF SoundInv, ClaimUpdate
  <2>2. task[t].leaseOwner \in {None, task[t].agent}
    BY DEF SoundInv, RowsSound, Sound
  <2> QED BY <2>1, <2>2 DEF Claimable
<1> QED BY <1>1, <1>2, <1>3, PTL DEF Spec, ClaimTakesNoLease

-----------------------------------------------------------------------------
(***************************************************************************)
(* The watchdogs.  One replica at a time is in a pass, so what its SELECT  *)
(* read of the retries is still true when it writes them, and what it      *)
(* found missing among the open incidents is still missing when it inserts.*)
(***************************************************************************)
Exclusive == \A w \in Replicas : pass[w].step # "off" => passLock = w

Counts == \A w \in Replicas : \A t \in Tasks :
    pass[w].step \in {"leases", "dead"} /\ t \in pass[w].found => pass[w].count[t] = retries[t]

\* A handler that is going to write a dead-letter state back read it from an exhausted task.
Exhausted ==
    /\ DeadLetterExhausted
    /\ \A r \in Slots : req[r].op \in {"assign", "update"} /\ req[r].row.state = "dead_letter" =>
                        retries[req[r].on] = MaxRetries

StillMissing == \A w \in Replicas :
    pass[w].step \in WatchReasons /\ pass[w].missing # None =>
        incident[pass[w].missing][pass[w].step] = 0

PassInv == Types /\ Exclusive /\ Counts /\ Exhausted /\ StillMissing /\ OneOpenIncident

LEMMA PassInit == ASSUME Init PROVE PassInv
<1>1. Exclusive /\ Counts /\ StillMissing /\ OneOpenIncident
  BY DEF Init, WatchdogInit, NoPass, Exclusive, Counts, StillMissing, OneOpenIncident, WatchReasons,
         Reasons
<1>2. Exhausted
  BY DEF Init, RowsInit, BoardInit, NewRow, NoRequest, Exhausted, DeadLetterExhausted
<1> QED BY <1>1, <1>2, TypesInit DEF PassInv

\* A handler of the board makes no task a dead letter that was not one when it was read.
LEMMA ExhaustedBoard == ASSUME PassInv, BoardNext, UNCHANGED watchVars PROVE Exhausted'
<1> USE DEF PassInv
<1>1. /\ \A t \in Tasks : task[t] \in Row /\ (task[t].state = "dead_letter" => retries[t] = MaxRetries)
      /\ \A r \in Slots : req[r] \in Request /\ req[r].row \in Row /\ req[r].next \in RequestStates
      /\ task \in [Tasks -> Row] /\ req \in [Slots -> Request]
      /\ \A r \in Slots : req[r].op \in {"assign", "update"} => req[r].on \in Tasks
  BY DEF Types, Named, ATypes, RowsTypeOK, BoardTypeOK, Request, Exhausted, DeadLetterExhausted
<1>2. UNCHANGED retries
  BY DEF BoardNext, ResolveAgent, ClaimSnapshot, ClaimUpdate, UpdateSelect, AssignSelect, ResultSelect,
         ClaimNothing, AssignUpdate, UpdateUpdate, ResultPasses, ResultAsks, ResultUpdate,
         RequestEnds, Heartbeat, DeleteAgent, Archive, Unarchive, LeaseRunsOut, ReadOnly,
         WritesTask, rowVars
<1>3. ASSUME NEW r \in Slots, Answer(r),
             \A t \in Tasks : task'[t].state = "dead_letter" =>
                 task[t].state = "dead_letter" \/ retries[t] = MaxRetries
      PROVE  Exhausted'
  <2>1. req'[r].op = "none" /\ \A q \in Slots : q # r => req'[q] = req[q]
    BY <1>1, <1>3 DEF Answer, NoRequest
  <2> QED BY <1>1, <1>2, <1>3, <2>1 DEF Exhausted, DeadLetterExhausted
<1>4. ASSUME NEW r \in Slots, NEW op, NEW t \in Tasks, NEW a, NEW to, Selected(r, op, t, a, to),
             UNCHANGED task
      PROVE  Exhausted'
  <2>1. /\ req'[r].row = task[t] /\ req'[r].on = t
        /\ \A q \in Slots : q # r => req'[q] = req[q]
    BY <1>1, <1>4 DEF Selected, NoRequest
  <2> QED BY <1>1, <1>2, <1>4, <2>1 DEF Exhausted, DeadLetterExhausted
<1>5. ASSUME UNCHANGED task,
             \A r \in Slots : \/ req'[r] = req[r]
                              \/ req'[r].op \notin {"assign", "update"}
      PROVE  Exhausted'
  BY <1>1, <1>2, <1>5 DEF Exhausted, DeadLetterExhausted
<1>6. ASSUME \A t \in Tasks : task'[t].state = task[t].state, 
             \A r \in Slots : /\ req'[r].op = req[r].op /\ req'[r].on = req[r].on
                              /\ req'[r].row.state = req[r].row.state
      PROVE  Exhausted'
  BY <1>1, <1>2, <1>6 DEF Exhausted, DeadLetterExhausted
<1>7. ASSUME NEW r \in Slots, ClaimSnapshot(r) PROVE Exhausted'
  <2>1. UNCHANGED task
    BY <1>7 DEF ClaimSnapshot, ReadOnly, rowVars
  <2>2. req'[r].op = "claim" /\ \A q \in Slots : q # r => req'[q] = req[q]
    BY <1>1, <1>7 DEF ClaimSnapshot, Request
  <2> QED BY <1>5, <2>1, <2>2
<1>8. ASSUME NEW r \in Slots, NEW t \in Tasks, ClaimUpdate(r, t) PROVE Exhausted'
  BY <1>1, <1>3, <1>8 DEF ClaimUpdate
<1>9. ASSUME NEW r \in Slots, ClaimNothing(r) \/ RequestEnds(r) \/ ResultAsks(r) PROVE Exhausted'
  BY <1>1, <1>3, <1>9 DEF ClaimNothing, RequestEnds, ResultAsks, ReadOnly, rowVars
<1>10. ASSUME NEW r \in Slots, NEW t \in Tasks,
              UpdateSelect(r, t) \/ AssignSelect(r, t) \/ ResultSelect(r, t)
       PROVE  Exhausted'
  BY <1>4, <1>10 DEF UpdateSelect, AssignSelect, ResultSelect, ReadOnly, rowVars
<1>11. ASSUME NEW r \in Slots, AssignUpdate(r) PROVE Exhausted'
  <2>1. PICK claiming \in BOOLEAN :
          task' = [task EXCEPT ![req[r].on] = AssignedRow(req[r].row, req[r].actor, claiming)]
    BY <1>11 DEF AssignUpdate
  <2> DEFINE new == AssignedRow(req[r].row, req[r].actor, claiming)
  <2>2. new.state = "in_progress" \/ new.state = req[r].row.state
    BY DEF AssignedRow
  <2>3. new.state = "dead_letter" => retries[req[r].on] = MaxRetries
    BY <1>11, <2>2 DEF AssignUpdate, Exhausted
  <2> HIDE DEF new
  <2>4. \A t \in Tasks : task'[t].state = "dead_letter" =>
                             task[t].state = "dead_letter" \/ retries[t] = MaxRetries
    <3>1. task' = [task EXCEPT ![req[r].on] = new]
      BY <2>1 DEF new
    <3>2. ASSUME NEW t \in Tasks PROVE task'[t] = task[t] \/ (t = req[r].on /\ task'[t] = new)
      BY <1>1, <3>1
    <3> QED BY <2>3, <3>2
  <2> QED BY <1>3, <1>11, <2>4 DEF AssignUpdate
<1>12. ASSUME NEW r \in Slots, UpdateUpdate(r) PROVE Exhausted'
  <2>1. PICK state \in RequestStates \cup {req[r].row.state} :
          \/ task' = [task EXCEPT ![req[r].on] =
                        UpdatedRow(req[r].row, state, <<req[r].row.agent, req[r].row.member>>, FALSE)]
          \/ \E who \in Assignees :
               task' = [task EXCEPT ![req[r].on] = UpdatedRow(req[r].row, state, who, TRUE)]
    BY <1>1, <1>12 DEF UpdateUpdate, Request
  <2>2. state = "dead_letter" => retries[req[r].on] = MaxRetries
    BY <1>12, <2>1 DEF UpdateUpdate, Exhausted, RequestStates
  <2>3. \A who, reassigning : UpdatedRow(req[r].row, state, who, reassigning).state = state
    BY DEF UpdatedRow
  <2>4. \A t \in Tasks : task'[t].state = "dead_letter" =>
                             task[t].state = "dead_letter" \/ retries[t] = MaxRetries
    <3>1. PICK who, reassigning :
            task' = [task EXCEPT ![req[r].on] = UpdatedRow(req[r].row, state, who, reassigning)]
      BY <2>1
    <3>2. \A t \in Tasks : task'[t] = task[t] \/ (t = req[r].on /\ task'[t].state = state)
      BY <1>1, <2>3, <3>1
    <3> QED BY <2>2, <3>2
  <2> QED BY <1>3, <1>12, <2>4 DEF UpdateUpdate
<1>13. ASSUME NEW r \in Slots, ResultPasses(r) PROVE Exhausted'
  <2>1. UNCHANGED task
    BY <1>13 DEF ResultPasses, ReadOnly, rowVars
  <2>2. req'[r].op = "commit" /\ \A q \in Slots : q # r => req'[q] = req[q]
    BY <1>1, <1>13 DEF ResultPasses, Request
  <2> QED BY <1>5, <2>1, <2>2
<1>14. ASSUME NEW r \in Slots, ResultUpdate(r) PROVE Exhausted'
  <2>1. \A t \in Tasks : task'[t] = task[t] \/ task'[t].state = req[r].next
    BY <1>1, <1>14 DEF ResultUpdate, Row, NoLease
  <2> QED BY <1>1, <1>3, <1>14, <2>1 DEF ResultUpdate, RequestStates
<1>15. ASSUME NEW r \in Slots, Heartbeat(r) PROVE Exhausted'
  <2>1. \A t \in Tasks : task'[t].state = task[t].state
    BY <1>1, <1>15 DEF Heartbeat, Row
  <2> QED BY <1>3, <1>15, <2>1 DEF Heartbeat
<1>16. ASSUME NEW t \in Tasks, Archive(t) \/ Unarchive(t) PROVE Exhausted'
  BY <1>6, <1>16 DEF Archive, Unarchive, boardVars
<1>17. ASSUME NEW a \in Agents, DeleteAgent(a) PROVE Exhausted'
  <2>1. \A t \in Tasks : task'[t].state = task[t].state
    BY <1>1, <1>17 DEF DeleteAgent, Released, Row, NoLease
  <2> QED BY <1>6, <1>17, <2>1 DEF DeleteAgent
<1>18. ASSUME NEW t \in Tasks, LeaseRunsOut(t) PROVE Exhausted'
  <2>1. \A u \in Tasks : task'[u].state = task[u].state
    BY <1>1, <1>18 DEF LeaseRunsOut, Row
  <2>2. \A r \in Slots : /\ req'[r].op = req[r].op /\ req'[r].on = req[r].on
                         /\ req'[r].row.state = req[r].row.state
    BY <1>1, <1>18 DEF LeaseRunsOut, Request, Row
  <2> QED BY <1>6, <2>1, <2>2
<1>19. ASSUME NEW r \in Slots, NEW a \in Agents, ResolveAgent(r, a) PROVE Exhausted'
  <2>1. UNCHANGED task
    BY <1>19 DEF ResolveAgent, rowVars
  <2>2. req'[r].op = "resolved" /\ \A q \in Slots : q # r => req'[q] = req[q]
    BY <1>1, <1>19 DEF ResolveAgent, NoRequest
  <2> QED BY <1>5, <2>1, <2>2
<1> QED
  BY <1>7, <1>8, <1>9, <1>10, <1>11, <1>12, <1>13, <1>14, <1>15, <1>16, <1>17, <1>18, <1>19 DEF BoardNext

LEMMA PassWatchdog ==
    ASSUME PassInv, WatchdogNext, UNCHANGED <<approvalVars, boardVars>> PROVE PassInv'
<1> USE TaskRowsAssumption, WatchdogAssumption DEF PassInv
<1>1. Types'
  BY WatchdogTypes
<1>2. /\ task \in [Tasks -> Row] /\ retries \in [Tasks -> 0..MaxRetries]
      /\ pass \in [Replicas -> Pass] /\ incident \in [Tasks -> [Reasons -> 0..MaxIncidents]]
      /\ \A w \in Replicas : pass[w].found \subseteq Tasks /\ pass[w].count \in [Tasks -> 0..MaxRetries]
      /\ \A t \in Tasks : task[t] \in Row
      /\ UNCHANGED req
  BY DEF Types, ATypes, RowsTypeOK, WatchdogTypeOK, Pass, boardVars
<1>3. \A w, v \in Replicas : pass[w].step # "off" /\ pass[v].step # "off" => v = w
  BY DEF Exclusive
<1>4. ASSUME UNCHANGED <<task, retries>> PROVE Exhausted'
  BY <1>2, <1>4 DEF Exhausted, DeadLetterExhausted
<1>5. ASSUME UNCHANGED incident PROVE OneOpenIncident'
  BY <1>5 DEF OneOpenIncident
\* The steps of the replica that is in a pass; the others are off.
<1>6. ASSUME NEW w \in Replicas, pass[w].step # "off", passLock' \in {passLock, None},
             \A v \in Replicas : v # w => pass'[v] = pass[v],
             passLock' = None => pass'[w].step = "off",
             pass'[w].step \in {"leases", "dead"} =>
                \A t \in pass'[w].found \cap Tasks : pass'[w].count[t] = retries'[t],
             pass'[w].step \in WatchReasons /\ pass'[w].missing # None =>
                incident'[pass'[w].missing][pass'[w].step] = 0
      PROVE  Exclusive' /\ Counts' /\ StillMissing'
  <2>1. \A v \in Replicas : v # w => pass'[v].step = "off"
    BY <1>3, <1>6
  <2>2. Exclusive'
    BY <1>6, <2>1 DEF Exclusive
  <2>3. Counts'
    BY <1>6, <2>1 DEF Counts
  <2>4. StillMissing'
    BY <1>6, <2>1 DEF StillMissing, WatchReasons
  <2> QED BY <2>2, <2>3, <2>4
<1>7. ASSUME NEW w \in Replicas, StartPass(w) PROVE PassInv'
  <2>1. /\ \A v \in Replicas : pass[v].step = "off"
        /\ pass'[w].step = "resolve" /\ \A v \in Replicas : v # w => pass'[v] = pass[v]
        /\ passLock' = w
        /\ UNCHANGED <<task, retries, incident>>
    BY <1>2, <1>7, TaskRowsAssumption DEF StartPass, PassLockFree, Exclusive, NoPass, rowVars
  <2> QED BY <1>1, <1>4, <1>5, <2>1 DEF Exclusive, Counts, StillMissing, WatchReasons
<1>8. ASSUME NEW w \in Replicas, ResolveOwnStaleIncidents(w) PROVE PassInv'
  <2>1. /\ \A v \in Replicas : v # w => pass'[v] = pass[v]
        /\ pass'[w].step = "leases" /\ pass'[w].count = retries
        /\ UNCHANGED <<task, retries, passLock>>
    BY <1>2, <1>8 DEF ResolveOwnStaleIncidents, rowVars
  <2>2. Exclusive' /\ Counts' /\ StillMissing'
    BY <1>6, <1>8, <2>1 DEF ResolveOwnStaleIncidents, WatchReasons, Exclusive
  <2>3. ASSUME NEW t \in Tasks, NEW c \in WatchReasons
        PROVE  incident'[t][c] = 0 \/ incident'[t][c] = incident[t][c]
    BY <1>8 DEF ResolveOwnStaleIncidents, Resolvable, Reasons
  <2>4. ASSUME NEW t \in Tasks, NEW c \in WatchReasons PROVE incident'[t][c] <= 1
    <3>1. incident[t][c] <= 1
      BY DEF OneOpenIncident
    <3>2. CASE incident'[t][c] = 0
      BY <3>2
    <3>3. CASE incident'[t][c] = incident[t][c]
      BY <3>1, <3>3
    <3> QED BY <2>3, <3>2, <3>3
  <2> QED BY <1>1, <1>4, <2>1, <2>2, <2>4 DEF OneOpenIncident
<1>9. ASSUME NEW w \in Replicas, NEW t \in Tasks, RetryTask(w, t) PROVE PassInv'
  <2>1. /\ \A v \in Replicas : v # w => pass'[v] = pass[v]
        /\ pass'[w].step = "leases" /\ pass'[w].count = pass[w].count
        /\ pass'[w].found = pass[w].found \ {t}
        /\ UNCHANGED <<incident, passLock>>
    BY <1>2, <1>9 DEF RetryTask, Handled, Pass
  <2>2. /\ task' = [task EXCEPT ![t] = NewRow(None, None)]
        /\ \A u \in Tasks : u # t => retries'[u] = retries[u]
        /\ pass[w].step = "leases" /\ t \in pass[w].found /\ pass[w].count[t] < MaxRetries
    BY <1>2, <1>9 DEF RetryTask, RetriesLeft
  <2>3. Exclusive' /\ Counts' /\ StillMissing'
    <3>1. \A u \in pass'[w].found \cap Tasks : pass'[w].count[u] = retries'[u]
      BY <2>1, <2>2 DEF Counts
    <3>2. passLock' # None
      BY <2>1, <2>2, WatchdogAssumption DEF Exclusive
    <3> QED BY <1>6, <2>1, <2>2, <3>1, <3>2 DEF WatchReasons
  <2>4. retries[t] < MaxRetries
    BY <2>2 DEF Counts
  <2>5. Exhausted'
    <3>1. DeadLetterExhausted'
      BY <1>2, <2>2 DEF Exhausted, DeadLetterExhausted, NewRow
    <3>2. \A r \in Slots : req[r].op \in {"assign", "update"} /\ req[r].row.state = "dead_letter" =>
                              req[r].on \in Tasks /\ req[r].on # t /\ retries[req[r].on] = MaxRetries
      BY <2>4 DEF Exhausted, Types, Named
    <3> QED BY <1>2, <2>2, <3>1, <3>2 DEF Exhausted
  <2> QED BY <1>1, <1>5, <2>1, <2>3, <2>5
<1>10. ASSUME NEW w \in Replicas, NEW t \in Tasks, DeadLetter(w, t) PROVE PassInv'
  <2>1. /\ \A v \in Replicas : v # w => pass'[v] = pass[v]
        /\ pass'[w].step = "dead" /\ pass'[w].count = pass[w].count
        /\ pass'[w].found = pass[w].found \ {t}
        /\ UNCHANGED <<incident, passLock, retries>>
    BY <1>2, <1>10 DEF DeadLetter, Pass
  <2>2. /\ \A u \in Tasks : u # t => task'[u] = task[u]
        /\ pass[w].step = "leases" /\ t \in pass[w].found /\ pass[w].count[t] >= MaxRetries
    BY <1>2, <1>10 DEF DeadLetter, RetriesLeft
  <2>3. Exclusive' /\ Counts' /\ StillMissing'
    <3>1. \A u \in pass'[w].found \cap Tasks : pass'[w].count[u] = retries'[u]
      BY <2>1, <2>2 DEF Counts
    <3>2. passLock' # None
      BY <2>1, <2>2, WatchdogAssumption DEF Exclusive
    <3> QED BY <1>6, <2>1, <2>2, <3>1, <3>2 DEF WatchReasons
  <2>4. retries[t] = MaxRetries
    <3>1. pass[w].count[t] = retries[t] /\ retries[t] \in 0..MaxRetries
      BY <1>2, <2>2 DEF Counts
    <3> QED BY <2>2, <3>1
  <2>5. Exhausted'
    BY <1>2, <2>1, <2>2, <2>4 DEF Exhausted, DeadLetterExhausted
  <2> QED BY <1>1, <1>5, <2>1, <2>3, <2>5
<1>11. ASSUME NEW w \in Replicas, RaiseDeadLetter(w) PROVE PassInv'
  <2>1. /\ \A v \in Replicas : v # w => pass'[v] = pass[v]
        /\ pass'[w].step = "leases" /\ pass'[w].count = pass[w].count
        /\ pass'[w].found = pass[w].found /\ pass[w].step = "dead"
        /\ UNCHANGED <<task, retries, passLock>>
    BY <1>2, <1>11 DEF RaiseDeadLetter, Pass, rowVars
  <2>2. Exclusive' /\ Counts' /\ StillMissing'
    BY <1>6, <2>1 DEF Counts, WatchReasons, Exclusive
  <2>3. \A t \in Tasks : \A c \in WatchReasons : incident'[t][c] = incident[t][c]
    BY <1>2, <1>11 DEF RaiseDeadLetter, Raise, WatchReasons, Reasons
  <2> QED BY <1>1, <1>4, <2>1, <2>2, <2>3 DEF OneOpenIncident
<1>12. ASSUME NEW w \in Replicas, NEW t \in Tasks, SkipTask(w, t) PROVE PassInv'
  <2>1. /\ \A v \in Replicas : v # w => pass'[v] = pass[v]
        /\ pass'[w].step = "leases" /\ pass'[w].count = pass[w].count
        /\ pass'[w].found \subseteq pass[w].found /\ pass[w].step = "leases"
        /\ UNCHANGED <<task, retries, passLock, incident>>
    BY <1>2, <1>12 DEF SkipTask, Handled, Pass, rowVars
  <2>2. Exclusive' /\ Counts' /\ StillMissing'
    <3>1. \A u \in pass'[w].found \cap Tasks : pass'[w].count[u] = retries'[u]
      BY <2>1 DEF Counts
    <3>2. passLock' # None
      BY <2>1, WatchdogAssumption DEF Exclusive
    <3> QED BY <1>6, <2>1, <3>1, <3>2 DEF WatchReasons
  <2> QED BY <1>1, <1>4, <1>5, <2>1, <2>2
<1>13. ASSUME NEW w \in Replicas, NEW from \in Steps \ {"off"}, NEW reason \in WatchReasons,
              Detect(w, from, reason)
       PROVE  PassInv'
  <2>1. /\ \A v \in Replicas : v # w => pass'[v] = pass[v]
        /\ pass'[w].step = reason /\ pass'[w].missing = None /\ pass[w].step # "off"
        /\ UNCHANGED <<task, retries, passLock, incident>>
    BY <1>2, <1>13 DEF Detect, NoPass, rowVars
  <2>2. Exclusive' /\ Counts' /\ StillMissing'
    BY <1>6, <2>1 DEF WatchReasons, Exclusive
  <2> QED BY <1>1, <1>4, <1>5, <2>1, <2>2
<1>14. ASSUME NEW w \in Replicas, NEW t \in Tasks, CheckOpenIncident(w, t) PROVE PassInv'
  <2>1. /\ \A v \in Replicas : v # w => pass'[v] = pass[v]
        /\ pass'[w].step = pass[w].step /\ pass[w].step \in WatchReasons
        /\ pass'[w].missing # None => pass'[w].missing = t /\ incident[t][pass[w].step] = 0
        /\ UNCHANGED <<task, retries, passLock, incident>>
    BY <1>2, <1>14 DEF CheckOpenIncident, Pass, rowVars
  <2>2. Exclusive' /\ Counts' /\ StillMissing'
    BY <1>6, <2>1 DEF WatchReasons, Exclusive
  <2> QED BY <1>1, <1>4, <1>5, <2>1, <2>2
<1>15. ASSUME NEW w \in Replicas, InsertIncident(w) PROVE PassInv'
  <2>1. /\ \A v \in Replicas : v # w => pass'[v] = pass[v]
        /\ pass'[w].step = pass[w].step /\ pass[w].step \in WatchReasons
        /\ pass'[w].missing = None
        /\ UNCHANGED <<task, retries, passLock>>
    BY <1>2, <1>15 DEF InsertIncident, Pass, rowVars
  <2>2. Exclusive' /\ Counts' /\ StillMissing'
    BY <1>6, <2>1 DEF WatchReasons, Exclusive
  <2>3. incident[pass[w].missing][pass[w].step] = 0 /\ Raise(pass[w].missing, pass[w].step)
    BY <1>15 DEF InsertIncident, StillMissing
  <2>4. OneOpenIncident'
    BY <1>2, <2>1, <2>3 DEF Raise, OneOpenIncident, Reasons
  <2> QED BY <1>1, <1>4, <2>1, <2>2, <2>4
<1>16. ASSUME NEW w \in Replicas, EndPass(w) \/ Crash(w) PROVE PassInv'
  <2>1. /\ \A v \in Replicas : v # w => pass'[v] = pass[v]
        /\ pass'[w].step = "off" /\ pass[w].step # "off"
        /\ passLock' = None
        /\ UNCHANGED <<task, retries, incident>>
    BY <1>2, <1>16 DEF EndPass, Crash, NoPass, rowVars
  <2>2. Exclusive' /\ Counts' /\ StillMissing'
    BY <1>6, <2>1 DEF WatchReasons
  <2> QED BY <1>1, <1>4, <1>5, <2>1, <2>2
<1>17. ASSUME NEW t \in Tasks, NEW c \in Reasons, ResolveIncident(t, c) PROVE PassInv'
  <2>1. UNCHANGED <<task, retries, passLock, pass>>
    BY <1>17 DEF ResolveIncident, rowVars
  <2>2. /\ incident[t][c] > 0 /\ incident'[t][c] = incident[t][c] - 1
        /\ \A u \in Tasks, k \in Reasons : u # t \/ k # c => incident'[u][k] = incident[u][k]
    BY <1>2, <1>17 DEF ResolveIncident
  <2>3. OneOpenIncident'
    BY <1>2, <2>2 DEF OneOpenIncident, Reasons
  <2>4. StillMissing'
    <3> SUFFICES ASSUME NEW w \in Replicas,
                        pass[w].step \in WatchReasons, pass[w].missing # None
                 PROVE  incident'[pass[w].missing][pass[w].step] = 0
      BY <2>1 DEF StillMissing
    <3>1. pass[w].missing \in Tasks /\ pass[w].step \in Reasons
      BY <1>2 DEF Pass, Reasons
    <3>2. incident[pass[w].missing][pass[w].step] = 0
      BY DEF StillMissing
    <3>3. pass[w].missing # t \/ pass[w].step # c
      BY <2>2, <3>2
    <3> QED BY <2>2, <3>1, <3>2, <3>3
  <2> QED BY <1>1, <1>4, <2>1, <2>3, <2>4 DEF Exclusive, Counts
<1>18. ASSUME NEW t \in Tasks, NEW c \in WatchReasons, Ages(t, c) PROVE PassInv'
  <2>1. UNCHANGED <<task, retries, passLock, pass, incident>>
    BY <1>18 DEF Ages, rowVars
  <2> QED BY <1>1, <1>4, <1>5, <2>1 DEF Exclusive, Counts, StillMissing
<1> QED
  BY <1>7, <1>8, <1>9, <1>10, <1>11, <1>12, <1>13, <1>14, <1>15, <1>16, <1>17, <1>18
     DEF WatchdogNext, PassStep, ReclaimTask, DetectionStep, WatchReasons, Steps

LEMMA PassStepKeeps == ASSUME PassInv, [Next]_vars PROVE PassInv'
<1>1. Types'
  BY TypesStep DEF PassInv
<1>2. ASSUME UNCHANGED <<retries, watchVars>>, Exhausted' PROVE PassInv'
  BY <1>1, <1>2 DEF PassInv, watchVars, Exclusive, Counts, StillMissing, OneOpenIncident
<1>3. CASE BoardNext /\ UNCHANGED watchVars
  <2>1. UNCHANGED retries
    BY <1>3 DEF BoardNext, ResolveAgent, ClaimSnapshot, ClaimUpdate, UpdateSelect, AssignSelect, ResultSelect,
         ClaimNothing, AssignUpdate, UpdateUpdate, ResultPasses, ResultAsks, ResultUpdate,
         RequestEnds, Heartbeat, DeleteAgent, Archive, Unarchive, LeaseRunsOut, ReadOnly,
         WritesTask, rowVars
  <2> QED BY <1>2, <1>3, <2>1, ExhaustedBoard
<1>4. CASE ApprovalsNext /\ UNCHANGED <<boardVars, watchVars>>
  <2>1. /\ UNCHANGED <<retries, req>>
        /\ task \in [Tasks -> Row] /\ ATypes
    BY <1>4 DEF PassInv, Types, ATypes, RowsTypeOK, ApprovalsNext, AskStep, DecisionStep,
         RequestApproval, AskFromBoard, LockTask, ReuseApproval, NonePending, InsertApproval,
         MoveToReview, AskStops, Decide, LoadLinkedTasks, ApplyDecision, DecisionStops,
         ExpireApproval, rowVars, boardVars
  <2>2. \A t \in Tasks : task'[t].state = "dead_letter" => task[t].state = "dead_letter"
    <3>1. ASSUME NEW r \in Slots, MoveToReview(r), NEW t \in Tasks
          PROVE  task'[t] = task[t] \/ task'[t].state = "review"
      BY <2>1, <3>1 DEF MoveToReview, Row
    <3>2. ASSUME NEW d \in Deciders, NEW u \in Tasks, ApplyDecision(d, u), NEW t \in Tasks
          PROVE  task'[t] = task[t] \/ task'[t].state \in {"done", "in_progress"}
      <4>1. ResolutionState(decision[d].verdict, approval[decision[d].id].type)
              \in {"done", "in_progress"}
        BY <2>1, <3>2 DEF ApplyDecision, ResolutionState, ATypes, Applying
      <4> QED BY <2>1, <3>2, <4>1 DEF ApplyDecision, Row, NoLease
    <3>3. \/ UNCHANGED task
          \/ \E r \in Slots : MoveToReview(r)
          \/ \E d \in Deciders, t \in Tasks : ApplyDecision(d, t)
      BY <1>4 DEF ApprovalsNext, AskStep, DecisionStep, RequestApproval, AskFromBoard, LockTask,
                  ReuseApproval, NonePending, InsertApproval, AskStops, Decide, LoadLinkedTasks,
                  DecisionStops, ExpireApproval, rowVars
    <3> QED BY <3>1, <3>2, <3>3
  <2>3. Exhausted'
    BY <2>1, <2>2 DEF PassInv, Exhausted, DeadLetterExhausted
  <2> QED BY <1>2, <1>4, <2>1, <2>3
<1>5. CASE WatchdogNext /\ UNCHANGED <<approvalVars, boardVars>>
  BY <1>5, PassWatchdog
<1>6. CASE UNCHANGED vars
  <2>1. Exhausted'
    BY <1>6 DEF vars, rowVars, boardVars, PassInv, Exhausted, DeadLetterExhausted
  <2> QED BY <1>2, <1>6, <2>1 DEF vars, rowVars
<1> QED BY <1>3, <1>4, <1>5, <1>6 DEF Next

(***************************************************************************)
(* A task is dead-lettered only after max_retries retries, also when other *)
(* handlers write the state back from a stale copy.                        *)
(***************************************************************************)
THEOREM DeadLetterAfterRetries == Spec => []DeadLetterExhausted
<1>1. Init => PassInv BY PassInit
<1>2. PassInv /\ [Next]_vars => PassInv' BY PassStepKeeps
<1>3. PassInv => DeadLetterExhausted BY DEF PassInv, Exhausted
<1> QED BY <1>1, <1>2, <1>3, PTL DEF Spec

(***************************************************************************)
(* However many replicas run the watchdog, and wherever one stops, a task  *)
(* never has two open incidents of one of its reasons.                     *)
(***************************************************************************)
THEOREM OneIncidentPerReason == Spec => []OneOpenIncident
<1>1. Init => PassInv BY PassInit
<1>2. PassInv /\ [Next]_vars => PassInv' BY PassStepKeeps
<1>3. PassInv => OneOpenIncident BY DEF PassInv
<1> QED BY <1>1, <1>2, <1>3, PTL DEF Spec

(***************************************************************************)
(* A pass takes back only tasks whose lease has run out, each for exactly  *)
(* one retry or, none being left, for good: the count it read before is    *)
(* still the task's, because no other replica is in a pass.                *)
(***************************************************************************)
THEOREM EveryReclaimCharged == Spec => ReclaimsCharged
<1>1. Init => PassInv BY PassInit
<1>2. PassInv /\ [Next]_vars => PassInv' BY PassStepKeeps
<1> DEFINE Charged == \A t \in Tasks : pass' # pass /\ task'[t] # task[t] =>
             /\ LeaseExpired(t)
             /\ \/ retries'[t] = retries[t] + 1 /\ task'[t].state = "inbox"
                \/ retries[t] = MaxRetries /\ task'[t].state = "dead_letter"
<1>3. PassInv /\ [Next]_vars => [Charged]_<<task, retries, pass>>
  <2> SUFFICES ASSUME PassInv, [Next]_vars, NEW t \in Tasks, pass' # pass, task'[t] # task[t]
               PROVE  /\ LeaseExpired(t)
                      /\ \/ retries'[t] = retries[t] + 1 /\ task'[t].state = "inbox"
                         \/ retries[t] = MaxRetries /\ task'[t].state = "dead_letter"
    OBVIOUS
  <2>1. /\ task \in [Tasks -> Row] /\ retries \in [Tasks -> 0..MaxRetries]
        /\ \A w \in Replicas : pass[w].count \in [Tasks -> 0..MaxRetries]
    BY DEF PassInv, Types, ATypes, RowsTypeOK, WatchdogTypeOK, Pass
  <2>2. PICK w \in Replicas, u \in Tasks : RetryTask(w, u) \/ DeadLetter(w, u)
    BY DEF Next, vars, watchVars, WatchdogNext, PassStep, StartPass, ResolveOwnStaleIncidents,
           ReclaimTask, SkipTask, RaiseDeadLetter, DetectionStep, Detect, CheckOpenIncident,
           InsertIncident, EndPass, Crash, ResolveIncident, Ages, rowVars
  <2>3. u = t
    BY <2>1, <2>2 DEF RetryTask, DeadLetter
  <2>4. pass[w].step = "leases" /\ t \in pass[w].found /\ LeaseExpired(t)
    BY <2>2, <2>3 DEF RetryTask, DeadLetter
  <2>5. pass[w].count[t] = retries[t]
    BY <2>4 DEF PassInv, Counts
  <2>6. CASE RetryTask(w, t)
    BY <2>1, <2>4, <2>5, <2>6 DEF RetryTask, NewRow
  <2>7. CASE DeadLetter(w, t)
    <3>1. retries[t] = MaxRetries
      BY <2>1, <2>5, <2>7, TaskRowsAssumption DEF DeadLetter, RetriesLeft
    <3> QED BY <2>1, <2>4, <2>7, <3>1 DEF DeadLetter
  <2> QED BY <2>2, <2>3, <2>6, <2>7
<1> QED BY <1>1, <1>2, <1>3, PTL DEF Spec, ReclaimsCharged
-----------------------------------------------------------------------------
(***************************************************************************)
(* Signing off.  An approved approval never changes, so a task that was    *)
(* closed for one, and a copy of such a task, stay covered by it; a result *)
(* does not close a task that needs a sign-off; and a decision closes only *)
(* tasks of the approval it carries, which is the one stored as approved.  *)
(***************************************************************************)
ApprovedClose(t) ==
    \E i \in Ids : approval[i].status = "approved" /\ approval[i].type = "task_done"
                     /\ t \in approval[i].tasks

TodoLinked == \A d \in Deciders :
    decision[d].step = "apply" => decision[d].todo \subseteq approval[decision[d].id].tasks

\* What handlers may write: nothing of a PATCH, a copy that was approved, no close of their own.
HandlersSigned == \A r \in Slots :
    /\ req[r].op # "update"
    /\ req[r].op = "assign" /\ NeedsSignOff(req[r].on) /\ req[r].row.state = "done" =>
           ApprovedClose(req[r].on)
    /\ req[r].op = "commit" /\ NeedsSignOff(req[r].on) => req[r].next # "done"

SignedInv == Types /\ SoleDecider /\ TodoLinked /\ HandlersSigned /\ DoneWasApproved

LEMMA SignedInit == ASSUME Init PROVE SignedInv
<1>1. SoleDecider /\ TodoLinked
  BY DEF Init, ApprovalsInit, NoDecision, SoleDecider, TodoLinked
<1>2. HandlersSigned
  BY DEF Init, BoardInit, NoRequest, HandlersSigned
<1>3. DoneWasApproved
  <2>1. \A t \in Tasks : task[t].state # "done"
    BY DEF Init, RowsInit, NewRow
  <2> QED BY <2>1 DEF DoneWasApproved
<1> QED BY <1>1, <1>2, <1>3, TypesInit DEF SignedInv

\* Only the approval flow writes approvals and decisions.
LEMMA ApprovalsOwnDecisions ==
    ASSUME [Next]_vars PROVE [ApprovalsNext]_avars \/ UNCHANGED <<approval, decision>>
<1>1. CASE BoardNext
  BY <1>1 DEF BoardNext, ResolveAgent, ClaimSnapshot, ClaimUpdate, UpdateSelect, AssignSelect, ResultSelect,
       ClaimNothing, AssignUpdate, UpdateUpdate, ResultPasses, ResultAsks, ResultUpdate,
       RequestEnds, Heartbeat, DeleteAgent, Archive, Unarchive, LeaseRunsOut, ReadOnly,
       WritesTask, approvalVars
<1>2. CASE ApprovalsNext
  BY <1>2
<1>3. CASE UNCHANGED approvalVars
  BY <1>3 DEF approvalVars
<1> QED BY <1>1, <1>2, <1>3 DEF Next, vars

LEMMA ApprovedStays ==
    ASSUME Types, [Next]_vars, NEW t, ApprovedClose(t) PROVE ApprovedClose(t)'
<1>1. PICK i \in Ids : approval[i].status = "approved" /\ approval[i].type = "task_done"
                         /\ t \in approval[i].tasks
  BY DEF ApprovedClose
<1>2. approval'[i] = approval[i]
  BY <1>1, ApprovalsOwnDecisions, SettledStays DEF Types
<1> QED BY <1>1, <1>2 DEF ApprovedClose

LEMMA DecisionsStaySigned ==
    ASSUME SignedInv, [Next]_vars PROVE SoleDecider' /\ TodoLinked'
<1> USE DEF SignedInv, Types
<1>1. CASE UNCHANGED <<approval, decision>>
  BY <1>1 DEF SoleDecider, TodoLinked
<1>2. CASE [ApprovalsNext]_avars
  <2>1. SoleDecider'
    BY <1>2, DecidedStep DEF DecidedInv
  <2>2. /\ approval \in [Ids -> Approval] /\ decision \in [Deciders -> Decision]
    BY DEF ATypes, ApprovalsTypeOK
  <2>3. ASSUME NEW d \in Deciders, decision[d].step # "idle"
        PROVE  approval'[decision[d].id] = approval[decision[d].id]
    BY <1>2, <2>3, DecidedIsSettled, SettledStays
  <2>4. ASSUME NEW d \in Deciders, decision'[d].step = "apply"
        PROVE  decision'[d].todo \subseteq approval'[decision'[d].id].tasks
    <3>1. CASE decision'[d] = decision[d]
      BY <2>3, <2>4, <3>1 DEF TodoLinked
    <3>2. CASE LoadLinkedTasks(d)
      <4> DEFINE a == approval[decision[d].id]
                 next == ResolutionState(decision[d].verdict, a.type)
                 todo == {t \in a.tasks : next # None /\ ~(next = "done" /\ task[t].state = "done")}
      <4>1. /\ decision' = [decision EXCEPT ![d] = IF todo = {} THEN NoDecision
                                                   ELSE [decision[d] EXCEPT !.step = "apply",
                                                                            !.todo = todo]]
            /\ decision[d].step # "idle"
        BY <3>2 DEF LoadLinkedTasks
      <4>2. todo \subseteq a.tasks
        OBVIOUS
      <4>3. decision'[d].todo = todo /\ decision'[d].id = decision[d].id
        <5> HIDE DEF todo
        <5> QED BY <2>2, <2>4, <4>1 DEF NoDecision, Decision
      <4> QED BY <2>3, <4>1, <4>2, <4>3
    <3>3. ASSUME NEW t \in Tasks, ApplyDecision(d, t)
          PROVE  decision'[d].todo \subseteq approval'[decision'[d].id].tasks
      <4>1. /\ decision'[d].todo \subseteq decision[d].todo /\ decision'[d].id = decision[d].id
            /\ decision[d].step = "apply"
        BY <2>2, <2>4, <3>3 DEF ApplyDecision, NoDecision, Decision
      <4> QED BY <2>3, <4>1 DEF TodoLinked
    <3>4. decision'[d] = decision[d] \/ LoadLinkedTasks(d) \/ (\E t \in Tasks : ApplyDecision(d, t))
      <4>1. ASSUME NEW e \in Deciders, NEW i \in Ids, NEW v \in Verdicts, Decide(e, i, v)
            PROVE  decision'[d] = decision[d]
        BY <2>2, <2>4, <4>1 DEF Decide
      <4>2. ASSUME NEW e \in Deciders, DecisionStops(e) PROVE decision'[d] = decision[d]
        BY <2>2, <2>4, <4>2 DEF DecisionStops, NoDecision
      <4>3. ASSUME NEW e \in Deciders, DecisionStep(e), e # d PROVE decision'[d] = decision[d]
        <5>1. ASSUME NEW x, decision' = [decision EXCEPT ![e] = x] PROVE decision'[d] = decision[d]
          BY <2>2, <4>3, <5>1
        <5>2. \E x : decision' = [decision EXCEPT ![e] = x]
          BY <4>3 DEF DecisionStep, LoadLinkedTasks, ApplyDecision
        <5> QED BY <5>1, <5>2
      <4>4. \/ UNCHANGED decision
            \/ \E e \in Deciders, i \in Ids, v \in Verdicts : Decide(e, i, v)
            \/ \E e \in Deciders : DecisionStep(e) \/ DecisionStops(e)
        BY <1>2 DEF ApprovalsNext, AskStep, RequestApproval, AskFromBoard, LockTask, ReuseApproval,
               NonePending, InsertApproval, MoveToReview, AskStops, ExpireApproval, avars, approvalVars
      <4>5. DecisionStep(d) => LoadLinkedTasks(d) \/ \E t \in Tasks : ApplyDecision(d, t)
        BY DEF DecisionStep
      <4> QED BY <4>1, <4>2, <4>3, <4>4, <4>5
    <3> QED BY <3>1, <3>2, <3>3, <3>4
  <2> QED BY <2>1, <2>4 DEF TodoLinked
<1> QED BY <1>1, <1>2, ApprovalsOwnDecisions

\* A handler of the board closes no task that needs a sign-off and has none.
LEMMA SignedBoard ==
    ASSUME "update" \notin Kinds, SignedInv, [Next]_vars, BoardNext
    PROVE  HandlersSigned' /\ DoneWasApproved'
<1> USE DEF SignedInv
<1>1. /\ \A t \in Tasks : task[t] \in Row
      /\ \A r \in Slots : req[r] \in Request /\ req[r].row \in Row
      /\ task \in [Tasks -> Row] /\ req \in [Slots -> Request]
      /\ \A r \in Slots : req[r].op \in {"assign", "commit"} => req[r].on \in Tasks
  BY DEF Types, Named, ATypes, RowsTypeOK, BoardTypeOK, Request
<1>2. \A t : ApprovedClose(t) => ApprovedClose(t)'
  BY ApprovedStays
<1>3. ASSUME \A t \in Tasks : NeedsSignOff(t) /\ task'[t].state = "done" =>
                  task[t].state = "done" \/ ApprovedClose(t)
      PROVE  DoneWasApproved'
  <2> SUFFICES ASSUME NEW t \in Tasks, NeedsSignOff(t), task'[t].state = "done"
               PROVE  ApprovedClose(t)'
    BY DEF DoneWasApproved, ApprovedClose, NeedsSignOff
  <2>1. ApprovedClose(t)
    BY <1>3 DEF DoneWasApproved, ApprovedClose
  <2> QED BY <1>2, <2>1
<1>4. ASSUME \A r \in Slots : \/ req'[r].op \notin {"update", "assign", "commit"}
                              \/ /\ req'[r].op = req[r].op /\ req'[r].on = req[r].on
                                 /\ req'[r].row.state = req[r].row.state
                                 /\ req'[r].next = req[r].next
      PROVE  HandlersSigned'
  BY <1>2, <1>4 DEF HandlersSigned, NeedsSignOff
<1>5. ASSUME NEW r \in Slots, Answer(r) PROVE HandlersSigned'
  <2>1. req'[r].op = "none" /\ \A q \in Slots : q # r => req'[q] = req[q]
    BY <1>1, <1>5 DEF Answer, NoRequest
  <2> QED BY <1>4, <2>1
<1>6. ASSUME \A t \in Tasks : task'[t].state = task[t].state PROVE DoneWasApproved'
  BY <1>3, <1>6
<1>7. ASSUME NEW r \in Slots, ClaimSnapshot(r) PROVE HandlersSigned' /\ DoneWasApproved'
  <2>1. UNCHANGED task
    BY <1>7 DEF ClaimSnapshot, ReadOnly, rowVars
  <2>2. req'[r].op = "claim" /\ \A q \in Slots : q # r => req'[q] = req[q]
    BY <1>1, <1>7 DEF ClaimSnapshot, Request
  <2> QED BY <1>4, <1>6, <2>1, <2>2
<1>8. ASSUME NEW r \in Slots, NEW t \in Tasks, ClaimUpdate(r, t)
      PROVE  HandlersSigned' /\ DoneWasApproved'
  <2>1. Answer(r) /\ \A u \in Tasks : task'[u] = task[u] \/ task'[u].state = "in_progress"
    BY <1>1, <1>8 DEF ClaimUpdate
  <2> QED BY <1>3, <1>5, <2>1
<1>9. ASSUME NEW r \in Slots, ClaimNothing(r) \/ RequestEnds(r) \/ ResultAsks(r)
      PROVE  HandlersSigned' /\ DoneWasApproved'
  <2>1. Answer(r) /\ UNCHANGED task
    BY <1>9 DEF ClaimNothing, RequestEnds, ResultAsks, ReadOnly, rowVars
  <2> QED BY <1>5, <1>6, <2>1
<1>10. ASSUME NEW r \in Slots, NEW t \in Tasks, UpdateSelect(r, t)
       PROVE  HandlersSigned' /\ DoneWasApproved'
  BY <1>10 DEF UpdateSelect
<1>11. ASSUME NEW r \in Slots, NEW t \in Tasks, AssignSelect(r, t) \/ ResultSelect(r, t)
       PROVE  HandlersSigned' /\ DoneWasApproved'
  <2>1. UNCHANGED task
    BY <1>11 DEF AssignSelect, ResultSelect, ReadOnly, rowVars
  <2>2. /\ req'[r].row = task[t] /\ req'[r].on = t /\ req'[r].op \in {"assign", "result"}
        /\ \A q \in Slots : q # r => req'[q] = req[q]
    BY <1>1, <1>11 DEF AssignSelect, ResultSelect, Selected, NoRequest
  <2>3. NeedsSignOff(t) /\ task[t].state = "done" => ApprovedClose(t)
    BY DEF DoneWasApproved, ApprovedClose
  <2>4. HandlersSigned'
    BY <1>2, <2>2, <2>3 DEF HandlersSigned, NeedsSignOff
  <2> QED BY <1>6, <2>1, <2>4
<1>12. ASSUME NEW r \in Slots, AssignUpdate(r) PROVE HandlersSigned' /\ DoneWasApproved'
  <2>1. PICK claiming \in BOOLEAN :
          task' = [task EXCEPT ![req[r].on] = AssignedRow(req[r].row, req[r].actor, claiming)]
    BY <1>12 DEF AssignUpdate
  <2> DEFINE new == AssignedRow(req[r].row, req[r].actor, claiming)
  <2>2. new.state = "in_progress" \/ new.state = req[r].row.state
    BY DEF AssignedRow
  <2>3. NeedsSignOff(req[r].on) /\ new.state = "done" => ApprovedClose(req[r].on)
    BY <1>12, <2>2 DEF AssignUpdate, HandlersSigned
  <2> HIDE DEF new
  <2>4. \A t \in Tasks : task'[t] = task[t] \/ (t = req[r].on /\ task'[t] = new)
    BY <1>1, <2>1 DEF new
  <2>5. DoneWasApproved'
    BY <1>3, <2>3, <2>4
  <2> QED BY <1>5, <1>12, <2>5 DEF AssignUpdate
<1>13. ASSUME NEW r \in Slots, UpdateUpdate(r) PROVE HandlersSigned' /\ DoneWasApproved'
  BY <1>13 DEF UpdateUpdate, HandlersSigned
<1>14. ASSUME NEW r \in Slots, ResultPasses(r) PROVE HandlersSigned' /\ DoneWasApproved'
  <2>1. PICK next \in RequestStates : /\ ~(next = "done" /\ NeedsSignOff(req[r].on))
                                      /\ req' = [req EXCEPT ![r].op = "commit", ![r].next = next]
    BY <1>14 DEF ResultPasses
  <2>2. /\ req'[r].op = "commit" /\ req'[r].on = req[r].on /\ req'[r].next = next
        /\ \A q \in Slots : q # r => req'[q] = req[q]
    BY <1>1, <2>1 DEF Request
  <2>3. UNCHANGED task
    BY <1>14 DEF ResultPasses, ReadOnly, rowVars
  <2>4. HandlersSigned'
    BY <1>2, <2>1, <2>2 DEF HandlersSigned, NeedsSignOff
  <2> QED BY <1>6, <2>3, <2>4
<1>15. ASSUME NEW r \in Slots, ResultUpdate(r) PROVE HandlersSigned' /\ DoneWasApproved'
  <2>1. \A t \in Tasks : task'[t] = task[t] \/ (t = req[r].on /\ task'[t].state = req[r].next)
    BY <1>1, <1>15 DEF ResultUpdate, Row, NoLease
  <2>2. NeedsSignOff(req[r].on) => req[r].next # "done"
    BY <1>15 DEF ResultUpdate, HandlersSigned
  <2> QED BY <1>3, <1>5, <1>15, <2>1, <2>2 DEF ResultUpdate
<1>16. ASSUME NEW r \in Slots, Heartbeat(r) PROVE HandlersSigned' /\ DoneWasApproved'
  <2>1. \A t \in Tasks : task'[t].state = task[t].state
    BY <1>1, <1>16 DEF Heartbeat, Row
  <2> QED BY <1>5, <1>6, <1>16, <2>1 DEF Heartbeat
<1>17. ASSUME NEW t \in Tasks, Archive(t) \/ Unarchive(t) PROVE HandlersSigned' /\ DoneWasApproved'
  BY <1>4, <1>6, <1>17 DEF Archive, Unarchive, boardVars
<1>18. ASSUME NEW a \in Agents, DeleteAgent(a) PROVE HandlersSigned' /\ DoneWasApproved'
  <2>1. \A t \in Tasks : task'[t].state = task[t].state
    BY <1>1, <1>18 DEF DeleteAgent, Released, Row, NoLease
  <2> QED BY <1>4, <1>6, <1>18, <2>1 DEF DeleteAgent
<1>19. ASSUME NEW t \in Tasks, LeaseRunsOut(t) PROVE HandlersSigned' /\ DoneWasApproved'
  <2>1. \A u \in Tasks : task'[u].state = task[u].state
    BY <1>1, <1>19 DEF LeaseRunsOut, Row
  <2>2. \A r \in Slots : /\ req'[r].op = req[r].op /\ req'[r].on = req[r].on
                         /\ req'[r].row.state = req[r].row.state /\ req'[r].next = req[r].next
    BY <1>1, <1>19 DEF LeaseRunsOut, Request, Row
  <2> QED BY <1>4, <1>6, <2>1, <2>2
<1>20. ASSUME NEW r \in Slots, NEW a \in Agents, ResolveAgent(r, a)
       PROVE  HandlersSigned' /\ DoneWasApproved'
  <2>1. UNCHANGED task
    BY <1>20 DEF ResolveAgent, rowVars
  <2>2. req'[r].op = "resolved" /\ \A q \in Slots : q # r => req'[q] = req[q]
    BY <1>1, <1>20 DEF ResolveAgent, NoRequest
  <2> QED BY <1>4, <1>6, <2>1, <2>2
<1> QED
  BY <1>7, <1>8, <1>9, <1>10, <1>11, <1>12, <1>13, <1>14, <1>15, <1>16, <1>17, <1>18, <1>19, <1>20
     DEF BoardNext

LEMMA SignedStep ==
    ASSUME "update" \notin Kinds, SignedInv, [Next]_vars PROVE SignedInv'
<1>1. Types' /\ SoleDecider' /\ TodoLinked'
  BY TypesStep, DecisionsStaySigned DEF SignedInv
<1>2. /\ task \in [Tasks -> Row] /\ approval \in [Ids -> Approval]
      /\ decision \in [Deciders -> Decision]
  BY DEF SignedInv, Types, ATypes, RowsTypeOK, ApprovalsTypeOK
<1>3. ASSUME UNCHANGED req, \A t \in Tasks : NeedsSignOff(t) /\ task'[t].state = "done" =>
                                task[t].state = "done" \/ ApprovedClose(t)
      PROVE  HandlersSigned' /\ DoneWasApproved'
  <2>1. \A t : ApprovedClose(t) => ApprovedClose(t)'
    BY ApprovedStays DEF SignedInv
  <2>2. HandlersSigned'
    BY <1>3, <2>1 DEF SignedInv, HandlersSigned, NeedsSignOff
  <2>3. ASSUME NEW t \in Tasks, NeedsSignOff(t), task'[t].state = "done"
        PROVE  ApprovedClose(t)'
    <3>1. ApprovedClose(t)
      BY <1>3, <2>3 DEF SignedInv, DoneWasApproved, ApprovedClose
    <3> QED BY <2>1, <3>1
  <2>4. DoneWasApproved'
    BY <2>3 DEF DoneWasApproved, ApprovedClose, NeedsSignOff
  <2> QED BY <2>2, <2>4
<1>4. ASSUME ApprovalsNext, UNCHANGED boardVars PROVE HandlersSigned' /\ DoneWasApproved'
  <2>1. UNCHANGED req
    BY <1>4 DEF boardVars
  <2>2. ASSUME NEW r \in Slots, MoveToReview(r), NEW t \in Tasks, task'[t].state = "done"
        PROVE  task[t].state = "done"
    BY <1>2, <2>2 DEF MoveToReview, Row
  <2>3. ASSUME NEW d \in Deciders, NEW u \in Tasks, ApplyDecision(d, u),
               NEW t \in Tasks, task'[t].state = "done"
        PROVE  task[t].state = "done" \/ ApprovedClose(t)
    <3> DEFINE a == approval[decision[d].id]
               next == ResolutionState(decision[d].verdict, a.type)
    <3>1. /\ decision[d].step = "apply" /\ u \in decision[d].todo
          /\ task' = [task EXCEPT ![u] = [NoLease(task[u]) EXCEPT !.state = next]]
      BY <1>2, <2>3 DEF ApplyDecision
    <3>2. next = "done" => decision[d].verdict = "approved" /\ a.type = "task_done"
      BY <3>1 DEF SignedInv, Types, ATypes, Applying, ResolutionState
    <3>3. decision[d].id \in Ids /\ a.status = decision[d].verdict /\ u \in a.tasks
      BY <3>1 DEF SignedInv, Types, ATypes, Working, SoleDecider, TodoLinked
    <3>4. task'[t] = task[t] \/ (t = u /\ task'[t].state = next)
      <4> HIDE DEF next
      <4> QED BY <1>2, <3>1 DEF Row, NoLease
    <3> QED BY <2>3, <3>2, <3>3, <3>4 DEF ApprovedClose
  <2>4. \/ UNCHANGED task
        \/ \E r \in Slots : MoveToReview(r)
        \/ \E d \in Deciders, t \in Tasks : ApplyDecision(d, t)
    BY <1>4 DEF ApprovalsNext, AskStep, DecisionStep, RequestApproval, AskFromBoard, LockTask,
                ReuseApproval, NonePending, InsertApproval, AskStops, Decide, LoadLinkedTasks,
                DecisionStops, ExpireApproval, rowVars
  <2>5. \A t \in Tasks : task'[t].state = "done" => task[t].state = "done" \/ ApprovedClose(t)
    BY <2>2, <2>3, <2>4
  <2> QED BY <1>3, <2>1, <2>5
<1>5. ASSUME WatchdogNext, UNCHANGED boardVars PROVE HandlersSigned' /\ DoneWasApproved'
  <2>1. UNCHANGED req
    BY <1>5 DEF boardVars
  <2>2. ASSUME NEW w \in Replicas, NEW u \in Tasks, RetryTask(w, u) \/ DeadLetter(w, u),
               NEW t \in Tasks
        PROVE  task'[t] = task[t] \/ task'[t].state # "done"
    BY <1>2, <2>2 DEF RetryTask, DeadLetter, NewRow, Row
  <2>3. \/ UNCHANGED task
        \/ \E w \in Replicas, t \in Tasks : RetryTask(w, t) \/ DeadLetter(w, t)
    BY <1>5 DEF WatchdogNext, PassStep, ReclaimTask, DetectionStep, StartPass,
                ResolveOwnStaleIncidents, RaiseDeadLetter, SkipTask, Detect, CheckOpenIncident,
                InsertIncident, EndPass, Crash, ResolveIncident, Ages, rowVars
  <2> QED BY <1>3, <2>1, <2>2, <2>3
<1>6. ASSUME UNCHANGED vars PROVE HandlersSigned' /\ DoneWasApproved'
  BY <1>3, <1>6 DEF vars, rowVars, boardVars
<1> QED BY <1>1, <1>4, <1>5, <1>6, SignedBoard DEF SignedInv, Next

(***************************************************************************)
(* Without PATCH, a task that needs a person's sign-off is done only after *)
(* an approval of its close, for any policy, lead, tasks and interleaving  *)
(* of results, claims, assignments, asks, decisions and watchdogs.         *)
(***************************************************************************)
THEOREM DoneOnlyApproved ==
    ASSUME "update" \notin Kinds
    PROVE  Spec => []DoneWasApproved
<1>1. Init => SignedInv BY SignedInit
<1>2. SignedInv /\ [Next]_vars => SignedInv' BY SignedStep
<1>3. SignedInv => DoneWasApproved BY DEF SignedInv
<1> QED BY <1>1, <1>2, <1>3, PTL DEF Spec
=============================================================================
