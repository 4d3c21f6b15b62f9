-------------------------- MODULE Approvals_proofs --------------------------
(***************************************************************************)
(* Proofs about Approvals, for any tasks, handlers, deciders and bound.    *)
(***************************************************************************)
EXTENDS Approvals, LeastNumber_proofs, TLAPS

\* A write of the state column alone leaves a row a row.
LEMMA RowWithState ==
    ASSUME NEW row \in Row, NEW s \in TaskStates
    PROVE  [row EXCEPT !.state = s] \in Row
BY DEF Row

\* Revoking the lease leaves a row a row, with its state and its assignee.
LEMMA RowNoLease ==
    ASSUME NEW row \in Row
    PROVE  /\ NoLease(row) \in Row
           /\ NoLease(row).state = row.state
           /\ NoLease(row).agent = row.agent
           /\ NoLease(row).member = row.member
           /\ NoLease(row).leaseOwner = None
BY DEF Row, NoLease, LeaseTimes

(***************************************************************************)
(* The type invariant is inductive together with two facts: a decision     *)
(* that is being applied is an approval or a rejection, so the state it    *)
(* writes is a task state, and a decision under way has an approval.       *)
(***************************************************************************)
Applying == \A d \in Deciders : decision[d].step = "apply" =>
                decision[d].verdict \in {"approved", "rejected"}

\* A decision under way is about an approval that exists.
Working == \A d \in Deciders : decision[d].step # "idle" => decision[d].id \in Ids

ATypes == RowsTypeOK /\ ApprovalsTypeOK /\ Applying /\ Working

LEMMA AnsweredType ==
    ASSUME ask \in [Slots -> Ask], NEW r \in Slots, NEW i \in Ids, Answered(r, i)
    PROVE  ask' \in [Slots -> Ask]
<1>1. NoAsk \in Ask
  BY DEF NoAsk, Ask, ActionTypes
<1>2. [ask[r] EXCEPT !.step = "move", !.answer = i] \in Ask
  <2>1. ask[r] \in Ask
    OBVIOUS
  <2> QED BY <2>1 DEF Ask
<1> QED BY <1>1, <1>2 DEF Answered

LEMMA ATypesInit == ASSUME RowsInit, ApprovalsInit PROVE ATypes
<1> USE TaskRowsAssumption, ApprovalsAssumption
<1>1. RowsTypeOK
  BY DEF RowsInit, RowsTypeOK, Row, NewRow, Assignees, TaskStates, RequestStates, LeaseTimes
<1>2. ApprovalsTypeOK
  BY DEF ApprovalsInit, ApprovalsTypeOK, Approval, Unasked, Ask, NoAsk, Decision, NoDecision,
         Ids, Statuses, Verdicts, ActionTypes
<1>3. Applying /\ Working
  BY DEF ApprovalsInit, Applying, Working, NoDecision
<1> QED BY <1>1, <1>2, <1>3 DEF ATypes

LEMMA ATypesStep == ASSUME ATypes, [ApprovalsNext]_avars PROVE ATypes'
<1> USE TaskRowsAssumption, ApprovalsAssumption DEF ATypes, RowsTypeOK, ApprovalsTypeOK, Applying, Working
<1>1. ASSUME NEW r \in Slots, NEW S \in SUBSET Tasks, NEW type \in ActionTypes,
             RequestApproval(r, S, type)
      PROVE  ATypes'
  BY <1>1 DEF RequestApproval, StartAsk, Ask, Ids, rowVars
<1>2. ASSUME NEW r \in Slots, NEW S \in SUBSET Tasks, AskFromBoard(r, S)
      PROVE  ATypes'
  BY <1>2 DEF AskFromBoard, StartAsk, Ask, Ids, rowVars, ActionTypes
<1>3. ASSUME NEW r \in Slots, NEW t \in Tasks, LockTask(r, t)
      PROVE  ATypes'
  <2>1. ask' \in [Slots -> Ask]
    <3>1. PICK s \in {"check", "lock"} : ask' = [ask EXCEPT ![r].step = s]
      BY <1>3 DEF LockTask
    <3> QED BY <3>1 DEF Ask
  <2>2. taskLock' \in [Tasks -> Slots \cup {None}]
    BY <1>3 DEF LockTask
  <2> QED BY <1>3, <2>1, <2>2 DEF LockTask, rowVars
<1>4. ASSUME NEW r \in Slots, ReuseApproval(r)
      PROVE  ATypes'
  <2>1. PICK t \in ask[r].tasks : \E i \in PendingOn(t) : Answered(r, i)
    BY <1>4 DEF ReuseApproval
  <2>2. PICK i \in Ids : Answered(r, i)
    BY <2>1 DEF PendingOn
  <2>3. ask' \in [Slots -> Ask]
    BY <2>2, AnsweredType
  <2> QED BY <1>4, <2>3 DEF ReuseApproval, ReleaseLocks, rowVars
<1>5. ASSUME NEW r \in Slots, NonePending(r)
      PROVE  ATypes'
  BY <1>5 DEF NonePending, Ask, rowVars
<1>6. ASSUME NEW r \in Slots, InsertApproval(r)
      PROVE  ATypes'
  <2>1. PICK i \in Ids :
          /\ approval' = [approval EXCEPT ![i] =
                [status |-> "pending", type |-> ask[r].type, tasks |-> ask[r].tasks]]
          /\ Answered(r, i)
    BY <1>6 DEF InsertApproval
  <2>2. ask' \in [Slots -> Ask]
    BY <2>1, AnsweredType
  <2>3. approval' \in [Ids -> Approval]
    BY <2>1 DEF Approval, Ask, Statuses
  <2> QED BY <1>6, <2>2, <2>3 DEF InsertApproval, ReleaseLocks, rowVars
<1>7. ASSUME NEW r \in Slots, MoveToReview(r)
      PROVE  ATypes'
  <2>1. \A t \in Tasks : [task[t] EXCEPT !.state = "review"] \in Row
    BY RowWithState DEF TaskStates, RequestStates
  <2>2. ask' \in [Slots -> Ask]
    BY <1>7 DEF MoveToReview, Ask, NoAsk, ActionTypes
  <2>3. task' \in [Tasks -> Row]
    BY <1>7, <2>1 DEF MoveToReview
  <2> QED BY <1>7, <2>2, <2>3 DEF MoveToReview
<1>8. ASSUME NEW r \in Slots, AskStops(r)
      PROVE  ATypes'
  BY <1>8 DEF AskStops, ReleaseLocks, Ask, NoAsk, ActionTypes, rowVars
<1>9. ASSUME NEW d \in Deciders, NEW i \in Ids, NEW v \in Verdicts, Decide(d, i, v)
      PROVE  ATypes'
  <2>1. approval' \in [Ids -> Approval]
    BY <1>9 DEF Decide, Approval, Statuses
  <2>2. decision' \in [Deciders -> Decision] /\ Applying' /\ Working'
    BY <1>9 DEF Decide, Decision
  <2> QED BY <1>9, <2>1, <2>2 DEF Decide, rowVars
<1>10. ASSUME NEW d \in Deciders, LoadLinkedTasks(d)
       PROVE  ATypes'
  <2> DEFINE a == approval[decision[d].id]
             next == ResolutionState(decision[d].verdict, a.type)
             todo == {t \in a.tasks : next # None /\ ~(next = "done" /\ task[t].state = "done")}
  <2>1. decision' = [decision EXCEPT ![d] = IF todo = {} THEN NoDecision
                                            ELSE [decision[d] EXCEPT !.step = "apply",
                                                                     !.todo = todo]]
    BY <1>10 DEF LoadLinkedTasks
  <2>2. todo # {} => decision[d].verdict \in {"approved", "rejected"}
    BY DEF ResolutionState
  <2>3. decision' \in [Deciders -> Decision]
    <3>1. decision[d] \in Decision /\ NoDecision \in Decision
      BY DEF Decision, NoDecision, Verdicts
    <3>2. todo \in SUBSET Tasks
      BY <1>10 DEF LoadLinkedTasks, Approval
    <3>3. [decision[d] EXCEPT !.step = "apply", !.todo = todo] \in Decision
      BY <3>1, <3>2 DEF Decision
    <3> QED BY <2>1, <3>1, <3>3
  <2>4. Applying' /\ Working'
    BY <1>10, <2>1, <2>2 DEF LoadLinkedTasks, Decision, NoDecision
  <2> QED BY <1>10, <2>3, <2>4 DEF LoadLinkedTasks, rowVars
<1>11. ASSUME NEW d \in Deciders, NEW t \in Tasks, ApplyDecision(d, t)
       PROVE  ATypes'
  <2>1. ResolutionState(decision[d].verdict, approval[decision[d].id].type) \in TaskStates
    BY <1>11 DEF ApplyDecision, ResolutionState, TaskStates, RequestStates
  <2>2. task' \in [Tasks -> Row]
    BY <1>11, <2>1, RowNoLease, RowWithState DEF ApplyDecision
  <2>3. decision' \in [Deciders -> Decision] /\ Applying' /\ Working'
    BY <1>11 DEF ApplyDecision, Decision, NoDecision, Verdicts
  <2> QED BY <1>11, <2>2, <2>3 DEF ApplyDecision
<1>12. ASSUME NEW d \in Deciders, DecisionStops(d)
       PROVE  ATypes'
  BY <1>12 DEF DecisionStops, Decision, NoDecision, Verdicts, rowVars
<1>13. ASSUME NEW i \in Ids, ExpireApproval(i)
       PROVE  ATypes'
  BY <1>13 DEF ExpireApproval, Approval, Statuses, rowVars
<1>14. ASSUME UNCHANGED avars PROVE ATypes'
  BY <1>14 DEF avars, rowVars, approvalVars
<1> QED
  BY <1>1, <1>2, <1>3, <1>4, <1>5, <1>6, <1>7, <1>8, <1>9, <1>10, <1>11, <1>12, <1>13, <1>14
     DEF ApprovalsNext, AskStep, DecisionStep

(***************************************************************************)
(* Type correctness of the approval flow.                                  *)
(***************************************************************************)
THEOREM ApprovalsTypeCorrect == ApprovalsSpec => []ApprovalsTypeOK
<1>1. RowsInit /\ ApprovalsInit => ATypes BY ATypesInit
<1>2. ATypes /\ [ApprovalsNext]_avars => ATypes' BY ATypesStep
<1>3. ATypes => ApprovalsTypeOK BY DEF ATypes
<1> QED BY <1>1, <1>2, <1>3, PTL DEF ApprovalsSpec, ApprovalsStart

-----------------------------------------------------------------------------
(***************************************************************************)
(* Why one pending approval per task is inductive.  An ask that is past    *)
(* the locking holds the lock of each of its tasks; between its check and  *)
(* its insert nothing pending can appear on them, because whoever inserts  *)
(* holds their locks too.                                                  *)
(***************************************************************************)
HoldsLocks == \A r \in Slots : ask[r].step \in {"check", "insert"} =>
                  \A t \in ask[r].tasks : taskLock[t] = r

ClearToInsert == \A r \in Slots : ask[r].step = "insert" =>
                     \A t \in ask[r].tasks : PendingOn(t) = {}

\* An ask is about some tasks, and so is every approval.
AsksSomething ==
    /\ \A r \in Slots : ask[r].step # "idle" => ask[r].tasks # {}
    /\ \A i \in Ids : approval[i].status # "unasked" => approval[i].tasks # {}

PendingInv == ATypes /\ HoldsLocks /\ ClearToInsert /\ AsksSomething /\ OnePending

LEMMA PendingInit == ASSUME RowsInit, ApprovalsInit PROVE PendingInv
<1>1. ATypes BY ATypesInit
<1> QED
  BY <1>1 DEF PendingInv, HoldsLocks, ClearToInsert, AsksSomething, OnePending, PendingOn,
              ApprovalsInit, NoAsk, Unasked

\* A step that makes no approval pending and starts no ask past its locks.
LEMMA NothingNewPending ==
    ASSUME PendingInv, ATypes',
           \A i \in Ids : approval'[i].status = "pending" => approval'[i] = approval[i],
           \A i \in Ids : approval'[i].status # "unasked" =>
               approval[i].status # "unasked" /\ approval'[i].tasks = approval[i].tasks,
           \A r \in Slots :
               /\ ask'[r].step # "idle" => ask'[r].tasks # {}
               /\ ask'[r].step \in {"check", "insert"} => \A t \in ask'[r].tasks : taskLock'[t] = r
               /\ ask'[r].step = "insert" => \A t \in ask'[r].tasks : PendingOn(t) = {}
    PROVE  PendingInv'
<1>1. \A t \in Tasks : PendingOn(t)' \subseteq PendingOn(t)
  BY DEF PendingOn
<1>2. OnePending'
  BY <1>1 DEF OnePending, PendingInv
<1>3. ClearToInsert'
  <2>1. \A r \in Slots : ask'[r].tasks \subseteq Tasks
    BY DEF ATypes, ApprovalsTypeOK, Ask
  <2> QED BY <1>1, <2>1 DEF ClearToInsert
<1>4. HoldsLocks' /\ AsksSomething'
  BY DEF HoldsLocks, AsksSomething, PendingInv
<1> QED BY <1>2, <1>3, <1>4 DEF PendingInv

LEMMA PendingStep == ASSUME PendingInv, [ApprovalsNext]_avars PROVE PendingInv'
<1>1. ATypes'
  BY ATypesStep DEF PendingInv
<1> USE <1>1, ApprovalsAssumption DEF PendingInv, ATypes, ApprovalsTypeOK
<1>2. ASSUME NEW r \in Slots, NEW S \in SUBSET Tasks, NEW type \in ActionTypes,
             RequestApproval(r, S, type) \/ AskFromBoard(r, S)
      PROVE  PendingInv'
  <2>1. /\ S # {}
        /\ UNCHANGED <<approval, taskLock>>
        /\ \E ty, from : ask' = [ask EXCEPT ![r] = [step |-> "lock", from |-> from, tasks |-> S,
                                                    type |-> ty, answer |-> 0]]
    BY <1>2 DEF RequestApproval, AskFromBoard, StartAsk
  <2> QED BY <2>1, NothingNewPending DEF HoldsLocks, ClearToInsert, AsksSomething
<1>3. ASSUME NEW r \in Slots, NEW t \in Tasks, LockTask(r, t)
      PROVE  PendingInv'
  <2>1. UNCHANGED approval /\ taskLock[t] = None /\ taskLock' = [taskLock EXCEPT ![t] = r]
    BY <1>3 DEF LockTask, MayLock
  <2>2. /\ \A q \in Slots : ask'[q].tasks = ask[q].tasks
        /\ \A q \in Slots : q # r => ask'[q] = ask[q]
        /\ ask[r].step = "lock" /\ ask'[r].step \in {"lock", "check"}
        /\ ask'[r].step = "check" => \A u \in ask[r].tasks : u # t => taskLock[u] = r
    BY <1>3 DEF LockTask, MayLock, Ask
  <2>3. \A q \in Slots : ask'[q].step \in {"check", "insert"} =>
            \A u \in ask'[q].tasks : taskLock'[u] = q
    <3>1. \A q \in Slots : ask[q].tasks \subseteq Tasks
      BY DEF Ask
    <3> QED BY <2>1, <2>2, <3>1 DEF HoldsLocks
  <2> QED BY <2>1, <2>2, <2>3, NothingNewPending DEF ClearToInsert, AsksSomething
<1>4. ASSUME NEW r \in Slots, ReuseApproval(r) \/ AskStops(r) \/ MoveToReview(r)
      PROVE  PendingInv'
  <2>0. ask' = [ask EXCEPT ![r] = NoAsk] \/ \E i \in Ids : Answered(r, i)
    BY <1>4 DEF ReuseApproval, AskStops, MoveToReview, PendingOn
  <2>1. /\ UNCHANGED approval
        /\ \A t \in Tasks : taskLock[t] # r => taskLock'[t] = taskLock[t]
        /\ \A q \in Slots : q # r => ask'[q] = ask[q]
        /\ ask'[r].step \in {"idle", "move"}
        /\ ask'[r].step = "move" => ask'[r].tasks = ask[r].tasks /\ ask[r].step # "idle"
    <3>1. UNCHANGED approval
      BY <1>4 DEF ReuseApproval, AskStops, MoveToReview
    <3>2. \A t \in Tasks : taskLock[t] # r => taskLock'[t] = taskLock[t]
      BY <1>4 DEF ReuseApproval, AskStops, MoveToReview, ReleaseLocks
    <3>3. ask[r].step # "idle"
      BY <1>4 DEF ReuseApproval, AskStops, MoveToReview
    <3>4. /\ \A q \in Slots : q # r => ask'[q] = ask[q]
          /\ ask'[r].step \in {"idle", "move"}
          /\ ask'[r].step = "move" => ask'[r].tasks = ask[r].tasks
      <4>1. CASE ask' = [ask EXCEPT ![r] = NoAsk]
        BY <4>1 DEF NoAsk
      <4>2. ASSUME NEW i \in Ids, Answered(r, i)
            PROVE  /\ \A q \in Slots : q # r => ask'[q] = ask[q]
                   /\ ask'[r].step \in {"idle", "move"}
                   /\ ask'[r].step = "move" => ask'[r].tasks = ask[r].tasks
        BY <4>2 DEF Answered, Ask, NoAsk
      <4> QED BY <2>0, <4>1, <4>2
    <3> QED BY <3>1, <3>2, <3>3, <3>4
  <2>2. \A q \in Slots : ask[q].tasks \subseteq Tasks
    BY DEF Ask
  <2> QED
    BY <2>1, <2>2, NothingNewPending DEF HoldsLocks, ClearToInsert, AsksSomething
<1>5. ASSUME NEW r \in Slots, NonePending(r)
      PROVE  PendingInv'
  <2>1. UNCHANGED <<approval, taskLock>>
    BY <1>5 DEF NonePending
  <2>2. /\ \A q \in Slots : ask'[q].tasks = ask[q].tasks
        /\ \A q \in Slots : q # r => ask'[q] = ask[q]
        /\ ask[r].step = "check"
        /\ \A t \in ask[r].tasks : PendingOn(t) = {}
    BY <1>5 DEF NonePending, AlreadyAsked, HasPendingApproval, Ask
  <2> QED BY <2>1, <2>2, NothingNewPending DEF HoldsLocks, ClearToInsert, AsksSomething
<1>6. ASSUME NEW r \in Slots, InsertApproval(r)
      PROVE  PendingInv'
  <2> DEFINE S == ask[r].tasks
  <2>1. PICK i \in Ids :
          /\ approval' = [approval EXCEPT ![i] =
                [status |-> "pending", type |-> ask[r].type, tasks |-> ask[r].tasks]]
          /\ Answered(r, i)
    BY <1>6 DEF InsertApproval
  <2>2. /\ ask[r].step = "insert"
        /\ \A t \in Tasks : taskLock[t] # r => taskLock'[t] = taskLock[t]
        /\ \A t \in S : PendingOn(t) = {} /\ taskLock[t] = r
        /\ S # {}
    BY <1>6 DEF InsertApproval, ReleaseLocks, HoldsLocks, ClearToInsert, AsksSomething
  <2>3. /\ \A q \in Slots : q # r => ask'[q] = ask[q]
        /\ ask'[r].step \in {"idle", "move"}
        /\ ask'[r].step = "move" => ask'[r].tasks = S
    BY <2>1 DEF Answered, Ask, NoAsk
  <2>4. \A t \in Tasks : PendingOn(t)' \subseteq IF t \in S THEN {i} ELSE PendingOn(t)
    BY <2>1, <2>2 DEF PendingOn
  <2>5. \A q \in Slots : ask[q].tasks \subseteq Tasks
    BY DEF Ask
  <2>6. OnePending'
    BY <2>4 DEF OnePending
  <2>7. HoldsLocks'
    BY <2>2, <2>3, <2>5 DEF HoldsLocks
  <2>8. ClearToInsert'
    <3> SUFFICES ASSUME NEW q \in Slots, ask'[q].step = "insert", NEW t \in ask'[q].tasks
                 PROVE  PendingOn(t)' = {}
      BY DEF ClearToInsert
    <3>1. q # r /\ ask'[q] = ask[q]
      BY <2>3
    <3>2. taskLock[t] = q /\ PendingOn(t) = {} /\ t \in Tasks
      BY <3>1, <2>5 DEF HoldsLocks, ClearToInsert
    <3>3. t \notin S
      BY <3>1, <3>2, <2>2
    <3> QED BY <3>2, <3>3, <2>4
  <2>9. AsksSomething'
    <3>1. \A j \in Ids : j # i => approval'[j] = approval[j]
      BY <2>1
    <3>2. approval'[i].tasks = S
      BY <2>1
    <3>3. \A q \in Slots : ask'[q].step # "idle" => ask'[q].tasks # {}
      BY <2>2, <2>3 DEF AsksSomething
    <3> QED BY <2>2, <3>1, <3>2, <3>3 DEF AsksSomething
  <2> QED BY <2>6, <2>7, <2>8, <2>9
<1>7. ASSUME NEW d \in Deciders, NEW i \in Ids, NEW v \in Verdicts, Decide(d, i, v)
      PROVE  PendingInv'
  <2>1. UNCHANGED <<ask, taskLock>>
    BY <1>7 DEF Decide, Undecided
  <2>2. /\ \A j \in Ids : j # i => approval'[j] = approval[j]
        /\ approval[i].status = "pending" /\ approval'[i].status # "pending"
        /\ approval'[i].tasks = approval[i].tasks
    BY <1>7 DEF Decide, Undecided, Approval, Verdicts
  <2> QED BY <2>1, <2>2, NothingNewPending DEF HoldsLocks, ClearToInsert, AsksSomething
<1>8. ASSUME UNCHANGED <<approval, taskLock, ask>> PROVE PendingInv'
  BY <1>8, NothingNewPending DEF HoldsLocks, ClearToInsert, AsksSomething
<1>9. ASSUME NEW d \in Deciders, DecisionStep(d) \/ DecisionStops(d)
      PROVE  PendingInv'
  BY <1>8, <1>9 DEF DecisionStep, LoadLinkedTasks, ApplyDecision, DecisionStops
<1>10. ASSUME NEW r \in Slots, AskStep(r) \/ AskStops(r)
       PROVE  PendingInv'
  BY <1>3, <1>4, <1>5, <1>6, <1>10 DEF AskStep
<1>11. ASSUME NEW r \in Slots, NEW S \in SUBSET Tasks, AskFromBoard(r, S)
       PROVE  PendingInv'
  BY <1>2, <1>11 DEF ActionTypes
<1>12. ASSUME NEW i \in Ids, ExpireApproval(i)
       PROVE  PendingInv'
  <2>1. /\ \A j \in Ids : j # i => approval'[j] = approval[j]
        /\ approval[i].status = "pending" /\ approval'[i].status # "pending"
        /\ approval'[i].tasks = approval[i].tasks
        /\ UNCHANGED <<ask, taskLock>>
    BY <1>12 DEF ExpireApproval, Undecided, Approval
  <2> QED BY <2>1, NothingNewPending DEF HoldsLocks, ClearToInsert, AsksSomething
<1>13. CASE UNCHANGED avars
  BY <1>8, <1>13 DEF avars, approvalVars
<1> QED
  BY <1>2, <1>7, <1>9, <1>10, <1>11, <1>12, <1>13 DEF ApprovalsNext

(***************************************************************************)
(* No task is ever in front of people twice.                               *)
(***************************************************************************)
THEOREM OnePendingAlways == ApprovalsSpec => []OnePending
<1>1. RowsInit /\ ApprovalsInit => PendingInv BY PendingInit
<1>2. PendingInv /\ [ApprovalsNext]_avars => PendingInv' BY PendingStep
<1>3. PendingInv => OnePending BY DEF PendingInv
<1> QED BY <1>1, <1>2, <1>3, PTL DEF ApprovalsSpec, ApprovalsStart

-----------------------------------------------------------------------------
(* The refinement: Open is InsertApproval, Close is Decide or ExpireApproval. *)

LEMMA TheOneIs == TheOne({}) = 0 /\ \A i : TheOne({i}) = i
BY DEF TheOne

\* A question is open about exactly the tasks of its approval, while that is pending.
LEMMA OpenMeansPending ==
    ASSUME OnePending, NEW t \in Tasks, NEW i \in Ids
    PROVE  /\ OpenQuestion[t] = i <=> i \in PendingOn(t)
           /\ i \in PendingOn(t) => PendingOn(t) = {i}
           /\ OpenQuestion[t] = 0 <=> PendingOn(t) = {}
<1>1. PendingOn(t) \subseteq Ids
  BY DEF PendingOn
<1>2. 0 \notin Ids
  BY ApprovalsAssumption DEF Ids
<1>3. i \in PendingOn(t) => PendingOn(t) = {i}
  BY <1>1 DEF OnePending
<1>4. PendingOn(t) = {} => OpenQuestion[t] = 0
  BY TheOneIs DEF OpenQuestion
<1>5. ASSUME NEW j \in PendingOn(t) PROVE OpenQuestion[t] = j /\ j \in Ids
  <2>1. PendingOn(t) = {j}
    BY <1>1 DEF OnePending
  <2> QED BY <1>1, <2>1, TheOneIs DEF OpenQuestion
<1> QED BY <1>2, <1>3, <1>4, <1>5

LEMMA SameApprovalsSameQuestions ==
    ASSUME UNCHANGED approval PROVE UNCHANGED Questions!vars
<1>1. \A t \in Tasks : PendingOn(t)' = PendingOn(t)
  BY DEF PendingOn
<1>2. OpenQuestion' = OpenQuestion
  BY <1>1 DEF OpenQuestion
<1> QED BY <1>2 DEF Questions!vars

LEMMA InsertOpens ==
    ASSUME PendingInv, PendingInv', NEW r \in Slots, InsertApproval(r)
    PROVE  Questions!Next
<1> DEFINE about == ask[r].tasks
<1>1. PICK i \in Ids :
        /\ approval[i].status = "unasked"
        /\ approval' = [approval EXCEPT ![i] =
              [status |-> "pending", type |-> ask[r].type, tasks |-> ask[r].tasks]]
  BY DEF InsertApproval
<1>2. about # {} /\ about \subseteq Tasks /\ \A t \in about : PendingOn(t) = {}
  BY DEF InsertApproval, PendingInv, AsksSomething, ClearToInsert, ATypes, ApprovalsTypeOK, Ask
<1>3. \A t \in Tasks : PendingOn(t)' = IF t \in about THEN {i} ELSE PendingOn(t)
  BY <1>1, <1>2 DEF PendingOn, PendingInv, ATypes, ApprovalsTypeOK
<1>4. OpenQuestion' = [t \in Tasks |-> IF t \in about THEN i ELSE OpenQuestion[t]]
  BY <1>3, TheOneIs DEF OpenQuestion
<1>5. \A t \in about : OpenQuestion[t] = 0
  BY <1>2, TheOneIs DEF OpenQuestion
<1>6. {j \in Ids : approval'[j].status # "unasked"}
        = {j \in Ids : approval[j].status # "unasked"} \cup {i}
  BY <1>1 DEF PendingInv, ATypes, ApprovalsTypeOK
<1>7. PICK T \in SUBSET Tasks : T = about
  BY <1>2
<1>8. Questions!Open(i, T)
  BY <1>1, <1>2, <1>4, <1>5, <1>6, <1>7 DEF Questions!Open
<1> QED BY <1>7, <1>8 DEF Questions!Next

LEMMA SettlingCloses ==
    ASSUME PendingInv, PendingInv', NEW i \in Ids, approval[i].status = "pending",
           NEW v \in Verdicts \cup {"expired"}, approval' = [approval EXCEPT ![i].status = v]
    PROVE  Questions!Next
<1> USE DEF PendingInv, ATypes, ApprovalsTypeOK
<1> DEFINE S == approval[i].tasks
<1>1. S # {} /\ S \subseteq Tasks
  BY DEF AsksSomething, Approval
<1>2. v # "pending" /\ v # "unasked"
  BY DEF Verdicts
<1>3. \A j \in Ids : /\ approval'[j].tasks = approval[j].tasks
                     /\ approval'[j].status = IF j = i THEN v ELSE approval[j].status
  BY DEF Approval
<1>4. \A t \in Tasks : PendingOn(t)' = PendingOn(t) \ {i}
  BY <1>2, <1>3 DEF PendingOn
<1>5. \A t \in Tasks : t \in S <=> i \in PendingOn(t)
  BY DEF PendingOn
<1>6. \A t \in Tasks : OpenQuestion[t] = i <=> t \in S
  BY <1>5, OpenMeansPending
<1>7. \A t \in Tasks : TheOne(PendingOn(t)') = IF t \in S THEN 0 ELSE TheOne(PendingOn(t))
  <2>1. ASSUME NEW t \in Tasks, t \in S PROVE PendingOn(t)' = {}
    BY <1>4, <1>5, <2>1, OpenMeansPending
  <2>2. ASSUME NEW t \in Tasks, t \notin S PROVE PendingOn(t)' = PendingOn(t)
    BY <1>4, <1>5, <2>2
  <2> QED BY <2>1, <2>2, TheOneIs
<1>8. OpenQuestion' = [t \in Tasks |-> IF OpenQuestion[t] = i THEN 0 ELSE OpenQuestion[t]]
  BY <1>6, <1>7 DEF OpenQuestion
<1>9. {j \in Ids : approval'[j].status # "unasked"} = {j \in Ids : approval[j].status # "unasked"}
  BY <1>2, <1>3
<1>10. Questions!Close(i)
  BY <1>1, <1>6, <1>8, <1>9 DEF Questions!Close
<1> QED BY <1>10 DEF Questions!Next

LEMMA StepRefines ==
    ASSUME PendingInv, PendingInv', [ApprovalsNext]_avars
    PROVE  [Questions!Next]_(Questions!vars)
<1>1. ASSUME NEW r \in Slots, InsertApproval(r) PROVE Questions!Next
  BY <1>1, InsertOpens
<1>2. ASSUME NEW d \in Deciders, NEW i \in Ids, NEW v \in Verdicts, Decide(d, i, v)
      PROVE  Questions!Next
  <2>1. approval[i].status = "pending" /\ approval' = [approval EXCEPT ![i].status = v]
    BY <1>2 DEF Decide, Undecided
  <2> QED BY <2>1, SettlingCloses
<1>3. ASSUME NEW i \in Ids, ExpireApproval(i) PROVE Questions!Next
  <2>1. approval[i].status = "pending" /\ approval' = [approval EXCEPT ![i].status = "expired"]
    BY <1>3 DEF ExpireApproval, Undecided
  <2> QED BY <2>1, SettlingCloses
<1>4. \/ UNCHANGED approval
      \/ \E r \in Slots : InsertApproval(r)
      \/ \E d \in Deciders, i \in Ids, v \in Verdicts : Decide(d, i, v)
      \/ \E i \in Ids : ExpireApproval(i)
  BY DEF ApprovalsNext, AskStep, DecisionStep, RequestApproval, AskFromBoard, LockTask,
         ReuseApproval, NonePending, MoveToReview, AskStops, LoadLinkedTasks, ApplyDecision,
         DecisionStops, avars, approvalVars
<1> QED BY <1>1, <1>2, <1>3, <1>4, SameApprovalsSameQuestions

(***************************************************************************)
(* The approval flow implements OneAsk: what looks atomic to people, one   *)
(* question opened or closed for all its tasks, is what the locks, the     *)
(* check before the insert and the guarded updates bring about.            *)
(***************************************************************************)
THEOREM ApprovalsImplementOneAsk == ApprovalsSpec => ImplementsOneAsk
<1>1. RowsInit /\ ApprovalsInit => PendingInv BY PendingInit
<1>2. PendingInv /\ [ApprovalsNext]_avars => PendingInv' BY PendingStep
<1>3. ASSUME RowsInit, ApprovalsInit PROVE Questions!Init
  <2>1. \A t \in Tasks : PendingOn(t) = {}
    BY <1>3 DEF ApprovalsInit, PendingOn, Unasked
  <2>2. OpenQuestion = [t \in Tasks |-> 0]
    BY <2>1, TheOneIs DEF OpenQuestion
  <2> QED BY <1>3, <2>2 DEF Questions!Init, ApprovalsInit, Unasked
<1>4. PendingInv /\ PendingInv' /\ [ApprovalsNext]_avars => [Questions!Next]_(Questions!vars)
  BY StepRefines
<1> QED BY <1>1, <1>2, <1>3, <1>4, PTL DEF ApprovalsSpec, ApprovalsStart, ImplementsOneAsk, Questions!Spec
-----------------------------------------------------------------------------
(***************************************************************************)
(* A decision is final: approvals past "pending" never change again, so    *)
(* what a decision handler carries stays what is stored, and the one       *)
(* guarded UPDATE lets a single handler in.                                *)
(***************************************************************************)
DecidedInv == ATypes /\ SoleDecider

\* What the approval a handler has decided on looks like.
LEMMA DecidedIsSettled ==
    ASSUME ATypes, SoleDecider, NEW d \in Deciders, decision[d].step # "idle"
    PROVE  /\ decision[d].id \in Ids
           /\ approval[decision[d].id].status \notin {"unasked", "pending", "expired"}
<1>1. decision[d] \in Decision /\ decision[d].id \in Ids
  BY DEF ATypes, ApprovalsTypeOK, Working
<1>2. decision[d].verdict \in Verdicts
  BY <1>1 DEF Decision
<1> QED BY <1>1, <1>2 DEF SoleDecider, Verdicts

\* An approval that is past "pending" is never written again.
LEMMA SettledStays ==
    ASSUME ATypes, [ApprovalsNext]_avars, NEW i \in Ids,
           approval[i].status \notin {"unasked", "pending"}
    PROVE  approval'[i] = approval[i]
<1>1. approval \in [Ids -> Approval]
  BY DEF ATypes, ApprovalsTypeOK
<1>2. ASSUME NEW r \in Slots, InsertApproval(r) PROVE approval'[i] = approval[i]
  <2>1. PICK j \in Ids :
          /\ approval[j].status = "unasked"
          /\ approval' = [approval EXCEPT ![j] =
                [status |-> "pending", type |-> ask[r].type, tasks |-> ask[r].tasks]]
    BY <1>2 DEF InsertApproval
  <2> QED BY <1>1, <2>1
<1>3. ASSUME NEW d \in Deciders, NEW j \in Ids, NEW v \in Verdicts, Decide(d, j, v)
      PROVE  approval'[i] = approval[i]
  BY <1>1, <1>3 DEF Decide, Undecided
<1>4. ASSUME NEW j \in Ids, ExpireApproval(j) PROVE approval'[i] = approval[i]
  BY <1>1, <1>4 DEF ExpireApproval, Undecided
<1>5. \/ UNCHANGED approval
      \/ \E r \in Slots : InsertApproval(r)
      \/ \E d \in Deciders, j \in Ids, v \in Verdicts : Decide(d, j, v)
      \/ \E j \in Ids : ExpireApproval(j)
  BY DEF ApprovalsNext, AskStep, DecisionStep, RequestApproval, AskFromBoard, LockTask,
         ReuseApproval, NonePending, MoveToReview, AskStops, LoadLinkedTasks, ApplyDecision,
         DecisionStops, avars, approvalVars
<1> QED BY <1>2, <1>3, <1>4, <1>5

\* A step in which no handler begins or changes the decision it works on.
LEMMA NobodyDecides ==
    ASSUME DecidedInv, [ApprovalsNext]_avars,
           \A d \in Deciders : decision'[d].step # "idle" =>
               /\ decision[d].step # "idle"
               /\ decision'[d].id = decision[d].id /\ decision'[d].verdict = decision[d].verdict
    PROVE  SoleDecider'
<1>1. ASSUME NEW d \in Deciders, decision'[d].step # "idle"
      PROVE  approval'[decision'[d].id].status = decision'[d].verdict
  <2>1. decision[d].step # "idle" /\ approval[decision[d].id].status = decision[d].verdict
    BY <1>1 DEF DecidedInv, SoleDecider
  <2>2. approval'[decision[d].id] = approval[decision[d].id]
    BY <2>1, DecidedIsSettled, SettledStays DEF DecidedInv
  <2> QED BY <1>1, <2>1, <2>2
<1>2. ASSUME NEW d \in Deciders, NEW e \in Deciders,
             decision'[d].step # "idle", decision'[e].step # "idle",
             decision'[e].id = decision'[d].id
      PROVE  e = d
  BY <1>2 DEF DecidedInv, SoleDecider
<1> QED BY <1>1, <1>2 DEF SoleDecider

LEMMA DecidedStep == ASSUME DecidedInv, [ApprovalsNext]_avars PROVE DecidedInv'
<1>1. ATypes'
  BY ATypesStep DEF DecidedInv
<1> SUFFICES SoleDecider'
  BY <1>1 DEF DecidedInv
<1>2. /\ approval \in [Ids -> Approval] /\ decision \in [Deciders -> Decision]
  BY DEF DecidedInv, ATypes, ApprovalsTypeOK
<1>3. ASSUME NEW d \in Deciders, NEW i \in Ids, NEW v \in Verdicts, Decide(d, i, v)
      PROVE  SoleDecider'
  <2>1. /\ approval[i].status = "pending" /\ approval'[i].status = v
        /\ decision'[d].id = i /\ decision'[d].verdict = v
        /\ \A e \in Deciders : e # d => decision'[e] = decision[e]
    BY <1>2, <1>3 DEF Decide, Undecided, Approval
  <2>2. ASSUME NEW e \in Deciders, e # d, decision[e].step # "idle"
        PROVE  decision[e].id # i /\ approval'[decision[e].id] = approval[decision[e].id]
    BY <2>1, <2>2, DecidedIsSettled, SettledStays DEF DecidedInv
  <2>3. ASSUME NEW e \in Deciders, decision'[e].step # "idle"
        PROVE  approval'[decision'[e].id].status = decision'[e].verdict
    <3>1. CASE e = d
      BY <2>1, <3>1
    <3>2. CASE e # d
      BY <2>1, <2>2, <2>3, <3>2 DEF DecidedInv, SoleDecider
    <3> QED BY <3>1, <3>2
  <2>4. ASSUME NEW e \in Deciders, NEW f \in Deciders,
               decision'[e].step # "idle", decision'[f].step # "idle",
               decision'[f].id = decision'[e].id
        PROVE  f = e
    BY <2>1, <2>2, <2>4 DEF DecidedInv, SoleDecider
  <2> QED BY <2>3, <2>4 DEF SoleDecider
<1>4. ASSUME NEW d \in Deciders, DecisionStep(d) \/ DecisionStops(d) PROVE SoleDecider'
  <2>1. /\ \A e \in Deciders : e # d => decision'[e] = decision[e]
        /\ decision'[d].step # "idle" =>
             /\ decision[d].step # "idle"
             /\ decision'[d].id = decision[d].id /\ decision'[d].verdict = decision[d].verdict
    <3>1. ASSUME LoadLinkedTasks(d)
          PROVE  /\ decision[d].step # "idle"
                 /\ \/ decision' = [decision EXCEPT ![d] = NoDecision]
                    \/ \E todo : decision' = [decision EXCEPT ![d] =
                                    [decision[d] EXCEPT !.step = "apply", !.todo = todo]]
      BY <3>1 DEF LoadLinkedTasks
    <3>2. CASE LoadLinkedTasks(d) /\ decision' = [decision EXCEPT ![d] = NoDecision]
      BY <1>2, <3>2 DEF NoDecision
    <3>3. CASE LoadLinkedTasks(d)
      <4>1. ASSUME NEW todo, decision' = [decision EXCEPT ![d] =
                                 [decision[d] EXCEPT !.step = "apply", !.todo = todo]]
            PROVE  /\ \A e \in Deciders : e # d => decision'[e] = decision[e]
                   /\ decision'[d].id = decision[d].id
                   /\ decision'[d].verdict = decision[d].verdict
        BY <1>2, <4>1 DEF Decision
      <4> QED BY <3>1, <3>2, <3>3, <4>1
    <3>4. ASSUME NEW t \in Tasks, ApplyDecision(d, t)
          PROVE  /\ \A e \in Deciders : e # d => decision'[e] = decision[e]
                 /\ decision[d].step # "idle"
                 /\ decision'[d].step # "idle" =>
                      decision'[d].id = decision[d].id /\ decision'[d].verdict = decision[d].verdict
      BY <1>2, <3>4 DEF ApplyDecision, NoDecision, Decision
    <3>5. CASE DecisionStops(d)
      BY <1>2, <3>5 DEF DecisionStops, NoDecision
    <3>6. LoadLinkedTasks(d) \/ (\E t \in Tasks : ApplyDecision(d, t)) \/ DecisionStops(d)
      BY <1>4 DEF DecisionStep
    <3>7. CASE \E t \in Tasks : ApplyDecision(d, t)
      BY <3>4, <3>7
    <3> QED BY <3>3, <3>5, <3>6, <3>7
  <2> QED BY <2>1, NobodyDecides
<1>5. \/ UNCHANGED decision
      \/ \E d \in Deciders, i \in Ids, v \in Verdicts : Decide(d, i, v)
      \/ \E d \in Deciders : DecisionStep(d) \/ DecisionStops(d)
  BY DEF ApprovalsNext, AskStep, RequestApproval, AskFromBoard, LockTask, ReuseApproval,
         NonePending, InsertApproval, MoveToReview, AskStops, ExpireApproval, avars, approvalVars
<1>6. CASE UNCHANGED decision
  BY <1>6, NobodyDecides
<1>7. CASE \E d \in Deciders, i \in Ids, v \in Verdicts : Decide(d, i, v)
  BY <1>3, <1>7
<1>8. CASE \E d \in Deciders : DecisionStep(d) \/ DecisionStops(d)
  BY <1>4, <1>8
<1> QED BY <1>5, <1>6, <1>7, <1>8

(***************************************************************************)
(* Of any number of people deciding, and the sweep expiring, one wins, and *)
(* whoever moves the tasks moves them for the verdict that was stored.     *)
(***************************************************************************)
THEOREM OneDeciderAlways == ApprovalsSpec => []SoleDecider
<1>1. RowsInit /\ ApprovalsInit => DecidedInv
  <2> SUFFICES ASSUME RowsInit, ApprovalsInit PROVE DecidedInv
    OBVIOUS
  <2>1. ATypes
    BY ATypesInit
  <2> QED BY <2>1 DEF DecidedInv, SoleDecider, ApprovalsInit, NoDecision
<1>2. DecidedInv /\ [ApprovalsNext]_avars => DecidedInv' BY DecidedStep
<1>3. DecidedInv => SoleDecider BY DEF DecidedInv
<1> QED BY <1>1, <1>2, <1>3, PTL DEF ApprovalsSpec, ApprovalsStart

-----------------------------------------------------------------------------
(***************************************************************************)
(* Why asks cannot deadlock.  A lock belongs to an ask that has not        *)
(* answered yet and wants the task; an ask that is still locking holds an  *)
(* initial segment of its tasks; and the bound on approvals leaves every   *)
(* ask that has not inserted yet an id.                                    *)
(***************************************************************************)
Unanswered == {r \in Slots : ask[r].step \in {"lock", "check", "insert"}}

FreeIds == {i \in Ids : approval[i].status = "unasked"}

LocksAreHeld == \A t \in Tasks : taskLock[t] # None =>
                    taskLock[t] \in Unanswered /\ t \in ask[taskLock[t]].tasks

LocksInOrder == \A r \in Slots : ask[r].step = "lock" =>
    /\ \E t \in ask[r].tasks : taskLock[t] # r
    /\ \A t, u \in ask[r].tasks : u < t /\ taskLock[t] = r => taskLock[u] = r

EnoughIds == Cardinality(Unanswered) <= Cardinality(FreeIds)

LockInv == PendingInv /\ LocksAreHeld /\ LocksInOrder /\ EnoughIds

LEMMA FiniteAsksAndIds == IsFiniteSet(Unanswered) /\ IsFiniteSet(FreeIds)
<1>1. IsFiniteSet(Ids)
  BY ApprovalsAssumption, FS_Interval DEF Ids
<1>2. Unanswered \in SUBSET Slots /\ FreeIds \in SUBSET Ids
  BY DEF Unanswered, FreeIds
<1> QED BY <1>1, <1>2, FS_Subset, ApprovalsAssumption

LEMMA LockInit == ASSUME RowsInit, ApprovalsInit PROVE LockInv
<1>1. PendingInv BY PendingInit
<1>2. Unanswered = {}
  BY DEF ApprovalsInit, Unanswered, NoAsk
<1>3. Cardinality(Unanswered) = 0 /\ Cardinality(FreeIds) \in Nat
  BY <1>2, FiniteAsksAndIds, FS_EmptySet, FS_CardinalityType
<1> QED BY <1>1, <1>3 DEF LockInv, LocksAreHeld, LocksInOrder, EnoughIds, ApprovalsInit, NoAsk

\* An ask that ends, or goes on to move its tasks, leaves no lock behind.
LEMMA LocksReleased ==
    ASSUME ATypes, LocksAreHeld, LocksInOrder, NEW r \in Slots,
           \A t \in Tasks : taskLock'[t] = IF taskLock[t] = r THEN None ELSE taskLock[t],
           \A q \in Slots : q # r => ask'[q] = ask[q],
           ask'[r].step \in {"idle", "move"}
    PROVE  LocksAreHeld' /\ LocksInOrder'
<1> USE ApprovalsAssumption DEF ATypes, ApprovalsTypeOK
<1>1. \A q \in Slots : ask[q].tasks \subseteq Tasks
  BY DEF Ask
<1>2. LocksAreHeld'
  <2> SUFFICES ASSUME NEW t \in Tasks, taskLock'[t] # None
               PROVE  taskLock'[t] \in Unanswered' /\ t \in ask'[taskLock'[t]].tasks
    BY DEF LocksAreHeld
  <2>1. taskLock[t] # None /\ taskLock[t] # r /\ taskLock'[t] = taskLock[t]
    OBVIOUS
  <2>2. taskLock[t] \in Unanswered /\ t \in ask[taskLock[t]].tasks
    BY <2>1 DEF LocksAreHeld
  <2> QED BY <2>1, <2>2 DEF Unanswered
<1>3. LocksInOrder'
  <2> SUFFICES ASSUME NEW q \in Slots, ask'[q].step = "lock"
               PROVE  /\ \E t \in ask'[q].tasks : taskLock'[t] # q
                      /\ \A t, u \in ask'[q].tasks : u < t /\ taskLock'[t] = q => taskLock'[u] = q
    BY DEF LocksInOrder
  <2>1. q # r /\ ask'[q] = ask[q]
    OBVIOUS
  <2>2. \A t \in ask[q].tasks : taskLock'[t] = q <=> taskLock[t] = q
    BY <1>1, <2>1
  <2> QED BY <2>1, <2>2 DEF LocksInOrder
<1> QED BY <1>2, <1>3

LEMMA LocksStep ==
    ASSUME PendingInv, LocksAreHeld, LocksInOrder, [ApprovalsNext]_avars
    PROVE  LocksAreHeld' /\ LocksInOrder'
<1> USE ApprovalsAssumption DEF PendingInv, ATypes, ApprovalsTypeOK
<1>0. \A q \in Slots : ask[q].tasks \subseteq Tasks
  BY DEF Ask
<1>1. ASSUME NEW r \in Slots, NEW S \in SUBSET Tasks, NEW type \in ActionTypes,
             RequestApproval(r, S, type) \/ AskFromBoard(r, S)
      PROVE  LocksAreHeld' /\ LocksInOrder'
  <2>1. /\ S # {} /\ ask[r].step = "idle"
        /\ UNCHANGED taskLock
        /\ \A q \in Slots : q # r => ask'[q] = ask[q]
        /\ ask'[r].step = "lock" /\ ask'[r].tasks = S
    BY <1>1 DEF RequestApproval, AskFromBoard, StartAsk
  <2>2. \A t \in Tasks : taskLock[t] # r
    BY <2>1 DEF LocksAreHeld, Unanswered
  <2>3. LocksAreHeld'
    BY <2>1, <2>2 DEF LocksAreHeld, Unanswered
  <2>4. LocksInOrder'
    BY <2>1, <2>2 DEF LocksInOrder
  <2> QED BY <2>3, <2>4
<1>2. ASSUME NEW r \in Slots, NEW t \in Tasks, LockTask(r, t)
      PROVE  LocksAreHeld' /\ LocksInOrder'
  <2>1. /\ t \in ask[r].tasks /\ ask[r].step = "lock"
        /\ taskLock[t] = None
        /\ \A u \in ask[r].tasks : u < t => taskLock[u] = r
        /\ taskLock' = [taskLock EXCEPT ![t] = r]
    BY <1>2 DEF LockTask, MayLock
  <2>2. /\ \A q \in Slots : ask'[q].tasks = ask[q].tasks
        /\ \A q \in Slots : q # r => ask'[q] = ask[q]
        /\ ask'[r].step \in {"lock", "check"}
        /\ ask'[r].step = "lock" => \E u \in ask[r].tasks : u # t /\ taskLock[u] # r
    BY <1>2 DEF LockTask, Ask
  <2>3. LocksAreHeld'
    BY <2>1, <2>2 DEF LocksAreHeld, Unanswered
  <2>4. \A q \in Slots, u \in Tasks :
            taskLock'[u] = q <=> (taskLock[u] = q \/ (u = t /\ q = r))
    BY <2>1
  <2>5. LocksInOrder'
    <3> SUFFICES ASSUME NEW q \in Slots, ask'[q].step = "lock"
                 PROVE  /\ \E u \in ask[q].tasks : taskLock'[u] # q
                        /\ \A s, u \in ask[q].tasks :
                               u < s /\ taskLock'[s] = q => taskLock'[u] = q
      BY <2>2 DEF LocksInOrder
    <3>1. CASE q = r
      BY <3>1, <1>0, <2>1, <2>2, <2>4 DEF LocksInOrder
    <3>2. CASE q # r
      BY <3>2, <1>0, <2>1, <2>2, <2>4 DEF LocksInOrder
    <3> QED BY <3>1, <3>2
  <2> QED BY <2>3, <2>5
<1>3. ASSUME NEW r \in Slots, ReuseApproval(r) \/ InsertApproval(r) \/ AskStops(r)
      PROVE  LocksAreHeld' /\ LocksInOrder'
  <2>1. ask' = [ask EXCEPT ![r] = NoAsk] \/ \E i \in Ids : Answered(r, i)
    BY <1>3 DEF ReuseApproval, InsertApproval, AskStops, PendingOn
  <2>2. (\A q \in Slots : q # r => ask'[q] = ask[q]) /\ ask'[r].step \in {"idle", "move"}
    <3>1. CASE ask' = [ask EXCEPT ![r] = NoAsk]
      BY <3>1 DEF NoAsk
    <3>2. ASSUME NEW i \in Ids, Answered(r, i)
          PROVE  (\A q \in Slots : q # r => ask'[q] = ask[q]) /\ ask'[r].step \in {"idle", "move"}
      BY <3>2 DEF Answered, Ask, NoAsk
    <3> QED BY <2>1, <3>1, <3>2
  <2>3. ReleaseLocks(r)
    BY <1>3 DEF ReuseApproval, InsertApproval, AskStops
  <2> QED BY <2>2, <2>3, LocksReleased DEF ReleaseLocks
<1>4. ASSUME NEW r \in Slots, MoveToReview(r)
      PROVE  LocksAreHeld' /\ LocksInOrder'
  <2>1. /\ ask[r].step = "move" /\ UNCHANGED taskLock
        /\ \A q \in Slots : q # r => ask'[q] = ask[q]
        /\ ask'[r].step = "idle"
    BY <1>4 DEF MoveToReview, NoAsk
  <2>2. \A t \in Tasks : taskLock[t] # r
    BY <2>1 DEF LocksAreHeld, Unanswered
  <2> QED BY <2>1, <2>2, LocksReleased
<1>5. ASSUME NEW r \in Slots, NonePending(r)
      PROVE  LocksAreHeld' /\ LocksInOrder'
  <2>1. /\ ask[r].step = "check" /\ UNCHANGED taskLock
        /\ \A q \in Slots : q # r => ask'[q] = ask[q]
        /\ ask'[r].step = "insert" /\ ask'[r].tasks = ask[r].tasks
    BY <1>5 DEF NonePending, Ask
  <2> QED BY <2>1 DEF LocksAreHeld, LocksInOrder, Unanswered
<1>6. ASSUME UNCHANGED <<taskLock, ask>> PROVE LocksAreHeld' /\ LocksInOrder'
  BY <1>6 DEF LocksAreHeld, LocksInOrder, Unanswered
<1>7. ASSUME NEW d \in Deciders, NEW i \in Ids, NEW v \in Verdicts, Decide(d, i, v)
      PROVE  LocksAreHeld' /\ LocksInOrder'
  <2>1. UNCHANGED <<taskLock, ask>>
    BY <1>7 DEF Decide
  <2> QED BY <2>1, <1>6
<1>8. ASSUME NEW d \in Deciders, DecisionStep(d) \/ DecisionStops(d)
      PROVE  LocksAreHeld' /\ LocksInOrder'
  <2>1. UNCHANGED <<taskLock, ask>>
    BY <1>8 DEF DecisionStep, LoadLinkedTasks, ApplyDecision, DecisionStops
  <2> QED BY <2>1, <1>6
<1>9. ASSUME NEW i \in Ids, ExpireApproval(i)
      PROVE  LocksAreHeld' /\ LocksInOrder'
  <2>1. UNCHANGED <<taskLock, ask>>
    BY <1>9 DEF ExpireApproval
  <2> QED BY <2>1, <1>6
<1>10. ASSUME UNCHANGED avars PROVE LocksAreHeld' /\ LocksInOrder'
  <2>1. UNCHANGED <<taskLock, ask>>
    BY <1>10 DEF avars, approvalVars
  <2> QED BY <2>1, <1>6
<1>11. ASSUME NEW r \in Slots, AskStep(r) \/ AskStops(r)
       PROVE  LocksAreHeld' /\ LocksInOrder'
  BY <1>2, <1>3, <1>4, <1>5, <1>11 DEF AskStep
<1> HIDE DEF PendingInv, ATypes, ApprovalsTypeOK
<1> QED
  BY <1>1, <1>7, <1>8, <1>9, <1>10, <1>11 DEF ApprovalsNext, ActionTypes

\* A step that uses up no id and lets no ask in leaves enough ids.
LEMMA NoIdTaken ==
    ASSUME EnoughIds, Unanswered' \subseteq Unanswered, FreeIds' = FreeIds
    PROVE  EnoughIds'
<1>1. IsFiniteSet(Unanswered) /\ IsFiniteSet(FreeIds)
  BY FiniteAsksAndIds
<1>2. IsFiniteSet(Unanswered') /\ Cardinality(Unanswered') <= Cardinality(Unanswered)
  BY <1>1, FS_Subset
<1>3. /\ Cardinality(Unanswered) \in Nat /\ Cardinality(FreeIds) \in Nat
      /\ Cardinality(Unanswered') \in Nat
  BY <1>1, <1>2, FS_CardinalityType
<1> QED BY <1>2, <1>3 DEF EnoughIds

LEMMA IdsStep == ASSUME ATypes, EnoughIds, [ApprovalsNext]_avars PROVE EnoughIds'
<1> USE ApprovalsAssumption DEF ATypes, ApprovalsTypeOK
<1>0. /\ IsFiniteSet(Unanswered) /\ IsFiniteSet(FreeIds)
      /\ Cardinality(Unanswered) \in Nat /\ Cardinality(FreeIds) \in Nat
  BY FiniteAsksAndIds, FS_CardinalityType
<1>1. ASSUME NEW r \in Slots, NEW S \in SUBSET Tasks, NEW type \in ActionTypes,
             RequestApproval(r, S, type) \/ AskFromBoard(r, S)
      PROVE  EnoughIds'
  <2>1. /\ IdsLeft /\ UNCHANGED approval
        /\ \A q \in Slots : q # r => ask'[q] = ask[q]
        /\ ask'[r].step = "lock"
    BY <1>1 DEF RequestApproval, AskFromBoard, StartAsk
  <2> DEFINE Busy == {q \in Slots : ask[q].step # "idle"}
  <2>2. Busy \in SUBSET Slots /\ Unanswered \in SUBSET Busy
    BY DEF Unanswered
  <2>3. IsFiniteSet(Busy)
    BY <2>2, FS_Subset
  <2>4. Cardinality(Busy) \in Nat /\ Cardinality(Unanswered) <= Cardinality(Busy)
    BY <2>2, <2>3, FS_Subset, FS_CardinalityType
  <2>5. Cardinality(FreeIds) > Cardinality(Busy) /\ FreeIds' = FreeIds
    BY <2>1 DEF IdsLeft, FreeIds
  <2>6. Unanswered' = Unanswered \cup {r}
    BY <2>1 DEF Unanswered
  <2>7. Cardinality(Unanswered') \in {Cardinality(Unanswered), Cardinality(Unanswered) + 1}
    BY <1>0, <2>6, FS_AddElement
  <2> HIDE DEF Busy
  <2> QED BY <1>0, <2>4, <2>5, <2>7 DEF EnoughIds
<1>2. ASSUME NEW r \in Slots, InsertApproval(r)
      PROVE  EnoughIds'
  <2>1. PICK i \in Ids :
          /\ approval[i].status = "unasked"
          /\ approval' = [approval EXCEPT ![i] =
                [status |-> "pending", type |-> ask[r].type, tasks |-> ask[r].tasks]]
          /\ Answered(r, i)
    BY <1>2 DEF InsertApproval
  <2>2. ask[r].step = "insert"
    BY <1>2 DEF InsertApproval
  <2>3. (\A q \in Slots : q # r => ask'[q] = ask[q]) /\ ask'[r].step \in {"idle", "move"}
    BY <2>1 DEF Answered, Ask, NoAsk
  <2>4. Unanswered' = Unanswered \ {r} /\ r \in Unanswered
    BY <2>2, <2>3 DEF Unanswered
  <2>5. FreeIds' = FreeIds \ {i} /\ i \in FreeIds
    BY <2>1 DEF FreeIds
  <2>6. /\ Cardinality(Unanswered') = Cardinality(Unanswered) - 1
        /\ Cardinality(FreeIds') = Cardinality(FreeIds) - 1
    BY <1>0, <2>4, <2>5, FS_RemoveElement
  <2> QED BY <1>0, <2>6 DEF EnoughIds
<1>3. ASSUME NEW r \in Slots,
             \/ \E t \in Tasks : LockTask(r, t)
             \/ ReuseApproval(r) \/ NonePending(r) \/ MoveToReview(r) \/ AskStops(r)
      PROVE  EnoughIds'
  <2>1. FreeIds' = FreeIds
    BY <1>3 DEF LockTask, ReuseApproval, NonePending, MoveToReview, AskStops, FreeIds
  <2>2. Unanswered' \subseteq Unanswered
    <3>1. CASE \E t \in Tasks : LockTask(r, t)
      BY <3>1 DEF LockTask, Ask, Unanswered
    <3>2. CASE ReuseApproval(r) \/ MoveToReview(r) \/ AskStops(r)
      <4>1. ask' = [ask EXCEPT ![r] = NoAsk] \/ \E i \in Ids : Answered(r, i)
        BY <3>2 DEF ReuseApproval, MoveToReview, AskStops, PendingOn
      <4>2. ASSUME NEW i \in Ids, Answered(r, i)
            PROVE  (\A q \in Slots : q # r => ask'[q] = ask[q]) /\ ask'[r].step \in {"idle", "move"}
        BY <4>2 DEF Answered, Ask, NoAsk
      <4>3. CASE ask' = [ask EXCEPT ![r] = NoAsk]
        BY <4>3 DEF Unanswered, NoAsk
      <4> QED BY <4>1, <4>2, <4>3 DEF Unanswered
    <3>3. CASE NonePending(r)
      BY <3>3 DEF NonePending, Ask, Unanswered
    <3> QED BY <1>3, <3>1, <3>2, <3>3
  <2> QED BY <2>1, <2>2, NoIdTaken
<1>4. ASSUME NEW d \in Deciders, NEW i \in Ids, NEW v \in Verdicts, Decide(d, i, v)
      PROVE  EnoughIds'
  <2>1. approval[i].status = "pending" /\ approval' = [approval EXCEPT ![i].status = v]
    BY <1>4 DEF Decide, Undecided
  <2>2. FreeIds' = FreeIds
    BY <2>1 DEF FreeIds, Verdicts, Approval
  <2>3. Unanswered' = Unanswered
    BY <1>4 DEF Decide, Unanswered
  <2> QED BY <2>2, <2>3, NoIdTaken
<1>5. ASSUME NEW i \in Ids, ExpireApproval(i)
      PROVE  EnoughIds'
  <2>1. approval[i].status = "pending" /\ approval' = [approval EXCEPT ![i].status = "expired"]
    BY <1>5 DEF ExpireApproval, Undecided
  <2>2. FreeIds' = FreeIds
    BY <2>1 DEF FreeIds, Approval
  <2>3. Unanswered' = Unanswered
    BY <1>5 DEF ExpireApproval, Unanswered
  <2> QED BY <2>2, <2>3, NoIdTaken
<1>6. ASSUME NEW d \in Deciders, DecisionStep(d) \/ DecisionStops(d)
      PROVE  EnoughIds'
  <2>1. UNCHANGED <<approval, ask>>
    BY <1>6 DEF DecisionStep, LoadLinkedTasks, ApplyDecision, DecisionStops
  <2> QED BY <2>1, NoIdTaken DEF FreeIds, Unanswered
<1>7. ASSUME UNCHANGED avars PROVE EnoughIds'
  BY <1>7, NoIdTaken DEF avars, approvalVars, FreeIds, Unanswered
<1>8. ASSUME NEW r \in Slots, AskStep(r) \/ AskStops(r)
      PROVE  EnoughIds'
  BY <1>2, <1>3, <1>8 DEF AskStep
<1> HIDE DEF ATypes, ApprovalsTypeOK
<1> QED BY <1>1, <1>4, <1>5, <1>6, <1>7, <1>8 DEF ApprovalsNext, ActionTypes

\* The bound on approvals stops no ask: whoever is about to insert finds an id.
LEMMA InsertFindsAnId ==
    ASSUME LockInv, NEW r \in Slots, ask[r].step = "insert"
    PROVE  \E i \in Ids : approval[i].status = "unasked"
<1>1. SUFFICES ASSUME FreeIds = {} PROVE FALSE
  BY DEF FreeIds
<1>2. r \in Unanswered /\ IsFiniteSet(Unanswered)
  BY FiniteAsksAndIds DEF Unanswered
<1>3. Cardinality(Unanswered) \in Nat /\ Cardinality(Unanswered) # 0
  BY <1>2, FS_EmptySet, FS_CardinalityType
<1> QED BY <1>1, <1>3, FS_EmptySet DEF LockInv, EnoughIds

\* The task an ask that is locking waits for: the least it does not hold.
Wanted(r) == CHOOSE t \in ask[r].tasks :
                 taskLock[t] # r /\ \A u \in ask[r].tasks : u < t => taskLock[u] = r

LEMMA WantedIs ==
    ASSUME LockInv, NEW r \in Slots, ask[r].step = "lock"
    PROVE  /\ Wanted(r) \in ask[r].tasks /\ Wanted(r) \in Nat
           /\ taskLock[Wanted(r)] # r
           /\ \A u \in ask[r].tasks : u < Wanted(r) <=> taskLock[u] = r
<1> DEFINE Q == {t \in ask[r].tasks : taskLock[t] # r}
<1>1. ask[r].tasks \subseteq Nat
  BY TaskRowsAssumption DEF LockInv, PendingInv, ATypes, ApprovalsTypeOK, Ask
<1>2. Q \in SUBSET Nat /\ Q # {}
  BY <1>1 DEF LockInv, LocksInOrder
<1>3. PICK t \in Q : \A u \in Q : t <= u
  BY <1>2, LeastNumber
<1>4. t \in ask[r].tasks /\ taskLock[t] # r /\ \A u \in ask[r].tasks : u < t => taskLock[u] = r
  BY <1>1, <1>3
<1>5. /\ Wanted(r) \in ask[r].tasks
      /\ taskLock[Wanted(r)] # r
      /\ \A u \in ask[r].tasks : u < Wanted(r) => taskLock[u] = r
  BY <1>4 DEF Wanted
<1>6. ASSUME NEW u \in ask[r].tasks, taskLock[u] = r PROVE u < Wanted(r)
  <2>1. ~(Wanted(r) < u)
    BY <1>5, <1>6 DEF LockInv, LocksInOrder
  <2>2. u # Wanted(r)
    BY <1>5, <1>6
  <2> QED BY <1>1, <1>5, <2>1, <2>2
<1> QED BY <1>1, <1>5, <1>6

(***************************************************************************)
(* An ask that has to wait waits for one that wants a greater task: the    *)
(* holder of the wanted task is itself locking, holds an initial segment   *)
(* with that task in it, and so lacks only greater ones.  A chain of asks  *)
(* that wait for each other ends, and the ask at its end can go on.        *)
(***************************************************************************)
LEMMA HolderWantsMore ==
    ASSUME LockInv, \A r \in Slots : ~CanGoOn(r), NEW r \in Slots, ask[r].step = "lock"
    PROVE  \E s \in Slots : ask[s].step = "lock" /\ Wanted(r) < Wanted(s)
<1> DEFINE t == Wanted(r)
           s == taskLock[t]
<1>1. /\ t \in ask[r].tasks /\ t \in Nat /\ t \in Tasks /\ s # r
      /\ \A u \in ask[r].tasks : u < t => taskLock[u] = r
  <2>1. ask[r].tasks \subseteq Tasks
    BY DEF LockInv, PendingInv, ATypes, ApprovalsTypeOK, Ask
  <2> QED BY <2>1, WantedIs
<1>2. s # None
  BY <1>1 DEF CanGoOn, MayLock
<1>3. s \in Slots /\ s \in Unanswered /\ t \in ask[s].tasks
  BY <1>1, <1>2 DEF LockInv, LocksAreHeld, Unanswered
<1>4. ask[s].step \notin {"check", "insert"}
  BY <1>3, InsertFindsAnId DEF CanGoOn
<1>5. ask[s].step = "lock"
  BY <1>3, <1>4 DEF Unanswered
<1> HIDE DEF s
<1>6. t < Wanted(s)
  BY <1>3, <1>5, WantedIs DEF s
<1> QED BY <1>3, <1>5, <1>6

LEMMA SomeAskGoesOn == ASSUME LockInv PROVE AsksGoOn
<1>1. SUFFICES ASSUME NEW r0 \in Slots, ask[r0].step # "idle", \A r \in Slots : ~CanGoOn(r)
               PROVE  FALSE
  BY DEF AsksGoOn
<1> DEFINE W == {r \in Slots : ask[r].step = "lock"}
           Greater(r) == {s \in W : Wanted(r) < Wanted(s)}
           Q == {Cardinality(Greater(r)) : r \in W}
<1>2. r0 \in W
  <2>1. ask[r0].step \in {"lock", "check", "insert", "move"}
    BY <1>1 DEF LockInv, PendingInv, ATypes, ApprovalsTypeOK, Ask
  <2> QED BY <1>1, <2>1, InsertFindsAnId DEF CanGoOn
<1>3. ASSUME NEW r \in W PROVE IsFiniteSet(Greater(r)) /\ Cardinality(Greater(r)) \in Nat
  <2>1. Greater(r) \in SUBSET Slots
    OBVIOUS
  <2> QED BY <2>1, FS_Subset, FS_CardinalityType, ApprovalsAssumption
<1>4. PICK r \in W : \A s \in W : Cardinality(Greater(r)) <= Cardinality(Greater(s))
  <2>1. Q \in SUBSET Nat /\ Q # {}
    BY <1>2, <1>3
  <2>2. PICK n \in Q : \A k \in Q : n <= k
    BY <2>1, LeastNumber
  <2> QED BY <2>2
<1>5. PICK s \in W : Wanted(r) < Wanted(s)
  BY <1>1, <1>4, HolderWantsMore
<1>6. \A q \in W : Wanted(q) \in Nat
  BY WantedIs
<1>7. Greater(s) \in SUBSET Greater(r) /\ s \in Greater(r) /\ s \notin Greater(s)
  BY <1>5, <1>6
<1>8. Cardinality(Greater(s)) < Cardinality(Greater(r))
  <2>1. /\ Cardinality(Greater(s)) <= Cardinality(Greater(r))
        /\ Cardinality(Greater(r)) = Cardinality(Greater(s)) => Greater(r) = Greater(s)
    BY <1>3, <1>7, FS_Subset
  <2>2. Cardinality(Greater(s)) \in Nat /\ Cardinality(Greater(r)) \in Nat
    BY <1>3
  <2> QED BY <1>7, <2>1, <2>2
<1>9. Cardinality(Greater(s)) \in Nat /\ Cardinality(Greater(r)) \in Nat
  BY <1>3
<1> HIDE DEF Greater, W
<1> QED BY <1>4, <1>8, <1>9

(***************************************************************************)
(* Asks never deadlock on the per-task locks: in every state with an ask   *)
(* in flight, one of them can go on, however many asks there are and       *)
(* whatever tasks they share.                                              *)
(***************************************************************************)
THEOREM AsksNeverDeadlock == ApprovalsSpec => []AsksGoOn
<1>1. RowsInit /\ ApprovalsInit => LockInv BY LockInit
<1>2. LockInv /\ [ApprovalsNext]_avars => LockInv'
  <2> SUFFICES ASSUME LockInv, [ApprovalsNext]_avars PROVE LockInv'
    OBVIOUS
  <2>1. ATypes /\ PendingInv
    BY DEF LockInv, PendingInv
  <2>2. PendingInv'
    BY <2>1, PendingStep
  <2>3. LocksAreHeld' /\ LocksInOrder'
    BY <2>1, LocksStep DEF LockInv
  <2>4. EnoughIds'
    BY <2>1, IdsStep DEF LockInv
  <2> QED BY <2>2, <2>3, <2>4 DEF LockInv
<1>3. LockInv => AsksGoOn BY SomeAskGoesOn
<1> QED BY <1>1, <1>2, <1>3, PTL DEF ApprovalsSpec, ApprovalsStart
=============================================================================
