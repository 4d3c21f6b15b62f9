------------------------ MODULE RuntimeHosts_proofs -------------------------
(***************************************************************************)
(* Proofs about RuntimeHosts, for any number of jobs, dispatches and       *)
(* attempts, and any mix of faults and requests.                           *)
(***************************************************************************)
EXTENDS RuntimeHosts, LeastNumber_proofs, FiniteSetTheorems, TLAPS

\* The frames of a set of jobs can be put in a sequence.
LEMMA SequenceOf ==
    ASSUME NEW S, IsFiniteSet(S)
    PROVE  Cardinality(S) \in Nat /\ SetToSeq(S) \in [1..Cardinality(S) -> S]
<1>1. Cardinality(S) \in Nat /\ ExistsBijection(1..Cardinality(S), S)
  BY FS_CardinalityType
<1>2. \E f \in [1..Cardinality(S) -> S] : IsInjective(f)
  BY <1>1 DEF ExistsBijection, Bijection, Injection
<1> QED BY <1>1, <1>2 DEF SetToSeq

-----------------------------------------------------------------------------
(***************************************************************************)
(* Types.  They are inductive together with three facts: both ends agree   *)
(* on whether a connection is up and the welcome is on its way at most     *)
(* once, so what a session reads after it are jobs; a job that waits has   *)
(* an attempt left; and a claim has a job to claim.                        *)
(***************************************************************************)
Handshake ==
    /\ session = "off" <=> sock = "none"
    /\ session = "on" => sock \in {"greeted", "ready"}
    /\ \A i \in DOMAIN toHost : toHost[i].job = 0 =>
           /\ session = "hello" /\ sock \in {"greeted", "ready"}
           /\ \A k \in DOMAIN toHost : toHost[k].job = 0 => k = i

AttemptsLeft == \A j \in Jobs : job[j].status = "queued" /\ job[j].command # "remove" =>
                    job[j].attempts < MaxAttempts

ClaimsAJob == \A d \in Dispatches : dispatch[d].step = "claim" => dispatch[d].job # 0

LinkInv == LinkTypeOK /\ Handshake
JobsInv == JobsTypeOK /\ AttemptsLeft /\ ClaimsAJob

LEMMA SaysType ==
    ASSUME NEW j \in Jobs, NEW kind \in {"ack", "busy", "refused", "progress", "ok", "failed"}
    PROVE  Says(kind, j) \in FrameToServer
BY HostAssumption DEF Says, FrameToServer, NoToken

LEMMA ClosedKeepsLink ==
    ASSUME NEW held \in BOOLEAN, Closed(held), live' \subseteq Jobs \X Nat, left' \subseteq Kinds
    PROVE  LinkInv'
BY DEF Closed, LinkInv, LinkTypeOK, Handshake, NothingReported

\* One more command for the host.
LEMMA SentJobKeepsLink ==
    ASSUME LinkInv, NEW f \in FrameToHost, f.job # 0, toHost' = Append(toHost, f),
           UNCHANGED <<session, sock, old, reported, toServer>>,
           live' \subseteq Jobs \X Nat, left' \subseteq Kinds
    PROVE  LinkInv'
<1>1. LinkTypeOK'
  BY DEF LinkInv, LinkTypeOK
<1>2. Handshake'
  BY DEF LinkInv, LinkTypeOK, Handshake
<1> QED BY <1>1, <1>2 DEF LinkInv

\* A frame the host took from the socket, during a session.
LEMMA ReceivedKeepsLink ==
    ASSUME LinkInv, session = "on", toHost # <<>>, toHost' = Tail(toHost),
           NEW new \in Seq(FrameToServer), toServer' = toServer \o new,
           UNCHANGED <<session, sock, old, reported, live>>, left' \subseteq Kinds
    PROVE  LinkInv'
<1>1. LinkTypeOK'
  BY DEF LinkInv, LinkTypeOK
<1>2. Handshake'
  BY DEF LinkInv, LinkTypeOK, Handshake
<1> QED BY <1>1, <1>2 DEF LinkInv

\* Frames the host sent; nothing else of the link changes.
LEMMA SaidKeepsLink ==
    ASSUME LinkInv, NEW new \in Seq(FrameToServer), Sends(new),
           UNCHANGED <<session, sock, old, reported, toHost, live>>, left' \subseteq Kinds
    PROVE  LinkInv'
<1>1. toServer' \in Seq(FrameToServer)
  BY DEF LinkInv, LinkTypeOK, Sends
<1> QED BY <1>1 DEF LinkInv, LinkTypeOK, Handshake

\* A step that leaves the link alone, save for the tokens and the events left.
LEMMA LinkUnchanged ==
    ASSUME LinkInv, UNCHANGED linkVars, live' \subseteq Jobs \X Nat, left' \subseteq Kinds
    PROVE  LinkInv'
BY DEF LinkInv, LinkTypeOK, Handshake, linkVars

\* What the jobs have to be; the other variables of the server are of small types.
JobRowsInv ==
    /\ job \in [Jobs -> Job]
    /\ \A j \in Jobs : job[j].command # "remove" => job[j].attempts <= MaxAttempts
    /\ AttemptsLeft

\* The end of a job, and back to the queue what may still be sent.
LEMMA StatusKeepsRows ==
    ASSUME JobRowsInv, job' \in [Jobs -> Job],
           \A j \in Jobs : /\ job'[j].command = job[j].command
                           /\ job'[j].attempts = job[j].attempts
                           /\ \/ job'[j].status # "queued" \/ job[j].command = "remove"
                              \/ job'[j].status = job[j].status
                              \/ job[j].attempts < MaxAttempts
    PROVE  JobRowsInv'
BY DEF JobRowsInv, AttemptsLeft

LEMMA MoveKeepsRows ==
    ASSUME JobRowsInv, NEW j, NEW status \in Open \cup Ended \cup {"none"},
           job' = [job EXCEPT ![j].status = status],
           \/ status # "queued" \/ job[j].command = "remove" \/ job[j].attempts < MaxAttempts
    PROVE  JobRowsInv'
<1>1. job' \in [Jobs -> Job]
  BY DEF JobRowsInv, Job
<1>2. CASE j \in Jobs
  BY <1>1, <1>2, StatusKeepsRows DEF JobRowsInv, Job
<1>3. CASE j \notin Jobs
  BY <1>1, <1>3, StatusKeepsRows DEF JobRowsInv
<1> QED BY <1>2, <1>3

LEMMA AgainOrFailedType ==
    ASSUME JobRowsInv, NEW j \in Jobs
    PROVE  /\ AgainOrFailed(j) \in {"queued", "failed"}
           /\ AgainOrFailed(j) = "queued" => job[j].attempts < MaxAttempts
BY DEF AgainOrFailed

LEMMA QueueKeepsRows ==
    ASSUME JobRowsInv, NEW j, NEW command \in Commands, job' = [job EXCEPT ![j] = Queued(command)]
    PROVE  JobRowsInv'
<1>1. Queued(command) \in Job
  BY DEF Queued, NoJob, Job, Open, Active, Ended, Commands
<1>2. Queued(command).attempts = 0
  BY DEF Queued, NoJob
<1>3. MaxAttempts \in Nat /\ 0 <= MaxAttempts /\ 0 < MaxAttempts
  BY HostAssumption
<1>4. \A k \in Jobs : job'[k] = job[k] \/ job'[k] = Queued(command)
  BY DEF JobRowsInv
<1>5. job' \in [Jobs -> Job]
  BY <1>1 DEF JobRowsInv
<1>6. \A k \in Jobs : job'[k].command # "remove" => job'[k].attempts <= MaxAttempts
  BY <1>2, <1>3, <1>4 DEF JobRowsInv
<1>7. AttemptsLeft'
  BY <1>2, <1>3, <1>4 DEF JobRowsInv, AttemptsLeft
<1> QED BY <1>5, <1>6, <1>7 DEF JobRowsInv

\* Tokens only go.
LEMMA SettledType ==
    ASSUME live \subseteq Jobs \X Nat, NEW ends, NEW token PROVE Settled(ends, token) \subseteq Jobs \X Nat
BY DEF Settled

LEMMA MovesType ==
    ASSUME live \subseteq Jobs \X Nat, NEW j, NEW status, NEW token, Moves(j, status, token)
    PROVE  live' \subseteq Jobs \X Nat
BY SettledType DEF Moves

LEMMA SpendType == ASSUME left \subseteq Kinds, NEW k, Spend(k) PROVE left' \subseteq Kinds
BY DEF Spend

\* A step that changes jobs only, and tokens and events.
LEMMA RowsOnly ==
    ASSUME LinkInv, JobsInv, JobRowsInv', UNCHANGED linkVars,
           live' \subseteq Jobs \X Nat, left' \subseteq Kinds,
           UNCHANGED <<hostLock, dispatch>>, deleted' \in BOOLEAN, revoked' \in BOOLEAN,
           request' \in {"none", "retryRevoke", "retryQueue", "restartQueue", "redoQueue"},
           removal' \in {"none", "cancel", "check", "queue"}
    PROVE  LinkInv' /\ JobsInv'
<1>1. LinkInv' BY LinkUnchanged
<1>2. JobsInv' BY DEF JobsInv, JobsTypeOK, JobRowsInv, ClaimsAJob
<1> QED BY <1>1, <1>2

\* A step of the socket's handlers that leaves the jobs alone.
LEMMA LinkOnly ==
    ASSUME JobsInv, UNCHANGED jobVars PROVE JobsInv'
BY DEF JobsInv, JobsTypeOK, AttemptsLeft, ClaimsAJob, jobVars

LEMMA NextJobType == NextJob \in Jobs \cup {0}
<1>1. CASE With({"queued"}) # {}
  <2>1. \E j \in With({"queued"}) : \A k \in With({"queued"}) : j <= k
    <3>1. With({"queued"}) \in SUBSET Nat
      BY DEF With, Jobs
    <3> QED BY <1>1, <3>1, LeastNumber
  <2> QED BY <2>1 DEF NextJob, With
<1> QED BY <1>1 DEF NextJob

LEMMA InvRows == JobsInv => JobRowsInv
BY DEF JobsInv, JobsTypeOK, JobRowsInv

LEMMA ServerInit ==
    ASSUME NEW s \in Scenarios, LinkInit(s.begins, s.may), JobsInit(s.begins)
    PROVE  LinkInv /\ JobsInv
<1>1. s \in Scenario
  BY HostAssumption
<1>2. 1 \in Jobs /\ FirstToken \in Jobs \X Nat
  BY HostAssumption DEF Jobs, FirstToken
<1>3. LinkInv
  <2>1. live \subseteq Jobs \X Nat /\ left \subseteq Kinds
    BY <1>1, <1>2 DEF LinkInit, Scenario
  <2>2. LinkTypeOK
    <3>1. reported \in [Jobs -> {"unknown", "running", "done"}]
      BY DEF LinkInit
    <3>2. toHost \in Seq(FrameToHost) /\ toServer \in Seq(FrameToServer)
      BY DEF LinkInit
    <3>3. session \in {"off", "hello", "on"} /\ old \in BOOLEAN
          /\ sock \in {"none", "upgraded", "hello", "greeted", "ready"}
      BY DEF LinkInit
    <3> QED BY <2>1, <3>1, <3>2, <3>3 DEF LinkTypeOK
  <2>3. Handshake
    BY DEF LinkInit, Handshake
  <2> QED BY <2>2, <2>3 DEF LinkInv
<1>4. MaxAttempts \in Nat /\ 0 <= MaxAttempts /\ 0 < MaxAttempts /\ 1 <= MaxAttempts
  BY HostAssumption
<1>5. JobRowsInv
  <2>1. NoJob \in Job /\ NoJob.attempts = 0 /\ NoJob.status = "none"
    BY DEF NoJob, Job, Open, Active, Ended, Commands
  <2>2. Queued("provision") \in Job /\ Queued("provision").attempts = 0
    BY DEF Queued, NoJob, Job, Open, Active, Ended, Commands
  <2> DEFINE first(status) == [Queued("provision") EXCEPT !.attempts = 1, !.minted = 1, !.status = status]
  <2>3. ASSUME NEW status \in {"succeeded", "failed"}
        PROVE  first(status) \in Job /\ first(status).attempts = 1 /\ first(status).status # "queued"
    BY <2>2 DEF Job, Open, Active, Ended
  <2>4. \A j \in Jobs : \/ job[j] = NoJob \/ job[j] = Queued("provision")
                        \/ job[j] = first("succeeded") \/ job[j] = first("failed")
    <3> SUFFICES ASSUME NEW j \in Jobs, j = 1, s.begins # "hired"
                 PROVE  job[j] = first("succeeded") \/ job[j] = first("failed")
      BY DEF JobsInit
    <3>1. CASE s.begins = "setUp"
      BY <3>1 DEF JobsInit
    <3>2. CASE s.begins # "setUp"
      BY <3>2 DEF JobsInit
    <3> QED BY <3>1, <3>2
  <2> HIDE DEF first
  <2>5. job \in [Jobs -> Job]
    BY <2>1, <2>2, <2>3, <2>4 DEF JobsInit
  <2>6. \A j \in Jobs : job[j].attempts <= MaxAttempts
    BY <1>4, <2>1, <2>2, <2>3, <2>4
  <2>7. AttemptsLeft
    BY <1>4, <2>1, <2>2, <2>3, <2>4 DEF AttemptsLeft
  <2> QED BY <2>5, <2>6, <2>7 DEF JobRowsInv
<1>6. JobsInv
  <2>1. NoDispatch \in Dispatch /\ NoDispatch.step = "idle"
    BY HostAssumption DEF NoDispatch, Dispatch
  <2> QED BY <1>5, <2>1 DEF JobsInit, JobRowsInv, JobsInv, JobsTypeOK, ClaimsAJob
<1> QED BY <1>3, <1>6

LEMMA SelectKeeps == ASSUME LinkInv, JobsInv, NEW d \in Dispatches, Select(d) PROVE LinkInv' /\ JobsInv'
<1>1. left' \subseteq Kinds
  BY SpendType DEF Select, LinkInv, LinkTypeOK
<1>2. LinkInv'
  BY <1>1, LinkUnchanged DEF Select, LinkInv, LinkTypeOK
<1>3. NextJob \in Jobs /\ NextJob # 0
  BY NextJobType DEF Select
<1>4. PICK via \in {"old", "new"}, short \in BOOLEAN :
         dispatch' = [dispatch EXCEPT ![d] = [step |-> "claim", job |-> NextJob,
                                              via |-> via, short |-> short]]
  BY DEF Select
<1>5. [step |-> "claim", job |-> NextJob, via |-> via, short |-> short] \in Dispatch
  BY <1>3 DEF Dispatch, Jobs
<1>6. dispatch' \in [Dispatches -> Dispatch] /\ ClaimsAJob'
  BY <1>3, <1>4, <1>5 DEF JobsInv, JobsTypeOK, ClaimsAJob
<1>7. JobsInv'
  BY <1>6 DEF Select, JobsInv, JobsTypeOK, AttemptsLeft
<1> QED BY <1>2, <1>7

LEMMA ClaimKeeps == ASSUME LinkInv, JobsInv, NEW d \in Dispatches, Claim(d) PROVE LinkInv' /\ JobsInv'
<1> DEFINE j == dispatch[d].job
           setup == job[j].command = "provision"
           attempt == job[j].attempts + 1
           token == IF setup THEN <<j, attempt>> ELSE NoToken
           waits == job[j].status = "queued"
<1>1. j \in Jobs /\ j # 0 /\ job[j] \in Job /\ dispatch[d].via \in {"old", "new"}
  BY DEF Claim, JobsInv, JobsTypeOK, ClaimsAJob, Dispatch, Jobs
<1>2. attempt \in Nat
  BY <1>1 DEF Job
<1>3. token \in (0..MaxJobs) \X Nat /\ (setup => token \in Jobs \X Nat)
  BY <1>1, <1>2, HostAssumption DEF NoToken, Jobs
<1>4. dispatch' \in [Dispatches -> Dispatch] /\ ClaimsAJob'
  <2>1. NoDispatch \in Dispatch /\ NoDispatch.step = "idle"
    BY HostAssumption DEF NoDispatch, Dispatch
  <2> QED BY <2>1 DEF Claim, JobsInv, JobsTypeOK, ClaimsAJob
<1>5. JobRowsInv'
  <2>0. JobRowsInv
    BY InvRows
  <2>1. CASE setup /\ (~MayBeSetUp \/ dispatch[d].short)
    <3>1. \E status \in {job[j].status, "canceled", "failed"} :
             /\ job' = [job EXCEPT ![j].status = status]
             /\ status = "queued" => job[j].status = "queued"
      BY <2>1 DEF Claim
    <3>2. PICK status \in {job[j].status, "canceled", "failed"} :
             /\ job' = [job EXCEPT ![j].status = status]
             /\ status = "queued" => job[j].status = "queued"
      BY <3>1
    <3>3. status \in Open \cup Ended \cup {"none"}
      BY <1>1, <3>2 DEF Job, Ended
    <3>4. \/ status # "queued" \/ job[j].command = "remove" \/ job[j].attempts < MaxAttempts
      BY <1>1, <2>0, <3>2 DEF JobRowsInv, AttemptsLeft
    <3> QED BY <2>0, <3>2, <3>3, <3>4, MoveKeepsRows
  <2>2. CASE waits /\ ~(setup /\ (~MayBeSetUp \/ dispatch[d].short))
    <3>1. PICK minted \in {attempt, 0} :
            job' = [job EXCEPT ![j].status = "sent", ![j].attempts = attempt, ![j].minted = minted]
      BY <2>2 DEF Claim
    <3>2. /\ job'[j] \in Job /\ job'[j].status = "sent" /\ job'[j].attempts = attempt
          /\ job'[j].command = job[j].command
      BY <1>1, <1>2, <3>1 DEF Job, Open, Active, JobsInv, JobsTypeOK
    <3>3. \A k \in Jobs \ {j} : job'[k] = job[k]
      BY <3>1 DEF JobsInv, JobsTypeOK
    <3>4. job[j].command # "remove" => attempt <= MaxAttempts
      <4>1. job[j].command # "remove" => job[j].attempts < MaxAttempts
        BY <1>1, <2>0, <2>2 DEF JobRowsInv, AttemptsLeft
      <4>2. job[j].attempts \in Nat /\ MaxAttempts \in Nat
        BY <1>1, HostAssumption DEF Job
      <4> QED BY <4>1, <4>2
    <3>5. job' \in [Jobs -> Job]
      BY <3>1, <3>2, <3>3 DEF JobsInv, JobsTypeOK
    <3>6. \A k \in Jobs : job'[k].command # "remove" => job'[k].attempts <= MaxAttempts
      BY <2>0, <3>2, <3>3, <3>4 DEF JobRowsInv
    <3>7. AttemptsLeft'
      BY <2>0, <3>2, <3>3 DEF JobRowsInv, AttemptsLeft
    <3> QED BY <3>5, <3>6, <3>7 DEF JobRowsInv
  <2>3. CASE ~waits /\ ~(setup /\ (~MayBeSetUp \/ dispatch[d].short))
    <3>1. job' = job
      BY <2>3 DEF Claim
    <3> QED BY <2>0, <3>1 DEF JobRowsInv, AttemptsLeft
  <2> QED BY <2>1, <2>2, <2>3
<1>6. JobsInv'
  BY <1>4, <1>5 DEF Claim, JobsInv, JobsTypeOK, JobRowsInv
<1>7. live' \subseteq Jobs \X Nat
  BY <1>3 DEF Claim, LinkInv, LinkTypeOK
<1>8. LinkInv'
  <2>1. CASE toHost' = toHost
    BY <1>7, <2>1, LinkUnchanged DEF Claim, linkVars, LinkInv, LinkTypeOK
  <2>2. CASE toHost' = Append(toHost, CommandFrame(j, token))
    <3>1. CommandFrame(j, token) \in FrameToHost /\ CommandFrame(j, token).job # 0
      BY <1>1, <1>3 DEF CommandFrame, FrameToHost, Job, Jobs
    <3> QED BY <1>7, <2>2, <3>1, SentJobKeepsLink DEF Claim, LinkInv, LinkTypeOK
  <2> QED BY <2>1, <2>2 DEF Claim
<1> QED BY <1>6, <1>8

LEMMA GreetKeeps == ASSUME LinkInv, Greet PROVE LinkInv'
<1>1. session = "hello"
  BY DEF Greet, LinkInv, LinkTypeOK, Handshake
<1>2. Welcome \in FrameToHost
  BY HostAssumption DEF Welcome, FrameToHost, NoToken
<1>3. LinkTypeOK'
  BY <1>2 DEF Greet, LinkInv, LinkTypeOK
<1>4. \A i \in DOMAIN toHost : toHost[i].job # 0
  BY DEF Greet, LinkInv, Handshake
<1>5. Handshake'
  BY <1>1, <1>2, <1>4 DEF Greet, LinkInv, LinkTypeOK, Handshake
<1> QED BY <1>3, <1>5 DEF LinkInv

LEMMA ReconcileKeeps == ASSUME LinkInv, JobsInv, Reconcile PROVE LinkInv' /\ JobsInv'
<1> DEFINE open == With(Active)
           status(j) == IF reported[j] = "unknown"
                        THEN IF job[j].status = "sent" THEN AgainOrFailed(j) ELSE "lost"
                        ELSE IF reported[j] = "running" THEN "running" ELSE job[j].status
           again == {j \in open : reported[j] = "done"}
           sent == [i \in 1..Cardinality(again) |-> CommandFrame(SetToSeq(again)[i], NoToken)]
<1>1. JobRowsInv
  BY InvRows
<1>2. \A j \in open : status(j) \in Open \cup Ended \cup {"none"}
                      /\ (status(j) = "queued" => job[j].attempts < MaxAttempts)
  <2> SUFFICES ASSUME NEW j \in open
               PROVE  status(j) \in Open \cup Ended \cup {"none"}
                      /\ (status(j) = "queued" => job[j].attempts < MaxAttempts)
    OBVIOUS
  <2>1. j \in Jobs /\ job[j].status \in Active
    BY DEF With
  <2> QED BY <1>1, <2>1, AgainOrFailedType DEF Open, Ended, Active
<1> HIDE DEF status
<1>3. job' = [j \in Jobs |-> IF j \in open THEN [job[j] EXCEPT !.status = status(j)] ELSE job[j]]
  BY DEF Reconcile, status
<1>4. JobRowsInv'
  <2>1. \A j \in Jobs : job[j] \in Job
    BY <1>1 DEF JobRowsInv
  <2>2. \A j \in open : /\ [job[j] EXCEPT !.status = status(j)] \in Job
                        /\ [job[j] EXCEPT !.status = status(j)].status = status(j)
                        /\ [job[j] EXCEPT !.status = status(j)].command = job[j].command
                        /\ [job[j] EXCEPT !.status = status(j)].attempts = job[j].attempts
    BY <1>2, <2>1 DEF Job, With
  <2>3. job' \in [Jobs -> Job]
    BY <1>3, <2>1, <2>2
  <2>4. \A j \in Jobs : /\ job'[j].command = job[j].command
                        /\ job'[j].attempts = job[j].attempts
                        /\ \/ job'[j].status # "queued" \/ job[j].command = "remove"
                           \/ job'[j].status = job[j].status
                           \/ job[j].attempts < MaxAttempts
    BY <1>2, <1>3, <2>2
  <2> QED BY <1>1, <2>3, <2>4, StatusKeepsRows
<1>5. JobsInv'
  BY <1>4 DEF Reconcile, JobsInv, JobsTypeOK, JobRowsInv, ClaimsAJob
<1>6. live' \subseteq Jobs \X Nat
  BY SettledType DEF Reconcile, LinkInv, LinkTypeOK
<1>7. sent \in Seq(FrameToHost) /\ \A i \in DOMAIN sent : sent[i].job # 0
  <2>1. IsFiniteSet(again)
    <3>1. IsFiniteSet(Jobs)
      BY FS_Interval, HostAssumption DEF Jobs
    <3> QED BY <3>1, FS_Subset DEF With
  <2>2. Cardinality(again) \in Nat /\ SetToSeq(again) \in [1..Cardinality(again) -> again]
    BY <2>1, SequenceOf
  <2>3. ASSUME NEW j \in again
        PROVE  CommandFrame(j, NoToken) \in FrameToHost /\ CommandFrame(j, NoToken).job # 0
    <3>1. j \in Jobs /\ job[j].command \in Commands
      BY <1>1 DEF JobRowsInv, Job, With
    <3> QED BY <3>1, HostAssumption DEF CommandFrame, FrameToHost, Jobs, NoToken
  <2> DEFINE n == Cardinality(again)
  <2>4. \A i \in 1..n : SetToSeq(again)[i] \in again
    BY <2>2
  <2>5. \A i \in 1..n : sent[i] \in FrameToHost /\ sent[i].job # 0
    BY <2>3, <2>4
  <2>6. sent = [i \in 1..n |-> sent[i]]
    OBVIOUS
  <2>7. n \in Nat
    BY <2>2
  <2> HIDE DEF sent, n
  <2>8. sent \in [1..n -> FrameToHost] /\ DOMAIN sent = 1..n
    BY <2>5, <2>6
  <2>9. sent \in Seq(FrameToHost)
    BY <2>7, <2>8
  <2> QED BY <2>5, <2>8, <2>9
<1> HIDE DEF sent
<1>8. toHost' = toHost \o sent /\ sock = "greeted" /\ sock' = "ready"
  BY DEF Reconcile, sent
<1>9. LinkTypeOK'
  <2>1. toHost' \in Seq(FrameToHost)
    BY <1>7, <1>8 DEF LinkInv, LinkTypeOK
  <2> QED BY <1>6, <2>1 DEF Reconcile, LinkInv, LinkTypeOK, NothingReported
<1>10. Handshake'
  <2>1. \A i \in DOMAIN toHost' : toHost'[i].job = 0 => i \in DOMAIN toHost /\ toHost'[i] = toHost[i]
    BY <1>7, <1>8 DEF LinkInv, LinkTypeOK
  <2>2. session' = session /\ (session = "off" => sock = "none")
    BY DEF Reconcile, LinkInv, Handshake
  <2> QED BY <1>8, <2>1, <2>2 DEF LinkInv, Handshake
<1> QED BY <1>5, <1>9, <1>10 DEF LinkInv

LEMMA HandleFrameKeeps == ASSUME LinkInv, JobsInv, HandleFrame PROVE LinkInv' /\ JobsInv'
<1> DEFINE frame == Head(toServer)
           status == AfterFrame(frame)
<1>1. frame \in FrameToServer /\ frame.job \in Jobs /\ toServer' \in Seq(FrameToServer)
  <2>1. frame \in FrameToServer /\ toServer' \in Seq(FrameToServer)
    <3>1. toServer \in Seq(FrameToServer)
      BY DEF LinkInv, LinkTypeOK
    <3>2. toServer # <<>> /\ toServer' = Tail(toServer)
      BY DEF HandleFrame
    <3> QED BY <3>1, <3>2
  <2> QED BY <2>1 DEF FrameToServer
<1>2. JobRowsInv
  BY InvRows
<1>3. CASE status = ""
  <2>1. LinkInv'
    BY <1>1, <1>3 DEF HandleFrame, LinkInv, LinkTypeOK, Handshake
  <2>2. JobsInv'
    BY <1>3 DEF HandleFrame, JobsInv, JobsTypeOK, AttemptsLeft, ClaimsAJob
  <2> QED BY <2>1, <2>2
<1>4. CASE status # ""
  <2>1. status \in {"running", "queued", "failed", "succeeded"}
    BY <1>1, <1>2, <1>4, AgainOrFailedType DEF AfterFrame
  <2>2. status = "queued" => job[frame.job].attempts < MaxAttempts
    BY <1>1, <1>2, AgainOrFailedType DEF AfterFrame
  <2>3. Moves(frame.job, status, frame.token)
    BY <1>4 DEF HandleFrame
  <2>4. JobRowsInv'
    <3> HIDE DEF status, frame
    <3>1. status \in Open \cup Ended \cup {"none"}
      BY <2>1 DEF Open, Active, Ended
    <3> QED BY <1>2, <2>2, <2>3, <3>1, MoveKeepsRows DEF Moves
  <2>5. live' \subseteq Jobs \X Nat
    BY <2>3, MovesType DEF LinkInv, LinkTypeOK
  <2>6. LinkInv'
    BY <1>1, <2>5 DEF HandleFrame, LinkInv, LinkTypeOK, Handshake
  <2>7. JobsInv'
    BY <2>4 DEF HandleFrame, JobsInv, JobsTypeOK, JobRowsInv, ClaimsAJob
  <2> QED BY <2>6, <2>7
<1> QED BY <1>3, <1>4

LEMMA ServerKeeps ==
    ASSUME LinkInv, JobsInv, ServerStep \/ ServerEvent
    PROVE  LinkInv' /\ JobsInv'
<1>1. JobRowsInv
  BY InvRows
<1>2. live \subseteq Jobs \X Nat /\ left \subseteq Kinds
  BY DEF LinkInv, LinkTypeOK
<1>3. ASSUME NEW d \in Dispatches, Select(d) \/ Claim(d) PROVE LinkInv' /\ JobsInv'
  BY <1>3, SelectKeeps, ClaimKeeps
<1>4. CASE RecordHello
  <2>1. JobsInv'
    BY <1>4, LinkOnly DEF RecordHello
  <2>2. LinkInv'
    <3>1. CASE revoked
      <4>1. old \in BOOLEAN
        BY DEF LinkInv, LinkTypeOK
      <4> QED BY <1>2, <1>4, <3>1, <4>1, ClosedKeepsLink DEF RecordHello
    <3>2. CASE ~revoked
      BY <1>4, <3>2 DEF RecordHello, LinkInv, LinkTypeOK, Handshake
    <3> QED BY <3>1, <3>2
  <2> QED BY <2>1, <2>2
<1>5. CASE Greet
  BY <1>5, GreetKeeps, LinkOnly DEF Greet
<1>6. CASE Reconcile
  BY <1>6, ReconcileKeeps
<1>7. CASE HandleFrame
  BY <1>7, HandleFrameKeeps
<1>8. CASE OldSocketCloses
  <2>1. LinkInv'
    BY <1>8 DEF OldSocketCloses, LinkInv, LinkTypeOK, Handshake
  <2> QED BY <1>8, <2>1, LinkOnly DEF OldSocketCloses
<1>9. CASE CloseRevoked
  BY <1>2, <1>9, ClosedKeepsLink, LinkOnly DEF CloseRevoked
<1>10. ASSUME NEW j, NEW status \in Open \cup Ended,
              \/ status # "queued" \/ job[j].command = "remove" \/ job[j].attempts < MaxAttempts,
              Moves(j, status, NoToken), UNCHANGED left \/ \E k \in Kinds : Spend(k),
              UNCHANGED <<linkVars, deleted, revoked, removal, hostLock, dispatch, request>>
       PROVE  LinkInv' /\ JobsInv'
  <2>1. JobRowsInv'
    BY <1>1, <1>10, MoveKeepsRows DEF Moves
  <2>2. live' \subseteq Jobs \X Nat
    BY <1>2, <1>10, MovesType
  <2>3. left' \subseteq Kinds
    BY <1>2, <1>10, SpendType
  <2> QED BY <1>10, <2>1, <2>2, <2>3, RowsOnly DEF JobsInv, JobsTypeOK
<1>11. ASSUME NEW j \in Jobs,
              AckTimeout(j) \/ DeadlinePassed(j) \/ HostLost(j) \/ Expire(j) \/ CancelRemoval(j)
       PROVE  LinkInv' /\ JobsInv'
  <2>1. AgainOrFailed(j) \in {"queued", "failed"}
        /\ (AgainOrFailed(j) = "queued" => job[j].attempts < MaxAttempts)
    BY <1>1, AgainOrFailedType
  <2>2. CASE AckTimeout(j)
    BY <1>10, <2>1, <2>2 DEF AckTimeout, SweepMoves, Open, Ended
  <2>3. CASE DeadlinePassed(j)
    BY <1>10, <2>3 DEF DeadlinePassed, SweepMoves, Ended
  <2>4. CASE HostLost(j)
    BY <1>10, <2>4 DEF HostLost, SweepMoves, Open, Ended, Kinds
  <2>5. CASE Expire(j)
    BY <1>10, <2>5 DEF Expire, SweepMoves, Ended, Kinds
  <2>6. CASE CancelRemoval(j)
    BY <1>10, <2>6 DEF CancelRemoval, Ended, Kinds
  <2> QED BY <1>11, <2>2, <2>3, <2>4, <2>5, <2>6
<1>12. ASSUME UNCHANGED <<linkVars, job, hostLock, dispatch>>, live' \subseteq live,
              UNCHANGED left \/ \E k \in Kinds : Spend(k),
              deleted' \in BOOLEAN, revoked' \in BOOLEAN,
              request' \in {"none", "retryRevoke", "retryQueue", "restartQueue", "redoQueue"},
              removal' \in {"none", "cancel", "check", "queue"}
       PROVE  LinkInv' /\ JobsInv'
  <2>1. JobRowsInv'
    BY <1>1, <1>12 DEF JobRowsInv, AttemptsLeft
  <2>2. left' \subseteq Kinds
    BY <1>2, <1>12, SpendType
  <2> QED BY <1>2, <1>12, <2>1, <2>2, RowsOnly
<1>13. CASE RevokeOrphans \/ RetryRevoke \/ CheckHost
  BY <1>12, <1>13 DEF RevokeOrphans, RetryRevoke, CheckHost, jobVars, JobsInv, JobsTypeOK
<1>14. CASE RetryCheck \/ RestartCheck \/ RedoCheck \/ DeleteAgent
  BY <1>12, <1>14 DEF RetryCheck, RestartCheck, RedoCheck, RequestBegins, DeleteAgent, Kinds,
                      JobsInv, JobsTypeOK
<1>15. ASSUME NEW command \in Commands, job' = [job EXCEPT ![NextRow] = Queued(command)],
              UNCHANGED <<linkVars, live, left, deleted, revoked, hostLock, dispatch>>,
              request' \in {"none", request}, removal' \in {"none", removal}
       PROVE  LinkInv' /\ JobsInv'
  <2>1. JobRowsInv'
    BY <1>1, <1>15, QueueKeepsRows
  <2> QED BY <1>2, <1>15, <2>1, RowsOnly DEF JobsInv, JobsTypeOK
<1>16. CASE RetryQueue \/ RestartQueue \/ RedoQueue \/ QueueRemoval
  BY <1>15, <1>16 DEF RetryQueue, RestartQueue, RedoQueue, Queues, QueueRemoval, Commands
<1>17. ASSUME NEW S \in SUBSET Jobs, NEW ends, live' = Settled(ends, NoToken),
              job' = [j \in Jobs |-> IF j \in S THEN [job[j] EXCEPT !.status = "canceled"] ELSE job[j]],
              UNCHANGED <<linkVars, hostLock, dispatch, deleted, request>>,
              left' \subseteq Kinds, revoked' \in BOOLEAN, removal' \in {"check", removal}
       PROVE  LinkInv' /\ JobsInv'
  <2>1. \A j \in Jobs : job[j] \in Job
    BY <1>1 DEF JobRowsInv
  <2>2. \A j \in Jobs : /\ [job[j] EXCEPT !.status = "canceled"] \in Job
                        /\ [job[j] EXCEPT !.status = "canceled"].status = "canceled"
                        /\ [job[j] EXCEPT !.status = "canceled"].command = job[j].command
                        /\ [job[j] EXCEPT !.status = "canceled"].attempts = job[j].attempts
    BY <2>1 DEF Job, Ended
  <2>3. JobRowsInv'
    <3>1. job' \in [Jobs -> Job]
      BY <1>17, <2>1, <2>2
    <3> QED BY <1>1, <1>17, <2>2, <3>1, StatusKeepsRows
  <2>4. live' \subseteq Jobs \X Nat
    BY <1>2, <1>17, SettledType
  <2> QED BY <1>17, <2>3, <2>4, RowsOnly DEF JobsInv, JobsTypeOK
<1>18. CASE CancelQueued
  <2>1. {j \in With({"queued"}) : job[j].command # "remove"} \in SUBSET Jobs
    BY DEF With
  <2> QED BY <1>2, <1>17, <1>18, <2>1 DEF CancelQueued, JobsInv, JobsTypeOK
<1>19. CASE Revoke
  <2>1. With(Open) \in SUBSET Jobs
    BY DEF With
  <2>2. left' \subseteq Kinds
    BY <1>2, <1>19, SpendType DEF Revoke
  <2> QED BY <1>17, <1>19, <2>1, <2>2 DEF Revoke
<1> QED BY <1>3, <1>4, <1>5, <1>6, <1>7, <1>8, <1>9, <1>11, <1>13, <1>14, <1>16, <1>18, <1>19
        DEF ServerStep, ServerEvent

-----------------------------------------------------------------------------
\* What a session reads is a command for a job.
LEMMA CommandReceived ==
    ASSUME LinkInv, Receives(Head(toHost))
    PROVE  /\ Head(toHost) \in FrameToHost
           /\ Head(toHost).job \in Jobs
           /\ session = "on" /\ toHost # <<>> /\ toHost' = Tail(toHost) /\ awaited = 0
<1>1. toHost \in Seq(FrameToHost) /\ toHost # <<>> /\ session = "on"
  BY DEF Receives, LinkInv, LinkTypeOK
<1>2. Head(toHost) \in FrameToHost /\ Head(toHost) = toHost[1] /\ 1 \in DOMAIN toHost
  BY <1>1
<1>3. Head(toHost).job # 0
  BY <1>1, <1>2 DEF LinkInv, Handshake
<1>4. Head(toHost).job \in Jobs
  BY <1>2, <1>3 DEF FrameToHost, Welcome
<1> QED BY <1>1, <1>2, <1>4 DEF Receives

LEMMA FileFields ==
    ASSUME NEW f \in File, NEW state \in {"none", "running", "done", "lost", "corrupt", "tombstone"},
           NEW ok \in BOOLEAN
    PROVE  /\ [f EXCEPT !.state = state] \in File
           /\ [f EXCEPT !.state = state].state = state
           /\ [f EXCEPT !.state = state, !.ok = ok] \in File
           /\ [f EXCEPT !.state = state, !.ok = ok].state = state
BY DEF File

LEMMA ResultFrameType ==
    ASSUME NEW j \in Jobs, NEW f \in File PROVE ResultFrame(j, f) \in FrameToServer
<1>1. Says("ok", j) \in FrameToServer /\ Says("failed", j) \in FrameToServer
  BY SaysType
<1>2. [Says("ok", j) EXCEPT !.token = f.token] \in FrameToServer
  BY <1>1 DEF FrameToServer, File
<1> QED BY <1>1, <1>2 DEF ResultFrame

LEMMA DaemonInitType ==
    ASSUME NEW s \in Scenarios, DaemonInit(s.begins) PROVE DaemonTypeOK
<1>1. NoToken \in (0..MaxJobs) \X Nat /\ FirstToken \in (0..MaxJobs) \X Nat
  BY HostAssumption DEF NoToken, FirstToken
<1>2. NoFile \in File
  BY <1>1 DEF NoFile, File, Commands
<1>3. [state |-> "done", command |-> "provision", ok |-> TRUE, token |-> FirstToken] \in File
  BY <1>1 DEF File, Commands
<1>4. file \in [Jobs -> File]
  BY <1>2, <1>3 DEF DaemonInit
<1>5. profile \in [state: {"none", "made", "installed"}, token: (0..MaxJobs) \X Nat]
  BY <1>1 DEF DaemonInit, NoProfile
<1>6. /\ unit \in [Jobs -> {"none", "active", "wrote", "ok", "failed", "gone"}]
      /\ discard \in [Jobs -> {"none", "runs", "done", "failed"}]
      /\ starts \in [Jobs -> Nat] /\ cuts \in [Jobs -> Nat]
  BY DEF DaemonInit
<1> QED BY <1>4, <1>5, <1>6 DEF DaemonInit, DaemonTypeOK

LEMMA ConnectKeeps == ASSUME LinkInv, Connect PROVE LinkInv'
<1>1. reported' \in [Jobs -> {"unknown", "running", "done"}]
  BY DEF Connect, Reportable
<1>2. \A i \in DOMAIN toHost : toHost[i].job # 0
  BY DEF Connect, LinkInv, Handshake
<1>3. LinkTypeOK'
  BY <1>1 DEF Connect, LinkInv, LinkTypeOK
<1>4. Handshake'
  BY <1>2 DEF Connect, Handshake
<1> QED BY <1>3, <1>4 DEF LinkInv

LEMMA BeginSessionKeeps == ASSUME LinkInv, DaemonTypeOK, BeginSession PROVE LinkInv'
<1>1. live \subseteq Jobs \X Nat /\ left \subseteq Kinds /\ toHost \in Seq(FrameToHost)
      /\ toServer \in Seq(FrameToServer) /\ old \in BOOLEAN
  BY DEF LinkInv, LinkTypeOK
<1>2. CASE Head(toHost) # Welcome
  BY <1>1, <1>2, ClosedKeepsLink DEF BeginSession
<1>3. CASE Head(toHost) = Welcome
  <2>1. toHost # <<>> /\ toHost[1].job = 0 /\ 1 \in DOMAIN toHost
    BY <1>1, <1>3 DEF BeginSession, Welcome
  <2>2. \A i \in DOMAIN Tail(toHost) : Tail(toHost)[i].job # 0
    BY <1>1, <2>1 DEF LinkInv, Handshake
  <2>3. left' \subseteq Kinds
    BY <1>1, <1>3, SpendType DEF BeginSession
  <2>4. toServer' \in Seq(FrameToServer)
    <3>1. \A j \in Jobs : Append(toServer, Says("progress", j)) \in Seq(FrameToServer)
      BY <1>1, SaysType
    <3>2. toServer' = toServer \/ \E j \in Jobs : toServer' = Append(toServer, Says("progress", j))
      BY <1>3 DEF BeginSession
    <3> QED BY <1>1, <3>1, <3>2
  <2>5. toHost' = Tail(toHost) /\ session' = "on" /\ UNCHANGED <<sock, old, reported, live>>
    BY <1>3 DEF BeginSession
  <2>6. LinkTypeOK'
    BY <1>1, <2>1, <2>3, <2>4, <2>5 DEF LinkInv, LinkTypeOK
  <2>7. Handshake'
    BY <2>1, <2>2, <2>5 DEF LinkInv, Handshake
  <2> QED BY <2>6, <2>7 DEF LinkInv
<1> QED BY <1>2, <1>3

LEMMA BreaksKeep == ASSUME LinkInv, DaemonTypeOK, LinkBreaks \/ Crash PROVE LinkInv' /\ DaemonTypeOK'
<1>1. left' \subseteq Kinds
  BY SpendType DEF LinkBreaks, Crash, LinkInv, LinkTypeOK
<1>2. PICK held \in BOOLEAN : Closed(held)
  BY DEF LinkBreaks, Crash, LinkInv, LinkTypeOK, HelloDone
<1>3. LinkInv'
  BY <1>1, <1>2, ClosedKeepsLink DEF LinkBreaks, Crash, LinkInv, LinkTypeOK
<1>4. cuts' \in [Jobs -> Nat] /\ discard' \in [Jobs -> {"none", "runs", "done", "failed"}]
  <2>1. \A j \in Jobs : (IF Pending(j) THEN cuts[j] + 1 ELSE cuts[j]) \in Nat
    BY DEF DaemonTypeOK
  <2>2. cuts' = [j \in Jobs |-> IF Pending(j) THEN cuts[j] + 1 ELSE cuts[j]]
    BY DEF LinkBreaks, Crash, StopsWaiting
  <2>3. cuts' \in [Jobs -> Nat]
    BY <2>1, <2>2
  <2>4. PICK threads : discard' = [j \in Jobs |-> IF discard[j] \in threads THEN discard[j] ELSE "none"]
    BY DEF LinkBreaks, Crash, StopsWaiting
  <2>5. discard' \in [Jobs -> {"none", "runs", "done", "failed"}]
    BY <2>4 DEF DaemonTypeOK
  <2> QED BY <2>3, <2>5
<1>5. DaemonTypeOK'
  BY <1>4 DEF LinkBreaks, Crash, StopsWaiting, DaemonTypeOK
<1> QED BY <1>3, <1>5

LEMMA ReplayKeeps == ASSUME LinkInv, DaemonTypeOK, ReplayKnown PROVE LinkInv' /\ DaemonTypeOK'
<1> DEFINE frame == Head(toHost)
           j == frame.job
           new == <<Says("ack", j)>> \o (IF file[j].state = "running" THEN <<>>
                                          ELSE <<ResultFrame(j, file[j])>>)
<1>1. Receives(frame) /\ Sends(new)
  BY DEF ReplayKnown
<1>2. j \in Jobs /\ session = "on" /\ toHost # <<>> /\ toHost' = Tail(toHost)
  BY <1>1, CommandReceived
<1>3. file[j] \in File
  BY <1>2 DEF DaemonTypeOK
<1>4. new \in Seq(FrameToServer)
  BY <1>2, <1>3, SaysType, ResultFrameType
<1>5. LinkInv'
  <2> HIDE DEF new
  <2>1. toServer' = toServer \o new
    BY <1>1, <1>2 DEF Sends
  <2> QED BY <1>2, <1>4, <2>1, ReceivedKeepsLink DEF ReplayKnown, LinkInv, LinkTypeOK
<1>6. file' \in [Jobs -> File]
  <2>1. AfterReport(file[j].state) \in {"none", "running", "done", "lost", "corrupt", "tombstone"}
    BY <1>3 DEF AfterReport, File
  <2>2. [file[j] EXCEPT !.state = AfterReport(file[j].state)] \in File
    BY <1>3, <2>1, FileFields
  <2>3. file' = [file EXCEPT ![j] = [file[j] EXCEPT !.state = AfterReport(file[j].state)]]
    BY <1>2 DEF ReplayKnown, DaemonTypeOK
  <2> QED BY <2>2, <2>3 DEF DaemonTypeOK
<1>7. DaemonTypeOK'
  BY <1>6 DEF ReplayKnown, removalVars, DaemonTypeOK
<1> QED BY <1>5, <1>7

LEMMA DeclineKeeps == ASSUME LinkInv, DaemonTypeOK, Decline PROVE LinkInv' /\ DaemonTypeOK'
<1> DEFINE j == Head(toHost).job
<1>1. Receives(Head(toHost))
  BY DEF Decline
<1>2. j \in Jobs /\ session = "on" /\ toHost # <<>> /\ toHost' = Tail(toHost)
  BY <1>1, CommandReceived
<1>3. PICK f \in {Says("busy", j), Says("refused", j)} : Sends(<<f>>)
  BY DEF Decline
<1>4. <<f>> \in Seq(FrameToServer)
  BY <1>2, <1>3, SaysType
<1>5. left' \subseteq Kinds
  BY SpendType DEF Decline, LinkInv, LinkTypeOK
<1>6. toServer' = toServer \o <<f>>
  BY <1>2, <1>3 DEF Sends
<1>7. LinkInv'
  BY <1>2, <1>4, <1>5, <1>6, ReceivedKeepsLink DEF Decline
<1>8. DaemonTypeOK'
  BY DEF Decline, daemonVars, DaemonTypeOK
<1> QED BY <1>7, <1>8

LEMMA BeginDiscardKeeps == ASSUME LinkInv, DaemonTypeOK, BeginDiscard PROVE LinkInv' /\ DaemonTypeOK'
<1> DEFINE j == Head(toHost).job
<1>1. Receives(Head(toHost))
  BY DEF BeginDiscard, Accepts
<1>2. j \in Jobs /\ session = "on" /\ toHost # <<>> /\ toHost' = Tail(toHost)
  BY <1>1, CommandReceived
<1>3. LinkInv'
  <2>1. <<>> \in Seq(FrameToServer) /\ toServer' = toServer \o <<>>
    BY DEF BeginDiscard, LinkInv, LinkTypeOK
  <2> QED BY <1>2, <2>1, ReceivedKeepsLink DEF BeginDiscard, LinkInv, LinkTypeOK
<1>4. /\ awaited' \in Jobs /\ starts' \in [Jobs -> Nat]
      /\ discard' \in [Jobs -> {"none", "runs", "done", "failed"}]
  BY <1>2 DEF BeginDiscard, DaemonTypeOK
<1>5. DaemonTypeOK'
  BY <1>4 DEF BeginDiscard, DaemonTypeOK
<1> QED BY <1>3, <1>5

LEMMA EndDiscardKeeps ==
    ASSUME LinkInv, DaemonTypeOK, NEW j \in Jobs, EndDiscard(j) PROVE LinkInv' /\ DaemonTypeOK'
<1>1. left' \subseteq Kinds
  BY SpendType DEF EndDiscard, LinkInv, LinkTypeOK
<1>2. LinkInv'
  BY <1>1, LinkUnchanged DEF EndDiscard, LinkInv, LinkTypeOK
<1>3. NoToken \in (0..MaxJobs) \X Nat
  BY HostAssumption DEF NoToken
<1>4. profile' \in [state: {"none", "made", "installed"}, token: (0..MaxJobs) \X Nat]
  BY <1>3 DEF EndDiscard, NoProfile, DaemonTypeOK
<1>5. discard' \in [Jobs -> {"none", "runs", "done", "failed"}]
  BY DEF EndDiscard, DaemonTypeOK
<1>6. DaemonTypeOK'
  BY <1>4, <1>5 DEF EndDiscard, DaemonTypeOK
<1> QED BY <1>2, <1>6

LEMMA RecordDiscardKeeps == ASSUME LinkInv, DaemonTypeOK, RecordDiscard PROVE LinkInv' /\ DaemonTypeOK'
<1> DEFINE j == awaited
           done == [state |-> "done", command |-> "remove", ok |-> discard[j] = "done", token |-> NoToken]
           new == <<Says("ack", j), ResultFrame(j, done)>>
<1>1. j \in Jobs /\ Sends(new)
  BY DEF RecordDiscard, DaemonTypeOK
<1>2. done \in File
  <2>1. NoToken \in (0..MaxJobs) \X Nat
    BY HostAssumption DEF NoToken
  <2> QED BY <2>1 DEF File, Commands
<1>3. new \in Seq(FrameToServer)
  BY <1>1, <1>2, SaysType, ResultFrameType
<1>4. LinkInv'
  <2> HIDE DEF new
  <2> QED BY <1>1, <1>3, SaidKeepsLink DEF RecordDiscard, LinkInv, LinkTypeOK
<1>5. file' \in [Jobs -> File]
  <2>1. file' = [file EXCEPT ![j] = done]
    BY DEF RecordDiscard
  <2> HIDE DEF done
  <2> QED BY <1>2, <2>1 DEF DaemonTypeOK
<1>6. discard' \in [Jobs -> {"none", "runs", "done", "failed"}]
  BY DEF RecordDiscard, DaemonTypeOK
<1>7. DaemonTypeOK'
  BY <1>5, <1>6 DEF RecordDiscard, DaemonTypeOK
<1> QED BY <1>4, <1>7

LEMMA SaveRecordKeeps == ASSUME LinkInv, DaemonTypeOK, SaveRecord PROVE LinkInv' /\ DaemonTypeOK'
<1> DEFINE frame == Head(toHost)
           j == frame.job
           record == [state |-> "running", command |-> frame.command, ok |-> FALSE, token |-> frame.token]
<1>1. Receives(frame)
  BY DEF SaveRecord, Accepts
<1>2. /\ frame \in FrameToHost /\ j \in Jobs /\ awaited = 0
      /\ session = "on" /\ toHost # <<>> /\ toHost' = Tail(toHost)
  BY <1>1, CommandReceived
<1>3. record \in File
  <2>1. frame.command \in Commands /\ frame.token \in (0..MaxJobs) \X Nat
    BY <1>2 DEF FrameToHost, Welcome, Jobs
  <2> QED BY <2>1 DEF File
<1>4. LinkInv'
  <2>1. <<>> \in Seq(FrameToServer) /\ toServer' = toServer \o <<>>
    BY DEF SaveRecord, LinkInv, LinkTypeOK
  <2> QED BY <1>2, <2>1, ReceivedKeepsLink DEF SaveRecord, LinkInv, LinkTypeOK
<1>5. file' \in [Jobs -> File]
  BY <1>3 DEF SaveRecord, DaemonTypeOK
<1>6. starting' \subseteq Jobs /\ awaited' \in Jobs
  BY <1>2 DEF SaveRecord, DaemonTypeOK
<1>7. DaemonTypeOK'
  BY <1>5, <1>6 DEF SaveRecord, removalVars, DaemonTypeOK
<1> QED BY <1>4, <1>7

LEMMA StartUnitKeeps ==
    ASSUME LinkInv, DaemonTypeOK, NEW j \in Jobs, StartUnit(j) PROVE LinkInv' /\ DaemonTypeOK'
<1>1. Says("ack", j) \in FrameToServer /\ Says("failed", j) \in FrameToServer
  BY SaysType
<1>2. PICK new \in Seq(FrameToServer) : Sends(new)
  <2>1. toServer \in Seq(FrameToServer)
    BY DEF LinkInv, LinkTypeOK
  <2>2. <<>> \in Seq(FrameToServer) /\ <<Says("ack", j)>> \in Seq(FrameToServer)
        /\ <<Says("ack", j), Says("failed", j)>> \in Seq(FrameToServer)
    BY <1>1
  <2>3. toServer' = toServer => Sends(<<>>)
    BY <2>1 DEF Sends
  <2>4. toServer' = toServer \/ Sends(<<Says("ack", j)>>) \/ Sends(<<Says("ack", j), Says("failed", j)>>)
    BY DEF StartUnit
  <2> QED BY <2>2, <2>3, <2>4
<1>3. left' \subseteq Kinds
  BY SpendType DEF StartUnit, LinkInv, LinkTypeOK
<1>4. LinkInv'
  BY <1>2, <1>3, SaidKeepsLink DEF StartUnit
<1>5. file' \in [Jobs -> File]
  <2>1. [file[j] EXCEPT !.state = "done"] \in File /\ [file[j] EXCEPT !.state = "lost"] \in File
    BY FileFields DEF DaemonTypeOK
  <2>2. \/ file' = file \/ file' = [file EXCEPT ![j] = [file[j] EXCEPT !.state = "done"]]
        \/ file' = [file EXCEPT ![j] = [file[j] EXCEPT !.state = "lost"]]
    BY DEF StartUnit, DaemonTypeOK
  <2> QED BY <2>1, <2>2 DEF DaemonTypeOK
<1>6. unit' \in [Jobs -> {"none", "active", "wrote", "ok", "failed", "gone"}] /\ starts' \in [Jobs -> Nat]
  <2>1. unit' = unit \/ unit' = [unit EXCEPT ![j] = "failed"] \/ unit' = [unit EXCEPT ![j] = "active"]
    BY DEF StartUnit, Started
  <2>2. starts' = starts \/ starts' = [starts EXCEPT ![j] = starts[j] + 1]
    BY DEF StartUnit, Started, DaemonTypeOK
  <2>3. unit' \in [Jobs -> {"none", "active", "wrote", "ok", "failed", "gone"}]
    BY <2>1 DEF DaemonTypeOK
  <2>4. starts \in [Jobs -> Nat] /\ starts[j] + 1 \in Nat
    BY DEF DaemonTypeOK
  <2>5. starts' \in [Jobs -> Nat]
    BY <2>2, <2>4
  <2> QED BY <2>3, <2>5
<1>7. starting' \subseteq Jobs /\ awaited' \in Jobs \cup {0}
  BY DEF StartUnit, DaemonTypeOK
<1>8. DaemonTypeOK'
  BY <1>5, <1>6, <1>7 DEF StartUnit, removalVars, DaemonTypeOK
<1> QED BY <1>4, <1>8

\* A step of a unit.
LEMMA UnitKeeps ==
    ASSUME LinkInv, DaemonTypeOK, NEW j \in Jobs,
           WriteProfile(j) \/ UnitSucceeds(j) \/ UnitFails(j) \/ UnitDies(j)
    PROVE  LinkInv' /\ DaemonTypeOK'
<1>1. PICK state \in {"wrote", "ok", "failed", "gone"} : UnitMoves(j, state)
  BY DEF WriteProfile, UnitSucceeds, UnitFails, UnitDies
<1>2. left' \subseteq Kinds
  BY SpendType DEF WriteProfile, UnitSucceeds, UnitFails, UnitDies, LinkInv, LinkTypeOK
<1>3. LinkInv'
  BY <1>1, <1>2, LinkUnchanged DEF UnitMoves, LinkInv, LinkTypeOK
<1>4. NoToken \in (0..MaxJobs) \X Nat /\ file[j].token \in (0..MaxJobs) \X Nat
  <2>1. file[j] \in File
    BY DEF DaemonTypeOK
  <2> QED BY <2>1, HostAssumption DEF NoToken, File
<1>5. profile' \in [state: {"none", "made", "installed"}, token: (0..MaxJobs) \X Nat]
  BY <1>4 DEF WriteProfile, UnitSucceeds, UnitFails, UnitDies, HalfDone, NoProfile, DaemonTypeOK
<1>6. DaemonTypeOK'
  BY <1>1, <1>5 DEF UnitMoves, removalVars, DaemonTypeOK
<1> QED BY <1>3, <1>6

\* The monitor's last word on a job.
LEMMA FinishKeeps ==
    ASSUME LinkInv, DaemonTypeOK, NEW j \in Jobs, NEW f \in File, Finish(j, f), left' \subseteq Kinds
    PROVE  LinkInv' /\ file' \in [Jobs -> File]
<1>1. ResultFrame(j, f) \in FrameToServer
  BY ResultFrameType
<1>2. <<ResultFrame(j, f)>> \in Seq(FrameToServer)
  BY <1>1
<1>3. LinkInv'
  BY <1>2, SaidKeepsLink DEF Finish
<1> QED BY <1>3 DEF Finish, DaemonTypeOK

LEMMA MonitorKeeps ==
    ASSUME LinkInv, DaemonTypeOK, NEW j \in Jobs, Poll(j) \/ PollDeadline(j) \/ PollMissing(j)
    PROVE  LinkInv' /\ DaemonTypeOK'
<1>1. left' \subseteq Kinds
  BY SpendType DEF Poll, PollDeadline, PollMissing, LinkInv, LinkTypeOK
<1>2. file[j] \in File
  BY DEF DaemonTypeOK
<1>3. PICK f \in File : Finish(j, f)
  <2>1. /\ [file[j] EXCEPT !.state = "done", !.ok = unit[j] = "ok"] \in File
        /\ [file[j] EXCEPT !.state = "done"] \in File /\ [file[j] EXCEPT !.state = "lost"] \in File
    BY <1>2 DEF File
  <2> QED BY <2>1 DEF Poll, PollDeadline, PollMissing
<1>4. LinkInv' /\ file' \in [Jobs -> File]
  BY <1>1, <1>3, FinishKeeps
<1>5. /\ unit' \in [Jobs -> {"none", "active", "wrote", "ok", "failed", "gone"}]
      /\ profile' \in [state: {"none", "made", "installed"}, token: (0..MaxJobs) \X Nat]
  BY HostAssumption DEF Poll, PollDeadline, PollMissing, HalfDone, NoToken, DaemonTypeOK
<1>6. DaemonTypeOK'
  BY <1>3, <1>4, <1>5 DEF Finish, removalVars, DaemonTypeOK
<1> QED BY <1>4, <1>6

LEMMA HostKeeps ==
    ASSUME LinkInv, DaemonTypeOK, HostConnects \/ HostStep \/ HostFault
    PROVE  LinkInv' /\ DaemonTypeOK'
<1>1. CASE HostConnects
  BY <1>1, ConnectKeeps DEF HostConnects, Connect, daemonVars, DaemonTypeOK
<1>2. CASE BeginSession
  BY <1>2, BeginSessionKeeps DEF BeginSession, daemonVars, DaemonTypeOK
<1>3. CASE LinkBreaks \/ Crash
  BY <1>3, BreaksKeep
<1>4. ASSUME NEW j \in Jobs, CorruptRecord(j) PROVE LinkInv' /\ DaemonTypeOK'
  <2>1. [file[j] EXCEPT !.state = "corrupt"] \in File
    BY FileFields DEF DaemonTypeOK
  <2>2. file' = [file EXCEPT ![j] = [file[j] EXCEPT !.state = "corrupt"]]
    BY <1>4 DEF CorruptRecord, DaemonTypeOK
  <2>3. DaemonTypeOK'
    BY <1>4, <2>1, <2>2 DEF CorruptRecord, removalVars, DaemonTypeOK
  <2>4. left' \subseteq Kinds
    BY <1>4, SpendType DEF CorruptRecord, LinkInv, LinkTypeOK
  <2>5. LinkInv'
    BY <1>4, <2>4, LinkUnchanged DEF CorruptRecord, LinkInv, LinkTypeOK
  <2> QED BY <2>3, <2>5
<1> QED
  BY <1>1, <1>2, <1>3, <1>4, ReplayKeeps, DeclineKeeps, BeginDiscardKeeps, EndDiscardKeeps,
     RecordDiscardKeeps, SaveRecordKeeps, StartUnitKeeps, UnitKeeps, MonitorKeeps
     DEF HostStep, HostFault

HostTypes == LinkInv /\ JobsInv /\ DaemonTypeOK

LEMMA HostTypesInit == Init => HostTypes
BY ServerInit, DaemonInitType DEF Init, HostTypes

LEMMA HostTypesStep == HostTypes /\ [Next]_vars => HostTypes'
<1> SUFFICES ASSUME HostTypes, [Next]_vars PROVE HostTypes'
  OBVIOUS
<1>1. CASE (ServerStep \/ ServerEvent) /\ UNCHANGED daemonVars
  <2>1. DaemonTypeOK'
    BY <1>1 DEF HostTypes, DaemonTypeOK, daemonVars
  <2> QED BY <1>1, <2>1, ServerKeeps DEF HostTypes
<1>2. CASE (HostConnects \/ HostStep \/ HostFault) /\ UNCHANGED jobVars
  BY <1>2, HostKeeps, LinkOnly DEF HostTypes
<1>3. CASE UNCHANGED vars
  <2>1. DaemonTypeOK'
    BY <1>3 DEF HostTypes, DaemonTypeOK, daemonVars, vars
  <2>2. LinkInv'
    BY <1>3, LinkUnchanged DEF HostTypes, LinkInv, LinkTypeOK, vars
  <2> QED BY <1>3, <2>1, <2>2, LinkOnly DEF HostTypes, vars
<1> QED BY <1>1, <1>2, <1>3 DEF Next

(***************************************************************************)
(* Type correctness of the jobs of a host, on both sides of its socket: in *)
(* particular no job but a removal is sent more often than MaxAttempts.    *)
(***************************************************************************)
THEOREM HostTypeCorrect == Spec => []TypeOK
<1>1. HostTypes => TypeOK
  BY DEF HostTypes, LinkInv, JobsInv, TypeOK
<1> QED BY <1>1, HostTypesInit, HostTypesStep, PTL DEF Spec

-----------------------------------------------------------------------------
(***************************************************************************)
(* Why a job runs once, and two jobs never together: the record comes      *)
(* before the unit and never goes.  A job without one was begun as often   *)
(* as its removal was cut short, and once more if the session still waits  *)
(* for it; a job being started did not run before; and whatever runs or is *)
(* about to has the one record that says "running", unless it is one that  *)
(* the daemon recorded as ended or cannot read.                            *)
(***************************************************************************)
Begun(j) == cuts[j] + IF Pending(j) THEN 1 ELSE 0

UnknownUntouched == \A j \in Jobs : file[j].state = "none" =>
                        starts[j] = Begun(j) /\ unit[j] = "none" /\ j \notin starting

StartingIsNew == \A j \in starting : starts[j] = cuts[j] /\ unit[j] = "none"

WorkIsRecorded == \A j \in Jobs : Runs(j) \/ j \in starting =>
                      Outlived(j) \/ file[j].state = "running"

OneRecordRuns == \A i, j \in Jobs : file[i].state = "running" /\ file[j].state = "running" => i = j

UnitInv == UnknownUntouched /\ StartingIsNew /\ WorkIsRecorded /\ OneRecordRuns /\ RunsOnce

LEMMA UnitInit == Init => UnitInv
<1> SUFFICES ASSUME NEW s \in Scenarios, DaemonInit(s.begins) PROVE UnitInv
  BY DEF Init
<1>1. \A j \in Jobs : /\ file[j].state \in {"none", "done"}
                      /\ file[j].state = "none" => starts[j] = 0 /\ unit[j] = "none"
                      /\ unit[j] \in {"none", "ok"} /\ starts[j] \in {0, 1} /\ cuts[j] = 0
  BY DEF DaemonInit, NoFile
<1>2. starting = {} /\ \A j \in Jobs : ~Pending(j)
  BY DEF DaemonInit, Pending, Jobs
<1> QED BY <1>1, <1>2 DEF UnitInv, UnknownUntouched, StartingIsNew, WorkIsRecorded, OneRecordRuns,
                          RunsOnce, Runs, Outlived, Begun

\* A step about one job, whose record stays if it has one; the session waits for no other job.
LEMMA OneJobMoves ==
    ASSUME UnitInv, DaemonTypeOK, DaemonTypeOK', NEW j \in Jobs, UNCHANGED cuts,
           \A k \in Jobs \ {j} : /\ file'[k].state = file[k].state /\ unit'[k] = unit[k]
                                 /\ starts'[k] = starts[k] /\ (k \in starting' => k \in starting),
           awaited' = awaited \/ (awaited \in {0, j} /\ awaited' \in {0, j}),
           file'[j].state = "none" => /\ file[j].state = "none" /\ unit'[j] = unit[j]
                                      /\ starts'[j] = starts[j] /\ j \notin starting'
                                      /\ awaited' = awaited,
           j \in starting' => starts'[j] = cuts[j] /\ unit'[j] = "none",
           Runs(j)' \/ j \in starting' => Outlived(j)' \/ file'[j].state = "running",
           file'[j].state = "running" => file[j].state = "running" \/ ~Busy,
           starts'[j] <= 1 + cuts[j]
    PROVE  UnitInv'
<1>1. UnknownUntouched'
  <2>1. \A k \in Jobs : file'[k].state = "none" => file[k].state = "none" /\ (Pending(k)' <=> Pending(k))
    BY DEF Pending, Jobs
  <2>2. \A k \in Jobs : file'[k].state = "none" => Begun(k)' = Begun(k)
    BY <2>1 DEF Begun
  <2> QED BY <2>1, <2>2 DEF UnitInv, UnknownUntouched
<1>2. StartingIsNew'
  BY DEF UnitInv, StartingIsNew, DaemonTypeOK
<1>3. WorkIsRecorded'
  <2> SUFFICES ASSUME NEW k \in Jobs, k # j, Runs(k)' \/ k \in starting'
               PROVE  Outlived(k)' \/ file'[k].state = "running"
    BY DEF WorkIsRecorded
  <2>1. Outlived(k) \/ file[k].state = "running"
    BY DEF UnitInv, WorkIsRecorded, Runs
  <2> QED BY <2>1 DEF Outlived
<1>4. OneRecordRuns'
  BY DEF UnitInv, OneRecordRuns, Busy
<1>5. RunsOnce'
  BY DEF UnitInv, RunsOnce
<1> QED BY <1>1, <1>2, <1>3, <1>4, <1>5 DEF UnitInv

\* A step that starts nothing and leaves records, units and counts alone.
LEMMA NothingStarts ==
    ASSUME UnitInv, DaemonTypeOK, UNCHANGED <<file, unit, starts, awaited, cuts>>, starting' \subseteq starting
    PROVE  UnitInv'
<1>1. \A j \in Jobs : Begun(j)' = Begun(j)
  BY DEF Begun, Pending
<1> QED BY <1>1 DEF UnitInv, UnknownUntouched, StartingIsNew, WorkIsRecorded, OneRecordRuns, RunsOnce,
                    Runs, Outlived, DaemonTypeOK

\* The session ends: a removal it waited for is cut short.
LEMMA BreakKeepsUnits ==
    ASSUME HostTypes, HostTypes', UnitInv, LinkBreaks \/ Crash
    PROVE  UnitInv'
<1>1. /\ UNCHANGED <<file, unit, starts>> /\ starting' \subseteq starting /\ awaited' = 0
      /\ cuts' = [j \in Jobs |-> IF Pending(j) THEN cuts[j] + 1 ELSE cuts[j]]
  BY DEF LinkBreaks, Crash, StopsWaiting
<1>2. cuts \in [Jobs -> Nat] /\ starts \in [Jobs -> Nat] /\ starting \subseteq Jobs
  BY DEF HostTypes, DaemonTypeOK
<1>3. UnknownUntouched'
  <2> SUFFICES ASSUME NEW j \in Jobs, file[j].state = "none"
               PROVE  starts[j] = Begun(j)' /\ unit[j] = "none" /\ j \notin starting'
    BY <1>1 DEF UnknownUntouched
  <2>1. starts[j] = Begun(j) /\ unit[j] = "none" /\ j \notin starting
    BY DEF UnitInv, UnknownUntouched
  <2>2. ~Pending(j)' /\ cuts'[j] = Begun(j)
    BY <1>1, <1>2 DEF Pending, Begun, Jobs
  <2> QED BY <1>1, <1>2, <2>1, <2>2 DEF Begun
<1>4. StartingIsNew'
  <2> SUFFICES ASSUME NEW j \in starting PROVE starts[j] = cuts'[j] /\ unit[j] = "none"
    BY <1>1 DEF StartingIsNew
  <2>1. starts[j] = cuts[j] /\ unit[j] = "none" /\ ~Pending(j)
    BY <1>2 DEF UnitInv, UnknownUntouched, StartingIsNew, Pending
  <2> QED BY <1>1, <1>2, <2>1
<1>5. WorkIsRecorded' /\ OneRecordRuns'
  BY <1>1 DEF UnitInv, WorkIsRecorded, OneRecordRuns, Runs, Outlived
<1>6. RunsOnce'
  <2> SUFFICES ASSUME NEW j \in Jobs PROVE starts[j] <= 1 + cuts'[j]
    BY <1>1 DEF RunsOnce
  <2>1. starts[j] <= 1 + cuts[j] /\ cuts[j] \in Nat /\ starts[j] \in Nat
    BY <1>2 DEF UnitInv, RunsOnce
  <2>2. cuts'[j] \in {cuts[j], cuts[j] + 1}
    BY <1>1
  <2> QED BY <2>1, <2>2
<1> QED BY <1>3, <1>4, <1>5, <1>6 DEF UnitInv

\* A removal begins in a thread: there is no record yet.
LEMMA BeginKeepsUnits ==
    ASSUME HostTypes, HostTypes', UnitInv, BeginDiscard
    PROVE  UnitInv'
<1>1. PICK j \in Jobs : j = Head(toHost).job
  BY CommandReceived DEF BeginDiscard, Accepts, HostTypes
<1>2. /\ file[j].state = "none" /\ awaited = 0 /\ awaited' = j
      /\ starts' = [starts EXCEPT ![j] = @ + 1] /\ UNCHANGED <<file, unit, starting, cuts>>
  BY <1>1 DEF BeginDiscard, Accepts, Receives
<1>3. cuts \in [Jobs -> Nat] /\ starts \in [Jobs -> Nat] /\ starting \subseteq Jobs
  BY DEF HostTypes, DaemonTypeOK
<1>4. \A k \in Jobs : ~Pending(k) /\ (Pending(k)' <=> k = j)
  BY <1>1, <1>2 DEF Pending, Jobs
<1>5. starts[j] = cuts[j] /\ unit[j] = "none" /\ j \notin starting
  BY <1>2, <1>3, <1>4 DEF UnitInv, UnknownUntouched, Begun
<1>6. starts'[j] = cuts[j] + 1 /\ \A k \in Jobs \ {j} : starts'[k] = starts[k]
  BY <1>2, <1>3, <1>5
<1>7. UnknownUntouched'
  BY <1>2, <1>3, <1>4, <1>5, <1>6 DEF UnitInv, UnknownUntouched, Begun
<1>8. StartingIsNew'
  BY <1>2, <1>3, <1>5, <1>6 DEF UnitInv, StartingIsNew
<1>9. WorkIsRecorded' /\ OneRecordRuns'
  BY <1>2 DEF UnitInv, WorkIsRecorded, OneRecordRuns, Runs, Outlived
<1>10. RunsOnce'
  BY <1>2, <1>3, <1>6 DEF UnitInv, RunsOnce
<1> QED BY <1>7, <1>8, <1>9, <1>10 DEF UnitInv

\* Its record comes with its end.
LEMMA RecordKeepsUnits ==
    ASSUME HostTypes, HostTypes', UnitInv, RecordDiscard
    PROVE  UnitInv'
<1>1. PICK j \in Jobs : j = awaited
  BY DEF RecordDiscard, HostTypes, DaemonTypeOK
<1>2. DaemonTypeOK /\ DaemonTypeOK'
  BY DEF HostTypes
<1>3. PICK f : f = [state |-> "done", command |-> "remove", ok |-> discard[j] = "done", token |-> NoToken]
  OBVIOUS
<1>4. /\ file' = [file EXCEPT ![j] = f] /\ file[j].state = "none" /\ Pending(j) /\ awaited' = 0
      /\ UNCHANGED <<unit, starting, starts, cuts>>
  BY <1>1, <1>3 DEF RecordDiscard, Pending
<1>5. file'[j].state = "done" /\ \A k \in Jobs \ {j} : file'[k] = file[k]
  BY <1>2, <1>3, <1>4 DEF DaemonTypeOK
<1>6. starts[j] = cuts[j] + 1 /\ unit[j] = "none" /\ j \notin starting
  BY <1>4 DEF UnitInv, UnknownUntouched, Begun
<1>7. ~Runs(j)' /\ starts'[j] <= 1 + cuts[j]
  BY <1>2, <1>4, <1>6 DEF Runs, DaemonTypeOK
<1> QED BY <1>1, <1>2, <1>4, <1>5, <1>6, <1>7, OneJobMoves

LEMMA CommandKeepsUnits ==
    ASSUME HostTypes, HostTypes', UnitInv, ReplayKnown \/ SaveRecord
    PROVE  UnitInv'
<1>1. PICK j \in Jobs : j = Head(toHost).job
  BY CommandReceived DEF ReplayKnown, SaveRecord, Accepts, HostTypes
<1>2. DaemonTypeOK /\ DaemonTypeOK'
  BY DEF HostTypes
<1>3. starts[j] <= 1 + cuts[j] /\ starts[j] \in Nat
  BY <1>1, <1>2 DEF UnitInv, RunsOnce, DaemonTypeOK
<1>4. CASE ReplayKnown
  <2>1. /\ file[j].state # "none"
        /\ file' = [file EXCEPT ![j] = [file[j] EXCEPT !.state = AfterReport(file[j].state)]]
    BY <1>1, <1>2, <1>4 DEF ReplayKnown, DaemonTypeOK
  <2>2. file[j] \in File
    BY <1>1, <1>2 DEF DaemonTypeOK
  <2>3. file'[j].state = AfterReport(file[j].state)
    BY <1>1, <1>2, <2>1, <2>2 DEF DaemonTypeOK, File
  <2>4. AfterReport(file[j].state) = file[j].state
        \/ (file[j].state = "corrupt" /\ AfterReport(file[j].state) = "tombstone")
    BY DEF AfterReport
  <2>5. \A k \in Jobs \ {j} : file'[k] = file[k]
    BY <2>1, <1>2 DEF DaemonTypeOK
  <2>6. UNCHANGED <<unit, starting, starts, awaited, cuts>>
    BY <1>4 DEF ReplayKnown, removalVars
  <2>7. Runs(j)' \/ j \in starting' => Outlived(j)' \/ file'[j].state = "running"
    BY <1>1, <2>3, <2>4, <2>6 DEF UnitInv, WorkIsRecorded, Runs, Outlived
  <2>8. j \in starting => starts[j] = cuts[j] /\ unit[j] = "none"
    BY DEF UnitInv, StartingIsNew
  <2> QED BY <1>1, <1>2, <1>3, <2>1, <2>3, <2>4, <2>5, <2>6, <2>7, <2>8, OneJobMoves
<1>5. CASE SaveRecord
  <2>1. file' = [file EXCEPT ![j] = [state |-> "running", command |-> Head(toHost).command,
                                     ok |-> FALSE, token |-> Head(toHost).token]]
    BY <1>1, <1>5 DEF SaveRecord
  <2>2. /\ file[j].state = "none" /\ ~Busy
        /\ starting' = starting \cup {j}
        /\ UNCHANGED <<unit, starts, cuts>> /\ awaited = 0 /\ awaited' = j
    BY <1>1, <1>5 DEF SaveRecord, Accepts, Receives, removalVars
  <2>3. file'[j].state = "running" /\ \A k \in Jobs \ {j} : file'[k] = file[k]
    BY <1>1, <1>2, <2>1 DEF DaemonTypeOK
  <2>4. starts[j] = cuts[j] /\ unit[j] = "none" /\ j \notin starting
    <3>1. ~Pending(j)
      BY <2>2 DEF Pending, Jobs
    <3> QED BY <1>2, <2>2, <3>1 DEF UnitInv, UnknownUntouched, Begun, DaemonTypeOK
  <2> QED BY <1>1, <1>2, <1>3, <2>2, <2>3, <2>4, OneJobMoves
<1> QED BY <1>4, <1>5

LEMMA StartKeepsUnits ==
    ASSUME HostTypes, HostTypes', UnitInv, NEW j \in Jobs, StartUnit(j)
    PROVE  UnitInv'
<1>1. DaemonTypeOK /\ DaemonTypeOK' /\ file[j] \in File
  BY DEF HostTypes, DaemonTypeOK
<1>2. j \in starting /\ starts[j] = cuts[j] /\ unit[j] = "none" /\ file[j].state # "none"
  BY DEF StartUnit, UnitInv, StartingIsNew, UnknownUntouched
<1>3. Outlived(j) \/ file[j].state = "running"
  BY <1>2 DEF UnitInv, WorkIsRecorded
<1>4. /\ starting' = starting \ {j} /\ UNCHANGED cuts
      /\ awaited' = awaited \/ (awaited \in {0, j} /\ awaited' \in {0, j})
  BY DEF StartUnit, removalVars
<1>5. cuts[j] \in Nat /\ starts[j] \in Nat
  BY <1>1 DEF DaemonTypeOK
<1>6. ASSUME Started(j)
      PROVE  starts'[j] <= 1 + cuts[j] /\ \A k \in Jobs \ {j} : starts'[k] = starts[k] /\ unit'[k] = unit[k]
  BY <1>1, <1>2, <1>5, <1>6 DEF Started, DaemonTypeOK
<1>7. ASSUME NEW state \in {"done", "lost"}, file' = [file EXCEPT ![j].state = state]
      PROVE  file'[j].state = state /\ \A k \in Jobs \ {j} : file'[k] = file[k]
  <2>1. [file[j] EXCEPT !.state = state].state = state
    BY <1>1 DEF File
  <2>2. file' = [file EXCEPT ![j] = [file[j] EXCEPT !.state = state]]
    BY <1>1, <1>7 DEF DaemonTypeOK
  <2> QED BY <1>1, <2>1, <2>2 DEF DaemonTypeOK
<1>8. CASE Started(j) /\ UNCHANGED file
  <2>1. Outlived(j)' \/ file'[j].state = "running"
    BY <1>3, <1>8 DEF Outlived
  <2> QED BY <1>1, <1>2, <1>4, <1>6, <1>8, <2>1, OneJobMoves
<1>9. CASE Started(j) /\ file' = [file EXCEPT ![j].state = "lost"]
  <2>1. file'[j].state = "lost" /\ Outlived(j)' /\ \A k \in Jobs \ {j} : file'[k] = file[k]
    BY <1>7, <1>9 DEF Outlived
  <2> QED BY <1>1, <1>2, <1>4, <1>6, <1>9, <2>1, OneJobMoves
<1>10. CASE UNCHANGED <<unit, starts>> /\ file' = [file EXCEPT ![j].state = "done"]
  <2>1. file'[j].state = "done" /\ \A k \in Jobs \ {j} : file'[k] = file[k]
    BY <1>7, <1>10
  <2>2. ~Runs(j)' /\ starts'[j] <= 1 + cuts[j]
    BY <1>2, <1>5, <1>10 DEF Runs
  <2> QED BY <1>1, <1>2, <1>4, <1>10, <2>1, <2>2, OneJobMoves
<1> QED BY <1>8, <1>9, <1>10 DEF StartUnit

LEMMA WorkKeepsUnits ==
    ASSUME HostTypes, HostTypes', UnitInv, NEW j \in Jobs,
           \/ WriteProfile(j) \/ UnitSucceeds(j) \/ UnitFails(j) \/ UnitDies(j)
           \/ Poll(j) \/ PollDeadline(j) \/ PollMissing(j)
    PROVE  UnitInv'
<1>1. DaemonTypeOK /\ DaemonTypeOK' /\ file[j] \in File
  BY DEF HostTypes, DaemonTypeOK
<1>2. starts[j] <= 1 + cuts[j]
  BY DEF UnitInv, RunsOnce
<1>3. CASE WriteProfile(j) \/ UnitSucceeds(j) \/ UnitFails(j) \/ UnitDies(j)
  <2>1. PICK state : UnitMoves(j, state)
    BY <1>3 DEF WriteProfile, UnitSucceeds, UnitFails, UnitDies
  <2>2. Runs(j)
    BY <1>3 DEF WriteProfile, UnitSucceeds, UnitFails, UnitDies, Runs
  <2>3. j \notin starting /\ file[j].state # "none" /\ (Outlived(j) \/ file[j].state = "running")
    BY <2>2 DEF UnitInv, UnknownUntouched, StartingIsNew, WorkIsRecorded, Runs
  <2>4. /\ UNCHANGED <<file, starting, starts, awaited, cuts>>
        /\ \A k \in Jobs \ {j} : unit'[k] = unit[k]
    BY <1>1, <2>1 DEF UnitMoves, removalVars, DaemonTypeOK
  <2>5. Outlived(j)' \/ file'[j].state = "running"
    BY <2>3, <2>4 DEF Outlived
  <2> QED BY <1>1, <1>2, <2>3, <2>4, <2>5, OneJobMoves
<1>4. ASSUME NEW f, Finish(j, f)
      PROVE  /\ file'[j] = f /\ file[j].state = "running"
             /\ \A k \in Jobs \ {j} : file'[k] = file[k]
             /\ UNCHANGED <<starting, starts, awaited, cuts>>
  BY <1>1, <1>4 DEF Finish, removalVars, DaemonTypeOK
<1>5. CASE Poll(j)
  <2> DEFINE f == [file[j] EXCEPT !.state = "done", !.ok = unit[j] = "ok"]
  <2>1. Finish(j, f) /\ UNCHANGED unit /\ unit[j] \in {"ok", "failed"}
    BY <1>5 DEF Poll
  <2>2. f.state = "done"
    BY <1>1 DEF File
  <2> HIDE DEF f
  <2>3. j \notin starting /\ ~Runs(j)'
    BY <2>1 DEF UnitInv, StartingIsNew, Runs
  <2> QED BY <1>1, <1>2, <1>4, <2>1, <2>2, <2>3, OneJobMoves
<1>6. CASE PollDeadline(j)
  <2>1. PICK f : \/ f = [file[j] EXCEPT !.state = "done"] /\ Finish(j, f) /\ unit' = [unit EXCEPT ![j] = "gone"]
                 \/ f = [file[j] EXCEPT !.state = "lost"] /\ Finish(j, f) /\ unit' = unit
    BY <1>6 DEF PollDeadline
  <2>2. f.state = "lost" \/ unit' = [unit EXCEPT ![j] = "gone"]
    BY <1>1, <2>1 DEF File
  <2>3. f.state \in {"done", "lost"} /\ Finish(j, f)
    BY <1>1, <2>1 DEF File
  <2>4. j \notin starting /\ \A k \in Jobs \ {j} : unit'[k] = unit[k]
    BY <1>1, <1>6, <2>1 DEF PollDeadline, UnitInv, StartingIsNew, Runs, DaemonTypeOK
  <2>5. ~Runs(j)' \/ Outlived(j)'
    BY <1>1, <1>4, <2>2, <2>3 DEF Runs, Outlived, DaemonTypeOK
  <2> QED BY <1>1, <1>2, <1>4, <2>3, <2>4, <2>5, OneJobMoves
<1>7. CASE PollMissing(j)
  <2> DEFINE f == [file[j] EXCEPT !.state = "lost"]
  <2>1. Finish(j, f) /\ UNCHANGED unit
    BY <1>7 DEF PollMissing
  <2>2. f.state = "lost"
    BY <1>1 DEF File
  <2> HIDE DEF f
  <2>3. Outlived(j)' /\ (j \in starting => starts[j] = cuts[j] /\ unit[j] = "none")
    BY <1>4, <2>1, <2>2 DEF UnitInv, StartingIsNew, Outlived
  <2> QED BY <1>1, <1>2, <1>4, <2>1, <2>2, <2>3, OneJobMoves
<1> QED BY <1>3, <1>5, <1>6, <1>7

LEMMA CorruptKeepsUnits ==
    ASSUME HostTypes, HostTypes', UnitInv, NEW j \in Jobs, CorruptRecord(j)
    PROVE  UnitInv'
<1>1. DaemonTypeOK /\ DaemonTypeOK' /\ file[j] \in File
  BY DEF HostTypes, DaemonTypeOK
<1>2. starts[j] <= 1 + cuts[j]
  BY DEF UnitInv, RunsOnce
<1>3. /\ file' = [file EXCEPT ![j] = [file[j] EXCEPT !.state = "corrupt"]]
      /\ j \notin starting /\ UNCHANGED <<unit, starting, starts, awaited, cuts>>
  BY <1>1 DEF CorruptRecord, removalVars, DaemonTypeOK
<1>4. [file[j] EXCEPT !.state = "corrupt"].state = "corrupt"
  BY <1>1 DEF File
<1>5. file'[j].state = "corrupt" /\ \A k \in Jobs \ {j} : file'[k] = file[k]
  BY <1>1, <1>3, <1>4 DEF DaemonTypeOK
<1>6. Outlived(j)'
  BY <1>5 DEF Outlived
<1> QED BY <1>1, <1>2, <1>3, <1>5, <1>6, OneJobMoves

UnitsInv == HostTypes /\ UnitInv

LEMMA UnitsStep == UnitsInv /\ [Next]_vars => UnitsInv'
<1> SUFFICES ASSUME UnitsInv, [Next]_vars PROVE UnitInv'
  BY HostTypesStep DEF UnitsInv
<1>1. HostTypes /\ HostTypes' /\ UnitInv /\ DaemonTypeOK
  BY HostTypesStep DEF UnitsInv, HostTypes
<1>2. CASE UNCHANGED daemonVars
  BY <1>1, <1>2, NothingStarts DEF daemonVars
<1>3. CASE BeginSession \/ Decline \/ HostConnects
  BY <1>1, <1>3, NothingStarts DEF BeginSession, Decline, HostConnects, Connect, daemonVars
<1>4. CASE LinkBreaks \/ Crash
  BY <1>1, <1>4, BreakKeepsUnits
<1>5. CASE ReplayKnown \/ BeginDiscard \/ RecordDiscard \/ SaveRecord
  BY <1>1, <1>5, CommandKeepsUnits, BeginKeepsUnits, RecordKeepsUnits
<1>6. ASSUME NEW j \in Jobs,
             \/ StartUnit(j) \/ CorruptRecord(j)
             \/ WriteProfile(j) \/ UnitSucceeds(j) \/ UnitFails(j) \/ UnitDies(j)
             \/ Poll(j) \/ PollDeadline(j) \/ PollMissing(j)
      PROVE  UnitInv'
  BY <1>1, <1>6, StartKeepsUnits, CorruptKeepsUnits, WorkKeepsUnits
<1>7. ASSUME NEW j \in Jobs, EndDiscard(j) PROVE UnitInv'
  BY <1>1, <1>7, NothingStarts DEF EndDiscard
<1>8. UNCHANGED vars => UNCHANGED daemonVars
  BY DEF vars, daemonVars
<1> QED BY <1>2, <1>3, <1>4, <1>5, <1>6, <1>7, <1>8 DEF Next, HostStep, HostFault

(***************************************************************************)
(* The host runs a job at most once: commands.py and runner.py on records  *)
(* that survive crashes, resends, lost answers and unreadable files.  Only *)
(* a removal in connection.py's own thread is run again, once for each     *)
(* time it was cut short of its record.                                    *)
(***************************************************************************)
THEOREM HostRunsOnce == Spec => []RunsOnce
<1>1. Init => UnitsInv
  BY HostTypesInit, UnitInit DEF UnitsInv
<1>2. UnitsInv => RunsOnce
  BY DEF UnitsInv, UnitInv
<1> QED BY <1>1, <1>2, UnitsStep, PTL DEF Spec

(***************************************************************************)
(* Two jobs do not work on a host at once, unless runner.py recorded one   *)
(* as ended without an exit code, or cannot read its record.               *)
(***************************************************************************)
THEOREM HostRunsOneUnit == Spec => []OneUnitAtATime
<1>1. Init => UnitsInv
  BY HostTypesInit, UnitInit DEF UnitsInv
<1>2. UnitsInv => OneUnitAtATime
  BY DEF UnitsInv, UnitInv, WorkIsRecorded, OneRecordRuns, OneUnitAtATime
<1> QED BY <1>1, <1>2, UnitsStep, PTL DEF Spec

-----------------------------------------------------------------------------
(***************************************************************************)
(* Why one job is under way: a dispatch chooses a job while none is, and   *)
(* holds the lock of the host's row until it has marked that job sent.     *)
(* Nothing else makes a job sent or running that was not before.           *)
(***************************************************************************)
ClaimsHoldLock == \A d \in Dispatches : dispatch[d].step = "claim" => hostLock = d

ClaimsWhenIdle == \A d \in Dispatches : dispatch[d].step = "claim" => With(Active) = {}

OneActive == \A i, j \in With(Active) : i = j

SendInv == HostTypes /\ ClaimsHoldLock /\ ClaimsWhenIdle /\ OneActive

LEMMA SendInit == Init => SendInv
<1> SUFFICES ASSUME NEW s \in Scenarios, JobsInit(s.begins)
             PROVE  ClaimsHoldLock /\ ClaimsWhenIdle /\ OneActive
  BY HostTypesInit DEF Init, SendInv
<1>1. \A d \in Dispatches : dispatch[d].step = "idle"
  BY DEF JobsInit, NoDispatch
<1>2. \A j \in Jobs \ {1} : job[j].status = "none"
  <2>1. \A j \in Jobs \ {1} : job[j] = NoJob
    BY DEF JobsInit
  <2> QED BY <2>1 DEF NoJob
<1>3. With(Active) \subseteq {1}
  BY <1>2 DEF With, Active
<1> QED BY <1>1, <1>3 DEF ClaimsHoldLock, ClaimsWhenIdle, OneActive

LEMMA ActiveShrinks ==
    ASSUME SendInv, HostTypes', UNCHANGED <<hostLock, dispatch>>, With(Active)' \subseteq With(Active)
    PROVE  SendInv'
<1>1. ClaimsHoldLock'
  BY DEF SendInv, ClaimsHoldLock
<1>2. ClaimsWhenIdle'
  BY DEF SendInv, ClaimsWhenIdle
<1>3. OneActive'
  BY DEF SendInv, OneActive
<1> QED BY <1>1, <1>2, <1>3 DEF SendInv

\* One job's status changes; it is active after only if it was.
LEMMA MoveShrinks ==
    ASSUME job \in [Jobs -> Job], NEW j, NEW status,
           job' = [job EXCEPT ![j].status = status],
           status \in Active => j \in With(Active)
    PROVE  With(Active)' \subseteq With(Active)
<1>1. \A k \in Jobs : job'[k].status = job[k].status \/ (k = j /\ job'[k].status = status)
  BY DEF Job
<1> QED BY <1>1 DEF With

\* Jobs are left as they are, canceled, or put in a queue.
LEMMA OthersShrink ==
    ASSUME job \in [Jobs -> Job],
           \A k \in Jobs : job'[k].status = job[k].status \/ job'[k].status \notin Active
    PROVE  With(Active)' \subseteq With(Active)
BY DEF With

LEMMA QueueShrinks ==
    ASSUME job \in [Jobs -> Job], NEW k, NEW command, job' = [job EXCEPT ![k] = Queued(command)]
    PROVE  With(Active)' \subseteq With(Active)
<1>1. Queued(command).status = "queued"
  BY DEF Queued, NoJob
<1> QED BY <1>1, OthersShrink DEF Active

LEMMA CancelShrinks ==
    ASSUME job \in [Jobs -> Job], NEW S,
           job' = [j \in Jobs |-> IF j \in S THEN [job[j] EXCEPT !.status = "canceled"] ELSE job[j]]
    PROVE  With(Active)' \subseteq With(Active)
<1>1. \A j \in Jobs : [job[j] EXCEPT !.status = "canceled"].status = "canceled"
  BY DEF Job
<1> QED BY <1>1, OthersShrink DEF Active

LEMMA SelectSends == ASSUME SendInv, HostTypes', NEW d \in Dispatches, Select(d) PROVE SendInv'
<1>1. hostLock = 0 /\ hostLock' = d /\ job' = job /\ NextJob # 0
  BY DEF Select
<1>2. With(Active) = {}
  BY <1>1 DEF NextJob
<1>3. \A e \in Dispatches : dispatch[e].step # "claim"
  BY <1>1 DEF SendInv, ClaimsHoldLock, Dispatches
<1>4. \A e \in Dispatches \ {d} : dispatch'[e] = dispatch[e]
  BY DEF Select, SendInv, HostTypes, JobsInv, JobsTypeOK
<1>5. With(Active)' = {}
  BY <1>1, <1>2 DEF With
<1> QED BY <1>1, <1>3, <1>4, <1>5 DEF SendInv, ClaimsHoldLock, ClaimsWhenIdle, OneActive

LEMMA ClaimSends == ASSUME SendInv, HostTypes', NEW d \in Dispatches, Claim(d) PROVE SendInv'
<1> DEFINE j == dispatch[d].job
<1>1. With(Active) = {} /\ hostLock = d
  BY DEF Claim, SendInv, ClaimsHoldLock, ClaimsWhenIdle
<1>2. \A e \in Dispatches : dispatch'[e].step = "idle"
  <2>1. \A e \in Dispatches \ {d} : dispatch[e].step = "idle"
    BY <1>1 DEF SendInv, ClaimsHoldLock, HostTypes, JobsInv, JobsTypeOK, Dispatch
  <2>2. dispatch' = [dispatch EXCEPT ![d] = NoDispatch] /\ NoDispatch.step = "idle"
    BY DEF Claim, NoDispatch
  <2> QED BY <2>1, <2>2 DEF SendInv, HostTypes, JobsInv, JobsTypeOK
<1>3. \A k \in Jobs \ {j} : job'[k] = job[k]
  BY DEF Claim, SendInv, HostTypes, JobsInv, JobsTypeOK
<1>4. OneActive'
  BY <1>1, <1>3 DEF OneActive, With
<1> QED BY <1>2, <1>4 DEF SendInv, ClaimsHoldLock, ClaimsWhenIdle

LEMMA SendStep == SendInv /\ [Next]_vars => SendInv'
<1> SUFFICES ASSUME SendInv, [Next]_vars PROVE SendInv'
  OBVIOUS
<1>1. HostTypes /\ HostTypes' /\ JobRowsInv /\ job \in [Jobs -> Job]
  BY HostTypesStep, InvRows DEF SendInv, HostTypes, JobRowsInv
<1>2. CASE UNCHANGED <<job, hostLock, dispatch>>
  BY <1>1, <1>2, ActiveShrinks DEF With
<1>3. ASSUME NEW d \in Dispatches, Select(d) \/ Claim(d) PROVE SendInv'
  BY <1>1, <1>3, SelectSends, ClaimSends
<1>4. CASE Reconcile
  <2> DEFINE open == With(Active)
             status(j) == IF reported[j] = "unknown"
                          THEN IF job[j].status = "sent" THEN AgainOrFailed(j) ELSE "lost"
                          ELSE IF reported[j] = "running" THEN "running" ELSE job[j].status
  <2>1. job' = [j \in Jobs |-> IF j \in open THEN [job[j] EXCEPT !.status = status(j)] ELSE job[j]]
    BY <1>4 DEF Reconcile
  <2> HIDE DEF status
  <2>2. \A j \in Jobs \ open : job'[j] = job[j]
    BY <2>1
  <2>3. With(Active)' \subseteq With(Active)
    BY <2>2 DEF With
  <2> QED BY <1>1, <1>4, <2>3, ActiveShrinks DEF Reconcile
<1>5. CASE HandleFrame
  <2> DEFINE frame == Head(toServer)
             status == AfterFrame(frame)
  <2>1. UNCHANGED <<hostLock, dispatch>>
    BY <1>5 DEF HandleFrame
  <2>2. frame.job \in Jobs
    <3>1. toServer \in Seq(FrameToServer) /\ toServer # <<>>
      BY <1>1, <1>5 DEF HandleFrame, HostTypes, LinkInv, LinkTypeOK
    <3>2. frame \in FrameToServer
      BY <3>1
    <3> QED BY <3>2 DEF FrameToServer
  <2>3. CASE status = ""
    BY <1>2, <1>5, <2>1, <2>3 DEF HandleFrame
  <2>4. CASE status # ""
    <3>1. job' = [job EXCEPT ![frame.job].status = status]
      BY <1>5, <2>4 DEF HandleFrame, Moves
    <3>2. status \in Active => frame.job \in With(Active)
      BY <1>1, <2>2, AgainOrFailedType DEF AfterFrame, With, Active
    <3> HIDE DEF status, frame
    <3>3. With(Active)' \subseteq With(Active)
      BY <1>1, <3>1, <3>2, MoveShrinks
    <3> QED BY <1>1, <2>1, <3>3, ActiveShrinks
  <2> QED BY <2>3, <2>4
<1>6. ASSUME NEW j \in Jobs, NEW status, Moves(j, status, NoToken), status \notin Active,
             UNCHANGED <<hostLock, dispatch>>
      PROVE  SendInv'
  <2>1. With(Active)' \subseteq With(Active)
    BY <1>1, <1>6, MoveShrinks DEF Moves
  <2> QED BY <1>1, <1>6, <2>1, ActiveShrinks
<1>7. ASSUME NEW j \in Jobs,
             AckTimeout(j) \/ DeadlinePassed(j) \/ HostLost(j) \/ Expire(j) \/ CancelRemoval(j)
      PROVE  SendInv'
  <2>1. AgainOrFailed(j) \notin Active
    BY <1>1, AgainOrFailedType DEF Active
  <2> QED BY <1>6, <1>7, <2>1
          DEF AckTimeout, DeadlinePassed, HostLost, Expire, CancelRemoval, SweepMoves, Active
<1>8. CASE RetryQueue \/ RestartQueue \/ RedoQueue \/ QueueRemoval
  <2>1. UNCHANGED <<hostLock, dispatch>> /\ \E c \in Commands : job' = [job EXCEPT ![NextRow] = Queued(c)]
    BY <1>8 DEF RetryQueue, RestartQueue, RedoQueue, QueueRemoval, Queues, Commands
  <2> QED BY <1>1, <2>1, QueueShrinks, ActiveShrinks
<1>9. CASE CancelQueued \/ Revoke
  <2>1. UNCHANGED <<hostLock, dispatch>>
    BY <1>9 DEF CancelQueued, Revoke
  <2>2. \E S : job' = [j \in Jobs |-> IF j \in S THEN [job[j] EXCEPT !.status = "canceled"] ELSE job[j]]
    BY <1>9 DEF CancelQueued, Revoke
  <2> QED BY <1>1, <2>1, <2>2, CancelShrinks, ActiveShrinks
<1>10. CASE RecordHello \/ Greet \/ OldSocketCloses \/ CloseRevoked
  BY <1>2, <1>10 DEF RecordHello, Greet, OldSocketCloses, CloseRevoked, jobVars
<1>11. CASE RevokeOrphans \/ RetryRevoke \/ CheckHost \/ RetryCheck \/ RestartCheck \/ RedoCheck \/ DeleteAgent
  BY <1>2, <1>11 DEF RevokeOrphans, RetryRevoke, CheckHost, RetryCheck, RestartCheck, RedoCheck,
                     DeleteAgent, jobVars
<1>12. UNCHANGED jobVars \/ UNCHANGED vars => UNCHANGED <<job, hostLock, dispatch>>
  BY DEF jobVars, vars
<1> QED BY <1>2, <1>3, <1>4, <1>5, <1>7, <1>8, <1>9, <1>10, <1>11, <1>12
        DEF Next, ServerStep, ServerEvent

(***************************************************************************)
(* However many processes dispatch, and whatever hellos, frames and sweeps *)
(* come between, at most one job of a host is sent or running.             *)
(***************************************************************************)
THEOREM HostSendsOneJob == Spec => []OneJobSent
<1>1. SendInv => OneJobSent
  <2> SUFFICES ASSUME SendInv PROVE Cardinality(With(Active)) <= 1
    BY DEF OneJobSent
  <2>1. CASE With(Active) = {}
    BY <2>1, FS_EmptySet
  <2>2. ASSUME NEW j \in With(Active) PROVE Cardinality(With(Active)) <= 1
    <3>1. With(Active) = {j}
      BY <2>2 DEF SendInv, OneActive
    <3>2. Cardinality({j}) = 1
      BY FS_Singleton
    <3> QED BY <3>1, <3>2
  <2> QED BY <2>1, <2>2
<1> QED BY <1>1, SendInit, SendStep, PTL DEF Spec

-----------------------------------------------------------------------------
(***************************************************************************)
(* What becomes of the agent: its token and its profile.                   *)
(*                                                                         *)
(* The argument goes along what reaches the host and comes back: rows are  *)
(* numbered as they come, setups follow one another and removals come      *)
(* last; so do the commands on their way and the records of the daemon; a  *)
(* success is one of the unit; and the last setup the daemon follows is    *)
(* the one whose token the .env holds.                                     *)
(***************************************************************************)
Bad == Ended \ {"succeeded"}

\* The setup of the agent that counts: no later one was asked for.
IsLatest(s) == s \in Of("provision") /\ \A k \in Of("provision") : k <= s

(***************************************************************************)
(* Rows are numbered as they come.  A removal is of a deleted agent, and a *)
(* setup is asked for when every earlier one ended, the last of them badly.*)
(***************************************************************************)
RowsInOrder ==
    /\ 1 \in Of("provision")
    /\ \A j \in Jobs : job[j].status = "none" => job[j].command = "restart"
    /\ \A i, j \in Jobs : i < j /\ job[i].status = "none" => job[j].status = "none"

RemovalsOfDeleted ==
    /\ \A j \in Jobs : job[j].command = "remove" => deleted
    /\ request = "redoQueue" \/ removal # "none" => deleted

SetupsInTurn ==
    /\ \A i, j \in Of("provision") : i < j => job[i].status \in Ended
    /\ request \in {"retryRevoke", "retryQueue"} =>
           \A s \in Jobs : IsLatest(s) => job[s].status \in Bad

RowsInv == RowsInOrder /\ RemovalsOfDeleted /\ SetupsInTurn

(***************************************************************************)
(* Commands on their way are of jobs that exist, and setups that may start *)
(* come in the order they were asked for, none after a removal, recorded   *)
(* or under way.                                                           *)
(***************************************************************************)
MayStart(frame) == frame.command = "provision" /\ frame.token # NoToken

CommandsOfJobs ==
    \A i \in DOMAIN toHost :
        /\ toHost[i].command \in Commands =>
               /\ toHost[i].job \in Jobs
               /\ job[toHost[i].job].status # "none"
               /\ toHost[i].command = job[toHost[i].job].command
        /\ MayStart(toHost[i]) => toHost[i].token[1] = toHost[i].job

CommandsInOrder ==
    \A i, k \in DOMAIN toHost : i < k /\ MayStart(toHost[k]) =>
        /\ toHost[i].command # "remove"
        /\ MayStart(toHost[i]) => toHost[i].job <= toHost[k].job

CommandsAreNew ==
    \A k \in DOMAIN toHost, j \in Jobs : MayStart(toHost[k]) =>
        /\ ~Pending(j)
        /\ file[j].state # "none" =>
               /\ file[j].command # "remove"
               /\ file[j].command = "provision" => j <= toHost[k].job

CommandsInv == CommandsOfJobs /\ CommandsInOrder /\ CommandsAreNew

(***************************************************************************)
(* Records are of jobs that exist, and a setup the daemon still follows is *)
(* the last thing it was told to do about the profile.                     *)
(***************************************************************************)
FilesOfJobs == \A j \in Jobs : file[j].state # "none" =>
    /\ job[j].status # "none" /\ file[j].command = job[j].command
    /\ file[j].command = "provision" => file[j].token[1] = j

LastIsFollowed == \A j, p \in Jobs :
    /\ file[j].state # "none" /\ file[p].command = "provision"
    /\ file[j].command = "remove" \/ (file[j].command = "provision" /\ p < j)
    => file[p].state # "running"

FilesInv == FilesOfJobs /\ LastIsFollowed

(***************************************************************************)
(* A removal without a unit is one of a job to remove the agent.  While    *)
(* the session waits for it the daemon follows no unit, and a thread that  *)
(* outlived its session is not waited for.                                 *)
(***************************************************************************)
DiscardInv == \A j \in Jobs :
    /\ discard[j] # "none" \/ Pending(j) => job[j].status # "none" /\ job[j].command = "remove"
    /\ discard[j] \in {"done", "failed"} => Pending(j)
    /\ Pending(j) => \A k \in Jobs : file[k].state # "running"

(***************************************************************************)
(* A success is one of a unit, or of a removal that needed none.           *)
(***************************************************************************)
OkIsTrue(frame) == frame.kind = "ok" => file[frame.job].ok /\ frame.token = file[frame.job].token

SuccessesAreTrue ==
    /\ \A j \in Jobs : file[j].ok => /\ file[j].state \notin {"none", "running"}
                                     /\ file[j].command = "remove" \/ unit[j] = "ok"
    /\ \A i \in DOMAIN toServer : OkIsTrue(toServer[i])
    /\ \A j \in Jobs : job[j].status = "succeeded" => file[j].ok

\* A setup the daemon lost track of may still write the profile.
Astray == \E p \in Jobs : file[p].command = "provision" /\ Outlived(p) /\ p \notin starting

Removed(j) ==
    \/ file[j].command = "remove" /\ (file[j].ok \/ unit[j] = "ok")
    \/ discard[j] = "done"

RemovedInv == (\E j \in Jobs : Removed(j)) => profile.state = "none" \/ Astray

\* No claim is made about the agent's token.
Void(s) == deleted \/ Astray \/ job[s].status \in Bad

TokenInv ==
    \A s \in Jobs : IsLatest(s) /\ file[s].command = "provision" =>
        /\ unit[s] \in {"wrote", "ok"} =>
               Void(s) \/ (profile.state = "installed" /\ profile.token = file[s].token)
        /\ unit[s] = "ok" => Void(s) \/ file[s].token \in live

FateInv ==
    RowsInv /\ CommandsInv /\ FilesInv /\ DiscardInv /\ SuccessesAreTrue /\ RemovedInv /\ TokenInv

-----------------------------------------------------------------------------
\* Rows only go on: a job that ended stays as it is, and none becomes one of another kind.
RowsGoOn == \A j \in Jobs :
    /\ job'[j].command = job[j].command
    /\ \/ job'[j].status = job[j].status
       \/ job[j].status \in Open /\ job'[j].status # "none"

NoneSucceeds == \A j \in Jobs : job'[j].status = "succeeded" => job[j].status = "succeeded"

\* A new row, after all there are.
Adds(n, c) ==
    /\ n \in Jobs /\ job[n].status = "none"
    /\ job'[n].status = "queued" /\ job'[n].command = c
    /\ \A k \in Jobs \ {n} : job'[k] = job[k]
    /\ \A k \in Jobs : k < n => job[k].status # "none"

\* One job gets another status.
LEMMA StatusGoesOn ==
    ASSUME job \in [Jobs -> Job], NEW j \in Jobs, NEW status, status # "none", job[j].status \in Open,
           job' = [job EXCEPT ![j].status = status]
    PROVE  RowsGoOn /\ (status # "succeeded" => NoneSucceeds)
<1>1. job[j] \in Job
  OBVIOUS
<1>2. PICK row : row = [job[j] EXCEPT !.status = status]
  OBVIOUS
<1>3. row.status = status /\ row.command = job[j].command
  BY <1>1, <1>2 DEF Job
<1>4. job' = [job EXCEPT ![j] = row]
  BY <1>2
<1>5. job'[j] = row /\ \A k \in Jobs \ {j} : job'[k] = job[k]
  BY <1>4
<1> QED BY <1>3, <1>5 DEF RowsGoOn, NoneSucceeds

\* Some open jobs are canceled.
LEMMA CancelsGoOn ==
    ASSUME job \in [Jobs -> Job], NEW S \in SUBSET With(Open),
           job' = [j \in Jobs |-> IF j \in S THEN [job[j] EXCEPT !.status = "canceled"] ELSE job[j]]
    PROVE  RowsGoOn /\ NoneSucceeds
<1>1. \A j \in Jobs : /\ [job[j] EXCEPT !.status = "canceled"].status = "canceled"
                      /\ [job[j] EXCEPT !.status = "canceled"].command = job[j].command
  BY DEF Job
<1>2. \A j \in S : job[j].status \in Open
  BY DEF With
<1> QED BY <1>1, <1>2 DEF RowsGoOn, NoneSucceeds

LEMMA ClaimGoesOn == ASSUME HostTypes, NEW d \in Dispatches, Claim(d) PROVE RowsGoOn /\ NoneSucceeds
<1> DEFINE j == dispatch[d].job
           setup == job[j].command = "provision"
           waits == job[j].status = "queued"
<1>1. j \in Jobs /\ job \in [Jobs -> Job] /\ job[j] \in Job
  BY DEF Claim, HostTypes, JobsInv, JobsTypeOK, ClaimsAJob, Dispatch, Jobs
<1>2. CASE job' = job
  BY <1>2 DEF RowsGoOn, NoneSucceeds
<1>3. CASE waits
  <2>1. \E row : /\ job' = [job EXCEPT ![j] = row]
                 /\ row.status \in {"sent", "canceled", "failed"} /\ row.command = job[j].command
    <3>1. CASE setup /\ (~MayBeSetUp \/ dispatch[d].short)
      <4>1. PICK row : row = [job[j] EXCEPT !.status = IF ~MayBeSetUp THEN "canceled" ELSE "failed"]
        OBVIOUS
      <4>2. job' = [job EXCEPT ![j] = row]
        BY <1>1, <1>3, <3>1, <4>1 DEF Claim
      <4>3. row.status \in {"canceled", "failed"} /\ row.command = job[j].command
        BY <1>1, <4>1 DEF Job
      <4> QED BY <4>2, <4>3
    <3>2. CASE ~(setup /\ (~MayBeSetUp \/ dispatch[d].short))
      <4>1. PICK a : a = job[j].attempts + 1
        OBVIOUS
      <4>2. PICK m : m = IF setup THEN a ELSE 0
        OBVIOUS
      <4>3. PICK row : row = [job[j] EXCEPT !.status = "sent", !.attempts = a, !.minted = m]
        OBVIOUS
      <4>4. job' = [job EXCEPT ![j] = row]
        BY <1>1, <1>3, <3>2, <4>1, <4>2, <4>3 DEF Claim
      <4>5. row.status = "sent" /\ row.command = job[j].command
        BY <1>1, <4>3 DEF Job
      <4> QED BY <4>4, <4>5
    <3> QED BY <3>1, <3>2
  <2>2. PICK row : /\ job' = [job EXCEPT ![j] = row]
                   /\ row.status \in {"sent", "canceled", "failed"} /\ row.command = job[j].command
    BY <2>1
  <2>3. job'[j] = row /\ \A k \in Jobs \ {j} : job'[k] = job[k]
    BY <1>1, <2>2
  <2> QED BY <1>3, <2>2, <2>3 DEF RowsGoOn, NoneSucceeds, Open
<1>4. CASE ~waits
  <2>1. job' = job \/ job' = [job EXCEPT ![j].status = @]
    BY <1>1, <1>4 DEF Claim
  <2>2. [job[j] EXCEPT !.status = @] = job[j]
    BY <1>1 DEF Job
  <2>3. job' = job
    BY <1>1, <2>1, <2>2
  <2> QED BY <1>2, <2>3
<1> QED BY <1>3, <1>4

LEMMA ReconcileGoesOn == ASSUME HostTypes, Reconcile PROVE RowsGoOn /\ NoneSucceeds
<1> DEFINE open == With(Active)
           status(j) == IF reported[j] = "unknown"
                        THEN IF job[j].status = "sent" THEN AgainOrFailed(j) ELSE "lost"
                        ELSE IF reported[j] = "running" THEN "running" ELSE job[j].status
<1>1. job \in [Jobs -> Job] /\ JobRowsInv
  BY InvRows DEF HostTypes, JobsInv, JobsTypeOK
<1>2. \A j \in open : j \in Jobs /\ job[j].status \in Active
  BY DEF With
<1>3. \A j \in open : status(j) \notin {"none", "succeeded"}
  BY <1>1, <1>2, AgainOrFailedType DEF Active
<1>4. job' = [j \in Jobs |-> IF j \in open THEN [job[j] EXCEPT !.status = status(j)] ELSE job[j]]
  BY DEF Reconcile
<1> HIDE DEF status
<1>5. \A j \in Jobs : /\ [job[j] EXCEPT !.status = status(j)].status = status(j)
                      /\ [job[j] EXCEPT !.status = status(j)].command = job[j].command
  BY <1>1 DEF Job
<1> QED BY <1>2, <1>3, <1>4, <1>5 DEF RowsGoOn, NoneSucceeds, Open

\* A frame of the host: one that applies is about a job under way, and its answer is the new status.
LEMMA FrameGoesOn ==
    ASSUME HostTypes, HandleFrame
    PROVE  LET frame == Head(toServer)
           IN /\ frame \in FrameToServer /\ toServer # <<>> /\ frame = toServer[1]
              /\ RowsGoOn
              /\ \A j \in Jobs : job'[j].status = "succeeded" =>
                     job[j].status = "succeeded" \/ (j = frame.job /\ frame.kind = "ok")
<1> DEFINE frame == Head(toServer)
           status == AfterFrame(frame)
<1>1. toServer \in Seq(FrameToServer) /\ toServer # <<>> /\ job \in [Jobs -> Job] /\ JobRowsInv
  BY InvRows DEF HandleFrame, HostTypes, LinkInv, LinkTypeOK, JobsInv, JobsTypeOK
<1>2. frame \in FrameToServer /\ frame = toServer[1]
  BY <1>1
<1>3. frame.job \in Jobs
  BY <1>2 DEF FrameToServer
<1>4. CASE status = ""
  <2>1. job' = job
    BY <1>4 DEF HandleFrame
  <2> QED BY <1>1, <1>2, <2>1 DEF RowsGoOn
<1>5. CASE status # ""
  <2>1. job' = [job EXCEPT ![frame.job].status = status]
    BY <1>5 DEF HandleFrame, Moves
  <2>2. /\ job[frame.job].status \in Open
        /\ status # "none"
        /\ status = "succeeded" => frame.kind = "ok"
    BY <1>1, <1>3, <1>5, AgainOrFailedType DEF AfterFrame, Active, Open
  <2> HIDE DEF status
  <2>3. RowsGoOn
    BY <1>1, <1>3, <2>1, <2>2, StatusGoesOn
  <2>4. \A j \in Jobs : job'[j].status = "succeeded" =>
            job[j].status = "succeeded" \/ (j = frame.job /\ frame.kind = "ok")
    <3>1. status # "succeeded" => NoneSucceeds
      BY <1>1, <1>3, <2>1, <2>2, StatusGoesOn
    <3>2. \A j \in Jobs \ {frame.job} : job'[j] = job[j]
      BY <1>1, <1>3, <2>1
    <3> QED BY <2>2, <3>1, <3>2 DEF NoneSucceeds
  <2> QED BY <1>1, <1>2, <2>3, <2>4
<1> QED BY <1>4, <1>5

\* A request or a deletion queues a job.
LEMMA QueueAdds ==
    ASSUME HostTypes, With({"none"}) # {}, NEW c \in Commands, job' = [job EXCEPT ![NextRow] = Queued(c)]
    PROVE  Adds(NextRow, c)
<1>1. NextRow \in With({"none"}) /\ \A k \in With({"none"}) : NextRow <= k
  <2>1. With({"none"}) \in SUBSET Nat
    BY DEF With, Jobs
  <2>2. \E j \in With({"none"}) : \A k \in With({"none"}) : j <= k
    BY <2>1, LeastNumber
  <2> QED BY <2>2 DEF NextRow
<1>2. Queued(c).status = "queued" /\ Queued(c).command = c
  BY DEF Queued, NoJob
<1>3. NextRow \in Jobs /\ job[NextRow].status = "none"
  BY <1>1 DEF With
<1>4. \A k \in Jobs : k < NextRow => job[k].status # "none"
  BY <1>1, <1>3 DEF With, Jobs
<1> QED BY <1>2, <1>3, <1>4 DEF Adds, HostTypes, JobsInv, JobsTypeOK

QueuesAJob == RetryQueue \/ RestartQueue \/ RedoQueue \/ QueueRemoval

(***************************************************************************)
(* What a step does to the rows: they go on, and only a frame of the host  *)
(* makes a job succeed, or one is added.                                   *)
(***************************************************************************)
LEMMA RowsStep ==
    ASSUME HostTypes, [Next]_vars, ~QueuesAJob
    PROVE  RowsGoOn /\ (~HandleFrame => NoneSucceeds)
<1>1. job \in [Jobs -> Job] /\ JobRowsInv
  BY InvRows DEF HostTypes, JobsInv, JobsTypeOK
<1>2. CASE job' = job
  BY <1>2 DEF RowsGoOn, NoneSucceeds
<1>3. ASSUME NEW j \in Jobs,
             AckTimeout(j) \/ DeadlinePassed(j) \/ HostLost(j) \/ Expire(j) \/ CancelRemoval(j)
      PROVE  RowsGoOn /\ NoneSucceeds
  <2>1. \E status : /\ status \notin {"none", "succeeded"} /\ job[j].status \in Open
                    /\ job' = [job EXCEPT ![j].status = status]
    BY <1>1, <1>3, AgainOrFailedType
       DEF AckTimeout, DeadlinePassed, HostLost, Expire, CancelRemoval, SweepMoves, Moves, Open, Active
  <2> QED BY <1>1, <2>1, StatusGoesOn
<1>4. CASE CancelQueued
  <2>1. {j \in With({"queued"}) : job[j].command # "remove"} \in SUBSET With(Open)
    BY DEF With, Open
  <2> QED BY <1>1, <1>4, <2>1, CancelsGoOn DEF CancelQueued
<1>5. CASE Revoke
  BY <1>1, <1>5, CancelsGoOn DEF Revoke
<1>6. CASE RecordHello \/ Greet \/ OldSocketCloses \/ CloseRevoked
  BY <1>2, <1>6 DEF RecordHello, Greet, OldSocketCloses, CloseRevoked, jobVars
<1>7. CASE RevokeOrphans \/ RetryRevoke \/ CheckHost \/ RetryCheck \/ RestartCheck \/ RedoCheck \/ DeleteAgent
  BY <1>2, <1>7 DEF RevokeOrphans, RetryRevoke, CheckHost, RetryCheck, RestartCheck, RedoCheck,
                     DeleteAgent, jobVars
<1>8. ASSUME NEW d \in Dispatches, Select(d) \/ Claim(d) PROVE RowsGoOn /\ NoneSucceeds
  <2>1. CASE Select(d)
    <3>1. job' = job
      BY <2>1 DEF Select
    <3> QED BY <3>1 DEF RowsGoOn, NoneSucceeds
  <2>2. CASE Claim(d)
    BY <2>2, ClaimGoesOn
  <2> QED BY <1>8, <2>1, <2>2
<1>9. UNCHANGED jobVars \/ UNCHANGED vars => job' = job
  BY DEF jobVars, vars
<1> QED BY <1>2, <1>3, <1>4, <1>5, <1>6, <1>7, <1>8, <1>9, ReconcileGoesOn, FrameGoesOn
        DEF Next, ServerStep, ServerEvent, QueuesAJob

\* Kinds and order of the jobs stay when rows go on.
LEMMA GoOnKeepsSetups ==
    ASSUME job \in [Jobs -> Job], RowsGoOn
    PROVE  /\ \A j \in Jobs : job'[j].status = "none" <=> job[j].status = "none"
           /\ \A j \in Jobs : job[j].status \in Ended => job'[j].status = job[j].status
           /\ Of("provision")' = Of("provision")
           /\ \A s : IsLatest(s)' <=> IsLatest(s)
<1>1. \A j \in Jobs : job'[j].status = "none" <=> job[j].status = "none"
  BY DEF RowsGoOn, Open, Active
<1>2. \A j \in Jobs : job[j].status \in Ended => job'[j].status = job[j].status
  BY DEF RowsGoOn, Open, Active, Ended
<1>3. Of("provision")' = Of("provision")
  BY <1>1 DEF RowsGoOn, Of
<1> QED BY <1>1, <1>2, <1>3 DEF IsLatest

LEMMA RowsInvGoesOn ==
    ASSUME HostTypes, RowsInv, RowsGoOn, deleted => deleted',
           request' = "redoQueue" => deleted', removal' # "none" => deleted',
           request' \in {"retryRevoke", "retryQueue"} =>
               \A s \in Jobs : IsLatest(s) => job[s].status \in Bad
    PROVE  RowsInv'
<1>1. job \in [Jobs -> Job]
  BY DEF HostTypes, JobsInv, JobsTypeOK
<1>2. RowsInOrder'
  BY <1>1, GoOnKeepsSetups DEF RowsInv, RowsInOrder, RowsGoOn
<1>3. RemovalsOfDeleted'
  BY DEF RowsInv, RemovalsOfDeleted, RowsGoOn
<1>4. SetupsInTurn'
  <2>1. \A i, j \in Of("provision") : i < j => job'[i].status \in Ended
    BY <1>1, GoOnKeepsSetups DEF RowsInv, SetupsInTurn, Of
  <2>2. \A s \in Jobs : job[s].status \in Bad => job'[s].status \in Bad
    BY <1>1, GoOnKeepsSetups DEF Bad
  <2> QED BY <1>1, <2>1, <2>2, GoOnKeepsSetups DEF SetupsInTurn
<1> QED BY <1>2, <1>3, <1>4 DEF RowsInv

\* A new row is the latest of its kind.
LEMMA RowsInvAdds ==
    ASSUME HostTypes, RowsInv, NEW n, NEW c \in Commands, Adds(n, c),
           c = "remove" => deleted, UNCHANGED deleted,
           c = "provision" => request = "retryQueue",
           request' \notin {"redoQueue", "retryRevoke", "retryQueue"} \/ request' = request,
           c = "provision" => request' \notin {"redoQueue", "retryRevoke", "retryQueue"},
           removal' \in {"none", removal}
    PROVE  RowsInv'
<1>1. \A k \in Jobs \ {n} : job'[k] = job[k]
  BY DEF Adds
<1>2. /\ n \in Jobs /\ job[n].status = "none" /\ job[n].command = "restart"
      /\ job'[n].status = "queued" /\ job'[n].command = c
      /\ \A k \in Jobs : job[k].status # "none" => k < n
  <2>1. \A k \in Jobs : n < k => job[k].status = "none"
    BY DEF RowsInv, RowsInOrder, Adds
  <2> QED BY <2>1 DEF RowsInv, RowsInOrder, Adds, Jobs
<1>3. RowsInOrder'
  <2>1. 1 \in Of("provision")'
    BY <1>1, <1>2 DEF RowsInv, RowsInOrder, Of
  <2>2. \A j \in Jobs : job'[j].status = "none" => job'[j].command = "restart"
    BY <1>1, <1>2 DEF RowsInv, RowsInOrder
  <2>3. \A i, j \in Jobs : i < j /\ job'[i].status = "none" => job'[j].status = "none"
    <3> SUFFICES ASSUME NEW i \in Jobs, NEW j \in Jobs, i < j, job'[i].status = "none"
                 PROVE  job'[j].status = "none"
      OBVIOUS
    <3>1. i # n /\ job[i].status = "none"
      BY <1>1, <1>2
    <3>2. j # n
      BY <3>1 DEF Adds
    <3> QED BY <1>1, <3>1, <3>2 DEF RowsInv, RowsInOrder
  <2> QED BY <2>1, <2>2, <2>3 DEF RowsInOrder
<1>4. RemovalsOfDeleted'
  <2>1. \A j \in Jobs : job'[j].command = "remove" => deleted
    BY <1>1, <1>2 DEF RowsInv, RemovalsOfDeleted
  <2>2. request' = "redoQueue" \/ removal' # "none" => deleted
    BY DEF RowsInv, RemovalsOfDeleted
  <2> QED BY <2>1, <2>2 DEF RemovalsOfDeleted
<1>5. \A k \in Jobs : k \in Of("provision")' <=> k \in Of("provision") \/ (k = n /\ c = "provision")
  BY <1>1, <1>2 DEF Of
<1>6. SetupsInTurn'
  <2>1. CASE c = "provision"
    <3>1. \A k \in Of("provision") : job[k].status \in Ended
      <4> SUFFICES ASSUME NEW k \in Of("provision") PROVE job[k].status \in Ended
        OBVIOUS
      <4>1. k \in Jobs /\ \A m \in Of("provision") : m \in Jobs
        BY DEF Of
      <4>2. CASE IsLatest(k)
        BY <2>1, <4>1, <4>2 DEF RowsInv, SetupsInTurn, Bad
      <4>3. CASE ~IsLatest(k)
        <5>1. PICK m \in Of("provision") : ~(m <= k)
          BY <4>3 DEF IsLatest
        <5>2. k < m
          BY <4>1, <5>1 DEF Jobs
        <5> QED BY <5>1, <5>2 DEF RowsInv, SetupsInTurn
      <4> QED BY <4>2, <4>3
    <3>2. \A i, j \in Of("provision")' : i < j => job'[i].status \in Ended
      <4> SUFFICES ASSUME NEW i \in Of("provision")', NEW j \in Of("provision")', i < j
                   PROVE  job'[i].status \in Ended
        OBVIOUS
      <4>1. i \in Jobs /\ j \in Jobs
        BY DEF Of
      <4>2. i # n
        <5>1. CASE i = n
          <6>1. j # n /\ j \in Of("provision")
            BY <1>5, <4>1, <5>1 DEF Jobs
          <6>2. j < n
            BY <1>2, <4>1, <6>1 DEF Of
          <6> QED BY <4>1, <5>1, <6>2 DEF Jobs
        <5> QED BY <5>1
      <4> QED BY <1>1, <1>5, <3>1, <4>1, <4>2
    <3> QED BY <2>1, <3>2 DEF SetupsInTurn
  <2>2. CASE c # "provision"
    <3>1. Of("provision")' = Of("provision")
      BY <1>5, <2>2 DEF Of
    <3>2. n \notin Of("provision")
      BY <1>2 DEF Of
    <3>3. \A k \in Of("provision") : job'[k] = job[k] /\ k \in Jobs
      BY <1>1, <3>2 DEF Of
    <3>4. \A k \in Jobs : IsLatest(k)' <=> IsLatest(k)
      BY <3>1 DEF IsLatest
    <3>5. \A k : IsLatest(k) => k \in Of("provision")
      BY DEF IsLatest
    <3>6. \A i, j \in Of("provision")' : i < j => job'[i].status \in Ended
      BY <3>1, <3>3 DEF RowsInv, SetupsInTurn
    <3>7. request' \in {"retryRevoke", "retryQueue"} => request = request'
      OBVIOUS
    <3>8. request' \in {"retryRevoke", "retryQueue"} =>
              \A k \in Jobs : IsLatest(k) => job'[k].status \in Bad
      BY <3>3, <3>5, <3>7 DEF RowsInv, SetupsInTurn
    <3> QED BY <3>4, <3>6, <3>8 DEF SetupsInTurn
  <2> QED BY <2>1, <2>2
<1> QED BY <1>3, <1>4, <1>6 DEF RowsInv

\* The row that a request looks at is that of the latest setup.
LEMMA LatestIs == ASSUME NEW s \in Jobs, IsLatest(s) PROVE Latest(Of("provision")) = s
<1>1. s \in Of("provision") /\ \A k \in Of("provision") : k <= s /\ k \in Jobs
  BY DEF IsLatest, Of
<1>2. \A k \in Of("provision") : (\A m \in Of("provision") : m <= k) => k = s
  BY <1>1 DEF Jobs
<1> QED BY <1>1, <1>2 DEF Latest

LEMMA RowsInvStep == ASSUME HostTypes, RowsInv, [Next]_vars PROVE RowsInv'
<1>1. CASE QueuesAJob
  <2>1. ASSUME NEW step, NEW c \in Commands, Queues(step, c) PROVE Adds(NextRow, c)
    BY <2>1, QueueAdds DEF Queues
  <2>2. CASE RetryQueue
    <3>1. Queues("retryQueue", "provision") /\ "provision" \in Commands
      BY <2>2 DEF RetryQueue, Commands
    <3>2. request = "retryQueue" /\ request' = "none" /\ UNCHANGED <<deleted, removal>>
      BY <3>1 DEF Queues
    <3> QED BY <2>1, <3>1, <3>2, RowsInvAdds
  <2>3. CASE RestartQueue
    <3>1. Queues("restartQueue", "restart") /\ "restart" \in Commands
      BY <2>3 DEF RestartQueue, Commands
    <3>2. request' = "none" /\ UNCHANGED <<deleted, removal>>
      BY <3>1 DEF Queues
    <3> QED BY <2>1, <3>1, <3>2, RowsInvAdds
  <2>4. CASE RedoQueue
    <3>1. Queues("redoQueue", "remove") /\ "remove" \in Commands
      BY <2>4 DEF RedoQueue, Commands
    <3>2. request = "redoQueue" /\ request' = "none" /\ UNCHANGED <<deleted, removal>>
      BY <3>1 DEF Queues
    <3>3. deleted
      BY <3>2 DEF RowsInv, RemovalsOfDeleted
    <3> QED BY <2>1, <3>1, <3>2, <3>3, RowsInvAdds
  <2>5. CASE QueueRemoval
    <3>1. removal = "queue" /\ removal' = "none" /\ UNCHANGED <<deleted, request>>
      BY <2>5 DEF QueueRemoval
    <3>2. Adds(NextRow, "remove") /\ "remove" \in Commands
      BY <2>5, QueueAdds DEF QueueRemoval, Commands
    <3>3. deleted
      BY <3>1 DEF RowsInv, RemovalsOfDeleted
    <3> QED BY <3>1, <3>2, <3>3, RowsInvAdds
  <2> QED BY <1>1, <2>2, <2>3, <2>4, <2>5 DEF QueuesAJob
<1>2. CASE ~QueuesAJob
  <2>1. RowsGoOn
    BY <1>2, RowsStep
  <2>2. CASE UNCHANGED <<deleted, request, removal>>
    BY <2>1, <2>2, RowsInvGoesOn DEF RowsInv, RemovalsOfDeleted, SetupsInTurn
  <2>3. CASE RetryCheck
    <3>1. request' = "retryRevoke" /\ UNCHANGED <<deleted, removal>>
      BY <2>3 DEF RetryCheck, RequestBegins
    <3>2. \A s \in Jobs : IsLatest(s) => job[s].status \in Bad
      BY <2>3, LatestIs DEF RetryCheck, Bad
    <3> QED BY <2>1, <3>1, <3>2, RowsInvGoesOn DEF RowsInv, RemovalsOfDeleted
  <2>4. CASE RetryRevoke
    <3>1. request = "retryRevoke" /\ request' = "retryQueue" /\ UNCHANGED <<deleted, removal>>
      BY <2>4 DEF RetryRevoke
    <3> QED BY <2>1, <3>1, RowsInvGoesOn DEF RowsInv, RemovalsOfDeleted, SetupsInTurn
  <2>5. CASE RestartCheck
    <3>1. request' = "restartQueue" /\ UNCHANGED <<deleted, removal>>
      BY <2>5 DEF RestartCheck, RequestBegins
    <3> QED BY <2>1, <3>1, RowsInvGoesOn DEF RowsInv, RemovalsOfDeleted
  <2>6. CASE RedoCheck
    <3>1. request' = "redoQueue" /\ UNCHANGED <<deleted, removal>>
      BY <2>6 DEF RedoCheck, RequestBegins
    <3>2. deleted
      <4>1. PICK j \in Of("remove") : TRUE
        BY <2>6 DEF RedoCheck
      <4> QED BY <4>1 DEF Of, RowsInv, RemovalsOfDeleted
    <3> QED BY <2>1, <3>1, <3>2, RowsInvGoesOn DEF RowsInv, RemovalsOfDeleted
  <2>7. CASE DeleteAgent
    <3>1. deleted' /\ request' = request
      BY <2>7 DEF DeleteAgent
    <3> QED BY <2>1, <3>1, RowsInvGoesOn DEF RowsInv, SetupsInTurn
  <2>8. CASE CancelQueued \/ CheckHost
    <3>1. removal # "none" /\ UNCHANGED <<deleted, request>>
      BY <2>8 DEF CancelQueued, CheckHost
    <3> QED BY <2>1, <3>1, RowsInvGoesOn DEF RowsInv, RemovalsOfDeleted, SetupsInTurn
  <2>9. \/ UNCHANGED <<deleted, request, removal>>
        \/ RetryCheck \/ RetryRevoke \/ RestartCheck \/ RedoCheck \/ DeleteAgent \/ CancelQueued \/ CheckHost
    <3>1. UNCHANGED jobVars \/ UNCHANGED vars => UNCHANGED <<deleted, request, removal>>
      BY DEF jobVars, vars
    <3>2. ASSUME NEW d \in Dispatches, Select(d) \/ Claim(d) PROVE UNCHANGED <<deleted, request, removal>>
      BY <3>2 DEF Select, Claim
    <3>3. RecordHello \/ Greet \/ Reconcile \/ HandleFrame \/ OldSocketCloses \/ CloseRevoked
          \/ RevokeOrphans \/ Revoke => UNCHANGED <<deleted, request, removal>>
      BY <3>1 DEF RecordHello, Greet, Reconcile, HandleFrame, OldSocketCloses, CloseRevoked,
                  RevokeOrphans, Revoke
    <3>4. ASSUME NEW j \in Jobs,
                 AckTimeout(j) \/ DeadlinePassed(j) \/ HostLost(j) \/ Expire(j) \/ CancelRemoval(j)
          PROVE  UNCHANGED <<deleted, request, removal>>
      BY <3>4 DEF AckTimeout, DeadlinePassed, HostLost, Expire, CancelRemoval, SweepMoves
    <3> QED BY <1>2, <3>1, <3>2, <3>3, <3>4 DEF Next, ServerStep, ServerEvent, QueuesAJob
  <2> QED BY <2>2, <2>3, <2>4, <2>5, <2>6, <2>7, <2>8, <2>9
<1> QED BY <1>1, <1>2

-----------------------------------------------------------------------------
\* Jobs stay, with what they are about.
RowsStay == \A j \in Jobs : job[j].status # "none" =>
                job'[j].status # "none" /\ job'[j].command = job[j].command

\* Records stay, with what they are about, and no removal begins.
FilesKept == \A j \in Jobs :
    /\ file'[j].command = file[j].command /\ file'[j].token = file[j].token
    /\ file'[j].state = "none" <=> file[j].state = "none"
    /\ Pending(j)' => Pending(j)

LEMMA RowsStayStep == ASSUME HostTypes, [Next]_vars PROVE RowsStay
<1>1. job \in [Jobs -> Job]
  BY DEF HostTypes, JobsInv, JobsTypeOK
<1>2. CASE QueuesAJob
  <2>1. \E n, c : Adds(n, c)
    BY <1>2, QueueAdds DEF QueuesAJob, RetryQueue, RestartQueue, RedoQueue, QueueRemoval, Queues, Commands
  <2>2. PICK n, c : Adds(n, c)
    BY <2>1
  <2> QED BY <2>2 DEF Adds, RowsStay
<1>3. CASE ~QueuesAJob
  <2>1. RowsGoOn
    BY <1>3, RowsStep
  <2> QED BY <1>1, <2>1, GoOnKeepsSetups DEF RowsStay, RowsGoOn
<1> QED BY <1>2, <1>3

\* What is on its way is a rest of what was.
RestOf(d) == \A i \in DOMAIN toHost' : i + d \in DOMAIN toHost /\ toHost'[i] = toHost[i + d]

LEMMA RestIs ==
    ASSUME toHost \in Seq(FrameToHost)
    PROVE  /\ toHost' = toHost => RestOf(0)
           /\ toHost' = <<>> => RestOf(0)
           /\ toHost # <<>> /\ toHost' = Tail(toHost) => RestOf(1)
BY DEF RestOf

LEMMA RestKeepsCommands ==
    ASSUME HostTypes, HostTypes', CommandsInv, RowsStay, NEW d \in {0, 1}, RestOf(d), CommandsAreNew'
    PROVE  CommandsInv'
<1>0. toHost \in Seq(FrameToHost) /\ toHost' \in Seq(FrameToHost)
  BY DEF HostTypes, LinkInv, LinkTypeOK
<1>1. CommandsOfJobs'
  <2> SUFFICES ASSUME NEW i \in DOMAIN toHost'
               PROVE  /\ toHost'[i].command \in Commands =>
                             /\ toHost'[i].job \in Jobs
                             /\ job'[toHost'[i].job].status # "none"
                             /\ toHost'[i].command = job'[toHost'[i].job].command
                      /\ MayStart(toHost'[i]) => toHost'[i].token[1] = toHost'[i].job
    BY DEF CommandsOfJobs, MayStart
  <2> QED BY DEF CommandsInv, CommandsOfJobs, RowsStay, RestOf
<1>2. CommandsInOrder'
  <2> SUFFICES ASSUME NEW i \in DOMAIN toHost', NEW k \in DOMAIN toHost', i < k, MayStart(toHost'[k])
               PROVE  /\ toHost'[i].command # "remove"
                      /\ MayStart(toHost'[i]) => toHost'[i].job <= toHost'[k].job
    BY DEF CommandsInOrder, MayStart
  <2>1. i + d < k + d
    BY <1>0
  <2> QED BY <2>1 DEF CommandsInv, CommandsInOrder, RestOf
<1> QED BY <1>1, <1>2 DEF CommandsInv

\* No record comes: what was new to the host still is.
LEMMA KeptAreNew ==
    ASSUME CommandsInv, FilesKept, NEW d \in {0, 1}, RestOf(d)
    PROVE  CommandsAreNew'
<1> SUFFICES ASSUME NEW k \in DOMAIN toHost', NEW j \in Jobs, MayStart(toHost'[k])
             PROVE  /\ ~Pending(j)'
                    /\ file'[j].state # "none" =>
                           /\ file'[j].command # "remove"
                           /\ file'[j].command = "provision" => j <= toHost'[k].job
  BY DEF CommandsAreNew, MayStart
<1> QED BY DEF CommandsInv, CommandsAreNew, FilesKept, RestOf

\* Frames for the host that start no setup.
LEMMA SaidKeepsCommands ==
    ASSUME HostTypes, CommandsInv, RowsStay, FilesKept,
           NEW new \in Seq(FrameToHost), toHost' = toHost \o new,
           \A i \in DOMAIN new :
               /\ ~MayStart(new[i])
               /\ new[i].command \in Commands =>
                      /\ new[i].job \in Jobs
                      /\ job[new[i].job].status # "none"
                      /\ new[i].command = job[new[i].job].command
    PROVE  CommandsInv'
<1>1. toHost \in Seq(FrameToHost)
  BY DEF HostTypes, LinkInv, LinkTypeOK
<1>2. ASSUME NEW i \in DOMAIN toHost'
      PROVE  \/ i \in DOMAIN toHost /\ toHost'[i] = toHost[i]
             \/ /\ ~MayStart(toHost'[i])
                /\ toHost'[i].command \in Commands =>
                      /\ toHost'[i].job \in Jobs
                      /\ job[toHost'[i].job].status # "none"
                      /\ toHost'[i].command = job[toHost'[i].job].command
  <2>1. i \in 1..(Len(toHost) + Len(new))
    BY <1>1, <1>2
  <2>2. CASE i <= Len(toHost)
    BY <1>1, <2>1, <2>2
  <2>3. CASE i > Len(toHost)
    <3>1. i - Len(toHost) \in DOMAIN new /\ toHost'[i] = new[i - Len(toHost)]
      BY <1>1, <2>1, <2>3
    <3> QED BY <3>1
  <2> QED BY <1>1, <2>1, <2>2, <2>3
<1>3. \A i \in DOMAIN toHost', k \in DOMAIN toHost : i < k => i \in DOMAIN toHost /\ toHost'[i] = toHost[i]
  BY <1>1
<1>4. CommandsOfJobs'
  <2> SUFFICES ASSUME NEW i \in DOMAIN toHost'
               PROVE  /\ toHost'[i].command \in Commands =>
                             /\ toHost'[i].job \in Jobs
                             /\ job'[toHost'[i].job].status # "none"
                             /\ toHost'[i].command = job'[toHost'[i].job].command
                      /\ MayStart(toHost'[i]) => toHost'[i].token[1] = toHost'[i].job
    BY DEF CommandsOfJobs, MayStart
  <2>1. CASE i \in DOMAIN toHost /\ toHost'[i] = toHost[i]
    BY <2>1 DEF CommandsInv, CommandsOfJobs, RowsStay
  <2>2. CASE ~(i \in DOMAIN toHost /\ toHost'[i] = toHost[i])
    <3>1. /\ ~MayStart(toHost'[i])
          /\ toHost'[i].command \in Commands =>
                 /\ toHost'[i].job \in Jobs
                 /\ job[toHost'[i].job].status # "none"
                 /\ toHost'[i].command = job[toHost'[i].job].command
      BY <1>2, <2>2
    <3> QED BY <3>1 DEF RowsStay
  <2> QED BY <2>1, <2>2
<1>5. CommandsInOrder'
  <2> SUFFICES ASSUME NEW i \in DOMAIN toHost', NEW k \in DOMAIN toHost', i < k, MayStart(toHost'[k])
               PROVE  /\ toHost'[i].command # "remove"
                      /\ MayStart(toHost'[i]) => toHost'[i].job <= toHost'[k].job
    BY DEF CommandsInOrder, MayStart
  <2>1. k \in DOMAIN toHost /\ toHost'[k] = toHost[k]
    BY <1>2
  <2>2. i \in DOMAIN toHost /\ toHost'[i] = toHost[i]
    BY <1>3, <2>1
  <2> QED BY <2>1, <2>2 DEF CommandsInv, CommandsInOrder
<1>6. CommandsAreNew'
  <2> SUFFICES ASSUME NEW k \in DOMAIN toHost', NEW j \in Jobs, MayStart(toHost'[k])
               PROVE  /\ ~Pending(j)'
                      /\ file'[j].state # "none" =>
                             /\ file'[j].command # "remove"
                             /\ file'[j].command = "provision" => j <= toHost'[k].job
    BY DEF CommandsAreNew, MayStart
  <2>1. k \in DOMAIN toHost /\ toHost'[k] = toHost[k]
    BY <1>2
  <2> QED BY <2>1 DEF CommandsInv, CommandsAreNew, FilesKept
<1> QED BY <1>4, <1>5, <1>6 DEF CommandsInv

\* The frame of a setup: the agent lives, so nothing was removed, and it is the latest setup.
LEMMA SetupKeepsCommands ==
    ASSUME HostTypes, RowsInv, CommandsInv, FilesInv, DiscardInv, RowsStay, UNCHANGED <<file, awaited>>,
           ~deleted,
           NEW j \in Of("provision"), job[j].status \notin Ended,
           NEW f, f.job = j, f.command = "provision", f.token[1] = j, toHost' = Append(toHost, f)
    PROVE  CommandsInv'
<1>1. toHost \in Seq(FrameToHost)
  BY DEF HostTypes, LinkInv, LinkTypeOK
<1>2. DOMAIN toHost' = 1..(Len(toHost) + 1) /\ DOMAIN toHost = 1..Len(toHost) /\ Len(toHost) \in Nat
      /\ toHost'[Len(toHost) + 1] = f /\ \A i \in DOMAIN toHost : toHost'[i] = toHost[i]
  BY <1>1
<1>3. \A k \in Of("provision") : k <= j /\ k \in Jobs
  BY DEF RowsInv, SetupsInTurn, Of, Jobs
<1>4. \A k \in Jobs : job[k].command # "remove"
  BY DEF RowsInv, RemovalsOfDeleted
<1>5. CommandsOfJobs'
  <2> SUFFICES ASSUME NEW i \in DOMAIN toHost'
               PROVE  /\ toHost'[i].command \in Commands =>
                             /\ toHost'[i].job \in Jobs
                             /\ job'[toHost'[i].job].status # "none"
                             /\ toHost'[i].command = job'[toHost'[i].job].command
                      /\ MayStart(toHost'[i]) => toHost'[i].token[1] = toHost'[i].job
    BY DEF CommandsOfJobs, MayStart
  <2>1. CASE i \in DOMAIN toHost
    BY <1>2, <2>1 DEF CommandsInv, CommandsOfJobs, RowsStay
  <2>2. CASE i = Len(toHost) + 1
    BY <1>2, <2>2 DEF Of, RowsStay
  <2> QED BY <1>2, <2>1, <2>2
<1>6. \A i \in DOMAIN toHost : /\ toHost[i].command # "remove"
                               /\ MayStart(toHost[i]) => toHost[i].job <= j
  <2> SUFFICES ASSUME NEW i \in DOMAIN toHost, toHost[i].command \in Commands
               PROVE  /\ toHost[i].command # "remove"
                      /\ toHost[i].command = "provision" => toHost[i].job <= j
    BY DEF MayStart, Commands
  <2>1. toHost[i].job \in Jobs /\ job[toHost[i].job].status # "none"
        /\ toHost[i].command = job[toHost[i].job].command
    BY DEF CommandsInv, CommandsOfJobs
  <2> QED BY <1>3, <1>4, <2>1 DEF Of
<1>7. CommandsInOrder'
  <2> SUFFICES ASSUME NEW i \in DOMAIN toHost', NEW k \in DOMAIN toHost', i < k, MayStart(toHost'[k])
               PROVE  /\ toHost'[i].command # "remove"
                      /\ MayStart(toHost'[i]) => toHost'[i].job <= toHost'[k].job
    BY DEF CommandsInOrder, MayStart
  <2>1. i \in DOMAIN toHost /\ toHost'[i] = toHost[i]
    BY <1>2
  <2>2. CASE k \in DOMAIN toHost
    BY <1>2, <2>1, <2>2 DEF CommandsInv, CommandsInOrder
  <2>3. CASE k = Len(toHost) + 1
    BY <1>2, <1>6, <2>1, <2>3
  <2> QED BY <1>2, <2>2, <2>3
<1>8. CommandsAreNew'
  <2> SUFFICES ASSUME NEW k \in DOMAIN toHost', NEW i \in Jobs, MayStart(toHost'[k]), file[i].state # "none"
               PROVE  /\ file[i].command # "remove"
                      /\ file[i].command = "provision" => i <= toHost'[k].job
    <3>1. \A i \in Jobs : ~Pending(i)'
      BY <1>4 DEF DiscardInv, Pending
    <3> QED BY <3>1 DEF CommandsAreNew, MayStart
  <2>1. job[i].status # "none" /\ file[i].command = job[i].command
    BY DEF FilesInv, FilesOfJobs
  <2>2. CASE k \in DOMAIN toHost
    BY <1>2, <2>2 DEF CommandsInv, CommandsAreNew
  <2>3. CASE k = Len(toHost) + 1
    BY <1>2, <1>3, <1>4, <2>1, <2>3 DEF Of
  <2> QED BY <1>2, <2>2, <2>3
<1> QED BY <1>5, <1>7, <1>8 DEF CommandsInv

\* The server's steps: it greets, tells of finished jobs again, and sends one that is queued.
LEMMA ServerKeepsCommands ==
    ASSUME HostTypes, HostTypes', RowsInv, CommandsInv, FilesInv, DiscardInv,
           ServerStep \/ ServerEvent, UNCHANGED daemonVars
    PROVE  CommandsInv'
<1>1. toHost \in Seq(FrameToHost) /\ job \in [Jobs -> Job]
  BY DEF HostTypes, LinkInv, LinkTypeOK, JobsInv, JobsTypeOK
<1>2. RowsStay
  BY RowsStayStep DEF Next
<1>3. UNCHANGED <<file, awaited>> /\ FilesKept
  BY DEF daemonVars, FilesKept, Pending
<1>4. CASE toHost' = toHost \/ toHost' = <<>>
  <2>1. RestOf(0)
    BY <1>1, <1>4, RestIs
  <2>2. CommandsAreNew'
    BY <1>3, <2>1, KeptAreNew
  <2> QED BY <1>2, <2>1, <2>2, RestKeepsCommands
<1>5. CASE Greet
  <2>0. PICK f \in FrameToHost : f = Welcome
    BY DEF FrameToHost
  <2>1. toHost' = toHost \o <<f>> /\ <<f>> \in Seq(FrameToHost)
    BY <1>1, <1>5, <2>0 DEF Greet
  <2>2. f.command = "welcome"
    BY <2>0 DEF Welcome
  <2>3. ~MayStart(f) /\ f.command \notin Commands
    BY <2>2 DEF MayStart, Commands
  <2>4. \A i \in DOMAIN <<f>> : <<f>>[i] = f
    OBVIOUS
  <2> QED BY <1>2, <1>3, <2>1, <2>3, <2>4, SaidKeepsCommands
<1>6. CASE Reconcile
  <2> DEFINE again == {j \in With(Active) : reported[j] = "done"}
             n == Cardinality(again)
             sent == [i \in 1..n |-> CommandFrame(SetToSeq(again)[i], NoToken)]
  <2>1. IsFiniteSet(again)
    <3>1. IsFiniteSet(Jobs)
      BY FS_Interval, HostAssumption DEF Jobs
    <3> QED BY <3>1, FS_Subset DEF With
  <2>2. n \in Nat /\ SetToSeq(again) \in [1..n -> again]
    BY <2>1, SequenceOf
  <2>3. ASSUME NEW j \in again
        PROVE  LET f == CommandFrame(j, NoToken)
               IN /\ f \in FrameToHost /\ ~MayStart(f)
                  /\ f.job \in Jobs /\ job[f.job].status # "none" /\ f.command = job[f.job].command
    <3>1. j \in Jobs /\ job[j].command \in Commands /\ job[j].status \in Active
      BY <1>1 DEF Job, With
    <3>2. CommandFrame(j, NoToken).job = j /\ CommandFrame(j, NoToken).token = NoToken
          /\ CommandFrame(j, NoToken).command = job[j].command
      BY DEF CommandFrame
    <3>3. CommandFrame(j, NoToken) \in FrameToHost
      BY <3>1, HostAssumption DEF CommandFrame, FrameToHost, NoToken
    <3> QED BY <3>1, <3>2, <3>3 DEF MayStart, Active
  <2>4. \A i \in 1..n : SetToSeq(again)[i] \in again
    BY <2>2
  <2>5. \A i \in 1..n : /\ sent[i] \in FrameToHost /\ ~MayStart(sent[i])
                        /\ sent[i].job \in Jobs /\ job[sent[i].job].status # "none"
                        /\ sent[i].command = job[sent[i].job].command
    BY <2>3, <2>4
  <2>6. sent = [i \in 1..n |-> sent[i]] /\ toHost' = toHost \o sent
    BY <1>6 DEF Reconcile
  <2> HIDE DEF sent, n
  <2>7. sent \in [1..n -> FrameToHost] /\ DOMAIN sent = 1..n
    BY <2>5, <2>6
  <2>8. sent \in Seq(FrameToHost)
    BY <2>2, <2>7
  <2> QED BY <1>2, <1>3, <2>5, <2>6, <2>7, <2>8, SaidKeepsCommands
<1>7. ASSUME NEW d \in Dispatches, Claim(d) PROVE CommandsInv'
  <2> DEFINE j == dispatch[d].job
             setup == job[j].command = "provision"
             attempt == job[j].attempts + 1
             token == IF setup THEN <<j, attempt>> ELSE NoToken
             f == CommandFrame(j, token)
  <2>1. j \in Jobs /\ job[j] \in Job
    BY <1>7 DEF Claim, HostTypes, JobsInv, JobsTypeOK, ClaimsAJob, Dispatch, Jobs
  <2>2. \/ toHost' = toHost
        \/ /\ toHost' = Append(toHost, f) /\ job[j].status = "queued"
           /\ setup => ~deleted
    BY <1>7 DEF Claim, MayBeSetUp
  <2>3. f.job = j /\ f.command = job[j].command /\ f.token = token
    BY DEF CommandFrame
  <2>4. CASE toHost' = toHost
    BY <1>4, <2>4
  <2>5. CASE toHost' = Append(toHost, f) /\ job[j].status = "queued" /\ setup /\ ~deleted
    <3>1. j \in Of("provision") /\ job[j].status \notin Ended
      BY <2>1, <2>5 DEF Of, Ended
    <3>2. f.command = "provision" /\ f.token[1] = j
      BY <2>3, <2>5
    <3> HIDE DEF f
    <3> QED BY <1>2, <1>3, <2>3, <2>5, <3>1, <3>2, SetupKeepsCommands
  <2>6. CASE toHost' = Append(toHost, f) /\ job[j].status = "queued" /\ ~setup
    <3>1. f \in FrameToHost
      BY <2>1, <2>6, HostAssumption DEF CommandFrame, FrameToHost, NoToken, Job
    <3>2. ~MayStart(f)
      BY <2>3, <2>6 DEF MayStart
    <3> HIDE DEF f
    <3>3. <<f>> \in Seq(FrameToHost) /\ toHost' = toHost \o <<f>> /\ \A i \in DOMAIN <<f>> : <<f>>[i] = f
      BY <1>1, <2>6, <3>1
    <3> QED BY <1>2, <1>3, <2>1, <2>3, <2>6, <3>2, <3>3, SaidKeepsCommands
  <2> QED BY <2>2, <2>4, <2>5, <2>6
<1>8. RecordHello \/ HandleFrame \/ OldSocketCloses \/ CloseRevoked => toHost' = toHost \/ toHost' = <<>>
  BY DEF RecordHello, HandleFrame, OldSocketCloses, CloseRevoked, Closed
<1>9. RevokeOrphans \/ RetryRevoke \/ CheckHost \/ RetryCheck \/ RestartCheck \/ RedoCheck \/ DeleteAgent
      \/ CancelQueued \/ Revoke => toHost' = toHost
  BY DEF RevokeOrphans, RetryRevoke, CheckHost, RetryCheck, RestartCheck, RedoCheck, DeleteAgent,
         CancelQueued, Revoke, linkVars
<1>10. QueuesAJob => toHost' = toHost
  BY DEF QueuesAJob, RetryQueue, RestartQueue, RedoQueue, QueueRemoval, Queues, linkVars
<1>11. ASSUME NEW d \in Dispatches, Select(d) PROVE toHost' = toHost
  BY <1>11 DEF Select, linkVars
<1>12. ASSUME NEW j \in Jobs,
              AckTimeout(j) \/ DeadlinePassed(j) \/ HostLost(j) \/ Expire(j) \/ CancelRemoval(j)
       PROVE  toHost' = toHost
  BY <1>12 DEF AckTimeout, DeadlinePassed, HostLost, Expire, CancelRemoval, SweepMoves, linkVars
<1> QED BY <1>4, <1>5, <1>6, <1>7, <1>8, <1>9, <1>10, <1>11, <1>12
        DEF ServerStep, ServerEvent, QueuesAJob

-----------------------------------------------------------------------------
(***************************************************************************)
(* Records go on: none starts to run, a setup the daemon lost track of     *)
(* stays lost once it was started, and a success is that of the unit.      *)
(***************************************************************************)
FilesGoOn == \A j \in Jobs :
    /\ file'[j].command = file[j].command /\ file'[j].token = file[j].token
    /\ file'[j].state = "none" <=> file[j].state = "none"
    /\ file'[j].state = "running" => file[j].state = "running"
    /\ Outlived(j) /\ j \notin starting => Outlived(j)'
    /\ \/ file'[j].ok = file[j].ok
       \/ file[j].state = "running" /\ file'[j].state = "done" /\ (file'[j].ok <=> unit[j] = "ok")

\* One record goes on.
LEMMA RecordGoesOn ==
    ASSUME file \in [Jobs -> File], NEW j \in Jobs, NEW f, file' = [file EXCEPT ![j] = f],
           f.command = file[j].command, f.token = file[j].token,
           f.state # "none", file[j].state # "none",
           f.state = "running" => file[j].state = "running",
           Outlived(j) /\ j \notin starting => f.state \in {"lost", "corrupt", "tombstone"},
           \/ f.ok = file[j].ok
           \/ file[j].state = "running" /\ f.state = "done" /\ (f.ok <=> unit[j] = "ok")
    PROVE  FilesGoOn
<1>1. file'[j] = f /\ \A k \in Jobs \ {j} : file'[k] = file[k]
  OBVIOUS
<1> QED BY <1>1 DEF FilesGoOn, Outlived

TakesCommand == RecordDiscard \/ SaveRecord

LEMMA FilesStep ==
    ASSUME HostTypes, UnitInv, [Next]_vars, ~TakesCommand
    PROVE  FilesGoOn
<1>1. file \in [Jobs -> File] /\ DaemonTypeOK
  BY DEF HostTypes, DaemonTypeOK
<1>2. CASE file' = file
  BY <1>2 DEF FilesGoOn, Outlived
<1>3. ASSUME NEW j \in Jobs, NEW state,
             file' = [file EXCEPT ![j] = [file[j] EXCEPT !.state = state]],
             state \notin {"none", "running"}, file[j].state # "none",
             Outlived(j) /\ j \notin starting => state \in {"lost", "corrupt", "tombstone"}
      PROVE  FilesGoOn
  <2>1. PICK f : f = [file[j] EXCEPT !.state = state]
    OBVIOUS
  <2>2. file[j] \in File
    BY <1>1
  <2>3. f.state = state /\ f.command = file[j].command /\ f.token = file[j].token /\ f.ok = file[j].ok
    BY <2>1, <2>2 DEF File
  <2>4. file' = [file EXCEPT ![j] = f]
    BY <1>3, <2>1
  <2> QED BY <1>1, <1>3, <2>3, <2>4, RecordGoesOn
<1>4. CASE ReplayKnown
  <2>1. PICK j \in Jobs : j = Head(toHost).job
    BY <1>4, CommandReceived DEF ReplayKnown, HostTypes
  <2>2. /\ file[j].state # "none"
        /\ file' = [file EXCEPT ![j] = [file[j] EXCEPT !.state = AfterReport(file[j].state)]]
    BY <1>1, <1>4, <2>1 DEF ReplayKnown
  <2>3. CASE file[j].state = "corrupt"
    <3>1. AfterReport(file[j].state) = "tombstone"
      BY <2>3 DEF AfterReport
    <3>2. file' = [file EXCEPT ![j] = [file[j] EXCEPT !.state = "tombstone"]]
      BY <2>2, <3>1
    <3>3. "tombstone" \notin {"none", "running"} /\ "tombstone" \in {"lost", "corrupt", "tombstone"}
      OBVIOUS
    <3> QED BY <1>3, <2>2, <3>2, <3>3
  <2>4. CASE file[j].state # "corrupt"
    <3>1. [file[j] EXCEPT !.state = file[j].state] = file[j]
      BY <1>1 DEF File
    <3>2. file' = file
      BY <1>1, <2>2, <2>4, <3>1 DEF AfterReport
    <3> QED BY <1>2, <3>2
  <2> QED BY <2>3, <2>4
<1>5. ASSUME NEW j \in Jobs, CorruptRecord(j) PROVE FilesGoOn
  <2>1. file' = [file EXCEPT ![j] = [file[j] EXCEPT !.state = "corrupt"]] /\ file[j].state # "none"
    BY <1>1, <1>5 DEF CorruptRecord
  <2>2. "corrupt" \notin {"none", "running"} /\ "corrupt" \in {"lost", "corrupt", "tombstone"}
    OBVIOUS
  <2> QED BY <1>3, <2>1, <2>2
<1>6. ASSUME NEW j \in Jobs, StartUnit(j) PROVE FilesGoOn
  <2>1. \/ file' = file \/ file' = [file EXCEPT ![j] = [file[j] EXCEPT !.state = "done"]]
        \/ file' = [file EXCEPT ![j] = [file[j] EXCEPT !.state = "lost"]]
    BY <1>1, <1>6 DEF StartUnit
  <2>2. j \in starting /\ file[j].state # "none"
    BY <1>6 DEF StartUnit, UnitInv, UnknownUntouched
  <2>3. CASE file' = file
    BY <1>2, <2>3
  <2>4. CASE file' = [file EXCEPT ![j] = [file[j] EXCEPT !.state = "done"]]
    <3>1. "done" \notin {"none", "running"}
      OBVIOUS
    <3> QED BY <1>3, <2>2, <2>4, <3>1
  <2>5. CASE file' = [file EXCEPT ![j] = [file[j] EXCEPT !.state = "lost"]]
    <3>1. "lost" \notin {"none", "running"} /\ "lost" \in {"lost", "corrupt", "tombstone"}
      OBVIOUS
    <3> QED BY <1>3, <2>2, <2>5, <3>1
  <2> QED BY <2>1, <2>3, <2>4, <2>5
<1>7. ASSUME NEW j \in Jobs, Poll(j) PROVE FilesGoOn
  <2>1. PICK f : f = [file[j] EXCEPT !.state = "done", !.ok = unit[j] = "ok"]
    OBVIOUS
  <2>2. file[j] \in File
    BY <1>1
  <2>3. f.state = "done" /\ f.command = file[j].command /\ f.token = file[j].token
        /\ (f.ok <=> unit[j] = "ok")
    BY <2>1, <2>2 DEF File
  <2>4. file' = [file EXCEPT ![j] = f] /\ file[j].state = "running"
    BY <1>7, <2>1 DEF Poll, Finish
  <2> QED BY <1>1, <2>3, <2>4, RecordGoesOn DEF Outlived
<1>8. ASSUME NEW j \in Jobs, PollDeadline(j) \/ PollMissing(j) PROVE FilesGoOn
  <2>1. \E state \in {"done", "lost"} : file' = [file EXCEPT ![j] = [file[j] EXCEPT !.state = state]]
    BY <1>8 DEF PollDeadline, PollMissing, Finish
  <2>2. file[j].state = "running"
    BY <1>8 DEF PollDeadline, PollMissing, Finish
  <2> QED BY <1>3, <2>1, <2>2 DEF Outlived
<1>9. ASSUME NEW j \in Jobs,
             WriteProfile(j) \/ UnitSucceeds(j) \/ UnitFails(j) \/ UnitDies(j) \/ EndDiscard(j)
      PROVE  file' = file
  BY <1>9 DEF WriteProfile, UnitSucceeds, UnitFails, UnitDies, UnitMoves, EndDiscard
<1>10. BeginSession \/ Decline \/ BeginDiscard \/ HostConnects \/ LinkBreaks \/ Crash => file' = file
  BY DEF BeginSession, Decline, BeginDiscard, HostConnects, Connect, LinkBreaks, Crash, daemonVars
<1>11. UNCHANGED daemonVars \/ UNCHANGED vars => file' = file
  BY DEF daemonVars, vars
<1> QED BY <1>2, <1>4, <1>5, <1>6, <1>7, <1>8, <1>9, <1>10, <1>11
        DEF Next, HostStep, HostFault, TakesCommand

\* Setups that are lost stay so, and what starts had no record.
LEMMA AstrayStays ==
    ASSUME FilesGoOn, starting' \subseteq starting, Astray PROVE Astray'
BY DEF Astray, FilesGoOn

LEMMA FilesInvGoesOn ==
    ASSUME FilesInv, RowsStay, FilesGoOn PROVE FilesInv'
<1>1. FilesOfJobs'
  BY DEF FilesInv, FilesOfJobs, RowsStay, FilesGoOn
<1>2. LastIsFollowed'
  BY DEF FilesInv, LastIsFollowed, FilesGoOn
<1> QED BY <1>1, <1>2 DEF FilesInv

\* A removal the session waits for began in this step, or was under way.
LEMMA PendingGoesOn ==
    ASSUME HostTypes, UnitInv, [Next]_vars, ~BeginDiscard
    PROVE  \A j \in Jobs : Pending(j)' => Pending(j)
<1>1. file \in [Jobs -> File] /\ \A j \in Jobs : j # 0
  BY DEF HostTypes, DaemonTypeOK, Jobs
<1>2. CASE SaveRecord
  <2>1. PICK j \in Jobs : j = Head(toHost).job
    BY <1>2, CommandReceived DEF SaveRecord, Accepts, HostTypes
  <2>2. awaited' = j /\ file'[j].state = "running"
    BY <1>1, <1>2, <2>1 DEF SaveRecord
  <2> QED BY <2>2 DEF Pending
<1>3. RecordDiscard \/ LinkBreaks \/ Crash => awaited' = 0
  BY DEF RecordDiscard, LinkBreaks, Crash, StopsWaiting
<1>4. ASSUME NEW j \in Jobs, StartUnit(j) PROVE awaited' = 0 \/ awaited' = awaited
  BY <1>4 DEF StartUnit
<1>5. BeginSession \/ ReplayKnown \/ Decline \/ HostConnects => awaited' = awaited
  BY DEF BeginSession, ReplayKnown, Decline, HostConnects, Connect, daemonVars
<1>6. ASSUME NEW j \in Jobs,
             \/ EndDiscard(j) \/ WriteProfile(j) \/ UnitSucceeds(j) \/ UnitFails(j)
             \/ Poll(j) \/ PollDeadline(j) \/ PollMissing(j) \/ CorruptRecord(j) \/ UnitDies(j)
      PROVE  awaited' = awaited
  BY <1>6 DEF EndDiscard, WriteProfile, UnitSucceeds, UnitFails, Poll, PollDeadline, PollMissing, Finish,
              CorruptRecord, UnitDies, UnitMoves
<1>7. UNCHANGED daemonVars \/ UNCHANGED vars => awaited' = awaited
  BY DEF daemonVars, vars
<1>8. ASSUME awaited' = 0 \/ awaited' = awaited, ~TakesCommand
      PROVE  \A j \in Jobs : Pending(j)' => Pending(j)
  BY <1>1, <1>8, FilesStep DEF FilesGoOn, Pending
<1>9. awaited' = 0 => \A j \in Jobs : Pending(j)' => Pending(j)
  BY <1>1 DEF Pending
<1>10. SaveRecord \/ awaited' = 0 \/ awaited' = awaited
  BY <1>3, <1>4, <1>5, <1>6, <1>7 DEF Next, HostStep, HostFault
<1> QED BY <1>2, <1>3, <1>8, <1>9, <1>10 DEF TakesCommand

LEMMA GoOnIsKept == ASSUME FilesGoOn, \A j \in Jobs : Pending(j)' => Pending(j) PROVE FilesKept
BY DEF FilesGoOn, FilesKept

\* The daemon records a job it had no record of: that of the next command, which it starts, or the
\* removal its session waited for.
TakesFrame(j) ==
    /\ toHost # <<>> /\ toHost[1].job = j /\ toHost' = Tail(toHost)
    /\ file'[j].command = toHost[1].command
    /\ file'[j].state = "running" /\ ~file'[j].ok
    /\ file'[j].command = "provision" => MayStart(toHost[1]) /\ file'[j].token = toHost[1].token
    /\ starting' \subseteq starting \cup {j}

TakesRemoval(j) ==
    /\ Pending(j) /\ toHost' = toHost
    /\ file'[j].command = "remove"
    /\ file'[j].state = "done" /\ (file'[j].ok => discard[j] = "done")
    /\ starting' = starting

Takes(j) ==
    /\ j \in Jobs /\ file[j].state = "none" /\ \A k \in Jobs : file[k].state # "running"
    /\ \A k \in Jobs \ {j} : file'[k] = file[k]
    /\ file'[j].command \in Commands
    /\ \A k \in Jobs : ~Pending(k)'
    /\ TakesFrame(j) \/ TakesRemoval(j)
    /\ UNCHANGED <<unit, live, profile>>

LEMMA SaveTakes == ASSUME HostTypes, SaveRecord PROVE \E j \in Jobs : Takes(j)
<1>1. PICK j \in Jobs : j = Head(toHost).job
  BY CommandReceived DEF SaveRecord, Accepts, HostTypes
<1>2. file \in [Jobs -> File]
  BY DEF HostTypes, DaemonTypeOK
<1>3. PICK frame \in FrameToHost : frame = Head(toHost)
  BY CommandReceived DEF SaveRecord, Accepts, HostTypes
<1>4. /\ toHost \in Seq(FrameToHost) /\ toHost # <<>> /\ toHost' = Tail(toHost) /\ frame = toHost[1]
      /\ file[j].state = "none" /\ ~Busy /\ ~Refuses(frame)
  BY <1>1, <1>3 DEF SaveRecord, Accepts, Receives, HostTypes, LinkInv, LinkTypeOK
<1>5. \A k \in Jobs : file[k].state # "running"
  BY <1>4 DEF Busy
<1>6. frame.command \in Commands /\ frame.job = j
  <2>1. frame # Welcome
    BY <1>1, <1>3 DEF Welcome, Jobs
  <2> QED BY <1>1, <1>3, <2>1 DEF FrameToHost
<1>7. frame.command = "provision" => MayStart(frame)
  BY <1>4 DEF Refuses, MayStart
<1>8. PICK f : f = [state |-> "running", command |-> frame.command, ok |-> FALSE, token |-> frame.token]
  OBVIOUS
<1>9. /\ file' = [file EXCEPT ![j] = f] /\ UNCHANGED <<unit, live, profile>>
      /\ starting' = starting \cup {j} /\ awaited' = j
  BY <1>1, <1>3, <1>8 DEF SaveRecord
<1>10. file'[j] = f /\ \A k \in Jobs \ {j} : file'[k] = file[k]
  BY <1>2, <1>9
<1>11. \A k \in Jobs : ~Pending(k)'
  BY <1>8, <1>9, <1>10 DEF Pending
<1>12. TakesFrame(j)
  BY <1>4, <1>6, <1>7, <1>8, <1>9, <1>10 DEF TakesFrame
<1> QED BY <1>4, <1>5, <1>6, <1>8, <1>9, <1>10, <1>11, <1>12 DEF Takes

LEMMA RecordTakes == ASSUME HostTypes, DiscardInv, RecordDiscard PROVE \E j \in Jobs : Takes(j)
<1>1. PICK j \in Jobs : j = awaited /\ Pending(j)
  BY DEF RecordDiscard, HostTypes, DaemonTypeOK
<1>2. file \in [Jobs -> File] /\ file[j].state = "none" /\ \A k \in Jobs : file[k].state # "running"
  BY <1>1 DEF HostTypes, DaemonTypeOK, DiscardInv, Pending
<1>3. PICK f : f = [state |-> "done", command |-> "remove", ok |-> discard[j] = "done", token |-> NoToken]
  OBVIOUS
<1>4. /\ file' = [file EXCEPT ![j] = f] /\ awaited' = 0
      /\ UNCHANGED <<toHost, unit, live, profile, starting>>
  BY <1>1, <1>3 DEF RecordDiscard
<1>5. file'[j] = f /\ \A k \in Jobs \ {j} : file'[k] = file[k]
  BY <1>2, <1>4
<1>6. f.state = "done" /\ f.command = "remove" /\ (f.ok => discard[j] = "done")
  BY <1>3
<1>7. \A k \in Jobs : ~Pending(k)'
  BY <1>4 DEF Pending, Jobs
<1>8. TakesRemoval(j)
  BY <1>1, <1>4, <1>5, <1>6 DEF TakesRemoval
<1> QED BY <1>2, <1>4, <1>5, <1>6, <1>7, <1>8 DEF Takes, Commands

LEMMA TakesIs ==
    ASSUME HostTypes, DiscardInv, TakesCommand
    PROVE  \E j \in Jobs : Takes(j)
BY SaveTakes, RecordTakes DEF TakesCommand

\* A command is taken: what is still on its way is newer.
LEMMA TakesKeepsCommands ==
    ASSUME HostTypes, HostTypes', CommandsInv, RowsStay, NEW j \in Jobs, Takes(j)
    PROVE  CommandsInv'
<1>0. toHost \in Seq(FrameToHost)
  BY DEF HostTypes, LinkInv, LinkTypeOK
<1>1. CASE TakesFrame(j)
  <2>1. toHost # <<>> /\ toHost' = Tail(toHost) /\ RestOf(1)
    BY <1>0, <1>1, RestIs DEF TakesFrame
  <2>2. CommandsAreNew'
    <3> SUFFICES ASSUME NEW k \in DOMAIN toHost', NEW i \in Jobs, MayStart(toHost'[k]), file'[i].state # "none"
                 PROVE  /\ file'[i].command # "remove"
                        /\ file'[i].command = "provision" => i <= toHost'[k].job
      BY DEF CommandsAreNew, MayStart, Takes
    <3>1. k + 1 \in DOMAIN toHost /\ toHost'[k] = toHost[k + 1] /\ 1 < k + 1 /\ 1 \in DOMAIN toHost
      BY <1>0, <2>1 DEF RestOf
    <3>2. CASE i # j
      BY <3>1, <3>2 DEF CommandsInv, CommandsAreNew, Takes
    <3>3. CASE i = j
      BY <1>1, <3>1, <3>3 DEF CommandsInv, CommandsInOrder, TakesFrame
    <3> QED BY <3>2, <3>3
  <2> QED BY <2>1, <2>2, RestKeepsCommands
<1>2. CASE TakesRemoval(j)
  <2>1. toHost' = toHost /\ RestOf(0) /\ Pending(j)
    BY <1>0, <1>2, RestIs DEF TakesRemoval
  <2>2. \A k \in DOMAIN toHost' : ~MayStart(toHost'[k])
    BY <2>1 DEF CommandsInv, CommandsAreNew
  <2>3. CommandsAreNew'
    BY <2>2 DEF CommandsAreNew, MayStart
  <2> QED BY <2>1, <2>3, RestKeepsCommands
<1> QED BY <1>1, <1>2 DEF Takes

LEMMA TakesKeepsFiles ==
    ASSUME HostTypes, CommandsInv, FilesInv, DiscardInv, UNCHANGED job, NEW j \in Jobs, Takes(j)
    PROVE  FilesInv'
<1>1. TakesFrame(j) => toHost \in Seq(FrameToHost) /\ 1 \in DOMAIN toHost
  BY DEF TakesFrame, HostTypes, LinkInv, LinkTypeOK
<1>2. job[j].status # "none" /\ file'[j].command = job[j].command
  <2>1. CASE TakesFrame(j)
    BY <1>1, <2>1 DEF Takes, TakesFrame, CommandsInv, CommandsOfJobs
  <2>2. CASE TakesRemoval(j)
    BY <2>2 DEF TakesRemoval, DiscardInv
  <2> QED BY <2>1, <2>2 DEF Takes
<1>3. file'[j].command = "provision" => TakesFrame(j) /\ MayStart(toHost[1]) /\ toHost[1].job = j
                                        /\ file'[j].token[1] = j
  BY <1>1 DEF Takes, TakesFrame, TakesRemoval, CommandsInv, CommandsOfJobs
<1>4. FilesOfJobs'
  BY <1>2, <1>3 DEF FilesInv, FilesOfJobs, Takes
<1>5. LastIsFollowed'
  <2> SUFFICES ASSUME NEW i \in Jobs, NEW p \in Jobs,
                      file'[i].state # "none", file'[p].command = "provision", file'[p].state = "running",
                      file'[i].command = "remove" \/ (file'[i].command = "provision" /\ p < i)
               PROVE  FALSE
    BY DEF LastIsFollowed
  <2>1. p = j
    BY DEF Takes
  <2>2. TakesFrame(j) /\ MayStart(toHost[1]) /\ toHost[1].job = j /\ 1 \in DOMAIN toHost
    BY <1>1, <1>3, <2>1
  <2>3. i # j
    BY <2>1 DEF Jobs
  <2>4. file[i].state # "none" /\ file'[i] = file[i]
    BY <2>3 DEF Takes
  <2>5. file[i].command # "remove" /\ (file[i].command = "provision" => i <= j)
    BY <2>2, <2>4 DEF CommandsInv, CommandsAreNew
  <2> QED BY <2>1, <2>4, <2>5 DEF Jobs
<1> QED BY <1>4, <1>5 DEF FilesInv

\* A removal begins: no setup is behind its command.
LEMMA BeginKeepsCommands ==
    ASSUME HostTypes, HostTypes', CommandsInv, RowsStay, BeginDiscard
    PROVE  CommandsInv'
<1>1. PICK frame \in FrameToHost : frame = Head(toHost)
  BY CommandReceived DEF BeginDiscard, Accepts, HostTypes
<1>2. /\ toHost \in Seq(FrameToHost) /\ toHost # <<>> /\ toHost' = Tail(toHost)
      /\ toHost[1] = frame /\ frame.command = "remove"
  BY <1>1 DEF BeginDiscard, Accepts, Receives, HostTypes, LinkInv, LinkTypeOK
<1>3. RestOf(1)
  BY <1>2, RestIs
<1>4. \A k \in DOMAIN toHost' : ~MayStart(toHost'[k])
  <2> SUFFICES ASSUME NEW k \in DOMAIN toHost' PROVE ~MayStart(toHost'[k])
    OBVIOUS
  <2>1. k + 1 \in DOMAIN toHost /\ toHost'[k] = toHost[k + 1] /\ 1 < k + 1 /\ 1 \in DOMAIN toHost
    BY <1>2, <1>3 DEF RestOf
  <2> QED BY <1>2, <2>1 DEF CommandsInv, CommandsInOrder
<1>5. CommandsAreNew'
  BY <1>4 DEF CommandsAreNew, MayStart
<1> QED BY <1>3, <1>5, RestKeepsCommands

\* The host's steps: what it has not taken yet stays, or is lost with the socket.
LEMMA HostKeepsCommands ==
    ASSUME HostTypes, HostTypes', UnitInv, CommandsInv, FilesInv, DiscardInv, [Next]_vars, UNCHANGED job,
           HostConnects \/ HostStep \/ HostFault
    PROVE  CommandsInv' /\ FilesInv'
<1>1. toHost \in Seq(FrameToHost)
  BY DEF HostTypes, LinkInv, LinkTypeOK
<1>2. RowsStay
  BY DEF RowsStay
<1>3. CASE TakesCommand
  <2>1. PICK j \in Jobs : Takes(j)
    BY <1>3, TakesIs
  <2> QED BY <1>2, <2>1, TakesKeepsCommands, TakesKeepsFiles
<1>4. CASE ~TakesCommand
  <2>1. FilesGoOn
    BY <1>4, FilesStep
  <2>2. CASE BeginDiscard
    BY <1>2, <2>1, <2>2, BeginKeepsCommands, FilesInvGoesOn
  <2>3. CASE ~BeginDiscard
    <3>1. toHost' = toHost \/ toHost' = <<>> \/ (toHost # <<>> /\ toHost' = Tail(toHost))
      <4>1. BeginSession \/ ReplayKnown \/ Decline =>
                toHost' = <<>> \/ (toHost # <<>> /\ toHost' = Tail(toHost))
        BY DEF BeginSession, ReplayKnown, Decline, Receives, Closed
      <4>2. HostConnects \/ LinkBreaks \/ Crash => toHost' = toHost \/ toHost' = <<>>
        BY DEF HostConnects, Connect, LinkBreaks, Crash, Closed
      <4>3. ASSUME NEW j \in Jobs,
                   \/ EndDiscard(j) \/ StartUnit(j) \/ WriteProfile(j) \/ UnitSucceeds(j) \/ UnitFails(j)
                   \/ Poll(j) \/ PollDeadline(j) \/ PollMissing(j) \/ CorruptRecord(j) \/ UnitDies(j)
            PROVE  toHost' = toHost
        BY <4>3 DEF EndDiscard, StartUnit, WriteProfile, UnitSucceeds, UnitFails, Poll, PollDeadline,
                    PollMissing, Finish, CorruptRecord, UnitDies, UnitMoves, linkVars
      <4> QED BY <1>4, <2>3, <4>1, <4>2, <4>3 DEF HostStep, HostFault, TakesCommand
    <3>2. PICK d \in {0, 1} : RestOf(d)
      BY <1>1, <3>1, RestIs
    <3>3. FilesKept
      BY <2>1, <2>3, PendingGoesOn, GoOnIsKept
    <3>4. CommandsAreNew'
      BY <3>2, <3>3, KeptAreNew
    <3> QED BY <1>2, <2>1, <3>2, <3>4, RestKeepsCommands, FilesInvGoesOn
  <2> QED BY <2>2, <2>3
<1> QED BY <1>3, <1>4

\* What the session waits for, and the threads that remove a profile.
LEMMA DiscardGoesOn ==
    ASSUME DiscardInv, RowsStay, \A j \in Jobs : Pending(j)' => Pending(j),
           \A j \in Jobs : discard'[j] # "none" => discard[j] # "none",
           \A j \in Jobs : discard'[j] \in {"done", "failed"} => Pending(j)',
           \A j \in Jobs : Pending(j)' => file'[j].state # "running",
           \A j, k \in Jobs : Pending(j)' /\ file'[k].state = "running" => file[k].state = "running"
    PROVE  DiscardInv'
BY DEF DiscardInv, RowsStay

LEMMA DiscardStep ==
    ASSUME HostTypes, HostTypes', UnitInv, CommandsInv, DiscardInv, RowsStay, [Next]_vars
    PROVE  DiscardInv'
<1>0. discard \in [Jobs -> {"none", "runs", "done", "failed"}] /\ 0 \notin Jobs
  BY DEF HostTypes, DaemonTypeOK, Jobs
<1>1. CASE TakesCommand
  <2>1. PICK j \in Jobs : Takes(j)
    BY <1>1, TakesIs
  <2>2. \A k \in Jobs : ~Pending(k)'
    BY <2>1 DEF Takes
  <2>3. \A k \in Jobs : /\ discard'[k] \in {discard[k], "none"}
                        /\ Pending(k) => discard'[k] \notin {"done", "failed"}
    <3>1. CASE SaveRecord
      <4>1. awaited = 0 /\ discard' = discard
        BY <3>1 DEF SaveRecord, Accepts, Receives, removalVars
      <4> QED BY <1>0, <4>1 DEF Pending
    <3>2. CASE RecordDiscard
      <4>1. awaited \in Jobs /\ discard' = [discard EXCEPT ![awaited] = "none"]
        BY <3>2 DEF RecordDiscard, HostTypes, DaemonTypeOK
      <4> QED BY <1>0, <4>1 DEF Pending
    <3> QED BY <1>1, <3>1, <3>2 DEF TakesCommand
  <2> QED BY <2>2, <2>3 DEF DiscardInv, RowsStay
<1>2. CASE BeginDiscard
  <2>1. PICK j \in Jobs : j = Head(toHost).job
    BY <1>2, CommandReceived DEF BeginDiscard, Accepts, HostTypes
  <2>2. /\ toHost \in Seq(FrameToHost) /\ 1 \in DOMAIN toHost /\ toHost[1].job = j
        /\ toHost[1].command = "remove" /\ "remove" \in Commands
    BY <1>2, <2>1 DEF BeginDiscard, Accepts, Receives, HostTypes, LinkInv, LinkTypeOK, Commands
  <2>3. job[j].status # "none" /\ job[j].command = "remove"
    BY <2>2 DEF CommandsInv, CommandsOfJobs
  <2>4. /\ awaited = 0 /\ awaited' = j /\ file' = file /\ ~Busy
        /\ discard' = [discard EXCEPT ![j] = "runs"]
    BY <1>2, <2>1 DEF BeginDiscard, Accepts, Receives
  <2>5. \A k \in Jobs : ~Pending(k)
    BY <1>0, <2>4 DEF Pending
  <2>6. \A k \in Jobs : (Pending(k)' => k = j) /\ discard'[k] = IF k = j THEN "runs" ELSE discard[k]
    BY <1>0, <2>4 DEF Pending
  <2> QED BY <2>3, <2>4, <2>5, <2>6 DEF DiscardInv, RowsStay, Busy
<1>3. ASSUME ~TakesCommand, ~BeginDiscard,
             \A j \in Jobs : discard'[j] # "none" => discard[j] # "none",
             \A j \in Jobs : discard'[j] \in {"done", "failed"} => Pending(j)'
      PROVE  DiscardInv'
  <2>1. \A j \in Jobs : Pending(j)' => Pending(j)
    BY <1>3, PendingGoesOn
  <2>2. FilesGoOn
    BY <1>3, FilesStep
  <2> QED BY <1>3, <2>1, <2>2, DiscardGoesOn DEF FilesGoOn, Pending
<1>4. ASSUME ~TakesCommand, discard' = discard, \A j \in Jobs : Pending(j) => awaited' = awaited
      PROVE  \A j \in Jobs : discard'[j] \in {"done", "failed"} => Pending(j)'
  BY <1>4, FilesStep DEF DiscardInv, FilesGoOn, Pending
<1>5. ASSUME ~TakesCommand, ~BeginDiscard, discard' = discard, \A j \in Jobs : Pending(j) => awaited' = awaited
      PROVE  DiscardInv'
  BY <1>3, <1>4, <1>5
<1>6. ASSUME NEW i \in Jobs, EndDiscard(i), ~TakesCommand, ~BeginDiscard PROVE DiscardInv'
  <2>1. /\ discard[i] = "runs" /\ UNCHANGED <<file, awaited>>
        /\ \E end \in {"done", "failed"} :
              discard' = [discard EXCEPT ![i] = IF Pending(i) THEN end ELSE "none"]
    BY <1>6 DEF EndDiscard
  <2>2. \A j \in Jobs : Pending(j)' <=> Pending(j)
    BY <2>1 DEF Pending
  <2>3. \A j \in Jobs : discard'[j] # "none" => discard[j] # "none"
    BY <1>0, <2>1
  <2>4. \A j \in Jobs : discard'[j] \in {"done", "failed"} => Pending(j)'
    BY <1>0, <2>1, <2>2 DEF DiscardInv
  <2> QED BY <1>3, <1>6, <2>3, <2>4
<1>7. ASSUME LinkBreaks \/ Crash, ~TakesCommand, ~BeginDiscard PROVE DiscardInv'
  <2>1. \A j \in Jobs : discard'[j] = "none" \/ (discard'[j] = discard[j] /\ discard'[j] = "runs")
    BY <1>7 DEF LinkBreaks, Crash, StopsWaiting
  <2> QED BY <1>3, <1>7, <2>1
<1>8. ASSUME NEW i \in Jobs, StartUnit(i)
      PROVE  discard' = discard /\ \A j \in Jobs : Pending(j) => awaited' = awaited
  <2>1. file[i].state # "none"
    BY <1>8 DEF StartUnit, UnitInv, UnknownUntouched
  <2> QED BY <1>8, <2>1 DEF StartUnit, removalVars, Pending
<1>9. BeginSession \/ ReplayKnown \/ Decline \/ HostConnects => discard' = discard /\ awaited' = awaited
  BY DEF BeginSession, ReplayKnown, Decline, HostConnects, Connect, daemonVars, removalVars
<1>10. ASSUME NEW j \in Jobs,
              \/ WriteProfile(j) \/ UnitSucceeds(j) \/ UnitFails(j)
              \/ Poll(j) \/ PollDeadline(j) \/ PollMissing(j) \/ CorruptRecord(j) \/ UnitDies(j)
       PROVE  discard' = discard /\ awaited' = awaited
  BY <1>10 DEF WriteProfile, UnitSucceeds, UnitFails, Poll, PollDeadline, PollMissing, Finish,
               CorruptRecord, UnitDies, UnitMoves, removalVars
<1>11. UNCHANGED daemonVars \/ UNCHANGED vars => discard' = discard /\ awaited' = awaited
  BY DEF daemonVars, vars
<1> QED BY <1>1, <1>2, <1>5, <1>6, <1>7, <1>8, <1>9, <1>10, <1>11
        DEF Next, HostStep, HostFault, TakesCommand

LEMMA CommandsStep ==
    ASSUME HostTypes, HostTypes', UnitInv, RowsInv, CommandsInv, FilesInv, DiscardInv, [Next]_vars
    PROVE  CommandsInv' /\ FilesInv'
<1>1. CASE (ServerStep \/ ServerEvent) /\ UNCHANGED daemonVars
  <2>1. FilesGoOn
    BY <1>1 DEF daemonVars, FilesGoOn, Outlived
  <2> QED BY <1>1, <2>1, ServerKeepsCommands, RowsStayStep, FilesInvGoesOn
<1>2. CASE (HostConnects \/ HostStep \/ HostFault) /\ UNCHANGED jobVars
  BY <1>2, HostKeepsCommands DEF jobVars
<1>3. CASE UNCHANGED vars
  <2>1. UNCHANGED <<toHost, job, file, awaited>>
    BY <1>3 DEF vars, linkVars, jobVars, daemonVars
  <2> QED BY <2>1 DEF CommandsInv, CommandsOfJobs, CommandsInOrder, CommandsAreNew, MayStart,
                      Pending, FilesInv, FilesOfJobs, LastIsFollowed
<1> QED BY <1>1, <1>2, <1>3 DEF Next

-----------------------------------------------------------------------------
(***************************************************************************)
(* Units move on: one that ended stays as it ended, and only a unit whose  *)
(* setup runs touches the profile, a removal apart.                        *)
(***************************************************************************)
OkStays == \A j \in Jobs :
    /\ unit[j] = "ok" => unit'[j] = "ok"
    /\ file[j].ok => file'[j].ok /\ file'[j].token = file[j].token

LEMMA OkStep ==
    ASSUME HostTypes, UnitInv, DiscardInv, SuccessesAreTrue, [Next]_vars
    PROVE  OkStays
<1>1. unit \in [Jobs -> {"none", "active", "wrote", "ok", "failed", "gone"}] /\ starting \subseteq Jobs
  BY DEF HostTypes, DaemonTypeOK
<1>2. \A j \in Jobs : file[j].ok => file'[j].ok /\ file'[j].token = file[j].token
  <2>1. CASE TakesCommand
    <3>1. PICK j \in Jobs : Takes(j)
      BY <2>1, TakesIs
    <3> QED BY <3>1 DEF Takes, SuccessesAreTrue
  <2>2. CASE ~TakesCommand
    BY <2>2, FilesStep DEF FilesGoOn, SuccessesAreTrue
  <2> QED BY <2>1, <2>2
<1>3. CASE unit' = unit
  BY <1>2, <1>3 DEF OkStays
<1>4. ASSUME NEW j \in Jobs, NEW state, unit' = [unit EXCEPT ![j] = state], unit[j] # "ok"
      PROVE  OkStays
  BY <1>1, <1>2, <1>4 DEF OkStays
<1>5. ASSUME NEW j \in Jobs, StartUnit(j) PROVE OkStays
  <2>1. unit[j] # "ok"
    BY <1>5 DEF StartUnit, UnitInv, StartingIsNew
  <2>2. unit' = unit \/ \E state : unit' = [unit EXCEPT ![j] = state]
    BY <1>5 DEF StartUnit, Started
  <2> QED BY <1>3, <1>4, <2>1, <2>2
<1>6. ASSUME NEW j \in Jobs,
             WriteProfile(j) \/ UnitSucceeds(j) \/ UnitFails(j) \/ UnitDies(j) \/ PollDeadline(j)
      PROVE  OkStays
  <2>1. unit[j] # "ok" /\ (unit' = unit \/ \E state : unit' = [unit EXCEPT ![j] = state])
    BY <1>6 DEF WriteProfile, UnitSucceeds, UnitFails, UnitDies, UnitMoves, PollDeadline, Runs
  <2> QED BY <1>3, <1>4, <2>1
<1>7. ASSUME NEW j \in Jobs, Poll(j) \/ PollMissing(j) \/ CorruptRecord(j) \/ EndDiscard(j) PROVE unit' = unit
  BY <1>7 DEF Poll, PollMissing, CorruptRecord, EndDiscard
<1>8. BeginSession \/ ReplayKnown \/ Decline \/ BeginDiscard \/ RecordDiscard \/ SaveRecord \/ HostConnects
      \/ LinkBreaks \/ Crash => unit' = unit
  BY DEF BeginSession, ReplayKnown, Decline, BeginDiscard, RecordDiscard, SaveRecord, HostConnects, Connect,
         LinkBreaks, Crash, daemonVars
<1>9. UNCHANGED daemonVars \/ UNCHANGED vars => unit' = unit
  BY DEF daemonVars, vars
<1> QED BY <1>3, <1>5, <1>6, <1>7, <1>8, <1>9 DEF Next, HostStep, HostFault

OkComesTrue(frame) == frame.kind = "ok" => file'[frame.job].ok /\ frame.token = file'[frame.job].token

\* Frames that say nothing untrue are added.
LEMMA SaidAreTrue ==
    ASSUME toServer \in Seq(FrameToServer), \A i \in DOMAIN toServer : OkComesTrue(toServer[i]),
           NEW new \in Seq(FrameToServer), toServer' = toServer \/ toServer' = toServer \o new,
           \A i \in DOMAIN new : OkComesTrue(new[i])
    PROVE  \A i \in DOMAIN toServer' : OkComesTrue(toServer'[i])
<1> SUFFICES ASSUME toServer' = toServer \o new, NEW i \in DOMAIN toServer' PROVE OkComesTrue(toServer'[i])
  OBVIOUS
<1>1. i \in 1..(Len(toServer) + Len(new))
  OBVIOUS
<1>2. CASE i <= Len(toServer)
  <2>1. i \in DOMAIN toServer /\ toServer'[i] = toServer[i]
    BY <1>1, <1>2
  <2> QED BY <2>1
<1>3. CASE i > Len(toServer)
  <2>1. i - Len(toServer) \in DOMAIN new /\ toServer'[i] = new[i - Len(toServer)]
    BY <1>1, <1>3
  <2> QED BY <2>1
<1> QED BY <1>1, <1>2, <1>3

LEMMA ResultIsTrue ==
    ASSUME NEW j \in Jobs, NEW f \in File, f.ok => file'[j].ok /\ file'[j].token = f.token
    PROVE  OkComesTrue(ResultFrame(j, f))
<1>1. PICK g : g = Says("ok", j)
  OBVIOUS
<1>2. g.job = j /\ g.kind = "ok" /\ g = [kind |-> "ok", job |-> j, token |-> NoToken]
  BY <1>1 DEF Says
<1>3. PICK h : h = [g EXCEPT !.token = f.token]
  OBVIOUS
<1>4. h.job = j /\ h.token = f.token
  BY <1>2, <1>3
<1>5. OkComesTrue(h) \/ ~f.ok
  BY <1>4 DEF OkComesTrue
<1>6. ResultFrame(j, f) = h \/ ResultFrame(j, f).kind = "failed"
  BY <1>1, <1>3 DEF ResultFrame, Says
<1>7. ~f.ok => ResultFrame(j, f).kind = "failed"
  BY DEF ResultFrame, Says
<1> QED BY <1>5, <1>6, <1>7 DEF OkComesTrue

LEMMA OthersAreTrue == \A j, kind : kind # "ok" => OkComesTrue(Says(kind, j))
BY DEF OkComesTrue, Says

LEMMA PairIsSequence ==
    ASSUME NEW S, NEW a \in S, NEW r \in S
    PROVE  <<a>> \o <<r>> \in Seq(S) /\ \A i \in DOMAIN (<<a>> \o <<r>>) : (<<a>> \o <<r>>)[i] \in {a, r}
<1>1. <<a>> \o <<r>> \in Seq(S)
  OBVIOUS
<1>2. ASSUME NEW s \in Seq(S), NEW t \in Seq(S), s = <<a>>, t = <<r>>
      PROVE  \A i \in DOMAIN (s \o t) : (s \o t)[i] \in {a, r}
  BY <1>2
<1>3. <<a>> \in Seq(S)
  OBVIOUS
<1>4. <<r>> \in Seq(S)
  OBVIOUS
<1> QED BY <1>1, <1>2, <1>3, <1>4

LEMMA FramesStep ==
    ASSUME HostTypes, UnitInv, DiscardInv, SuccessesAreTrue, [Next]_vars
    PROVE  \A i \in DOMAIN toServer' : OkComesTrue(toServer'[i])
<1>0. toServer \in Seq(FrameToServer) /\ file \in [Jobs -> File]
  BY DEF HostTypes, LinkInv, LinkTypeOK, DaemonTypeOK
<1>1. \A i \in DOMAIN toServer : OkComesTrue(toServer[i])
  <2> SUFFICES ASSUME NEW i \in DOMAIN toServer PROVE OkComesTrue(toServer[i])
    OBVIOUS
  <2>1. toServer[i] \in FrameToServer
    BY <1>0
  <2>2. toServer[i].job \in Jobs /\ OkIsTrue(toServer[i])
    BY <2>1 DEF SuccessesAreTrue, FrameToServer
  <2> QED BY <2>2, OkStep DEF OkStays, OkIsTrue, OkComesTrue
<1>2. CASE toServer' = toServer \/ toServer' = <<>> \/ (toServer # <<>> /\ toServer' = Tail(toServer))
  <2>1. CASE toServer' = toServer
    BY <1>1, <2>1
  <2>2. CASE toServer' = <<>>
    BY <2>2
  <2>3. CASE toServer # <<>> /\ toServer' = Tail(toServer)
    <3>1. \A i \in DOMAIN toServer' : i + 1 \in DOMAIN toServer /\ toServer'[i] = toServer[i + 1]
      BY <1>0, <2>3
    <3> QED BY <1>1, <3>1
  <2> QED BY <1>2, <2>1, <2>2, <2>3
<1>3. ASSUME NEW f \in FrameToServer, OkComesTrue(f), Sends(<<f>>)
      PROVE  \A i \in DOMAIN toServer' : OkComesTrue(toServer'[i])
  <2>1. <<f>> \in Seq(FrameToServer) /\ \A i \in DOMAIN <<f>> : <<f>>[i] = f
    OBVIOUS
  <2>2. toServer' = toServer \/ toServer' = toServer \o <<f>>
    BY <1>3 DEF Sends
  <2> QED BY <1>0, <1>1, <1>3, <2>1, <2>2, SaidAreTrue
<1>4. ASSUME NEW f \in FrameToServer, OkComesTrue(f), NEW g \in FrameToServer, OkComesTrue(g), Sends(<<f, g>>)
      PROVE  \A i \in DOMAIN toServer' : OkComesTrue(toServer'[i])
  <2>1. <<f, g>> \in Seq(FrameToServer) /\ \A i \in DOMAIN <<f, g>> : <<f, g>>[i] = f \/ <<f, g>>[i] = g
    OBVIOUS
  <2>2. toServer' = toServer \/ toServer' = toServer \o <<f, g>>
    BY <1>4 DEF Sends
  <2> QED BY <1>0, <1>1, <1>4, <2>1, <2>2, SaidAreTrue
<1>5. ASSUME NEW j \in Jobs, NEW kind \in {"ack", "busy", "refused", "progress", "failed"}
      PROVE  Says(kind, j) \in FrameToServer /\ OkComesTrue(Says(kind, j))
  <2>1. kind # "ok"
    OBVIOUS
  <2> QED BY <2>1, SaysType, OthersAreTrue
<1>6. CASE BeginSession
  <2>1. CASE \E j \in Jobs : toServer' = Append(toServer, Says("progress", j))
    <3>1. PICK j \in Jobs : toServer' = Append(toServer, Says("progress", j))
      BY <2>1
    <3>2. PICK f \in FrameToServer : f = Says("progress", j) /\ OkComesTrue(f)
      BY <1>5
    <3>3. /\ <<f>> \in Seq(FrameToServer) /\ \A i \in DOMAIN <<f>> : <<f>>[i] = f
          /\ toServer' = toServer \o <<f>>
      BY <1>0, <3>1, <3>2
    <3> QED BY <1>0, <1>1, <3>2, <3>3, SaidAreTrue
  <2>2. \/ toServer' = toServer \/ toServer' = <<>>
        \/ \E j \in Jobs : toServer' = Append(toServer, Says("progress", j))
    BY <1>6 DEF BeginSession, Closed
  <2> QED BY <1>2, <2>1, <2>2
<1>7. CASE ReplayKnown
  <2>1. PICK j \in Jobs : j = Head(toHost).job
    BY <1>7, CommandReceived DEF ReplayKnown, HostTypes
  <2>2. PICK a \in FrameToServer : a = Says("ack", j) /\ OkComesTrue(a)
    BY <1>5
  <2>3. file[j] \in File
    BY <1>0
  <2>4. file[j].ok => file'[j].ok /\ file'[j].token = file[j].token
    BY OkStep DEF OkStays
  <2>5. PICK r \in FrameToServer : r = ResultFrame(j, file[j]) /\ OkComesTrue(r)
    BY <2>3, <2>4, ResultFrameType, ResultIsTrue
  <2>6. Sends(<<a>> \o IF file[j].state = "running" THEN <<>> ELSE <<r>>)
    BY <1>7, <2>1, <2>2, <2>5 DEF ReplayKnown
  <2>7. CASE file[j].state = "running"
    <3>1. <<a>> \o <<>> = <<a>>
      OBVIOUS
    <3> QED BY <1>3, <2>2, <2>6, <2>7, <3>1
  <2>8. CASE file[j].state # "running"
    <3>1. /\ <<a>> \o <<r>> \in Seq(FrameToServer)
          /\ \A i \in DOMAIN (<<a>> \o <<r>>) : (<<a>> \o <<r>>)[i] \in {a, r}
      BY PairIsSequence
    <3>2. PICK new \in Seq(FrameToServer) : new = <<a>> \o <<r>> /\ \A i \in DOMAIN new : new[i] \in {a, r}
      BY <3>1, Zenon
    <3>3. toServer' = toServer \/ toServer' = toServer \o new
      BY <2>6, <2>8, <3>2 DEF Sends
    <3> QED BY <1>0, <1>1, <2>2, <2>5, <3>2, <3>3, SaidAreTrue
  <2> QED BY <2>7, <2>8
<1>8. CASE Decline
  <2>1. PICK j \in Jobs : j = Head(toHost).job
    BY <1>8, CommandReceived DEF Decline, HostTypes
  <2>2. Sends(<<Says("busy", j)>>) \/ Sends(<<Says("refused", j)>>)
    BY <1>8, <2>1 DEF Decline
  <2> QED BY <1>3, <1>5, <2>2
<1>9. CASE RecordDiscard
  <2>1. PICK j \in Jobs : j = awaited
    BY <1>9 DEF RecordDiscard, HostTypes, DaemonTypeOK
  <2>2. PICK f : f = [state |-> "done", command |-> "remove", ok |-> discard[j] = "done", token |-> NoToken]
    OBVIOUS
  <2>3. f \in File
    BY <2>2, HostAssumption DEF File, Commands, NoToken
  <2>4. file' = [file EXCEPT ![j] = f] /\ Sends(<<Says("ack", j), ResultFrame(j, f)>>)
    BY <1>9, <2>1, <2>2 DEF RecordDiscard
  <2>5. file'[j] = f
    BY <1>0, <2>4
  <2>6. f.ok => file'[j].ok /\ file'[j].token = f.token
    BY <2>2, <2>5
  <2>7. ResultFrame(j, f) \in FrameToServer /\ OkComesTrue(ResultFrame(j, f))
    BY <2>3, <2>6, ResultFrameType, ResultIsTrue
  <2> QED BY <1>4, <1>5, <2>4, <2>7
<1>10. ASSUME NEW j \in Jobs, StartUnit(j) PROVE \A i \in DOMAIN toServer' : OkComesTrue(toServer'[i])
  <2>1. toServer' = toServer \/ Sends(<<Says("ack", j)>>) \/ Sends(<<Says("ack", j), Says("failed", j)>>)
    BY <1>10 DEF StartUnit
  <2> QED BY <1>2, <1>3, <1>4, <1>5, <2>1
<1>11. ASSUME NEW j \in Jobs, NEW f \in File, Finish(j, f)
       PROVE  \A i \in DOMAIN toServer' : OkComesTrue(toServer'[i])
  <2>1. file'[j] = f /\ Sends(<<ResultFrame(j, f)>>)
    BY <1>0, <1>11 DEF Finish
  <2> QED BY <1>3, <1>11, <2>1, ResultFrameType, ResultIsTrue
<1>12. ASSUME NEW j \in Jobs, Poll(j) \/ PollDeadline(j) \/ PollMissing(j)
       PROVE  \E f \in File : Finish(j, f)
  <2>1. file[j] \in File
    BY <1>0
  <2> QED BY <1>12, <2>1, FileFields DEF Poll, PollDeadline, PollMissing
<1>13. ASSUME NEW j \in Jobs,
              \/ WriteProfile(j) \/ UnitSucceeds(j) \/ UnitFails(j) \/ UnitDies(j) \/ CorruptRecord(j)
              \/ EndDiscard(j)
              \/ AckTimeout(j) \/ DeadlinePassed(j) \/ HostLost(j) \/ Expire(j) \/ CancelRemoval(j)
       PROVE  toServer' = toServer
  BY <1>13 DEF WriteProfile, UnitSucceeds, UnitFails, UnitDies, CorruptRecord, EndDiscard, UnitMoves, linkVars,
               AckTimeout, DeadlinePassed, HostLost, Expire, CancelRemoval, SweepMoves
<1>14. BeginDiscard \/ SaveRecord \/ HostConnects \/ LinkBreaks \/ Crash =>
           toServer' = toServer \/ toServer' = <<>>
  BY DEF BeginDiscard, SaveRecord, HostConnects, Connect, LinkBreaks, Crash, Closed
<1>15. RecordHello \/ Greet \/ Reconcile \/ OldSocketCloses \/ CloseRevoked =>
           toServer' = toServer \/ toServer' = <<>>
  BY DEF RecordHello, Greet, Reconcile, OldSocketCloses, CloseRevoked, Closed
<1>16. HandleFrame => toServer # <<>> /\ toServer' = Tail(toServer)
  BY DEF HandleFrame
<1>17. RevokeOrphans \/ RetryRevoke \/ CheckHost \/ RetryCheck \/ RestartCheck \/ RedoCheck \/ DeleteAgent
       \/ CancelQueued \/ Revoke \/ RetryQueue \/ RestartQueue \/ RedoQueue \/ QueueRemoval
       => toServer' = toServer
  BY DEF RevokeOrphans, RetryRevoke, CheckHost, RetryCheck, RestartCheck, RedoCheck, DeleteAgent,
         CancelQueued, Revoke, RetryQueue, RestartQueue, RedoQueue, QueueRemoval, Queues, linkVars
<1>18. ASSUME NEW d \in Dispatches, Select(d) \/ Claim(d) PROVE toServer' = toServer
  BY <1>18 DEF Select, Claim, linkVars
<1>19. UNCHANGED vars => toServer' = toServer
  BY DEF vars, linkVars
<1>20. ASSUME ServerStep \/ ServerEvent PROVE \A i \in DOMAIN toServer' : OkComesTrue(toServer'[i])
  BY <1>2, <1>13, <1>15, <1>16, <1>17, <1>18, <1>20 DEF ServerStep, ServerEvent
<1>21. ASSUME HostConnects \/ HostStep \/ HostFault PROVE \A i \in DOMAIN toServer' : OkComesTrue(toServer'[i])
  BY <1>2, <1>6, <1>7, <1>8, <1>9, <1>10, <1>11, <1>12, <1>13, <1>14, <1>21 DEF HostStep, HostFault
<1> QED BY <1>2, <1>19, <1>20, <1>21 DEF Next

LEMMA SuccessesStep ==
    ASSUME HostTypes, HostTypes', UnitInv, DiscardInv, SuccessesAreTrue, [Next]_vars
    PROVE  SuccessesAreTrue'
<1>0. OkStays /\ job \in [Jobs -> Job]
  BY OkStep DEF HostTypes, JobsInv, JobsTypeOK
<1>1. \A j \in Jobs : file'[j].ok => /\ file'[j].state \notin {"none", "running"}
                                     /\ file'[j].command = "remove" \/ unit'[j] = "ok"
  <2>1. CASE TakesCommand
    <3>1. PICK i \in Jobs : Takes(i)
      BY <2>1, TakesIs
    <3>2. \A j \in Jobs \ {i} : file'[j] = file[j] /\ unit'[j] = unit[j]
      BY <3>1 DEF Takes
    <3>3. file'[i].ok => file'[i].command = "remove" /\ file'[i].state = "done"
      BY <3>1 DEF Takes, TakesFrame, TakesRemoval
    <3> QED BY <3>2, <3>3 DEF SuccessesAreTrue
  <2>2. CASE ~TakesCommand
    <3>1. FilesGoOn
      BY <2>2, FilesStep
    <3> SUFFICES ASSUME NEW j \in Jobs, file'[j].ok
                 PROVE  /\ file'[j].state \notin {"none", "running"}
                        /\ file'[j].command = "remove" \/ unit'[j] = "ok"
      OBVIOUS
    <3>2. \/ file[j].ok
          \/ file'[j].state = "done" /\ unit[j] = "ok"
      BY <3>1 DEF FilesGoOn
    <3>3. CASE file[j].ok
      BY <1>0, <3>1, <3>3 DEF SuccessesAreTrue, FilesGoOn, OkStays
    <3> QED BY <1>0, <3>2, <3>3 DEF OkStays
  <2> QED BY <2>1, <2>2
<1>2. \A i \in DOMAIN toServer' : OkIsTrue(toServer[i])'
  BY FramesStep DEF OkIsTrue, OkComesTrue
<1>3. \A j \in Jobs : job'[j].status = "succeeded" => file'[j].ok
  <2>1. CASE QueuesAJob
    <3>1. \E n, c : Adds(n, c)
      BY <2>1, QueueAdds DEF QueuesAJob, RetryQueue, RestartQueue, RedoQueue, QueueRemoval, Queues, Commands
    <3>2. PICK n, c : Adds(n, c)
      BY <3>1
    <3>3. \A j \in Jobs : job'[j].status = "succeeded" => job[j].status = "succeeded"
      BY <3>2 DEF Adds
    <3> QED BY <1>0, <3>3 DEF SuccessesAreTrue, OkStays
  <2>2. CASE ~QueuesAJob /\ ~HandleFrame
    BY <1>0, <2>2, RowsStep DEF SuccessesAreTrue, OkStays, NoneSucceeds
  <2>3. CASE HandleFrame
    <3>1. PICK f \in FrameToServer : f = Head(toServer) /\ toServer # <<>> /\ f = toServer[1]
      BY <2>3, FrameGoesOn
    <3>2. 1 \in DOMAIN toServer
      BY <3>1 DEF HostTypes, LinkInv, LinkTypeOK
    <3>3. f.kind = "ok" => file[f.job].ok /\ f.job \in Jobs
      BY <3>1, <3>2 DEF SuccessesAreTrue, OkIsTrue, FrameToServer
    <3>4. \A j \in Jobs : job'[j].status = "succeeded" =>
              job[j].status = "succeeded" \/ (j = f.job /\ f.kind = "ok")
      BY <2>3, <3>1, FrameGoesOn
    <3> QED BY <1>0, <3>3, <3>4 DEF SuccessesAreTrue, OkStays
  <2> QED BY <2>1, <2>2, <2>3
<1> QED BY <1>1, <1>2, <1>3 DEF SuccessesAreTrue

LEMMA AstrayStep ==
    ASSUME HostTypes, UnitInv, DiscardInv, [Next]_vars, Astray
    PROVE  Astray'
<1>1. CASE TakesCommand
  <2>1. PICK j \in Jobs : Takes(j)
    BY <1>1, TakesIs
  <2>2. PICK p \in Jobs : file[p].command = "provision" /\ Outlived(p) /\ p \notin starting
    BY DEF Astray
  <2>3. p # j /\ file'[p] = file[p] /\ p \notin starting'
    BY <2>1, <2>2 DEF Takes, TakesFrame, TakesRemoval, Outlived
  <2> QED BY <2>2, <2>3 DEF Astray, Outlived
<1>2. CASE ~TakesCommand
  <2>1. starting' \subseteq starting
    <3>1. BeginSession \/ ReplayKnown \/ Decline \/ BeginDiscard \/ HostConnects \/ LinkBreaks \/ Crash =>
              starting' \subseteq starting
      BY DEF BeginSession, ReplayKnown, Decline, BeginDiscard, HostConnects, Connect, LinkBreaks, Crash,
             daemonVars
    <3>2. ASSUME NEW j \in Jobs,
                 \/ EndDiscard(j) \/ StartUnit(j) \/ WriteProfile(j) \/ UnitSucceeds(j) \/ UnitFails(j)
                 \/ Poll(j) \/ PollDeadline(j) \/ PollMissing(j) \/ CorruptRecord(j) \/ UnitDies(j)
          PROVE  starting' \subseteq starting
      BY <3>2 DEF EndDiscard, StartUnit, WriteProfile, UnitSucceeds, UnitFails, Poll, PollDeadline,
                  PollMissing, Finish, CorruptRecord, UnitDies, UnitMoves
    <3>3. UNCHANGED daemonVars \/ UNCHANGED vars => starting' \subseteq starting
      BY DEF daemonVars, vars
    <3> QED BY <1>2, <3>1, <3>2, <3>3 DEF Next, HostStep, HostFault, TakesCommand
  <2> QED BY <1>2, <2>1, FilesStep, AstrayStays
<1> QED BY <1>1, <1>2

\* A unit of a setup that changes the profile.
SetsUp(p) == p \in Jobs /\ file[p].command = "provision" /\ Runs(p)

LEMMA ProfileStep ==
    ASSUME HostTypes, UnitInv, FilesInv, DiscardInv, [Next]_vars
    PROVE  \/ profile' = profile
           \/ profile'.state = "none" /\ \E j \in Jobs : job[j].command = "remove"
           \/ \E p \in Jobs : SetsUp(p) /\ (WriteProfile(p) \/ unit'[p] \in {"failed", "gone"})
<1>0. unit \in [Jobs -> {"none", "active", "wrote", "ok", "failed", "gone"}]
  BY DEF HostTypes, DaemonTypeOK
<1>1. ASSUME NEW j \in Jobs, EndDiscard(j)
      PROVE  profile' = profile \/ (profile'.state = "none" /\ job[j].command = "remove")
  BY <1>1 DEF EndDiscard, DiscardInv, NoProfile
<1>2. ASSUME NEW j \in Jobs, WriteProfile(j) PROVE SetsUp(j)
  BY <1>2 DEF WriteProfile, SetsUp, Runs
<1>3. ASSUME NEW j \in Jobs, UnitSucceeds(j)
      PROVE  profile' = profile \/ (profile'.state = "none" /\ job[j].command = "remove")
  <2>1. file[j].state # "none"
    BY <1>3 DEF UnitSucceeds, UnitInv, UnknownUntouched
  <2>2. file[j].command = job[j].command
    BY <2>1 DEF FilesInv, FilesOfJobs
  <2> QED BY <1>3, <2>2 DEF UnitSucceeds, NoProfile
<1>4. ASSUME NEW j \in Jobs, UnitFails(j) \/ UnitDies(j) \/ PollDeadline(j)
      PROVE  profile' = profile \/ (SetsUp(j) /\ unit'[j] \in {"failed", "gone"})
  <2>1. Runs(j)
    BY <1>4 DEF UnitFails, UnitDies, PollDeadline
  <2>2. \/ profile' = profile
        \/ HalfDone(j) /\ (unit' = [unit EXCEPT ![j] = "failed"] \/ unit' = [unit EXCEPT ![j] = "gone"])
    BY <1>4 DEF UnitFails, UnitDies, UnitMoves, PollDeadline
  <2>3. profile' = profile \/ (HalfDone(j) /\ unit'[j] \in {"failed", "gone"})
    BY <1>0, <2>2
  <2> QED BY <2>1, <2>3 DEF HalfDone, SetsUp
<1>5. ASSUME NEW j \in Jobs, StartUnit(j) \/ Poll(j) \/ PollMissing(j) \/ CorruptRecord(j)
      PROVE  profile' = profile
  BY <1>5 DEF StartUnit, Poll, PollMissing, CorruptRecord
<1>6. BeginSession \/ ReplayKnown \/ Decline \/ BeginDiscard \/ RecordDiscard \/ SaveRecord \/ HostConnects
      \/ LinkBreaks \/ Crash => profile' = profile
  BY DEF BeginSession, ReplayKnown, Decline, BeginDiscard, RecordDiscard, SaveRecord, HostConnects, Connect,
         LinkBreaks, Crash, daemonVars
<1>7. UNCHANGED daemonVars \/ UNCHANGED vars => profile' = profile
  BY DEF daemonVars, vars
<1>8. ASSUME HostStep
      PROVE  \/ profile' = profile
             \/ profile'.state = "none" /\ \E j \in Jobs : job[j].command = "remove"
             \/ \E p \in Jobs : SetsUp(p) /\ (WriteProfile(p) \/ unit'[p] \in {"failed", "gone"})
  BY <1>1, <1>2, <1>3, <1>4, <1>5, <1>6, <1>8 DEF HostStep
<1>9. ASSUME HostConnects \/ HostFault
      PROVE  profile' = profile \/ \E p \in Jobs : SetsUp(p) /\ unit'[p] \in {"failed", "gone"}
  BY <1>4, <1>5, <1>6, <1>9 DEF HostFault
<1> QED BY <1>7, <1>8, <1>9 DEF Next

LEMMA UnitsAdvance ==
    ASSUME HostTypes, UnitInv, [Next]_vars, NEW s \in Jobs, unit'[s] \in {"wrote", "ok"}
    PROVE  unit'[s] = unit[s] \/ WriteProfile(s) \/ UnitSucceeds(s)
<1>0. unit \in [Jobs -> {"none", "active", "wrote", "ok", "failed", "gone"}]
  BY DEF HostTypes, DaemonTypeOK
<1>1. ASSUME NEW j \in Jobs, WriteProfile(j) \/ UnitSucceeds(j) \/ UnitFails(j) \/ UnitDies(j)
      PROVE  unit'[s] = unit[s] \/ WriteProfile(s) \/ UnitSucceeds(s)
  <2>1. CASE j # s
    <3>1. \E state : unit' = [unit EXCEPT ![j] = state]
      BY <1>1 DEF WriteProfile, UnitSucceeds, UnitFails, UnitDies, UnitMoves
    <3> QED BY <1>0, <2>1, <3>1
  <2>2. CASE j = s
    <3>1. UnitFails(s) \/ UnitDies(s) => unit'[s] \notin {"wrote", "ok"}
      BY <1>0 DEF UnitFails, UnitDies, UnitMoves
    <3> QED BY <1>1, <2>2, <3>1
  <2> QED BY <2>1, <2>2
<1>2. ASSUME NEW j \in Jobs, StartUnit(j) \/ PollDeadline(j) PROVE unit'[s] = unit[s]
  <2>1. unit' = unit \/ \E state \in {"failed", "active", "gone"} : unit' = [unit EXCEPT ![j] = state]
    BY <1>2 DEF StartUnit, Started, PollDeadline
  <2> QED BY <1>0, <2>1
<1>3. ASSUME NEW j \in Jobs, Poll(j) \/ PollMissing(j) \/ CorruptRecord(j) \/ EndDiscard(j) PROVE unit' = unit
  BY <1>3 DEF Poll, PollMissing, CorruptRecord, EndDiscard
<1>4. BeginSession \/ ReplayKnown \/ Decline \/ BeginDiscard \/ RecordDiscard \/ SaveRecord \/ HostConnects
      \/ LinkBreaks \/ Crash => unit' = unit
  BY DEF BeginSession, ReplayKnown, Decline, BeginDiscard, RecordDiscard, SaveRecord, HostConnects, Connect,
         LinkBreaks, Crash, daemonVars
<1>5. UNCHANGED daemonVars \/ UNCHANGED vars => unit' = unit
  BY DEF daemonVars, vars
<1> QED BY <1>1, <1>2, <1>3, <1>4, <1>5 DEF Next, HostStep, HostFault

\* A setup that still runs after a removal, or after a later setup, is one the daemon lost track of.
LEMMA EarlierIsAstray ==
    ASSUME UnitInv, FilesInv, NEW p, SetsUp(p), NEW j \in Jobs, file[j].state # "none",
           file[j].command = "remove" \/ (file[j].command = "provision" /\ p < j)
    PROVE  Astray
<1>1. p \in Jobs /\ file[p].command = "provision" /\ Runs(p)
  BY DEF SetsUp
<1>2. file[p].state # "running"
  BY <1>1 DEF FilesInv, LastIsFollowed
<1>3. Outlived(p)
  BY <1>1, <1>2 DEF UnitInv, WorkIsRecorded
<1>4. p \notin starting
  BY <1>1 DEF UnitInv, StartingIsNew, Runs
<1> QED BY <1>1, <1>3, <1>4 DEF Astray

\* So is one that runs while the session waits for a removal.
LEMMA WaitingIsAstray ==
    ASSUME UnitInv, DiscardInv, NEW p, SetsUp(p), NEW j \in Jobs, discard[j] = "done"
    PROVE  Astray
<1>1. p \in Jobs /\ file[p].command = "provision" /\ Runs(p)
  BY DEF SetsUp
<1>2. file[p].state # "running"
  BY <1>1 DEF DiscardInv
<1>3. Outlived(p)
  BY <1>1, <1>2 DEF UnitInv, WorkIsRecorded
<1>4. p \notin starting
  BY <1>1 DEF UnitInv, StartingIsNew, Runs
<1> QED BY <1>1, <1>3, <1>4 DEF Astray

\* The thread is done in the step that leaves no profile.
LEMMA DoneComes ==
    ASSUME HostTypes, UnitInv, [Next]_vars, NEW j \in Jobs, discard'[j] = "done", discard[j] # "done"
    PROVE  profile'.state = "none"
<1>0. discard \in [Jobs -> {"none", "runs", "done", "failed"}]
  BY DEF HostTypes, DaemonTypeOK
<1>1. ASSUME NEW i \in Jobs, EndDiscard(i) PROVE profile'.state = "none"
  <2>1. PICK end \in {"done", "failed"} :
           /\ end = "done" => profile' = NoProfile
           /\ discard' = [discard EXCEPT ![i] = IF Pending(i) THEN end ELSE "none"]
    BY <1>1 DEF EndDiscard
  <2>2. end = "done"
    BY <1>0, <2>1
  <2> QED BY <2>1, <2>2 DEF NoProfile
<1>2. BeginDiscard => \E i \in Jobs : discard' = [discard EXCEPT ![i] = "runs"]
  BY CommandReceived DEF BeginDiscard, Accepts, HostTypes
<1>3. ~BeginDiscard
  BY <1>0, <1>2
<1>4. RecordDiscard => discard' = [discard EXCEPT ![awaited] = "none"]
  BY DEF RecordDiscard
<1>5. ~RecordDiscard
  BY <1>0, <1>4
<1>6. LinkBreaks \/ Crash => discard'[j] \in {discard[j], "none"}
  BY DEF LinkBreaks, Crash, StopsWaiting
<1>7. BeginSession \/ ReplayKnown \/ Decline \/ SaveRecord \/ HostConnects => discard' = discard
  BY DEF BeginSession, ReplayKnown, Decline, SaveRecord, HostConnects, Connect, daemonVars, removalVars
<1>8. ASSUME NEW i \in Jobs,
             \/ StartUnit(i) \/ WriteProfile(i) \/ UnitSucceeds(i) \/ UnitFails(i)
             \/ Poll(i) \/ PollDeadline(i) \/ PollMissing(i) \/ CorruptRecord(i) \/ UnitDies(i)
      PROVE  discard' = discard
  BY <1>8 DEF StartUnit, WriteProfile, UnitSucceeds, UnitFails, Poll, PollDeadline, PollMissing, Finish,
              CorruptRecord, UnitDies, UnitMoves, removalVars
<1>9. UNCHANGED daemonVars \/ UNCHANGED vars => discard' = discard
  BY DEF daemonVars, vars
<1> QED BY <1>1, <1>3, <1>5, <1>6, <1>7, <1>8, <1>9 DEF Next, HostStep, HostFault

\* A removal comes true in the step that leaves no profile.
LEMMA RemovedComes ==
    ASSUME HostTypes, UnitInv, FilesInv, DiscardInv, SuccessesAreTrue, [Next]_vars,
           NEW j \in Jobs, Removed(j)', ~Removed(j)
    PROVE  profile'.state = "none"
<1>1. CASE discard'[j] = "done"
  BY <1>1, DoneComes DEF Removed
<1>2. CASE discard'[j] # "done" /\ TakesCommand
  <2>1. PICK i \in Jobs : Takes(i)
    BY <1>2, TakesIs
  <2>2. i = j
    BY <1>2, <2>1 DEF Takes, Removed
  <2>3. unit'[j] = "none"
    BY <2>1, <2>2 DEF Takes, UnitInv, UnknownUntouched
  <2>4. file'[j].ok
    BY <1>2, <2>3 DEF Removed
  <2>5. discard[j] = "done"
    BY <2>1, <2>2, <2>4 DEF Takes, TakesFrame, TakesRemoval
  <2> QED BY <2>5 DEF Removed
<1>3. CASE discard'[j] # "done" /\ ~TakesCommand
  <2>1. FilesGoOn
    BY <1>3, FilesStep
  <2>2. file'[j].command = "remove" /\ file[j].command = "remove" /\ (file'[j].ok \/ unit'[j] = "ok")
    BY <1>3, <2>1 DEF Removed, FilesGoOn
  <2>3. ~file[j].ok /\ unit[j] # "ok"
    BY <2>2 DEF Removed
  <2>4. ~file'[j].ok
    BY <2>1, <2>3 DEF FilesGoOn
  <2>5. WriteProfile(j) \/ UnitSucceeds(j)
    BY <2>2, <2>3, <2>4, UnitsAdvance
  <2> QED BY <2>2, <2>5 DEF WriteProfile, UnitSucceeds, NoProfile
<1> QED BY <1>1, <1>2, <1>3

LEMMA RemovedStep ==
    ASSUME HostTypes, UnitInv, FilesInv, DiscardInv, SuccessesAreTrue, RemovedInv, [Next]_vars
    PROVE  RemovedInv'
<1> SUFFICES ASSUME NEW j \in Jobs, Removed(j)', ~Astray, ~Astray'
             PROVE  profile'.state = "none"
  BY AstrayStep DEF RemovedInv
<1>1. CASE ~Removed(j)
  BY <1>1, RemovedComes
<1>2. CASE Removed(j)
  <2>1. discard[j] = "done" \/ (file[j].state # "none" /\ file[j].command = "remove")
    BY <1>2 DEF Removed, SuccessesAreTrue, UnitInv, UnknownUntouched
  <2>2. profile.state = "none"
    BY <1>2 DEF RemovedInv
  <2>3. \A p \in Jobs : ~SetsUp(p)
    BY <2>1, EarlierIsAstray, WaitingIsAstray
  <2> QED BY <2>2, <2>3, ProfileStep
<1> QED BY <1>1, <1>2

Earlier(s) == \A j \in Of("provision") : j # s => job[j].status \in Ended

LEMMA OthersEnded == ASSUME RowsInv, NEW s, IsLatest(s) PROVE Earlier(s)
<1> SUFFICES ASSUME NEW j \in Of("provision"), j # s PROVE job[j].status \in Ended
  BY DEF Earlier
<1>1. s \in Of("provision") /\ j <= s /\ s \in Jobs /\ j \in Jobs
  BY DEF IsLatest, Of
<1>2. j < s
  BY <1>1 DEF Jobs
<1> QED BY <1>1, <1>2 DEF RowsInv, SetupsInTurn

\* The token of the latest setup goes only when the setup ends badly.
LEMMA SettledKeeps ==
    ASSUME NEW s \in Of("provision"), Earlier(s), NEW t \in live, t[1] = s,
           NEW S \in SUBSET With(Open), NEW ends, DOMAIN ends = S, NEW token,
           \A j \in S : job'[j].status = ends[j] /\ ends[j] \in Ended,
           \A j \in S : ends[j] = "succeeded" /\ j = s => token = t
    PROVE  t \in Settled(ends, token) \/ job'[s].status \in Bad
<1> DEFINE good == {j \in DOMAIN ends : ends[j] = "succeeded" /\ job[j].command = "provision"}
           bad == {j \in DOMAIN ends : ends[j] # "succeeded" /\ job[j].command = "provision"}
           kept(j) == IF token[1] = j THEN token ELSE <<j, job[j].minted>>
<1>1. s \in bad => job'[s].status \in Bad
  BY DEF Bad
<1>2. ASSUME NEW j \in good PROVE j = s
  <2>1. j \in Jobs /\ job[j].command = "provision" /\ job[j].status \in Open
    BY DEF With
  <2>2. job[j].status \notin Ended /\ job[j].status # "none"
    BY <2>1 DEF Open, Active, Ended
  <2> QED BY <2>1, <2>2 DEF Earlier, Of
<1>3. ASSUME NEW j \in good PROVE kept(j) = t
  <2>1. j = s /\ token = t
    BY <1>2
  <2> QED BY <2>1
<1>4. Settled(ends, token) = {u \in live : u[1] \notin bad /\ \A j \in good : u = kept(j)}
  BY DEF Settled
<1> HIDE DEF good, bad, kept
<1> QED BY <1>1, <1>3, <1>4

LEMMA MovesKeeps ==
    ASSUME HostTypes, NEW s \in Of("provision"), Earlier(s), NEW t \in live, t[1] = s,
           NEW j \in Jobs, job[j].status \in Open, NEW status, NEW token, Moves(j, status, token),
           status = "succeeded" /\ j = s => token = t
    PROVE  t \in live' \/ job'[s].status \in Bad
<1>1. job'[j].status = status
  <2>1. PICK row : row = [job[j] EXCEPT !.status = status]
    OBVIOUS
  <2>2. job' = [job EXCEPT ![j] = row]
    BY <2>1 DEF Moves
  <2>3. row.status = status
    BY <2>1 DEF HostTypes, JobsInv, JobsTypeOK, Job
  <2> QED BY <2>2, <2>3 DEF HostTypes, JobsInv, JobsTypeOK
<1>2. CASE status \in Ended
  <2>1. live' = Settled([k \in {j} |-> status], token)
    BY <1>2 DEF Moves
  <2>2. PICK ends : ends = [k \in {j} |-> status]
    OBVIOUS
  <2>3. DOMAIN ends = {j} /\ ends[j] = status /\ {j} \in SUBSET With(Open)
    BY <2>2 DEF With
  <2>4. t \in Settled(ends, token) \/ job'[s].status \in Bad
    BY <1>1, <1>2, <2>3, SettledKeeps
  <2> QED BY <2>1, <2>2, <2>4
<1>3. CASE status \notin Ended
  BY <1>3 DEF Moves
<1> QED BY <1>2, <1>3

LEMMA CancelKeeps ==
    ASSUME HostTypes, NEW s \in Of("provision"), Earlier(s), NEW t \in live, t[1] = s,
           NEW S \in SUBSET With(Open), live' = Settled([j \in S |-> "canceled"], NoToken),
           job' = [j \in Jobs |-> IF j \in S THEN [job[j] EXCEPT !.status = "canceled"] ELSE job[j]]
    PROVE  t \in live' \/ job'[s].status \in Bad
<1>1. \A j \in Jobs : [job[j] EXCEPT !.status = "canceled"].status = "canceled"
  BY DEF HostTypes, JobsInv, JobsTypeOK, Job
<1>2. \A j \in S : job'[j].status = "canceled" /\ "canceled" \in Ended
  BY <1>1 DEF With, Ended
<1>3. PICK ends : ends = [j \in S |-> "canceled"]
  OBVIOUS
<1>4. DOMAIN ends = S /\ \A j \in S : ends[j] = "canceled"
  BY <1>3
<1>5. t \in Settled(ends, NoToken) \/ job'[s].status \in Bad
  BY <1>2, <1>4, SettledKeeps
<1> QED BY <1>3, <1>5

LEMMA ReconcileKeepsToken ==
    ASSUME HostTypes, NEW s \in Of("provision"), Earlier(s), NEW t \in live, t[1] = s, Reconcile
    PROVE  t \in live' \/ job'[s].status \in Bad
<1> DEFINE open == With(Active)
           status(j) == IF reported[j] = "unknown"
                        THEN IF job[j].status = "sent" THEN AgainOrFailed(j) ELSE "lost"
                        ELSE IF reported[j] = "running" THEN "running" ELSE job[j].status
           S == {k \in open : status(k) \in Ended}
<1>1. \A j \in Jobs : [job[j] EXCEPT !.status = status(j)].status = status(j)
  BY DEF HostTypes, JobsInv, JobsTypeOK, Job
<1>2. job' = [j \in Jobs |-> IF j \in open THEN [job[j] EXCEPT !.status = status(j)] ELSE job[j]]
  BY DEF Reconcile
<1>3. live' = Settled([j \in S |-> status(j)], NoToken)
  BY DEF Reconcile
<1>4. \A j \in open : j \in Jobs /\ job[j].status \in Active
  BY DEF With
<1>5. \A j \in open : status(j) # "succeeded"
  BY <1>4 DEF AgainOrFailed, Active
<1> HIDE DEF status
<1>6. PICK ends : ends = [j \in S |-> status(j)]
  OBVIOUS
<1>7. DOMAIN ends = S /\ \A j \in S : ends[j] = status(j)
  BY <1>6
<1>8. S \in SUBSET With(Open)
  BY DEF With, Open
<1>9. \A j \in S : job'[j].status = ends[j] /\ ends[j] \in Ended /\ ends[j] # "succeeded"
  BY <1>1, <1>2, <1>4, <1>5, <1>7
<1>10. t \in Settled(ends, NoToken) \/ job'[s].status \in Bad
  BY <1>7, <1>8, <1>9, SettledKeeps
<1> QED BY <1>3, <1>6, <1>10

\* The token the host was given stays good, unless the setup ends badly or the agent goes.
LEMMA LiveStep ==
    ASSUME HostTypes, RowsInv, FilesInv, SuccessesAreTrue, [Next]_vars,
           NEW s \in Jobs, IsLatest(s), file[s].state # "none", file[s].command = "provision",
           file[s].token \in live
    PROVE  file[s].token \in live' \/ deleted' \/ job'[s].status \in Bad
<1> DEFINE t == file[s].token
<1>1. s \in Of("provision") /\ Earlier(s) /\ t[1] = s
  BY OthersEnded DEF IsLatest, FilesInv, FilesOfJobs
<1>2. CASE live' = live
  BY <1>2
<1> HIDE DEF t
<1>3. ASSUME NEW j \in Jobs,
             AckTimeout(j) \/ DeadlinePassed(j) \/ HostLost(j) \/ Expire(j) \/ CancelRemoval(j)
      PROVE  t \in live' \/ job'[s].status \in Bad
  <2>1. \E status : status # "succeeded" /\ job[j].status \in Open /\ Moves(j, status, NoToken)
    BY <1>3 DEF AckTimeout, DeadlinePassed, HostLost, Expire, CancelRemoval, SweepMoves, AgainOrFailed,
                Open, Active
  <2> QED BY <1>1, <2>1, MovesKeeps DEF t
<1>4. CASE HandleFrame
  <2>1. PICK f \in FrameToServer : f = Head(toServer) /\ toServer # <<>> /\ f = toServer[1]
    BY <1>4, FrameGoesOn
  <2>2. CASE AfterFrame(f) = ""
    BY <1>2, <1>4, <2>1, <2>2 DEF HandleFrame
  <2>3. CASE AfterFrame(f) # ""
    <3>1. Moves(f.job, AfterFrame(f), f.token) /\ f.job \in Jobs
      BY <1>4, <2>1, <2>3 DEF HandleFrame, FrameToServer
    <3>2. job[f.job].status \in Open
      BY <2>3 DEF AfterFrame, Open, Active
    <3>3. AfterFrame(f) = "succeeded" => f.kind = "ok"
      BY DEF AfterFrame, AgainOrFailed
    <3>4. 1 \in DOMAIN toServer
      BY <2>1 DEF HostTypes, LinkInv, LinkTypeOK
    <3>5. f.kind = "ok" => f.token = file[f.job].token
      BY <2>1, <3>4 DEF SuccessesAreTrue, OkIsTrue
    <3>6. AfterFrame(f) = "succeeded" /\ f.job = s => f.token = t
      BY <3>3, <3>5 DEF t
    <3>7. t \in live
      BY DEF t
    <3>8. t \in live' \/ job'[s].status \in Bad
      BY <1>1, <3>1, <3>2, <3>6, <3>7, MovesKeeps
    <3> QED BY <3>8 DEF t
  <2> QED BY <2>2, <2>3
<1>5. CASE Reconcile
  BY <1>1, <1>5, ReconcileKeepsToken DEF t
<1>6. CASE CancelQueued
  <2>1. {j \in With({"queued"}) : job[j].command # "remove"} \in SUBSET With(Open)
    BY DEF With, Open
  <2> QED BY <1>1, <1>6, <2>1, CancelKeeps DEF CancelQueued, t
<1>7. CASE Revoke
  BY <1>1, <1>7, CancelKeeps DEF Revoke, t
<1>8. CASE RevokeOrphans
  <2>1. t \in Orphans => deleted \/ job[s].status \in Bad
    BY <1>1 DEF Orphans, Bad
  <2>2. job' = job /\ deleted' = deleted /\ live' = live \ Orphans
    BY <1>8 DEF RevokeOrphans, jobVars
  <2> QED BY <2>1, <2>2 DEF t
<1>9. CASE RetryRevoke
  BY <1>9 DEF RetryRevoke, RowsInv, SetupsInTurn
<1>10. CASE DeleteAgent
  BY <1>10 DEF DeleteAgent
<1>11. ASSUME NEW d \in Dispatches, Select(d) \/ Claim(d) PROVE t \in live'
  BY <1>11 DEF Select, Claim, t
<1>12. RecordHello \/ Greet \/ OldSocketCloses \/ CloseRevoked \/ RetryQueue \/ RestartQueue \/ RedoQueue
       \/ CheckHost \/ QueueRemoval \/ RetryCheck \/ RestartCheck \/ RedoCheck => live' = live
  BY DEF RecordHello, Greet, OldSocketCloses, CloseRevoked, RetryQueue, RestartQueue, RedoQueue, Queues,
         CheckHost, QueueRemoval, RetryCheck, RestartCheck, RedoCheck
<1>13. BeginSession \/ ReplayKnown \/ Decline \/ BeginDiscard \/ RecordDiscard \/ SaveRecord \/ HostConnects
       \/ LinkBreaks \/ Crash => live' = live
  BY DEF BeginSession, ReplayKnown, Decline, BeginDiscard, RecordDiscard, SaveRecord, HostConnects, Connect,
         LinkBreaks, Crash
<1>14. ASSUME NEW j \in Jobs,
              \/ EndDiscard(j) \/ StartUnit(j) \/ WriteProfile(j) \/ UnitSucceeds(j) \/ UnitFails(j)
              \/ Poll(j) \/ PollDeadline(j) \/ PollMissing(j) \/ CorruptRecord(j) \/ UnitDies(j)
       PROVE  live' = live
  BY <1>14 DEF EndDiscard, StartUnit, WriteProfile, UnitSucceeds, UnitFails, Poll, PollDeadline,
               PollMissing, Finish, CorruptRecord, UnitDies, UnitMoves
<1>15. UNCHANGED vars => live' = live
  BY DEF vars
<1>16. ASSUME ServerStep \/ ServerEvent
       PROVE  t \in live' \/ deleted' \/ job'[s].status \in Bad
  BY <1>2, <1>3, <1>4, <1>5, <1>6, <1>7, <1>8, <1>9, <1>10, <1>11, <1>12, <1>16 DEF ServerStep, ServerEvent, t
<1>17. ASSUME HostConnects \/ HostStep \/ HostFault PROVE live' = live
  BY <1>13, <1>14, <1>17 DEF HostStep, HostFault
<1> QED BY <1>2, <1>15, <1>16, <1>17 DEF Next, t

\* The setup that is the latest after a step, with a record whose unit did anything, was it before.
LEMMA LatestWas ==
    ASSUME HostTypes, UnitInv, RowsInv, FilesInv, DiscardInv, [Next]_vars,
           NEW s \in Jobs, IsLatest(s)', file'[s].command = "provision", unit'[s] \in {"wrote", "ok"}
    PROVE  /\ IsLatest(s) /\ file[s].state # "none"
           /\ file[s].command = "provision" /\ file'[s].token = file[s].token
           /\ job[s].status \in Bad => job'[s].status \in Bad
<1>0. job \in [Jobs -> Job]
  BY DEF HostTypes, JobsInv, JobsTypeOK
<1>1. unit[s] # "none"
  <2>1. unit'[s] = unit[s] \/ WriteProfile(s) \/ UnitSucceeds(s)
    BY UnitsAdvance
  <2> QED BY <2>1 DEF WriteProfile, UnitSucceeds
<1>2. file[s].state # "none"
  BY <1>1 DEF UnitInv, UnknownUntouched
<1>3. file'[s].command = file[s].command /\ file'[s].token = file[s].token
  <2>1. CASE TakesCommand
    <3>1. PICK j \in Jobs : Takes(j)
      BY <2>1, TakesIs
    <3> QED BY <1>2, <3>1 DEF Takes
  <2>2. CASE ~TakesCommand
    BY <2>2, FilesStep DEF FilesGoOn
  <2> QED BY <2>1, <2>2
<1>4. job[s].status # "none"
  BY <1>2 DEF FilesInv, FilesOfJobs
<1>5. IsLatest(s) /\ (job[s].status \in Bad => job'[s].status \in Bad)
  <2>1. CASE QueuesAJob
    <3>1. \E n, c : Adds(n, c)
      BY <2>1, QueueAdds DEF QueuesAJob, RetryQueue, RestartQueue, RedoQueue, QueueRemoval, Queues, Commands
    <3>2. PICK n, c : Adds(n, c)
      BY <3>1
    <3>3. \A k \in Of("provision") : k \in Of("provision")' /\ k \in Jobs
      BY <3>2 DEF Adds, Of
    <3>4. s # n /\ job'[s] = job[s]
      BY <1>4, <3>2 DEF Adds
    <3>5. s \in Of("provision")
      BY <3>4 DEF IsLatest, Of
    <3> QED BY <3>3, <3>4, <3>5 DEF IsLatest
  <2>2. CASE ~QueuesAJob
    <3>1. RowsGoOn
      BY <2>2, RowsStep
    <3> QED BY <1>0, <3>1, GoOnKeepsSetups DEF Bad
  <2> QED BY <2>1, <2>2
<1> QED BY <1>2, <1>3, <1>5

LEMMA TokenStep ==
    ASSUME HostTypes, UnitInv, RowsInv, CommandsInv, FilesInv, DiscardInv, SuccessesAreTrue, TokenInv,
           RowsInv', [Next]_vars
    PROVE  TokenInv'
<1> SUFFICES ASSUME NEW s \in Jobs, IsLatest(s)', file'[s].command = "provision", unit'[s] \in {"wrote", "ok"},
                    ~Void(s)'
             PROVE  /\ profile'.state = "installed" /\ profile'.token = file'[s].token
                    /\ unit'[s] = "ok" => file'[s].token \in live'
  BY DEF TokenInv, IsLatest, Void
<1>1. /\ IsLatest(s) /\ file[s].state # "none"
      /\ file[s].command = "provision" /\ file'[s].token = file[s].token
      /\ job[s].status \in Bad => job'[s].status \in Bad
  BY LatestWas
<1>2. deleted => deleted'
  <2>1. UNCHANGED jobVars \/ UNCHANGED vars => deleted' = deleted
    BY DEF jobVars, vars
  <2>2. ASSUME NEW d \in Dispatches, Select(d) \/ Claim(d) PROVE deleted' = deleted
    BY <2>2 DEF Select, Claim
  <2>3. ASSUME NEW j \in Jobs,
               AckTimeout(j) \/ DeadlinePassed(j) \/ HostLost(j) \/ Expire(j) \/ CancelRemoval(j)
        PROVE  deleted' = deleted
    BY <2>3 DEF AckTimeout, DeadlinePassed, HostLost, Expire, CancelRemoval, SweepMoves
  <2>4. RecordHello \/ Greet \/ Reconcile \/ HandleFrame \/ OldSocketCloses \/ CloseRevoked
        \/ RevokeOrphans \/ Revoke \/ RetryQueue \/ RestartQueue \/ RedoQueue \/ CancelQueued \/ CheckHost
        \/ QueueRemoval \/ RetryCheck \/ RestartCheck \/ RedoCheck \/ RetryRevoke => deleted' = deleted
    BY DEF RecordHello, Greet, Reconcile, HandleFrame, OldSocketCloses, CloseRevoked, jobVars,
           RevokeOrphans, Revoke, RetryQueue, RestartQueue, RedoQueue, Queues, CancelQueued, CheckHost,
           QueueRemoval, RetryCheck, RestartCheck, RedoCheck, RetryRevoke
  <2>5. DeleteAgent => deleted'
    BY DEF DeleteAgent
  <2> QED BY <2>1, <2>2, <2>3, <2>4, <2>5 DEF Next, ServerStep, ServerEvent
<1>3. ~Void(s) /\ ~deleted' /\ ~Astray' /\ job'[s].status \notin Bad
  BY <1>1, <1>2, AstrayStep DEF Void
<1>4. ~deleted /\ ~Astray
  BY <1>3 DEF Void
<1>5. unit'[s] = unit[s] \/ WriteProfile(s) \/ UnitSucceeds(s)
  BY UnitsAdvance
<1>6. profile'.state = "installed" /\ profile'.token = file'[s].token
  <2>1. CASE WriteProfile(s)
    BY <1>1, <2>1 DEF WriteProfile
  <2>2. CASE ~WriteProfile(s)
    <3>1. unit[s] \in {"wrote", "ok"}
      BY <1>1, <1>5, <2>2 DEF UnitSucceeds
    <3>2. profile.state = "installed" /\ profile.token = file[s].token
      BY <1>1, <1>3, <3>1 DEF TokenInv
    <3>3. ASSUME NEW p \in Jobs, SetsUp(p), WriteProfile(p) \/ unit'[p] \in {"failed", "gone"} PROVE FALSE
      <4>1. p # s
        BY <2>2, <3>3
      <4>2. file[p].state # "none" /\ file[p].command = "provision"
        BY <3>3 DEF SetsUp, Runs, UnitInv, UnknownUntouched
      <4>3. p \in Of("provision")
        BY <4>2 DEF FilesInv, FilesOfJobs, Of
      <4>4. p < s
        BY <1>1, <4>1, <4>3 DEF IsLatest, Jobs
      <4> QED BY <1>1, <1>4, <3>3, <4>4, EarlierIsAstray
    <3>4. \A j \in Jobs : job[j].command # "remove"
      BY <1>4 DEF RowsInv, RemovalsOfDeleted
    <3>5. profile' = profile
      BY <3>3, <3>4, ProfileStep
    <3> QED BY <1>1, <3>2, <3>5
  <2> QED BY <2>1, <2>2
<1>7. ASSUME unit'[s] = "ok" PROVE file'[s].token \in live'
  <2>1. file[s].token \in live
    <3>1. CASE UnitSucceeds(s)
      <4>1. unit[s] = "wrote" /\ profile.token \in live
        BY <1>1, <3>1 DEF UnitSucceeds
      <4>2. profile.token = file[s].token
        BY <1>1, <1>3, <4>1 DEF TokenInv
      <4> QED BY <4>1, <4>2
    <3>2. CASE WriteProfile(s)
      <4>1. unit'[s] = "wrote"
        BY <3>2 DEF WriteProfile, UnitMoves, HostTypes, DaemonTypeOK
      <4> QED BY <1>7, <4>1
    <3>3. CASE unit'[s] = unit[s]
      BY <1>1, <1>3, <1>7, <3>3 DEF TokenInv
    <3> QED BY <1>5, <3>1, <3>2, <3>3
  <2>2. file[s].token \in live' \/ deleted' \/ job'[s].status \in Bad
    BY <1>1, <2>1, LiveStep
  <2> QED BY <1>1, <1>3, <2>2
<1> QED BY <1>6, <1>7

LEMMA FateInit == Init => FateInv
<1> SUFFICES ASSUME NEW s \in Scenarios, LinkInit(s.begins, s.may), JobsInit(s.begins), DaemonInit(s.begins)
             PROVE  FateInv
  BY DEF Init
<1>0. s.begins \in {"hired", "setUp", "refused"} /\ 1 \in Jobs
  BY HostAssumption DEF Scenario, Jobs
<1>1. /\ job[1].command = "provision" /\ job[1].status \in {"queued", "succeeded", "failed"}
      /\ job[1].status = "succeeded" <=> s.begins = "setUp"
      /\ \A j \in Jobs \ {1} : job[j].status = "none" /\ job[j].command = "restart"
  <2>1. \A j \in Jobs \ {1} : job[j] = NoJob
    BY DEF JobsInit
  <2>2. CASE s.begins = "hired"
    BY <1>0, <2>1, <2>2 DEF JobsInit, Queued, NoJob
  <2>3. CASE s.begins # "hired"
    <3>1. PICK q : q = Queued("provision")
      OBVIOUS
    <3>2. q = [status |-> "queued", command |-> "provision", attempts |-> 0, minted |-> 0]
      BY <3>1 DEF Queued, NoJob
    <3>3. PICK row : row = [q EXCEPT !.attempts = 1, !.minted = 1,
                                     !.status = IF s.begins = "setUp" THEN "succeeded" ELSE "failed"]
      OBVIOUS
    <3>4. job[1] = row
      BY <1>0, <2>3, <3>1, <3>3 DEF JobsInit
    <3>5. row.command = "provision" /\ row.status = IF s.begins = "setUp" THEN "succeeded" ELSE "failed"
      BY <3>2, <3>3
    <3> QED BY <2>1, <3>4, <3>5 DEF NoJob
  <2> QED BY <2>2, <2>3
<1>2. toHost = <<>> /\ toServer = <<>> /\ live = IF s.begins = "setUp" THEN {FirstToken} ELSE {}
  BY DEF LinkInit
<1>3. Of("provision") = {1}
  BY <1>0, <1>1 DEF Of
<1>4. RowsInv
  <2>1. RowsInOrder
    BY <1>0, <1>1, <1>3 DEF RowsInOrder, Jobs
  <2>2. RemovalsOfDeleted
    BY <1>1 DEF RemovalsOfDeleted, JobsInit
  <2>3. SetupsInTurn
    BY <1>3 DEF SetupsInTurn, JobsInit
  <2> QED BY <2>1, <2>2, <2>3 DEF RowsInv
<1>5. CommandsInv
  BY <1>2 DEF CommandsInv, CommandsOfJobs, CommandsInOrder, CommandsAreNew
<1>6. \A j \in Jobs : \/ file[j] = NoFile /\ unit[j] = "none" /\ ~(j = 1 /\ s.begins = "setUp")
                      \/ /\ j = 1 /\ s.begins = "setUp" /\ unit[j] = "ok"
                         /\ file[j] = [state |-> "done", command |-> "provision", ok |-> TRUE,
                                       token |-> FirstToken]
  BY DEF DaemonInit
<1>7. \A j \in Jobs : \/ /\ file[j].state = "none" /\ file[j].command = "restart" /\ ~file[j].ok
                         /\ unit[j] = "none" /\ ~(j = 1 /\ s.begins = "setUp")
                      \/ /\ j = 1 /\ s.begins = "setUp" /\ unit[j] = "ok"
                         /\ file[j].state = "done" /\ file[j].command = "provision" /\ file[j].ok
                         /\ file[j].token = FirstToken
  BY <1>6 DEF NoFile
<1>8. FilesInv
  BY <1>1, <1>7 DEF FilesInv, FilesOfJobs, LastIsFollowed, FirstToken
<1>9. SuccessesAreTrue
  BY <1>0, <1>1, <1>2, <1>7 DEF SuccessesAreTrue
<1>10. DiscardInv /\ RemovedInv
  <2>1. awaited = 0 /\ \A j \in Jobs : j # 0 /\ discard[j] = "none"
    BY DEF DaemonInit, Jobs
  <2> QED BY <1>7, <2>1 DEF RemovedInv, Removed, DiscardInv, Pending
<1>11. TokenInv
  <2>1. s.begins = "setUp" => profile.state = "installed" /\ profile.token = FirstToken
    BY DEF DaemonInit
  <2> QED BY <1>2, <1>7, <2>1 DEF TokenInv
<1> QED BY <1>4, <1>5, <1>8, <1>9, <1>10, <1>11 DEF FateInv

LEMMA FateStep == UnitsInv /\ FateInv /\ [Next]_vars => UnitsInv' /\ FateInv'
<1> SUFFICES ASSUME UnitsInv, FateInv, [Next]_vars PROVE UnitsInv' /\ FateInv'
  OBVIOUS
<1>1. UnitsInv' /\ HostTypes /\ UnitInv /\ HostTypes'
  BY UnitsStep DEF UnitsInv
<1>2. RowsInv'
  BY <1>1, RowsInvStep DEF FateInv
<1>3. CommandsInv' /\ FilesInv'
  BY <1>1, CommandsStep DEF FateInv
<1>4. SuccessesAreTrue'
  BY <1>1, SuccessesStep DEF FateInv
<1>5. RemovedInv' /\ DiscardInv'
  BY <1>1, RemovedStep, DiscardStep, RowsStayStep DEF FateInv
<1>6. TokenInv'
  BY <1>1, <1>2, <1>3, TokenStep DEF FateInv
<1> QED BY <1>1, <1>2, <1>3, <1>4, <1>5, <1>6 DEF FateInv

LEMMA FateAlways == Spec => [](UnitsInv /\ FateInv)
<1>1. Init => UnitsInv /\ FateInv
  BY HostTypesInit, UnitInit, FateInit DEF UnitsInv
<1> QED BY <1>1, FateStep, PTL DEF Spec

\* There is a latest setup: that of the hire, if nobody asked for another.
LEMMA SomeLatest == ASSUME RowsInv PROVE \E s \in Jobs : IsLatest(s)
<1> DEFINE gaps == {MaxJobs - j : j \in Of("provision")}
<1>1. 1 \in Of("provision") /\ \A j \in Of("provision") : j \in Jobs /\ j \in Nat /\ MaxJobs - j \in Nat
  BY HostAssumption DEF RowsInv, RowsInOrder, Of, Jobs
<1>2. gaps \in SUBSET Nat /\ gaps # {}
  BY <1>1
<1>3. PICK g \in gaps : \A h \in gaps : g <= h
  BY <1>2, LeastNumber
<1>4. PICK s \in Of("provision") : g = MaxJobs - s
  BY <1>3
<1>5. \A k \in Of("provision") : MaxJobs - s <= MaxJobs - k
  BY <1>3, <1>4
<1>6. \A k \in Of("provision") : k <= s
  BY <1>1, <1>4, <1>5, HostAssumption
<1> QED BY <1>1, <1>4, <1>6 DEF IsLatest

(***************************************************************************)
(* The agent whose setup succeeded stays able to connect: the token in its *)
(* .env is the one settleJobTokens kept, whichever attempt the host took   *)
(* it from.                                                                *)
(***************************************************************************)
THEOREM HostAgentKeepsItsToken == Spec => []AgentKeepsItsToken
<1>1. UnitsInv /\ FateInv => AgentKeepsItsToken
  <2> SUFFICES ASSUME UnitsInv, FateInv,
                      job[Latest(Of("provision"))].status = "succeeded", ~deleted,
                      \A j \in Of("provision") : ~Outlived(j)
               PROVE  profile.state = "installed" /\ profile.token \in live
    BY DEF AgentKeepsItsToken
  <2>1. PICK s \in Jobs : IsLatest(s)
    BY SomeLatest DEF FateInv
  <2>2. job[s].status = "succeeded" /\ s \in Of("provision")
    BY <2>1, LatestIs DEF IsLatest
  <2>3. file[s].ok /\ file[s].state # "none"
    BY <2>2 DEF FateInv, SuccessesAreTrue
  <2>4. file[s].command = "provision"
    BY <2>2, <2>3 DEF FateInv, FilesInv, FilesOfJobs, Of
  <2>5. unit[s] = "ok"
    BY <2>3, <2>4 DEF FateInv, SuccessesAreTrue
  <2>6. ~Astray
    BY DEF Astray, Outlived, FateInv, FilesInv, FilesOfJobs, Of
  <2>7. ~Void(s)
    BY <2>2, <2>6 DEF Void, Bad
  <2> QED BY <2>1, <2>4, <2>5, <2>7 DEF FateInv, TokenInv
<1> QED BY <1>1, FateAlways, PTL

(***************************************************************************)
(* Once a removal succeeded the agent's profile is gone for good: no setup *)
(* of it comes after, queued, sent or running, unless one the daemon lost  *)
(* track of.                                                               *)
(***************************************************************************)
THEOREM HostRemovedStaysGone == Spec => []RemovedStaysGone
<1>1. UnitsInv /\ FateInv => RemovedStaysGone
  <2> SUFFICES ASSUME UnitsInv, FateInv, NEW j \in Jobs, job[j].command = "remove", job[j].status = "succeeded",
                      \A k \in Of("provision") : ~Outlived(k)
               PROVE  profile.state = "none"
    BY DEF RemovedStaysGone
  <2>1. file[j].ok /\ file[j].state # "none"
    BY DEF FateInv, SuccessesAreTrue
  <2>2. Removed(j)
    BY <2>1 DEF Removed, FateInv, FilesInv, FilesOfJobs
  <2>3. ~Astray
    BY DEF Astray, Outlived, FateInv, FilesInv, FilesOfJobs, Of
  <2> QED BY <2>2, <2>3 DEF FateInv, RemovedInv
<1> QED BY <1>1, FateAlways, PTL
=============================================================================
