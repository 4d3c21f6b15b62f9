------------------------------ MODULE HostJobs -------------------------------
(***************************************************************************)
(* Emperor's side of one runtime host and one agent on it                  *)
(* (src/src/lib/runtime-hosts: job-state.ts, store.ts, agent-jobs.ts and   *)
(* socket-server.ts; the handlers that hire, retry, restart and delete).   *)
(*                                                                         *)
(* The rows of runtime_host_jobs are numbered as they are created.  A      *)
(* dispatch chooses a socket and a job under the lock of the host's row,   *)
(* then marks the job sent and sends it; a job that sets an agent up gets  *)
(* its token in the same transaction.  Timeouts may pass at any moment.    *)
(***************************************************************************)
EXTENDS HostLink

VARIABLES
    job,        \* [Jobs -> Job]: runtime_host_jobs
    deleted,    \* the agent is deleted
    revoked,    \* the host is revoked
    hostLock,   \* the dispatch that holds the lock of the host's row (0: none)
    dispatch,   \* [Dispatches -> Dispatch]
    request,    \* what an administrator's request in flight has yet to do
    removal     \* what the deletion of the agent has yet to do

jobVars == <<job, deleted, revoked, removal, hostLock, dispatch, request>>

Ended == {"succeeded", "failed", "timed_out", "canceled", "lost"}
Active == {"sent", "running"}
Open == Active \cup {"queued"}

Job == [status: Open \cup Ended \cup {"none"}, command: Commands,
        attempts: Nat, minted: Nat]
NoJob == [status |-> "none", command |-> "restart", attempts |-> 0, minted |-> 0]
Queued(command) == [NoJob EXCEPT !.status = "queued", !.command = command]

Dispatches == 1..MaxDispatches
Dispatch == [step: {"idle", "claim"}, job: 0..MaxJobs, via: {"old", "new"}, short: BOOLEAN]
NoDispatch == [step |-> "idle", job |-> 0, via |-> "old", short |-> FALSE]

JobsInit(begins) ==
    /\ job = [j \in Jobs |->
                CASE j # 1 -> NoJob
                  [] j = 1 /\ begins = "hired" -> Queued("provision")
                  [] OTHER -> [Queued("provision") EXCEPT !.attempts = 1, !.minted = 1,
                                  !.status = IF begins = "setUp" THEN "succeeded" ELSE "failed"]]
    /\ deleted = FALSE
    /\ revoked = FALSE
    /\ hostLock = 0
    /\ dispatch = [d \in Dispatches |-> NoDispatch]
    /\ request = "none"
    /\ removal = "none"

JobsTypeOK ==
    /\ job \in [Jobs -> Job]
    /\ \A j \in Jobs : job[j].command # "remove" => job[j].attempts <= MaxAttempts
    /\ deleted \in BOOLEAN /\ revoked \in BOOLEAN
    /\ hostLock \in Dispatches \cup {0}
    /\ dispatch \in [Dispatches -> Dispatch]
    /\ request \in {"none", "retryRevoke", "retryQueue", "restartQueue", "redoQueue"}
    /\ removal \in {"none", "cancel", "check", "queue"}

With(status) == {j \in Jobs : job[j].status \in status}
Of(command) == {j \in Jobs : job[j].status # "none" /\ job[j].command = command}
Latest(js) == IF js = {} THEN 0 ELSE CHOOSE j \in js : \A k \in js : k <= j
NextRow == CHOOSE j \in With({"none"}) : \A k \in With({"none"}) : j <= k

CommandFrame(j, token) == [job |-> j, command |-> job[j].command, token |-> token]

-----------------------------------------------------------------------------
(* The end of a job *)

\* Mutant of Settled: a setup that succeeded keeps the token minted last.
SettledLastMinted(ends, token) ==
    LET good == {j \in DOMAIN ends : ends[j] = "succeeded" /\ job[j].command = "provision"}
        bad == {j \in DOMAIN ends : ends[j] # "succeeded" /\ job[j].command = "provision"}
    IN {t \in live : t[1] \notin bad /\ \A j \in good : t = <<j, job[j].minted>>}

\* settleJobTokens: of a setup that succeeded the agent keeps the token the host wrote, if it is
\* one of this job's, and else the last one minted; of any other end no token of the job stays.
Settled(ends, token) ==
    LET good == {j \in DOMAIN ends : ends[j] = "succeeded" /\ job[j].command = "provision"}
        bad == {j \in DOMAIN ends : ends[j] # "succeeded" /\ job[j].command = "provision"}
        kept(j) == IF token[1] = j THEN token ELSE <<j, job[j].minted>>
    IN {t \in live : t[1] \notin bad /\ \A j \in good : t = kept(j)}

\* A conditional UPDATE of the job, with its tokens in the same transaction.
Moves(j, status, token) ==
    /\ job' = [job EXCEPT ![j].status = status]
    /\ live' = IF status \in Ended THEN Settled([k \in {j} |-> status], token) ELSE live

\* Mutant of AgainOrFailed: a job that had its attempts is left as it is.
AgainOrFailedStuck(j) == IF job[j].attempts < MaxAttempts THEN "queued" ELSE job[j].status

\* Mutant of AgainOrFailed: one attempt too many.
AgainOrFailedOnceMore(j) == IF job[j].attempts <= MaxAttempts THEN "queued" ELSE "failed"

\* What became of a job the host did not take: sent again, or failed after its attempts.
AgainOrFailed(j) == IF job[j].attempts < MaxAttempts THEN "queued" ELSE "failed"

-----------------------------------------------------------------------------
(* claimNextJob and the send after it *)

\* Mutant of NextJob: only a job that runs holds the next one back.
NextJobBesideSent == IF With({"running"}) # {} \/ With({"queued"}) = {} THEN 0
                     ELSE CHOOSE j \in With({"queued"}) : \A k \in With({"queued"}) : j <= k

\* The queued job created first that the lock's holder may send; 0: none, or one is under way.
NextJob == IF With(Active) # {} \/ With({"queued"}) = {} THEN 0
           ELSE CHOOSE j \in With({"queued"}) : \A k \in With({"queued"}) : j <= k

\* Dispatches are all alike: a new one takes the first free place.
IsNew(d) == dispatch[d].step = "idle" /\ \A e \in 1..(d - 1) : dispatch[e].step # "idle"

\* dispatch: a socket that said hello, then the host's row is locked, nothing may be under way,
\* and the next job is read.  Every result, hello, notification and sweep starts one.
Select(d) ==
    /\ IsNew(d)
    /\ hostLock = 0
    /\ ~revoked /\ NextJob # 0
    /\ \E via \in {v \in {"old", "new"} : IF v = "old" THEN old ELSE HelloDone}, short \in BOOLEAN :
          /\ IF short THEN Spend("short") ELSE UNCHANGED left
          /\ dispatch' = [dispatch EXCEPT ![d] = [step |-> "claim", job |-> NextJob,
                                                  via |-> via, short |-> short]]
    /\ hostLock' = d
    /\ UNCHANGED <<linkVars, live, job, deleted, revoked, request, removal>>

\* Mutant of MayBeSetUp: a setup is sent although its agent was deleted.
MayBeSetUpAlways == TRUE

\* The agent is read with a share lock, held until the token is stored.
MayBeSetUp == ~deleted

\* The rest of the transaction and the send.  A job that left the queue since it was read is not
\* sent, but its token stays minted.  A setup of a deleted agent is canceled, and one that lacks
\* memory fails, without a look at the tokens of earlier attempts.
Claim(d) ==
    LET j == dispatch[d].job
        setup == job[j].command = "provision"
        attempt == job[j].attempts + 1
        token == IF setup THEN <<j, attempt>> ELSE NoToken
        waits == job[j].status = "queued"
    IN /\ dispatch[d].step = "claim"
       /\ hostLock' = 0
       /\ dispatch' = [dispatch EXCEPT ![d] = NoDispatch]
       /\ IF setup /\ (~MayBeSetUp \/ dispatch[d].short)
          THEN /\ job' = [job EXCEPT ![j].status =
                            IF ~waits THEN @ ELSE IF ~MayBeSetUp THEN "canceled" ELSE "failed"]
               /\ UNCHANGED <<live, toHost>>
          ELSE /\ live' = live \cup (IF setup THEN {token} ELSE {})
               /\ IF waits
                  THEN /\ job' = [job EXCEPT ![j].status = "sent", ![j].attempts = attempt,
                                             ![j].minted = IF setup THEN attempt ELSE 0]
                       /\ toHost' = IF dispatch[d].via = "new" /\ HelloDone
                                    THEN Append(toHost, CommandFrame(j, token)) ELSE toHost
                  ELSE UNCHANGED <<job, toHost>>
       /\ UNCHANGED <<session, sock, old, reported, toServer, left, deleted, revoked, request, removal>>

-----------------------------------------------------------------------------
(* Frames of the host *)

\* recordHello, which waits for the row of the host; a revoked host is turned away.
RecordHello ==
    /\ sock = "upgraded"
    /\ hostLock = 0
    /\ IF revoked THEN Closed(old)
                  ELSE sock' = "hello" /\ UNCHANGED <<session, old, reported, toHost, toServer>>
    /\ UNCHANGED <<live, left, jobVars>>

\* The welcome goes out after the other processes were told of the newer socket.
Greet ==
    /\ sock = "hello"
    /\ sock' = "greeted"
    /\ toHost' = Append(toHost, Welcome)
    /\ UNCHANGED <<session, old, reported, toServer, live, left, jobVars>>

\* reconcileHostJobs: a job the host never heard of is sent again or given up; one it runs is
\* running; one it finished is sent again, without a token, for its result.
Reconcile ==
    LET open == With(Active)
        status(j) == IF reported[j] = "unknown"
                     THEN IF job[j].status = "sent" THEN AgainOrFailed(j) ELSE "lost"
                     ELSE IF reported[j] = "running" THEN "running" ELSE job[j].status
        ends == [j \in {k \in open : status(k) \in Ended} |-> status(j)]
        again == {j \in open : reported[j] = "done"}
    IN /\ sock = "greeted"
       /\ sock' = "ready"
       /\ job' = [j \in Jobs |-> IF j \in open THEN [job[j] EXCEPT !.status = status(j)] ELSE job[j]]
       /\ live' = Settled(ends, NoToken)
       /\ toHost' = toHost \o [i \in 1..Cardinality(again) |-> CommandFrame(SetToSeq(again)[i], NoToken)]
       /\ NothingReported
       /\ UNCHANGED <<session, old, toServer, left, deleted, revoked, removal, hostLock, dispatch, request>>

\* applyAck, applyProgress, applyResult: the next state of a job, "" when the frame does not apply.
AfterFrame(frame) ==
    LET s == job[frame.job].status
    IN CASE frame.kind \in {"ack", "progress"} /\ s \in Active -> "running"
         [] frame.kind = "busy" /\ s = "sent" -> AgainOrFailed(frame.job)
         [] frame.kind = "refused" /\ s = "sent" -> "failed"
         [] frame.kind = "ok" /\ s \in Active -> "succeeded"
         [] frame.kind = "failed" /\ s \in Active -> "failed"
         [] OTHER -> ""

\* Frames wait until the hello before them is handled.
HandleFrame ==
    LET frame == Head(toServer)
        status == AfterFrame(frame)
    IN /\ sock = "ready" /\ toServer # <<>>
       /\ toServer' = Tail(toServer)
       /\ IF status = "" THEN UNCHANGED <<job, live>> ELSE Moves(frame.job, status, frame.token)
       /\ UNCHANGED <<session, sock, old, reported, toHost, left, deleted, revoked, removal, hostLock,
                      dispatch, request>>

\* A ping without an answer, or the notification of a newer socket, closes an old one.
OldSocketCloses ==
    /\ old
    /\ old' = FALSE
    /\ UNCHANGED <<session, sock, reported, toHost, toServer, live, left, jobVars>>

-----------------------------------------------------------------------------
(* sweepRuntimeHosts: one transaction every 30 seconds *)

SweepMoves(j, status) ==
    /\ Moves(j, status, NoToken)
    /\ UNCHANGED <<linkVars, deleted, revoked, removal, hostLock, dispatch, request>>

\* No acknowledgement in time.
AckTimeout(j) ==
    /\ job[j].status = "sent"
    /\ SweepMoves(j, AgainOrFailed(j))
    /\ UNCHANGED left

DeadlinePassed(j) ==
    /\ job[j].status = "running"
    /\ SweepMoves(j, "timed_out")
    /\ UNCHANGED left

\* The host is silent for a quarter of an hour: a removal waits for it, anything else is lost.
HostLost(j) ==
    /\ job[j].status \in Active
    /\ ~Online
    /\ Spend("away")
    /\ SweepMoves(j, IF job[j].command = "remove" THEN "queued" ELSE "lost")

\* An hour in the queue; removals wait however long it takes.
Expire(j) ==
    /\ job[j].status = "queued"
    /\ job[j].command # "remove"
    /\ Spend("expire")
    /\ SweepMoves(j, "canceled")

\* Mutant of Orphans: tokens of a setup that was canceled are overlooked.
OrphansOfFailed == {t \in live : deleted \/ job[t[1]].status \in {"failed", "timed_out", "lost"}}

\* No token of a setup outlives a job that did not succeed, or its agent.
Orphans == {t \in live : deleted \/ job[t[1]].status \in Ended \ {"succeeded"}}

RevokeOrphans ==
    /\ Orphans # {}
    /\ live' = live \ Orphans
    /\ UNCHANGED <<linkVars, left, jobVars>>

-----------------------------------------------------------------------------
(* Administrators: one request at a time *)

RequestBegins(kind, step) ==
    /\ request = "none"
    /\ Spend(kind)
    /\ request' = step

\* retryAgentProvision: the agent lives, its setup ended in anything but success, the host can
\* take it.  The key of the new job names the job it retries.
RetryCheck ==
    /\ RequestBegins("retry", "retryRevoke")
    /\ ~deleted /\ ~revoked /\ Online
    /\ job[Latest(Of("provision"))].status \in Ended \ {"succeeded"}
    /\ UNCHANGED <<linkVars, live, job, deleted, revoked, removal, hostLock, dispatch>>

RetryRevoke ==
    /\ request = "retryRevoke"
    /\ request' = "retryQueue"
    /\ live' = {}
    /\ UNCHANGED <<linkVars, left, job, deleted, revoked, removal, hostLock, dispatch>>

Queues(step, command) ==
    /\ request = step
    /\ request' = "none"
    /\ With({"none"}) # {}
    /\ job' = [job EXCEPT ![NextRow] = Queued(command)]
    /\ UNCHANGED <<linkVars, live, left, deleted, revoked, removal, hostLock, dispatch>>

RetryQueue == Queues("retryQueue", "provision")

\* POST /api/runtime-hosts/[id]/jobs: an agent of this host is restarted.
RestartCheck ==
    /\ RequestBegins("restart", "restartQueue")
    /\ ~deleted /\ ~revoked
    /\ UNCHANGED <<linkVars, live, job, deleted, revoked, removal, hostLock, dispatch>>

RestartQueue == Queues("restartQueue", "restart")

\* retryRemoval: a removal that did not succeed is queued once more.
RedoCheck ==
    /\ RequestBegins("redo", "redoQueue")
    /\ ~revoked
    /\ Of("remove") # {} /\ job[Latest(Of("remove"))].status \in Ended \ {"succeeded"}
    /\ UNCHANGED <<linkVars, live, job, deleted, revoked, removal, hostLock, dispatch>>

RedoQueue == Queues("redoQueue", "remove")

\* cancelRemoval: one that still waits for its host.
CancelRemoval(j) ==
    /\ job[j].status = "queued" /\ job[j].command = "remove"
    /\ Spend("cancel")
    /\ Moves(j, "canceled", NoToken)
    /\ UNCHANGED <<linkVars, deleted, revoked, removal, hostLock, dispatch, request>>

\* The deletion revokes every token of the agent, in one transaction; its other steps follow.  A
\* request to retry or to restart that is in flight goes on: it has checked the agent before.
DeleteAgent ==
    /\ ~deleted
    /\ Spend("delete")
    /\ deleted' = TRUE
    /\ live' = {}
    /\ removal' = "cancel"
    /\ UNCHANGED <<linkVars, job, revoked, hostLock, dispatch, request>>

\* cancelQueuedJobsForAgent: one UPDATE, and the tokens of what it canceled.
CancelQueued ==
    LET queued == {j \in With({"queued"}) : job[j].command # "remove"}
    IN /\ removal = "cancel"
       /\ removal' = "check"
       /\ job' = [j \in Jobs |-> IF j \in queued THEN [job[j] EXCEPT !.status = "canceled"] ELSE job[j]]
       /\ live' = Settled([j \in queued |-> "canceled"], NoToken)
       /\ UNCHANGED <<linkVars, left, deleted, revoked, hostLock, dispatch, request>>

\* queueAgentRemoval: nothing is left to do on a host that is gone.
CheckHost ==
    /\ removal = "check"
    /\ removal' = IF revoked THEN "none" ELSE "queue"
    /\ UNCHANGED <<linkVars, live, left, job, deleted, revoked, hostLock, dispatch, request>>

QueueRemoval ==
    /\ removal = "queue"
    /\ removal' = "none"
    /\ With({"none"}) # {}
    /\ job' = [job EXCEPT ![NextRow] = Queued("remove")]
    /\ UNCHANGED <<linkVars, live, left, deleted, revoked, hostLock, dispatch, request>>

\* revokeHost: the row of the host, every open job and their tokens in one transaction.
Revoke ==
    LET open == With(Open)
    IN /\ ~revoked
       /\ hostLock = 0
       /\ Spend("revoke")
       /\ revoked' = TRUE
       /\ job' = [j \in Jobs |-> IF j \in open THEN [job[j] EXCEPT !.status = "canceled"] ELSE job[j]]
       /\ live' = Settled([j \in open |-> "canceled"], NoToken)
       /\ UNCHANGED <<linkVars, deleted, removal, hostLock, dispatch, request>>

\* The notification, or the next sweep, closes the sockets of a revoked host; its daemon exits.
CloseRevoked ==
    /\ revoked /\ sock # "none"
    /\ Closed(FALSE)
    /\ UNCHANGED <<live, left, jobVars>>

==============================================================================
