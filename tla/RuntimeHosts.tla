---------------------------- MODULE RuntimeHosts -----------------------------
(***************************************************************************)
(* Jobs of one runtime host, end to end: Emperor's rows (HostJobs), the    *)
(* socket (HostLink), and the daemon with its units (HostDaemon).          *)
(***************************************************************************)
EXTENDS HostJobs, HostDaemon

vars == <<linkVars, live, left, jobVars, daemonVars>>

Init == \E s \in Scenarios :
            LinkInit(s.begins, s.may) /\ JobsInit(s.begins) /\ DaemonInit(s.begins)

ServerStep ==
    \/ \E d \in Dispatches : Select(d) \/ Claim(d)
    \/ RecordHello \/ Greet \/ Reconcile \/ HandleFrame \/ OldSocketCloses \/ CloseRevoked
    \/ \E j \in Jobs : AckTimeout(j) \/ DeadlinePassed(j)
    \/ RevokeOrphans
    \/ RetryRevoke \/ RetryQueue \/ RestartQueue \/ RedoQueue
    \/ CancelQueued \/ CheckHost \/ QueueRemoval

\* What people, long silences and an hour in the queue do.
ServerEvent ==
    \/ RetryCheck \/ RestartCheck \/ RedoCheck \/ DeleteAgent \/ Revoke
    \/ \E j \in Jobs : HostLost(j) \/ Expire(j) \/ CancelRemoval(j)

\* handleUpgrade: the token of a revoked host opens no socket.
HostConnects == ~revoked /\ Connect

HostStep ==
    \/ BeginSession \/ ReplayKnown \/ Decline \/ BeginDiscard \/ RecordDiscard \/ SaveRecord
    \/ \E j \in Jobs :
         \/ EndDiscard(j) \/ StartUnit(j) \/ WriteProfile(j) \/ UnitSucceeds(j) \/ UnitFails(j)
         \/ Poll(j) \/ PollDeadline(j) \/ PollMissing(j)

HostFault ==
    \/ LinkBreaks \/ Crash
    \/ \E j \in Jobs : CorruptRecord(j) \/ UnitDies(j)

Next ==
    \/ (ServerStep \/ ServerEvent) /\ UNCHANGED daemonVars
    \/ (HostConnects \/ HostStep \/ HostFault) /\ UNCHANGED jobVars

Spec == Init /\ [][Next]_vars

\* The daemon reconnects, handlers and units run on, the sweep runs twice a minute: while any of
\* these has something to do, something is done.
Progress ==
    \/ ServerStep /\ UNCHANGED daemonVars
    \/ (HostConnects \/ HostStep) /\ UNCHANGED jobVars

FairSpec == Spec /\ WF_vars(Progress)

TypeOK == LinkTypeOK /\ JobsTypeOK /\ DaemonTypeOK

(***************************************************************************)
(* The host runs a job at most once, however often it is sent, whatever    *)
(* answer is lost, after a crash, and when its record became unreadable.   *)
(* Only a removal the daemon does itself is run again, once for each time  *)
(* the session or the daemon ended before the removal was recorded.        *)
(***************************************************************************)
RunsOnce == \A j \in Jobs : starts[j] <= 1 + cuts[j]

(***************************************************************************)
(* Two jobs never work on a host at once, also when Emperor gave up on the *)
(* first and sent the next: unless the daemon recorded the end of one      *)
(* without an exit code, or could not read its record.                     *)
(***************************************************************************)
OneUnitAtATime ==
    \A i, j \in Jobs : i # j /\ Runs(i) /\ Runs(j) => Outlived(i) \/ Outlived(j)

(***************************************************************************)
(* Dispatches of several processes, hellos and sweeps leave at most one    *)
(* job of the host sent or running.                                        *)
(***************************************************************************)
OneJobSent == Cardinality(With(Active)) <= 1

(***************************************************************************)
(* The agent whose setup succeeded stays able to connect: the token in its *)
(* .env is the one kept, whichever attempt the host took it from.          *)
(***************************************************************************)
AgentKeepsItsToken ==
    LET setup == Latest(Of("provision"))
    IN /\ job[setup].status = "succeeded" /\ ~deleted
       /\ \A j \in Of("provision") : ~Outlived(j)
       => profile.state = "installed" /\ profile.token \in live

(***************************************************************************)
(* Once a removal succeeded the agent's profile is gone for good: no setup *)
(* of it comes after, queued, sent or running, unless one the daemon lost  *)
(* track of.                                                               *)
(***************************************************************************)
RemovedStaysGone ==
    /\ \E j \in Jobs : job[j].command = "remove" /\ job[j].status = "succeeded"
    /\ \A j \in Of("provision") : ~Outlived(j)
    => profile.state = "none"

(***************************************************************************)
(* When nothing more goes wrong and nobody asks for more, every job comes  *)
(* to an end, on a host that was not revoked: a frame lost, a daemon that  *)
(* crashed, a start that failed or a host that gave no answer leaves none  *)
(* queued, sent or running for ever.                                       *)
(***************************************************************************)
JobsSettle == <>[](With(Open) = {} \/ revoked)

(***************************************************************************)
(* A token of a setup that did not succeed does not stay: not that of an   *)
(* earlier attempt, nor one minted while the job left the queue.           *)
(***************************************************************************)
TokensRevoked == <>[](\A t \in live : job[t[1]].status \notin Ended \ {"succeeded"})
==============================================================================
