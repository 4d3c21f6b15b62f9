----------------------------- MODULE HostDaemon ------------------------------
(***************************************************************************)
(* The daemon on a runtime host (emperor_hostd: connection.py, runner.py,  *)
(* commands.py, provision.py), the units it starts and the profile of the  *)
(* one agent they work on.                                                 *)
(*                                                                         *)
(* The daemon saves a job before it starts its unit; the unit outlives the *)
(* daemon and leaves its exit code in a file.  Only a connected daemon     *)
(* looks after its jobs, and a job it knows it never runs again.           *)
(***************************************************************************)
EXTENDS HostLink

VARIABLES
    file,       \* [Jobs -> File]: the daemon's records of jobs
    unit,       \* [Jobs -> state of the unit]; "ok" and "failed" are exit codes it left
    starting,   \* the jobs whose unit a thread of the daemon is starting
    awaited,    \* the job whose start or removal the session waits for before it reads on (0: none)
    profile,    \* the agent's home on the host, and the token in its .env
    discard,    \* [Jobs -> state of the thread that removes the profile without a unit]
    starts,     \* history: [Jobs -> how often it was run]
    cuts        \* history: [Jobs -> how often the session ended before such a removal was recorded]

removalVars == <<discard, cuts>>
daemonVars == <<file, unit, starting, awaited, profile, starts, discard, cuts>>

\* "lost": done, without an exit code: its unit may still run, whether it was not seen, could not
\* be stopped, or was reported as not started.  "tombstone": an unreadable record whose failure
\* was reported.
File == [state: {"none", "running", "done", "lost", "corrupt", "tombstone"}, command: Commands,
         ok: BOOLEAN, token: (0..MaxJobs) \X Nat]
NoFile == [state |-> "none", command |-> "restart", ok |-> FALSE, token |-> NoToken]
NoProfile == [state |-> "none", token |-> NoToken]

\* The first job, if it set the agent up: its record, its unit and what it left on the host.
DaemonInit(begins) ==
    LET done(j) == j = 1 /\ begins = "setUp"
        first == [state |-> "done", command |-> "provision", ok |-> TRUE, token |-> FirstToken]
    IN /\ file = [j \in Jobs |-> IF done(j) THEN first ELSE NoFile]
       /\ unit = [j \in Jobs |-> IF done(j) THEN "ok" ELSE "none"]
       /\ starting = {}
       /\ awaited = 0
       /\ profile = IF done(1) THEN [state |-> "installed", token |-> FirstToken] ELSE NoProfile
       /\ discard = [j \in Jobs |-> "none"]
       /\ starts = [j \in Jobs |-> IF done(j) THEN 1 ELSE 0]
       /\ cuts = [j \in Jobs |-> 0]

\* "active" units of a setup have "wrote" the .env and installed the services next.
DaemonTypeOK ==
    /\ file \in [Jobs -> File]
    /\ unit \in [Jobs -> {"none", "active", "wrote", "ok", "failed", "gone"}]
    /\ starting \subseteq Jobs
    /\ awaited \in Jobs \cup {0}
    /\ profile \in [state: {"none", "made", "installed"}, token: (0..MaxJobs) \X Nat]
    /\ discard \in [Jobs -> {"none", "runs", "done", "failed"}]
    /\ starts \in [Jobs -> Nat] /\ cuts \in [Jobs -> Nat]

Runs(j) == unit[j] \in {"active", "wrote"}

\* The daemon no longer follows the unit it started for the job, or is about to start.
Outlived(j) == file[j].state \in {"lost", "corrupt", "tombstone"}

\* The session waits for a removal in a thread, of which there is no record yet.
Pending(j) == awaited = j /\ file[j].state = "none"

-----------------------------------------------------------------------------
(* The session *)

\* reportable: running jobs, finished ones and unreadable records, but no tombstones.
Reportable(j) ==
    CASE file[j].state = "running" -> "running"
      [] file[j].state \in {"done", "lost", "corrupt"} -> "done"
      [] OTHER -> "unknown"

\* A connection whose first frame is the hello.
Connect ==
    /\ session = "off"
    /\ session' = "hello"
    /\ sock' = "upgraded"
    /\ reported' = [j \in Jobs |-> Reportable(j)]
    /\ UNCHANGED <<old, toHost, toServer, live, left, daemonVars>>

\* The first frame must be the welcome; after it the last progress of running jobs is resent.
BeginSession ==
    /\ session = "hello" /\ toHost # <<>>
    /\ IF Head(toHost) # Welcome
       THEN Closed(old) /\ UNCHANGED left
       ELSE /\ session' = "on"
            /\ toHost' = Tail(toHost)
            /\ \/ UNCHANGED <<toServer, left>>
               \/ /\ Spend("progress")
                  /\ \E j \in Jobs : /\ file[j].state = "running"
                                     /\ toServer' = Append(toServer, Says("progress", j))
            /\ UNCHANGED <<sock, old, reported>>
    /\ UNCHANGED <<live, daemonVars>>

\* The session no longer waits for anything: a removal is not recorded.
StopsWaiting(threads) ==
    /\ awaited' = 0
    /\ discard' = [j \in Jobs |-> IF discard[j] \in threads THEN discard[j] ELSE "none"]
    /\ cuts' = [j \in Jobs |-> IF Pending(j) THEN cuts[j] + 1 ELSE cuts[j]]

\* The connection is lost.  The server may not see it yet; a thread that removes a profile runs on.
LinkBreaks ==
    /\ session # "off"
    /\ Spend("drop")
    /\ \E held \in {FALSE, old \/ HelloDone} : Closed(held)
    /\ StopsWaiting({"runs"})
    /\ UNCHANGED <<live, file, unit, starting, profile, starts>>

\* The daemon ends and is started again; units run on.
Crash ==
    /\ Spend("crash")
    /\ \E held \in {FALSE, old \/ HelloDone} : Closed(held)
    /\ starting' = {}
    /\ StopsWaiting({})
    /\ UNCHANGED <<live, file, unit, profile, starts>>

\* A record that cannot be read any more.
CorruptRecord(j) ==
    /\ file[j].state \in {"running", "done"} /\ j \notin starting
    /\ Spend("corrupt")
    /\ file' = [file EXCEPT ![j].state = "corrupt"]
    /\ UNCHANGED <<linkVars, live, unit, starting, awaited, profile, starts, removalVars>>

-----------------------------------------------------------------------------
(* handle_command: one frame at a time *)

\* Mutant of AfterReport: the unreadable record is deleted once its failure is reported.
AfterReportForgotten(state) == IF state = "corrupt" THEN "none" ELSE state

\* retire_corrupt: a tombstone takes its place.
AfterReport(state) == IF state = "corrupt" THEN "tombstone" ELSE state

\* Mutant of Busy: the daemon starts whatever it is sent.
BusyNever == FALSE

Busy == \E j \in Jobs : file[j].state = "running"

ResultFrame(j, f) ==
    IF f.state = "done" /\ f.ok THEN [Says("ok", j) EXCEPT !.token = f.token] ELSE Says("failed", j)

Receives(frame) ==
    /\ session = "on" /\ awaited = 0
    /\ toHost # <<>> /\ frame = Head(toHost)
    /\ toHost' = Tail(toHost)

\* A known job is acknowledged, and what it did is told again.
ReplayKnown ==
    /\ LET frame == Head(toHost)
           j == frame.job
       IN /\ Receives(frame)
          /\ file[j].state # "none"
          /\ Sends(<<Says("ack", j)>> \o (IF file[j].state = "running" THEN <<>>
                                          ELSE <<ResultFrame(j, file[j])>>))
          /\ file' = [file EXCEPT ![j].state = AfterReport(@)]
    /\ UNCHANGED <<session, sock, old, reported, live, left, unit, starting, awaited, profile, starts,
                   removalVars>>

\* commands.plan refuses: a setup without a token, the restart of what is not installed, anything
\* its checks of the host object to.
Refuses(frame) ==
    \/ frame.command = "provision" /\ frame.token = NoToken
    \/ frame.command = "restart" /\ profile.state # "installed"

Decline ==
    /\ LET frame == Head(toHost)
           j == frame.job
       IN /\ Receives(frame)
          /\ file[j].state = "none"
          /\ \/ Busy /\ Sends(<<Says("busy", j)>>) /\ UNCHANGED left
             \/ ~Busy /\ Refuses(frame) /\ Sends(<<Says("refused", j)>>) /\ UNCHANGED left
             \/ ~Busy /\ Spend("refuse") /\ Sends(<<Says("refused", j)>>)
    /\ UNCHANGED <<session, sock, old, reported, live, daemonVars>>

Accepts(frame) == Receives(frame) /\ file[frame.job].state = "none" /\ ~Busy /\ ~Refuses(frame)

\* A removal that needs no unit, of a profile the installer never recorded, or of none: the session
\* waits for a thread of the daemon, and there is no record before it comes back.
BeginDiscard ==
    /\ LET frame == Head(toHost)
           j == frame.job
       IN /\ Accepts(frame)
          /\ frame.command = "remove" /\ profile.state # "installed"
          /\ awaited' = j
          /\ discard' = [discard EXCEPT ![j] = "runs"]
          /\ starts' = [starts EXCEPT ![j] = @ + 1]
    /\ UNCHANGED <<session, sock, old, reported, toServer, live, left, file, unit, starting, profile, cuts>>

\* discard_profile: whatever is there is gone.  It may fail, also because a thread of an earlier
\* session is at the same files.
EndDiscard(j) ==
    /\ discard[j] = "runs"
    /\ \E end \in {"done", "failed"} :
          /\ IF end = "done" THEN profile' = NoProfile ELSE profile' \in {profile, NoProfile}
          /\ IF end = "done" \/ \E k \in Jobs : cuts[k] > 0 THEN UNCHANGED left ELSE Spend("fail")
          /\ discard' = [discard EXCEPT ![j] = IF Pending(j) THEN end ELSE "none"]
    /\ UNCHANGED <<linkVars, live, file, unit, starting, awaited, starts, cuts>>

\* finish_inline, and the answers after it.
RecordDiscard ==
    /\ LET j == awaited
           done == [state |-> "done", command |-> "remove", ok |-> discard[j] = "done", token |-> NoToken]
       IN /\ session = "on"
          /\ j # 0 /\ Pending(j) /\ discard[j] \in {"done", "failed"}
          /\ file' = [file EXCEPT ![j] = done]
          /\ discard' = [discard EXCEPT ![j] = "none"]
          /\ Sends(<<Says("ack", j), ResultFrame(j, done)>>)
    /\ awaited' = 0
    /\ UNCHANGED <<session, sock, old, reported, toHost, live, left, unit, starting, profile, starts, cuts>>

\* runner.start: the record first.
SaveRecord ==
    /\ LET frame == Head(toHost)
           j == frame.job
       IN /\ Accepts(frame)
          /\ frame.command = "remove" => profile.state = "installed"
          /\ file' = [file EXCEPT ![j] = [state |-> "running", command |-> frame.command,
                                          ok |-> FALSE, token |-> frame.token]]
          /\ starting' = starting \cup {j}
          /\ awaited' = j
    /\ UNCHANGED <<session, sock, old, reported, toServer, live, left, unit, profile, starts, removalVars>>

\* systemd-run has started the unit.  A setup the daemon gave up meanwhile finds no spec to read.
Started(j) ==
    /\ unit' = [unit EXCEPT ![j] = IF file[j].command = "provision" /\ file[j].state = "lost"
                                   THEN "failed" ELSE "active"]
    /\ starts' = [starts EXCEPT ![j] = @ + 1]

\* It starts in a thread that a lost session does not stop.  A start that fails is recorded as one,
\* also when systemd-run only took too long and the unit runs.
StartUnit(j) ==
    /\ j \in starting
    /\ starting' = starting \ {j}
    /\ awaited' = IF awaited = j THEN 0 ELSE awaited
    /\ \/ /\ Started(j)
          /\ IF awaited = j THEN Sends(<<Says("ack", j)>>) ELSE UNCHANGED toServer
          /\ UNCHANGED <<file, left>>
       \/ /\ \/ Spend("startFail") /\ file' = [file EXCEPT ![j].state = "done"] /\ UNCHANGED <<unit, starts>>
             \/ Spend("startLate") /\ file' = [file EXCEPT ![j].state = "lost"] /\ Started(j)
          /\ IF awaited = j THEN Sends(<<Says("ack", j), Says("failed", j)>>) ELSE UNCHANGED toServer
    /\ UNCHANGED <<session, sock, old, reported, toHost, live, profile, removalVars>>

-----------------------------------------------------------------------------
(* Units *)

UnitMoves(j, state) ==
    /\ unit' = [unit EXCEPT ![j] = state]
    /\ UNCHANGED <<linkVars, file, starting, awaited, starts, live, removalVars>>

\* A setup creates the profile, writes the token into its .env and installs its services.
WriteProfile(j) ==
    /\ unit[j] = "active" /\ file[j].command = "provision"
    /\ profile' = [state |-> "installed", token |-> file[j].token]
    /\ UnitMoves(j, "wrote")
    /\ UNCHANGED left

\* A setup succeeds when the agent registered with its token; a removal leaves no profile.
UnitSucceeds(j) ==
    /\ IF file[j].command = "provision" THEN unit[j] = "wrote" /\ profile.token \in live
                                        ELSE unit[j] = "active"
    /\ profile' = IF file[j].command = "remove" THEN NoProfile ELSE profile
    /\ UnitMoves(j, "ok")
    /\ UNCHANGED left

\* A setup that ends early may leave a profile nobody installed.
HalfDone(j) ==
    \/ UNCHANGED profile
    \/ /\ file[j].command = "provision" /\ unit[j] = "active" /\ profile.state = "none"
       /\ profile' = [state |-> "made", token |-> NoToken]

\* It fails for any reason, and for want of a token it can register with.
UnitFails(j) ==
    /\ Runs(j)
    /\ IF file[j].command = "provision" /\ file[j].token \notin live THEN UNCHANGED left
                                                                   ELSE Spend("fail")
    /\ HalfDone(j)
    /\ UnitMoves(j, "failed")

\* The unit is killed, or the machine restarts.
UnitDies(j) ==
    /\ Runs(j)
    /\ Spend("kill")
    /\ HalfDone(j)
    /\ UnitMoves(j, "gone")

-----------------------------------------------------------------------------
(* The monitor of a session *)

Finish(j, f) ==
    /\ session = "on"
    /\ file[j].state = "running"
    /\ file' = [file EXCEPT ![j] = f]
    /\ Sends(<<ResultFrame(j, f)>>)
    /\ UNCHANGED <<session, sock, old, reported, toHost, live, starting, awaited, starts, removalVars>>

\* poll: the exit code is there.
Poll(j) ==
    /\ unit[j] \in {"ok", "failed"}
    /\ Finish(j, [file[j] EXCEPT !.state = "done", !.ok = unit[j] = "ok"])
    /\ UNCHANGED <<left, unit, profile>>

\* poll: past the deadline the unit is stopped, and the job ends whether it is gone or not.
PollDeadline(j) ==
    /\ Runs(j)
    /\ \/ /\ Finish(j, [file[j] EXCEPT !.state = "done"])
          /\ unit' = [unit EXCEPT ![j] = "gone"]
          /\ HalfDone(j)
          /\ UNCHANGED left
       \/ /\ Spend("stopFail")
          /\ Finish(j, [file[j] EXCEPT !.state = "lost"])
          /\ UNCHANGED <<unit, profile>>

\* poll: for three polls no unit and no exit code; so it looks while the unit takes long to start
\* or the user manager does not answer.
PollMissing(j) ==
    /\ IF unit[j] = "gone" \/ (unit[j] = "none" /\ j \notin starting) THEN UNCHANGED left
       ELSE unit[j] \in {"none", "active", "wrote"} /\ Spend("slow")
    /\ Finish(j, [file[j] EXCEPT !.state = "lost"])
    /\ UNCHANGED <<unit, profile>>

==============================================================================
