------------------------------ MODULE HostLink -------------------------------
(***************************************************************************)
(* What Emperor and the daemon of one runtime host share: the socket they  *)
(* talk over (src/src/lib/runtime-hosts/socket-server.ts on one side,      *)
(* emperor_hostd/connection.py on the other) and the tokens the server     *)
(* mints and the agent on the host registers with.                         *)
(*                                                                         *)
(* A socket delivers in order until it closes, and loses the rest.  The    *)
(* host's side may be gone while the server still holds an old socket: it  *)
(* then sends into the void until a ping or a newer hello ends it.         *)
(***************************************************************************)
EXTENDS Naturals, FiniteSets, SequencesExt

CONSTANTS
    MaxDispatches,  \* bound: dispatches in flight, of any server process
    MaxAttempts,    \* MAX_JOB_ATTEMPTS
    MaxJobs,        \* bound: rows of runtime_host_jobs
    Scenarios       \* bound: how a behaviour begins, and what may happen in it

\* What may happen once in a behaviour: a lost connection, a crash of the daemon, an unreadable job
\* file, a unit that fails, one that dies without an exit code, a start slower than three polls, a
\* start that fails, one that takes too long and works, a unit that cannot be stopped, a command the
\* host refuses, resent progress, a host silent for a quarter of an hour, a job an hour in the queue,
\* a host short of memory; and what people do.
Kinds == {"drop", "crash", "corrupt", "fail", "kill", "slow", "startFail", "startLate", "stopFail",
          "refuse", "progress", "away", "expire", "short", "delete", "retry", "restart", "redo",
          "cancel", "revoke"}

\* When the behaviour begins the agent was just hired, or the first attempt of its setup
\* succeeded, or was refused by the host.
Scenario == [begins: {"hired", "setUp", "refused"}, may: SUBSET Kinds]

ASSUME HostAssumption ==
    /\ MaxDispatches \in Nat \ {0} /\ MaxAttempts \in Nat \ {0} /\ MaxJobs \in Nat \ {0}
    /\ Scenarios \subseteq Scenario

VARIABLES
    session,    \* the daemon's side: "off", "hello" (waiting for the welcome) or "on"
    sock,       \* the server's side, from the upgrade to the end of the hello handler
    old,        \* the server still holds a socket whose host is gone
    reported,   \* [Jobs -> what the hello on its way says of the job]
    toHost,     \* frames on their way to the host
    toServer,   \* frames on their way to the server
    live,       \* the tokens of setups that are not revoked
    left        \* what may still happen

linkVars == <<session, sock, old, reported, toHost, toServer>>

Jobs == 1..MaxJobs

\* A token is named by the job it is minted for and the attempt it is sent with.
NoToken == <<0, 0>>
FirstToken == <<1, 1>>

Commands == {"provision", "restart", "remove"}

\* What the server sends: commands, and the welcome as one of job 0.
Welcome == [job |-> 0, command |-> "welcome", token |-> NoToken]
FrameToHost == {Welcome} \cup [job: Jobs, command: Commands, token: (0..MaxJobs) \X Nat]

\* What the daemon sends, its hello apart.
FrameToServer == [kind: {"ack", "busy", "refused", "progress", "ok", "failed"},
                  job: Jobs, token: (0..MaxJobs) \X Nat]
Says(kind, j) == [kind |-> kind, job |-> j, token |-> NoToken]

LinkInit(begins, may) ==
    /\ session = "off"
    /\ sock = "none"
    /\ old = FALSE
    /\ reported = [j \in Jobs |-> "unknown"]
    /\ toHost = <<>>
    /\ toServer = <<>>
    /\ live = IF begins = "setUp" THEN {FirstToken} ELSE {}
    /\ left = may

LinkTypeOK ==
    /\ session \in {"off", "hello", "on"}
    /\ sock \in {"none", "upgraded", "hello", "greeted", "ready"}
    /\ old \in BOOLEAN
    /\ reported \in [Jobs -> {"unknown", "running", "done"}]
    /\ toHost \in Seq(FrameToHost)
    /\ toServer \in Seq(FrameToServer)
    /\ live \subseteq Jobs \X Nat
    /\ left \subseteq Kinds

\* ws.helloDone: the server may send jobs, from before it greets the host on.
HelloDone == sock \in {"hello", "greeted", "ready"}
Online == HelloDone \/ old

\* What the hello says is only kept until it is handled.
NothingReported == reported' = [j \in Jobs |-> "unknown"]

\* Both sides' queues die with the socket.
Closed(held) ==
    /\ session' = "off"
    /\ sock' = "none"
    /\ old' = held
    /\ toHost' = <<>>
    /\ toServer' = <<>>
    /\ NothingReported

\* Frames the daemon sends, if it is connected.
Sends(frames) == toServer' = IF session = "on" THEN toServer \o frames ELSE toServer

Spend(k) == k \in left /\ left' = left \ {k}

==============================================================================
