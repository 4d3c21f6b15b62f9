---------------------------- MODULE HermesBridge ----------------------------
(***************************************************************************)
(* The Hermes bridge: the process that turns the prompts of one direct     *)
(* thread into turns of the gateway and posts their replies.  A prompt     *)
(* goes through the sync loop, the scheduler's queue, a turn in the        *)
(* thread's slot, the outbox and a status change; the control loop and the *)
(* outbox flush run beside it.  The process may stop between any two       *)
(* steps and starts again from what it wrote: the state file and the       *)
(* outbox.  The gateway is another program; only what the bridge relies on *)
(* is modelled.                                                            *)
(*                                                                         *)
(* A change of the state file is one step with the save that follows it: a *)
(* stop in between is a stop before the step, for whatever else the step   *)
(* did is lost with it.  The seen and retry ledgers of the file are left   *)
(* out: neither holds back a direct prompt that is open.  Delays are left  *)
(* out: a step that waits for one may come at once or later.               *)
(***************************************************************************)
EXTENDS DirectThread, SequencesExt

VARIABLES
    up,        \* whether the process runs
    file,      \* the state file: the dispatches and the admitted turns on record
    accepted,  \* prompts queued or running here
    queue,     \* the scheduler's queue of the thread
    again,     \* the attempt of a batch put back in the queue
    slot,      \* the turn of the thread
    page,      \* the open prompts of a sync answer on its way
    kill,      \* the stop commands being applied and the prompts they dropped
    flushing,  \* whether the flush waits for the answer to its post
    outbox,    \* parked replies, on disk
    turns,     \* gateway: the admitted turns of the session
    retired    \* the session was retired: the next turn starts a new one

bridgeVars == <<up, file, accepted, queue, again, slot, page, kill, flushing, outbox,
                turns, retired>>
vars == <<threadVars, bridgeVars>>

\* Prompts one behind the other, none twice.
Lists == {l \in Seq(Msgs) : IsInjective(l)}

\* The prompts of a list that are in S, in the order of the list.
InOrder(l, S) ==
    {r \in BoundedSeq(ToSet(l) \cap S, Len(l)) :
        /\ ToSet(r) = ToSet(l) \cap S
        /\ \A i, k \in DOMAIN r : i < k => \E a, b \in DOMAIN l : a < b /\ l[a] = r[i] /\ l[b] = r[k]}

Batches == [msgs : Lists \ {<<>>}, attempt : 0 .. MaxAttempts]
Slots == [pc : {"idle", "dispatched", "answered", "running", "settled", "posting", "posted"},
          batch : Batches, stop : BOOLEAN, recovered : BOOLEAN,
          how : {"none", "completed", "failed", "cancelled", "again"}]
Records == [batch : Batches, settled : BOOLEAN]
Endings == {"completed", "failed", "stopped", "lost"}

SubmissionId(batch) == <<Last(batch.msgs), batch.attempt>>
NoTurn == [pc |-> "idle", batch |-> [msgs |-> <<1>>, attempt |-> 0], stop |-> FALSE,
           recovered |-> FALSE, how |-> "none"]
NoKill == [commands |-> {}, dropped |-> {}]

BridgeTypeOK ==
    /\ up \in BOOLEAN
    /\ file \in [dispatches : SUBSET Batches, records : SUBSET Records]
    /\ accepted \subseteq Msgs
    /\ queue \in Lists
    /\ again \in 0 .. MaxAttempts
    /\ slot \in Slots
    /\ page \subseteq Msgs
    /\ kill \in [commands : SUBSET Stops, dropped : SUBSET Msgs]
    /\ flushing \in BOOLEAN
    /\ outbox \subseteq [key : Keys, also : SUBSET Msgs]
    /\ turns \subseteq [key : Keys, msgs : Lists, status : Endings \cup {"running"}]
    /\ retired \in BOOLEAN

BridgeInit ==
    /\ up = TRUE
    /\ file = [dispatches |-> {}, records |-> {}]
    /\ accepted = {} /\ queue = <<>> /\ again = 0
    /\ slot = NoTurn
    /\ page = {} /\ kill = NoKill /\ flushing = FALSE
    /\ outbox = {}
    /\ turns = {} /\ retired = FALSE

Parked(m) == \E e \in outbox : e.key[1] = m
Kept(m) == {e \in outbox : e.key[1] # m}

-----------------------------------------------------------------------------
(* The sync loop.                                                          *)

\* The server sends every open prompt, whatever the cursor.
SyncFetch ==
    /\ up
    /\ page = {}
    /\ page' = OpenMsgs
    /\ page' # {}
    /\ UNCHANGED <<threadVars, up, file, accepted, queue, again, slot, kill, flushing, outbox,
                   turns, retired>>

\* Mutants of Taken: one that forgets what is held, one that forgets what is parked.
TakenAgain == {m \in page : ~Parked(m)}
TakenUnanswered == page \ accepted

\* Prompts that are held already or whose reply is parked are passed over.
Taken == {m \in page \ accepted : ~Parked(m)}

Intake ==
    /\ up
    /\ page # {}
    /\ accepted' = accepted \cup Taken
    /\ \E new \in InOrder([m \in Msgs |-> m], Taken) : queue' = queue \o new
    /\ page' = {}
    /\ UNCHANGED <<threadVars, up, file, again, slot, kill, flushing, outbox, turns, retired>>

-----------------------------------------------------------------------------
(* A turn: dispatch, submit, settle.                                       *)

Move(pc) == slot' = [slot EXCEPT !.pc = pc]
Batch == slot.batch
Key == SubmissionId(Batch)
RecordsOf(batch) == {r \in file.records : SubmissionId(r.batch) = SubmissionId(batch)}
Without(batch) ==
    [dispatches |-> {b \in file.dispatches : SubmissionId(b) # SubmissionId(batch)},
     records |-> file.records \ RecordsOf(batch)]

\* The dispatch is on file before the turn is announced and submitted.
Register(batch, rest) ==
    /\ file' = [rest EXCEPT !.dispatches = {b \in @ : SubmissionId(b) # SubmissionId(batch)} \cup {batch}]
    /\ slot' = [NoTurn EXCEPT !.pc = "dispatched", !.batch = batch]
    /\ StatusRead({Last(batch.msgs)}, "open")

Dispatch ==
    /\ up
    /\ slot.pc = "idle"
    /\ queue # <<>>
    /\ Register([msgs |-> queue, attempt |-> again], file)
    /\ queue' = <<>> /\ again' = 0
    /\ UNCHANGED <<state, commands, stored, posts, lock, budget, up, accepted, page, kill,
                   flushing, outbox, turns, retired>>

NextAttempt(batch) == [batch EXCEPT !.attempt = @ + 1]

Settled(batch) == \E r \in RecordsOf(batch) : r.settled
SessionTurns == IF retired THEN {} ELSE turns
Known(batch) == {t \in SessionTurns : t.key = SubmissionId(batch)}

\* prompt.submit: an exact repeat gets the turn of its first submission.
Submit ==
    /\ up
    /\ slot.pc = "dispatched"
    /\ ~Settled(Batch)
    /\ \A t \in Known(Batch) : t.msgs = Batch.msgs
    /\ turns' = SessionTurns \cup IF Known(Batch) # {} THEN {}
                                  ELSE {[key |-> Key, msgs |-> Batch.msgs, status |-> "running"]}
    /\ retired' = FALSE
    /\ Move("answered")
    /\ UNCHANGED <<threadVars, up, file, accepted, queue, again, page, kill, flushing, outbox>>

\* The submission is on record, here or at the gateway, with another text;
\* its context may have changed as well.  The batch takes the next attempt.
Conflict ==
    /\ up
    /\ slot.pc = "dispatched"
    /\ Batch.attempt < MaxAttempts
    /\ \/ (Settled(Batch) \/ \E t \in Known(Batch) : t.msgs # Batch.msgs) /\ UNCHANGED budget
       \/ ~Settled(Batch) /\ Known(Batch) # {} /\ Spend("faults")
    /\ Register(NextAttempt(Batch), Without(Batch))
    /\ UNCHANGED <<state, commands, stored, posts, lock, up, accepted, queue, again, page, kill,
                   flushing, outbox, turns, retired>>

\* The gateway cannot be reached, or the attempts are used up: the prompts go
\* back to wait, or are given up.
NotAdmitted(gaveUp) ==
    /\ up
    /\ slot.pc = "dispatched"
    /\ IF Batch.attempt = MaxAttempts /\ (Settled(Batch) \/ Known(Batch) # {})
       THEN UNCHANGED budget ELSE Spend("faults")
    /\ StatusRead(ToSet(Batch.msgs), IF gaveUp THEN "cancelled" ELSE "open")
    /\ Move("posted")
    /\ UNCHANGED <<state, commands, stored, posts, lock, up, file, accepted, queue, again, page,
                   kill, flushing, outbox, turns, retired>>

\* The admission is recorded once the gateway has answered.
Record ==
    /\ up
    /\ slot.pc = "answered"
    /\ file' = [file EXCEPT !.records = @ \cup {[batch |-> Batch, settled |-> FALSE]}]
    /\ Move("running")
    /\ UNCHANGED <<threadVars, up, accepted, queue, again, page, kill, flushing, outbox, turns, retired>>

\* How the bridge takes the end of a turn: one the gateway lost before it
\* ran a tool is tried once more.
Outcomes(ending) ==
    CASE ending \in {"completed", "failed"} -> {ending}
      [] ending = "lost" /\ ~slot.stop -> {"failed"} \cup IF Batch.attempt = 0 THEN {"again"} ELSE {}
      [] OTHER -> {"cancelled"}

\* The gateway ends the turn, interrupted only when it was asked to, or it had
\* ended before; the bridge learns of it and writes that the turn settled.
Settle ==
    /\ up
    /\ slot.pc = "running"
    /\ \E t \in turns, ending \in Endings :
         /\ t.key = Key
         /\ t.status \in {"running", ending}
         /\ ending = "stopped" => slot.stop \/ t.status = "stopped"
         /\ IF t.status = "running" /\ ending \in {"lost", "failed"} THEN Spend("faults") ELSE UNCHANGED budget
         /\ turns' = (turns \ {t}) \cup {[t EXCEPT !.status = ending]}
         /\ \E how \in Outcomes(ending) : slot' = [slot EXCEPT !.pc = "settled", !.how = how]
    /\ file' = [file EXCEPT !.records = (@ \ RecordsOf(Batch)) \cup {[r EXCEPT !.settled = TRUE] : r \in RecordsOf(Batch)}]
    /\ UNCHANGED <<state, commands, stored, writes, posts, lock, up, accepted, queue, again, page,
                   kill, flushing, outbox, retired>>

\* A retry keeps its slot; after a restart it goes to the front of the queue.
Retry ==
    /\ up
    /\ slot.pc = "settled" /\ slot.how = "again"
    /\ IF slot.recovered
       THEN /\ file' = Without(Batch)
            /\ slot' = NoTurn
            /\ \E front \in InOrder(Batch.msgs, Msgs \ ToSet(queue)) : queue' = front \o queue
            /\ again' = Batch.attempt + 1
            /\ UNCHANGED writes
       ELSE Register(NextAttempt(Batch), Without(Batch)) /\ UNCHANGED <<queue, again>>
    /\ UNCHANGED <<state, commands, stored, posts, lock, budget, up, accepted, page, kill,
                   flushing, outbox, turns, retired>>

-----------------------------------------------------------------------------
(* The reply.                                                              *)

Sent(p, entry) == posts' = [posts EXCEPT ![p] = [pc |-> "sent", key |-> entry.key, also |-> entry.also]]

\* The reply, or the notice that the turn failed, is parked and then posted;
\* a stopped turn says nothing.
Deliver ==
    LET entry == [key |-> Key, also |-> ToSet(Batch.msgs) \ {Key[1]}] IN
    /\ up
    /\ slot.pc = "settled" /\ slot.how # "again"
    /\ IF slot.how = "cancelled"
       THEN Move("posted") /\ UNCHANGED <<outbox, writes, posts>>
       ELSE /\ posts["desk"].pc = "idle"
            /\ outbox' = Kept(Key[1]) \cup {entry}
            /\ Sent("desk", entry)
            /\ Move("posting")
            /\ IF slot.how = "failed" THEN StatusRead({Key[1]}, "cancelled") ELSE UNCHANGED writes
    /\ UNCHANGED <<state, commands, stored, lock, budget, up, file, accepted, queue, again, page,
                   kill, flushing, turns, retired>>

\* The next pass over the parked replies takes those the desk posts as well.
Flush(entry) ==
    /\ up
    /\ ~flushing /\ posts["flush"].pc = "idle"
    /\ Sent("flush", entry)
    /\ flushing' = TRUE
    /\ UNCHANGED <<state, commands, stored, writes, lock, budget, up, file, accepted, queue,
                   again, slot, page, kill, outbox, turns, retired>>

\* Whatever the server says to a post, but for an error, it is delivered: the
\* parked file goes and the prompt is reported resolved.
Delivered(key) == outbox' = Kept(key[1]) /\ StatusRead({key[1]}, "resolved")

Waits(p) == up /\ IF p = "desk" THEN slot.pc = "posting" ELSE flushing
StopsWaiting(p) ==
    IF p = "desk" THEN Move("posted") /\ UNCHANGED flushing
                  ELSE flushing' = FALSE /\ UNCHANGED slot

PostAnswered(p) ==
    /\ Waits(p) /\ posts[p].pc = "done"
    /\ Delivered(posts[p].key)
    /\ StopsWaiting(p)
    /\ posts' = [posts EXCEPT ![p] = NoPost]
    /\ UNCHANGED <<state, commands, stored, lock, budget, up, file, accepted, queue, again,
                   page, kill, turns, retired>>

\* An error, or an answer that is lost: the desk posts again or leaves the
\* reply parked, the flush takes it up on its next pass.
PostNotAnswered(p, repost) ==
    /\ Waits(p)
    /\ \/ posts[p].pc = "error" /\ UNCHANGED budget
       \/ posts[p].pc = "done" /\ Spend("faults")
    /\ IF p = "desk" /\ repost
       THEN posts' = [posts EXCEPT ![p].pc = "sent"] /\ UNCHANGED <<slot, flushing>>
       ELSE posts' = [posts EXCEPT ![p] = NoPost] /\ StopsWaiting(p)
    /\ UNCHANGED <<state, commands, stored, writes, lock, up, file, accepted, queue, again,
                   page, kill, outbox, turns, retired>>

\* Nobody waits for the answer any more: the process was restarted.
AnswerDropped(p) ==
    /\ ~Waits(p) /\ posts[p].pc \in {"done", "error"}
    /\ posts' = [posts EXCEPT ![p] = NoPost]
    /\ UNCHANGED <<state, commands, stored, writes, lock, budget, bridgeVars>>

\* The slot waits for the answers to its status requests; that one does not
\* come in time is a failure.
Close ==
    /\ up
    /\ slot.pc = "posted"
    /\ IF \E w \in writes : w.msg \in ToSet(Batch.msgs) /\ w.to # "seen" THEN Spend("faults") ELSE UNCHANGED budget
    /\ file' = Without(Batch)
    /\ accepted' = accepted \ ToSet(Batch.msgs)
    /\ slot' = NoTurn
    /\ UNCHANGED <<state, commands, stored, writes, posts, lock, up, queue, again, page, kill,
                   flushing, outbox, turns, retired>>

\* A status request is lost on its way.
StatusLost(w) ==
    /\ w \in writes
    /\ Spend("faults")
    /\ writes' = writes \ {w}
    /\ UNCHANGED <<state, commands, stored, posts, lock, bridgeVars>>

-----------------------------------------------------------------------------
(* The control loop.                                                       *)

Tracked == slot.pc \in {"answered", "running"}

\* The poll finds an accepted prompt cancelled: it leaves the queue, or the
\* turn that answers it is interrupted.
PollStop(m) ==
    /\ up
    /\ m \in accepted /\ Cancelled(m)
    /\ \/ /\ m \in ToSet(queue)
          /\ queue' \in InOrder(queue, Msgs \ {m})
          /\ again' = IF queue' = <<>> THEN 0 ELSE again
          /\ accepted' = accepted \ {m}
          /\ UNCHANGED slot
       \/ /\ m \notin ToSet(queue)
          /\ Tracked /\ m \in ToSet(Batch.msgs) /\ ~slot.stop
          /\ slot' = [slot EXCEPT !.stop = TRUE]
          /\ UNCHANGED <<queue, again, accepted>>
    /\ UNCHANGED <<threadVars, up, file, page, kill, flushing, outbox, turns, retired>>

\* Kill and replace: the queue is dropped, the turn interrupted, the session
\* retired; each command is then acknowledged.  One that was marked seen before
\* the poll is not applied at all.
KillApply ==
    /\ up
    /\ kill = NoKill
    /\ StopQueued
    /\ kill' = [commands |-> {c \in Stops : Queued(c)}, dropped |-> ToSet(queue)]
    /\ queue' = <<>> /\ again' = 0
    /\ slot' = IF Tracked THEN [slot EXCEPT !.stop = TRUE] ELSE slot
    /\ retired' = TRUE
    /\ UNCHANGED <<threadVars, up, file, accepted, page, flushing, outbox, turns>>

Ack(c, lost) ==
    /\ up
    /\ c \in kill.commands
    /\ IF lost THEN Spend("faults") /\ UNCHANGED commands
               ELSE commands' = [commands EXCEPT ![c] = IF Queued(c) THEN "acked" ELSE @] /\ UNCHANGED budget
    /\ kill' = [kill EXCEPT !.commands = @ \ {c}]
    /\ UNCHANGED <<state, stored, writes, posts, lock, up, file, accepted, queue, again, slot,
                   page, flushing, outbox, turns, retired>>

\* A mutant of StillHeld: what a kill drops stays accepted.
HeldForever == accepted
StillHeld == accepted \ kill.dropped

\* The dropped prompts are forgotten once every command is acknowledged.
KillDone ==
    /\ up
    /\ kill # NoKill /\ kill.commands = {}
    /\ accepted' = StillHeld
    /\ kill' = NoKill
    /\ UNCHANGED <<threadVars, up, file, queue, again, slot, page, flushing, outbox, turns, retired>>

-----------------------------------------------------------------------------
(* The process.                                                            *)

Crash ==
    /\ up
    /\ Spend("faults")
    /\ up' = FALSE
    /\ accepted' = {} /\ queue' = <<>> /\ again' = 0
    /\ slot' = NoTurn
    /\ page' = {} /\ kill' = NoKill /\ flushing' = FALSE
    /\ UNCHANGED <<state, commands, stored, writes, posts, lock, file, outbox, turns, retired>>

Unsettled == {r \in file.records : ~r.settled}
NeverAdmitted == {b \in file.dispatches : \A r \in file.records : SubmissionId(r.batch) # SubmissionId(b)}

\* recover: a turn that was admitted is waited for, a batch that was not is
\* queued again, and a turn that had settled is passed over.
Restart ==
    LET back == IF NeverAdmitted = {} THEN <<>> ELSE (CHOOSE b \in NeverAdmitted : TRUE).msgs IN
    /\ ~up
    /\ up' = TRUE
    /\ file' = [file EXCEPT !.dispatches = @ \ NeverAdmitted]
    /\ queue' = back
    /\ again' = IF NeverAdmitted = {} THEN 0 ELSE (CHOOSE b \in NeverAdmitted : TRUE).attempt
    /\ slot' = IF Unsettled = {} THEN NoTurn
               ELSE [NoTurn EXCEPT !.pc = "running", !.recovered = TRUE,
                                   !.batch = (CHOOSE r \in Unsettled : TRUE).batch]
    /\ accepted' = ToSet(back) \cup UNION {ToSet(r.batch.msgs) : r \in Unsettled}
    /\ UNCHANGED <<threadVars, page, kill, flushing, outbox, turns, retired>>

Bridge ==
    \/ SyncFetch \/ Intake
    \/ Dispatch \/ Submit \/ Conflict \/ Record \/ Settle \/ Retry
    \/ \E gaveUp \in BOOLEAN : NotAdmitted(gaveUp)
    \/ Deliver \/ Close
    \/ \E entry \in outbox : Flush(entry)
    \/ \E p \in Posters : PostAnswered(p) \/ AnswerDropped(p) \/ \E repost \in BOOLEAN : PostNotAnswered(p, repost)
    \/ \E w \in writes : StatusLost(w)
    \/ \E m \in Msgs : PollStop(m)
    \/ KillApply \/ KillDone \/ \E c \in Stops, lost \in BOOLEAN : Ack(c, lost)
    \/ Crash \/ Restart

Init == ThreadInit /\ BridgeInit

Next ==
    \/ (Person \/ Server) /\ UNCHANGED bridgeVars
    \/ Bridge

\* The loops go on, a stopped process is started again, requests reach a
\* server that answers, and a turn ends or is ended for being idle.
OfServer(step) == step /\ UNCHANGED bridgeVars
SlotMoves ==
    \/ Dispatch \/ Submit \/ Conflict \/ Record \/ Settle \/ Retry \/ Deliver \/ Close
    \/ \E gaveUp \in BOOLEAN : NotAdmitted(gaveUp)
PostEnds(p) == PostAnswered(p) \/ AnswerDropped(p) \/ \E repost \in BOOLEAN : PostNotAnswered(p, repost)

Fairness ==
    /\ WF_vars(SyncFetch) /\ WF_vars(Intake) /\ WF_vars(SlotMoves) /\ WF_vars(Restart)
    /\ WF_vars(\E entry \in outbox : Flush(entry))
    /\ WF_vars(KillApply) /\ WF_vars(KillDone)
    /\ \A c \in Stops : WF_vars(Ack(c, FALSE))
    /\ \A m \in Msgs : WF_vars(PollStop(m))
    /\ \A p \in Posters : WF_vars(PostEnds(p)) /\ WF_vars(OfServer(PostStep(p)))
    /\ \A w \in Writes : WF_vars(OfServer(StatusWrite(w)))

Spec == Init /\ [][Next]_vars /\ Fairness

-----------------------------------------------------------------------------
TypeOK == ThreadTypeOK /\ BridgeTypeOK

\* A reply is stored once in a day, although the desk and the flush post it side
\* by side, answers are lost and the process restarts (Idempotency-Key of a
\* send).  A reply that stays parked for longer may be stored again: the key is
\* looked up among the replies of one day, and the outbox does not give up.
OneReplyADay == \A key \in Keys : stored[key] <= 1

\* The work a stop ended cannot answer late: no reply is stored while a stop
\* waits to be acknowledged, nor later to a prompt it cancelled, unless that is
\* sent again.  A stop that is marked seen waits no longer, applied or not; the
\* prompts it cancelled stay unanswered all the same.
NoLateReply ==
    [][\A key \in Keys : stored'[key] > stored[key] => ~StopQueued /\ state[key[1]] # "stopped"]_vars

\* The gateway begins a turn.
Begins(t) == t \in turns' \ turns /\ t.status = "running" /\ \A u \in turns : u.key # t.key

\* A turn is not run for a prompt whose own reply is parked: its reply is what
\* is tried again, by the flush.
ParkedNotRerun ==
    [][\A t \in turns' : Begins(t) => ~Parked(t.key[1])]_vars

Ended(m) == state[m] = "resolved" \/ Cancelled(m)
Interrupted(m) == \E t \in turns : t.msgs = <<m>> /\ t.status = "stopped"

\* Every prompt ends up resolved or cancelled, whatever is lost, stopped,
\* replaced or restarted on the way.  One that is sent again after its turn was
\* interrupted is not: the gateway knows its key and answers with that turn.
EveryPromptSettles ==
    \A m \in Msgs : state[m] = "open" /\ ~Interrupted(m) ~> Ended(m) \/ Interrupted(m)
=============================================================================
