---------------------------- MODULE DirectThread ----------------------------
(***************************************************************************)
(* The server's side of one person's direct thread with an agent: the      *)
(* delivery state of the prompts, the replies the agent posts, the stop    *)
(* commands, and the handlers that read a prompt's state in one statement  *)
(* and write it in a later one.  What the agent's runtime does with the    *)
(* thread is in HermesBridge.                                              *)
(***************************************************************************)
EXTENDS Naturals, FiniteSets

CONSTANTS
    MaxMsgs,      \* prompts of the thread
    MaxStops,     \* kill and replace commands
    MaxAttempts,  \* the highest -rN suffix of a submission
    Scenarios     \* how often each kind of thing below may happen in one run

\* Prompts sent, stop commands, prompts cancelled one by one, stopped prompts
\* sent again, times the thread is opened, replies that grow a day old,
\* failures of any kind.
Kinds == {"prompts", "stops", "cancels", "resends", "opens", "days", "faults"}

ASSUME DirectThreadAssumption ==
    /\ MaxMsgs \in Nat \ {0} /\ MaxStops \in Nat /\ MaxAttempts \in Nat \ {0}
    /\ Scenarios \subseteq [Kinds -> Nat]

Msgs == 1 .. MaxMsgs                 \* in the order they were created
Stops == 1 .. MaxStops
Keys == Msgs \X (0 .. MaxAttempts)   \* submission ids: trigger and attempt
Posters == {"desk", "flush"}         \* the requests a runtime may have under way

VARIABLES
    state,     \* delivery state of each prompt
    commands,  \* state of each stop command
    stored,    \* how many replies with a submission's key were stored within a day
    writes,    \* state changes whose prompt was read and not written yet
    posts,     \* the reply request of each poster
    lock,      \* the poster that holds the agent's row, {} for nobody
    budget     \* bound: what may still happen of each kind

threadVars == <<state, commands, stored, writes, posts, lock, budget>>

(* "open" stands for queued, seen and acting: no guard tells them apart.   *)
(* "stopped" is cancelled, by a stop command.                              *)
States == {"unsent", "open", "resolved", "cancelled", "stopped"}
\* "noticed" is queued, and a read of the thread is about to write it seen.
CommandStates == {"unsent", "queued", "noticed", "seen", "acked"}
\* "seen" is written for the person who opens the thread, the others for the
\* agent's runtime.
Writes == [msg : Msgs, to : {"seen", "open", "resolved", "cancelled"}]
Posts == [pc : {"idle", "sent", "checked", "inserted", "done", "error"}, key : Keys, also : SUBSET Msgs]
NoPost == [pc |-> "idle", key |-> <<1, 0>>, also |-> {}]

ThreadTypeOK ==
    /\ state \in [Msgs -> States]
    /\ commands \in [Stops -> CommandStates]
    /\ stored \in [Keys -> Nat]
    /\ writes \subseteq Writes
    /\ posts \in [Posters -> Posts]
    /\ lock \in SUBSET Posters
    /\ budget \in [Kinds -> Nat]

ThreadInit ==
    /\ state = [m \in Msgs |-> "unsent"]
    /\ commands = [c \in Stops |-> "unsent"]
    /\ stored = [k \in Keys |-> 0]
    /\ writes = {}
    /\ posts = [p \in Posters |-> NoPost]
    /\ lock = {}
    /\ budget \in Scenarios

Spend(kind) ==
    /\ budget[kind] > 0
    /\ budget' = [budget EXCEPT ![kind] = @ - 1]

OpenMsgs == {m \in Msgs : state[m] = "open"}
Cancelled(m) == state[m] \in {"cancelled", "stopped"}
Queued(c) == commands[c] \in {"queued", "noticed"}
StopQueued == \E c \in Stops : Queued(c)

-----------------------------------------------------------------------------
(* The person.                                                             *)

\* Prompts are created one after the other.
NextMsg(m) == state[m] = "unsent" /\ \A l \in Msgs : l < m => state[l] # "unsent"

\* POST /api/chat.
Send(m) ==
    /\ NextMsg(m)
    /\ Spend("prompts")
    /\ state' = [state EXCEPT ![m] = "open"]
    /\ UNCHANGED <<commands, stored, writes, posts, lock>>

\* updateDirectMessageQueueItem, cancel: it does not take the agent's row.
Cancel(m) ==
    /\ state[m] = "open"
    /\ Spend("cancels")
    /\ state' = [state EXCEPT ![m] = "cancelled"]
    /\ UNCHANGED <<commands, stored, writes, posts, lock>>

\* updateDirectMessageQueueItem, retry.
Resend(m) ==
    /\ Cancelled(m)
    /\ Spend("resends")
    /\ state' = [state EXCEPT ![m] = "open"]
    /\ UNCHANGED <<commands, stored, writes, posts, lock>>

\* A mutant of RowFree: the row is not locked.
RowFreeIgnored == TRUE

\* The agent's row is locked for the whole transaction of a stop or a reply.
RowFree == lock = {}

\* requestAgentControl: cancel every open prompt, queue the command, and for
\* a replace the prompt it brings.
Stop(c, prompts) ==
    /\ RowFree
    /\ commands[c] = "unsent" /\ \A d \in Stops : d < c => commands[d] # "unsent"
    /\ prompts = {} \/ \E m \in Msgs : prompts = {m} /\ NextMsg(m)
    /\ budget.stops > 0 /\ budget.prompts >= Cardinality(prompts)
    /\ budget' = [budget EXCEPT !.stops = @ - 1, !.prompts = @ - Cardinality(prompts)]
    /\ commands' = [commands EXCEPT ![c] = "queued"]
    /\ state' = [m \in Msgs |-> IF m \in prompts THEN "open"
                                ELSE IF state[m] = "open" THEN "stopped" ELSE state[m]]
    /\ UNCHANGED <<stored, writes, posts, lock>>

-----------------------------------------------------------------------------
(* A change of execution state: the open prompts are read, and each is     *)
(* written later, unless it was cancelled by then.  The bridge always      *)
(* names the prompt; a person who opens the thread names none, and what is *)
(* read then are the stop commands as well.                                *)

StatusRead(msgs, to) ==
    writes' = writes \cup {[msg |-> m, to |-> to] : m \in msgs \cap OpenMsgs}

StatusLands(w) == ~Cancelled(w.msg)

\* The runtime reports that it has begun long before it reports an end: an end
\* that lands first means that the other request was held up.
Overtakes(w) == w.to \in {"resolved", "cancelled"} /\ [w EXCEPT !.to = "open"] \in writes

StatusWrite(w) ==
    /\ w \in writes
    /\ IF Overtakes(w) THEN Spend("faults") ELSE UNCHANGED budget
    /\ state' = [state EXCEPT ![w.msg] = IF ~StatusLands(w) THEN @
                                          ELSE IF w.to = "seen" THEN "open" ELSE w.to]
    /\ writes' = writes \ {w}
    /\ UNCHANGED <<commands, stored, posts, lock>>

\* The person opens the thread: every open prompt and every queued stop command
\* is to become seen.
MarkRead ==
    /\ OpenMsgs # {} \/ StopQueued
    /\ Spend("opens")
    /\ StatusRead(Msgs, "seen")
    /\ commands' = [c \in Stops |-> IF Queued(c) THEN "noticed" ELSE commands[c]]
    /\ UNCHANGED <<state, stored, posts, lock>>

\* The write of a stop command: whoever looks for queued commands (the control
\* poll, its acknowledgement, a reply) finds it no longer.  Over one that is
\* acknowledged by then it changes nothing that is read.
StopSeen(c) ==
    /\ commands[c] = "noticed"
    /\ commands' = [commands EXCEPT ![c] = "seen"]
    /\ UNCHANGED <<state, stored, writes, posts, lock, budget>>

-----------------------------------------------------------------------------
(* POST /api/mcp/messages/send with a prompt to reply to.                  *)

\* resolveCoalesced: the older prompts the same turn answered.
Coalesced(p) ==
    [m \in Msgs |-> IF m \in posts[p].also /\ m < posts[p].key[1] /\ state[m] = "open"
                    THEN "resolved" ELSE state[m]]

\* A key is looked up among the replies of the last day (IDEMPOTENCY_WINDOW_MS).
Replayed(key) == stored[key] > 0

\* A mutant of Refused: a stop that waits is not looked for.
RefusedIfCancelled(key) == Cancelled(key[1])
Refused(key) == Cancelled(key[1]) \/ StopQueued

\* The agent's row is locked; the reply is a replay, is refused, or may go.
PostCheck(p) ==
    LET key == posts[p].key IN
    /\ posts[p].pc = "sent"
    /\ RowFree
    /\ IF Replayed(key) \/ Refused(key)
       THEN /\ posts' = [posts EXCEPT ![p].pc = "done"]
            /\ state' = IF Replayed(key) THEN Coalesced(p) ELSE state
            /\ UNCHANGED lock
       ELSE /\ posts' = [posts EXCEPT ![p].pc = "checked"]
            /\ lock' = {p}
            /\ UNCHANGED state
    /\ UNCHANGED <<commands, stored, writes, budget>>

\* appendThreadMessage inserts on a connection of its own: the reply is
\* stored whether or not the transaction around it commits.
PostInsert(p) ==
    /\ posts[p].pc = "checked"
    /\ stored' = [stored EXCEPT ![posts[p].key] = @ + 1]
    /\ posts' = [posts EXCEPT ![p].pc = "inserted"]
    /\ UNCHANGED <<state, commands, writes, lock, budget>>

PostCommit(p) ==
    /\ posts[p].pc = "inserted"
    /\ state' = Coalesced(p)
    /\ posts' = [posts EXCEPT ![p].pc = "done"]
    /\ lock' = lock \ {p}
    /\ UNCHANGED <<commands, stored, writes, budget>>

\* The server fails the request: the transaction rolls back.
PostFails(p) ==
    /\ posts[p].pc \in {"sent", "checked", "inserted"}
    /\ Spend("faults")
    /\ posts' = [posts EXCEPT ![p].pc = "error"]
    /\ lock' = lock \ {p}
    /\ UNCHANGED <<state, commands, stored, writes>>

PostStep(p) == PostCheck(p) \/ PostInsert(p) \/ PostCommit(p)

\* A stored reply grows a day old.  No transaction lasts that long.
DayPasses(key) ==
    /\ stored[key] > 0
    /\ lock = {}
    /\ Spend("days")
    /\ stored' = [stored EXCEPT ![key] = @ - 1]
    /\ UNCHANGED <<state, commands, writes, posts, lock>>

Person ==
    \/ \E m \in Msgs : Send(m) \/ Cancel(m) \/ Resend(m)
    \/ \E c \in Stops, prompts \in SUBSET Msgs : Stop(c, prompts)
    \/ MarkRead

Server ==
    \/ \E w \in writes : StatusWrite(w)
    \/ \E c \in Stops : StopSeen(c)
    \/ \E key \in Keys : DayPasses(key)
    \/ \E p \in Posters : PostStep(p) \/ PostFails(p)
=============================================================================
