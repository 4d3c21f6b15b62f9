------------------------ MODULE HermesBridge_proofs -------------------------
(***************************************************************************)
(* Proofs about a direct thread and its bridge, for any number of prompts, *)
(* stop commands and attempts, wherever the bridge and its requests fail.  *)
(***************************************************************************)
EXTENDS HermesBridge, FiniteSetTheorems, TLAPS

(***************************************************************************)
(* A reply request between its check and the end of its transaction holds  *)
(* the agent's row.  No other request inserts and no stop is asked for     *)
(* meanwhile, so what the check found is still true at the insert.         *)
(***************************************************************************)
PostShape(post) == post = [pc |-> post.pc, key |-> post.key, also |-> post.also]

Shaped ==
    /\ stored \in [Keys -> Nat]
    /\ DOMAIN posts = Posters /\ \A p \in Posters : PostShape(posts[p])
    /\ DOMAIN commands = Stops

Inside(p) == posts[p].pc \in {"checked", "inserted"}

HoldsRow == \A p \in Posters : Inside(p) => lock = {p} /\ ~StopQueued

NotStoredYet == \A p \in Posters :
    posts[p].pc = "checked" /\ posts[p].key \in Keys => stored[posts[p].key] = 0

ReplyInv == Shaped /\ HoldsRow /\ NotStoredYet /\ OneReplyADay

LEMMA ReplyInit == ASSUME Init PROVE ReplyInv
<1>1. Shaped
  BY DEF Init, ThreadInit, Shaped, PostShape, NoPost
<1>2. HoldsRow /\ NotStoredYet /\ OneReplyADay
  BY DEF Init, ThreadInit, HoldsRow, Inside, NotStoredYet, OneReplyADay, NoPost
<1> QED BY <1>1, <1>2 DEF ReplyInv

\* A step that stores nothing and asks for no stop, in which one request at most leaves its
\* transaction or begins anew.
LEMMA NothingStored ==
    ASSUME ReplyInv, UNCHANGED stored,
           NEW p \in Posters, NEW post, posts' = [posts EXCEPT ![p] = post], PostShape(post),
           post.pc \notin {"checked", "inserted"},
           lock' = lock \ {p} \/ (lock' = lock /\ ~Inside(p)),
           DOMAIN commands' = Stops, StopQueued' => StopQueued
    PROVE  ReplyInv'
<1>1. /\ DOMAIN posts' = Posters /\ posts'[p] = post
      /\ \A q \in Posters : q # p => posts'[q] = posts[q]
  BY DEF ReplyInv, Shaped
<1>2. Shaped'
  BY <1>1 DEF ReplyInv, Shaped
<1>3. HoldsRow'
  BY <1>1 DEF ReplyInv, HoldsRow, Inside
<1>4. NotStoredYet' /\ OneReplyADay'
  BY <1>1 DEF ReplyInv, NotStoredYet, OneReplyADay
<1> QED BY <1>2, <1>3, <1>4 DEF ReplyInv

\* A reply is a day old: whatever is stored, nothing is about to be.
LEMMA DayKeeps == ASSUME ReplyInv, NEW key \in Keys, DayPasses(key) PROVE ReplyInv'
<1>1. /\ \A p \in Posters : ~Inside(p)
      /\ UNCHANGED <<posts, commands>>
      /\ stored' = [stored EXCEPT ![key] = stored[key] - 1]
      /\ stored[key] \in Nat /\ stored[key] > 0
  BY DEF DayPasses, ReplyInv, HoldsRow, Shaped
<1>2. stored' \in [Keys -> Nat] /\ \A k \in Keys : stored'[k] <= stored[k]
  <2>1. stored[key] - 1 \in Nat /\ stored[key] - 1 <= stored[key]
    BY <1>1
  <2>2. \A k \in Keys : stored[k] \in Nat /\ stored[k] <= stored[k]
    BY DEF ReplyInv, Shaped
  <2> QED BY <1>1, <2>1, <2>2 DEF ReplyInv, Shaped
<1>3. Shaped'
  BY <1>1, <1>2 DEF ReplyInv, Shaped, PostShape
<1>4. HoldsRow' /\ NotStoredYet'
  BY <1>1 DEF HoldsRow, NotStoredYet, Inside
<1>5. OneReplyADay'
  <2>1. \A k \in Keys : stored[k] \in Nat /\ stored'[k] \in Nat /\ stored[k] <= 1
    BY <1>2 DEF ReplyInv, OneReplyADay, Shaped
  <2> QED BY <1>2, <2>1 DEF OneReplyADay
<1> QED BY <1>3, <1>4, <1>5 DEF ReplyInv

\* A step outside the reply requests.
LEMMA RepliesAlone ==
    ASSUME ReplyInv, UNCHANGED <<stored, posts, lock>>, DOMAIN commands' = Stops,
           StopQueued' => StopQueued \/ RowFree
    PROVE  ReplyInv'
BY DEF ReplyInv, Shaped, HoldsRow, Inside, NotStoredYet, OneReplyADay, RowFree

LEMMA CheckKeeps == ASSUME ReplyInv, NEW p \in Posters, PostCheck(p) PROVE ReplyInv'
<1> DEFINE key == posts[p].key
<1>1. /\ PostShape(posts[p]) /\ DOMAIN posts = Posters /\ posts[p].pc = "sent" /\ RowFree
      /\ UNCHANGED <<commands, stored>>
  BY DEF PostCheck, ReplyInv, Shaped
<1>2. DOMAIN commands' = Stops /\ (StopQueued' <=> StopQueued)
  BY <1>1 DEF ReplyInv, Shaped, StopQueued, Queued
<1>3. CASE Replayed(key) \/ Refused(key)
  <2> DEFINE post == [posts[p] EXCEPT !.pc = "done"]
  <2>1. posts' = [posts EXCEPT ![p] = post] /\ lock' = lock
    BY <1>1, <1>3 DEF PostCheck
  <2>2. PostShape(post) /\ post.pc = "done"
    BY <1>1 DEF PostShape
  <2> HIDE DEF post
  <2> QED BY <1>1, <1>2, <2>1, <2>2, NothingStored DEF Inside
<1>4. CASE ~(Replayed(key) \/ Refused(key))
  <2> DEFINE post == [posts[p] EXCEPT !.pc = "checked"]
  <2>1. posts' = [posts EXCEPT ![p] = post] /\ lock' = {p}
    BY <1>1, <1>4 DEF PostCheck
  <2>2. PostShape(post) /\ post.pc = "checked" /\ post.key = key
    BY <1>1 DEF PostShape
  <2> HIDE DEF post
  <2>3. /\ posts'[p] = post /\ DOMAIN posts' = Posters
        /\ \A q \in Posters : q # p => posts'[q] = posts[q]
    BY <1>1, <2>1
  <2>4. \A q \in Posters : ~Inside(q)
    BY <1>1 DEF ReplyInv, HoldsRow, RowFree
  <2>5. ~StopQueued /\ ~(stored[key] > 0)
    BY <1>4 DEF Refused, Replayed
  <2>6. Shaped'
    BY <1>1, <2>2, <2>3 DEF ReplyInv, Shaped
  <2>7. HoldsRow'
    BY <1>2, <2>1, <2>3, <2>4, <2>5 DEF HoldsRow, Inside
  <2>8. NotStoredYet'
    <3>1. key \in Keys => stored[key] = 0
      BY <2>5 DEF ReplyInv, Shaped
    <3> QED BY <1>1, <2>2, <2>3, <2>4, <3>1 DEF NotStoredYet, Inside
  <2>9. OneReplyADay'
    BY <1>1 DEF ReplyInv, OneReplyADay
  <2> QED BY <2>6, <2>7, <2>8, <2>9 DEF ReplyInv
<1> QED BY <1>3, <1>4

LEMMA InsertKeeps == ASSUME ReplyInv, NEW p \in Posters, PostInsert(p) PROVE ReplyInv'
<1> DEFINE key == posts[p].key
           post == [posts[p] EXCEPT !.pc = "inserted"]
<1>1. /\ PostShape(posts[p]) /\ DOMAIN posts = Posters /\ posts[p].pc = "checked"
      /\ stored \in [Keys -> Nat]
      /\ stored' = [stored EXCEPT ![key] = stored[key] + 1]
      /\ posts' = [posts EXCEPT ![p] = post]
      /\ UNCHANGED <<commands, lock>>
  BY DEF PostInsert, ReplyInv, Shaped
<1>2. PostShape(post) /\ post.pc = "inserted" /\ post.key = key
  BY <1>1 DEF PostShape
<1> HIDE DEF post
<1>3. /\ posts'[p] = post /\ DOMAIN posts' = Posters
      /\ \A q \in Posters : q # p => posts'[q] = posts[q]
  BY <1>1
<1>4. lock = {p} /\ ~StopQueued /\ \A q \in Posters : q # p => ~Inside(q)
  <2>1. lock = {p} /\ ~StopQueued
    BY <1>1 DEF ReplyInv, HoldsRow, Inside
  <2>2. \A q \in Posters : Inside(q) => lock = {q}
    BY DEF ReplyInv, HoldsRow
  <2> QED BY <2>1, <2>2
<1>5. key \in Keys => stored[key] = 0
  BY <1>1 DEF ReplyInv, NotStoredYet
<1>6. stored' \in [Keys -> Nat] /\ \A k \in Keys : stored'[k] <= 1
  <2>1. \A k \in Keys : stored[k] \in Nat /\ stored[k] <= 1
    BY <1>1 DEF ReplyInv, OneReplyADay
  <2>2. \A k \in Keys : stored'[k] \in Nat /\ stored'[k] <= 1
    BY <1>1, <1>5, <2>1
  <2> QED BY <1>1, <2>2
<1>7. Shaped'
  BY <1>1, <1>2, <1>3, <1>6 DEF ReplyInv, Shaped
<1>8. HoldsRow'
  BY <1>1, <1>3, <1>4 DEF HoldsRow, Inside, StopQueued, Queued
<1>9. NotStoredYet'
  BY <1>2, <1>3, <1>4 DEF NotStoredYet, Inside
<1> QED BY <1>6, <1>7, <1>8, <1>9 DEF ReplyInv, OneReplyADay

LEMMA ReplyStep == ASSUME ReplyInv, [Next]_vars PROVE ReplyInv'
<1>1. DOMAIN posts = Posters /\ DOMAIN commands = Stops /\ \A p \in Posters : PostShape(posts[p])
  BY DEF ReplyInv, Shaped
<1>2. ASSUME UNCHANGED <<commands, stored, posts, lock>> PROVE ReplyInv'
  BY <1>1, <1>2, RepliesAlone DEF StopQueued, Queued
<1>3. ASSUME NEW c \in Stops, NEW prompts \in SUBSET Msgs, Stop(c, prompts) PROVE ReplyInv'
  BY <1>1, <1>3, RepliesAlone DEF Stop
<1>4. ASSUME NEW c \in Stops, NEW lost \in BOOLEAN, Ack(c, lost) PROVE ReplyInv'
  <2>1. commands' = commands \/ commands' = [commands EXCEPT ![c] = IF Queued(c) THEN "acked" ELSE @]
    BY <1>4 DEF Ack
  <2>2. DOMAIN commands' = Stops /\ (StopQueued' => StopQueued)
    BY <1>1, <2>1 DEF StopQueued, Queued
  <2> QED BY <1>4, <2>2, RepliesAlone DEF Ack
<1>5. ASSUME NEW p \in Posters, NEW post, posts' = [posts EXCEPT ![p] = post], PostShape(post),
             post.pc \notin {"checked", "inserted"}, UNCHANGED <<commands, stored>>,
             lock' = lock \ {p} \/ (lock' = lock /\ ~Inside(p))
      PROVE  ReplyInv'
  BY <1>1, <1>5, NothingStored DEF StopQueued, Queued
<1>6. \A p \in Posters : \A pc :
         PostShape([posts[p] EXCEPT !.pc = pc]) /\ [posts[p] EXCEPT !.pc = pc].pc = pc
  BY <1>1 DEF PostShape
<1>7. ASSUME NEW p \in Posters, PostCommit(p) \/ PostFails(p) PROVE ReplyInv'
  <2>1. PICK pc \in {"done", "error"} : posts' = [posts EXCEPT ![p] = [posts[p] EXCEPT !.pc = pc]]
    BY <1>1, <1>7 DEF PostCommit, PostFails
  <2> DEFINE post == [posts[p] EXCEPT !.pc = pc]
  <2>2. PostShape(post) /\ post.pc = pc
    BY <1>6
  <2>3. posts' = [posts EXCEPT ![p] = post]
    BY <2>1
  <2>4. UNCHANGED <<commands, stored>> /\ lock' = lock \ {p}
    BY <1>7 DEF PostCommit, PostFails
  <2> HIDE DEF post
  <2> QED BY <1>5, <2>2, <2>3, <2>4
<1>8. PostShape(NoPost) /\ NoPost.pc = "idle"
  BY DEF PostShape, NoPost
<1>9. ASSUME NEW p \in Posters, NEW entry, Sent(p, entry), posts[p].pc = "idle",
             UNCHANGED <<commands, stored, lock>>
      PROVE  ReplyInv'
  <2> DEFINE post == [pc |-> "sent", key |-> entry.key, also |-> entry.also]
  <2>1. PostShape(post) /\ post.pc = "sent" /\ posts' = [posts EXCEPT ![p] = post]
    BY <1>9 DEF PostShape, Sent
  <2> HIDE DEF post
  <2> QED BY <1>5, <1>9, <2>1 DEF Inside
<1>10. CASE Deliver
  <2>1. UNCHANGED <<commands, stored, lock>>
    BY <1>10 DEF Deliver
  <2>2. UNCHANGED posts \/ \E entry : posts["desk"].pc = "idle" /\ Sent("desk", entry)
    BY <1>10 DEF Deliver
  <2> QED BY <1>2, <1>9, <2>1, <2>2 DEF Posters
<1>11. ASSUME NEW entry \in outbox, Flush(entry) PROVE ReplyInv'
  BY <1>9, <1>11 DEF Flush, Posters
<1>12. ASSUME NEW p \in Posters, PostAnswered(p) \/ AnswerDropped(p) PROVE ReplyInv'
  <2>1. /\ posts[p].pc \in {"done", "error"} /\ posts' = [posts EXCEPT ![p] = NoPost]
        /\ UNCHANGED <<commands, stored, lock>>
    BY <1>12 DEF PostAnswered, AnswerDropped
  <2> QED BY <1>5, <1>8, <2>1 DEF Inside
<1>13. ASSUME NEW p \in Posters, NEW repost \in BOOLEAN, PostNotAnswered(p, repost) PROVE ReplyInv'
  <2>1. posts[p].pc \in {"done", "error"} /\ UNCHANGED <<commands, stored, lock>>
    BY <1>13 DEF PostNotAnswered
  <2>2. CASE posts' = [posts EXCEPT ![p] = NoPost]
    BY <1>5, <1>8, <2>1, <2>2 DEF Inside
  <2>3. CASE posts' = [posts EXCEPT ![p].pc = "sent"]
    <3> DEFINE post == [posts[p] EXCEPT !.pc = "sent"]
    <3>1. PostShape(post) /\ post.pc = "sent" /\ posts' = [posts EXCEPT ![p] = post]
      BY <1>1, <1>6, <2>3
    <3> HIDE DEF post
    <3> QED BY <1>5, <2>1, <3>1 DEF Inside
  <2> QED BY <1>13, <2>2, <2>3 DEF PostNotAnswered
<1>14. CASE Person /\ UNCHANGED bridgeVars
  <2>1. CASE MarkRead
    <3>1. DOMAIN commands' = Stops /\ (StopQueued' => StopQueued)
      BY <1>1, <2>1 DEF MarkRead, StopQueued, Queued
    <3> QED BY <2>1, <3>1, RepliesAlone DEF MarkRead
  <2> QED BY <1>2, <1>3, <1>14, <2>1 DEF Person, Send, Cancel, Resend
<1>15. CASE Server /\ UNCHANGED bridgeVars
  <2>1. ASSUME NEW w \in writes, StatusWrite(w) PROVE ReplyInv'
    BY <1>2, <2>1 DEF StatusWrite
  <2>2. ASSUME NEW c \in Stops, StopSeen(c) PROVE ReplyInv'
    <3>1. DOMAIN commands' = Stops /\ (StopQueued' => StopQueued)
      BY <1>1, <2>2 DEF StopSeen, StopQueued, Queued
    <3> QED BY <2>2, <3>1, RepliesAlone DEF StopSeen
  <2> QED BY <1>7, <1>15, <2>1, <2>2, CheckKeeps, InsertKeeps, DayKeeps DEF Server, PostStep
<1>16. CASE Bridge
  <2>1. ASSUME SyncFetch \/ Intake \/ Submit \/ Record \/ KillApply \/ KillDone \/ Restart
               \/ \E m \in Msgs : PollStop(m)
        PROVE  ReplyInv'
    BY <1>2, <2>1 DEF SyncFetch, Intake, Submit, Record, KillApply, KillDone, Restart, PollStop,
                      threadVars
  <2>2. ASSUME Dispatch \/ Conflict \/ Settle \/ Retry \/ Close \/ Crash
               \/ (\E gaveUp \in BOOLEAN : NotAdmitted(gaveUp)) \/ (\E w \in writes : StatusLost(w))
        PROVE  ReplyInv'
    BY <1>2, <2>2 DEF Dispatch, Conflict, Settle, Retry, Close, Crash, NotAdmitted, StatusLost
  <2> QED BY <1>4, <1>10, <1>11, <1>12, <1>13, <1>16, <2>1, <2>2 DEF Bridge
<1>17. CASE UNCHANGED vars
  BY <1>2, <1>17 DEF vars, threadVars
<1> QED BY <1>14, <1>15, <1>16, <1>17 DEF Next

(***************************************************************************)
(* A reply is stored once in a day under its key, whatever is posted       *)
(* twice, lost, rolled back or restarted.                                  *)
(***************************************************************************)
THEOREM RepliesStoredOnce == Spec => []OneReplyADay
<1>1. Init => ReplyInv BY ReplyInit
<1>2. ReplyInv /\ [Next]_vars => ReplyInv' BY ReplyStep
<1>3. ReplyInv => OneReplyADay BY DEF ReplyInv
<1> QED BY <1>1, <1>2, <1>3, PTL DEF Spec

-----------------------------------------------------------------------------
\* What is left of a list is a list of what is left.
LEMMA InOrderIsList ==
    ASSUME NEW l \in Lists, NEW S, NEW r \in InOrder(l, S)
    PROVE  r \in Lists /\ ToSet(r) = ToSet(l) \cap S
<1>1. l \in Seq(Msgs) /\ DOMAIN l = 1 .. Len(l) /\ IsInjective(l)
  BY DEF Lists
<1>2. ToSet(r) = ToSet(l) \cap S
  BY DEF InOrder
<1>3. PICK n \in 0 .. Len(l) : r \in [1 .. n -> ToSet(l) \cap S]
  BY DEF InOrder, BoundedSeq, SeqOf
<1>4. ToSet(l) \subseteq Msgs
  BY <1>1 DEF ToSet
<1>5. r \in Seq(Msgs) /\ Len(r) = n /\ DOMAIN r = 1 .. n
  <2>1. n \in Nat
    BY <1>1, <1>3
  <2> QED BY <1>3, <1>4, <2>1
<1>6. ASSUME NEW i \in 1 .. n, NEW k \in 1 .. n, i < k, r[i] = r[k] PROVE FALSE
  <2>1. PICK a \in DOMAIN l, b \in DOMAIN l : a < b /\ l[a] = r[i] /\ l[b] = r[k]
    BY <1>5, <1>6 DEF InOrder
  <2>2. a = b
    BY <1>1, <1>6, <2>1 DEF IsInjective
  <2> QED BY <1>1, <2>1, <2>2
<1>7. ASSUME NEW i \in 1 .. n, NEW k \in 1 .. n, r[i] = r[k] PROVE i = k
  <2>1. i \in Nat /\ k \in Nat
    BY <1>1, <1>3
  <2> QED BY <1>6, <1>7, <2>1
<1> QED BY <1>2, <1>5, <1>7 DEF Lists, IsInjective

\* Two lists that share nothing, one behind the other.
LEMMA JoinIsList ==
    ASSUME NEW a \in Lists, NEW b \in Lists, ToSet(a) \cap ToSet(b) = {}
    PROVE  a \o b \in Lists /\ ToSet(a \o b) = ToSet(a) \cup ToSet(b)
<1> DEFINE ab == a \o b
<1>1. /\ a \in Seq(Msgs) /\ DOMAIN a = 1 .. Len(a) /\ IsInjective(a) /\ Len(a) \in Nat
      /\ b \in Seq(Msgs) /\ DOMAIN b = 1 .. Len(b) /\ IsInjective(b) /\ Len(b) \in Nat
  BY DEF Lists
<1>2. /\ ab \in Seq(Msgs) /\ DOMAIN ab = 1 .. Len(a) + Len(b)
      /\ \A i \in 1 .. Len(a) + Len(b) : ab[i] = IF i <= Len(a) THEN a[i] ELSE b[i - Len(a)]
  BY <1>1
<1> HIDE DEF ab
<1>3. \A i \in 1 .. Len(a) : i \in DOMAIN ab /\ ab[i] = a[i]
  BY <1>1, <1>2
<1>4. \A i \in 1 .. Len(b) : i + Len(a) \in DOMAIN ab /\ ab[i + Len(a)] = b[i]
  BY <1>1, <1>2
<1>5. \A i \in DOMAIN ab : \/ i \in 1 .. Len(a) /\ ab[i] = a[i]
                           \/ i - Len(a) \in 1 .. Len(b) /\ ab[i] = b[i - Len(a)]
  BY <1>1, <1>2
<1>6. ToSet(ab) = ToSet(a) \cup ToSet(b)
  <2>1. ToSet(ab) \subseteq ToSet(a) \cup ToSet(b)
    BY <1>1, <1>5 DEF ToSet
  <2>2. ToSet(a) \subseteq ToSet(ab)
    BY <1>1, <1>3 DEF ToSet
  <2>3. ToSet(b) \subseteq ToSet(ab)
    BY <1>1, <1>4 DEF ToSet
  <2> QED BY <2>1, <2>2, <2>3
<1>7. ASSUME NEW i \in DOMAIN ab, NEW k \in DOMAIN ab, ab[i] = ab[k] PROVE i = k
  <2>1. CASE i \in 1 .. Len(a) /\ ab[i] = a[i] /\ k \in 1 .. Len(a) /\ ab[k] = a[k]
    BY <1>1, <1>7, <2>1 DEF IsInjective
  <2>2. CASE /\ i - Len(a) \in 1 .. Len(b) /\ ab[i] = b[i - Len(a)]
             /\ k - Len(a) \in 1 .. Len(b) /\ ab[k] = b[k - Len(a)]
    <3>1. i - Len(a) = k - Len(a)
      BY <1>1, <1>7, <2>2 DEF IsInjective
    <3> QED BY <1>1, <1>2, <3>1
  <2>3. CASE i \in 1 .. Len(a) /\ ab[i] = a[i] /\ k - Len(a) \in 1 .. Len(b) /\ ab[k] = b[k - Len(a)]
    <3>1. ab[i] \in ToSet(a) /\ ab[k] \in ToSet(b)
      BY <1>1, <2>3 DEF ToSet
    <3> QED BY <1>7, <3>1
  <2>4. CASE k \in 1 .. Len(a) /\ ab[k] = a[k] /\ i - Len(a) \in 1 .. Len(b) /\ ab[i] = b[i - Len(a)]
    <3>1. ab[k] \in ToSet(a) /\ ab[i] \in ToSet(b)
      BY <1>1, <2>4 DEF ToSet
    <3> QED BY <1>7, <3>1
  <2> QED BY <1>5, <2>1, <2>2, <2>3, <2>4
<1>8. ab \in Lists
  BY <1>2, <1>7 DEF Lists, IsInjective
<1> QED BY <1>6, <1>8 DEF ab

\* The prompts themselves, in the order they were created.
LEMMA MsgsAreList == [m \in Msgs |-> m] \in Lists /\ ToSet([m \in Msgs |-> m]) = Msgs
<1>1. [m \in Msgs |-> m] \in Seq(Msgs)
  BY DirectThreadAssumption DEF Msgs
<1> QED BY <1>1 DEF Lists, IsInjective, ToSet

LEMMA NothingIsList == <<>> \in Lists /\ ToSet(<<>>) = {}
BY DEF Lists, IsInjective, ToSet

\* A batch is named by a prompt of its own.
LEMMA BatchNames ==
    ASSUME NEW b \in Batches
    PROVE  /\ b.msgs \in Lists /\ b.msgs # <<>> /\ b.attempt \in 0 .. MaxAttempts
           /\ ToSet(b.msgs) \subseteq Msgs
           /\ SubmissionId(b)[1] \in ToSet(b.msgs)
           /\ SubmissionId(b) \in Keys
<1>1. b.msgs \in Lists /\ b.msgs # <<>> /\ b.attempt \in 0 .. MaxAttempts
  BY DEF Batches
<1>2. b.msgs \in Seq(Msgs) /\ Len(b.msgs) \in DOMAIN b.msgs
  BY <1>1 DEF Lists
<1>3. ToSet(b.msgs) \subseteq Msgs
  BY <1>2 DEF ToSet
<1>4. Last(b.msgs) \in ToSet(b.msgs)
  BY <1>2 DEF Last, ToSet
<1> QED BY <1>1, <1>3, <1>4 DEF SubmissionId, Keys

LEMMA NextIsBatch ==
    ASSUME NEW b \in Batches, b.attempt < MaxAttempts
    PROVE  /\ NextAttempt(b) \in Batches /\ NextAttempt(b).msgs = b.msgs
           /\ NextAttempt(b).attempt = b.attempt + 1
BY DirectThreadAssumption DEF NextAttempt, Batches

-----------------------------------------------------------------------------
(* The server's side stays well typed.                                     *)

LEMMA SpendTypes ==
    ASSUME budget \in [Kinds -> Nat], NEW kind \in Kinds, Spend(kind)
    PROVE  budget' \in [Kinds -> Nat]
BY DEF Spend

LEMMA ReadTypes ==
    ASSUME writes \subseteq Writes, NEW msgs,
           NEW to \in {"seen", "open", "resolved", "cancelled"}, StatusRead(msgs, to)
    PROVE  writes' \subseteq Writes
BY DEF StatusRead, OpenMsgs, Writes

LEMMA PostTypes ==
    /\ NoPost \in Posts
    /\ \A post \in Posts, pc \in {"sent", "checked", "inserted", "done", "error"} :
           [post EXCEPT !.pc = pc] \in Posts
<1>1. <<1, 0>> \in Keys
  BY DirectThreadAssumption DEF Keys, Msgs
<1> QED BY <1>1 DEF NoPost, Posts

LEMMA PersonTypes == ASSUME ThreadTypeOK, Person PROVE ThreadTypeOK'
<1>1. ASSUME NEW m \in Msgs, Send(m) \/ Cancel(m) \/ Resend(m) PROVE ThreadTypeOK'
  <2>1. PICK kind \in Kinds : Spend(kind)
    BY <1>1 DEF Send, Cancel, Resend, Kinds
  <2>2. budget' \in [Kinds -> Nat]
    BY <2>1, SpendTypes DEF ThreadTypeOK
  <2>3. state' \in [Msgs -> States]
    BY <1>1 DEF ThreadTypeOK, Send, Cancel, Resend, States
  <2> QED BY <1>1, <2>2, <2>3 DEF ThreadTypeOK, Send, Cancel, Resend
<1>2. ASSUME NEW c \in Stops, NEW prompts \in SUBSET Msgs, Stop(c, prompts) PROVE ThreadTypeOK'
  <2>1. Cardinality(prompts) \in Nat
    <3>1. prompts = {} \/ \E m \in Msgs : prompts = {m}
      BY <1>2 DEF Stop
    <3> QED BY <3>1, FS_EmptySet, FS_Singleton
  <2>2. budget' \in [Kinds -> Nat]
    <3>1. /\ budget.stops \in Nat /\ budget.stops > 0 /\ budget.prompts \in Nat
          /\ budget.prompts >= Cardinality(prompts)
      BY <1>2 DEF Stop, ThreadTypeOK, Kinds
    <3>2. budget.stops - 1 \in Nat /\ budget.prompts - Cardinality(prompts) \in Nat
      BY <2>1, <3>1
    <3>3. budget' = [[budget EXCEPT !.stops = budget.stops - 1]
                        EXCEPT !.prompts = budget.prompts - Cardinality(prompts)]
      BY <1>2 DEF Stop, ThreadTypeOK, Kinds
    <3> QED BY <3>2, <3>3 DEF ThreadTypeOK
  <2>3. state' \in [Msgs -> States]
    BY <1>2 DEF ThreadTypeOK, Stop, States
  <2>4. commands' \in [Stops -> CommandStates]
    BY <1>2 DEF ThreadTypeOK, Stop, CommandStates
  <2> QED BY <1>2, <2>2, <2>3, <2>4 DEF ThreadTypeOK, Stop
<1>3. CASE MarkRead
  <2>1. writes' \subseteq Writes
    BY <1>3, ReadTypes DEF MarkRead, ThreadTypeOK
  <2>2. budget' \in [Kinds -> Nat]
    BY <1>3, SpendTypes DEF MarkRead, ThreadTypeOK, Kinds
  <2>3. commands' \in [Stops -> CommandStates]
    BY <1>3 DEF MarkRead, ThreadTypeOK, CommandStates
  <2> QED BY <1>3, <2>1, <2>2, <2>3 DEF ThreadTypeOK, MarkRead
<1> QED BY <1>1, <1>2, <1>3 DEF Person

LEMMA PostStepTypes ==
    ASSUME ThreadTypeOK, NEW p \in Posters, PostStep(p) \/ PostFails(p)
    PROVE  ThreadTypeOK'
<1>1. posts[p] \in Posts /\ posts[p].key \in Keys
  BY DEF ThreadTypeOK, Posts
<1>2. \A pc \in {"checked", "inserted", "done", "error"} :
          [posts EXCEPT ![p].pc = pc] \in [Posters -> Posts]
  BY <1>1, PostTypes DEF ThreadTypeOK
<1>3. posts' \in [Posters -> Posts]
  BY <1>2 DEF PostStep, PostCheck, PostInsert, PostCommit, PostFails
<1>4. state' \in [Msgs -> States]
  <2>1. Coalesced(p) \in [Msgs -> States]
    BY DEF Coalesced, ThreadTypeOK, States
  <2> QED BY <2>1 DEF PostStep, PostCheck, PostInsert, PostCommit, PostFails, ThreadTypeOK
<1>5. stored' \in [Keys -> Nat]
  <2>1. CASE PostInsert(p)
    <3>1. stored[posts[p].key] \in Nat
      BY <1>1 DEF ThreadTypeOK
    <3>2. stored' = [stored EXCEPT ![posts[p].key] = stored[posts[p].key] + 1]
      BY <2>1 DEF PostInsert
    <3>3. stored \in [Keys -> Nat] /\ stored[posts[p].key] + 1 \in Nat
      BY <3>1 DEF ThreadTypeOK
    <3> QED BY <3>2, <3>3
  <2>2. CASE ~PostInsert(p)
    BY <2>2 DEF PostStep, PostCheck, PostCommit, PostFails, ThreadTypeOK
  <2> QED BY <2>1, <2>2
<1>6. lock' \in SUBSET Posters
  BY DEF PostStep, PostCheck, PostInsert, PostCommit, PostFails, ThreadTypeOK
<1>7. budget' \in [Kinds -> Nat]
  BY SpendTypes DEF PostStep, PostCheck, PostInsert, PostCommit, PostFails, ThreadTypeOK, Kinds
<1>8. UNCHANGED <<commands, writes>>
  BY DEF PostStep, PostCheck, PostInsert, PostCommit, PostFails
<1> QED BY <1>3, <1>4, <1>5, <1>6, <1>7, <1>8 DEF ThreadTypeOK

LEMMA ServerTypes == ASSUME ThreadTypeOK, Server PROVE ThreadTypeOK'
<1>1. ASSUME NEW w \in writes, StatusWrite(w) PROVE ThreadTypeOK'
  <2>1. w \in Writes
    BY DEF ThreadTypeOK
  <2>2. PICK new \in States : state' = [state EXCEPT ![w.msg] = new]
    <3>1. w.msg \in Msgs /\ state[w.msg] \in States /\ w.to \in {"seen", "open", "resolved", "cancelled"}
      BY <2>1 DEF ThreadTypeOK, Writes
    <3> QED BY <1>1, <3>1 DEF StatusWrite, States
  <2>3. state' \in [Msgs -> States]
    BY <2>2 DEF ThreadTypeOK
  <2>4. budget' \in [Kinds -> Nat]
    BY <1>1, SpendTypes DEF StatusWrite, ThreadTypeOK, Kinds
  <2> QED BY <1>1, <2>3, <2>4 DEF StatusWrite, ThreadTypeOK
<1>2. ASSUME NEW c \in Stops, StopSeen(c) PROVE ThreadTypeOK'
  BY <1>2 DEF StopSeen, ThreadTypeOK, CommandStates
<1>3. ASSUME NEW key \in Keys, DayPasses(key) PROVE ThreadTypeOK'
  <2>1. budget' \in [Kinds -> Nat]
    BY <1>3, SpendTypes DEF DayPasses, ThreadTypeOK, Kinds
  <2>2. stored' \in [Keys -> Nat]
    <3>1. stored[key] - 1 \in Nat
      BY <1>3 DEF DayPasses, ThreadTypeOK
    <3> QED BY <1>3, <3>1 DEF DayPasses, ThreadTypeOK
  <2> QED BY <1>3, <2>1, <2>2 DEF DayPasses, ThreadTypeOK
<1> QED BY <1>1, <1>2, <1>3, PostStepTypes DEF Server

-----------------------------------------------------------------------------
(***************************************************************************)
(* The batches on their way in a state file: dispatched and not known to   *)
(* be admitted, or admitted and not settled.                               *)
(***************************************************************************)
OnFile(f) ==
    {b \in f.dispatches : \A r \in f.records : SubmissionId(r.batch) # SubmissionId(b)}
        \cup {r.batch : r \in {q \in f.records : ~q.settled}}

Files == [dispatches : SUBSET Batches, records : SUBSET Records]

(***************************************************************************)
(* At most one batch is on its way, on file and in the slot, and while the *)
(* process runs it is the slot's.                                          *)
(***************************************************************************)
Held == IF slot.pc = "idle" THEN {} ELSE {slot.batch}
HeldMsgs == IF slot.pc = "idle" THEN {} ELSE ToSet(slot.batch.msgs)

OneBatch == (\A b, c \in OnFile(file) : b = c) /\ (up => OnFile(file) \subseteq Held)

\* Nothing but what is on disk outlives the process.
Stopped == ~up => slot = NoTurn /\ queue = <<>> /\ kill = NoKill /\ accepted = {}

(***************************************************************************)
(* An accepted prompt is queued, in the slot's batch, dropped by a kill    *)
(* that is not done, or nowhere, but never in two of these places.         *)
(***************************************************************************)
Apart ==
    /\ ToSet(queue) \cap HeldMsgs = {}
    /\ kill.dropped \cap ToSet(queue) = {} /\ kill.dropped \cap HeldMsgs = {}
    /\ ToSet(queue) \subseteq accepted /\ HeldMsgs \subseteq accepted /\ kill.dropped \subseteq accepted

\* Only a first attempt is tried once more.
OnceMore == slot.how = "again" => slot.batch.attempt = 0

BatchInv == BridgeTypeOK /\ OneBatch /\ Stopped /\ Apart /\ OnceMore

LEMMA OnFileIs == NeverAdmitted \cup {r.batch : r \in Unsettled} = OnFile(file)
BY DEF OnFile, NeverAdmitted, Unsettled

\* A batch that leaves the file takes its record along.
LEMMA WithoutTypes ==
    ASSUME file \in Files, NEW b \in Batches, OnFile(file) \subseteq {b}
    PROVE  Without(b) \in Files /\ OnFile(Without(b)) = {}
<1> DEFINE id(c) == SubmissionId(c)
           rest == Without(b)
<1>1. file.dispatches \subseteq Batches /\ file.records \subseteq Records
  BY DEF Files
<1>2. /\ rest.dispatches = {d \in file.dispatches : id(d) # id(b)}
      /\ rest.records = {r \in file.records : id(r.batch) # id(b)}
      /\ rest \in Files
  BY <1>1 DEF Without, RecordsOf, Files
<1> HIDE DEF id, rest
<1>3. ASSUME NEW d \in rest.dispatches, \A r \in rest.records : id(r.batch) # id(d) PROVE FALSE
  <2>1. d \in file.dispatches /\ id(d) # id(b) /\ \A r \in file.records : id(r.batch) # id(d)
    BY <1>2, <1>3
  <2>2. d \in OnFile(file)
    BY <2>1 DEF OnFile, id
  <2> QED BY <2>1, <2>2
<1>4. ASSUME NEW r \in rest.records, ~r.settled PROVE FALSE
  <2>1. r \in file.records /\ id(r.batch) # id(b) /\ r.batch \in OnFile(file)
    BY <1>2, <1>4 DEF OnFile
  <2> QED BY <2>1
<1>5. OnFile(rest) = {}
  BY <1>3, <1>4 DEF OnFile, id
<1> QED BY <1>2, <1>5 DEF rest

\* A batch that is registered is the only one on its way.
LEMMA RegisterTypes ==
    ASSUME NEW b \in Batches, NEW rest \in Files, OnFile(rest) = {}, Register(b, rest),
           writes \subseteq Writes
    PROVE  /\ file' \in Files /\ OnFile(file') \subseteq {b}
           /\ slot' \in Slots /\ slot'.pc = "dispatched" /\ slot'.batch = b /\ slot'.how = "none"
           /\ writes' \subseteq Writes
<1>1. /\ file' \in Files /\ file'.records = rest.records
      /\ file'.dispatches \subseteq rest.dispatches \cup {b}
  BY DEF Register, Files
<1>2. OnFile(file') \subseteq {b}
  BY <1>1 DEF OnFile
<1>3. slot' \in Slots /\ slot'.pc = "dispatched" /\ slot'.batch = b /\ slot'.how = "none"
  BY DEF Register, NoTurn, Slots
<1>4. writes' \subseteq Writes
  BY ReadTypes DEF Register
<1> QED BY <1>1, <1>2, <1>3, <1>4

\* A turn that goes on differs in these fields only.
LEMMA SlotTypes ==
    ASSUME NEW s \in Slots, NEW pc \in {"answered", "running", "settled", "posting", "posted"}
    PROVE  /\ [s EXCEPT !.pc = pc] \in Slots /\ [s EXCEPT !.pc = pc].pc = pc
           /\ [s EXCEPT !.pc = pc].batch = s.batch /\ [s EXCEPT !.pc = pc].how = s.how
BY DEF Slots

LEMMA SettledSlotTypes ==
    ASSUME NEW s \in Slots, NEW how \in {"completed", "failed", "cancelled", "again"}
    PROVE  /\ [s EXCEPT !.pc = "settled", !.how = how] \in Slots
           /\ [s EXCEPT !.pc = "settled", !.how = how].pc = "settled"
           /\ [s EXCEPT !.pc = "settled", !.how = how].batch = s.batch
           /\ [s EXCEPT !.pc = "settled", !.how = how].how = how
BY DEF Slots

LEMMA StoppedSlotTypes ==
    ASSUME NEW s \in Slots
    PROVE  /\ [s EXCEPT !.stop = TRUE] \in Slots /\ [s EXCEPT !.stop = TRUE].pc = s.pc
           /\ [s EXCEPT !.stop = TRUE].batch = s.batch /\ [s EXCEPT !.stop = TRUE].how = s.how
BY DEF Slots

LEMMA NoTurnTypes ==
    /\ NoTurn \in Slots /\ NoTurn.pc = "idle" /\ NoTurn.how = "none"
    /\ NoKill \in [commands : SUBSET Stops, dropped : SUBSET Msgs] /\ NoKill.dropped = {}
<1>1. <<1>> \in Lists \ {<<>>} /\ 0 \in 0 .. MaxAttempts
  BY DirectThreadAssumption DEF Lists, IsInjective, Msgs
<1>2. [msgs |-> <<1>>, attempt |-> 0] \in Batches
  BY <1>1 DEF Batches
<1> QED BY <1>2 DEF NoTurn, Slots, NoKill

-----------------------------------------------------------------------------
\* The batch stays where it is: a step of its turn, or one that is not about it.
LEMMA BatchStays ==
    ASSUME BatchInv, UNCHANGED <<up, accepted, queue, kill>>,
           slot'.batch = slot.batch, slot'.pc = "idle" <=> slot.pc = "idle",
           slot.pc # "idle" \/ slot' = slot,
           slot'.how = "again" => slot'.batch.attempt = 0,
           OnFile(file') \subseteq OnFile(file) \cup Held, up \/ file' = file
    PROVE  OneBatch' /\ Stopped' /\ Apart' /\ OnceMore'
<1>1. Held' = Held /\ HeldMsgs' = HeldMsgs
  BY DEF Held, HeldMsgs
<1>2. OneBatch'
  <2>1. \A b, c \in Held : b = c
    BY DEF Held
  <2> QED BY <1>1, <2>1 DEF BatchInv, OneBatch
<1>3. Stopped'
  BY DEF BatchInv, Stopped, NoTurn
<1>4. Apart' /\ OnceMore'
  BY <1>1 DEF BatchInv, Apart, OnceMore
<1> QED BY <1>2, <1>3, <1>4

\* Nothing of the batch changes.
LEMMA BatchUntouched ==
    ASSUME BatchInv, UNCHANGED <<up, file, accepted, queue, slot, kill>>
    PROVE  OneBatch' /\ Stopped' /\ Apart' /\ OnceMore'
BY BatchStays DEF BatchInv, OnceMore

LEMMA SyncFetchKeeps == ASSUME ThreadTypeOK, BatchInv, SyncFetch PROVE ThreadTypeOK' /\ BatchInv'
<1>1. ThreadTypeOK'
  BY DEF SyncFetch, ThreadTypeOK, threadVars
<1>2. BridgeTypeOK'
  BY DEF SyncFetch, BatchInv, BridgeTypeOK, OpenMsgs
<1> QED BY <1>1, <1>2, BatchUntouched DEF SyncFetch, BatchInv

LEMMA IntakeKeeps == ASSUME ThreadTypeOK, BatchInv, Intake PROVE ThreadTypeOK' /\ BatchInv'
<1>1. ThreadTypeOK'
  BY DEF Intake, ThreadTypeOK, threadVars
<1> DEFINE all == [m \in Msgs |-> m]
<1>2. PICK new \in InOrder(all, Taken) : queue' = queue \o new
  BY DEF Intake
<1>3. queue \in Lists /\ ToSet(queue) \subseteq accepted /\ page \subseteq Msgs
  BY DEF BatchInv, Apart, BridgeTypeOK
<1>4. Taken \subseteq Msgs /\ Taken \cap accepted = {}
  BY <1>3 DEF Taken
<1>5. new \in Lists /\ ToSet(new) = Taken
  <2>1. all \in Lists /\ ToSet(all) = Msgs
    BY MsgsAreList
  <2> HIDE DEF all
  <2>2. new \in Lists /\ ToSet(new) = ToSet(all) \cap Taken
    BY <2>1, InOrderIsList
  <2> QED BY <1>4, <2>1, <2>2
<1>6. queue' \in Lists /\ ToSet(queue') = ToSet(queue) \cup Taken
  BY <1>2, <1>3, <1>4, <1>5, JoinIsList
<1>7. BridgeTypeOK'
  BY <1>4, <1>6 DEF Intake, BatchInv, BridgeTypeOK
<1>8. Held' = Held /\ HeldMsgs' = HeldMsgs
  BY DEF Intake, Held, HeldMsgs
<1>9. OneBatch' /\ Stopped' /\ OnceMore'
  BY <1>8 DEF Intake, BatchInv, OneBatch, Stopped, OnceMore
<1>10. Apart'
  <2>1. accepted' = accepted \cup Taken /\ kill' = kill
    BY DEF Intake
  <2> QED BY <1>4, <1>6, <1>8, <2>1 DEF BatchInv, Apart
<1> QED BY <1>1, <1>7, <1>9, <1>10 DEF BatchInv

\* The queue becomes the batch of the slot.
LEMMA DispatchKeeps == ASSUME ThreadTypeOK, BatchInv, Dispatch PROVE ThreadTypeOK' /\ BatchInv'
<1> DEFINE b == [msgs |-> queue, attempt |-> again]
<1>1. b \in Batches /\ b.msgs = queue
  BY DEF Dispatch, BatchInv, BridgeTypeOK, Batches
<1> HIDE DEF b
<1>2. up /\ slot.pc = "idle" /\ file \in Files /\ Register(b, file)
  BY DEF Dispatch, BatchInv, BridgeTypeOK, Files, b
<1>3. OnFile(file) = {}
  BY <1>2 DEF BatchInv, OneBatch, Held
<1>4. writes \subseteq Writes
  BY DEF ThreadTypeOK
<1>5. /\ file' \in Files /\ OnFile(file') \subseteq {b}
      /\ slot' \in Slots /\ slot'.pc = "dispatched" /\ slot'.batch = b /\ slot'.how = "none"
      /\ writes' \subseteq Writes
  BY <1>1, <1>2, <1>3, <1>4, RegisterTypes
<1>6. ThreadTypeOK'
  BY <1>5 DEF Dispatch, ThreadTypeOK
<1>7. queue' = <<>> /\ again' = 0
  BY DEF Dispatch
<1>8. 0 \in 0 .. MaxAttempts
  BY DirectThreadAssumption
<1>9. BridgeTypeOK'
  BY <1>5, <1>7, <1>8, NothingIsList DEF Dispatch, BatchInv, BridgeTypeOK, Files
<1>10. Held' = {b} /\ HeldMsgs' = ToSet(queue) /\ ToSet(queue') = {}
  BY <1>1, <1>5, <1>7, NothingIsList DEF Held, HeldMsgs
<1>11. OneBatch'
  BY <1>5, <1>10 DEF OneBatch
<1>12. Stopped' /\ OnceMore'
  BY <1>5 DEF Dispatch, Stopped, OnceMore
<1>13. Apart'
  BY <1>10 DEF Dispatch, BatchInv, Apart
<1> QED BY <1>6, <1>9, <1>11, <1>12, <1>13 DEF BatchInv

LEMMA SubmitKeeps == ASSUME ThreadTypeOK, BatchInv, Submit PROVE ThreadTypeOK' /\ BatchInv'
<1>1. ThreadTypeOK'
  BY DEF Submit, ThreadTypeOK, threadVars
<1>2. slot \in Slots /\ slot.batch \in Batches /\ slot.pc = "dispatched"
  BY DEF BatchInv, BridgeTypeOK, Submit, Slots
<1>3. slot' \in Slots /\ slot'.pc = "answered" /\ slot'.batch = slot.batch /\ slot'.how = slot.how
  BY <1>2, SlotTypes DEF Submit, Move
<1>4. [key |-> Key, msgs |-> Batch.msgs, status |-> "running"]
          \in [key : Keys, msgs : Lists, status : Endings \cup {"running"}]
  BY <1>2, BatchNames DEF Key, Batch
<1>5. turns' \subseteq [key : Keys, msgs : Lists, status : Endings \cup {"running"}]
  BY <1>4 DEF Submit, SessionTurns, BatchInv, BridgeTypeOK
<1>6. BridgeTypeOK'
  BY <1>3, <1>5 DEF Submit, BatchInv, BridgeTypeOK
<1>7. OneBatch' /\ Stopped' /\ Apart' /\ OnceMore'
  BY <1>2, <1>3, BatchStays DEF Submit, BatchInv, OnceMore
<1> QED BY <1>1, <1>6, <1>7 DEF BatchInv

LEMMA ConflictKeeps == ASSUME ThreadTypeOK, BatchInv, Conflict PROVE ThreadTypeOK' /\ BatchInv'
<1> DEFINE b == NextAttempt(Batch)
<1>1. Batch \in Batches /\ Batch.attempt < MaxAttempts /\ Batch = slot.batch /\ slot.pc = "dispatched"
  BY DEF BatchInv, BridgeTypeOK, Conflict, Slots, Batch
<1>2. b \in Batches /\ b.msgs = Batch.msgs
  BY <1>1, NextIsBatch
<1>3. up /\ Register(b, Without(Batch)) /\ file \in Files /\ writes \subseteq Writes
  BY DEF Conflict, BatchInv, BridgeTypeOK, Files, ThreadTypeOK
<1> HIDE DEF b
<1>4. OnFile(file) \subseteq {Batch}
  BY <1>1, <1>3 DEF BatchInv, OneBatch, Held
<1>5. Without(Batch) \in Files /\ OnFile(Without(Batch)) = {}
  BY <1>1, <1>3, <1>4, WithoutTypes
<1>6. /\ file' \in Files /\ OnFile(file') \subseteq {b}
      /\ slot' \in Slots /\ slot'.pc = "dispatched" /\ slot'.batch = b /\ slot'.how = "none"
      /\ writes' \subseteq Writes
  BY <1>2, <1>3, <1>5, RegisterTypes
<1>7. budget' \in [Kinds -> Nat]
  BY SpendTypes DEF Conflict, ThreadTypeOK, Kinds
<1>8. ThreadTypeOK'
  BY <1>6, <1>7 DEF Conflict, ThreadTypeOK
<1>9. BridgeTypeOK'
  BY <1>6 DEF Conflict, BatchInv, BridgeTypeOK, Files
<1>10. Held' = {b} /\ HeldMsgs' = HeldMsgs
  BY <1>1, <1>2, <1>6 DEF Held, HeldMsgs
<1>11. OneBatch'
  BY <1>6, <1>10 DEF OneBatch
<1>12. Stopped' /\ OnceMore'
  BY <1>6 DEF Conflict, Stopped, OnceMore
<1>13. Apart'
  BY <1>10 DEF Conflict, BatchInv, Apart
<1> QED BY <1>8, <1>9, <1>11, <1>12, <1>13 DEF BatchInv

LEMMA NotAdmittedKeeps ==
    ASSUME ThreadTypeOK, BatchInv, NEW gaveUp \in BOOLEAN, NotAdmitted(gaveUp)
    PROVE  ThreadTypeOK' /\ BatchInv'
<1>1. slot \in Slots /\ slot.pc = "dispatched"
  BY DEF BatchInv, BridgeTypeOK, NotAdmitted
<1>2. slot' \in Slots /\ slot'.pc = "posted" /\ slot'.batch = slot.batch /\ slot'.how = slot.how
  BY <1>1, SlotTypes DEF NotAdmitted, Move
<1>3. budget' \in [Kinds -> Nat]
  BY SpendTypes DEF NotAdmitted, ThreadTypeOK, Kinds
<1>4. writes' \subseteq Writes
  <2>1. PICK to \in {"open", "cancelled"} : StatusRead(ToSet(Batch.msgs), to)
    BY DEF NotAdmitted
  <2> QED BY <2>1, ReadTypes DEF ThreadTypeOK
<1>5. ThreadTypeOK'
  BY <1>3, <1>4 DEF NotAdmitted, ThreadTypeOK
<1>6. BridgeTypeOK'
  BY <1>2 DEF NotAdmitted, BatchInv, BridgeTypeOK
<1>7. OneBatch' /\ Stopped' /\ Apart' /\ OnceMore'
  BY <1>1, <1>2, BatchStays DEF NotAdmitted, BatchInv, OnceMore
<1> QED BY <1>5, <1>6, <1>7 DEF BatchInv

LEMMA RecordKeeps == ASSUME ThreadTypeOK, BatchInv, Record PROVE ThreadTypeOK' /\ BatchInv'
<1>1. slot \in Slots /\ slot.batch \in Batches /\ slot.pc = "answered" /\ up /\ file \in Files
  BY DEF BatchInv, BridgeTypeOK, Record, Slots, Files
<1>2. slot' \in Slots /\ slot'.pc = "running" /\ slot'.batch = slot.batch /\ slot'.how = slot.how
  BY <1>1, SlotTypes DEF Record, Move
<1>3. ThreadTypeOK'
  BY DEF Record, ThreadTypeOK, threadVars
<1>4. PICK r \in Records : r.batch = slot.batch /\ file' = [file EXCEPT !.records = @ \cup {r}]
  BY <1>1 DEF Record, Records, Batch
<1>5. /\ file' \in Files /\ file'.dispatches = file.dispatches
      /\ file'.records = file.records \cup {r}
  BY <1>1, <1>4 DEF Files
<1>6. OnFile(file') \subseteq OnFile(file) \cup {slot.batch}
  BY <1>4, <1>5 DEF OnFile
<1>7. BridgeTypeOK'
  BY <1>2, <1>5 DEF Record, BatchInv, BridgeTypeOK, Files
<1>8. OneBatch' /\ Stopped' /\ Apart' /\ OnceMore'
  <2>1. OnFile(file') \subseteq OnFile(file) \cup Held
    BY <1>1, <1>6 DEF Held
  <2> QED BY <1>1, <1>2, <2>1, BatchStays DEF Record, BatchInv, OnceMore
<1> QED BY <1>3, <1>7, <1>8 DEF BatchInv

\* A batch that settles does so on all of its records, and is known to have been admitted.
LEMMA SettledTypes ==
    ASSUME file \in Files, NEW b \in Batches,
           file' = [file EXCEPT !.records = (@ \ RecordsOf(b))
                                   \cup {[r EXCEPT !.settled = TRUE] : r \in RecordsOf(b)}]
    PROVE  /\ file' \in Files
           /\ \A c \in OnFile(file') :
                  c \in OnFile(file) /\ (SubmissionId(c) = SubmissionId(b) => RecordsOf(b) = {})
<1> DEFINE id(c) == SubmissionId(c)
           done(r) == [r EXCEPT !.settled = TRUE]
<1>1. \A r \in Records : done(r) \in Records /\ done(r).batch = r.batch /\ done(r).settled = TRUE
  BY DEF Records
<1>2. file.records \subseteq Records /\ RecordsOf(b) = {r \in file.records : id(r.batch) = id(b)}
  BY DEF Files, RecordsOf
<1> HIDE DEF id, done
<1>3. /\ file' \in Files /\ file'.dispatches = file.dispatches
      /\ file'.records = (file.records \ RecordsOf(b)) \cup {done(r) : r \in RecordsOf(b)}
  BY <1>1, <1>2 DEF Files, done
<1>4. \A r \in file.records : \E q \in file'.records : q.batch = r.batch
  BY <1>1, <1>2, <1>3
<1>5. \A q \in file'.records : ~q.settled => q \in file.records /\ q \notin RecordsOf(b)
  BY <1>1, <1>2, <1>3
<1>6. ASSUME NEW c \in file'.dispatches, \A q \in file'.records : id(q.batch) # id(c)
      PROVE  c \in OnFile(file) /\ (id(c) = id(b) => RecordsOf(b) = {})
  <2>1. \A r \in file.records : id(r.batch) # id(c)
    BY <1>4, <1>6
  <2> QED BY <1>2, <1>3, <2>1 DEF OnFile, id
<1>7. ASSUME NEW q \in file'.records, ~q.settled
      PROVE  q.batch \in OnFile(file) /\ id(q.batch) # id(b)
  BY <1>2, <1>5, <1>7 DEF OnFile
<1>8. \A c \in OnFile(file') : c \in OnFile(file) /\ (id(c) = id(b) => RecordsOf(b) = {})
  BY <1>6, <1>7 DEF OnFile, id
<1> QED BY <1>3, <1>8 DEF id

LEMMA SettleKeeps == ASSUME ThreadTypeOK, BatchInv, Settle PROVE ThreadTypeOK' /\ BatchInv'
<1>1. slot \in Slots /\ slot.batch \in Batches /\ slot.pc = "running" /\ up /\ file \in Files
      /\ Batch = slot.batch
  BY DEF BatchInv, BridgeTypeOK, Settle, Slots, Files, Batch
<1>2. PICK t \in turns, ending \in Endings :
          /\ turns' = (turns \ {t}) \cup {[t EXCEPT !.status = ending]}
          /\ \E how \in Outcomes(ending) : slot' = [slot EXCEPT !.pc = "settled", !.how = how]
  BY DEF Settle
<1>3. PICK how \in Outcomes(ending) : slot' = [slot EXCEPT !.pc = "settled", !.how = how]
  BY <1>2
<1>4. how \in {"completed", "failed", "cancelled", "again"} /\ (how = "again" => Batch.attempt = 0)
  BY <1>3 DEF Outcomes
<1>5. slot' \in Slots /\ slot'.pc = "settled" /\ slot'.batch = slot.batch /\ slot'.how = how
  BY <1>1, <1>3, <1>4, SettledSlotTypes
<1>6. turns' \subseteq [key : Keys, msgs : Lists, status : Endings \cup {"running"}]
  BY <1>2 DEF BatchInv, BridgeTypeOK
<1>7. /\ file' \in Files
      /\ \A c \in OnFile(file') :
             c \in OnFile(file) /\ (SubmissionId(c) = SubmissionId(Batch) => RecordsOf(Batch) = {})
  BY <1>1, SettledTypes DEF Settle
<1>8. budget' \in [Kinds -> Nat]
  BY SpendTypes DEF Settle, ThreadTypeOK, Kinds
<1>9. ThreadTypeOK'
  BY <1>8 DEF Settle, ThreadTypeOK
<1>10. BridgeTypeOK'
  BY <1>5, <1>6, <1>7 DEF Settle, BatchInv, BridgeTypeOK, Files
<1>11. OneBatch' /\ Stopped' /\ Apart' /\ OnceMore'
  BY <1>1, <1>4, <1>5, <1>7, BatchStays DEF Settle
<1> QED BY <1>9, <1>10, <1>11 DEF BatchInv

LEMMA RetryKeeps == ASSUME ThreadTypeOK, BatchInv, Retry PROVE ThreadTypeOK' /\ BatchInv'
<1>1. /\ Batch \in Batches /\ Batch = slot.batch /\ slot.pc = "settled" /\ Batch.attempt = 0
      /\ up /\ file \in Files /\ writes \subseteq Writes /\ queue \in Lists
  BY DEF BatchInv, OnceMore, BridgeTypeOK, ThreadTypeOK, Retry, Slots, Files, Batch
<1>2. OnFile(file) \subseteq {Batch}
  BY <1>1 DEF BatchInv, OneBatch, Held
<1>3. Without(Batch) \in Files /\ OnFile(Without(Batch)) = {}
  BY <1>1, <1>2, WithoutTypes
<1>4. HeldMsgs = ToSet(Batch.msgs)
  BY <1>1 DEF HeldMsgs
<1>5. CASE slot.recovered
  <2>1. PICK front \in InOrder(Batch.msgs, Msgs \ ToSet(queue)) : queue' = front \o queue
    BY <1>5 DEF Retry
  <2>2. file' = Without(Batch) /\ slot' = NoTurn /\ again' = 1 /\ UNCHANGED writes
    BY <1>1, <1>5 DEF Retry
  <2>3. Batch.msgs \in Lists
    BY <1>1, BatchNames
  <2>4. front \in Lists /\ ToSet(front) = ToSet(Batch.msgs) \cap (Msgs \ ToSet(queue))
    BY <2>1, <2>3, InOrderIsList
  <2>5. queue' \in Lists /\ ToSet(queue') = ToSet(front) \cup ToSet(queue)
    BY <1>1, <2>1, <2>4, JoinIsList
  <2>6. ThreadTypeOK'
    BY <2>2 DEF Retry, ThreadTypeOK
  <2>7. 1 \in 0 .. MaxAttempts
    BY DirectThreadAssumption
  <2>8. BridgeTypeOK'
    BY <1>3, <2>2, <2>5, <2>7, NoTurnTypes DEF Retry, BatchInv, BridgeTypeOK, Files
  <2>9. Held' = {} /\ HeldMsgs' = {}
    BY <2>2, NoTurnTypes DEF Held, HeldMsgs
  <2>10. OneBatch'
    BY <1>3, <2>2 DEF OneBatch
  <2>11. Stopped' /\ OnceMore'
    BY <1>1, <2>2, NoTurnTypes DEF Retry, Stopped, OnceMore
  <2>12. Apart'
    BY <1>4, <2>4, <2>5, <2>9 DEF Retry, BatchInv, Apart
  <2> QED BY <2>6, <2>8, <2>10, <2>11, <2>12 DEF BatchInv
<1>6. CASE ~slot.recovered
  <2> DEFINE b == NextAttempt(Batch)
  <2>1. b \in Batches /\ b.msgs = Batch.msgs
    BY <1>1, DirectThreadAssumption, NextIsBatch
  <2>2. Register(b, Without(Batch)) /\ UNCHANGED <<queue, again>>
    BY <1>6 DEF Retry
  <2> HIDE DEF b
  <2>3. /\ file' \in Files /\ OnFile(file') \subseteq {b}
        /\ slot' \in Slots /\ slot'.pc = "dispatched" /\ slot'.batch = b /\ slot'.how = "none"
        /\ writes' \subseteq Writes
    BY <1>1, <1>3, <2>1, <2>2, RegisterTypes
  <2>4. ThreadTypeOK'
    BY <2>3 DEF Retry, ThreadTypeOK
  <2>5. BridgeTypeOK'
    BY <2>2, <2>3 DEF Retry, BatchInv, BridgeTypeOK, Files
  <2>6. Held' = {b} /\ HeldMsgs' = HeldMsgs
    BY <1>4, <2>1, <2>3 DEF Held, HeldMsgs
  <2>7. OneBatch'
    BY <2>3, <2>6 DEF OneBatch
  <2>8. Stopped' /\ OnceMore'
    BY <2>3, <1>1 DEF Retry, Stopped, OnceMore
  <2>9. Apart'
    BY <2>2, <2>6 DEF Retry, BatchInv, Apart
  <2> QED BY <2>4, <2>5, <2>7, <2>8, <2>9 DEF BatchInv
<1> QED BY <1>5, <1>6

-----------------------------------------------------------------------------
\* A reply on its way is one that was parked.
LEMMA SentTypes ==
    ASSUME posts \in [Posters -> Posts], NEW p \in Posters,
           NEW entry \in [key : Keys, also : SUBSET Msgs], Sent(p, entry)
    PROVE  posts' \in [Posters -> Posts]
<1>1. [pc |-> "sent", key |-> entry.key, also |-> entry.also] \in Posts
  BY DEF Posts
<1> QED BY <1>1 DEF Sent

LEMMA DeliverKeeps == ASSUME ThreadTypeOK, BatchInv, Deliver PROVE ThreadTypeOK' /\ BatchInv'
<1> DEFINE entry == [key |-> Key, also |-> ToSet(Batch.msgs) \ {Key[1]}]
<1>1. slot \in Slots /\ slot.batch \in Batches /\ slot.pc = "settled" /\ up
  BY DEF BatchInv, BridgeTypeOK, Deliver, Slots
<1>2. entry \in [key : Keys, also : SUBSET Msgs]
  BY <1>1, BatchNames DEF Key, Batch
<1>3. PICK pc \in {"posting", "posted"} : slot' = [slot EXCEPT !.pc = pc]
  BY DEF Deliver, Move
<1>4. slot' \in Slots /\ slot'.pc = pc /\ slot'.batch = slot.batch /\ slot'.how = slot.how
  <2>1. pc \in {"answered", "running", "settled", "posting", "posted"}
    OBVIOUS
  <2> QED BY <1>1, <1>3, <2>1, SlotTypes
<1>5. posts' \in [Posters -> Posts]
  BY <1>2, SentTypes DEF Deliver, ThreadTypeOK, Posters
<1>6. writes' \subseteq Writes
  BY ReadTypes DEF Deliver, ThreadTypeOK
<1>7. ThreadTypeOK'
  BY <1>5, <1>6 DEF Deliver, ThreadTypeOK
<1>8. outbox' \subseteq [key : Keys, also : SUBSET Msgs]
  BY <1>2 DEF Deliver, Kept, BatchInv, BridgeTypeOK
<1>9. BridgeTypeOK'
  BY <1>4, <1>8 DEF Deliver, BatchInv, BridgeTypeOK
<1>10. OneBatch' /\ Stopped' /\ Apart' /\ OnceMore'
  BY <1>1, <1>4, BatchStays DEF Deliver, BatchInv, OnceMore
<1> QED BY <1>7, <1>9, <1>10 DEF BatchInv

LEMMA FlushKeeps ==
    ASSUME ThreadTypeOK, BatchInv, NEW entry \in outbox, Flush(entry)
    PROVE  ThreadTypeOK' /\ BatchInv'
<1>1. entry \in [key : Keys, also : SUBSET Msgs]
  BY DEF BatchInv, BridgeTypeOK
<1>2. posts' \in [Posters -> Posts]
  BY <1>1, SentTypes DEF Flush, ThreadTypeOK, Posters
<1>3. ThreadTypeOK'
  BY <1>2 DEF Flush, ThreadTypeOK
<1>4. BridgeTypeOK'
  BY DEF Flush, BatchInv, BridgeTypeOK
<1>5. OneBatch' /\ Stopped' /\ Apart' /\ OnceMore'
  BY BatchUntouched DEF Flush
<1> QED BY <1>3, <1>4, <1>5 DEF BatchInv

\* The answer to a post, or none, ends the wait of the slot or of the flush.
LEMMA WaitEnds ==
    ASSUME BatchInv, NEW p \in Posters, Waits(p), StopsWaiting(p),
           UNCHANGED <<up, file, accepted, queue, kill>>
    PROVE  /\ slot' \in Slots /\ flushing' \in BOOLEAN
           /\ OneBatch' /\ Stopped' /\ Apart' /\ OnceMore'
<1>1. slot \in Slots /\ flushing \in BOOLEAN /\ up
  BY DEF BatchInv, BridgeTypeOK, Waits
<1>2. CASE p = "desk"
  <2>1. slot.pc = "posting" /\ slot' = [slot EXCEPT !.pc = "posted"] /\ flushing' = flushing
    BY <1>2 DEF Waits, StopsWaiting, Move
  <2>2. slot' \in Slots /\ slot'.pc = "posted" /\ slot'.batch = slot.batch /\ slot'.how = slot.how
    BY <1>1, <2>1, SlotTypes
  <2>3. OneBatch' /\ Stopped' /\ Apart' /\ OnceMore'
    BY <1>1, <2>1, <2>2, BatchStays DEF BatchInv, OnceMore
  <2> QED BY <1>1, <2>1, <2>2, <2>3
<1>3. CASE p # "desk"
  <2>1. slot' = slot /\ flushing' = FALSE
    BY <1>3 DEF StopsWaiting
  <2> QED BY <1>1, <2>1, BatchUntouched
<1> QED BY <1>2, <1>3

LEMMA PostAnsweredKeeps ==
    ASSUME ThreadTypeOK, BatchInv, NEW p \in Posters, PostAnswered(p)
    PROVE  ThreadTypeOK' /\ BatchInv'
<1>1. posts' \in [Posters -> Posts]
  BY PostTypes DEF PostAnswered, ThreadTypeOK
<1>2. writes' \subseteq Writes
  BY ReadTypes DEF PostAnswered, Delivered, ThreadTypeOK
<1>3. ThreadTypeOK'
  BY <1>1, <1>2 DEF PostAnswered, ThreadTypeOK
<1>4. /\ slot' \in Slots /\ flushing' \in BOOLEAN
      /\ OneBatch' /\ Stopped' /\ Apart' /\ OnceMore'
  BY WaitEnds DEF PostAnswered
<1>5. outbox' \subseteq [key : Keys, also : SUBSET Msgs]
  BY DEF PostAnswered, Delivered, Kept, BatchInv, BridgeTypeOK
<1>6. BridgeTypeOK'
  BY <1>4, <1>5 DEF PostAnswered, BatchInv, BridgeTypeOK
<1> QED BY <1>3, <1>4, <1>6 DEF BatchInv

LEMMA PostNotAnsweredKeeps ==
    ASSUME ThreadTypeOK, BatchInv, NEW p \in Posters, NEW repost \in BOOLEAN, PostNotAnswered(p, repost)
    PROVE  ThreadTypeOK' /\ BatchInv'
<1>1. budget' \in [Kinds -> Nat]
  BY SpendTypes DEF PostNotAnswered, ThreadTypeOK, Kinds
<1>2. posts' \in [Posters -> Posts]
  <2>1. posts \in [Posters -> Posts] /\ posts[p] \in Posts
    BY DEF ThreadTypeOK
  <2>2. CASE posts' = [posts EXCEPT ![p].pc = "sent"]
    <3>1. [posts[p] EXCEPT !.pc = "sent"] \in Posts
      BY <2>1, PostTypes
    <3> QED BY <2>1, <2>2, <3>1
  <2>3. CASE posts' = [posts EXCEPT ![p] = NoPost]
    BY <2>1, <2>3, PostTypes
  <2> QED BY <2>2, <2>3 DEF PostNotAnswered
<1>3. ThreadTypeOK'
  BY <1>1, <1>2 DEF PostNotAnswered, ThreadTypeOK
<1>4. /\ slot' \in Slots /\ flushing' \in BOOLEAN
      /\ OneBatch' /\ Stopped' /\ Apart' /\ OnceMore'
  <2>1. CASE UNCHANGED <<slot, flushing>>
    BY <2>1, BatchUntouched DEF PostNotAnswered, BatchInv, BridgeTypeOK
  <2>2. CASE StopsWaiting(p)
    BY <2>2, WaitEnds DEF PostNotAnswered
  <2> QED BY <2>1, <2>2 DEF PostNotAnswered
<1>5. BridgeTypeOK'
  BY <1>4 DEF PostNotAnswered, BatchInv, BridgeTypeOK
<1> QED BY <1>3, <1>4, <1>5 DEF BatchInv

LEMMA AnswerDroppedKeeps ==
    ASSUME ThreadTypeOK, BatchInv, NEW p \in Posters, AnswerDropped(p)
    PROVE  ThreadTypeOK' /\ BatchInv'
<1>1. posts' \in [Posters -> Posts]
  BY PostTypes DEF AnswerDropped, ThreadTypeOK
<1>2. ThreadTypeOK'
  BY <1>1 DEF AnswerDropped, ThreadTypeOK
<1>3. BridgeTypeOK'
  BY DEF AnswerDropped, bridgeVars, BatchInv, BridgeTypeOK
<1> QED BY <1>2, <1>3, BatchUntouched DEF AnswerDropped, bridgeVars, BatchInv

LEMMA StatusLostKeeps ==
    ASSUME ThreadTypeOK, BatchInv, NEW w \in writes, StatusLost(w)
    PROVE  ThreadTypeOK' /\ BatchInv'
<1>1. budget' \in [Kinds -> Nat]
  BY SpendTypes DEF StatusLost, ThreadTypeOK, Kinds
<1>2. ThreadTypeOK'
  BY <1>1 DEF StatusLost, ThreadTypeOK
<1>3. BridgeTypeOK'
  BY DEF StatusLost, bridgeVars, BatchInv, BridgeTypeOK
<1> QED BY <1>2, <1>3, BatchUntouched DEF StatusLost, bridgeVars, BatchInv

\* The batch leaves the file, the slot and the accepted prompts.
LEMMA CloseKeeps == ASSUME ThreadTypeOK, BatchInv, Close PROVE ThreadTypeOK' /\ BatchInv'
<1>1. /\ Batch \in Batches /\ Batch = slot.batch /\ slot.pc = "posted" /\ up /\ file \in Files
      /\ accepted' = accepted \ ToSet(Batch.msgs) /\ file' = Without(Batch) /\ slot' = NoTurn
  BY DEF BatchInv, BridgeTypeOK, Close, Slots, Files, Batch
<1>2. OnFile(file) \subseteq {Batch} /\ HeldMsgs = ToSet(Batch.msgs)
  BY <1>1 DEF BatchInv, OneBatch, Held, HeldMsgs
<1>3. file' \in Files /\ OnFile(file') = {}
  BY <1>1, <1>2, WithoutTypes
<1>4. budget' \in [Kinds -> Nat]
  BY SpendTypes DEF Close, ThreadTypeOK, Kinds
<1>5. ThreadTypeOK'
  BY <1>4 DEF Close, ThreadTypeOK
<1>6. BridgeTypeOK'
  BY <1>1, <1>3, NoTurnTypes DEF Close, BatchInv, BridgeTypeOK, Files
<1>7. HeldMsgs' = {}
  BY <1>1, NoTurnTypes DEF HeldMsgs
<1>8. OneBatch'
  BY <1>3 DEF OneBatch
<1>9. Stopped' /\ OnceMore'
  BY <1>1, NoTurnTypes DEF Close, Stopped, OnceMore
<1>10. Apart'
  BY <1>1, <1>2, <1>7 DEF Close, BatchInv, Apart
<1> QED BY <1>5, <1>6, <1>8, <1>9, <1>10 DEF BatchInv

LEMMA PollStopKeeps ==
    ASSUME ThreadTypeOK, BatchInv, NEW m \in Msgs, PollStop(m)
    PROVE  ThreadTypeOK' /\ BatchInv'
<1>1. ThreadTypeOK'
  BY DEF PollStop, ThreadTypeOK, threadVars
<1>2. slot \in Slots /\ queue \in Lists /\ up /\ 0 \in 0 .. MaxAttempts /\ again \in 0 .. MaxAttempts
  BY DirectThreadAssumption DEF BatchInv, BridgeTypeOK, PollStop
<1>3. CASE m \in ToSet(queue)
  <2>1. /\ queue' \in InOrder(queue, Msgs \ {m}) /\ accepted' = accepted \ {m}
        /\ again' \in {0, again} /\ slot' = slot
    BY <1>3 DEF PollStop
  <2>2. queue' \in Lists /\ ToSet(queue') = ToSet(queue) \cap (Msgs \ {m})
    BY <1>2, <2>1, InOrderIsList
  <2>3. BridgeTypeOK'
    BY <1>2, <2>1, <2>2 DEF PollStop, BatchInv, BridgeTypeOK
  <2>4. Held' = Held /\ HeldMsgs' = HeldMsgs
    BY <2>1 DEF Held, HeldMsgs
  <2>5. OneBatch' /\ Stopped' /\ OnceMore'
    BY <1>2, <2>1, <2>4 DEF PollStop, BatchInv, OneBatch, Stopped, OnceMore
  <2>6. Apart'
    BY <1>3, <2>1, <2>2, <2>4 DEF PollStop, BatchInv, Apart
  <2> QED BY <1>1, <2>3, <2>5, <2>6 DEF BatchInv
<1>4. CASE m \notin ToSet(queue)
  <2>1. /\ slot' = [slot EXCEPT !.stop = TRUE] /\ slot.pc # "idle"
        /\ UNCHANGED <<up, file, queue, again, accepted, kill>>
    BY <1>4 DEF PollStop, Tracked
  <2>2. slot' \in Slots /\ slot'.pc = slot.pc /\ slot'.batch = slot.batch /\ slot'.how = slot.how
    BY <1>2, <2>1, StoppedSlotTypes
  <2>3. BridgeTypeOK'
    BY <2>1, <2>2 DEF PollStop, BatchInv, BridgeTypeOK
  <2>4. OneBatch' /\ Stopped' /\ Apart' /\ OnceMore'
    BY <1>2, <2>1, <2>2, BatchStays DEF BatchInv, OnceMore
  <2> QED BY <1>1, <2>3, <2>4 DEF BatchInv
<1> QED BY <1>3, <1>4

\* What a kill drops leaves the queue and stays accepted until the kill is done.
LEMMA KillApplyKeeps == ASSUME ThreadTypeOK, BatchInv, KillApply PROVE ThreadTypeOK' /\ BatchInv'
<1>1. ThreadTypeOK'
  BY DEF KillApply, ThreadTypeOK, threadVars
<1>2. slot \in Slots /\ queue \in Lists /\ up /\ 0 \in 0 .. MaxAttempts
  BY DirectThreadAssumption DEF BatchInv, BridgeTypeOK, KillApply
<1>3. slot' \in Slots /\ slot'.pc = slot.pc /\ slot'.batch = slot.batch /\ slot'.how = slot.how
  BY <1>2, StoppedSlotTypes DEF KillApply
<1>4. ToSet(queue) \subseteq Msgs
  BY <1>2 DEF Lists, ToSet
<1>5. /\ queue' = <<>> /\ again' = 0 /\ UNCHANGED <<up, file, accepted>>
      /\ kill'.dropped = ToSet(queue) /\ kill' \in [commands : SUBSET Stops, dropped : SUBSET Msgs]
  BY <1>4 DEF KillApply
<1>6. BridgeTypeOK'
  BY <1>2, <1>3, <1>5, NothingIsList DEF KillApply, BatchInv, BridgeTypeOK
<1>7. Held' = Held /\ HeldMsgs' = HeldMsgs /\ ToSet(queue') = {}
  BY <1>3, <1>5, NothingIsList DEF Held, HeldMsgs
<1>8. OneBatch' /\ Stopped' /\ OnceMore'
  BY <1>2, <1>3, <1>5, <1>7 DEF BatchInv, OneBatch, Stopped, OnceMore
<1>9. Apart'
  BY <1>5, <1>7 DEF BatchInv, Apart
<1> QED BY <1>1, <1>6, <1>8, <1>9 DEF BatchInv

LEMMA AckKeeps ==
    ASSUME ThreadTypeOK, BatchInv, NEW c \in Stops, NEW lost \in BOOLEAN, Ack(c, lost)
    PROVE  ThreadTypeOK' /\ BatchInv'
<1>1. budget' \in [Kinds -> Nat]
  BY SpendTypes DEF Ack, ThreadTypeOK, Kinds
<1>2. commands' \in [Stops -> CommandStates]
  BY DEF Ack, ThreadTypeOK, CommandStates
<1>3. ThreadTypeOK'
  BY <1>1, <1>2 DEF Ack, ThreadTypeOK
<1>4. /\ kill' \in [commands : SUBSET Stops, dropped : SUBSET Msgs] /\ kill'.dropped = kill.dropped
      /\ up
  BY DEF Ack, BatchInv, BridgeTypeOK
<1>5. BridgeTypeOK'
  BY <1>4 DEF Ack, BatchInv, BridgeTypeOK
<1>6. Held' = Held /\ HeldMsgs' = HeldMsgs
  BY DEF Ack, Held, HeldMsgs
<1>7. OneBatch' /\ Stopped' /\ OnceMore'
  BY <1>4, <1>6 DEF Ack, BatchInv, OneBatch, Stopped, OnceMore
<1>8. Apart'
  BY <1>4, <1>6 DEF Ack, BatchInv, Apart
<1> QED BY <1>3, <1>5, <1>7, <1>8 DEF BatchInv

LEMMA KillDoneKeeps == ASSUME ThreadTypeOK, BatchInv, KillDone PROVE ThreadTypeOK' /\ BatchInv'
<1>1. ThreadTypeOK'
  BY DEF KillDone, ThreadTypeOK, threadVars
<1>2. accepted' = accepted \ kill.dropped /\ kill' = NoKill /\ up
  BY DEF KillDone, StillHeld
<1>3. BridgeTypeOK'
  BY <1>2, NoTurnTypes DEF KillDone, BatchInv, BridgeTypeOK
<1>4. Held' = Held /\ HeldMsgs' = HeldMsgs
  BY DEF KillDone, Held, HeldMsgs
<1>5. OneBatch' /\ Stopped' /\ OnceMore'
  BY <1>2, <1>4 DEF KillDone, BatchInv, OneBatch, Stopped, OnceMore
<1>6. Apart'
  BY <1>2, <1>4, NoTurnTypes DEF KillDone, BatchInv, Apart
<1> QED BY <1>1, <1>3, <1>5, <1>6 DEF BatchInv

-----------------------------------------------------------------------------
LEMMA CrashKeeps == ASSUME ThreadTypeOK, BatchInv, Crash PROVE ThreadTypeOK' /\ BatchInv'
<1>1. budget' \in [Kinds -> Nat]
  BY SpendTypes DEF Crash, ThreadTypeOK, Kinds
<1>2. ThreadTypeOK'
  BY <1>1 DEF Crash, ThreadTypeOK
<1>3. /\ up' = FALSE /\ accepted' = {} /\ queue' = <<>> /\ again' = 0 /\ slot' = NoTurn
      /\ page' = {} /\ kill' = NoKill /\ flushing' = FALSE /\ 0 \in 0 .. MaxAttempts
  BY DirectThreadAssumption DEF Crash
<1>4. BridgeTypeOK'
  BY <1>3, NoTurnTypes, NothingIsList DEF Crash, BatchInv, BridgeTypeOK
<1>5. HeldMsgs' = {} /\ ToSet(queue') = {}
  BY <1>3, NoTurnTypes, NothingIsList DEF HeldMsgs
<1>6. OneBatch' /\ Stopped' /\ OnceMore' /\ Apart'
  BY <1>3, <1>5, NoTurnTypes DEF Crash, BatchInv, OneBatch, Stopped, OnceMore, Apart
<1> QED BY <1>2, <1>4, <1>6 DEF BatchInv

\* A restart takes up the one batch on file, if there is one: it is queued or in the slot.
LEMMA RestartKeeps == ASSUME ThreadTypeOK, BatchInv, Restart PROVE ThreadTypeOK' /\ BatchInv'
<1>1. ThreadTypeOK'
  BY DEF Restart, ThreadTypeOK, threadVars
<1>2. /\ file \in Files /\ ~up /\ up' = TRUE
      /\ slot = NoTurn /\ kill = NoKill /\ kill' = kill /\ kill.dropped = {}
      /\ 0 \in 0 .. MaxAttempts
  BY NoTurnTypes, DirectThreadAssumption DEF Restart, BatchInv, BridgeTypeOK, Stopped, Files
<1>3. \A b, c \in OnFile(file) : b = c
  BY DEF BatchInv, OneBatch
<1>4. /\ NeverAdmitted \subseteq file.dispatches /\ NeverAdmitted \subseteq Batches
      /\ Unsettled \subseteq file.records /\ Unsettled \subseteq Records
      /\ \A b \in NeverAdmitted : b \in OnFile(file) /\ \A r \in Unsettled : r.batch # b
      /\ \A r \in Unsettled : r.batch \in OnFile(file) /\ r.batch \in Batches
  BY <1>2, OnFileIs DEF NeverAdmitted, Unsettled, Files, Records
<1>5. /\ file' \in Files /\ file'.dispatches = file.dispatches \ NeverAdmitted
      /\ file'.records = file.records
  BY <1>2 DEF Restart, Files
<1>6. \A c \in OnFile(file') : \E r \in Unsettled : c = r.batch
  BY <1>5 DEF OnFile, NeverAdmitted, Unsettled
<1>7. CASE NeverAdmitted # {}
  <2>1. PICK b \in NeverAdmitted : b = CHOOSE c \in NeverAdmitted : TRUE
    BY <1>7
  <2>2. Unsettled = {}
    BY <1>3, <1>4, <2>1
  <2>3. queue' = b.msgs /\ again' = b.attempt /\ slot' = NoTurn /\ accepted' = ToSet(b.msgs) \cup {}
    BY <1>7, <2>1, <2>2 DEF Restart
  <2>4. b.msgs \in Lists /\ b.attempt \in 0 .. MaxAttempts /\ ToSet(b.msgs) \subseteq Msgs
    BY <1>4, <2>1, BatchNames
  <2>5. BridgeTypeOK'
    BY <1>2, <1>5, <2>3, <2>4, NoTurnTypes DEF Restart, BatchInv, BridgeTypeOK, Files
  <2>6. HeldMsgs' = {} /\ OnFile(file') = {}
    BY <1>6, <2>2, <2>3, NoTurnTypes DEF HeldMsgs
  <2>7. OneBatch' /\ Stopped' /\ OnceMore'
    BY <1>2, <2>3, <2>6, NoTurnTypes DEF OneBatch, Stopped, OnceMore
  <2>8. Apart'
    BY <1>2, <2>3, <2>6 DEF Apart
  <2> QED BY <1>1, <2>5, <2>7, <2>8 DEF BatchInv
<1>8. CASE NeverAdmitted = {}
  <2>1. /\ queue' = <<>> /\ again' = 0
        /\ accepted' = ToSet(<<>>) \cup UNION {ToSet(r.batch.msgs) : r \in Unsettled}
    BY <1>8 DEF Restart
  <2>2. CASE Unsettled = {}
    <3>1. slot' = NoTurn /\ accepted' = {}
      BY <2>1, <2>2, NothingIsList DEF Restart
    <3>2. BridgeTypeOK'
      BY <1>2, <1>5, <2>1, <3>1, NoTurnTypes, NothingIsList DEF Restart, BatchInv, BridgeTypeOK, Files
    <3>3. HeldMsgs' = {} /\ OnFile(file') = {} /\ ToSet(queue') = {}
      BY <1>6, <2>1, <2>2, <3>1, NoTurnTypes, NothingIsList DEF HeldMsgs
    <3>4. OneBatch' /\ Stopped' /\ OnceMore'
      BY <1>2, <3>1, <3>3, NoTurnTypes DEF OneBatch, Stopped, OnceMore
    <3>5. Apart'
      BY <1>2, <3>3 DEF Apart
    <3> QED BY <1>1, <3>2, <3>4, <3>5 DEF BatchInv
  <2>3. CASE Unsettled # {}
    <3>1. PICK r \in Unsettled : r = CHOOSE q \in Unsettled : TRUE
      BY <2>3
    <3>2. \A q \in Unsettled : q.batch = r.batch
      BY <1>3, <1>4
    <3>3. r.batch \in Batches /\ ToSet(r.batch.msgs) \subseteq Msgs
      BY <1>4, BatchNames
    <3>4. accepted' = ToSet(r.batch.msgs)
      BY <2>1, <3>2, NothingIsList
    <3>5. slot' = [NoTurn EXCEPT !.pc = "running", !.recovered = TRUE, !.batch = r.batch]
      BY <2>3, <3>1 DEF Restart
    <3>6. slot' \in Slots /\ slot'.pc = "running" /\ slot'.batch = r.batch /\ slot'.how = "none"
      BY <3>3, <3>5 DEF NoTurn, Slots
    <3>7. BridgeTypeOK'
      BY <1>2, <1>5, <2>1, <3>3, <3>4, <3>6, NothingIsList DEF Restart, BatchInv, BridgeTypeOK, Files
    <3>8. Held' = {r.batch} /\ HeldMsgs' = ToSet(r.batch.msgs) /\ ToSet(queue') = {}
      BY <2>1, <3>6, NothingIsList DEF Held, HeldMsgs
    <3>9. OneBatch'
      BY <1>6, <3>2, <3>8 DEF OneBatch
    <3>10. Stopped' /\ OnceMore'
      BY <1>2, <3>6 DEF Stopped, OnceMore
    <3>11. Apart'
      BY <1>2, <3>4, <3>8 DEF Apart
    <3> QED BY <1>1, <3>7, <3>9, <3>10, <3>11 DEF BatchInv
  <2> QED BY <2>2, <2>3
<1> QED BY <1>7, <1>8

-----------------------------------------------------------------------------
LEMMA BatchInit == Init => ThreadTypeOK /\ BatchInv
<1> SUFFICES ASSUME Init PROVE ThreadTypeOK /\ BatchInv
  OBVIOUS
<1>1. ThreadTypeOK
  <2>1. budget \in [Kinds -> Nat]
    BY DirectThreadAssumption DEF Init, ThreadInit
  <2> QED BY <2>1, PostTypes DEF Init, ThreadInit, ThreadTypeOK, States, CommandStates
<1>2. 0 \in 0 .. MaxAttempts
  BY DirectThreadAssumption
<1>3. file \in Files /\ OnFile(file) = {}
  BY DEF Init, BridgeInit, Files, OnFile
<1>4. BridgeTypeOK
  BY <1>2, <1>3, NoTurnTypes, NothingIsList DEF Init, BridgeInit, BridgeTypeOK, Files
<1>5. HeldMsgs = {} /\ ToSet(queue) = {}
  BY NoTurnTypes, NothingIsList DEF Init, BridgeInit, HeldMsgs
<1>6. OneBatch /\ Stopped /\ Apart /\ OnceMore
  BY <1>3, <1>5, NoTurnTypes DEF Init, BridgeInit, OneBatch, Stopped, Apart, OnceMore
<1> QED BY <1>1, <1>4, <1>6 DEF BatchInv

LEMMA BatchStep ==
    ASSUME ThreadTypeOK, BatchInv, [Next]_vars
    PROVE  ThreadTypeOK' /\ BatchInv'
<1>1. ASSUME UNCHANGED bridgeVars PROVE BatchInv'
  BY <1>1, BatchUntouched DEF bridgeVars, BatchInv, BridgeTypeOK
<1>2. CASE (Person \/ Server) /\ UNCHANGED bridgeVars
  BY <1>1, <1>2, PersonTypes, ServerTypes
<1>3. CASE Bridge
  BY <1>3, SyncFetchKeeps, IntakeKeeps, DispatchKeeps, SubmitKeeps, ConflictKeeps, RecordKeeps,
     SettleKeeps, RetryKeeps, NotAdmittedKeeps, DeliverKeeps, CloseKeeps, FlushKeeps,
     PostAnsweredKeeps, AnswerDroppedKeeps, PostNotAnsweredKeeps, StatusLostKeeps, PollStopKeeps,
     KillApplyKeeps, KillDoneKeeps, AckKeeps, CrashKeeps, RestartKeeps DEF Bridge
<1>4. CASE UNCHANGED vars
  BY <1>1, <1>4 DEF vars, threadVars, ThreadTypeOK
<1> QED BY <1>2, <1>3, <1>4 DEF Next

(***************************************************************************)
(* The thread, the bridge and the gateway stay well typed: no prompt is    *)
(* twice in the queue or in a batch, whatever is put back, polled out,     *)
(* killed or recovered, and no attempt exceeds the highest.                *)
(***************************************************************************)
THEOREM BridgeTypeCorrect == Spec => []TypeOK
<1> DEFINE Inv == ThreadTypeOK /\ BatchInv
<1>1. Init => Inv
  BY BatchInit
<1>2. Inv /\ [Next]_vars => Inv'
  BY BatchStep
<1>3. Inv => TypeOK
  BY DEF TypeOK, BatchInv
<1> QED BY <1>1, <1>2, <1>3, PTL DEF Spec

-----------------------------------------------------------------------------
(***************************************************************************)
(* A reply that passed its check is not to a prompt that was stopped: only *)
(* a stop stops one, and it waits for the row the request holds.           *)
(***************************************************************************)
NotStopped == \A p \in Posters : posts[p].pc = "checked" => state[posts[p].key[1]] # "stopped"

\* Nothing but a stop stops a prompt.
LEMMA OnlyStopStops ==
    ASSUME ThreadTypeOK, [Next]_vars,
           NEW m \in Msgs, state'[m] = "stopped", state[m] # "stopped"
    PROVE  \E c \in Stops, prompts \in SUBSET Msgs : Stop(c, prompts)
<1>1. state' # state /\ state \in [Msgs -> States]
  BY DEF ThreadTypeOK
<1>2. ASSUME NEW k \in Msgs, Send(k) \/ Cancel(k) \/ Resend(k) PROVE FALSE
  BY <1>1, <1>2 DEF Send, Cancel, Resend
<1>3. ASSUME NEW w \in writes, StatusWrite(w) PROVE FALSE
  <2>1. w.to # "stopped"
    BY DEF ThreadTypeOK, Writes
  <2> QED BY <1>1, <1>3, <2>1 DEF StatusWrite
<1>4. ASSUME NEW p \in Posters, state' = Coalesced(p) PROVE FALSE
  BY <1>4 DEF Coalesced
<1>5. ASSUME NEW p \in Posters, PostStep(p) \/ PostFails(p) PROVE FALSE
  BY <1>1, <1>4, <1>5 DEF PostStep, PostCheck, PostInsert, PostCommit, PostFails
<1>6. ~Bridge
  BY <1>1 DEF Bridge, threadVars, SyncFetch, Intake, Dispatch, Submit, Conflict, Record, Settle, Retry,
         NotAdmitted, Deliver, Close, Flush, PostAnswered, AnswerDropped, PostNotAnswered, StatusLost,
         PollStop, KillApply, KillDone, Ack, Crash, Restart
<1>7. ~Server
  BY <1>1, <1>3, <1>5 DEF Server, StopSeen, DayPasses
<1> QED BY <1>1, <1>2, <1>6, <1>7 DEF Next, Person, MarkRead, vars, threadVars

LEMMA NotStoppedStep ==
    ASSUME ThreadTypeOK, ReplyInv, NotStopped, [Next]_vars
    PROVE  NotStopped'
<1> SUFFICES ASSUME NEW p \in Posters, posts'[p].pc = "checked", state'[posts'[p].key[1]] = "stopped"
             PROVE  FALSE
  BY DEF NotStopped
<1>1. posts \in [Posters -> Posts] /\ \A q \in Posters : posts[q].key[1] \in Msgs
  BY DEF ThreadTypeOK, Posts, Keys
<1>2. (posts[p].pc = "checked" /\ posts'[p].key = posts[p].key) \/ PostCheck(p)
  <2>1. ASSUME NEW q \in Posters, NEW post, post.pc # "checked", posts' = [posts EXCEPT ![q] = post]
        PROVE  posts[p].pc = "checked" /\ posts'[p].key = posts[p].key
    BY <1>1, <2>1
  <2>2. ASSUME NEW q \in Posters, NEW pc, pc # "checked", posts' = [posts EXCEPT ![q].pc = pc]
        PROVE  posts[p].pc = "checked" /\ posts'[p].key = posts[p].key
    <3>1. posts[q] \in Posts /\ posts' = [posts EXCEPT ![q] = [posts[q] EXCEPT !.pc = pc]]
      BY <1>1, <2>2
    <3>2. [posts[q] EXCEPT !.pc = pc].pc = pc
      BY <3>1 DEF Posts
    <3> QED BY <2>1, <2>2, <3>1, <3>2
  <2>3. NoPost.pc = "idle" /\ "desk" \in Posters /\ "flush" \in Posters
    BY DEF NoPost, Posters
  <2>4. ASSUME NEW q \in Posters, NEW entry, Sent(q, entry)
        PROVE  posts[p].pc = "checked" /\ posts'[p].key = posts[p].key
    BY <2>1, <2>4 DEF Sent
  <2>5. CASE UNCHANGED posts
    BY <2>5
  <2>6. ASSUME NEW q \in Posters, PostInsert(q) \/ PostCommit(q) \/ PostFails(q)
        PROVE  posts[p].pc = "checked" /\ posts'[p].key = posts[p].key
    BY <2>2, <2>6 DEF PostInsert, PostCommit, PostFails
  <2>7. ASSUME NEW q \in Posters, PostCheck(q)
        PROVE  (posts[p].pc = "checked" /\ posts'[p].key = posts[p].key) \/ PostCheck(p)
    <3>1. PICK pc : posts' = [posts EXCEPT ![q].pc = pc]
      BY <2>7 DEF PostCheck
    <3> QED BY <1>1, <2>7, <3>1
  <2>8. CASE Person \/ Server
    BY <2>5, <2>6, <2>7, <2>8 DEF Person, Send, Cancel, Resend, Stop, MarkRead, Server, StatusWrite,
       StopSeen, DayPasses, PostStep
  <2>9. CASE Deliver \/ \E entry \in outbox : Flush(entry)
    BY <2>3, <2>4, <2>5, <2>9 DEF Deliver, Flush
  <2>10. ASSUME NEW q \in Posters,
                PostAnswered(q) \/ AnswerDropped(q) \/ \E repost \in BOOLEAN : PostNotAnswered(q, repost)
         PROVE  posts[p].pc = "checked" /\ posts'[p].key = posts[p].key
    BY <2>1, <2>2, <2>3, <2>10 DEF PostAnswered, AnswerDropped, PostNotAnswered
  <2>11. CASE SyncFetch \/ Intake \/ Submit \/ Record \/ KillApply \/ KillDone \/ Restart
              \/ \E m \in Msgs : PollStop(m)
    BY <2>5, <2>11 DEF SyncFetch, Intake, Submit, Record, KillApply, KillDone, Restart, PollStop, threadVars
  <2>12. CASE \/ Dispatch \/ Conflict \/ Settle \/ Retry \/ Close \/ Crash
              \/ \E gaveUp \in BOOLEAN : NotAdmitted(gaveUp)
              \/ \E w \in writes : StatusLost(w)
              \/ \E c \in Stops, lost \in BOOLEAN : Ack(c, lost)
    BY <2>5, <2>12 DEF Dispatch, Conflict, Settle, Retry, Close, Crash, NotAdmitted, StatusLost, Ack
  <2>13. CASE UNCHANGED vars
    BY <2>5, <2>13 DEF vars, threadVars
  <2> QED BY <2>8, <2>9, <2>10, <2>11, <2>12, <2>13 DEF Next, Bridge
<1>3. CASE PostCheck(p)
  <2>1. CASE Refused(posts[p].key) \/ Replayed(posts[p].key)
    <3>1. posts' = [posts EXCEPT ![p].pc = "done"]
      BY <1>3, <2>1 DEF PostCheck
    <3>2. posts'[p].pc = "done"
      BY <1>1, <3>1 DEF Posts
    <3> QED BY <3>2
  <2>2. CASE ~(Refused(posts[p].key) \/ Replayed(posts[p].key))
    <3>1. posts' = [posts EXCEPT ![p].pc = "checked"] /\ state' = state
      BY <1>3, <2>2 DEF PostCheck
    <3>2. posts'[p].key = posts[p].key
      BY <1>1, <3>1 DEF Posts
    <3> QED BY <2>2, <3>1, <3>2 DEF Refused, Cancelled
  <2> QED BY <2>1, <2>2
<1>4. CASE posts[p].pc = "checked" /\ posts'[p].key = posts[p].key
  <2>1. state[posts[p].key[1]] # "stopped" /\ lock # {}
    BY <1>4 DEF NotStopped, ReplyInv, HoldsRow, Inside
  <2>2. \E c \in Stops, prompts \in SUBSET Msgs : Stop(c, prompts)
    BY <1>1, <1>4, <2>1, OnlyStopStops
  <2> QED BY <2>1, <2>2 DEF Stop, RowFree
<1> QED BY <1>2, <1>3, <1>4

(***************************************************************************)
(* No reply is stored while a stop that was asked for waits, nor to a      *)
(* prompt it cancelled: whoever asks takes the row a reply in progress     *)
(* holds.                                                                  *)
(***************************************************************************)
THEOREM NoLateReplies == Spec => NoLateReply
<1> DEFINE Inv == ThreadTypeOK /\ BatchInv /\ ReplyInv /\ NotStopped
           Late == \A key \in Keys :
                     stored'[key] > stored[key] => ~StopQueued /\ state[key[1]] # "stopped"
<1>1. Init => Inv
  <2>1. Init => NotStopped
    BY DEF Init, ThreadInit, NotStopped, NoPost
  <2> QED BY <2>1, BatchInit, ReplyInit
<1>2. Inv /\ [Next]_vars => Inv'
  BY BatchStep, ReplyStep, NotStoppedStep
<1>3. Inv /\ [Next]_vars => [Late]_vars
  <2> SUFFICES ASSUME Inv, [Next]_vars, NEW key \in Keys, stored'[key] > stored[key]
               PROVE  ~StopQueued /\ state[key[1]] # "stopped"
    OBVIOUS
  <2>1. stored[key] \in Nat /\ stored' # stored
    <3>1. stored \in [Keys -> Nat]
      BY DEF ThreadTypeOK
    <3> QED BY <3>1
  <2>2. ASSUME NEW k \in Keys, DayPasses(k) PROVE FALSE
    <3>1. stored \in [Keys -> Nat] /\ stored' = [stored EXCEPT ![k] = stored[k] - 1]
      BY <2>2 DEF DayPasses, ThreadTypeOK
    <3>2. stored'[key] = stored[key] \/ stored'[key] = stored[key] - 1
      BY <3>1
    <3> QED BY <2>1, <3>2
  <2>3. PICK p \in Posters : PostInsert(p)
    BY <2>1, <2>2
       DEF vars, threadVars, Next, Person, Send, Cancel, Resend, Stop, MarkRead, Server, StopSeen,
           StatusWrite, PostStep, PostCheck, PostCommit, PostFails, Bridge, SyncFetch, Intake,
           Dispatch, Submit, Conflict, Record, Settle, Retry, NotAdmitted, Deliver, Close, Flush,
           PostAnswered, AnswerDropped, PostNotAnswered, StatusLost, PollStop, KillApply, KillDone,
           Ack, Crash, Restart
  <2>4. key = posts[p].key
    <3>1. stored' = [stored EXCEPT ![posts[p].key] = stored[posts[p].key] + 1]
      BY <2>3 DEF PostInsert
    <3>2. stored \in [Keys -> Nat]
      BY DEF ThreadTypeOK
    <3>3. key # posts[p].key => stored'[key] = stored[key]
      BY <3>1, <3>2
    <3> QED BY <2>1, <3>3
  <2> QED BY <2>3, <2>4 DEF PostInsert, ReplyInv, HoldsRow, Inside, NotStopped
<1> QED BY <1>1, <1>2, <1>3, PTL DEF Spec, NoLateReply

-----------------------------------------------------------------------------
\* The batch in the slot may still be submitted.
Going == \/ slot.pc \in {"dispatched", "answered", "running"}
         \/ slot.pc = "settled" /\ slot.how = "again"

\* None of these prompts has a parked reply of its own.
Unparked(msgs) == \A e \in outbox : e.key[1] \notin msgs

(***************************************************************************)
(* What is queued, may be submitted or would be taken up after a restart   *)
(* has no parked reply: only the batch in the slot gets one, once it       *)
(* settled for good, and then it is not on file as one on its way.         *)
(***************************************************************************)
NotParked ==
    /\ Unparked(ToSet(queue))
    /\ Going => Unparked(ToSet(slot.batch.msgs))
    /\ \A b \in OnFile(file) : Unparked(ToSet(b.msgs))

OnRecord == slot.pc = "running" => RecordsOf(slot.batch) # {}

Over == slot.pc \in {"settled", "posting"} => OnFile(file) = {}

ParkInv == OnRecord /\ Over /\ NotParked

\* No reply is parked and nothing comes on its way.
LEMMA ParkStays ==
    ASSUME ParkInv, outbox' \subseteq outbox, ToSet(queue') \subseteq ToSet(queue),
           UNCHANGED file, slot'.batch = slot.batch, slot'.how = slot.how,
           \/ slot'.pc = slot.pc \/ slot'.pc \in {"idle", "posted"}
           \/ (slot.pc = "dispatched" /\ slot'.pc = "answered")
    PROVE  ParkInv'
<1>1. Going' => Going
  BY DEF Going
<1>2. OnRecord' /\ Over'
  BY DEF ParkInv, OnRecord, Over, RecordsOf
<1>3. NotParked'
  BY <1>1 DEF ParkInv, NotParked, Unparked
<1> QED BY <1>2, <1>3 DEF ParkInv

\* The slot starts on a batch, which becomes the only one on its way.
LEMMA ParkRegister ==
    ASSUME ParkInv, outbox' = outbox, ToSet(queue') \subseteq ToSet(queue), NEW b,
           Unparked(ToSet(b.msgs)), slot'.pc = "dispatched", slot'.batch = b, OnFile(file') \subseteq {b}
    PROVE  ParkInv'
<1>1. OnRecord' /\ Over'
  BY DEF OnRecord, Over
<1>2. NotParked'
  BY DEF ParkInv, NotParked, Unparked
<1> QED BY <1>1, <1>2 DEF ParkInv

\* The slot is free, and what is queued has no parked reply.
LEMMA ParkIdle ==
    ASSUME ParkInv, outbox' = outbox, Unparked(ToSet(queue')), slot'.pc = "idle",
           OnFile(file') \subseteq OnFile(file)
    PROVE  ParkInv'
BY DEF ParkInv, OnRecord, Over, NotParked, Unparked, Going

\* Prompts whose reply is parked are passed over.
LEMMA IntakeParks == ASSUME BatchInv, ParkInv, Intake PROVE ParkInv'
<1> DEFINE all == [m \in Msgs |-> m]
<1>1. PICK new \in InOrder(all, Taken) : queue' = queue \o new
  BY DEF Intake
<1>2. queue \in Lists /\ ToSet(queue) \subseteq accepted /\ all \in Lists
  BY MsgsAreList DEF BatchInv, Apart, BridgeTypeOK
<1> HIDE DEF all
<1>3. new \in Lists /\ ToSet(new) \subseteq Taken
  BY <1>2, InOrderIsList
<1>4. ToSet(queue) \cap ToSet(new) = {}
  BY <1>2, <1>3 DEF Taken
<1>5. ToSet(queue') = ToSet(queue) \cup ToSet(new)
  BY <1>1, <1>2, <1>3, <1>4, JoinIsList
<1>6. Unparked(ToSet(new))
  BY <1>3 DEF Taken, Parked, Unparked
<1>7. Unparked(ToSet(queue'))
  BY <1>5, <1>6 DEF ParkInv, NotParked, Unparked
<1> QED BY <1>7 DEF Intake, ParkInv, OnRecord, Over, NotParked, Unparked, Going, RecordsOf

LEMMA RetryParks == ASSUME ThreadTypeOK, BatchInv, ParkInv, Retry PROVE ParkInv'
<1>1. /\ Batch \in Batches /\ Batch = slot.batch /\ slot.pc = "settled" /\ slot.how = "again"
      /\ Batch.attempt = 0 /\ up /\ file \in Files /\ queue \in Lists
      /\ writes \subseteq Writes
  BY DEF ThreadTypeOK, BatchInv, OnceMore, BridgeTypeOK, Retry, Slots, Files, Batch
<1>2. OnFile(file) \subseteq {Batch}
  BY <1>1 DEF BatchInv, OneBatch, Held
<1>3. Without(Batch) \in Files /\ OnFile(Without(Batch)) = {}
  BY <1>1, <1>2, WithoutTypes
<1>4. Unparked(ToSet(Batch.msgs)) /\ Unparked(ToSet(queue))
  BY <1>1 DEF ParkInv, NotParked, Going
<1>5. CASE slot.recovered
  <2>1. PICK front \in InOrder(Batch.msgs, Msgs \ ToSet(queue)) : queue' = front \o queue
    BY <1>5 DEF Retry
  <2>2. Batch.msgs \in Lists
    BY <1>1, BatchNames
  <2>3. front \in Lists /\ ToSet(front) = ToSet(Batch.msgs) \cap (Msgs \ ToSet(queue))
    BY <2>1, <2>2, InOrderIsList
  <2>4. ToSet(queue') = ToSet(front) \cup ToSet(queue)
    BY <1>1, <2>1, <2>3, JoinIsList
  <2>5. Unparked(ToSet(queue'))
    BY <1>4, <2>3, <2>4 DEF Unparked
  <2>6. slot'.pc = "idle" /\ outbox' = outbox /\ OnFile(file') = {}
    BY <1>3, <1>5, NoTurnTypes DEF Retry
  <2> QED BY <2>5, <2>6, ParkIdle
<1>6. CASE ~slot.recovered
  <2> DEFINE b == NextAttempt(Batch)
  <2>1. b \in Batches /\ b.msgs = Batch.msgs
    BY <1>1, DirectThreadAssumption, NextIsBatch
  <2>2. Register(b, Without(Batch)) /\ queue' = queue /\ outbox' = outbox
    BY <1>6 DEF Retry
  <2> HIDE DEF b
  <2>3. OnFile(file') \subseteq {b} /\ slot'.pc = "dispatched" /\ slot'.batch = b
    BY <1>1, <1>3, <2>1, <2>2, RegisterTypes
  <2> QED BY <1>4, <2>1, <2>2, <2>3, ParkRegister
<1> QED BY <1>5, <1>6

\* The reply that is parked is one of the batch in the slot, which no list on its way contains.
LEMMA DeliverParks == ASSUME BatchInv, ParkInv, Deliver PROVE ParkInv'
<1>1. /\ slot \in Slots /\ Batch \in Batches /\ Batch = slot.batch /\ slot.pc = "settled"
      /\ slot.how # "again" /\ UNCHANGED <<file, queue>>
  BY DEF BatchInv, BridgeTypeOK, Deliver, Slots, Batch
<1>2. Key[1] \notin ToSet(queue)
  <2>1. Key[1] \in HeldMsgs
    BY <1>1, BatchNames DEF Key, HeldMsgs
  <2> QED BY <2>1 DEF BatchInv, Apart
<1>3. OnFile(file) = {}
  BY <1>1 DEF ParkInv, Over
<1>4. \A e \in outbox' : e \in outbox \/ e.key[1] = Key[1]
  BY DEF Deliver, Kept
<1>5. PICK pc \in {"posting", "posted"} : slot' = [slot EXCEPT !.pc = pc]
  BY DEF Deliver, Move
<1>6. slot'.pc = pc
  BY <1>1, <1>5 DEF Slots
<1>7. Unparked(ToSet(queue))'
  BY <1>1, <1>2, <1>4 DEF ParkInv, NotParked, Unparked
<1> QED BY <1>1, <1>3, <1>6, <1>7 DEF ParkInv, OnRecord, Over, NotParked, Going

LEMMA RecordParks == ASSUME BatchInv, ParkInv, Record PROVE ParkInv'
<1>1. slot \in Slots /\ slot.batch \in Batches /\ slot.pc = "answered" /\ file \in Files
  BY DEF BatchInv, BridgeTypeOK, Record, Slots, Files
<1>2. slot' \in Slots /\ slot'.pc = "running" /\ slot'.batch = slot.batch
  BY <1>1, SlotTypes DEF Record, Move
<1>3. PICK r \in Records : r.batch = slot.batch /\ file' = [file EXCEPT !.records = @ \cup {r}]
  BY <1>1 DEF Record, Records, Batch
<1>4. file'.dispatches = file.dispatches /\ file'.records = file.records \cup {r}
  BY <1>1, <1>3 DEF Files
<1>5. \A c \in OnFile(file') : c \in OnFile(file) \/ c = slot.batch
  BY <1>3, <1>4 DEF OnFile
<1>6. OnRecord' /\ Over'
  BY <1>2, <1>3, <1>4 DEF OnRecord, RecordsOf, Over
<1>7. Unparked(ToSet(slot.batch.msgs))
  BY <1>1 DEF ParkInv, NotParked, Going
<1>8. outbox' = outbox /\ queue' = queue
  BY DEF Record
<1>9. NotParked'
  BY <1>2, <1>5, <1>7, <1>8 DEF ParkInv, NotParked, Unparked
<1> QED BY <1>6, <1>9 DEF ParkInv

\* Once it settled no batch is on its way.
LEMMA SettleParks == ASSUME BatchInv, ParkInv, Settle PROVE ParkInv'
<1>1. /\ slot \in Slots /\ slot.batch \in Batches /\ Batch = slot.batch /\ slot.pc = "running" /\ up
      /\ file \in Files
  BY DEF BatchInv, BridgeTypeOK, Settle, Slots, Files, Batch
<1>2. \A c \in OnFile(file') :
          c \in OnFile(file) /\ (SubmissionId(c) = SubmissionId(Batch) => RecordsOf(Batch) = {})
  BY <1>1, SettledTypes DEF Settle
<1>3. OnFile(file) \subseteq {Batch} /\ RecordsOf(Batch) # {}
  BY <1>1 DEF BatchInv, OneBatch, Held, ParkInv, OnRecord
<1>4. OnFile(file') = {}
  BY <1>2, <1>3
<1>5. PICK how : slot' = [slot EXCEPT !.pc = "settled", !.how = how]
  BY DEF Settle
<1>6. slot'.pc = "settled" /\ slot'.batch = slot.batch
  BY <1>1, <1>5 DEF Slots
<1>7. outbox' = outbox /\ queue' = queue
  BY DEF Settle
<1>8. Unparked(ToSet(slot.batch.msgs))
  BY <1>1 DEF ParkInv, NotParked, Going
<1> QED BY <1>4, <1>6, <1>7, <1>8 DEF ParkInv, OnRecord, Over, NotParked, Unparked

LEMMA RestartParks == ASSUME BatchInv, ParkInv, Restart PROVE ParkInv'
<1>1. file \in Files /\ outbox' = outbox
  BY DEF Restart, BatchInv, BridgeTypeOK, Files
<1>2. \A b \in NeverAdmitted \cup {r.batch : r \in Unsettled} : Unparked(ToSet(b.msgs))
  BY OnFileIs DEF ParkInv, NotParked
<1>3. file'.dispatches = file.dispatches \ NeverAdmitted /\ file'.records = file.records
  BY <1>1 DEF Restart, Files
<1>4. \A c \in OnFile(file') : c \in OnFile(file)
  BY <1>3 DEF OnFile
<1>5. Unparked(ToSet(queue'))
  <2>1. CASE NeverAdmitted = {}
    BY <2>1, NothingIsList DEF Restart, Unparked
  <2>2. CASE NeverAdmitted # {}
    <3>1. PICK b \in NeverAdmitted : queue' = b.msgs
      BY <2>2 DEF Restart
    <3> QED BY <1>2, <3>1
  <2> QED BY <2>1, <2>2
<1>6. CASE Unsettled = {}
  <2>1. slot'.pc = "idle"
    BY <1>6, NoTurnTypes DEF Restart
  <2> QED BY <1>1, <1>4, <1>5, <2>1, ParkIdle
<1>7. CASE Unsettled # {}
  <2>1. PICK r \in Unsettled :
            slot' = [NoTurn EXCEPT !.pc = "running", !.recovered = TRUE, !.batch = r.batch]
    BY <1>7 DEF Restart
  <2>2. slot'.pc = "running" /\ slot'.batch = r.batch
    BY <2>1 DEF NoTurn
  <2>3. OnRecord' /\ Over'
    BY <1>3, <2>2 DEF OnRecord, Over, RecordsOf, Unsettled
  <2>4. NotParked'
    BY <1>1, <1>2, <1>4, <1>5, <2>2 DEF ParkInv, NotParked, Unparked
  <2> QED BY <2>3, <2>4 DEF ParkInv
<1> QED BY <1>6, <1>7

LEMMA ParkStep == ASSUME ThreadTypeOK, BatchInv, ParkInv, [Next]_vars PROVE ParkInv'
<1>1. slot \in Slots /\ file \in Files /\ queue \in Lists /\ writes \subseteq Writes
  BY DEF BatchInv, BridgeTypeOK, ThreadTypeOK, Files
<1>2. ASSUME UNCHANGED <<file, queue, slot, outbox>> PROVE ParkInv'
  BY <1>2, ParkStays
<1>3. CASE (Person \/ Server) /\ UNCHANGED bridgeVars
  BY <1>2, <1>3 DEF bridgeVars
<1>4. CASE \/ SyncFetch \/ KillDone
           \/ \E entry \in outbox : Flush(entry)
           \/ \E p \in Posters : AnswerDropped(p)
           \/ \E w \in writes : StatusLost(w)
           \/ \E c \in Stops, lost \in BOOLEAN : Ack(c, lost)
  BY <1>2, <1>4 DEF SyncFetch, KillDone, Flush, AnswerDropped, StatusLost, Ack, bridgeVars
<1>5. CASE Dispatch
  <2> DEFINE b == [msgs |-> queue, attempt |-> again]
  <2>1. b \in Batches /\ b.msgs = queue /\ Register(b, file) /\ slot.pc = "idle" /\ up
    BY <1>5 DEF Dispatch, BatchInv, BridgeTypeOK, Batches
  <2> HIDE DEF b
  <2>2. OnFile(file) = {}
    BY <2>1 DEF BatchInv, OneBatch, Held
  <2>3. OnFile(file') \subseteq {b} /\ slot'.pc = "dispatched" /\ slot'.batch = b
    BY <1>1, <2>1, <2>2, RegisterTypes
  <2>4. outbox' = outbox /\ ToSet(queue') = {}
    BY <1>5, NothingIsList DEF Dispatch
  <2>5. Unparked(ToSet(b.msgs))
    BY <2>1 DEF ParkInv, NotParked
  <2> QED BY <2>3, <2>4, <2>5, ParkRegister
<1>6. CASE Conflict
  <2> DEFINE b == NextAttempt(Batch)
  <2>1. /\ Batch \in Batches /\ Batch.attempt < MaxAttempts /\ Batch = slot.batch
        /\ slot.pc = "dispatched" /\ up /\ Register(b, Without(Batch)) /\ UNCHANGED <<outbox, queue>>
    BY <1>1, <1>6 DEF Conflict, Slots, Batch
  <2>2. b \in Batches /\ b.msgs = Batch.msgs
    BY <2>1, NextIsBatch
  <2> HIDE DEF b
  <2>3. OnFile(file) \subseteq {Batch}
    BY <2>1 DEF BatchInv, OneBatch, Held
  <2>4. Without(Batch) \in Files /\ OnFile(Without(Batch)) = {}
    BY <1>1, <2>1, <2>3, WithoutTypes
  <2>5. OnFile(file') \subseteq {b} /\ slot'.pc = "dispatched" /\ slot'.batch = b
    BY <1>1, <2>1, <2>2, <2>4, RegisterTypes
  <2>6. Unparked(ToSet(b.msgs))
    BY <2>1, <2>2 DEF ParkInv, NotParked, Going
  <2> QED BY <2>1, <2>5, <2>6, ParkRegister
<1>7. ASSUME NEW pc \in {"answered", "posted"}, slot' = [slot EXCEPT !.pc = pc],
             pc = "answered" => slot.pc = "dispatched",
             UNCHANGED <<file, queue>>, outbox' \subseteq outbox
      PROVE  ParkInv'
  <2>1. slot'.pc = pc /\ slot'.batch = slot.batch /\ slot'.how = slot.how
    BY <1>1, <1>7 DEF Slots
  <2> QED BY <1>7, <2>1, ParkStays
<1>8. CASE Submit \/ \E gaveUp \in BOOLEAN : NotAdmitted(gaveUp)
  BY <1>7, <1>8 DEF Submit, NotAdmitted, Move
<1>9. ASSUME NEW p \in Posters, PostAnswered(p) \/ \E repost \in BOOLEAN : PostNotAnswered(p, repost)
      PROVE  ParkInv'
  <2>1. outbox' \subseteq outbox /\ UNCHANGED <<file, queue>>
    BY <1>9 DEF PostAnswered, PostNotAnswered, Delivered, Kept
  <2>2. slot' = slot \/ slot' = [slot EXCEPT !.pc = "posted"]
    BY <1>9 DEF PostAnswered, PostNotAnswered, StopsWaiting, Move
  <2>3. CASE slot' = slot
    BY <2>1, <2>3, ParkStays
  <2> QED BY <1>7, <2>1, <2>2, <2>3
<1>10. ASSUME NEW m \in Msgs, PollStop(m) PROVE ParkInv'
  <2>1. UNCHANGED <<file, outbox>>
    BY <1>10 DEF PollStop
  <2>2. CASE queue' \in InOrder(queue, Msgs \ {m}) /\ slot' = slot
    <3>1. ToSet(queue') \subseteq ToSet(queue)
      BY <1>1, <2>2, InOrderIsList
    <3> QED BY <2>1, <2>2, <3>1, ParkStays
  <2>3. CASE queue' = queue /\ slot' = [slot EXCEPT !.stop = TRUE]
    BY <1>1, <2>1, <2>3, StoppedSlotTypes, ParkStays
  <2> QED BY <1>10, <2>2, <2>3 DEF PollStop
<1>11. CASE KillApply
  <2>1. slot'.pc = slot.pc /\ slot'.batch = slot.batch /\ slot'.how = slot.how
    BY <1>1, <1>11, StoppedSlotTypes DEF KillApply
  <2> QED BY <1>11, <2>1, ParkStays, NothingIsList DEF KillApply
<1>12. CASE Close
  <2>1. /\ Batch \in Batches /\ Batch = slot.batch /\ slot.pc = "posted" /\ up
        /\ file' = Without(Batch) /\ slot' = NoTurn /\ UNCHANGED <<queue, outbox>>
    BY <1>1, <1>12 DEF Close, Slots, Batch
  <2>2. OnFile(file) \subseteq {Batch}
    BY <2>1 DEF BatchInv, OneBatch, Held
  <2>3. OnFile(file') = {}
    BY <1>1, <2>1, <2>2, WithoutTypes
  <2>4. Unparked(ToSet(queue'))
    BY <2>1 DEF ParkInv, NotParked
  <2> QED BY <2>1, <2>3, <2>4, NoTurnTypes, ParkIdle
<1>13. CASE Crash
  <2>1. ToSet(queue') = {} /\ slot'.pc = "idle" /\ UNCHANGED <<file, outbox>>
    BY <1>13, NothingIsList, NoTurnTypes DEF Crash
  <2> QED BY <2>1, ParkIdle DEF Unparked
<1>14. CASE UNCHANGED vars
  BY <1>2, <1>14 DEF vars, bridgeVars
<1>15. CASE Bridge
  BY <1>4, <1>5, <1>6, <1>8, <1>9, <1>10, <1>11, <1>12, <1>13, <1>15, IntakeParks, RecordParks,
     SettleParks, RetryParks, DeliverParks, RestartParks DEF Bridge
<1> QED BY <1>3, <1>14, <1>15 DEF Next

(***************************************************************************)
(* A turn begins with the submission of the slot's batch, whose last       *)
(* prompt names it and has no parked reply, whatever was lost or restarted *)
(* since the prompt was taken.                                             *)
(***************************************************************************)
THEOREM ParkedPromptsNotRerun == Spec => ParkedNotRerun
<1> DEFINE Inv == ThreadTypeOK /\ BatchInv /\ ReplyInv /\ ParkInv
<1>1. Init => Inv
  <2> SUFFICES ASSUME Init PROVE ParkInv
    BY BatchInit, ReplyInit
  <2>1. slot.pc = "idle" /\ OnFile(file) = {} /\ ToSet(queue) = {}
    BY NoTurnTypes, NothingIsList DEF Init, BridgeInit, OnFile
  <2> QED BY <2>1 DEF ParkInv, OnRecord, Over, NotParked, Unparked, Going
<1>2. Inv /\ [Next]_vars => Inv'
  BY BatchStep, ReplyStep, ParkStep
<1>3. Inv /\ [Next]_vars => [\A t \in turns' : Begins(t) => ~Parked(t.key[1])]_vars
  <2> SUFFICES ASSUME Inv, [Next]_vars, NEW t \in turns', Begins(t) PROVE ~Parked(t.key[1])
    OBVIOUS
  <2>1. t \notin turns /\ \A u \in turns : u.key # t.key
    BY DEF Begins
  <2>2. CASE Submit
    <3>1. slot.batch \in Batches /\ slot.pc = "dispatched"
      BY <2>2 DEF Submit, BatchInv, BridgeTypeOK, Slots
    <3>2. t.key = SubmissionId(slot.batch)
      BY <2>1, <2>2 DEF Submit, SessionTurns, Key, Batch
    <3>3. t.key[1] \in ToSet(slot.batch.msgs)
      BY <3>1, <3>2, BatchNames
    <3> QED BY <3>1, <3>3 DEF ParkInv, NotParked, Going, Unparked, Parked
  <2>3. CASE Settle
    <3>1. PICK u \in turns, ending \in Endings : turns' = (turns \ {u}) \cup {[u EXCEPT !.status = ending]}
      BY <2>3 DEF Settle
    <3>2. u \in [key : Keys, msgs : Lists, status : Endings \cup {"running"}]
      BY DEF BatchInv, BridgeTypeOK
    <3> QED BY <2>1, <3>1, <3>2
  <2>4. CASE ~Submit /\ ~Settle
    <3>1. turns' = turns
      BY <2>4 DEF Next, bridgeVars, vars, threadVars, Bridge, SyncFetch, Intake, Dispatch, Conflict, Record,
             Retry, NotAdmitted, Deliver, Close, Flush, PostAnswered, AnswerDropped,
             PostNotAnswered, StatusLost, PollStop, KillApply, KillDone, Ack, Crash, Restart
    <3> QED BY <2>1, <3>1
  <2> QED BY <2>2, <2>3, <2>4
<1> QED BY <1>1, <1>2, <1>3, PTL DEF Spec, ParkedNotRerun
=============================================================================
