------------------------ MODULE LogWriterOrderProofs ------------------------
(***************************************************************************)
(* LogWriter as its readers see it: commits follow the order of the append *)
(* channel, and the table is an EventLog.                                  *)
(***************************************************************************)
EXTENDS LogWriterProofs

-----------------------------------------------------------------------------
(***************************************************************************)
(* The order of commits.  The batch is ahead of the channel, both are in   *)
(* the order in which calls were accepted, and no call accepted after one  *)
(* that is still queued has been committed.                                *)
(***************************************************************************)
InOrder(queue) ==
    \A i, j \in DOMAIN accepted : i < j =>
        \A p, q \in DOMAIN queue :
            queue[p] = accepted[i] /\ queue[q] = accepted[j] => p < q

BatchFirst ==
    \A i, j \in DOMAIN accepted : i < j =>
        ~(accepted[i] \in Range(channel) /\ accepted[j] \in Range(batch))

NoneOvertaken ==
    \A i, j \in DOMAIN accepted : i < j /\ accepted[i] \in Queued =>
        reply[accepted[j]].tag # "Committed"

AcceptedMade == \A i \in DOMAIN accepted : accepted[i] \in Appends /\ reply[accepted[i]] # Idle

OrderLayer ==
    /\ InOrder(channel) /\ InOrder(batch) /\ BatchFirst
    /\ NoneOvertaken /\ AcceptedMade /\ CommitOrder

\* Only a flush that commits answers Committed.
NoFreshCommit ==
    \A a \in Appends : reply'[a].tag = "Committed" => reply'[a] = reply[a]

LEMMA OnlyCommitsCommit ==
    ASSUME TypeOK, [Next]_vars, ~InsertCommits
    PROVE  NoFreshCommit
  <1>1. ASSUME NEW f, SendAcks(f), \A a \in DOMAIN f : f[a].tag # "Committed"
        PROVE  NoFreshCommit
    BY <1>1 DEF SendAcks, NoFreshCommit
  <1>2. ASSUME NEW calls, SendAcks(AllUnavailable(calls)) PROVE NoFreshCommit
    <2>1. \A a \in DOMAIN AllUnavailable(calls) : AllUnavailable(calls)[a].tag # "Committed"
      BY DEF AllUnavailable, Answer
    <2>2. QED
      BY <1>1, <1>2, <2>1
  <1>3. ASSUME UNCHANGED reply PROVE NoFreshCommit
    BY <1>3 DEF NoFreshCommit
  <1>4. ASSUME NEW a \in Appends, NEW x, reply' = [reply EXCEPT ![a] = x], x.tag # "Committed"
        PROVE  NoFreshCommit
    BY <1>4 DEF NoFreshCommit, TypeOK
  <1>0. \A t, n : Answer(t, n).tag = t
    BY DEF Answer
  <1>5. ASSUME NEW a \in Appends, NEW r \in Requests, AppendTurnedAway(a, r)
        PROVE  NoFreshCommit
    <2>1. Admission(r) # "Committed"
      BY <1>5 DEF AppendTurnedAway, Admission
    <2>2. \E t, n : t # "Committed" /\ reply' = [reply EXCEPT ![a] = Answer(t, n)]
      BY <1>5, <2>1 DEF AppendTurnedAway
    <2>3. QED
      BY <1>0, <1>4, <2>2
  <1>6. ASSUME NEW a \in Appends, NEW r \in Requests, AppendSend(a, r)
        PROVE  NoFreshCommit
    <2>1. \E t, n : t # "Committed" /\ reply' = [reply EXCEPT ![a] = Answer(t, n)]
      BY <1>6 DEF AppendSend, Pending
    <2>2. QED
      BY <1>0, <1>4, <2>1
  <1>7. ASSUME NEW a \in Appends, Abandon(a) PROVE NoFreshCommit
    BY <1>0, <1>4, <1>7 DEF Abandon, Abandoned
  <1>8. CASE StartFlush \/ InsertTransient \/ InsertFatal \/ WriterDropped
    BY <1>2, <1>3, <1>8 DEF StartFlush, InsertTransient, InsertFatal, WriterDropped
  <1>9. CASE ResolveCollision
    <2>1. PICK x \in CollisionAnswers(Head(batch)) : SendAcks([a \in {Head(batch)} |-> x])
      BY <1>9 DEF ResolveCollision
    <2>2. x.tag # "Committed"
      BY DEF CollisionAnswers, Answer
    <2>3. QED
      BY <1>1, <2>1, <2>2
  <1>10. CASE \/ DropHandles \/ Receive \/ Exit \/ InsertCollides \/ Restart
              \/ (\E t \in inDoubt : TxnLands(t) \/ TxnVanishes(t)) \/ UNCHANGED vars
    BY <1>3, <1>10
    DEF DropHandles, Receive, Exit, InsertCollides, Restart, TxnLands, TxnVanishes, vars, handleVars
  <1>11. QED
    BY <1>5, <1>6, <1>7, <1>8, <1>9, <1>10 DEF Next, Producer, Writer, Flush, Database

\* What a step without fresh commits does to the order, by what it does to
\* the queues.
LEMMA CommittedKept ==
    ASSUME TypeOK, [Next]_vars, OrderLayer, NoFreshCommit, UNCHANGED accepted
    PROVE  CommitOrder' /\ AcceptedMade'
  <1>1. Stable
    BY AnswerStable
  <1>2. AcceptedMade'
    BY <1>1 DEF OrderLayer, AcceptedMade, Stable
  <1>3. \A i \in DOMAIN accepted : accepted[i] \in Appends
    BY DEF OrderLayer, AcceptedMade
  <1>4. CommitOrder'
    BY <1>3 DEF OrderLayer, CommitOrder, NoFreshCommit
  <1>5. QED
    BY <1>2, <1>4

LEMMA ShrinkOrder ==
    ASSUME TypeOK, [Next]_vars, OrderLayer, NoFreshCommit, UNCHANGED accepted,
           channel' \in {channel, <<>>}, batch' \in {batch, <<>>}
    PROVE  OrderLayer'
  <1>1. CommitOrder' /\ AcceptedMade'
    BY CommittedKept
  <1>2. /\ Range(channel') \subseteq Range(channel) /\ Range(batch') \subseteq Range(batch)
        /\ Queued' \subseteq Queued
    <2>1. Range(<<>>) = {}
      BY DEF Range
    <2>2. QED
      BY <2>1 DEF Queued
  <1>3. InOrder(channel)' /\ InOrder(batch)'
    BY DEF OrderLayer, InOrder
  <1>4. BatchFirst'
    BY <1>2 DEF OrderLayer, BatchFirst
  <1>5. \A i \in DOMAIN accepted : accepted[i] \in Appends
    BY DEF OrderLayer, AcceptedMade
  <1>6. NoneOvertaken'
    BY <1>2, <1>5 DEF OrderLayer, NoneOvertaken, NoFreshCommit
  <1>7. QED
    BY <1>1, <1>3, <1>4, <1>6 DEF OrderLayer

\* A call that the channel takes comes last.
LEMMA SendOrder ==
    ASSUME TypeOK, [Next]_vars, QueueLayer, OrderLayer, NoFreshCommit, NEW a \in Appends,
           reply[a] = Idle, reply' = [reply EXCEPT ![a] = Pending], batch' = batch,
           channel' = Append(channel, a), accepted' = Append(accepted, a)
    PROVE  OrderLayer'
  <1>1. channel \in Seq(Appends) /\ accepted \in Seq(Appends) /\ batch \in Seq(Appends)
    BY DEF TypeOK
  <1>2. /\ DOMAIN channel' = DOMAIN channel \cup {Len(channel) + 1}
        /\ \A i \in DOMAIN channel : channel'[i] = channel[i]
        /\ channel'[Len(channel) + 1] = a
        /\ Range(channel') = Range(channel) \cup {a}
    BY <1>1, AppendFacts
  <1>3. /\ DOMAIN accepted' = DOMAIN accepted \cup {Len(accepted) + 1}
        /\ \A i \in DOMAIN accepted : accepted'[i] = accepted[i]
        /\ accepted'[Len(accepted) + 1] = a
    BY <1>1, AppendFacts
  <1>4. /\ \A i \in DOMAIN accepted : i \in Nat /\ i < Len(accepted) + 1
        /\ \A i \in DOMAIN channel : i \in Nat /\ i < Len(channel) + 1
        /\ Len(accepted) \in Nat /\ Len(channel) \in Nat
    BY <1>1
  <1>5. a \notin Range(channel) /\ a \notin Range(batch)
    BY IdleNotQueued DEF QueueLayer
  <1>6. \A i \in DOMAIN accepted : accepted[i] # a
    BY DEF OrderLayer, AcceptedMade
  <1>7. ASSUME NEW i \in DOMAIN accepted', NEW j \in DOMAIN accepted', i < j
        PROVE  i \in DOMAIN accepted /\ (j \in DOMAIN accepted \/ accepted'[j] = a)
    BY <1>3, <1>4, <1>7
  <1>8. InOrder(channel)'
    <2> SUFFICES ASSUME NEW i \in DOMAIN accepted', NEW j \in DOMAIN accepted', i < j,
                        NEW p \in DOMAIN channel', NEW q \in DOMAIN channel',
                        channel'[p] = accepted'[i], channel'[q] = accepted'[j]
                 PROVE  p < q
      BY DEF InOrder
    <2>1. p \in DOMAIN channel /\ channel[p] = accepted[i]
      BY <1>2, <1>3, <1>6, <1>7
    <2>2. CASE q \in DOMAIN channel
      <3>1. channel[q] # a
        BY <1>1, <1>5, <2>2, RangeFacts
      <3>2. j \in DOMAIN accepted /\ channel[q] = accepted[j]
        BY <1>2, <1>3, <1>7, <2>2, <3>1
      <3>3. QED
        BY <1>7, <2>1, <2>2, <3>2 DEF OrderLayer, InOrder
    <2>3. CASE q = Len(channel) + 1
      BY <1>4, <2>1, <2>3
    <2>4. QED
      BY <1>2, <2>2, <2>3
  <1>9. InOrder(batch)' /\ BatchFirst'
    <2>1. ASSUME NEW i \in DOMAIN accepted', NEW j \in DOMAIN accepted', i < j,
                 accepted'[j] \in Range(batch)
          PROVE  /\ i \in DOMAIN accepted /\ j \in DOMAIN accepted
                 /\ accepted'[i] = accepted[i] /\ accepted'[j] = accepted[j]
                 /\ accepted'[i] # a
      BY <1>3, <1>5, <1>6, <1>7, <2>1
    <2>2. BatchFirst'
      BY <1>2, <2>1 DEF OrderLayer, BatchFirst
    <2>3. \A q \in DOMAIN batch : batch[q] \in Range(batch)
      BY <1>1, RangeFacts
    <2>4. InOrder(batch)'
      BY <2>1, <2>3 DEF OrderLayer, InOrder
    <2>5. QED
      BY <2>2, <2>4
  <1>10. /\ reply'[a] = Pending /\ Pending.tag # "Committed" /\ Pending # Idle
         /\ \A b \in Appends : b # a => reply'[b] = reply[b]
    BY DEF TypeOK, Pending, Idle, Answer
  <1>11. \A i \in DOMAIN accepted : accepted[i] \in Appends
    BY DEF OrderLayer, AcceptedMade
  <1>12. AcceptedMade'
    BY <1>3, <1>6, <1>10 DEF OrderLayer, AcceptedMade
  <1>13. CommitOrder'
    BY <1>3, <1>6, <1>7, <1>10, <1>11 DEF OrderLayer, CommitOrder
  <1>14. Queued' = Queued \cup {a}
    BY <1>2 DEF Queued
  <1>15. NoneOvertaken'
    BY <1>3, <1>6, <1>7, <1>10, <1>11, <1>14 DEF OrderLayer, NoneOvertaken
  <1>16. QED
    BY <1>8, <1>9, <1>12, <1>13, <1>15 DEF OrderLayer

\* The head of the channel goes to the end of the batch.
LEMMA ReceiveOrder ==
    ASSUME TypeOK, [Next]_vars, QueueLayer, OrderLayer, NoFreshCommit, Receive
    PROVE  OrderLayer'
  <1>1. /\ channel \in Seq(Appends) /\ batch \in Seq(Appends) /\ channel # <<>>
        /\ accepted' = accepted /\ reply' = reply
        /\ batch' = Append(batch, Head(channel)) /\ channel' = Tail(channel)
    BY DEF TypeOK, Receive, handleVars
  <1> DEFINE h == Head(channel)
  <1>2. /\ h \in Appends /\ 1 \in DOMAIN channel /\ h = channel[1]
        /\ \A i \in DOMAIN channel' : i + 1 \in DOMAIN channel /\ channel'[i] = channel[i + 1]
        /\ Range(channel) = Range(channel') \cup {h}
    BY <1>1, TailFacts
  <1>3. /\ DOMAIN batch' = DOMAIN batch \cup {Len(batch) + 1}
        /\ \A i \in DOMAIN batch : batch'[i] = batch[i]
        /\ batch'[Len(batch) + 1] = h
        /\ Range(batch') = Range(batch) \cup {h}
    <2>1. h \in Appends
      BY <1>2
    <2>2. QED
      BY <1>1, <2>1, AppendFacts
  <1>4. /\ \A i \in DOMAIN batch : i \in Nat /\ i < Len(batch) + 1
        /\ \A i \in DOMAIN channel' : i \in Nat /\ i > 0
        /\ \A i \in DOMAIN batch : batch[i] \in Range(batch)
        /\ h \in Range(channel)
    BY <1>1, <1>2, TailFacts, RangeFacts
  <1> HIDE DEF h
  <1>5. CommitOrder' /\ AcceptedMade'
    BY <1>1, CommittedKept
  <1>6. InOrder(channel)'
    <2> SUFFICES ASSUME NEW i \in DOMAIN accepted, NEW j \in DOMAIN accepted, i < j,
                        NEW p \in DOMAIN channel', NEW q \in DOMAIN channel',
                        channel'[p] = accepted[i], channel'[q] = accepted[j]
                 PROVE  p < q
      BY <1>1 DEF InOrder
    <2>1. p + 1 < q + 1
      BY <1>2 DEF OrderLayer, InOrder
    <2>2. QED
      BY <1>4, <2>1
  <1>7. ASSUME NEW i \in DOMAIN accepted, NEW j \in DOMAIN accepted, i < j, accepted[i] = h
        PROVE  accepted[j] \notin Range(batch) /\ accepted[j] # h
    <2>1. accepted[j] \notin Range(batch)
      BY <1>4, <1>7 DEF OrderLayer, BatchFirst
    <2>2. accepted[j] # h
      BY <1>2, <1>7 DEF OrderLayer, InOrder
    <2>3. QED
      BY <2>1, <2>2
  <1>8. InOrder(batch)'
    <2> SUFFICES ASSUME NEW i \in DOMAIN accepted, NEW j \in DOMAIN accepted, i < j,
                        NEW p \in DOMAIN batch', NEW q \in DOMAIN batch',
                        batch'[p] = accepted[i], batch'[q] = accepted[j]
                 PROVE  p < q
      BY <1>1 DEF InOrder
    <2>1. CASE p = Len(batch) + 1
      BY <1>3, <1>4, <1>7, <2>1
    <2>2. CASE p \in DOMAIN batch /\ q = Len(batch) + 1
      BY <1>4, <2>2
    <2>3. CASE p \in DOMAIN batch /\ q \in DOMAIN batch
      BY <1>3, <2>3 DEF OrderLayer, InOrder
    <2>4. QED
      BY <1>3, <2>1, <2>2, <2>3
  <1>9. BatchFirst'
    <2> SUFFICES ASSUME NEW i \in DOMAIN accepted, NEW j \in DOMAIN accepted, i < j,
                        accepted[i] \in Range(channel'), accepted[j] = h
                 PROVE  FALSE
      BY <1>1, <1>2, <1>3 DEF OrderLayer, BatchFirst
    <2>1. PICK p \in DOMAIN channel' : channel'[p] = accepted[i]
      BY DEF Range
    <2>2. p + 1 < 1
      BY <1>2, <2>1 DEF OrderLayer, InOrder
    <2>3. QED
      BY <1>4, <2>2
  <1>10. Queued' = Queued
    BY <1>2, <1>3 DEF Queued
  <1>11. NoneOvertaken'
    BY <1>1, <1>10 DEF OrderLayer, NoneOvertaken
  <1>12. QED
    BY <1>5, <1>6, <1>8, <1>9, <1>11 DEF OrderLayer

\* A collided entry is answered and leaves the front of the batch.
LEMMA ResolveOrder ==
    ASSUME TypeOK, [Next]_vars, OrderLayer, NoFreshCommit, ResolveCollision
    PROVE  OrderLayer'
  <1>1. /\ batch \in Seq(Appends) /\ batch # <<>> /\ batch' = Tail(batch)
        /\ UNCHANGED <<accepted, channel>>
    BY DEF TypeOK, ResolveCollision
  <1>2. /\ \A i \in DOMAIN batch' : i \in Nat /\ i + 1 \in DOMAIN batch /\ batch'[i] = batch[i + 1]
        /\ Range(batch') \subseteq Range(batch)
    BY <1>1, TailFacts
  <1>3. CommitOrder' /\ AcceptedMade'
    BY <1>1, CommittedKept
  <1>4. InOrder(channel)' /\ BatchFirst'
    BY <1>1, <1>2 DEF OrderLayer, InOrder, BatchFirst
  <1>5. InOrder(batch)'
    <2> SUFFICES ASSUME NEW i \in DOMAIN accepted, NEW j \in DOMAIN accepted, i < j,
                        NEW p \in DOMAIN batch', NEW q \in DOMAIN batch',
                        batch'[p] = accepted[i], batch'[q] = accepted[j]
                 PROVE  p < q
      BY <1>1 DEF InOrder
    <2>1. p + 1 < q + 1
      BY <1>2 DEF OrderLayer, InOrder
    <2>2. QED
      BY <1>2, <2>1
  <1>6. Queued' \subseteq Queued
    BY <1>1, <1>2 DEF Queued
  <1>7. \A i \in DOMAIN accepted : accepted[i] \in Appends
    BY DEF OrderLayer, AcceptedMade
  <1>8. NoneOvertaken'
    BY <1>1, <1>6, <1>7 DEF OrderLayer, NoneOvertaken, NoFreshCommit
  <1>9. QED
    BY <1>3, <1>4, <1>5, <1>8 DEF OrderLayer

\* A batch that commits takes seqs above all earlier ones, in batch order.
LEMMA CommitsInOrder ==
    ASSUME TypeOK, [Next]_vars, QueueLayer, RowLayer, AnswerLayer, OrderLayer, InsertCommits
    PROVE  OrderLayer'
  <1>1. /\ batch \in Seq(Appends) /\ channel' = channel /\ accepted' = accepted
        /\ batch' = <<>> /\ lastSeq \in Nat /\ SendAcks(CommitAcks)
        /\ Range(batch') = {}
    BY DEF TypeOK, InsertCommits, EndFlush, Range
  <1>2. /\ DOMAIN CommitAcks = Range(batch)
        /\ \A a \in Appends :
              reply'[a] = IF a \in Range(batch) /\ reply[a] = Pending THEN CommitAcks[a] ELSE reply[a]
    BY <1>1, CommitAcksFinal DEF SendAcks
  <1>3. \A i \in DOMAIN accepted : accepted[i] \in Appends
    BY DEF OrderLayer, AcceptedMade
  \* A fresh commit belongs to an inserted entry and has its rank.
  <1>4. ASSUME NEW a \in Appends, reply'[a].tag = "Committed", reply[a].tag # "Committed"
        PROVE  \E p \in Inserted : p \in DOMAIN batch /\ batch[p] = a /\ reply'[a].seq = lastSeq + Rank(p)
    <2>1. a \in Range(batch) /\ reply'[a] = CommitAcks[a]
      BY <1>2, <1>4
    <2> DEFINE p == CHOOSE j \in DOMAIN batch : batch[j] = a
    <2>2. p \in DOMAIN batch /\ batch[p] = a
      BY <2>1 DEF Range
    <2>3. CommitAcks[a] = CommitAnswer(p)
      BY <2>1 DEF CommitAcks
    <2> HIDE DEF p
    <2>4. CASE blobErrors = {}
      <3>1. reply'[a] = Answer("Committed", lastSeq + p) /\ Rank(p) = p /\ p \in Inserted
        BY <2>1, <2>2, <2>3, <2>4, BatchRanks DEF CommitAnswer, Inserted
      <3>2. QED
        BY <2>2, <3>1 DEF Answer
    <2>5. CASE blobErrors # {} /\ p \in blobErrors
      BY <1>4, <2>1, <2>3, <2>5 DEF CommitAnswer, Answer
    <2>6. CASE blobErrors # {} /\ p \notin blobErrors
      <3>1. reply'[a] = Answer("Committed", lastSeq + Rank(p)) /\ p \in Inserted
        BY <2>1, <2>2, <2>3, <2>6 DEF CommitAnswer, Inserted
      <3>2. QED
        BY <2>2, <3>1 DEF Answer
    <2>7. QED
      BY <2>4, <2>5, <2>6
  \* An old commit has a seq handed out before.
  <1>5. ASSUME NEW a \in Appends, reply[a].tag = "Committed"
        PROVE  reply'[a] = reply[a] /\ reply[a].seq \in Nat /\ reply[a].seq <= lastSeq
    <2>1. PICK r \in eventLog : r.seq = reply[a].seq
      BY <1>5 DEF AnswerLayer, CommittedNamesOwnRow
    <2>2. r \in Row /\ r.seq <= lastSeq
      BY <2>1 DEF RowLayer, RowInv, AllRows, TypeOK
    <2>3. reply'[a] = reply[a]
      BY <1>2, <1>5 DEF Pending, Answer
    <2>4. QED
      BY <2>1, <2>2, <2>3 DEF Row
  <1>6. CommitOrder'
    <2> SUFFICES ASSUME NEW i \in DOMAIN accepted, NEW j \in DOMAIN accepted, i < j,
                        reply'[accepted[i]].tag = "Committed",
                        reply'[accepted[j]].tag = "Committed"
                 PROVE  reply'[accepted[i]].seq < reply'[accepted[j]].seq
      BY <1>1 DEF CommitOrder
    <2> DEFINE a == accepted[i]
               b == accepted[j]
    <2>1. a \in Appends /\ b \in Appends
      BY <1>3
    <2>2. CASE reply[a].tag = "Committed" /\ reply[b].tag = "Committed"
      BY <1>5, <2>1, <2>2 DEF OrderLayer, CommitOrder
    <2>3. CASE reply[a].tag = "Committed" /\ reply[b].tag # "Committed"
      <3>1. PICK q \in Inserted : q \in DOMAIN batch /\ reply'[b].seq = lastSeq + Rank(q)
        BY <1>4, <2>1, <2>3
      <3>2. Rank(q) \in Nat /\ Rank(q) > 0
        BY <3>1, BatchRanks
      <3>3. reply'[a].seq \in Nat /\ reply'[a].seq <= lastSeq
        BY <1>5, <2>1, <2>3
      <3>4. QED
        BY <1>1, <3>1, <3>2, <3>3
    <2>4. CASE reply[a].tag # "Committed"
      <3>1. PICK p \in Inserted :
              p \in DOMAIN batch /\ batch[p] = a /\ reply'[a].seq = lastSeq + Rank(p)
        BY <1>4, <2>1, <2>4
      <3>2. a \in Queued
        BY <3>1 DEF Queued, Range
      <3>3. reply[b].tag # "Committed"
        BY <3>2 DEF OrderLayer, NoneOvertaken
      <3>4. PICK q \in Inserted :
              q \in DOMAIN batch /\ batch[q] = b /\ reply'[b].seq = lastSeq + Rank(q)
        BY <1>4, <2>1, <3>3
      <3>5. p < q
        BY <3>1, <3>4 DEF OrderLayer, InOrder
      <3>6. Rank(p) < Rank(q) /\ Rank(p) \in Nat /\ Rank(q) \in Nat
        BY <3>1, <3>4, <3>5, BatchRanks
      <3>7. QED
        BY <1>1, <3>1, <3>4, <3>6
    <2>5. QED
      BY <2>2, <2>3, <2>4
  <1>7. AcceptedMade'
    <2>1. Stable
      BY AnswerStable
    <2>2. QED
      BY <1>1, <2>1 DEF OrderLayer, AcceptedMade, Stable
  <1>8. InOrder(channel)' /\ InOrder(batch)' /\ BatchFirst'
    BY <1>1 DEF OrderLayer, InOrder, BatchFirst
  <1>9. NoneOvertaken'
    <2> SUFFICES ASSUME NEW i \in DOMAIN accepted, NEW j \in DOMAIN accepted, i < j,
                        accepted[i] \in Range(channel), reply'[accepted[j]].tag = "Committed"
                 PROVE  FALSE
      BY <1>1 DEF NoneOvertaken, Queued
    <2>1. reply[accepted[j]].tag # "Committed"
      BY DEF OrderLayer, NoneOvertaken, Queued
    <2>2. accepted[j] \in Range(batch)
      BY <1>2, <1>3, <2>1
    <2>3. QED
      BY <2>2 DEF OrderLayer, BatchFirst
  <1>10. QED
    BY <1>6, <1>7, <1>8, <1>9 DEF OrderLayer

\* Every step keeps the order.
LEMMA NextOrder ==
    ASSUME TypeOK, QueueLayer, RowLayer, AnswerLayer, OrderLayer, [Next]_vars
    PROVE  OrderLayer'
  <1>1. CASE InsertCommits
    BY <1>1, CommitsInOrder
  <1> SUFFICES ASSUME ~InsertCommits PROVE OrderLayer'
    BY <1>1
  <1>2. NoFreshCommit
    BY OnlyCommitsCommit
  <1>3. ASSUME UNCHANGED accepted, channel' \in {channel, <<>>}, batch' \in {batch, <<>>}
        PROVE  OrderLayer'
    BY <1>2, <1>3, ShrinkOrder
  <1>4. CASE Receive
    BY <1>2, <1>4, ReceiveOrder
  <1>5. CASE ResolveCollision
    BY <1>2, <1>5, ResolveOrder
  <1>6. ASSUME NEW a \in Appends, NEW r \in Requests, AppendSend(a, r)
        PROVE  OrderLayer'
    <2>1. CASE UNCHANGED <<channel, accepted>>
      BY <1>3, <1>6, <2>1 DEF AppendSend, writerVars
    <2>2. CASE /\ reply' = [reply EXCEPT ![a] = Pending]
               /\ channel' = Append(channel, a) /\ accepted' = Append(accepted, a)
      BY <1>2, <1>6, <2>2, SendOrder DEF AppendSend, writerVars
    <2>3. QED
      BY <1>6, <2>1, <2>2 DEF AppendSend
  <1>7. CASE \/ \E a \in Appends, r \in Requests : AppendTurnedAway(a, r)
             \/ \E a \in Appends : Abandon(a)
             \/ DropHandles \/ Exit \/ StartFlush \/ UNCHANGED vars
    BY <1>3, <1>7
    DEF AppendTurnedAway, Abandon, DropHandles, Exit, StartFlush, EndFlush, writerVars, vars
  <1>8. CASE InsertCollides \/ InsertTransient \/ InsertFatal \/ WriterDropped \/ Restart
    BY <1>3, <1>8
    DEF InsertCollides, InsertTransient, InsertFatal, WriterDropped, Restart, EndFlush, writerVars
  <1>9. CASE \E t \in inDoubt : TxnLands(t) \/ TxnVanishes(t)
    BY <1>3, <1>9 DEF TxnLands, TxnVanishes, writerVars
  <1>10. QED
    BY <1>4, <1>5, <1>6, <1>7, <1>8, <1>9 DEF Next, Producer, Writer, Flush, Database

\* The layers below hold throughout.
LEMMA LayersHold == Spec => [](TypeOK /\ QueueLayer /\ RowLayer /\ AnswerLayer)
  <1>1. Spec => []QueueLayer
    BY NothingLost DEF QueueLayer
  <1>2. Spec => []RowLayer
    BY RowsAreUnique DEF RowLayer
  <1>3. Spec => []AnswerLayer
    BY AnswersAreTrue DEF AnswerLayer
  <1>4. QED
    BY <1>1, <1>2, <1>3, TypeCorrect, PTL

\* dispatcher.rs, "INSERT order": of two calls that were told Committed, the
\* one the channel took first has the lower seq, across batches, blob
\* failures, collisions, retries and restarts (LogWriter::run, flush).
THEOREM CommitsFollowTheChannel == Spec => []CommitOrder
  <1>1. Init => OrderLayer
    BY DEF Init, OrderLayer, InOrder, BatchFirst, NoneOvertaken, AcceptedMade, CommitOrder
  <1>2. TypeOK /\ QueueLayer /\ RowLayer /\ AnswerLayer /\ OrderLayer /\ [Next]_vars => OrderLayer'
    BY NextOrder
  <1>3. OrderLayer => CommitOrder
    BY DEF OrderLayer
  <1>4. QED
    BY <1>1, <1>2, <1>3, LayersHold, PTL DEF Spec

\* AlreadyExists names a committed row with the caller's own key
\* (find_existing_seq after a collided batch).
THEOREM AlreadyExistsIsTrue == Spec => []AlreadyExistsNamesKey
  BY AnswersAreTrue, PTL

\* A call that append() turned away, or whose blob upload failed, has no row
\* and never gets one: it can be made again without a key.
THEOREM RejectedStaysOut == Spec => []RejectedNeverLands
  BY AnswersAreTrue, PTL

-----------------------------------------------------------------------------
(***************************************************************************)
(* The refinement of EventLog.  A transaction has at most BatchMax rows,   *)
(* whose seqs are the next consecutive ones although blob-failed entries   *)
(* are skipped; two transactions in doubt share no seq.                    *)
(***************************************************************************)
BatchBounded == Len(batch) <= BatchMax

LEMMA BoundedHolds == Spec => []BatchBounded
  <1> USE ConstantsAssumption
  <1>1. Init => BatchBounded
    BY DEF Init, BatchBounded
  <1>2. TypeOK /\ BatchBounded /\ [Next]_vars => BatchBounded'
    <2> SUFFICES ASSUME TypeOK, BatchBounded, [Next]_vars PROVE BatchBounded'
      OBVIOUS
    <2>1. ASSUME batch' \in {batch, <<>>} PROVE BatchBounded'
      BY <2>1 DEF BatchBounded
    <2>2. CASE Receive
      <3>1. /\ batch \in Seq(Appends) /\ Head(channel) \in Appends
            /\ batch' = Append(batch, Head(channel)) /\ Len(batch) < BatchMax
        BY <2>2, TailFacts DEF Receive, TypeOK
      <3>2. Len(batch') = Len(batch) + 1 /\ Len(batch) \in Nat
        BY <3>1
      <3>3. QED
        BY <3>1, <3>2 DEF BatchBounded
    <2>3. CASE ResolveCollision
      <3>1. /\ batch \in Seq(Appends) /\ batch # <<>> /\ batch' = Tail(batch)
        BY <2>3 DEF ResolveCollision, TypeOK
      <3>2. Len(batch') = Len(batch) - 1 /\ Len(batch) \in Nat
        BY <3>1, TailFacts
      <3>3. QED
        BY <3>2 DEF BatchBounded
    <2>4. CASE Producer \/ UNCHANGED vars
      BY <2>1, <2>4
      DEF Producer, AppendTurnedAway, AppendSend, Abandon, DropHandles, writerVars, vars
    <2>5. CASE Exit \/ StartFlush \/ InsertCommits \/ InsertCollides \/ InsertTransient
                 \/ InsertFatal
      BY <2>1, <2>5
      DEF Exit, StartFlush, InsertCommits, InsertCollides, InsertTransient, InsertFatal,
          EndFlush, writerVars
    <2>6. CASE Database \/ WriterDropped \/ Restart
      BY <2>1, <2>6 DEF Database, TxnLands, TxnVanishes, WriterDropped, Restart, writerVars
    <2>7. QED
      BY <2>2, <2>3, <2>4, <2>5, <2>6 DEF Next, Writer, Flush
  <1>3. QED
    BY <1>1, <1>2, TypeCorrect, PTL DEF Spec

SeqsOf(rows) == {r.seq : r \in rows}

\* The rows of a batch take the next seqs, without a hole.
LEMMA BatchSeqs ==
    ASSUME TypeOK, BatchBounded
    PROVE  /\ SeqsOf(BatchRows) = lastSeq + 1 .. lastSeq + Cardinality(Inserted)
           /\ Cardinality(Inserted) \in 0..BatchMax
           /\ Inserted = {} => Cardinality(Inserted) = 0
           /\ Inserted # {} => Cardinality(Inserted) \in 1..BatchMax
  <1> DEFINE n == Cardinality(Inserted)
             f == [i \in Inserted |-> Rank(i)]
  <1>1. batch \in Seq(Appends) /\ Len(batch) \in Nat /\ DOMAIN batch = 1..Len(batch)
    BY DEF TypeOK
  <1>2. IsFiniteSet(1..Len(batch)) /\ Cardinality(1..Len(batch)) = Len(batch)
    BY <1>1, FS_Interval
  <1>3. Inserted \in SUBSET (1..Len(batch))
    BY <1>1 DEF Inserted
  <1>4. IsFiniteSet(Inserted) /\ n <= Len(batch) /\ n \in Nat
    BY <1>2, <1>3, FS_Subset, FS_CardinalityType
  <1>5. \A i \in Inserted : Rank(i) \in 1..n /\ i \in Nat
    BY <1>1, <1>3, BatchRanks
  <1>6. \A i, j \in Inserted : f[i] = f[j] => i = j
    BY <1>5, BatchRanks
  <1>7. f \in Injection(Inserted, 1..n)
    BY <1>5, <1>6 DEF Injection, IsInjective
  <1>8. IsFiniteSet(1..n) /\ Cardinality(1..n) = n
    BY <1>4, FS_Interval
  <1>9. f \in Surjection(Inserted, 1..n)
    <2> HIDE DEF f
    <2>1. QED
      BY <1>7, <1>8, FS_Injection
  <1>10. \A k \in 1..n : \E i \in Inserted : Rank(i) = k
    BY <1>9 DEF Surjection
  <1>11. lastSeq \in Nat
    BY DEF TypeOK
  <1>12. SeqsOf(BatchRows) = {lastSeq + Rank(i) : i \in Inserted}
    <2>1. ASSUME NEW r \in BatchRows PROVE \E i \in Inserted : r.seq = lastSeq + Rank(i)
      BY DEF BatchRows
    <2>2. ASSUME NEW i \in Inserted PROVE \E r \in BatchRows : r.seq = lastSeq + Rank(i)
      <3> DEFINE row == [seq |-> lastSeq + Rank(i), id |-> batch[i], key |-> KeyOf(i)]
      <3>1. row \in BatchRows
        BY Zenon DEF BatchRows
      <3>2. row.seq = lastSeq + Rank(i)
        OBVIOUS
      <3>3. QED
        BY <3>1, <3>2, Zenon
    <2>3. QED
      BY <2>1, <2>2, Zenon DEF SeqsOf
  <1>13. Inserted = {} <=> n = 0
    BY <1>4, FS_EmptySet
  <1> HIDE DEF n, f
  <1>14. {lastSeq + Rank(i) : i \in Inserted} = lastSeq + 1 .. lastSeq + n
    <2>1. ASSUME NEW i \in Inserted PROVE lastSeq + Rank(i) \in lastSeq + 1 .. lastSeq + n
      BY <1>4, <1>5, <1>11
    <2>2. ASSUME NEW s \in lastSeq + 1 .. lastSeq + n
          PROVE  \E i \in Inserted : s = lastSeq + Rank(i)
      <3>1. s - lastSeq \in 1..n
        BY <1>4, <1>11
      <3>2. PICK i \in Inserted : Rank(i) = s - lastSeq
        BY <1>10, <3>1
      <3>3. QED
        BY <1>11, <3>2
    <2>3. QED
      BY <2>1, <2>2
  <1>15. n \in 0..BatchMax /\ (Inserted # {} => n \in 1..BatchMax)
    BY <1>1, <1>4, <1>13, ConstantsAssumption DEF BatchBounded
  <1>16. QED
    BY <1>12, <1>13, <1>14, <1>15 DEF n

\* Transactions in doubt are told apart by their seqs.
LEMMA DoubtSeqsDiffer ==
    ASSUME RowsUnique, NEW t \in inDoubt, NEW u \in inDoubt, SeqsOf(t) = SeqsOf(u)
    PROVE  t = u
  <1>1. \A r \in t : r \in AllRows
    BY DEF AllRows
  <1>2. \A r \in u : r \in AllRows
    BY DEF AllRows
  <1>3. \A r \in t : \E s \in u : s.seq = r.seq
    BY DEF SeqsOf
  <1>4. \A r \in u : \E s \in t : s.seq = r.seq
    BY DEF SeqsOf
  <1>5. QED
    BY <1>1, <1>2, <1>3, <1>4 DEF RowsUnique

TableStep == Table!LogNext \/ UNCHANGED Table!logVars

\* The seqs that readers see, before and after a step.
LEMMA TableFacts ==
    /\ SeqsOf(eventLog) = {r.seq : r \in eventLog}
    /\ SeqsOf(eventLog') = {r.seq : r \in eventLog'}
    /\ {SeqsOf(t) : t \in inDoubt} = {{r.seq : r \in t} : t \in inDoubt}
    /\ {SeqsOf(t) : t \in inDoubt'} = {{r.seq : r \in t} : t \in inDoubt'}
    /\ \A R, S : SeqsOf(R \cup S) = SeqsOf(R) \cup SeqsOf(S)
  BY DEF SeqsOf

\* A transaction of k rows that ends one way or the other is a step.
LEMMA TxnSteps ==
    ASSUME NEW k \in 1..BatchMax,
           Table!Commits(k) \/ Table!RollsBack(k) \/ Table!LeftInDoubt(k)
    PROVE  TableStep
  BY Zenon DEF TableStep, Table!LogNext

\* A step that leaves the rows, the sequence and the doubtful transactions
\* alone is invisible to readers.
LEMMA QuietTable ==
    ASSUME UNCHANGED databaseVars
    PROVE  TableStep
  BY DEF databaseVars, TableStep, Table!logVars

LEMMA CommitTable ==
    ASSUME TypeOK, BatchBounded, InsertCommits
    PROVE  TableStep
  <1>1. PICK n \in 0..BatchMax : n = Cardinality(Inserted)
    BY BatchSeqs
  <1>2. /\ eventLog' = eventLog \cup BatchRows /\ lastSeq' = lastSeq + n
        /\ inDoubt' = inDoubt /\ lastSeq \in Nat
    BY <1>1 DEF InsertCommits, TypeOK
  <1>3. CASE Inserted = {}
    <2>1. BatchRows = {} /\ n = 0
      BY <1>1, <1>3, BatchSeqs DEF BatchRows
    <2>2. QED
      BY <1>2, <2>1, QuietTable DEF databaseVars
  <1>4. CASE Inserted # {}
    <2>1. n \in 1..BatchMax /\ SeqsOf(BatchRows) = lastSeq + 1 .. lastSeq + n
      BY <1>1, <1>4, BatchSeqs
    <2>2. SeqsOf(eventLog') = SeqsOf(eventLog) \cup (lastSeq + 1 .. lastSeq + n)
      BY <1>2, <2>1, TableFacts
    <2>3. Table!Commits(n)
      BY <1>2, <2>2, TableFacts DEF Table!Commits, Table!Txn
    <2>4. QED
      BY <2>1, <2>3, TxnSteps
  <1>5. QED
    BY <1>3, <1>4

\* Seqs that an aborted transaction has consumed.
LEMMA BurnedTable ==
    ASSUME NEW k \in 0..BatchMax, lastSeq \in Nat, lastSeq' = lastSeq + k,
           eventLog' = eventLog, inDoubt' = inDoubt
    PROVE  TableStep
  <1> USE ConstantsAssumption
  <1>1. CASE k = 0
    <2>1. lastSeq' = lastSeq
      BY <1>1
    <2>2. QED
      BY <2>1, QuietTable DEF databaseVars
  <1>2. CASE k # 0
    <2>1. k \in 1..BatchMax
      BY <1>2
    <2>2. Table!RollsBack(k)
      BY DEF Table!RollsBack
    <2>3. QED
      BY <2>1, <2>2, TxnSteps
  <1>3. QED
    BY <1>1, <1>2

LEMMA CollideTable ==
    ASSUME TypeOK, BatchBounded, InsertCollides
    PROVE  TableStep
  <1>1. PICK i \in Inserted : lastSeq' = lastSeq + Rank(i)
    BY DEF InsertCollides
  <1>2. Rank(i) \in Nat /\ Rank(i) <= Cardinality(Inserted)
    <2>1. i \in DOMAIN batch
      BY DEF Inserted
    <2>2. QED
      BY <2>1, BatchRanks
  <1>3. Rank(i) \in 0..BatchMax
    BY <1>2, BatchSeqs, ConstantsAssumption
  <1>4. QED
    BY <1>1, <1>3, BurnedTable DEF InsertCollides, TypeOK

\* A failed insert of some rows is rolled back or left in doubt.
LEMMA LeaveTable ==
    ASSUME TypeOK, BatchBounded, Inserted # {}, LeaveTransaction, eventLog' = eventLog
    PROVE  TableStep
  <1>1. PICK n \in 1..BatchMax : n = Cardinality(Inserted)
    BY BatchSeqs
  <1>2. lastSeq \in Nat /\ SeqsOf(BatchRows) = lastSeq + 1 .. lastSeq + n
    BY <1>1, BatchSeqs DEF TypeOK
  <1>3. CASE lastSeq' \in lastSeq .. lastSeq + n /\ inDoubt' = inDoubt
    <2>1. PICK m \in lastSeq .. lastSeq + n : m = lastSeq'
      BY <1>3
    <2>2. PICK k \in 0..n : k = m - lastSeq
      <3>1. m - lastSeq \in 0..n
        BY <1>2, ConstantsAssumption
      <3>2. QED
        BY <3>1
    <2>3. k \in 0..BatchMax
      BY <1>1, <2>2, ConstantsAssumption
    <2>4. m = lastSeq + k
      <3>1. lastSeq \in Int /\ m \in Int
        BY <1>2
      <3>2. k = m - lastSeq
        BY <2>2
      <3>3. QED
        BY <3>1, <3>2
    <2>5. lastSeq' = lastSeq + k
      BY <2>1, <2>4
    <2>6. QED
      BY <1>2, <1>3, <2>3, <2>5, BurnedTable
  <1>4. CASE lastSeq' = lastSeq + n /\ inDoubt' = inDoubt \cup {BatchRows}
    <2>1. {SeqsOf(t) : t \in inDoubt'} = {SeqsOf(t) : t \in inDoubt} \cup {SeqsOf(BatchRows)}
      BY <1>4
    <2>2. {SeqsOf(t) : t \in inDoubt'} =
             {SeqsOf(t) : t \in inDoubt} \cup {lastSeq + 1 .. lastSeq + n}
      BY <1>2, <2>1
    <2>3. Table!LeftInDoubt(n)
      BY <1>4, <2>2, TableFacts DEF Table!LeftInDoubt, Table!Txn
    <2>4. QED
      BY <2>3, TxnSteps
  <1>5. QED
    BY <1>1, <1>3, <1>4 DEF LeaveTransaction, Burned

\* The database settles a transaction in doubt, as a whole.
LEMMA SettleTable ==
    ASSUME RowsUnique, NEW t \in inDoubt, TxnLands(t) \/ TxnVanishes(t)
    PROVE  TableStep
  <1>1. \A u \in inDoubt : SeqsOf(u) = SeqsOf(t) => u = t
    BY DoubtSeqsDiffer
  <1>2. inDoubt' = inDoubt \ {t} /\ lastSeq' = lastSeq
    BY DEF TxnLands, TxnVanishes
  <1>3. {SeqsOf(u) : u \in inDoubt'} = {SeqsOf(u) : u \in inDoubt} \ {SeqsOf(t)}
    BY <1>1, <1>2
  <1>4. SeqsOf(t) \in {SeqsOf(u) : u \in inDoubt}
    OBVIOUS
  <1>5. CASE TxnLands(t)
    <2>1. SeqsOf(eventLog') = SeqsOf(eventLog) \cup SeqsOf(t)
      BY <1>5, TableFacts DEF TxnLands
    <2>2. Table!Lands(SeqsOf(t))
      BY <1>2, <1>3, <1>4, <2>1, TableFacts DEF Table!Lands
    <2>3. QED
      BY <1>4, <2>2, TableFacts DEF TableStep, Table!LogNext
  <1>6. CASE TxnVanishes(t)
    <2>1. eventLog' = eventLog
      BY <1>6 DEF TxnVanishes
    <2>2. Table!Vanishes(SeqsOf(t))
      BY <1>2, <1>3, <1>4, <2>1, TableFacts DEF Table!Vanishes
    <2>3. QED
      BY <1>4, <2>2, TableFacts DEF TableStep, Table!LogNext
  <1>7. QED
    BY <1>5, <1>6

\* Every step of the writer is a step of the table or none.
LEMMA NextTable ==
    ASSUME TypeOK, RowsUnique, BatchBounded, [Next]_vars
    PROVE  TableStep
  <1>1. CASE \/ Producer \/ Receive \/ Exit \/ StartFlush \/ ResolveCollision \/ Restart
             \/ UNCHANGED vars
    <2>1. UNCHANGED databaseVars
      BY <1>1
      DEF Producer, AppendTurnedAway, AppendSend, Abandon, DropHandles, Receive, Exit,
          StartFlush, ResolveCollision, Restart, databaseVars, vars
    <2>2. QED
      BY <2>1, QuietTable
  <1>2. CASE InsertCommits
    BY <1>2, CommitTable
  <1>3. CASE InsertCollides
    BY <1>3, CollideTable
  <1>4. CASE InsertTransient \/ InsertFatal
    BY <1>4, LeaveTable DEF InsertTransient, InsertFatal
  <1>5. CASE WriterDropped
    <2>1. CASE pc = "insert" /\ Inserted # {}
      BY <1>5, <2>1, LeaveTable DEF WriterDropped
    <2>2. CASE ~(pc = "insert" /\ Inserted # {})
      BY <1>5, <2>2, QuietTable DEF WriterDropped, databaseVars
    <2>3. QED
      BY <2>1, <2>2
  <1>6. CASE Database
    BY <1>6, SettleTable DEF Database
  <1>7. QED
    BY <1>1, <1>2, <1>3, <1>4, <1>5, <1>6 DEF Next, Writer, Flush

\* LogWriter implements EventLog: whatever the writer, its retries, its blob
\* failures and its crashes do, readers of event_log see transactions that
\* take the next consecutive seqs and whose rows appear together or never.
THEOREM WriterImplementsEventLog == Spec => ImplementsEventLog
  <1>1. Init => Table!LogInit
    BY DEF Init, Table!LogInit
  <1>2. TypeOK /\ RowLayer /\ BatchBounded /\ [Next]_vars => [Table!LogNext]_(Table!logVars)
    BY NextTable DEF RowLayer, TableStep
  <1>3. QED
    BY <1>1, <1>2, LayersHold, BoundedHolds, PTL
    DEF Spec, ImplementsEventLog, Table!LogSpec
=============================================================================
