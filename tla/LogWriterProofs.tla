--------------------------- MODULE LogWriterProofs ---------------------------
(***************************************************************************)
(* The safety of LogWriter for every set of calls, every channel and batch *)
(* size and every retry cap.  The invariant is established in layers, each *)
(* using the ones before it: types, the queue, the rows, the answers.      *)
(***************************************************************************)
EXTENDS LogWriter, FiniteSetTheorems, TLAPS

-----------------------------------------------------------------------------
(* Sequences as queues.                                                     *)

\* A queue holds one more element after Append, distinct if it was new.
LEMMA AppendFacts ==
    ASSUME NEW S, NEW s \in Seq(S), NEW e \in S
    PROVE  /\ Append(s, e) \in Seq(S)
           /\ Append(s, e) # <<>>
           /\ DOMAIN Append(s, e) = DOMAIN s \cup {Len(s) + 1}
           /\ \A i \in DOMAIN s : Append(s, e)[i] = s[i]
           /\ Append(s, e)[Len(s) + 1] = e
           /\ Range(Append(s, e)) = Range(s) \cup {e}
  <1>1. /\ Append(s, e) \in Seq(S)
        /\ Append(s, e) # <<>>
        /\ DOMAIN Append(s, e) = DOMAIN s \cup {Len(s) + 1}
        /\ \A i \in DOMAIN s : Append(s, e)[i] = s[i]
        /\ Append(s, e)[Len(s) + 1] = e
    OBVIOUS
  <1>2. QED
    BY <1>1, Zenon DEF Range

\* Taking the head off a queue leaves the other elements, in order.
LEMMA TailFacts ==
    ASSUME NEW S, NEW s \in Seq(S), s # <<>>
    PROVE  /\ Head(s) \in S
           /\ Tail(s) \in Seq(S)
           /\ Len(Tail(s)) = Len(s) - 1
           /\ 1 \in DOMAIN s
           /\ Head(s) = s[1]
           /\ \A i \in DOMAIN Tail(s) : i + 1 \in DOMAIN s /\ Tail(s)[i] = s[i + 1]
           /\ Range(s) = Range(Tail(s)) \cup {Head(s)}
  <1>1. /\ Head(s) \in S
        /\ Tail(s) \in Seq(S)
        /\ Len(Tail(s)) = Len(s) - 1
        /\ 1 \in DOMAIN s
        /\ Head(s) = s[1]
        /\ \A i \in DOMAIN Tail(s) : i + 1 \in DOMAIN s /\ Tail(s)[i] = s[i + 1]
    OBVIOUS
  <1>2. \A j \in DOMAIN s : j = 1 \/ (j - 1 \in DOMAIN Tail(s) /\ Tail(s)[j - 1] = s[j])
    OBVIOUS
  <1>3. ASSUME NEW x \in Range(s) PROVE x \in Range(Tail(s)) \cup {Head(s)}
    <2>1. PICK j \in DOMAIN s : s[j] = x
      BY DEF Range
    <2>2. CASE j = 1
      BY <1>1, <2>1, <2>2
    <2>3. CASE j - 1 \in DOMAIN Tail(s) /\ Tail(s)[j - 1] = s[j]
      BY <2>1, <2>3, Zenon DEF Range
    <2>4. QED
      BY <1>2, <2>2, <2>3
  <1>4. ASSUME NEW x \in Range(Tail(s)) \cup {Head(s)} PROVE x \in Range(s)
    <2>1. CASE x = Head(s)
      BY <1>1, <2>1, Zenon DEF Range
    <2>2. CASE x \in Range(Tail(s))
      <3>1. PICK i \in DOMAIN Tail(s) : Tail(s)[i] = x
        BY <2>2, Zenon DEF Range
      <3>2. i + 1 \in DOMAIN s /\ s[i + 1] = x
        BY <1>1, <3>1, Zenon
      <3>3. QED
        BY <3>2, Zenon DEF Range
    <2>3. QED
      BY <1>4, <2>1, <2>2, Zenon
  <1>5. QED
    BY <1>1, <1>3, <1>4

\* The elements of a queue of calls are calls.
LEMMA RangeFacts ==
    ASSUME NEW S, NEW s \in Seq(S)
    PROVE  /\ Range(s) \subseteq S
           /\ \A i \in DOMAIN s : s[i] \in Range(s)
           /\ (s = <<>> => Range(s) = {})
  BY DEF Range

-----------------------------------------------------------------------------
(* Ranks: the i-th entry of a batch and the seq vector.                     *)

\* Ranks of inserted entries are positive, bounded by the number of inserted
\* entries and strictly increasing; without skipped entries the rank of an
\* entry is its position.
LEMMA RankFacts ==
    ASSUME NEW n \in Nat, NEW B,
           NEW rank, rank = [i \in 1..n |-> Cardinality({j \in 1..i : j \notin B})]
    PROVE  /\ Cardinality(1..n \ B) \in Nat
           /\ \A i \in 1..n : rank[i] \in Nat /\ rank[i] <= Cardinality(1..n \ B)
           /\ \A i \in 1..n \ B : rank[i] > 0
           /\ \A i, j \in 1..n \ B : i < j => rank[i] < rank[j]
           /\ B = {} => \A i \in 1..n : rank[i] = i
  <1> DEFINE R(i) == {j \in 1..i : j \notin B}
  <1>1. \A i \in Nat : IsFiniteSet(1..i) /\ Cardinality(1..i) = i
    BY FS_Interval
  <1>2. \A i \in Nat : IsFiniteSet(R(i)) /\ Cardinality(R(i)) \in Nat
    <2> TAKE i \in Nat
    <2>1. R(i) \in SUBSET (1..i)
      OBVIOUS
    <2>2. QED
      BY <2>1, <1>1, FS_Subset, FS_CardinalityType
  <1>3. 1..n \ B = R(n)
    OBVIOUS
  <1>4. \A i \in 1..n : Cardinality(R(i)) <= Cardinality(R(n))
    <2> TAKE i \in 1..n
    <2>1. R(i) \in SUBSET R(n) /\ n \in Nat
      OBVIOUS
    <2> HIDE DEF R
    <2>2. QED
      BY <2>1, <1>2, FS_Subset
  <1>5. \A i, j \in 1..n \ B : i < j => Cardinality(R(i)) < Cardinality(R(j))
    <2> TAKE i, j \in 1..n \ B
    <2> HAVE i < j
    <2>1. R(i) \in SUBSET R(j) /\ j \in R(j) /\ j \notin R(i) /\ i \in Nat /\ j \in Nat
      OBVIOUS
    <2> HIDE DEF R
    <2>2. IsFiniteSet(R(i)) /\ IsFiniteSet(R(j)) /\ Cardinality(R(i)) \in Nat /\ Cardinality(R(j)) \in Nat
      BY <2>1, <1>2
    <2>3. Cardinality(R(i)) <= Cardinality(R(j)) /\ (Cardinality(R(j)) = Cardinality(R(i)) => R(j) = R(i))
      BY <2>1, <2>2, FS_Subset
    <2>4. QED
      BY <2>1, <2>2, <2>3
  <1>6. \A i \in 1..n \ B : Cardinality(R(i)) > 0
    <2> TAKE i \in 1..n \ B
    <2>1. i \in R(i) /\ i \in Nat
      OBVIOUS
    <2> HIDE DEF R
    <2>2. Cardinality(R(i)) # 0
      BY <2>1, <1>2, FS_EmptySet
    <2>3. QED
      BY <2>1, <2>2, <1>2
  <1>7. B = {} => \A i \in 1..n : Cardinality(R(i)) = i
    <2> HAVE B = {}
    <2> TAKE i \in 1..n
    <2>1. R(i) = 1..i
      OBVIOUS
    <2>2. QED
      BY <2>1, <1>1
  <1>8. \A i \in 1..n : rank[i] = Cardinality(R(i)) /\ i \in Nat
    OBVIOUS
  <1> HIDE DEF R
  <1>9. QED
    BY <1>2, <1>3, <1>4, <1>5, <1>6, <1>7, <1>8

-----------------------------------------------------------------------------
(* Layer 1: types.                                                          *)

\* The ranks of the entries of the current batch (RankFacts at batch).
LEMMA BatchRanks ==
    ASSUME TypeOK
    PROVE  /\ Cardinality(Inserted) \in Nat
           /\ \A i \in DOMAIN batch : Rank(i) \in Nat /\ Rank(i) <= Cardinality(Inserted)
           /\ \A i \in Inserted : Rank(i) > 0
           /\ \A i, j \in Inserted : i < j => Rank(i) < Rank(j)
           /\ blobErrors = {} => \A i \in DOMAIN batch : Rank(i) = i
  <1> DEFINE n == Len(batch)
             rank == [i \in 1..n |-> Cardinality({j \in 1..i : j \notin blobErrors})]
  <1>1. n \in Nat /\ DOMAIN batch = 1..n /\ Inserted = 1..n \ blobErrors
    BY DEF TypeOK, Inserted
  <1>2. \A i \in 1..n : rank[i] = Rank(i)
    BY DEF Rank
  <1>3. /\ Cardinality(1..n \ blobErrors) \in Nat
        /\ \A i \in 1..n : rank[i] \in Nat /\ rank[i] <= Cardinality(1..n \ blobErrors)
        /\ \A i \in 1..n \ blobErrors : rank[i] > 0
        /\ \A i, j \in 1..n \ blobErrors : i < j => rank[i] < rank[j]
        /\ blobErrors = {} => \A i \in 1..n : rank[i] = i
    <2> HIDE DEF n
    <2>1. n \in Nat
      BY <1>1
    <2>2. QED
      BY <2>1, RankFacts
  <1> HIDE DEF n, rank
  <1>4. QED
    BY <1>1, <1>2, <1>3

\* The rows a batch would insert are well-formed, and above lastSeq.
LEMMA BatchRowsTyped ==
    ASSUME TypeOK
    PROVE  /\ BatchRows \subseteq Row
           /\ \A r \in BatchRows : r.seq > lastSeq /\ r.seq <= lastSeq + Cardinality(Inserted)
  <1>1. ASSUME NEW i \in Inserted
        PROVE  /\ i \in DOMAIN batch /\ batch[i] \in Appends
               /\ KeyOf(i) \in Keys \cup {NoKey}
               /\ Rank(i) \in Nat /\ Rank(i) > 0 /\ Rank(i) <= Cardinality(Inserted)
    <2>1. i \in DOMAIN batch /\ batch[i] \in Appends
      BY DEF TypeOK, Inserted
    <2>2. KeyOf(i) \in Keys \cup {NoKey}
      BY <2>1 DEF TypeOK, Request, KeyOf
    <2>3. QED
      BY <2>1, <2>2, BatchRanks
  <1>2. lastSeq \in Nat /\ Cardinality(Inserted) \in Nat
    BY BatchRanks DEF TypeOK
  <1>3. QED
    BY <1>1, <1>2 DEF BatchRows, Row

\* Answering calls keeps the answers well-typed.
LEMMA SendAcksTyped ==
    ASSUME reply \in [Appends -> Answers], NEW f, SendAcks(f),
           \A a \in DOMAIN f : f[a] \in Answers
    PROVE  reply' \in [Appends -> Answers]
  BY DEF SendAcks

\* Whatever the model answers a call is a well-typed answer.
LEMMA AnswersTyped ==
    /\ \A t \in AckTags \cup ErrorTags, n \in Int : Answer(t, n) \in Answers
    /\ Idle \in Answers /\ Pending \in Answers /\ Abandoned \in Answers
  BY DEF Answer, Answers, Idle, Pending, Abandoned

\* The answers of a writer in the failed state are answers.
LEMMA UnavailableTyped ==
    ASSUME NEW calls
    PROVE  \A a \in DOMAIN AllUnavailable(calls) : AllUnavailable(calls)[a] \in Answers
  BY AnswersTyped DEF AllUnavailable, ErrorTags

\* A failed insert leaves sequence and doubtful transactions well-typed.
LEMMA LeaveTransactionTyped ==
    ASSUME TypeOK, LeaveTransaction
    PROVE  lastSeq' \in Nat /\ lastSeq' >= lastSeq /\ inDoubt' \subseteq SUBSET Row
  BY BatchRanks, BatchRowsTyped DEF LeaveTransaction, Burned, TypeOK

\* A flush that ends leaves no batch behind.
LEMMA EmptyBatch ==
    ASSUME EndFlush
    PROVE  batch' \in Seq(Appends) /\ blobErrors' \subseteq DOMAIN batch'
  BY DEF EndFlush

\* Type correctness of the writer: the layer every other proof stands on.
THEOREM TypeCorrect == Spec => []TypeOK
  <1>1. Init => TypeOK
    <2> SUFFICES ASSUME Init PROVE TypeOK
      OBVIOUS
    <2>1. open \in BOOLEAN /\ failed \in BOOLEAN
      BY Zenon DEF Init
    <2>2. req \in [Appends -> Request] /\ reply \in [Appends -> Answers]
      BY AnswersTyped DEF Init, Request
    <2>3. /\ channel \in Seq(Appends) /\ batch \in Seq(Appends) /\ accepted \in Seq(Appends)
          /\ volatileCounter \in Int /\ attempt \in Nat /\ lastSeq \in Nat
          /\ pc \in {"recv", "drain", "insert", "resolve", "gone"}
          /\ blobErrors \subseteq DOMAIN batch
          /\ eventLog \subseteq Row /\ inDoubt \subseteq SUBSET Row
      BY DEF Init
    <2>4. QED
      BY <2>1, <2>2, <2>3, Zenon DEF TypeOK
  <1>2. TypeOK /\ [Next]_vars => TypeOK'
    <2> SUFFICES ASSUME TypeOK, [Next]_vars PROVE TypeOK'
      OBVIOUS
    <2> USE ConstantsAssumption
    <2>1. ASSUME NEW a \in Appends, NEW r \in Requests, AppendTurnedAway(a, r)
          PROVE  TypeOK'
      <3>1. r \in Request /\ Admission(r) \in {"CausalLoop", "Volatile", "NoProducer", "Send"}
        BY DEF Admission
      <3>2. reply' \in [Appends -> Answers] /\ volatileCounter' \in Int
        BY <2>1, <3>1, AnswersTyped DEF AppendTurnedAway, TypeOK, AckTags, ErrorTags
      <3>3. QED
        BY <2>1, <3>1, <3>2 DEF AppendTurnedAway, TypeOK, writerVars, databaseVars
    <2>2. ASSUME NEW a \in Appends, NEW r \in Requests, AppendSend(a, r)
          PROVE  TypeOK'
      <3>1. /\ reply' \in [Appends -> Answers]
            /\ channel' \in Seq(Appends)
            /\ accepted' \in Seq(Appends)
        <4> DEFINE turned(t) == /\ reply' = [reply EXCEPT ![a] = Answer(t, 0)]
                                /\ UNCHANGED <<channel, accepted>>
                   taken == /\ reply' = [reply EXCEPT ![a] = Pending]
                            /\ channel' = Append(channel, a)
                            /\ accepted' = Append(accepted, a)
        <4>1. \/ turned("LogUnavailable") \/ turned("Backpressure") \/ taken
          BY <2>2 DEF AppendSend
        <4>2. /\ Answer("LogUnavailable", 0) \in Answers
              /\ Answer("Backpressure", 0) \in Answers
              /\ Pending \in Answers
          BY AnswersTyped DEF ErrorTags
        <4>3. /\ reply \in [Appends -> Answers]
              /\ channel \in Seq(Appends)
              /\ accepted \in Seq(Appends)
          BY DEF TypeOK
        <4>4. CASE turned("LogUnavailable") \/ turned("Backpressure")
          BY <4>2, <4>3, <4>4
        <4>5. CASE taken
          BY <4>2, <4>3, <4>5, AppendFacts
        <4>6. QED
          BY <4>1, <4>4, <4>5
      <3>2. QED
        BY <2>2, <3>1 DEF AppendSend, TypeOK, writerVars, databaseVars
    <2>3. ASSUME NEW a \in Appends, Abandon(a) PROVE TypeOK'
      BY <2>3, AnswersTyped DEF Abandon, TypeOK, writerVars, databaseVars
    <2>4. CASE DropHandles
      BY <2>4 DEF DropHandles, TypeOK, writerVars, databaseVars
    <2>5. CASE Receive
      <3>1. channel' \in Seq(Appends) /\ batch' \in Seq(Appends)
        BY <2>5, TailFacts, AppendFacts DEF Receive, TypeOK
      <3>2. DOMAIN batch \subseteq DOMAIN batch'
        BY <2>5, TailFacts, AppendFacts DEF Receive, TypeOK
      <3>3. QED
        BY <2>5, <3>1, <3>2 DEF Receive, TypeOK, handleVars, databaseVars
    <2>6. CASE Exit
      BY <2>6 DEF Exit, TypeOK, handleVars, writerVars, databaseVars
    <2>7. CASE StartFlush
      <3>1. reply' \in [Appends -> Answers]
        BY <2>7, SendAcksTyped, UnavailableTyped DEF StartFlush, TypeOK
      <3>2. batch' \in Seq(Appends) /\ blobErrors' \subseteq DOMAIN batch'
        <4>1. CASE failed
          BY <2>7, <4>1, EmptyBatch DEF StartFlush
        <4>2. CASE ~failed
          BY <2>7, <4>2 DEF StartFlush, TypeOK
        <4>3. QED
          BY <4>1, <4>2
      <3>3. QED
        BY <2>7, <3>1, <3>2 DEF StartFlush, EndFlush, TypeOK, databaseVars
    <2>8. CASE InsertCommits
      <3>1. ASSUME NEW i \in DOMAIN batch PROVE CommitAnswer(i) \in Answers
        BY BatchRanks, AnswersTyped DEF CommitAnswer, TypeOK, AckTags, ErrorTags
      <3>2. \A a \in DOMAIN CommitAcks : CommitAcks[a] \in Answers
        BY <3>1 DEF CommitAcks, Range
      <3>3. reply' \in [Appends -> Answers]
        BY <2>8, <3>2, SendAcksTyped DEF InsertCommits, TypeOK
      <3>4. eventLog' \subseteq Row /\ lastSeq' \in Nat
        BY <2>8, BatchRowsTyped, BatchRanks DEF InsertCommits, TypeOK
      <3>5. QED
        BY <2>8, <3>3, <3>4 DEF InsertCommits, EndFlush, TypeOK
    <2>9. CASE InsertCollides
      <3>1. lastSeq' \in Nat
        BY <2>9, BatchRanks DEF InsertCollides, Inserted, TypeOK
      <3>2. QED
        BY <2>9, <3>1 DEF InsertCollides, TypeOK, handleVars, writerVars
    <2>10. CASE InsertTransient
      <3>1. reply' \in [Appends -> Answers]
        BY <2>10, SendAcksTyped, UnavailableTyped DEF InsertTransient, TypeOK
      <3>2. lastSeq' \in Nat /\ inDoubt' \subseteq SUBSET Row
        BY <2>10, LeaveTransactionTyped DEF InsertTransient
      <3>3. failed' \in BOOLEAN
        BY <2>10, Zenon DEF InsertTransient, TypeOK
      <3>4. batch' \in Seq(Appends) /\ blobErrors' \subseteq DOMAIN batch'
        <4>1. CASE attempt + 1 >= RetryCap
          BY <2>10, <4>1, EmptyBatch DEF InsertTransient
        <4>2. CASE ~(attempt + 1 >= RetryCap)
          BY <2>10, <4>2 DEF InsertTransient, TypeOK
        <4>3. QED
          BY <4>1, <4>2
      <3>5. QED
        BY <2>10, <3>1, <3>2, <3>3, <3>4 DEF InsertTransient, EndFlush, TypeOK
    <2>11. CASE InsertFatal
      <3>1. reply' \in [Appends -> Answers]
        BY <2>11, SendAcksTyped, UnavailableTyped DEF InsertFatal, TypeOK
      <3>2. lastSeq' \in Nat /\ inDoubt' \subseteq SUBSET Row
        BY <2>11, LeaveTransactionTyped DEF InsertFatal
      <3>3. QED
        BY <2>11, <3>1, <3>2 DEF InsertFatal, EndFlush, TypeOK
    <2>12. CASE ResolveCollision
      <3>1. ASSUME NEW answer \in CollisionAnswers(Head(batch)) PROVE answer \in Answers
        BY AnswersTyped DEF CollisionAnswers, TypeOK, Row, AckTags, ErrorTags
      <3>2. reply' \in [Appends -> Answers]
        BY <2>12, <3>1 DEF ResolveCollision, SendAcks, TypeOK
      <3>3. batch' \in Seq(Appends)
        BY <2>12, TailFacts DEF ResolveCollision, TypeOK
      <3>4. QED
        BY <2>12, <3>2, <3>3 DEF ResolveCollision, TypeOK, databaseVars
    <2>13. CASE WriterDropped
      <3>1. reply' \in [Appends -> Answers]
        BY <2>13, SendAcksTyped, UnavailableTyped DEF WriterDropped, TypeOK
      <3>2. lastSeq' \in Nat /\ inDoubt' \subseteq SUBSET Row
        BY <2>13, LeaveTransactionTyped DEF WriterDropped, TypeOK
      <3>3. QED
        BY <2>13, <3>1, <3>2 DEF WriterDropped, TypeOK
    <2>14. CASE Restart
      <3>1. open' \in BOOLEAN /\ failed' \in BOOLEAN
        BY <2>14, Zenon DEF Restart
      <3>2. QED
        BY <2>14, <3>1 DEF Restart, TypeOK, databaseVars
    <2>15. ASSUME NEW t \in inDoubt, TxnLands(t) \/ TxnVanishes(t) PROVE TypeOK'
      BY <2>15 DEF TxnLands, TxnVanishes, TypeOK, handleVars, writerVars
    <2>16. CASE UNCHANGED vars
      BY <2>16 DEF vars, TypeOK
    <2>17. QED
      BY <2>1, <2>2, <2>3, <2>4, <2>5, <2>6, <2>7, <2>8, <2>9, <2>10, <2>11, <2>12,
         <2>13, <2>14, <2>15, <2>16
      DEF Next, Producer, Writer, Flush, Database
  <1>3. QED
    BY <1>1, <1>2, PTL DEF Spec

-----------------------------------------------------------------------------
(* Layer 2: the queue.  Every waiting call is held exactly once.            *)

QueueLayer == QueueInv /\ BatchInv /\ NoLostAppend

\* The answers the writer sends are neither Idle nor Pending.
IsFinal(answer) == answer.tag \notin {"Idle", "Pending", "Abandoned"}

\* Answers the writer sends are final and are none of the waiting states.
LEMMA FinalAnswers ==
    /\ \A t \in AckTags \cup ErrorTags : \A n : IsFinal(Answer(t, n))
    /\ \A x : IsFinal(x) => x # Idle /\ x # Pending /\ x # Abandoned
    /\ Idle # Pending /\ Idle # Abandoned /\ Pending # Abandoned
  BY DEF IsFinal, Answer, AckTags, ErrorTags, Idle, Pending, Abandoned

\* The answers of a writer in the failed state are final.
LEMMA UnavailableFinal ==
    ASSUME NEW calls
    PROVE  /\ DOMAIN AllUnavailable(calls) = calls
           /\ \A a \in calls : IsFinal(AllUnavailable(calls)[a])
  BY FinalAnswers DEF AllUnavailable, ErrorTags

\* The answers to a committed batch are final.
LEMMA CommitAcksFinal ==
    /\ DOMAIN CommitAcks = Range(batch)
    /\ \A a \in Range(batch) : IsFinal(CommitAcks[a])
  BY FinalAnswers DEF CommitAcks, CommitAnswer, AckTags, ErrorTags

\* Answering a whole batch and dropping it keeps the queue sound: this is how
\* every path of flush() but the collision path ends.
LEMMA BatchAnswered ==
    ASSUME TypeOK, QueueLayer, NEW f, SendAcks(f), EndFlush, channel' = channel,
           DOMAIN f = Range(batch), \A a \in Range(batch) : IsFinal(f[a]),
           pc # "gone"
    PROVE  QueueLayer'
  <1>1. Range(batch') = {}
    BY RangeFacts, EmptyBatch DEF EndFlush
  <1>2. reply \in [Appends -> Answers]
    BY DEF TypeOK
  <1>3. ASSUME NEW a \in Appends, reply'[a] = Pending PROVE a \in Range(channel)
    <2>1. reply'[a] = IF a \in DOMAIN f /\ reply[a] = Pending THEN f[a] ELSE reply[a]
      BY DEF SendAcks
    <2>2. reply[a] = Pending /\ a \notin Range(batch)
      BY <1>3, <2>1, FinalAnswers
    <2>3. QED
      BY <2>2 DEF QueueLayer, NoLostAppend
  <1>4. ASSUME NEW a \in Range(channel) PROVE reply'[a] = reply[a] /\ a \in Appends
    <2>1. a \in Appends
      BY RangeFacts DEF TypeOK
    <2>2. a \notin DOMAIN f
      BY DEF QueueLayer, QueueInv
    <2>3. QED
      BY <2>1, <2>2 DEF SendAcks
  <1>5. QueueInv'
    <2>1. \A i, j \in DOMAIN batch' : batch'[i] = batch'[j] => i = j
      BY DEF EndFlush
    <2>2. Queued' = Range(channel)
      BY <1>1, Zenon DEF Queued
    <2>3. QED
      BY <1>1, <1>4, <2>1, <2>2 DEF QueueLayer, QueueInv, Queued
  <1>6. NoLostAppend'
    BY <1>3, Zenon DEF NoLostAppend
  <1>7. BatchInv'
    BY DEF EndFlush, BatchInv
  <1>8. QED
    BY <1>5, <1>6, <1>7 DEF QueueLayer

\* A step that leaves answers and queues alone.
LEMMA QueueUnchanged ==
    ASSUME QueueLayer, UNCHANGED <<reply, channel, batch>>
    PROVE  QueueInv' /\ NoLostAppend'
  BY DEF QueueLayer, QueueInv, NoLostAppend, Queued

\* A queued call is never idle.
LEMMA IdleNotQueued ==
    ASSUME QueueInv, NEW a \in Appends, reply[a] = Idle
    PROVE  a \notin Range(channel) /\ a \notin Range(batch)
  BY FinalAnswers DEF QueueInv, Queued

\* One answer to a call that is not queued keeps the queue sound.
LEMMA OtherAnswered ==
    ASSUME TypeOK, QueueLayer, NEW a \in Appends, NEW x, x # Pending,
           reply' = [reply EXCEPT ![a] = x],
           a \in Queued => x = Abandoned,
           UNCHANGED <<channel, batch>>
    PROVE  QueueInv' /\ NoLostAppend'
  <1>1. \A b \in Appends : reply'[b] = IF b = a THEN x ELSE reply[b]
    BY DEF TypeOK
  <1>2. Queued' = Queued /\ Queued \subseteq Appends
    BY RangeFacts DEF Queued, TypeOK
  <1>3. \A b \in Queued : reply'[b] \in {Pending, Abandoned}
    BY <1>1, <1>2 DEF QueueLayer, QueueInv
  <1>4. QueueInv'
    BY <1>2, <1>3 DEF QueueLayer, QueueInv
  <1>5. NoLostAppend'
    BY <1>1 DEF QueueLayer, NoLostAppend
  <1>6. QED
    BY <1>4, <1>5

\* One step keeps the queue sound.
LEMMA QueueStep ==
    ASSUME TypeOK, QueueLayer, [Next]_vars
    PROVE  QueueLayer'
  <1> USE ConstantsAssumption
  <1>1. ASSUME NEW a \in Appends, NEW r \in Requests, AppendTurnedAway(a, r)
        PROVE  QueueLayer'
    <2>1. Admission(r) \in {"CausalLoop", "Volatile", "NoProducer"}
      BY <1>1 DEF AppendTurnedAway, Admission
    <2>2. \E x : reply' = [reply EXCEPT ![a] = x] /\ x # Pending
      <3>1. CASE Admission(r) = "Volatile"
        BY <1>1, <3>1, FinalAnswers DEF AppendTurnedAway, AckTags
      <3>2. CASE Admission(r) # "Volatile"
        BY <1>1, <2>1, <3>2, FinalAnswers DEF AppendTurnedAway, ErrorTags
      <3>3. QED
        BY <3>1, <3>2
    <2>3. a \notin Queued
      BY <1>1, IdleNotQueued DEF AppendTurnedAway, QueueLayer, Queued
    <2>4. QueueInv' /\ NoLostAppend'
      BY <1>1, <2>2, <2>3, OtherAnswered DEF AppendTurnedAway, writerVars
    <2>5. BatchInv'
      BY <1>1 DEF AppendTurnedAway, QueueLayer, BatchInv, writerVars
    <2>6. QED
      BY <2>4, <2>5 DEF QueueLayer
  <1>2. ASSUME NEW a \in Appends, NEW r \in Requests, AppendSend(a, r)
        PROVE  QueueLayer'
    <2>1. a \notin Range(channel) /\ a \notin Range(batch)
      BY <1>2, IdleNotQueued DEF AppendSend, QueueLayer
    <2>2. CASE reply' = [reply EXCEPT ![a] = Pending]
               /\ channel' = Append(channel, a) /\ pc # "gone"
      <3>1. \A b \in Appends : reply'[b] = IF b = a THEN Pending ELSE reply[b]
        BY <2>2 DEF TypeOK
      <3>2. Range(channel') = Range(channel) \cup {a}
        BY <2>2, AppendFacts DEF TypeOK
      <3>3. batch' = batch /\ blobErrors' = blobErrors /\ pc' = pc
        BY <1>2 DEF AppendSend, writerVars
      <3>4. \A i, j \in DOMAIN channel' : channel'[i] = channel'[j] => i = j
        <4>1. /\ DOMAIN channel' = DOMAIN channel \cup {Len(channel) + 1}
              /\ \A i \in DOMAIN channel : channel'[i] = channel[i]
              /\ channel'[Len(channel) + 1] = a
          BY <2>2, AppendFacts DEF TypeOK
        <4>2. \A i \in DOMAIN channel : channel[i] # a
          BY <2>1 DEF Range
        <4>3. \A i, j \in DOMAIN channel : channel[i] = channel[j] => i = j
          BY DEF QueueLayer, QueueInv
        <4>4. QED
          BY <4>1, <4>2, <4>3, Zenon
      <3>5. Queued' = Queued \cup {a} /\ Queued \subseteq Appends
        BY <3>2, <3>3, RangeFacts DEF Queued, TypeOK
      <3>6. \A b \in Queued' : reply'[b] \in {Pending, Abandoned}
        BY <3>1, <3>5 DEF QueueLayer, QueueInv
      <3>7. QueueInv'
        BY <2>1, <3>2, <3>3, <3>4, <3>6 DEF QueueLayer, QueueInv
      <3>8. NoLostAppend'
        BY <3>1, <3>2, <3>3 DEF QueueLayer, NoLostAppend
      <3>9. BatchInv'
        BY <2>2, <3>3 DEF QueueLayer, BatchInv
      <3>10. QED
        BY <3>7, <3>8, <3>9 DEF QueueLayer
    <2>3. CASE \E x : /\ reply' = [reply EXCEPT ![a] = x] /\ x # Pending
                      /\ channel' = channel
      <3>1. QueueInv' /\ NoLostAppend'
        BY <1>2, <2>1, <2>3, OtherAnswered DEF AppendSend, writerVars, Queued
      <3>2. BatchInv'
        BY <1>2, <2>3 DEF AppendSend, QueueLayer, BatchInv, writerVars
      <3>3. QED
        BY <3>1, <3>2 DEF QueueLayer
    <2>4. Answer("LogUnavailable", 0) # Pending /\ Answer("Backpressure", 0) # Pending
      BY FinalAnswers DEF ErrorTags
    <2>5. QED
      BY <1>2, <2>2, <2>3, <2>4 DEF AppendSend
  <1>3. ASSUME NEW a \in Appends, Abandon(a) PROVE QueueLayer'
    <2>1. QueueInv' /\ NoLostAppend'
      BY <1>3, OtherAnswered, FinalAnswers DEF Abandon, writerVars
    <2>2. BatchInv'
      BY <1>3 DEF Abandon, QueueLayer, BatchInv, writerVars
    <2>3. QED
      BY <2>1, <2>2 DEF QueueLayer
  <1>4. CASE DropHandles
    BY <1>4, QueueUnchanged DEF DropHandles, QueueLayer, BatchInv, writerVars
  <1>5. CASE Receive
    <2> DEFINE h == Head(channel)
    <2>1. /\ channel # <<>> /\ channel' = Tail(channel) /\ batch' = Append(batch, h)
          /\ reply' = reply /\ pc' = "drain" /\ blobErrors' = blobErrors
          /\ pc \in {"recv", "drain"}
      BY <1>5 DEF Receive, handleVars
    <2>2. h \in Appends /\ channel \in Seq(Appends) /\ batch \in Seq(Appends)
      BY <2>1, TailFacts DEF TypeOK
    <2>3. /\ Range(channel) = Range(channel') \cup {h}
          /\ Range(batch') = Range(batch) \cup {h}
          /\ batch' # <<>>
      BY <2>1, <2>2, TailFacts, AppendFacts
    <2>4. h \notin Range(channel')
      <3>1. \A i \in DOMAIN Tail(channel) : /\ i + 1 \in DOMAIN channel
                                            /\ Tail(channel)[i] = channel[i + 1]
                                            /\ i + 1 # 1
        BY <2>1, <2>2
      <3>2. 1 \in DOMAIN channel /\ h = channel[1]
        BY <2>1, <2>2, TailFacts
      <3>3. QED
        BY <2>1, <3>1, <3>2 DEF QueueLayer, QueueInv, Range
    <2>5. h \notin Range(batch)
      BY <2>3 DEF QueueLayer, QueueInv
    <2>6. \A i, j \in DOMAIN channel' : channel'[i] = channel'[j] => i = j
      <3>1. \A i \in DOMAIN Tail(channel) : /\ i + 1 \in DOMAIN channel
                                            /\ Tail(channel)[i] = channel[i + 1]
        BY <2>1, <2>2
      <3>2. DOMAIN Tail(channel) \subseteq Int
        BY <2>1, <2>2
      <3>3. \A i, j \in DOMAIN channel : channel[i] = channel[j] => i = j
        BY DEF QueueLayer, QueueInv
      <3>4. ASSUME NEW i \in DOMAIN Tail(channel), NEW j \in DOMAIN Tail(channel),
                   Tail(channel)[i] = Tail(channel)[j]
            PROVE  i = j
        <4>1. i + 1 = j + 1
          BY <3>1, <3>3, <3>4
        <4>2. QED
          BY <4>1, <3>2
      <3>5. QED
        BY <2>1, <3>4
    <2>7. \A i, j \in DOMAIN batch' : batch'[i] = batch'[j] => i = j
      <3>1. /\ DOMAIN batch' = DOMAIN batch \cup {Len(batch) + 1}
            /\ \A i \in DOMAIN batch : batch'[i] = batch[i]
            /\ batch'[Len(batch) + 1] = h
        BY <2>1, <2>2, AppendFacts
      <3>2. \A i \in DOMAIN batch : batch[i] # h
        BY <2>5 DEF Range
      <3>3. \A i, j \in DOMAIN batch : batch[i] = batch[j] => i = j
        BY DEF QueueLayer, QueueInv
      <3>4. QED
        BY <3>1, <3>2, <3>3, Zenon
    <2>8. Queued' = Queued
      BY <2>3, Zenon DEF Queued
    <2> HIDE DEF h
    <2>9. Range(channel') \cap Range(batch') = {}
      BY <2>3, <2>4 DEF QueueLayer, QueueInv
    <2>10. QueueInv'
      BY <2>1, <2>6, <2>7, <2>8, <2>9 DEF QueueLayer, QueueInv
    <2>11. NoLostAppend'
      BY <2>1, <2>3 DEF QueueLayer, NoLostAppend
    <2>12. BatchInv'
      BY <2>1, <2>3 DEF QueueLayer, BatchInv
    <2>13. QED
      BY <2>10, <2>11, <2>12 DEF QueueLayer
  <1>6. CASE Exit
    BY <1>6, QueueUnchanged DEF Exit, QueueLayer, BatchInv, handleVars, writerVars
  <1>7. CASE StartFlush
    <2>1. CASE failed
      BY <1>7, <2>1, BatchAnswered, UnavailableFinal DEF StartFlush
    <2>2. CASE ~failed
      BY <1>7, <2>2, QueueUnchanged DEF StartFlush, QueueLayer, BatchInv
    <2>3. QED
      BY <2>1, <2>2
  <1>8. CASE InsertCommits
    BY <1>8, BatchAnswered, CommitAcksFinal DEF InsertCommits
  <1>9. CASE InsertCollides
    <2>1. batch # <<>>
      BY <1>9 DEF InsertCollides, Inserted
    <2>2. QED
      BY <1>9, <2>1, QueueUnchanged
      DEF InsertCollides, QueueLayer, BatchInv, handleVars, writerVars
  <1>10. CASE InsertTransient
    <2>1. CASE attempt + 1 >= RetryCap
      BY <1>10, <2>1, BatchAnswered, UnavailableFinal DEF InsertTransient
    <2>2. CASE ~(attempt + 1 >= RetryCap)
      BY <1>10, <2>2, QueueUnchanged DEF InsertTransient, QueueLayer, BatchInv
    <2>3. QED
      BY <2>1, <2>2
  <1>11. CASE InsertFatal
    BY <1>11, BatchAnswered, UnavailableFinal DEF InsertFatal
  <1>12. CASE ResolveCollision
    <2> DEFINE h == Head(batch)
    <2>1. /\ batch # <<>> /\ batch' = Tail(batch) /\ channel' = channel
          /\ batch \in Seq(Appends) /\ channel \in Seq(Appends)
      BY <1>12 DEF ResolveCollision, TypeOK
    <2>2. h \in Appends /\ Range(batch) = Range(batch') \cup {h}
      BY <2>1, TailFacts
    <2>3. PICK x \in CollisionAnswers(h) : SendAcks([a \in {h} |-> x])
      BY <1>12 DEF ResolveCollision
    <2>4. IsFinal(x)
      BY FinalAnswers DEF CollisionAnswers, AckTags, ErrorTags
    <2>5. \A b \in Appends : reply'[b] = IF b = h /\ reply[b] = Pending THEN x ELSE reply[b]
      BY <2>3 DEF SendAcks
    <2>6. h \notin Range(batch')
      <3>1. \A i \in DOMAIN Tail(batch) : /\ i + 1 \in DOMAIN batch
                                          /\ Tail(batch)[i] = batch[i + 1]
                                          /\ i + 1 # 1
        BY <2>1
      <3>2. 1 \in DOMAIN batch /\ h = batch[1]
        BY <2>1, TailFacts
      <3>3. QED
        BY <2>1, <3>1, <3>2 DEF QueueLayer, QueueInv, Range
    <2>7. \A i, j \in DOMAIN batch' : batch'[i] = batch'[j] => i = j
      <3>1. \A i \in DOMAIN Tail(batch) : /\ i + 1 \in DOMAIN batch
                                          /\ Tail(batch)[i] = batch[i + 1]
        BY <2>1
      <3>2. DOMAIN Tail(batch) \subseteq Int
        BY <2>1
      <3>3. \A i, j \in DOMAIN batch : batch[i] = batch[j] => i = j
        BY DEF QueueLayer, QueueInv
      <3>4. ASSUME NEW i \in DOMAIN Tail(batch), NEW j \in DOMAIN Tail(batch),
                   Tail(batch)[i] = Tail(batch)[j]
            PROVE  i = j
        <4>1. i + 1 = j + 1
          BY <3>1, <3>3, <3>4
        <4>2. QED
          BY <4>1, <3>2
      <3>5. QED
        BY <2>1, <3>4
    <2> HIDE DEF h
    <2>8. Queued' \subseteq Queued \ {h} /\ Queued \subseteq Appends
      <3>1. h \notin Range(channel)
        BY <2>2 DEF QueueLayer, QueueInv
      <3>2. Range(channel) \subseteq Appends /\ Range(batch) \subseteq Appends
        BY <2>1, RangeFacts
      <3>3. QED
        BY <2>1, <2>2, <2>6, <3>1, <3>2 DEF Queued
    <2>9. QueueInv'
      BY <2>1, <2>2, <2>5, <2>7, <2>8 DEF QueueLayer, QueueInv
    <2>10. NoLostAppend'
      <3>1. ASSUME NEW b \in Appends, reply'[b] = Pending
            PROVE  b \in Range(channel) \cup Range(batch')
        <4>1. b # h /\ reply[b] = Pending
          BY <2>4, <2>5, <3>1, FinalAnswers
        <4>2. QED
          BY <4>1, <2>2 DEF QueueLayer, NoLostAppend
      <3>2. QED
        BY <2>1, <3>1 DEF NoLostAppend
    <2>11. BatchInv'
      <3>1. Len(batch) = 1 => batch' = <<>>
        BY <2>1
      <3>2. Len(batch) # 1 => batch' # <<>>
        <4>1. Len(batch) \in Nat /\ Len(batch) # 0 /\ Len(<<>>) = 0
          BY <2>1
        <4>2. Len(batch') = Len(batch) - 1
          BY <2>1, TailFacts
        <4>3. QED
          BY <4>1, <4>2
      <3>3. QED
        BY <1>12, <3>1, <3>2 DEF ResolveCollision, QueueLayer, BatchInv
    <2>12. QED
      BY <2>9, <2>10, <2>11 DEF QueueLayer
  <1>13. CASE WriterDropped
    <2> DEFINE f == AllUnavailable(Range(channel) \cup Range(batch))
    <2>1. SendAcks(f) /\ channel' = <<>> /\ batch' = <<>> /\ blobErrors' = {} /\ pc' = "gone"
      BY <1>13 DEF WriterDropped
    <2>2. Range(channel') = {} /\ Range(batch') = {}
      BY <2>1 DEF Range
    <2>3. DOMAIN f = Queued /\ \A a \in Queued : IsFinal(f[a])
      BY UnavailableFinal DEF Queued
    <2>4. \A a \in Appends : reply'[a] # Pending
      <3> TAKE a \in Appends
      <3>1. reply'[a] = IF a \in DOMAIN f /\ reply[a] = Pending THEN f[a] ELSE reply[a]
        BY <2>1 DEF SendAcks
      <3> HIDE DEF f
      <3>2. QED
        BY <2>3, <3>1, FinalAnswers DEF QueueLayer, NoLostAppend, Queued
    <2>5. Queued' = {}
      BY <2>2, Zenon DEF Queued
    <2>6. QueueInv'
      BY <2>1, <2>2, <2>5 DEF QueueInv
    <2>7. BatchInv'
      BY <2>1 DEF BatchInv
    <2>8. NoLostAppend'
      BY <2>4 DEF NoLostAppend
    <2>9. QED
      BY <2>6, <2>7, <2>8 DEF QueueLayer
  <1>14. CASE Restart
    BY <1>14, QueueUnchanged DEF Restart, QueueLayer, BatchInv, TypeOK
  <1>15. ASSUME NEW t \in inDoubt, TxnLands(t) \/ TxnVanishes(t) PROVE QueueLayer'
    BY <1>15, QueueUnchanged
    DEF TxnLands, TxnVanishes, QueueLayer, BatchInv, handleVars, writerVars
  <1>16. CASE UNCHANGED vars
    BY <1>16, QueueUnchanged DEF vars, QueueLayer, BatchInv
  <1>17. QED
    BY <1>1, <1>2, <1>3, <1>4, <1>5, <1>6, <1>7, <1>8, <1>9, <1>10, <1>11, <1>12,
       <1>13, <1>14, <1>15, <1>16
    DEF Next, Producer, Writer, Flush, Database

\* No waiting append is ever forgotten, whatever the batch sizes, collisions,
\* retries and failures: a pending oneshot is always in the channel or in the
\* batch the writer holds, and is held exactly once.
THEOREM NothingLost == Spec => [](QueueInv /\ BatchInv /\ NoLostAppend)
  <1>1. Init => QueueLayer
    BY FinalAnswers DEF Init, QueueLayer, QueueInv, BatchInv, NoLostAppend, Queued, Range
  <1>2. TypeOK /\ QueueLayer /\ [Next]_vars => QueueLayer'
    BY QueueStep
  <1>3. Spec => []QueueLayer
    BY <1>1, <1>2, TypeCorrect, PTL DEF Spec
  <1>4. QED
    BY <1>3 DEF QueueLayer

-----------------------------------------------------------------------------
(* Layer 3: the rows.                                                       *)

RowLayer == RowInv /\ RowsUnique /\ UnsentInv

\* A call that was made keeps its request, and an answered call its answer.
Stable ==
    \A a \in Appends :
        /\ reply[a] # Idle => reply'[a] # Idle /\ req'[a] = req[a]
        /\ reply[a] \notin {Idle, Pending} => reply'[a] = reply[a]

\* Sending final answers never makes a call idle and never changes a final
\* answer.
LEMMA SendAcksStable ==
    ASSUME NEW f, SendAcks(f), \A a \in DOMAIN f : IsFinal(f[a]), req' = req
    PROVE  Stable
  BY FinalAnswers DEF SendAcks, Stable

\* The answers the collision path may give are final.
LEMMA CollisionFinal ==
    ASSUME NEW a, NEW x \in CollisionAnswers(a)
    PROVE  IsFinal(x)
  BY FinalAnswers DEF CollisionAnswers, AckTags, ErrorTags

\* Every step of the system is stable.
LEMMA AnswerStable ==
    ASSUME TypeOK, [Next]_vars
    PROVE  Stable
  <1>1. ASSUME NEW a \in Appends, NEW r \in Requests,
               AppendTurnedAway(a, r) \/ AppendSend(a, r)
        PROVE  Stable
    <2>1. reply[a] = Idle /\ req' = [req EXCEPT ![a] = r]
      BY <1>1 DEF AppendTurnedAway, AppendSend
    <2>2. \E x : reply' = [reply EXCEPT ![a] = x]
      BY <1>1 DEF AppendTurnedAway, AppendSend
    <2>3. QED
      BY <2>1, <2>2 DEF TypeOK, Stable
  <1>2. ASSUME NEW a \in Appends, Abandon(a) PROVE Stable
    BY <1>2, FinalAnswers DEF Abandon, TypeOK, Stable
  <1>4. UNCHANGED <<req, reply>> => Stable
    BY DEF Stable
  <1>5. CASE StartFlush
    BY <1>5, SendAcksStable, <1>4, UnavailableFinal DEF StartFlush
  <1>6. CASE InsertCommits
    BY <1>6, SendAcksStable, CommitAcksFinal DEF InsertCommits
  <1>7. CASE InsertTransient
    BY <1>7, SendAcksStable, <1>4, UnavailableFinal DEF InsertTransient
  <1>8. CASE InsertFatal
    BY <1>8, SendAcksStable, UnavailableFinal DEF InsertFatal
  <1>9. CASE ResolveCollision
    <2>1. PICK x \in CollisionAnswers(Head(batch)) : SendAcks([a \in {Head(batch)} |-> x])
      BY <1>9 DEF ResolveCollision
    <2>2. QED
      BY <1>9, <2>1, SendAcksStable, CollisionFinal DEF ResolveCollision
  <1>10. CASE WriterDropped
    BY <1>10, SendAcksStable, UnavailableFinal DEF WriterDropped
  <1>11. CASE \/ DropHandles \/ Receive \/ Exit \/ InsertCollides \/ Restart
              \/ (\E t \in inDoubt : TxnLands(t) \/ TxnVanishes(t)) \/ UNCHANGED vars
    BY <1>11, <1>4
    DEF DropHandles, Receive, Exit, InsertCollides, Restart, TxnLands, TxnVanishes,
        vars, handleVars
  <1>12. QED
    BY <1>1, <1>2, <1>5, <1>6, <1>7, <1>8, <1>9, <1>10, <1>11
    DEF Next, Producer, Writer, Flush, Database

\* How the rows may change in a step: not at all (some may vanish), or by the
\* rows of a batch all of whose INSERTs went through.
Grows ==
    /\ pc = "insert" /\ AllInsert
    /\ AllRows' \subseteq AllRows \cup BatchRows
    /\ lastSeq' = lastSeq + Cardinality(Inserted)

Keeps == AllRows' \subseteq AllRows /\ lastSeq' \in Int /\ lastSeq' >= lastSeq

\* A failed insert adds no row; it may leave its rows in doubt.
LEMMA LeaveTransactionRows ==
    ASSUME TypeOK, LeaveTransaction, eventLog' = eventLog, pc = "insert"
    PROVE  Keeps \/ Grows
  <1>1. CASE AllInsert /\ lastSeq' = lastSeq + Cardinality(Inserted)
             /\ inDoubt' = inDoubt \cup {BatchRows}
    BY <1>1, Zenon DEF Grows, AllRows
  <1>2. CASE lastSeq' \in Burned /\ UNCHANGED inDoubt
    BY <1>2, BatchRanks DEF Keeps, AllRows, Burned, TypeOK
  <1>3. QED
    BY <1>1, <1>2 DEF LeaveTransaction

\* The log only grows, and only by transactions that went through.
LEMMA RowGrowth ==
    ASSUME TypeOK, [Next]_vars
    PROVE  (Keeps \/ Grows) /\ eventLog \subseteq eventLog'
  <1>0. lastSeq \in Nat
    BY DEF TypeOK
  <1>1. CASE InsertCommits
    BY <1>1 DEF InsertCommits, Grows, AllRows
  <1>2. CASE InsertCollides
    <2>1. lastSeq' \in Int /\ lastSeq' >= lastSeq
      BY <1>0, <1>2, BatchRanks DEF InsertCollides, Inserted
    <2>2. QED
      BY <1>2, <2>1 DEF InsertCollides, Keeps, AllRows
  <1>3. CASE InsertTransient \/ InsertFatal
    BY <1>3, LeaveTransactionRows DEF InsertTransient, InsertFatal
  <1>4. CASE WriterDropped
    BY <1>0, <1>4, LeaveTransactionRows DEF WriterDropped, Keeps, AllRows
  <1>5. ASSUME NEW t \in inDoubt, TxnLands(t) \/ TxnVanishes(t)
        PROVE  Keeps /\ eventLog \subseteq eventLog'
    BY <1>0, <1>5 DEF TxnLands, TxnVanishes, Keeps, AllRows
  <1>6. CASE UNCHANGED <<eventLog, lastSeq, inDoubt>>
    BY <1>0, <1>6 DEF Keeps, AllRows
  <1>7. CASE \/ \E a \in Appends, r \in Requests : AppendTurnedAway(a, r) \/ AppendSend(a, r)
             \/ \E a \in Appends : Abandon(a)
             \/ DropHandles \/ Receive \/ Exit \/ StartFlush \/ ResolveCollision
             \/ Restart \/ UNCHANGED vars
    BY <1>6, <1>7
    DEF AppendTurnedAway, AppendSend, Abandon, DropHandles, Receive, Exit, StartFlush,
        ResolveCollision, Restart, vars, databaseVars
  <1>8. QED
    BY <1>1, <1>2, <1>3, <1>4, <1>5, <1>7
    DEF Next, Producer, Writer, Flush, Database

\* What is known of a row of the batch.
LEMMA BatchRowFacts ==
    ASSUME TypeOK, NEW r \in BatchRows
    PROVE  \E i \in Inserted : /\ i \in DOMAIN batch /\ i \notin blobErrors
                               /\ r.id = batch[i] /\ r.id \in Range(batch)
                               /\ r.key = KeyOf(i) /\ r.key = req[r.id].key
                               /\ r.seq = lastSeq + Rank(i)
                               /\ r = [seq |-> lastSeq + Rank(i), id |-> batch[i], key |-> KeyOf(i)]
  <1>1. PICK i \in Inserted :
           r = [seq |-> lastSeq + Rank(i), id |-> batch[i], key |-> KeyOf(i)]
    BY DEF BatchRows
  <1>2. i \in DOMAIN batch /\ i \notin blobErrors
    BY DEF Inserted
  <1>3. batch[i] \in Range(batch)
    BY <1>2 DEF Range
  <1>4. QED
    BY <1>1, <1>2, <1>3 DEF KeyOf

\* A batch whose INSERTs all went through collides with no row, in seq or in
\* key: not with the log, not with a transaction in doubt, not with itself.
LEMMA FreshRows ==
    ASSUME TypeOK, RowInv, RowsUnique, AllInsert,
           NEW r \in AllRows \cup BatchRows, NEW s \in AllRows \cup BatchRows
    PROVE  /\ r.seq = s.seq => r = s
           /\ r.key = s.key /\ r.key # NoKey => r = s
  <1>1. CASE r \in AllRows /\ s \in AllRows
    BY <1>1 DEF RowsUnique
  <1>2. ASSUME NEW x \in AllRows, NEW y \in BatchRows
        PROVE  x.seq # y.seq /\ ~(y.key # NoKey /\ x.key = y.key)
    <2>1. PICK i \in Inserted : y.key = KeyOf(i)
      BY BatchRowFacts
    <2>2. x.seq <= lastSeq /\ y.seq > lastSeq
      BY BatchRowsTyped DEF RowInv
    <2>3. x.seq \in Nat /\ y.seq \in Nat /\ lastSeq \in Nat
      BY BatchRowsTyped DEF TypeOK, AllRows, Row
    <2>4. ~(y.key # NoKey /\ x.key = y.key)
      BY <2>1 DEF AllInsert, Hits, Waits, AllRows
    <2>5. QED
      BY <2>2, <2>3, <2>4
  <1>3. CASE r \in BatchRows /\ s \in BatchRows
    <2>1. PICK i \in Inserted :
             /\ i \in DOMAIN batch /\ r.key = KeyOf(i) /\ r.seq = lastSeq + Rank(i)
             /\ r = [seq |-> lastSeq + Rank(i), id |-> batch[i], key |-> KeyOf(i)]
      BY <1>3, BatchRowFacts
    <2>2. PICK j \in Inserted :
             /\ j \in DOMAIN batch /\ s.key = KeyOf(j) /\ s.seq = lastSeq + Rank(j)
             /\ s = [seq |-> lastSeq + Rank(j), id |-> batch[j], key |-> KeyOf(j)]
      BY <1>3, BatchRowFacts
    <2>3. i = j => r = s
      BY <2>1, <2>2
    <2>4. ASSUME i # j PROVE r.seq # s.seq /\ ~(r.key # NoKey /\ r.key = s.key)
      <3>1. (i < j \/ j < i) /\ i \in Int /\ j \in Int
        BY <2>1, <2>2, <2>4 DEF TypeOK
      <3>2. Rank(i) # Rank(j) /\ Rank(i) \in Nat /\ Rank(j) \in Nat
        BY <2>1, <2>2, <3>1, BatchRanks
      <3>3. r.seq # s.seq
        BY <2>1, <2>2, <3>2 DEF TypeOK
      <3>4. ~(r.key # NoKey /\ r.key = s.key)
        BY <2>1, <2>2, <3>1 DEF AllInsert, Hits
      <3>5. QED
        BY <3>3, <3>4
    <2>5. QED
      BY <2>3, <2>4
  <1>4. QED
    BY <1>1, <1>2, <1>3

\* The sequence is a number before and after a step that keeps the rows.
LEMMA TypeNat ==
    ASSUME TypeOK
    PROVE  lastSeq \in Nat /\ lastSeq >= lastSeq
  BY DEF TypeOK

\* Rows keep their keys and stay unique in every step.
LEMMA RowStep ==
    ASSUME TypeOK, QueueLayer, RowLayer, [Next]_vars
    PROVE  RowInv' /\ RowsUnique'
  <1>1. AllRows \subseteq Row /\ BatchRows \subseteq Row /\ lastSeq \in Nat
        /\ Cardinality(Inserted) \in Nat
    BY BatchRowsTyped, BatchRanks DEF TypeOK, AllRows
  <1>2. Stable
    BY AnswerStable
  <1>3. ASSUME NEW r \in Row, r.key = req[r.id].key, reply[r.id] # Idle
        PROVE  r.key = req'[r.id].key /\ reply'[r.id] # Idle
    <2>1. r.id \in Appends
      BY DEF Row
    <2>2. QED
      BY <1>2, <1>3, <2>1 DEF Stable
  <1>4. ASSUME NEW r \in AllRows
        PROVE  r \in Row /\ r.seq \in Nat /\ r.seq <= lastSeq
               /\ r.key = req[r.id].key /\ reply[r.id] # Idle
    BY <1>1 DEF RowLayer, RowInv, Row
  <1>5. ASSUME NEW r \in BatchRows
        PROVE  r \in Row /\ r.seq \in Nat /\ r.seq <= lastSeq + Cardinality(Inserted)
               /\ r.key = req[r.id].key /\ reply[r.id] # Idle
    <2>1. r.key = req[r.id].key /\ r.id \in Range(batch)
      BY BatchRowFacts
    <2>2. reply[r.id] # Idle
      BY <2>1, FinalAnswers DEF QueueLayer, QueueInv, Queued
    <2>3. QED
      BY <1>1, <2>1, <2>2, BatchRowsTyped DEF Row
  <1>6. CASE Keeps
    <2>1. lastSeq' \in Int /\ AllRows' \subseteq AllRows
      BY <1>6, TypeNat DEF Keeps
    <2>2. \A r \in AllRows' : r.seq <= lastSeq'
      BY <1>1, <1>4, <1>6, <2>1 DEF Keeps
    <2>3. RowInv'
      BY <1>3, <1>4, <2>1, <2>2 DEF RowInv
    <2>4. RowsUnique'
      BY <2>1 DEF RowLayer, RowsUnique
    <2>5. QED
      BY <2>3, <2>4
  <1>7. CASE Grows
    <2>1. AllRows' \subseteq AllRows \cup BatchRows /\ AllInsert
          /\ lastSeq' = lastSeq + Cardinality(Inserted)
      BY <1>7 DEF Grows
    <2>2. \A r \in AllRows' : r.seq <= lastSeq'
      BY <1>1, <1>4, <1>5, <2>1
    <2>3. RowInv'
      BY <1>3, <1>4, <1>5, <2>1, <2>2 DEF RowInv
    <2>4. RowsUnique'
      BY <2>1, FreshRows DEF RowLayer, RowsUnique
    <2>5. QED
      BY <2>3, <2>4
  <1>8. QED
    BY <1>6, <1>7, RowGrowth

\* What has not been sent to the database has no row, in every step.
LEMMA UnsentStep ==
    ASSUME TypeOK, QueueLayer, RowLayer, [Next]_vars
    PROVE  UnsentInv'
  <1> USE DEF QueueLayer, RowLayer
  <1>1. ASSUME UNCHANGED <<channel, batch, blobErrors, pc>>, Keeps PROVE UnsentInv'
    BY <1>1 DEF UnsentInv, Keeps
  <1>2. ASSUME EndFlush, channel' = channel, Keeps \/ Grows PROVE UnsentInv'
    <2>1. Range(batch') = {} /\ pc' = "recv"
      BY <1>2 DEF EndFlush, Range
    <2>2. \A r \in AllRows' : r.id \notin Range(channel)
      BY <1>2, BatchRowFacts DEF UnsentInv, Keeps, Grows, QueueInv
    <2>3. QED
      BY <1>2, <2>1, <2>2 DEF UnsentInv
  <1>3. ASSUME NEW a \in Appends, NEW r \in Requests, AppendSend(a, r)
        PROVE  UnsentInv'
    <2>1. /\ AllRows' = AllRows /\ batch' = batch /\ blobErrors' = blobErrors /\ pc' = pc
          /\ reply[a] = Idle
      BY <1>3 DEF AppendSend, AllRows, writerVars, databaseVars
    <2>2. Range(channel') \subseteq Range(channel) \cup {a}
      <3>1. channel \in Seq(Appends)
        BY DEF TypeOK
      <3>2. Range(Append(channel, a)) = Range(channel) \cup {a}
        BY <3>1, AppendFacts
      <3>3. channel' = channel \/ channel' = Append(channel, a)
        BY <1>3 DEF AppendSend
      <3>4. QED
        BY <3>2, <3>3
    <2>3. \A x \in AllRows : x.id # a
      BY <2>1 DEF RowInv
    <2>4. QED
      BY <2>1, <2>2, <2>3 DEF UnsentInv
  <1>4. CASE Receive
    <2>1. /\ AllRows' = AllRows /\ blobErrors' = blobErrors /\ pc' = "drain"
          /\ pc \in {"recv", "drain"}
      BY <1>4 DEF Receive, AllRows, databaseVars
    <2>2. /\ Range(channel) = Range(channel') \cup {Head(channel)}
          /\ Range(batch') = Range(batch) \cup {Head(channel)}
      BY <1>4, TailFacts, AppendFacts DEF Receive, TypeOK
    <2>3. QED
      BY <2>1, <2>2 DEF UnsentInv
  <1>5. CASE StartFlush
    <2>1. AllRows' = AllRows /\ channel' = channel /\ pc = "drain"
      BY <1>5 DEF StartFlush, AllRows, databaseVars
    <2>2. CASE failed
      BY <1>5, <2>1, <2>2, <1>2, TypeNat DEF StartFlush, Keeps, databaseVars
    <2>3. CASE ~failed
      <3>1. batch' = batch /\ pc' = "insert" /\ blobErrors' \subseteq DOMAIN batch
        BY <1>5, <2>3 DEF StartFlush
      <3>2. \A i \in blobErrors' : batch[i] \in Range(batch)
        BY <3>1 DEF Range
      <3>3. QED
        BY <2>1, <3>1, <3>2 DEF UnsentInv
    <2>4. QED
      BY <2>2, <2>3
  <1>6. CASE InsertCommits \/ InsertFatal
    BY <1>6, <1>2, RowGrowth DEF InsertCommits, InsertFatal
  <1>7. CASE InsertCollides
    <2>1. AllRows' = AllRows /\ channel' = channel /\ pc' = "resolve"
      BY <1>7 DEF InsertCollides, AllRows
    <2>2. QED
      BY <2>1 DEF UnsentInv
  <1>8. CASE InsertTransient
    <2>1. CASE attempt + 1 >= RetryCap
      BY <1>8, <2>1, <1>2, RowGrowth DEF InsertTransient
    <2>2. CASE ~(attempt + 1 >= RetryCap)
      <3>1. /\ batch' = batch /\ blobErrors' = blobErrors /\ channel' = channel
            /\ pc = "insert" /\ pc' = "insert"
        BY <1>8, <2>2 DEF InsertTransient
      <3>2. ASSUME NEW r \in BatchRows
            PROVE  r.id \notin Range(channel) /\ \A i \in blobErrors : r.id # batch[i]
        <4>1. PICK j \in DOMAIN batch : j \notin blobErrors /\ r.id = batch[j] /\ r.id \in Range(batch)
          BY BatchRowFacts
        <4>2. \A i \in blobErrors : i \in DOMAIN batch
          BY DEF TypeOK
        <4>3. QED
          BY <4>1, <4>2 DEF QueueInv
      <3>3. AllRows' \subseteq AllRows \cup BatchRows
        BY RowGrowth DEF Keeps, Grows
      <3>4. QED
        BY <3>1, <3>2, <3>3 DEF UnsentInv
    <2>3. QED
      BY <2>1, <2>2
  <1>9. CASE ResolveCollision
    <2>1. /\ AllRows' = AllRows /\ channel' = channel
          /\ pc' \in {"recv", "resolve"} /\ (pc' = "recv" => batch' = <<>>)
      <3>1. Len(batch) = 1 => batch' = <<>>
        <4>1. batch \in Seq(Appends) /\ batch # <<>> /\ batch' = Tail(batch)
          BY <1>9 DEF TypeOK, ResolveCollision
        <4>2. QED
          BY <4>1
      <3>2. QED
        BY <1>9, <3>1 DEF ResolveCollision, AllRows, databaseVars
    <2>2. pc' = "recv" => Range(batch') = {}
      BY <2>1 DEF Range
    <2>3. QED
      BY <2>1, <2>2 DEF UnsentInv
  <1>10. CASE WriterDropped
    <2>1. channel' = <<>> /\ pc' = "gone"
      BY <1>10 DEF WriterDropped
    <2>2. Range(channel') = {}
      BY <2>1 DEF Range
    <2>3. QED
      BY <2>1, <2>2 DEF UnsentInv
  <1>11. CASE Exit \/ Restart
    <2>1. /\ AllRows' = AllRows /\ channel' = channel /\ batch' = batch
          /\ pc \in {"recv", "gone"} /\ pc' \in {"recv", "gone"}
      BY <1>11 DEF Exit, Restart, AllRows, databaseVars, writerVars
    <2>2. Range(batch) = {}
      BY <2>1 DEF BatchInv, Range
    <2>3. QED
      BY <2>1, <2>2 DEF UnsentInv
  <1>12. CASE \/ \E a \in Appends, r \in Requests : AppendTurnedAway(a, r)
              \/ \E a \in Appends : Abandon(a)
              \/ DropHandles
              \/ UNCHANGED vars
    <2>1. UNCHANGED <<channel, batch, blobErrors, pc, eventLog, lastSeq, inDoubt>>
      BY <1>12
      DEF AppendTurnedAway, Abandon, DropHandles, vars, writerVars, databaseVars
    <2>2. QED
      BY <2>1, <1>1, TypeNat DEF Keeps, AllRows
  <1>13. ASSUME NEW t \in inDoubt, TxnLands(t) \/ TxnVanishes(t) PROVE UnsentInv'
    <2>1. UNCHANGED <<channel, batch, blobErrors, pc, lastSeq>> /\ AllRows' \subseteq AllRows
      BY <1>13 DEF TxnLands, TxnVanishes, AllRows, writerVars
    <2>2. QED
      BY <2>1, <1>1, TypeNat DEF Keeps
  <1>14. QED
    BY <1>3, <1>4, <1>5, <1>6, <1>7, <1>8, <1>9, <1>10, <1>11, <1>12, <1>13
    DEF Next, Producer, Writer, Flush, Database

\* Rows are unique in seq and in dedupe key, counting transactions whose
\* outcome is still open, so a retried keyed event is never stored twice.
THEOREM RowsAreUnique == Spec => [](RowInv /\ RowsUnique /\ UnsentInv)
  <1>1. Init => RowLayer
    BY DEF Init, RowLayer, RowInv, RowsUnique, UnsentInv, AllRows
  <1>2. TypeOK /\ QueueLayer /\ RowLayer /\ [Next]_vars => RowLayer'
    BY RowStep, UnsentStep DEF RowLayer
  <1>3. Spec => []QueueLayer
    BY NothingLost DEF QueueLayer
  <1>4. Spec => []RowLayer
    BY <1>1, <1>2, <1>3, TypeCorrect, PTL DEF Spec
  <1>5. QED
    BY <1>4 DEF RowLayer

-----------------------------------------------------------------------------
(* Layer 4: the answers.                                                    *)

AnswerLayer == CommittedNamesOwnRow /\ AlreadyExistsNamesKey /\ RejectedNeverLands

Rejected == {"CausalLoop", "NoProducer", "Backpressure", "Volatile", "BlobFailed"}

\* What an answer promises, read in the state after the step that gave it.
Honest(a, x) ==
    /\ x.tag = "Committed" => \E r \in eventLog' : r.seq = x.seq /\ r.id = a
    /\ x.tag = "AlreadyExists" => \E r \in eventLog' : /\ r.seq = x.seq
                                                      /\ r.key = req'[a].key
                                                      /\ r.key # NoKey
    /\ x.tag \in Rejected => \A r \in AllRows' : r.id # a

\* A call that is not queued gets no row in a step.
LEMMA NoNewRow ==
    ASSUME TypeOK, [Next]_vars, NEW a, a \notin Range(batch), NEW r \in AllRows', r.id = a
    PROVE  r \in AllRows
  BY RowGrowth, BatchRowFacts DEF Keeps, Grows

\* An answer that was honest before a step is honest after it.
LEMMA StillHonest ==
    ASSUME TypeOK, QueueLayer, RowLayer, AnswerLayer, [Next]_vars,
           NEW a \in Appends, reply[a] \notin {Idle, Pending}
    PROVE  reply'[a] = reply[a] /\ Honest(a, reply[a])
  <1>1. reply'[a] = reply[a] /\ req'[a] = req[a]
    BY AnswerStable DEF Stable
  <1>2. eventLog \subseteq eventLog'
    BY RowGrowth
  <1>3. reply[a].tag \in Rejected => a \notin Range(batch)
    BY DEF QueueLayer, QueueInv, Queued, Rejected, Pending, Abandoned, Answer
  <1>4. reply[a].tag \in Rejected => \A r \in AllRows' : r.id # a
    BY <1>3, NoNewRow DEF AnswerLayer, RejectedNeverLands, Rejected
  <1>5. reply[a].tag = "Committed" => \E r \in eventLog' : r.seq = reply[a].seq /\ r.id = a
    BY <1>2 DEF AnswerLayer, CommittedNamesOwnRow
  <1>6. reply[a].tag = "AlreadyExists" =>
           \E r \in eventLog' : r.seq = reply[a].seq /\ r.key = req'[a].key /\ r.key # NoKey
    BY <1>1, <1>2 DEF AnswerLayer, AlreadyExistsNamesKey
  <1>7. QED
    BY <1>1, <1>4, <1>5, <1>6 DEF Honest

\* Answers that promise nothing.
LEMMA SilentHonest ==
    /\ \A a : Honest(a, Idle) /\ Honest(a, Pending) /\ Honest(a, Abandoned)
    /\ \A a : \A t \in {"LogUnavailable", "CollisionNoKey", "CollisionNoSeq",
                        "CollisionLookupFailed"} : Honest(a, Answer(t, 0))
  BY DEF Honest, Rejected, Idle, Pending, Abandoned, Answer

\* An answer of a committed batch is honest although blob-failed entries
\* shift the seq vector against the batch.
LEMMA CommitHonest ==
    ASSUME TypeOK, QueueLayer, RowLayer, InsertCommits, NEW a \in Range(batch)
    PROVE  Honest(a, CommitAcks[a])
  <1> DEFINE i == CHOOSE j \in DOMAIN batch : batch[j] = a
  <1>1. i \in DOMAIN batch /\ batch[i] = a
    BY DEF Range
  <1>2. CommitAcks[a] = CommitAnswer(i)
    BY DEF CommitAcks
  <1> HIDE DEF i
  <1>3. eventLog' = eventLog \cup BatchRows /\ inDoubt' = inDoubt /\ pc = "insert"
    BY DEF InsertCommits
  <1>4. CASE i \in blobErrors
    <2>1. CommitAnswer(i) = Answer("BlobFailed", 0)
      BY <1>4 DEF CommitAnswer
    <2>2. \A r \in AllRows : r.id # a
      BY <1>1, <1>3, <1>4 DEF RowLayer, UnsentInv
    <2>3. \A r \in BatchRows : r.id # a
      <3> TAKE r \in BatchRows
      <3>1. PICK j \in DOMAIN batch : j \notin blobErrors /\ r.id = batch[j]
        BY BatchRowFacts
      <3>2. QED
        BY <1>1, <1>4, <3>1 DEF QueueLayer, QueueInv
    <2>4. \A r \in AllRows' : r.id # a
      BY <1>3, <2>2, <2>3 DEF AllRows
    <2>5. QED
      BY <1>2, <2>1, <2>4 DEF Honest, Answer
  <1>5. CASE i \notin blobErrors
    <2>1. CommitAnswer(i) = Answer("Committed", lastSeq + Rank(i))
      BY <1>1, <1>5, BatchRanks DEF CommitAnswer
    <2>2. [seq |-> lastSeq + Rank(i), id |-> batch[i], key |-> KeyOf(i)] \in BatchRows
      BY <1>1, <1>5 DEF BatchRows, Inserted
    <2>3. \E r \in eventLog' : r.seq = lastSeq + Rank(i) /\ r.id = a
      BY <1>1, <1>3, <2>2
    <2>4. QED
      BY <1>2, <2>1, <2>3 DEF Honest, Answer, Rejected
  <1>6. QED
    BY <1>4, <1>5

\* Every answer given in a step is honest.
LEMMA AnswerStep ==
    ASSUME TypeOK, QueueLayer, RowLayer, AnswerLayer, [Next]_vars
    PROVE  \A a \in Appends : Honest(a, reply'[a])
  <1>1. ASSUME NEW f, SendAcks(f), \A a \in DOMAIN f : Honest(a, f[a])
        PROVE  \A a \in Appends : Honest(a, reply'[a])
    <2> TAKE a \in Appends
    <2>1. reply'[a] = IF a \in DOMAIN f /\ reply[a] = Pending THEN f[a] ELSE reply[a]
      BY <1>1 DEF SendAcks
    <2>2. reply[a] \in {Idle, Pending} => Honest(a, reply[a])
      BY SilentHonest
    <2>3. reply[a] \notin {Idle, Pending} => Honest(a, reply[a])
      BY StillHonest
    <2>4. QED
      BY <1>1, <2>1, <2>2, <2>3
  <1>2. ASSUME NEW calls, SendAcks(AllUnavailable(calls))
        PROVE  \A a \in Appends : Honest(a, reply'[a])
    <2>1. \A a \in DOMAIN AllUnavailable(calls) : Honest(a, AllUnavailable(calls)[a])
      BY SilentHonest DEF AllUnavailable
    <2>2. QED
      BY <1>2, <2>1, <1>1
  <1>3. ASSUME reply' = reply PROVE \A a \in Appends : Honest(a, reply'[a])
    BY <1>3, SilentHonest, StillHonest
  <1>4. ASSUME NEW a \in Appends, NEW x, reply' = [reply EXCEPT ![a] = x], Honest(a, x)
        PROVE  \A b \in Appends : Honest(b, reply'[b])
    <2>1. \A b \in Appends : reply'[b] = IF b = a THEN x ELSE reply[b]
      BY <1>4 DEF TypeOK
    <2>2. QED
      BY <1>4, <2>1, SilentHonest, StillHonest
  <1>5. ASSUME NEW a \in Appends, NEW r \in Requests,
               AppendTurnedAway(a, r) \/ AppendSend(a, r)
        PROVE  \A b \in Appends : Honest(b, reply'[b])
    <2>1. \A s \in AllRows' : s.id # a
      <3>1. reply[a] = Idle /\ AllRows' = AllRows
        BY <1>5 DEF AppendTurnedAway, AppendSend, AllRows, databaseVars
      <3>2. QED
        BY <3>1 DEF RowLayer, RowInv
    <2>2. \A t \in Rejected : \A n : Honest(a, Answer(t, n))
      BY <2>1 DEF Honest, Rejected, Answer
    <2>3. Honest(a, Pending) /\ Honest(a, Answer("LogUnavailable", 0))
      BY SilentHonest
    <2>4. CASE AppendTurnedAway(a, r)
      <3>1. Admission(r) \in {"CausalLoop", "Volatile", "NoProducer"}
        BY <2>4 DEF AppendTurnedAway, Admission
      <3>2. \E x : reply' = [reply EXCEPT ![a] = x] /\ Honest(a, x)
        BY <2>2, <2>4, <3>1 DEF AppendTurnedAway, Rejected
      <3>3. QED
        BY <1>4, <3>2
    <2>5. CASE AppendSend(a, r)
      <3>1. \E x : reply' = [reply EXCEPT ![a] = x] /\ Honest(a, x)
        BY <2>2, <2>3, <2>5 DEF AppendSend, Rejected
      <3>2. QED
        BY <1>4, <3>1
    <2>6. QED
      BY <1>5, <2>4, <2>5
  <1>6. ASSUME NEW a \in Appends, Abandon(a) PROVE \A b \in Appends : Honest(b, reply'[b])
    BY <1>4, <1>6, SilentHonest DEF Abandon
  <1>7. CASE InsertCommits
    <2>1. \A a \in DOMAIN CommitAcks : Honest(a, CommitAcks[a])
      BY <1>7, CommitHonest, CommitAcksFinal
    <2>2. QED
      BY <1>7, <2>1, <1>1 DEF InsertCommits
  <1>8. CASE ResolveCollision
    <2>1. PICK x \in CollisionAnswers(Head(batch)) : SendAcks([a \in {Head(batch)} |-> x])
      BY <1>8 DEF ResolveCollision
    <2>2. eventLog' = eventLog /\ req' = req
      BY <1>8 DEF ResolveCollision, databaseVars
    <2>3. Honest(Head(batch), x)
      <3> DEFINE h == Head(batch)
                 found == {r \in eventLog : r.key = req[h].key}
      <3>1. \/ \E t \in {"CollisionNoKey", "CollisionNoSeq", "CollisionLookupFailed"} :
                  x = Answer(t, 0)
            \/ req[h].key # NoKey /\ \E r \in found : x = Answer("AlreadyExists", r.seq)
        BY <2>1 DEF CollisionAnswers
      <3>2. CASE \E t \in {"CollisionNoKey", "CollisionNoSeq", "CollisionLookupFailed"} :
                  x = Answer(t, 0)
        BY <3>2, SilentHonest
      <3>3. CASE req[h].key # NoKey /\ \E r \in found : x = Answer("AlreadyExists", r.seq)
        BY <2>2, <3>3 DEF Honest, Answer, Rejected
      <3>4. QED
        BY <3>1, <3>2, <3>3
    <2>4. \A a \in DOMAIN [a \in {Head(batch)} |-> x] : Honest(a, [b \in {Head(batch)} |-> x][a])
      BY <2>3
    <2>5. QED
      BY <2>1, <2>4, <1>1
  <1>9. CASE StartFlush \/ InsertTransient \/ InsertFatal \/ WriterDropped
    BY <1>9, <1>2, <1>3 DEF StartFlush, InsertTransient, InsertFatal, WriterDropped
  <1>10. CASE \/ DropHandles \/ Receive \/ Exit \/ InsertCollides \/ Restart
              \/ (\E t \in inDoubt : TxnLands(t) \/ TxnVanishes(t)) \/ UNCHANGED vars
    <2>1. reply' = reply
      BY <1>10
      DEF DropHandles, Receive, Exit, InsertCollides, Restart, TxnLands, TxnVanishes,
          vars, handleVars
    <2>2. QED
      BY <1>3, <2>1
  <1>11. QED
    BY <1>5, <1>6, <1>7, <1>8, <1>9, <1>10
    DEF Next, Producer, Writer, Flush, Database

\* Every answer is true: Committed names the caller's own committed row,
\* AlreadyExists a committed row with the caller's key, and a rejected or
\* blob-failed call never has a row.
THEOREM AnswersAreTrue ==
    Spec => [](CommittedNamesOwnRow /\ AlreadyExistsNamesKey /\ RejectedNeverLands)
  <1>1. Init => AnswerLayer
    BY DEF Init, AnswerLayer, CommittedNamesOwnRow, AlreadyExistsNamesKey,
           RejectedNeverLands, AllRows, Idle, Answer
  <1>2. TypeOK /\ QueueLayer /\ RowLayer /\ AnswerLayer /\ [Next]_vars => AnswerLayer'
    <2> SUFFICES ASSUME TypeOK, QueueLayer, RowLayer, AnswerLayer, [Next]_vars
                 PROVE  AnswerLayer'
      OBVIOUS
    <2>1. \A a \in Appends : Honest(a, reply'[a])
      BY AnswerStep
    <2>2. CommittedNamesOwnRow' /\ AlreadyExistsNamesKey'
      BY <2>1 DEF Honest, CommittedNamesOwnRow, AlreadyExistsNamesKey
    <2>3. RejectedNeverLands'
      BY <2>1 DEF Honest, RejectedNeverLands, Rejected
    <2>4. QED
      BY <2>2, <2>3 DEF AnswerLayer
  <1>3. Spec => []QueueLayer
    BY NothingLost DEF QueueLayer
  <1>4. Spec => []RowLayer
    BY RowsAreUnique DEF RowLayer
  <1>5. Spec => []AnswerLayer
    BY <1>1, <1>2, <1>3, <1>4, TypeCorrect, PTL DEF Spec
  <1>6. QED
    BY <1>5 DEF AnswerLayer

\* Producer-retry semantics: two calls with one dedupe key that were both told
\* Ok were told the same seq.
THEOREM RetriesAgree == Spec => []IdempotentRetry
  <1>1. RowInv /\ RowsUnique /\ UnsentInv /\
        CommittedNamesOwnRow /\ AlreadyExistsNamesKey /\ RejectedNeverLands
           => IdempotentRetry
    <2> SUFFICES ASSUME RowInv, RowsUnique, CommittedNamesOwnRow, AlreadyExistsNamesKey,
                        NEW a \in Appends, NEW b \in Appends,
                        req[a].key = req[b].key, req[a].key # NoKey,
                        reply[a].tag \in {"Committed", "AlreadyExists"},
                        reply[b].tag \in {"Committed", "AlreadyExists"}
                 PROVE  reply[a].seq = reply[b].seq
      BY DEF IdempotentRetry
    <2>1. \A c \in {a, b} : \E r \in AllRows : r.seq = reply[c].seq /\ r.key = req[a].key
      BY DEF CommittedNamesOwnRow, AlreadyExistsNamesKey, RowInv, AllRows
    <2>2. QED
      BY <2>1 DEF RowsUnique
  <1>2. QED
    BY <1>1, RowsAreUnique, AnswersAreTrue, PTL

-----------------------------------------------------------------------------
(* The failed state.                                                        *)

\* The writer enters the failed state only by leaving the flush, and starts
\* no flush in it.
FenceInv == failed => pc # "insert"

\* A writer in the failed state starts no transaction until a restart.
THEOREM FailedWriterFenced == Spec => FailedWriterIsFenced
  <1>1. Init => FenceInv
    BY DEF Init, FenceInv
  <1>2. FenceInv /\ [Next]_vars => FenceInv'
    <2> SUFFICES ASSUME FenceInv, [Next]_vars PROVE FenceInv'
      OBVIOUS
    <2>1. CASE StartFlush
      BY <2>1 DEF StartFlush, EndFlush, FenceInv
    <2>2. CASE InsertTransient
      BY <2>2 DEF InsertTransient, EndFlush, FenceInv
    <2>3. CASE pc' # "insert" \/ (pc' = pc /\ failed' = failed)
      BY <2>3 DEF FenceInv
    <2>4. CASE \/ \E a \in Appends, r \in Requests : AppendTurnedAway(a, r) \/ AppendSend(a, r)
               \/ \E a \in Appends : Abandon(a)
               \/ DropHandles \/ UNCHANGED vars
               \/ \E t \in inDoubt : TxnLands(t) \/ TxnVanishes(t)
      BY <2>3, <2>4
      DEF AppendTurnedAway, AppendSend, Abandon, DropHandles, TxnLands, TxnVanishes,
          vars, writerVars
    <2>5. CASE \/ Receive \/ Exit \/ InsertCommits \/ InsertCollides \/ InsertFatal
               \/ ResolveCollision \/ WriterDropped \/ Restart
      BY <2>3, <2>5
      DEF Receive, Exit, InsertCommits, InsertCollides, InsertFatal, ResolveCollision,
          WriterDropped, Restart, EndFlush
    <2>6. QED
      BY <2>1, <2>2, <2>4, <2>5 DEF Next, Producer, Writer, Flush, Database
  <1>3. FenceInv /\ [Next]_vars =>
          [failed /\ failed' => inDoubt' \subseteq inDoubt /\ eventLog' \subseteq AllRows]_vars
    <2> SUFFICES ASSUME FenceInv, Next, failed
                 PROVE  inDoubt' \subseteq inDoubt /\ eventLog' \subseteq AllRows
      OBVIOUS
    <2>1. pc # "insert"
      BY DEF FenceInv
    <2>2. CASE UNCHANGED <<eventLog, inDoubt>>
      BY <2>2 DEF AllRows
    <2>3. CASE \E t \in inDoubt : TxnLands(t) \/ TxnVanishes(t)
      BY <2>3 DEF TxnLands, TxnVanishes, AllRows
    <2>4. CASE InsertCommits \/ InsertCollides \/ InsertTransient \/ InsertFatal
      BY <2>1, <2>4 DEF InsertCommits, InsertCollides, InsertTransient, InsertFatal
    <2>5. CASE WriterDropped
      BY <2>1, <2>2, <2>5 DEF WriterDropped
    <2>6. CASE \/ \E a \in Appends, r \in Requests : AppendTurnedAway(a, r) \/ AppendSend(a, r)
               \/ \E a \in Appends : Abandon(a)
               \/ DropHandles \/ Receive \/ Exit \/ StartFlush \/ ResolveCollision \/ Restart
      BY <2>2, <2>6
      DEF AppendTurnedAway, AppendSend, Abandon, DropHandles, Receive, Exit, StartFlush,
          ResolveCollision, Restart, databaseVars
    <2>7. QED
      BY <2>3, <2>4, <2>5, <2>6 DEF Next, Producer, Writer, Flush, Database
  <1>4. QED
    BY <1>1, <1>2, <1>3, PTL DEF Spec, FailedWriterIsFenced

==============================================================================
