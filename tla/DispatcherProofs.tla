-------------------------- MODULE DispatcherProofs --------------------------
(***************************************************************************)
(* The safety of Dispatcher for every set of domains and rows, every batch *)
(* limit and every bound: the feed is in order, only late rows are passed  *)
(* over, and LiveFeed, the topic of Subscription, allows what it does.     *)
(***************************************************************************)
EXTENDS Dispatcher, FiniteSetTheorems, TLAPS

\* The steps of the loop, of operators and of failures that move no row.
Quiet == PollFails \/ EndBatch \/ Wake \/ Stop \/ Shutdown
            \/ (\E P \in SUBSET Gated : SetPaused(P))

core == <<stored, lastSeq, inDoubt, row, cursor, pending, feed, dropped, late>>

\* Polls that fail, waits, pauses and shutdowns leave the core state alone.
LEMMA QuietSteps == Quiet => UNCHANGED core
  BY DEF Quiet, core, PollFails, EndBatch, Wake, Stop, Shutdown, SetPaused,
         taskVars, logVars

-----------------------------------------------------------------------------
(* Types and the log.                                                       *)

\* Types and the log hold initially.
LEMMA InitType == Init => TypeOK /\ LogInv
  <1> SUFFICES ASSUME Init PROVE TypeOK /\ LogInv
    OBVIOUS
  <1>1. row \in [Seqs -> Row]
    BY DispatcherAssumption DEF Init
  <1>2. feed \in Seq(Seqs)
    BY DEF Init
  <1>3. stored = {} /\ lastSeq = 0 /\ inDoubt = {} /\ 0 \in 0..MaxSeq
    BY DispatcherAssumption DEF Init, LogInit
  <1>4. QED
    BY <1>1, <1>2, <1>3 DEF Init, TypeOK, LogInv

\* Rows appended to the log lie above everything handed out before.
LEMMA LogGrowsType ==
    ASSUME TypeOK, LogInv, LogGrows
    PROVE  TypeOK' /\ LogInv'
  <1>1. PICK n \in 1..BatchMax :
            /\ lastSeq + n <= MaxSeq
            /\ Commits(n) \/ RollsBack(n) \/ LeftInDoubt(n)
    BY DEF LogGrows
  <1>2. /\ lastSeq \in Nat /\ n \in Nat /\ MaxSeq \in Nat
        /\ Txn(n) \subseteq 1..(lastSeq + n)
        /\ 1..lastSeq \subseteq 1..(lastSeq + n)
        /\ 1..(lastSeq + n) \subseteq Seqs
        /\ lastSeq + n \in 0..MaxSeq
    BY <1>1, DispatcherAssumption DEF TypeOK, Txn, Seqs
  <1>3. lastSeq' = lastSeq + n
    BY <1>1 DEF Commits, RollsBack, LeftInDoubt
  <1>4. /\ stored' \subseteq 1..lastSeq'
        /\ \A t \in inDoubt' : t \subseteq 1..lastSeq'
    <2>1. CASE Commits(n)
      BY <1>2, <1>3, <2>1 DEF Commits, LogInv
    <2>2. CASE RollsBack(n)
      BY <1>2, <1>3, <2>2 DEF RollsBack, LogInv
    <2>3. CASE LeftInDoubt(n)
      BY <1>2, <1>3, <2>3 DEF LeftInDoubt, LogInv
    <2>4. QED
      BY <1>1, <2>1, <2>2, <2>3
  <1>5. stored' \subseteq Seqs /\ inDoubt' \subseteq SUBSET Seqs
    BY <1>2, <1>3, <1>4
  <1>6. QED
    BY <1>2, <1>3, <1>4, <1>5 DEF TypeOK, LogInv, LogGrows, taskVars

\* A transaction in doubt that lands stores seqs handed out before.
LEMMA DoubtEndsType ==
    ASSUME TypeOK, LogInv, NEW t \in inDoubt, DoubtEnds(t)
    PROVE  TypeOK' /\ LogInv'
  <1>1. /\ stored' \subseteq stored \cup t
        /\ inDoubt' \subseteq inDoubt
        /\ lastSeq' = lastSeq
    BY DEF DoubtEnds, Lands, Vanishes
  <1>2. stored' \subseteq 1..lastSeq' /\ stored' \subseteq Seqs
    BY <1>1 DEF LogInv, TypeOK
  <1>3. late' \subseteq Seqs
    BY <1>2 DEF DoubtEnds, TypeOK
  <1>4. QED
    BY <1>1, <1>2, <1>3 DEF TypeOK, LogInv, DoubtEnds, taskVars

\* Dispatching a row keeps the types of cursor, batch and feed.
LEMMA DispatchOneType ==
    ASSUME TypeOK, LogInv, DispatchOne
    PROVE  TypeOK' /\ LogInv'
  <1>1. PICK s \in pending :
            /\ pending' = pending \ {s}
            /\ cursor' = s
            /\ feed' = IF Passes(s) THEN Append(feed, s) ELSE feed
            /\ dropped' = IF Passes(s) THEN dropped ELSE dropped \cup {s}
    BY DEF DispatchOne
  <1>2. s \in Seqs /\ s \in 0..MaxSeq
    BY DEF TypeOK, Seqs
  <1>3. feed' \in Seq(Seqs)
    BY <1>1, <1>2 DEF TypeOK
  <1>4. QED
    BY <1>1, <1>2, <1>3 DEF TypeOK, LogInv, DispatchOne, logVars

\* Types and the log hold after every step.
LEMMA NextType == TypeOK /\ LogInv /\ [Next]_vars => TypeOK' /\ LogInv'
  <1> SUFFICES ASSUME TypeOK, LogInv, [Next]_vars PROVE TypeOK' /\ LogInv'
    OBVIOUS
  <1>1. CASE Poll
    BY <1>1 DEF Poll, TypeOK, LogInv, logVars, Batch, Window, Beyond
  <1>2. CASE DispatchOne
    BY <1>2, DispatchOneType
  <1>3. CASE Quiet
    <2>1. UNCHANGED core
      BY <1>3, QuietSteps
    <2>2. LogInv'
      BY <2>1 DEF LogInv, core
    <2>3. /\ pc' \in {"poll", "dispatch", "wait", "failed", "stopped"}
          /\ full' \in BOOLEAN /\ shutdown' \in BOOLEAN
          /\ paused' \subseteq Gated
          /\ tailErrors' \in Nat /\ restarts' \in Nat
      <3>1. CASE PollFails \/ EndBatch \/ Wake \/ Stop
        BY <3>1 DEF TypeOK, PollFails, EndBatch, Wake, Stop
      <3>2. CASE Shutdown
        BY <3>2 DEF TypeOK, Shutdown, taskVars
      <3>3. CASE \E P \in SUBSET Gated : SetPaused(P)
        BY <3>3 DEF TypeOK, SetPaused, taskVars
      <3>4. QED
        BY <1>3, <3>1, <3>2, <3>3 DEF Quiet
    <2>4. /\ stored' \subseteq Seqs /\ lastSeq' \in 0..MaxSeq
          /\ inDoubt' \subseteq SUBSET Seqs /\ row' \in [Seqs -> Row]
          /\ cursor' \in 0..MaxSeq /\ pending' \subseteq Seqs
          /\ feed' \in Seq(Seqs) /\ dropped' \subseteq Seqs /\ late' \subseteq Seqs
      BY <2>1, Zenon DEF TypeOK, core
    <2>5. QED
      BY <2>2, <2>3, <2>4, Zenon DEF TypeOK
  <1>4. CASE LogGrows
    BY <1>4, LogGrowsType
  <1>5. CASE \E t \in inDoubt : DoubtEnds(t)
    BY <1>5, DoubtEndsType
  <1>6. CASE Restart
    <2>1. feed' \in Seq(Seqs) /\ 0 \in 0..MaxSeq
      BY <1>6, DispatcherAssumption DEF Restart
    <2>2. LogInv'
      BY <1>6 DEF Restart, LogInv, logVars
    <2>3. /\ stored' \subseteq Seqs /\ lastSeq' \in 0..MaxSeq
          /\ inDoubt' \subseteq SUBSET Seqs /\ row' \in [Seqs -> Row]
          /\ pending' \subseteq Seqs /\ dropped' \subseteq Seqs /\ late' \subseteq Seqs
          /\ paused' \subseteq Gated /\ tailErrors' \in Nat /\ restarts' \in Nat
      BY <1>6 DEF Restart, TypeOK, logVars
    <2>4. /\ cursor' = 0 /\ pc' = "poll" /\ full' = FALSE /\ shutdown' = FALSE
      BY <1>6 DEF Restart
    <2>5. QED
      BY <2>1, <2>2, <2>3, <2>4, Zenon DEF TypeOK
  <1>7. CASE UNCHANGED vars
    BY <1>7 DEF vars, TypeOK, LogInv
  <1>8. QED
    BY <1>1, <1>2, <1>3, <1>4, <1>5, <1>6, <1>7 DEF Next, RunTail, Quiet

\* The loop's state keeps its types and the log only holds seqs the sequence
\* has handed out (run_tail, read_all_from).
THEOREM TypeCorrect == Spec => [](TypeOK /\ LogInv)
  BY InitType, NextType, PTL DEF Spec

-----------------------------------------------------------------------------
(* The cursor and the feed.                                                 *)

OrderInv == CursorInv /\ FedInOrder

\* What a step that dispatches row s does to the feed.
LEMMA FeedStep ==
    ASSUME TypeOK, CursorInv, FedInOrder, NEW s \in pending,
           feed' = IF Passes(s) THEN Append(feed, s) ELSE feed
    PROVE  /\ \A i \in DOMAIN feed' : feed'[i] <= s
           /\ \A i, j \in DOMAIN feed' : i < j => feed'[i] < feed'[j]
           /\ {feed'[i] : i \in DOMAIN feed'} =
                 IF Passes(s) THEN Fed \cup {s} ELSE Fed
  <1>1. /\ s \in Int /\ cursor \in Int /\ s > cursor
        /\ feed \in Seq(Seqs)
        /\ \A i \in DOMAIN feed : feed[i] \in Int /\ feed[i] < s
    BY DispatcherAssumption DEF TypeOK, CursorInv, Seqs
  <1>2. CASE ~Passes(s)
    <2>1. feed' = feed
      BY <1>2
    <2>2. QED
      BY <1>1, <1>2, <2>1 DEF FedInOrder, Fed
  <1>3. CASE Passes(s)
    <2>1. /\ feed' = Append(feed, s)
          /\ DOMAIN feed' = DOMAIN feed \cup {Len(feed) + 1}
          /\ \A i \in DOMAIN feed : feed'[i] = feed[i] /\ i <= Len(feed) /\ i \in Nat
          /\ feed'[Len(feed) + 1] = s
          /\ Len(feed) \in Nat
      BY <1>1, <1>3
    <2>2. \A i \in DOMAIN feed' : feed'[i] <= s
      BY <1>1, <2>1
    <2>3. \A i, j \in DOMAIN feed' : i < j => feed'[i] < feed'[j]
      BY <1>1, <2>1 DEF FedInOrder
    <2>4. {feed'[i] : i \in DOMAIN feed'} = Fed \cup {s}
      BY <2>1 DEF Fed
    <2>5. QED
      BY <1>3, <2>2, <2>3, <2>4
  <1>4. QED
    BY <1>2, <1>3

\* Every step keeps the feed ordered and behind the cursor.
LEMMA NextOrder ==
    TypeOK /\ LogInv /\ OrderInv /\ [Next]_vars => OrderInv'
  <1> SUFFICES ASSUME TypeOK, LogInv, CursorInv, FedInOrder, [Next]_vars
               PROVE  CursorInv' /\ FedInOrder'
    BY DEF OrderInv
  <1>1. CASE Poll
    BY <1>1 DEF Poll, CursorInv, FedInOrder, logVars, Batch, Window, Beyond, Known
  <1>2. CASE DispatchOne
    <2>1. PICK s \in pending :
              /\ IsNext(s)
              /\ pending' = pending \ {s}
              /\ cursor' = s
              /\ feed' = IF Passes(s) THEN Append(feed, s) ELSE feed
      BY <1>2 DEF DispatchOne
    <2>2. UNCHANGED <<stored, row>>
      BY <1>2 DEF DispatchOne, logVars
    <2>3. \A u \in pending' : u > s
      BY <2>1 DEF IsNext, TypeOK, Seqs
    <2>4. /\ \A i \in DOMAIN feed' : feed'[i] <= s
          /\ \A i, j \in DOMAIN feed' : i < j => feed'[i] < feed'[j]
      BY <2>1, FeedStep
    <2>5. QED
      BY <2>1, <2>2, <2>3, <2>4 DEF CursorInv, FedInOrder, Known
  <1>3. CASE Quiet
    BY <1>3, QuietSteps DEF core, CursorInv, FedInOrder, Known
  <1>4. CASE LogGrows
    BY <1>4 DEF LogGrows, taskVars, Commits, RollsBack, LeftInDoubt, CursorInv,
                FedInOrder, Known
  <1>5. CASE \E t \in inDoubt : DoubtEnds(t)
    BY <1>5 DEF DoubtEnds, taskVars, Lands, Vanishes, CursorInv, FedInOrder, Known
  <1>6. CASE Restart
    BY <1>6 DEF Restart, CursorInv, FedInOrder
  <1>7. CASE UNCHANGED vars
    BY <1>7 DEF vars, CursorInv, FedInOrder, Known
  <1>8. QED
    BY <1>1, <1>2, <1>3, <1>4, <1>5, <1>6, <1>7 DEF Next, RunTail, Quiet

\* The order layer of the invariant holds throughout.
LEMMA OrderCorrect == Spec => []OrderInv
  <1>1. Init => OrderInv
    BY DEF Init, OrderInv, CursorInv, FedInOrder
  <1>2. QED
    BY <1>1, NextOrder, TypeCorrect, PTL DEF Spec

\* The topics see rows in strictly ascending seq order in one life of the
\* daemon, although transactions land out of order (run_tail).
THEOREM FeedIsOrdered == Spec => []FedInOrder
  BY OrderCorrect, PTL DEF OrderInv

-----------------------------------------------------------------------------
(* The window of a poll.                                                    *)

\* A LIMITed ascending read that returns a row returns every lower row.
LEMMA WindowIsPrefix ==
    ASSUME TypeOK, NEW p \in Window, NEW s \in Beyond, s <= p
    PROVE  s \in Window
  <1> DEFINE below(x) == {u \in Beyond : u < x}
  <1>0. p \in Beyond
    BY Zenon DEF Window
  <1>1. /\ Beyond \subseteq 1..MaxSeq /\ p \in Int /\ s \in Int
        /\ \A u \in Beyond : u \in Int
    <2>1. stored \subseteq 1..MaxSeq
      BY DEF TypeOK, Seqs
    <2>2. Beyond \subseteq 1..MaxSeq
      BY <2>1, Zenon DEF Beyond
    <2>3. \A u \in 1..MaxSeq : u \in Int
      BY DispatcherAssumption
    <2>4. QED
      BY <1>0, <2>2, <2>3, Zenon
  <1>2. IsFiniteSet(below(p))
    <2>1. IsFiniteSet(1..MaxSeq)
      BY FS_Interval, DispatcherAssumption
    <2>2. below(p) \subseteq 1..MaxSeq
      BY <1>1
    <2>3. QED
      BY <2>1, <2>2, FS_Subset
  <1>3. below(s) \subseteq below(p)
    <2>1. ASSUME NEW u \in Beyond, u < s PROVE u < p
      BY <1>1, <2>1
    <2>2. QED
      BY <2>1
  <1>4. /\ Cardinality(below(s)) <= Cardinality(below(p))
        /\ Cardinality(below(s)) \in Nat /\ Cardinality(below(p)) \in Nat
    <2>1. IsFiniteSet(below(s)) /\ Cardinality(below(s)) <= Cardinality(below(p))
      BY <1>2, <1>3, FS_Subset
    <2>2. QED
      BY <1>2, <2>1, FS_CardinalityType
  <1>5. Cardinality(below(p)) < BatchLimit
    BY DEF Window
  <1>6. Cardinality(below(s)) < BatchLimit
    BY <1>4, <1>5, DispatcherAssumption
  <1>7. QED
    BY <1>6 DEF Window

PassedInv == WindowInv /\ OnlyLateRowsAreSkipped

\* A poll takes up every row between the cursor and any row it returns.
LEMMA PollPassed ==
    ASSUME TypeOK, WindowInv, OnlyLateRowsAreSkipped, Poll
    PROVE  WindowInv' /\ OnlyLateRowsAreSkipped'
  <1>1. /\ pending' = Batch
        /\ UNCHANGED <<stored, row, cursor, feed, dropped, late>>
    BY DEF Poll, logVars
  <1>2. ASSUME NEW s \in stored, NEW p \in Batch, cursor < s, s <= p, Known(s)
        PROVE  s \in Batch
    <2>1. p \in Window /\ s \in Beyond
      BY <1>2, DispatcherAssumption DEF Batch, Beyond, TypeOK, Seqs
    <2>2. s \in Window
      BY <1>2, <2>1, WindowIsPrefix
    <2>3. QED
      BY <1>2, <2>2 DEF Batch
  <1>3. QED
    BY <1>1, <1>2 DEF WindowInv, OnlyLateRowsAreSkipped, Fed, Known

\* The row the loop dispatches is accounted for, and the rows below it are.
LEMMA DispatchOnePassed ==
    ASSUME TypeOK, CursorInv, FedInOrder, WindowInv, OnlyLateRowsAreSkipped, DispatchOne
    PROVE  WindowInv' /\ OnlyLateRowsAreSkipped'
  <1>1. PICK s \in pending :
            /\ IsNext(s)
            /\ pending' = pending \ {s}
            /\ cursor' = s
            /\ feed' = IF Passes(s) THEN Append(feed, s) ELSE feed
            /\ dropped' = IF Passes(s) THEN dropped ELSE dropped \cup {s}
    BY DEF DispatchOne
  <1>2. UNCHANGED <<stored, row, late>>
    BY DEF DispatchOne, logVars
  <1>3. /\ s \in Int /\ cursor \in Int /\ s > cursor
        /\ \A u \in stored \cup pending : u \in Int
    BY DispatcherAssumption DEF TypeOK, CursorInv, Seqs
  <1>4. Fed' = IF Passes(s) THEN Fed \cup {s} ELSE Fed
    BY <1>1, FeedStep DEF Fed
  <1>5. ASSUME NEW u \in stored, Known(u), u <= s
        PROVE  u \in Fed' \cup dropped' \cup late
    <2>1. CASE u <= cursor
      BY <1>1, <1>4, <1>5, <2>1 DEF OnlyLateRowsAreSkipped
    <2>2. CASE cursor < u
      <3>1. u \in pending \cup late
        BY <1>5, <2>2 DEF WindowInv
      <3>2. u \in pending => u = s
        BY <1>1, <1>3, <1>5 DEF IsNext
      <3>3. QED
        BY <1>1, <1>4, <3>1, <3>2
    <2>3. QED
      BY <1>3, <2>1, <2>2
  <1>6. OnlyLateRowsAreSkipped'
    BY <1>1, <1>2, <1>5 DEF OnlyLateRowsAreSkipped, Known
  <1>7. WindowInv'
    BY <1>1, <1>2, <1>3 DEF WindowInv, Known
  <1>8. QED
    BY <1>6, <1>7

\* New rows lie above every stored row, so above the cursor and the batch.
LEMMA LogGrowsPassed ==
    ASSUME TypeOK, LogInv, CursorInv, WindowInv, OnlyLateRowsAreSkipped, LogGrows
    PROVE  WindowInv' /\ OnlyLateRowsAreSkipped'
  <1>1. UNCHANGED <<row, cursor, pending, feed, dropped, late>>
    BY DEF LogGrows, taskVars
  <1>2. /\ lastSeq \in Int /\ cursor \in Int
        /\ \A u \in stored : u \in Int /\ u <= lastSeq
        /\ cursor <= lastSeq
    BY DispatcherAssumption DEF TypeOK, LogInv, CursorInv, Seqs
  <1>3. \A s \in stored' \ stored : s \in Int /\ s > lastSeq
    BY <1>2 DEF LogGrows, Commits, RollsBack, LeftInDoubt, Txn
  <1>4. \A p \in pending : p <= lastSeq /\ p \in Int
    BY <1>2 DEF CursorInv
  <1>5. \A s \in stored' \ stored : ~(s <= cursor) /\ \A p \in pending : ~(s <= p)
    BY <1>2, <1>3, <1>4
  <1>6. QED
    BY <1>1, <1>5 DEF WindowInv, OnlyLateRowsAreSkipped, Fed, Known

\* Rows that a transaction in doubt adds below a stored row are late; the
\* cursor and the batch are stored rows.
LEMMA DoubtEndsPassed ==
    ASSUME TypeOK, LogInv, CursorInv, WindowInv, OnlyLateRowsAreSkipped,
           NEW t \in inDoubt, DoubtEnds(t)
    PROVE  WindowInv' /\ OnlyLateRowsAreSkipped'
  <1>1. /\ UNCHANGED <<row, cursor, pending, feed, dropped>>
        /\ late' = late \cup {s \in stored' \ stored : \E u \in stored : u > s}
    BY DEF DoubtEnds, taskVars
  <1>2. /\ stored' \subseteq Seqs
        /\ \A s \in Seqs : s \in Int /\ s > 0
        /\ cursor \in Int
    BY DoubtEndsType, DispatcherAssumption DEF TypeOK, Seqs
  <1>3. ASSUME NEW s \in stored' \ stored, NEW u \in stored, s <= u
        PROVE  s \in late'
    <2>1. s # u /\ s \in Int /\ u \in Int
      BY <1>2 DEF TypeOK
    <2>2. u > s
      BY <1>3, <2>1
    <2>3. QED
      BY <1>1, <2>2
  <1>4. \A s \in stored' \ stored : s <= cursor => s \in late'
    BY <1>2, <1>3 DEF CursorInv
  <1>5. \A s \in stored' \ stored, p \in pending : s <= p => s \in late'
    BY <1>3 DEF CursorInv
  <1>6. QED
    BY <1>1, <1>4, <1>5 DEF WindowInv, OnlyLateRowsAreSkipped, Fed, Known

\* Every step keeps account of the rows the cursor has passed.
LEMMA NextPassed ==
    TypeOK /\ LogInv /\ OrderInv /\ PassedInv /\ [Next]_vars => PassedInv'
  <1> SUFFICES ASSUME TypeOK, LogInv, CursorInv, FedInOrder, WindowInv,
                      OnlyLateRowsAreSkipped, [Next]_vars
               PROVE  WindowInv' /\ OnlyLateRowsAreSkipped'
    BY DEF OrderInv, PassedInv
  <1>1. CASE Poll
    BY <1>1, PollPassed
  <1>2. CASE DispatchOne
    BY <1>2, DispatchOnePassed
  <1>3. CASE Quiet
    BY <1>3, QuietSteps DEF core, WindowInv, OnlyLateRowsAreSkipped, Fed, Known
  <1>4. CASE LogGrows
    BY <1>4, LogGrowsPassed
  <1>5. CASE \E t \in inDoubt : DoubtEnds(t)
    BY <1>5, DoubtEndsPassed
  <1>6. CASE Restart
    BY <1>6, DispatcherAssumption
       DEF Restart, WindowInv, OnlyLateRowsAreSkipped, logVars, TypeOK, Seqs
  <1>7. CASE UNCHANGED vars
    BY <1>7 DEF vars, WindowInv, OnlyLateRowsAreSkipped, Fed, Known
  <1>8. QED
    BY <1>1, <1>2, <1>3, <1>4, <1>5, <1>6, <1>7 DEF Next, RunTail, Quiet

\* In one life of the daemon the cursor jumps over no stored row of a known
\* domain except rows that landed behind a higher seq in that life (run_tail,
\* LIMITed polls, dispatch_one).
THEOREM OnlyLateRows == Spec => []OnlyLateRowsAreSkipped
  <1>1. Init => PassedInv
    BY DEF Init, LogInit, PassedInv, WindowInv, OnlyLateRowsAreSkipped
  <1>2. Spec => []PassedInv
    BY <1>1, NextPassed, TypeCorrect, OrderCorrect, PTL DEF Spec
  <1>3. QED
    BY <1>2, PTL DEF PassedInv

-----------------------------------------------------------------------------
(* Refinement.                                                              *)

\* Every step of the dispatcher is a step of the abstract feed.
LEMMA NextFeeds ==
    TypeOK /\ OrderInv /\ [Next]_vars => [Feed!FeedNext]_(Feed!feedVars)
  <1> SUFFICES ASSUME TypeOK, CursorInv, [Next]_vars
               PROVE  Feed!FeedNext \/ UNCHANGED <<stored, cursor, feed>>
    BY DEF OrderInv, Feed!feedVars
  <1>1. CASE Poll
    BY <1>1 DEF Poll, logVars
  <1>2. CASE DispatchOne
    BY <1>2 DEF DispatchOne, CursorInv, logVars, Feed!FeedNext, Feed!Advance
  <1>3. CASE Quiet
    BY <1>3, QuietSteps DEF core
  <1>4. CASE LogGrows
    BY <1>4 DEF LogGrows, taskVars, Commits, RollsBack, LeftInDoubt,
                Feed!FeedNext, Feed!Store
  <1>5. CASE \E t \in inDoubt : DoubtEnds(t)
    BY <1>5 DEF DoubtEnds, taskVars, Lands, Vanishes, Feed!FeedNext, Feed!Store
  <1>6. CASE Restart
    BY <1>6 DEF Restart, logVars, Feed!FeedNext, Feed!StartOver
  <1>7. CASE UNCHANGED vars
    BY <1>7 DEF vars
  <1>8. QED
    BY <1>1, <1>2, <1>3, <1>4, <1>5, <1>6, <1>7 DEF Next, RunTail, Quiet

\* Whatever the loop does, restarts from 0 included, is a behaviour of the
\* abstract feed that Subscription has for its environment (run_tail,
\* DispatcherBuilder).
THEOREM DispatcherFeeds == Spec => ImplementsFeed
  <1>1. Init => Feed!FeedInit
    BY DEF Init, LogInit, Feed!FeedInit
  <1>2. QED
    BY <1>1, NextFeeds, TypeCorrect, OrderCorrect, PTL
       DEF Spec, ImplementsFeed, Feed!FeedSpec
=============================================================================
