------------------------- MODULE SubscriptionProofs -------------------------
(***************************************************************************)
(* Proofs about Subscription: types, the saved cursor across crashes, and  *)
(* the final flush of a subscription that is closed.                       *)
(***************************************************************************)
EXTENDS Subscription, FiniteSetTheorems, WellFoundedInduction, TLAPS

Signal == [kind: {"Dirty", "Nack"}, row: 0..MaxSeq, seq: 0..MaxSeq]

-----------------------------------------------------------------------------
(* Types.                                                                   *)

\* Seqs are handed out below MaxSeq; what is stored or in doubt has been.
LogInv ==
    /\ lastSeq \in 0..MaxSeq
    /\ stored \subseteq 1..lastSeq
    /\ \A t \in inDoubt : t \subseteq 1..lastSeq

\* TypeOK by owner: the log and its readers, the consumer, the flusher.
WorldOK ==
    /\ stored \subseteq Seqs /\ late \subseteq Seqs
    /\ dispatched \in 0..MaxSeq /\ feed \in Seq(Seqs)
    /\ rx \in 0..Len(feed)
    /\ policy \in Policies /\ poison \subseteq MayBePoison

ConsumerOK ==
    /\ handle \in {"none", "resolved", "open", "closed"}
    /\ phase \in {"Bootstrap", "Live"}
    /\ watermark \in -1..MaxSeq /\ buffer \subseteq Seqs
    /\ consumer \in {"idle", "fetching", "window", "squashing", "handling", "acking"}
    /\ held \in AckOf /\ last \in AckOf
    /\ (held = None) = (consumer \in {"idle", "fetching"})

FlusherOK ==
    /\ cursor \in -1..MaxSeq /\ saved \in -1..MaxSeq /\ snapshot \in -1..MaxSeq
    /\ terminated \in BOOLEAN /\ hasRow \in BOOLEAN
    /\ signals \in Seq(Signal)
    /\ Len(signals) <= SignalCapacity
    /\ flusher \in {"recv", "saving", "saving_last", "gone"}
    /\ dirty \in 0..BatchSize
    /\ dlq \subseteq AckOf

LEMMA TypeParts ==
    /\ TypeOK <=> WorldOK /\ ConsumerOK /\ FlusherOK
    /\ TypeOK' <=> WorldOK' /\ ConsumerOK' /\ FlusherOK'
  BY DEF TypeOK, WorldOK, ConsumerOK, FlusherOK, Signal

\* The empty subscription is well typed.
LEMMA InitType == Init => TypeOK /\ LogInv
<1> SUFFICES ASSUME Init PROVE WorldOK /\ ConsumerOK /\ FlusherOK /\ LogInv
  BY TypeParts
<1>1. WorldOK /\ LogInv
  BY SubscriptionAssumption DEF Init, LogInit, Topic!FeedInit, Fresh, WorldOK, LogInv, Seqs
<1>2. ConsumerOK
  BY SubscriptionAssumption DEF Init, Fresh, ConsumerOK, None, AckOf
<1>3. FlusherOK
  <2>1. signals \in Seq(Signal) /\ Len(signals) <= SignalCapacity
    BY SubscriptionAssumption DEF Init, Fresh
  <2>2. terminated \in BOOLEAN /\ hasRow \in BOOLEAN
    BY DEF Init, Fresh
  <2> QED BY <2>1, <2>2, SubscriptionAssumption DEF Init, Fresh, FlusherOK
<1> QED BY <1>1, <1>2, <1>3

\* The log and the topic.
LEMMA WorldType ==
    ASSUME WorldOK, LogInv, World PROVE WorldOK' /\ LogInv'
<1>1. ASSUME LogGrows PROVE WorldOK' /\ LogInv'
  <2>1. PICK n \in 1..BatchMax : lastSeq + n <= MaxSeq /\ (Commits(n) \/ LeftInDoubt(n))
    BY <1>1 DEF LogGrows
  <2>2. n \in Nat /\ lastSeq \in Nat /\ MaxSeq \in Nat
    BY SubscriptionAssumption DEF LogInv
  <2>3. lastSeq' = lastSeq + n /\ 1..lastSeq \subseteq 1..lastSeq'
        /\ Txn(n) \subseteq 1..lastSeq' /\ 1..lastSeq' \subseteq Seqs
    BY <2>1, <2>2 DEF Commits, LeftInDoubt, Txn, Seqs
  <2>4. stored' \subseteq 1..lastSeq' /\ \A t \in inDoubt' : t \subseteq 1..lastSeq'
    BY <2>1, <2>3 DEF Commits, LeftInDoubt, LogInv
  <2>5. LogInv' /\ stored' \subseteq Seqs
    BY <2>1, <2>2, <2>3, <2>4 DEF LogInv
  <2> QED BY <1>1, <2>5 DEF LogGrows, WorldOK, worldVars, fetchVars, bounds
<1>2. ASSUME NEW t \in inDoubt, DoubtEnds(t) PROVE WorldOK' /\ LogInv'
  <2>1. t \subseteq 1..lastSeq /\ lastSeq \in Nat /\ MaxSeq \in Nat /\ lastSeq <= MaxSeq
    BY SubscriptionAssumption DEF LogInv
  <2>2. /\ stored' \subseteq 1..lastSeq /\ lastSeq' = lastSeq
        /\ inDoubt' \subseteq inDoubt
    BY <1>2, <2>1 DEF DoubtEnds, Lands, Vanishes, LogInv
  <2>3. LogInv' /\ stored' \subseteq Seqs
    BY <2>1, <2>2 DEF LogInv, Seqs
  <2>4. late' \subseteq Seqs
    BY <1>2, <2>3 DEF DoubtEnds, WorldOK
  <2> QED BY <1>2, <2>3, <2>4 DEF DoubtEnds, WorldOK, fetchVars, bounds
<1>3. ASSUME NEW s \in stored, Dispatch(s) PROVE WorldOK' /\ LogInv'
  <2>1. LogInv' /\ s \in Seqs /\ s \in 0..MaxSeq
    BY <1>3 DEF Dispatch, Topic!Advance, LogInv, WorldOK, Seqs
  <2>2. feed' \in Seq(Seqs) /\ Len(feed) <= Len(feed')
    BY <1>3, <2>1 DEF Dispatch, Topic!Advance, WorldOK
  <2> QED BY <1>3, <2>1, <2>2 DEF Dispatch, Topic!Advance, WorldOK, worldVars, fetchVars, bounds
<1> QED BY <1>1, <1>2, <1>3 DEF World

\* The consumer's calls.
LEMMA ConsumerType ==
    ASSUME TypeOK, Consumer \/ Fail \/ Close \/ ResolveFails \/ BootstrapFails
    PROVE  ConsumerOK'
<1> USE SubscriptionAssumption
<1> WorldOK /\ ConsumerOK /\ FlusherOK
  BY TypeParts
<1>1. CASE Resolve \/ Attach \/ ResolveFails
  BY <1>1 DEF Resolve, Attach, ResolveFails, ConsumerOK, FlusherOK, fetchVars, consumerVars
<1>2. CASE NextBegins \/ CaughtUp \/ Lagged \/ BootstrapFails
  BY <1>2 DEF NextBegins, CaughtUp, Lagged, BootstrapFails, ConsumerOK, fetchVars
<1>3. CASE NextFromBootstrap
  <2>1. PICK s \in buffer \cup ReadFrom :
           /\ buffer' \in {buffer \ {s}, ReadFrom \ {s}}
           /\ watermark' = IF s > watermark THEN s ELSE watermark
           /\ HandOut(s, s)
    BY <1>3 DEF NextFromBootstrap
  <2>2. ReadFrom \subseteq Seqs /\ s \in Seqs
    BY <2>1 DEF ReadFrom, Beyond, ConsumerOK, WorldOK
  <2>3. held' = [row |-> s, seq |-> s] /\ held' \in AckOf /\ held' # None
    BY <2>1, <2>2 DEF HandOut, AckOf, Seqs, None
  <2>4. watermark' \in -1..MaxSeq /\ buffer' \subseteq Seqs
    BY <2>1, <2>2 DEF ConsumerOK, Seqs
  <2> QED BY <1>3, <2>1, <2>3, <2>4 DEF NextFromBootstrap, ConsumerOK, HandOut
<1>4. CASE NextFromLive
  <2>1. feed[rx + 1] \in Seqs
    BY <1>4 DEF NextFromLive, WorldOK
  <2>2. held' = [row |-> feed[rx + 1], seq |-> 0] /\ held' \in AckOf /\ held' # None
    BY <1>4, <2>1 DEF NextFromLive, HandOut, AckOf, Seqs, None, LiveSeq
  <2>3. watermark' \in -1..MaxSeq
    BY <1>4 DEF NextFromLive, LiveSeq, ConsumerOK
  <2> QED BY <1>4, <2>2, <2>3 DEF NextFromLive, HandOut, ConsumerOK
<1>5. CASE AckCursor \/ AckSignal \/ Fail
  BY <1>5 DEF AckCursor, AckSignal, Fail, ConsumerOK, fetchVars, None, AckOf
<1>6. CASE Close
  BY <1>6 DEF Close, ConsumerOK, fetchVars, None, AckOf
<1>7. CASE Debounce
  BY <1>7 DEF Debounce, WaitForNewer, Squash, SquashSignal, WindowEnds, ConsumerOK, fetchVars,
              None, AckOf
<1> QED BY <1>1, <1>2, <1>3, <1>4, <1>5, <1>6, <1>7 DEF Consumer, NextStep

\* A set of numbers has a least element, a bounded one a greatest.
LEMMA NatLeast ==
    ASSUME NEW S, S \subseteq Nat, S # {}
    PROVE  \E m \in S : \A s \in S : m <= s
<1>1. \E m \in S : \A s \in S : <<s, m>> \notin OpToRel(<, Nat)
  BY NatLessThanWellFounded, WFMin
<1>2. PICK m \in S : \A s \in S : <<s, m>> \notin OpToRel(<, Nat)
  BY <1>1
<1>3. ASSUME NEW s \in S PROVE m <= s
  <2>1. <<s, m>> \notin {p \in Nat \X Nat : p[1] < p[2]}
    BY <1>2 DEF OpToRel
  <2>2. m \in Nat /\ s \in Nat
    OBVIOUS
  <2> QED BY <2>1, <2>2
<1> QED BY <1>3

LEMMA NatGreatest ==
    ASSUME NEW n \in Nat, NEW S, S \subseteq 1..n, S # {}
    PROVE  \E m \in S : \A s \in S : s <= m
<1> DEFINE U == {k \in Nat : \A s \in S : s <= k}
<1>1. n \in U
  OBVIOUS
<1>2. PICK m \in U : \A k \in U : m <= k
  BY <1>1, NatLeast
<1>3. m # 0
  <2>1. PICK s \in S : TRUE
    OBVIOUS
  <2> QED BY <1>2, <2>1
<1>4. m - 1 \notin U /\ m - 1 \in Nat
  BY <1>2, <1>3
<1>5. m \in S
  BY <1>2, <1>4
<1> QED BY <1>2, <1>5

\* The channel stays within its capacity.
LEMMA SignalSent ==
    ASSUME FlusherOK, NEW m \in Signal, Len(signals) < SignalCapacity
    PROVE  Append(signals, m) \in Seq(Signal) /\ Len(Append(signals, m)) <= SignalCapacity
  BY SubscriptionAssumption DEF FlusherOK

LEMMA SignalTaken ==
    ASSUME FlusherOK, signals # <<>>
    PROVE  /\ Head(signals) \in Signal
           /\ Tail(signals) \in Seq(Signal) /\ Len(Tail(signals)) <= SignalCapacity
  BY SubscriptionAssumption DEF FlusherOK

LEMMA NackSent ==
    ASSUME FlusherOK, NEW a \in AckOf, Nacked(a)
    PROVE  signals' \in Seq(Signal) /\ Len(signals') <= SignalCapacity
<1>1. Nack(a) \in Signal
  BY DEF Nack, AckOf, Signal
<1> QED BY <1>1, SignalSent DEF Nacked, FlusherOK

\* The flusher's state, which every part of the program touches.
LEMMA FlusherType ==
    ASSUME TypeOK, LogInv, Next PROVE FlusherOK'
<1> USE SubscriptionAssumption
<1> WorldOK /\ ConsumerOK /\ FlusherOK
  BY TypeParts
<1> DEFINE Groups == UNCHANGED <<sharedVars, flusherVars, savedVars>>
<1>1. ASSUME Groups PROVE FlusherOK'
  BY <1>1 DEF FlusherOK, sharedVars, flusherVars, savedVars
<1>2. CASE World
  BY <1>1, <1>2 DEF World, LogGrows, DoubtEnds, Dispatch
<1>3. CASE NextStep \/ ResolveFails \/ BootstrapFails
  BY <1>1, <1>3 DEF NextStep, NextBegins, NextFromBootstrap, CaughtUp, NextFromLive, Lagged,
                    ResolveFails, BootstrapFails
<1>4. CASE Resolve
  <2>1. stored # {} => Head_seq \in 0..MaxSeq
    <3>1. stored \subseteq 1..MaxSeq
      BY DEF WorldOK, Seqs
    <3>2. stored # {} => \E m \in stored : \A s \in stored : s <= m
      BY <3>1, NatGreatest
    <3>3. stored # {} => Head_seq \in stored
      BY <3>2 DEF Head_seq
    <3>4. 1..MaxSeq \subseteq 0..MaxSeq
      OBVIOUS
    <3> QED BY <3>1, <3>3, <3>4, Zenon
  <2>2. cursor' \in -1..MaxSeq
    BY <1>4, <2>1 DEF Resolve, Head_seq, FlusherOK
  <2>3. saved' \in -1..MaxSeq /\ hasRow' \in BOOLEAN
    BY <1>4, <2>2 DEF Resolve
  <2> QED BY <1>4, <2>2, <2>3 DEF Resolve, FlusherOK, flusherVars
<1>5. CASE Attach
  BY <1>5 DEF Attach, FlusherOK, sharedVars, savedVars
<1>6. CASE Debounce
  <2>1. CASE WaitForNewer \/ WindowEnds
    BY <1>1, <2>1 DEF WaitForNewer, WindowEnds
  <2>2. CASE Squash
    BY <2>2 DEF Squash, FlusherOK, ConsumerOK, AckOf, flusherVars, savedVars
  <2>3. CASE SquashSignal
    BY <2>3, SignalSent DEF SquashSignal, FlusherOK, sharedVars, savedVars, Dirty, Signal
  <2> QED BY <1>6, <2>1, <2>2, <2>3 DEF Debounce
<1>7. CASE AckCursor
  BY <1>7 DEF AckCursor, FlusherOK, ConsumerOK, AckOf, flusherVars, savedVars
<1>8. CASE AckSignal
  BY <1>8, SignalSent DEF AckSignal, FlusherOK, sharedVars, savedVars, Dirty, Signal
<1>9. CASE Fail
  BY <1>9, NackSent DEF Fail, FlusherOK, ConsumerOK, sharedVars, savedVars
<1>10. CASE Close
  BY <1>10, NackSent DEF Close, FlusherOK, ConsumerOK, sharedVars, savedVars
<1>11. CASE TakeDirty
  BY <1>11, SignalTaken DEF TakeDirty, SnapshotCursor, Saturated, FlusherOK, sharedVars, savedVars
<1>12. CASE TakeNack
  <2>1. Head(signals).seq \in 0..MaxSeq /\ Head(signals).row \in 0..MaxSeq
    BY <1>12, SignalTaken DEF TakeNack, Signal
  <2>2. cursor' \in -1..MaxSeq /\ dlq' \subseteq AckOf
    BY <1>12, <2>1 DEF TakeNack, FlusherOK, AckOf, sharedVars
  <2>3. terminated' \in BOOLEAN
    BY <1>12 DEF TakeNack, FlusherOK, sharedVars
  <2> QED BY <1>12, <2>2, <2>3, SignalTaken DEF TakeNack, FlusherOK
<1>13. CASE Tick \/ LastSignal
  BY <1>13 DEF Tick, LastSignal, SnapshotCursor, FlusherOK, sharedVars, savedVars
<1>14. CASE Save \/ SaveFails
  BY <1>14 DEF Save, SaveFails, AfterSave, Saturated, FlusherOK, sharedVars, savedVars
<1>15. ASSUME NEW d \in dlq, DlqReplay(d) \/ DlqAck(d) PROVE FlusherOK'
  <2>1. CASE DlqReplay(d)
    BY <1>15, <2>1 DEF DlqReplay, FlusherOK, AckOf, sharedVars, flusherVars
  <2>2. CASE DlqAck(d)
    BY <1>15, <2>2 DEF DlqAck, FlusherOK, AckOf, sharedVars, flusherVars
  <2> QED BY <1>15, <2>1, <2>2
<1>16. CASE Restart
  <2>1. signals' \in Seq(Signal) /\ Len(signals') <= SignalCapacity
    BY <1>16 DEF Restart
  <2>2. terminated' \in BOOLEAN
    BY <1>16 DEF Restart
  <2> QED BY <1>16, <2>1, <2>2 DEF Restart, FlusherOK, savedVars
<1> QED BY <1>2, <1>3, <1>4, <1>5, <1>6, <1>7, <1>8, <1>9, <1>10, <1>11, <1>12, <1>13, <1>14,
           <1>15, <1>16 DEF Next, Consumer, Flusher

\* Every step keeps the types.
LEMMA NextType == TypeOK /\ LogInv /\ [Next]_vars => TypeOK' /\ LogInv'
<1> SUFFICES ASSUME TypeOK, LogInv, [Next]_vars PROVE TypeOK' /\ LogInv'
  OBVIOUS
<1> USE SubscriptionAssumption
<1>0. WorldOK /\ ConsumerOK /\ FlusherOK
  BY TypeParts
<1> DEFINE Hands == UNCHANGED <<handle, phase, watermark, buffer, consumerVars>>
           Outside == UNCHANGED <<logVars, late, dispatched, feed, policy, poison>>
<1>1. ASSUME Hands PROVE ConsumerOK'
  BY <1>0, <1>1 DEF ConsumerOK, consumerVars
<1>2. ASSUME Outside, rx' \in 0..Len(feed) PROVE WorldOK' /\ LogInv'
  BY <1>0, <1>2 DEF WorldOK, LogInv, logVars
<1>3. CASE World
  BY <1>0, <1>1, <1>3, FlusherType, WorldType, TypeParts
     DEF Next, World, LogGrows, DoubtEnds, Dispatch, fetchVars
<1>4. CASE Consumer \/ Fail \/ Close \/ ResolveFails \/ BootstrapFails
  <2>1. ConsumerOK' /\ FlusherOK'
    BY <1>4, ConsumerType, FlusherType DEF Next
  <2>2. Outside
    BY <1>4 DEF Consumer, NextStep, Debounce, Resolve, Attach, NextBegins, NextFromBootstrap,
       CaughtUp, NextFromLive, Lagged, WaitForNewer, Squash, SquashSignal, WindowEnds, AckCursor,
       AckSignal, Fail, Close, ResolveFails, BootstrapFails, worldVars, bounds
  <2>3. rx' = rx \/ Attach \/ NextFromLive \/ Lagged
    BY <1>4 DEF Consumer, NextStep, Debounce, Resolve, NextBegins, NextFromBootstrap,
       CaughtUp, WaitForNewer, Squash, SquashSignal, WindowEnds, AckCursor,
       AckSignal, Fail, Close, ResolveFails, BootstrapFails, fetchVars
  <2>4. rx' \in 0..Len(feed)
    BY <1>0, <2>3 DEF WorldOK, Attach, NextFromLive, Lagged
  <2> QED BY <1>2, <2>1, <2>2, <2>4, TypeParts
<1>5. CASE Flusher \/ SaveFails \/ \E d \in dlq : DlqReplay(d) \/ DlqAck(d)
  <2>1. FlusherOK'
    BY <1>5, FlusherType DEF Next
  <2>2. Hands /\ Outside /\ rx' = rx
    BY <1>5 DEF Flusher, TakeDirty, TakeNack, Tick, LastSignal, Save, SaveFails, DlqReplay, DlqAck,
       worldVars, bounds, fetchVars
  <2> QED BY <1>0, <1>1, <1>2, <2>1, <2>2, TypeParts DEF WorldOK
<1>6. CASE Restart
  <2>1. FlusherOK'
    BY <1>6, FlusherType DEF Next
  <2>2. ConsumerOK'
    BY <1>6 DEF Restart, ConsumerOK, None, AckOf
  <2>3. WorldOK' /\ LogInv'
    BY <1>0, <1>6 DEF Restart, Topic!StartOver, WorldOK, LogInv, Seqs
  <2> QED BY <2>1, <2>2, <2>3, TypeParts
<1>7. CASE UNCHANGED vars
  BY <1>7 DEF vars, TypeOK, LogInv
<1> QED BY <1>3, <1>4, <1>5, <1>6, <1>7 DEF Next

\* The log, both tasks' variables, the channel and the stored rows keep their
\* types, and the channel its bound (subscription/mod.rs, flusher.rs).
THEOREM SubscriptionTypeOK == Spec => [](TypeOK /\ LogInv)
<1> QED BY InitType, NextType, PTL DEF Spec

-----------------------------------------------------------------------------
(***************************************************************************)
(* The saved cursor.  A value is covered when it does not exceed the log   *)
(* and every stored row up to it is settled; a row stored from now on is   *)
(* late or lies above it.  The cursor, do_flush's snapshot, the saved row  *)
(* and the seq of every queued nack are covered; the watermark is, up to   *)
(* the Acks in the consumer's hands, and the bootstrap buffer is the piece *)
(* of the log that follows it.                                             *)
(***************************************************************************)
Settled == acked \cup failed \cup late

Reached(x) == x <= 0 \/ \E u \in stored : x <= u

Covered(x) == Reached(x) /\ \A s \in stored : start < s /\ s <= x => s \in Settled

HandleInv ==
    /\ handle # "open" => consumer = "idle" /\ last = None
    /\ handle \in {"none", "resolved"} =>
          buffer = {} /\ signals = <<>> /\ snapshot = 0 /\ watermark = 0 /\ flusher = "gone"
    /\ consumer \in {"squashing", "handling", "acking"} => last = None
    /\ ~Debounced => consumer \notin {"window", "squashing"} /\ last = None

\* An Ack with a seq is the row of that seq; the Ack the debouncer waits with
\* is the older one.
AckInv ==
    /\ held.seq # 0 => held.seq = held.row /\ held.seq <= watermark
    /\ last.seq # 0 => last.seq = last.row /\ last.seq <= watermark
    /\ last.seq # 0 /\ held.seq # 0 => last.seq < held.seq
    /\ consumer = "acking" => held.row \in acked

ReadInv ==
    /\ Reached(watermark)
    /\ \A s \in stored : start < s /\ s <= watermark => s \in Settled \cup {held.seq, last.seq}
    /\ buffer \subseteq stored
    /\ \A b \in buffer : watermark < b
    /\ \A b \in buffer, s \in stored : watermark < s /\ s <= b => s \in buffer \cup late

CursorInv ==
    /\ start \in 0..MaxSeq
    /\ Covered(cursor) /\ Covered(snapshot) /\ Covered(saved)
    /\ \A i \in 1..Len(signals) : signals[i].kind = "Nack" => Covered(signals[i].seq)

SubInv == HandleInv /\ AckInv /\ ReadInv /\ CursorInv

LEMMA InitSub == Init => SubInv
<1> SUFFICES ASSUME Init PROVE SubInv
  OBVIOUS
<1> USE SubscriptionAssumption
<1>1. HandleInv /\ AckInv
  BY DEF Init, Fresh, HandleInv, AckInv, None
<1>2. stored = {}
  BY DEF Init, LogInit
<1>3. Covered(0) /\ Len(signals) = 0
  BY <1>2 DEF Init, Fresh, Covered, Reached
<1>4. ReadInv /\ CursorInv
  BY <1>2, <1>3 DEF Init, Fresh, ReadInv, CursorInv, Reached
<1> QED BY <1>1, <1>4 DEF SubInv

\* What a step may do to the log and to what is settled.
Grows ==
    /\ start' = start
    /\ stored \subseteq stored' /\ Settled \subseteq Settled'
    /\ late \subseteq late'
    /\ \A s \in stored' \ stored : s \in late' \/ \A u \in stored : u < s

CoveredNext(x) ==
    /\ x <= 0 \/ \E u \in stored' : x <= u
    /\ \A s \in stored' : start' < s /\ s <= x => s \in Settled'

\* What is covered stays covered.
LEMMA StaysCovered ==
    ASSUME TypeOK, TypeOK', start \in 0..MaxSeq, Grows, NEW x \in Int, Covered(x)
    PROVE  CoveredNext(x)
<1>1. stored \subseteq Int /\ stored' \subseteq Int /\ start \in Int
  BY DEF TypeOK, Seqs
<1>2. x <= 0 \/ \E u \in stored' : x <= u
  BY DEF Covered, Reached, Grows
<1>3. ASSUME NEW s \in stored', start' < s, s <= x PROVE s \in Settled'
  <2>1. CASE s \in stored
    BY <1>3, <2>1 DEF Covered, Grows
  <2>2. CASE s \notin stored /\ s \notin late'
    <3>1. s > 0
      BY <1>1, <1>3, SubscriptionAssumption DEF Grows
    <3>2. PICK u \in stored : x <= u
      BY <1>1, <1>3, <3>1 DEF Covered, Reached
    <3>3. u < s
      BY <2>2 DEF Grows
    <3> QED BY <1>1, <1>3, <3>2, <3>3
  <2> QED BY <2>1, <2>2 DEF Settled
<1> QED BY <1>2, <1>3 DEF CoveredNext

\* A lower value is covered as well.
LEMMA LowerCovered ==
    ASSUME TypeOK, NEW x \in Int, NEW y \in Int, y <= x, Covered(x)
    PROVE  Covered(y)
  BY DEF TypeOK, Seqs, Covered, Reached

\* The log grows at its end, or with late rows.
LEMMA WorldGrows ==
    ASSUME TypeOK, LogInv, World PROVE Grows
<1>1. UNCHANGED <<start, acked, failed>>
  BY DEF World, LogGrows, DoubtEnds, Dispatch, history
<1>2. ASSUME LogGrows PROVE Grows
  <2>1. PICK n \in 1..BatchMax : Commits(n) \/ LeftInDoubt(n)
    BY <1>2 DEF LogGrows
  <2>2. n \in Nat /\ lastSeq \in Nat /\ \A u \in stored : u \in Nat /\ u <= lastSeq
    BY SubscriptionAssumption DEF LogInv
  <2>3. \A s \in Txn(n) : s \in Nat /\ s > lastSeq
    BY <2>2 DEF Txn
  <2>4. stored \subseteq stored' /\ \A s \in stored' \ stored : s \in Txn(n)
    BY <2>1 DEF Commits, LeftInDoubt
  <2>5. late' = late
    BY <1>2 DEF LogGrows, worldVars
  <2> QED BY <1>1, <2>2, <2>3, <2>4, <2>5 DEF Grows, Settled
<1>3. ASSUME NEW t \in inDoubt, DoubtEnds(t) PROVE Grows
  <2>1. late' = late \cup {s \in stored' \ stored : \E u \in stored : u > s}
    BY <1>3 DEF DoubtEnds
  <2>2. stored \subseteq stored' /\ stored \subseteq Int /\ stored' \subseteq stored \cup t
    BY <1>3 DEF DoubtEnds, Lands, Vanishes, TypeOK, Seqs
  <2>3. t \subseteq Int
    BY DEF LogInv
  <2>4. \A s \in stored' \ stored : s \in late' \/ \A u \in stored : u < s
    BY <2>1, <2>2, <2>3
  <2> QED BY <1>1, <2>1, <2>2, <2>4 DEF Grows, Settled
<1>4. ASSUME NEW s \in stored, Dispatch(s) PROVE Grows
  BY <1>1, <1>4 DEF Dispatch, Topic!Advance, Grows, Settled
<1> QED BY <1>2, <1>3, <1>4 DEF World

\* The parts of the invariant under growth: each part whose variables stay
\* as they are stays true.
LEMMA ReadKept ==
    ASSUME TypeOK, TypeOK', start \in 0..MaxSeq, Grows, ReadInv, UNCHANGED <<watermark, buffer>>,
           {held.seq, last.seq} \subseteq {held'.seq, last'.seq, 0} \cup Settled'
    PROVE  ReadInv'
<1> DEFINE w == watermark
<1>1. /\ stored \subseteq Int /\ stored' \subseteq Int /\ start \in Int /\ w \in Int
      /\ \A s \in stored' : s > 0
  BY SubscriptionAssumption DEF TypeOK, Seqs
<1>2. Reached(w) /\ (w <= 0 \/ \E u \in stored' : w <= u)
  BY DEF ReadInv, Reached, Grows
<1>3. ASSUME NEW s \in stored', start' < s, s <= w
      PROVE  s \in Settled' \cup {held'.seq, last'.seq}
  <2>1. CASE s \in stored
    <3>1. s \in Settled \cup {held.seq, last.seq}
      BY <1>3, <2>1 DEF ReadInv, Grows
    <3> QED BY <1>1, <3>1 DEF Grows
  <2>2. CASE s \notin stored /\ s \notin late'
    <3>1. PICK u \in stored : w <= u
      BY <1>1, <1>2, <1>3 DEF Reached
    <3> QED BY <1>1, <1>3, <2>2, <3>1 DEF Grows
  <2> QED BY <2>1, <2>2 DEF Settled
<1>4. ASSUME NEW b \in buffer, NEW s \in stored', w < s, s <= b
      PROVE  s \in buffer \cup late'
  <2>1. b \in stored
    BY DEF ReadInv
  <2>2. CASE s \in stored
    BY <1>4, <2>2 DEF ReadInv, Grows
  <2>3. CASE s \notin stored /\ s \notin late'
    BY <1>1, <1>4, <2>1, <2>3 DEF Grows
  <2> QED BY <2>2, <2>3
<1>5. buffer \subseteq stored' /\ \A b \in buffer : w < b
  BY DEF ReadInv, Grows
<1> QED BY <1>2, <1>3, <1>4, <1>5 DEF ReadInv, Reached

\* The flusher's side.
LEMMA CursorKept ==
    ASSUME TypeOK, TypeOK', Grows, CursorInv,
           CoveredNext(cursor'), CoveredNext(snapshot'), CoveredNext(saved'),
           \A i \in 1..Len(signals') :
               signals'[i].kind = "Nack" => CoveredNext(signals'[i].seq)
    PROVE  CursorInv'
<1>1. /\ CoveredNext(cursor') => Covered(cursor)'
      /\ CoveredNext(snapshot') => Covered(snapshot)'
      /\ CoveredNext(saved') => Covered(saved)'
  BY DEF Covered, CoveredNext, Reached
<1>2. ASSUME NEW i \in 1..Len(signals'), CoveredNext(signals'[i].seq)
      PROVE  Covered(signals[i].seq)'
  BY <1>2 DEF Covered, CoveredNext, Reached
<1> QED BY <1>1, <1>2 DEF CursorInv, Grows

LEMMA OldCovered ==
    ASSUME TypeOK, TypeOK', Grows, CursorInv
    PROVE  /\ CoveredNext(cursor) /\ CoveredNext(snapshot) /\ CoveredNext(saved)
           /\ \A i \in 1..Len(signals) : signals[i].kind = "Nack" => CoveredNext(signals[i].seq)
<1>1. cursor \in Int /\ snapshot \in Int /\ saved \in Int
  BY DEF TypeOK
<1>2. \A i \in 1..Len(signals) : signals[i].seq \in Int
  <2>1. signals \in Seq(Signal) /\ MaxSeq \in Nat
    BY SubscriptionAssumption DEF TypeOK, Signal
  <2>2. \A m \in Signal : m.seq \in Int
    BY <2>1 DEF Signal
  <2> QED BY <2>1, <2>2
<1> QED BY <1>1, <1>2, StaysCovered DEF CursorInv

\* Only a queued nack matters.
LEMMA QueueCovered ==
    ASSUME TypeOK, TypeOK', Grows, CursorInv,
           \/ signals' = signals
           \/ signals' = <<>>
           \/ signals # <<>> /\ signals' = Tail(signals)
           \/ signals' = Append(signals, Dirty)
           \/ \E a \in AckOf : CoveredNext(a.seq) /\ signals' = Append(signals, Nack(a))
    PROVE  \A i \in 1..Len(signals') : signals'[i].kind = "Nack" => CoveredNext(signals'[i].seq)
<1> SUFFICES ASSUME NEW i \in 1..Len(signals'), signals'[i].kind = "Nack"
             PROVE  CoveredNext(signals'[i].seq)
  OBVIOUS
<1>0. signals \in Seq(Signal)
  BY DEF TypeOK, Signal
<1>1. \A j \in 1..Len(signals) : signals[j].kind = "Nack" => CoveredNext(signals[j].seq)
  BY OldCovered
<1>2. CASE signals' = signals
  BY <1>1, <1>2
<1>3. CASE signals' = <<>>
  BY <1>3
<1>4. CASE signals # <<>> /\ signals' = Tail(signals)
  <2>1. i + 1 \in 1..Len(signals) /\ signals'[i] = signals[i + 1]
    BY <1>0, <1>4
  <2> QED BY <1>1, <2>1
<1>5. CASE signals' = Append(signals, Dirty)
  <2>1. (i \in 1..Len(signals) /\ signals'[i] = signals[i]) \/ signals'[i] = Dirty
    BY <1>0, <1>5
  <2>2. Dirty.kind # "Nack"
    BY DEF Dirty
  <2> QED BY <1>1, <2>1, <2>2
<1>6. ASSUME NEW a \in AckOf, CoveredNext(a.seq), signals' = Append(signals, Nack(a))
      PROVE  CoveredNext(signals'[i].seq)
  <2>1. (i \in 1..Len(signals) /\ signals'[i] = signals[i]) \/ signals'[i] = Nack(a)
    BY <1>0, <1>6
  <2>2. Nack(a).seq = a.seq
    BY DEF Nack
  <2> QED BY <1>1, <1>6, <2>1, <2>2
<1> QED BY <1>2, <1>3, <1>4, <1>5, <1>6

\* Settling an Ack covers its seq, unless an older one is still open.
LEMMA AckCovered ==
    ASSUME TypeOK, SubInv, Grows, stored' = stored,
           \/ held.row \in Settled' /\ (last = None \/ last.row \in Settled')
           \/ held = None /\ last.row \in Settled'
    PROVE  CoveredNext(held.seq) /\ CoveredNext(last.seq)
<1>1. /\ stored \subseteq Int /\ start \in Int /\ watermark \in Int
      /\ held.seq \in Nat /\ last.seq \in Nat /\ \A s \in stored : s > 0
  BY SubscriptionAssumption DEF TypeOK, Seqs, AckOf, SubInv, CursorInv
<1>2. ASSUME NEW s \in stored, start < s, s <= watermark PROVE s \in Settled'
  <2>1. s \in Settled \cup {held.seq, last.seq}
    BY <1>2 DEF SubInv, ReadInv
  <2>2. held.seq # 0 => held.seq = held.row /\ held # None
    BY DEF SubInv, AckInv, None
  <2>3. last.seq # 0 => last.seq = last.row /\ last # None
    BY DEF SubInv, AckInv, None
  <2> QED BY <1>1, <2>1, <2>2, <2>3 DEF Grows
<1>3. ASSUME NEW x \in Nat, x = 0 \/ x <= watermark PROVE CoveredNext(x)
  <2>1. x <= 0 \/ \E u \in stored' : x <= u
    BY <1>1, <1>3 DEF SubInv, ReadInv, Reached
  <2>2. ASSUME NEW s \in stored', start' < s, s <= x PROVE s \in Settled'
    BY <1>1, <1>2, <1>3, <2>2 DEF Grows
  <2> QED BY <2>1, <2>2 DEF CoveredNext
<1>4. (held.seq = 0 \/ held.seq <= watermark) /\ (last.seq = 0 \/ last.seq <= watermark)
  BY DEF SubInv, AckInv
<1> QED BY <1>1, <1>3, <1>4

\* The debouncer settles the older of its two Acks first.
LEMMA SquashCovered ==
    ASSUME TypeOK, SubInv, Grows, stored' = stored, last.row \in Settled'
    PROVE  CoveredNext(last.seq)
<1>1. /\ stored \subseteq Int /\ start \in Int /\ watermark \in Int
      /\ held.seq \in Nat /\ last.seq \in Nat /\ \A s \in stored : s > 0
  BY SubscriptionAssumption DEF TypeOK, Seqs, AckOf, SubInv, CursorInv
<1>2. last.seq # 0 => last.seq = last.row /\ last.seq <= watermark
  BY DEF SubInv, AckInv
<1>3. last.seq <= 0 \/ \E u \in stored' : last.seq <= u
  BY <1>1, <1>2 DEF SubInv, ReadInv, Reached
<1>4. ASSUME NEW s \in stored', start' < s, s <= last.seq PROVE s \in Settled'
  <2>1. s \in Settled \cup {held.seq, last.seq} /\ last.seq # 0
    BY <1>1, <1>2, <1>4 DEF SubInv, ReadInv, Grows
  <2>2. s # held.seq
    BY <1>1, <1>4, <2>1 DEF SubInv, AckInv
  <2> QED BY <1>2, <2>1, <2>2 DEF Grows
<1> QED BY <1>3, <1>4 DEF CoveredNext

-----------------------------------------------------------------------------
(* Every step keeps the invariant.                                          *)

\* Steps outside the consumer and the flusher.
LEMMA WorldSub ==
    ASSUME TypeOK, TypeOK', LogInv, SubInv, World PROVE SubInv'
<1>1. UNCHANGED <<handle, fetchVars, consumerVars, sharedVars, flusherVars, savedVars,
                 history>>
  BY DEF World, LogGrows, DoubtEnds, Dispatch
<1> USE DEF fetchVars, consumerVars, sharedVars, flusherVars, savedVars, history
<1>2. Grows /\ start \in 0..MaxSeq
  BY WorldGrows DEF SubInv, CursorInv
<1>3. ReadInv'
  BY <1>1, <1>2, ReadKept DEF SubInv
<1>4. CursorInv'
  BY <1>1, <1>2, CursorKept, OldCovered, QueueCovered DEF SubInv
<1>5. HandleInv' /\ AckInv'
  BY <1>1 DEF SubInv, HandleInv, AckInv
<1> QED BY <1>3, <1>4, <1>5 DEF SubInv

\* subscribe().
LEMMA SubscribeSub ==
    ASSUME TypeOK, TypeOK', SubInv, Resolve \/ ResolveFails \/ Attach PROVE SubInv'
<1> USE SubscriptionAssumption
<1>1. CASE Resolve
  <2>0. handle = "none" /\ stored' = stored /\ Settled' = Settled
    BY <1>1 DEF Resolve, logVars, Settled, worldVars
  <2>1. /\ UNCHANGED <<fetchVars, consumerVars, flusherVars>>
        /\ consumer = "idle" /\ held = None /\ last = None /\ buffer = {} /\ signals = <<>>
        /\ snapshot = 0 /\ watermark = 0 /\ flusher = "gone"
    BY <1>1, <2>0 DEF Resolve, SubInv, HandleInv, TypeOK
  <2>2. HandleInv' /\ AckInv'
    BY <1>1, <2>1 DEF Resolve, HandleInv, AckInv, fetchVars, consumerVars, flusherVars, None
  <2>3. stored \subseteq Nat /\ \A s \in stored : s > 0
    <3>1. stored \subseteq Seqs
      BY DEF TypeOK
    <3> QED BY <3>1 DEF Seqs
  <2>4. start' \in 0..MaxSeq
    <3>1. CASE hasRow
      BY <1>1, <3>1 DEF Resolve, SubInv, CursorInv
    <3>2. CASE ~hasRow /\ StartLatest /\ stored # {}
      <4>1. \E m \in stored : \A s \in stored : s <= m
        BY <3>2, NatGreatest DEF TypeOK, Seqs
      <4>2. Head_seq \in stored
        BY <3>2, <4>1 DEF Head_seq
      <4>3. stored \subseteq 0..MaxSeq
        BY DEF TypeOK, Seqs
      <4> QED BY <1>1, <3>2, <4>2, <4>3 DEF Resolve
    <3>3. CASE ~hasRow /\ ~(StartLatest /\ stored # {})
      <4>1. start' = 0
        BY <1>1, <3>3 DEF Resolve, Head_seq
      <4> QED BY <4>1
    <3> QED BY <3>1, <3>2, <3>3
  <2>5. ReadInv'
    BY <2>0, <2>1, <2>3, <2>4 DEF ReadInv, Reached, fetchVars
  <2>6. Covered(cursor)'
    <3>1. CASE hasRow
      BY <1>1, <2>0, <3>1 DEF Resolve, SubInv, CursorInv, Covered, Reached
    <3>2. CASE ~hasRow
      <4>1. start' = cursor' /\ cursor' \in Int
        BY <1>1, <2>4, <3>2 DEF Resolve
      <4>2. cursor' <= 0 \/ \E u \in stored : cursor' <= u
        <5>1. CASE StartLatest /\ stored # {}
          <6>1. \E m \in stored : \A s \in stored : s <= m
            BY <5>1, NatGreatest DEF TypeOK, Seqs
          <6>2. Head_seq \in stored
            BY <5>1, <6>1 DEF Head_seq
          <6> QED BY <1>1, <2>3, <3>2, <5>1, <6>2 DEF Resolve
        <5>2. CASE ~(StartLatest /\ stored # {})
          BY <1>1, <3>2, <5>2 DEF Resolve, Head_seq
        <5> QED BY <5>1, <5>2
      <4> QED BY <2>0, <2>3, <4>1, <4>2 DEF Covered, Reached
    <3> QED BY <3>1, <3>2
  <2>7. Covered(snapshot)' /\ Len(signals') = 0
    BY <2>0, <2>1, <2>3, <2>4 DEF Covered, Reached, flusherVars
  <2>8. Covered(saved)'
    BY <1>1, <2>6 DEF Resolve, Covered, Reached
  <2>9. CursorInv'
    BY <2>4, <2>6, <2>7, <2>8 DEF CursorInv
  <2> QED BY <2>2, <2>5, <2>9 DEF SubInv
<1>2. CASE ResolveFails
  <2>1. /\ UNCHANGED <<logVars, worldVars, fetchVars, consumerVars, sharedVars, flusherVars,
                       savedVars, history>>
        /\ handle = "none" /\ handle' = "closed"
    BY <1>2 DEF ResolveFails
  <2> USE DEF logVars, worldVars, fetchVars, consumerVars, sharedVars, flusherVars, savedVars,
              history
  <2>2. HandleInv' /\ AckInv'
    BY <2>1 DEF SubInv, HandleInv, AckInv
  <2>3. ReadInv' /\ CursorInv'
    BY <2>1 DEF SubInv, ReadInv, CursorInv, Covered, Reached, Settled
  <2> QED BY <2>2, <2>3 DEF SubInv
<1>3. CASE Attach
  <2>0. /\ handle = "resolved" /\ UNCHANGED <<logVars, worldVars, consumerVars, sharedVars,
                                               signals, snapshot, savedVars, history, buffer>>
        /\ watermark' = cursor
    BY <1>3 DEF Attach
  <2> USE DEF logVars, worldVars, consumerVars, sharedVars, savedVars, history
  <2>1. consumer = "idle" /\ held = None /\ last = None /\ buffer = {}
    BY <2>0 DEF SubInv, HandleInv, TypeOK
  <2>2. HandleInv' /\ AckInv'
    BY <1>3, <2>0, <2>1 DEF Attach, HandleInv, AckInv, None
  <2>3. CursorInv'
    BY <2>0 DEF SubInv, CursorInv, Covered, Reached, Settled
  <2>4. ReadInv'
    BY <2>0, <2>1 DEF SubInv, CursorInv, ReadInv, Covered, Reached, Settled
  <2> QED BY <2>2, <2>3, <2>4 DEF SubInv
<1> QED BY <1>1, <1>2, <1>3

\* A batch is the beginning of what lies past the watermark.
LEMMA ReadFromIsPrefix ==
    ASSUME TypeOK, NEW b \in ReadFrom, NEW s \in stored, watermark < s, s <= b
    PROVE  s \in ReadFrom
<1> USE SubscriptionAssumption
<1>1. stored \subseteq 1..MaxSeq /\ MaxSeq \in Nat
  BY DEF TypeOK, Seqs
<1>2. Beyond \subseteq 1..MaxSeq
  BY <1>1, Zenon DEF Beyond
<1> DEFINE Before(x) == {u \in Beyond : u < x}
<1>3. IsFiniteSet(Before(b)) /\ Before(s) \subseteq Before(b)
  <2>1. IsFiniteSet(1..MaxSeq)
    BY <1>1, FS_Interval
  <2>2. Before(b) \subseteq 1..MaxSeq
    BY <1>2
  <2>3. b \in Beyond
    BY Zenon DEF ReadFrom
  <2>4. b \in Int /\ s \in Int /\ \A u \in Beyond : u \in Int
    BY <1>1, <1>2, <2>3
  <2>5. Before(s) \subseteq Before(b)
    BY <2>4
  <2> QED BY <2>1, <2>2, <2>5, FS_Subset
<1>4. /\ Cardinality(Before(s)) <= Cardinality(Before(b))
      /\ Cardinality(Before(s)) \in Nat /\ Cardinality(Before(b)) \in Nat
  <2>1. IsFiniteSet(Before(s)) /\ Cardinality(Before(s)) <= Cardinality(Before(b))
    BY <1>3, FS_Subset
  <2> QED BY <1>3, <2>1, FS_CardinalityType
<1>5. Cardinality(Before(b)) < BatchSize
  BY DEF ReadFrom
<1>6. s \in Beyond
  BY DEF Beyond
<1> QED BY <1>4, <1>5, <1>6 DEF ReadFrom

\* next_from_bootstrap hands out the next row of the log that is not late.
LEMMA BootstrapSub ==
    ASSUME TypeOK, TypeOK', SubInv, NextFromBootstrap PROVE SubInv'
<1> USE SubscriptionAssumption
<1>0. /\ UNCHANGED <<stored, late, acked, failed, start, handle, last, cursor, signals, snapshot,
                     saved, flusher>>
      /\ consumer = "fetching"
  BY DEF NextFromBootstrap, HandOut, logVars, worldVars, sharedVars, flusherVars, savedVars
<1> DEFINE pool == IF buffer # {} THEN buffer ELSE ReadFrom
<1>1. PICK s \in pool :
        /\ \A u \in pool : s <= u
        /\ buffer' = pool \ {s}
        /\ watermark' = IF s > watermark THEN s ELSE watermark
        /\ HandOut(s, s)
  BY DEF NextFromBootstrap, PopOrder
<1>2. /\ stored \subseteq Int /\ watermark \in Int /\ start \in Int
      /\ \A u \in stored : u > 0
  <2>1. stored \subseteq Seqs /\ watermark \in Int
    BY DEF TypeOK
  <2>2. start \in 0..MaxSeq
    BY DEF SubInv, CursorInv
  <2> QED BY <2>1, <2>2 DEF Seqs
<1>3. pool \subseteq stored /\ \A b \in pool : watermark < b
  BY DEF SubInv, ReadInv, ReadFrom, Beyond
<1>4. \A b \in pool, u \in stored : watermark < u /\ u <= b => u \in pool \cup late
  BY ReadFromIsPrefix DEF SubInv, ReadInv
<1> HIDE DEF pool
<1>5. s \in stored /\ watermark < s /\ watermark' = s /\ s > 0
  BY <1>1, <1>2, <1>3
<1>6. held' = [row |-> s, seq |-> s] /\ held = None /\ Settled' = Settled
  BY <1>0, <1>1 DEF HandOut, TypeOK, Settled
<1>7. HandleInv'
  <2>1. handle = "open" /\ consumer' \in {"window", "handling"}
        /\ (consumer' = "handling" => ~Debounced) /\ (consumer' = "window" => Debounced)
    BY <1>0, <1>1 DEF HandOut, SubInv, HandleInv
  <2>2. ~Debounced => last = None
    BY DEF SubInv, HandleInv
  <2> QED BY <1>0, <2>1, <2>2 DEF HandleInv
<1>8. AckInv'
  <2>1. last.seq # 0 => last.seq = last.row /\ last.seq <= watermark /\ last.seq \in Int
    BY DEF SubInv, AckInv, TypeOK, AckOf
  <2>2. consumer' # "acking"
    BY <1>1 DEF HandOut
  <2> QED BY <1>0, <1>2, <1>5, <1>6, <2>1, <2>2 DEF AckInv
<1>9. ReadInv'
  <2>1. ASSUME NEW u \in stored, start < u, u <= s
        PROVE  u \in Settled \cup {s, last.seq}
    <3>1. CASE u <= watermark
      <4>1. u \in Settled \cup {held.seq, last.seq} /\ held.seq = 0
        BY <1>6, <2>1, <3>1 DEF SubInv, ReadInv, None
      <4> QED BY <1>2, <4>1
    <3>2. CASE watermark < u
      <4>1. u \in pool \cup late
        BY <1>4, <2>1, <3>2
      <4>2. u \in pool => u = s
        BY <1>1, <1>2, <1>3, <2>1
      <4> QED BY <4>1, <4>2 DEF Settled
    <3> QED BY <1>2, <3>1, <3>2
  <2>2. \A b \in buffer' : s < b
    BY <1>1, <1>2, <1>3
  <2>3. \A b \in buffer', u \in stored : s < u /\ u <= b => u \in buffer' \cup late
    BY <1>1, <1>2, <1>3, <1>4, <1>5
  <2>4. buffer' \subseteq stored
    BY <1>1, <1>3
  <2> QED BY <1>0, <1>2, <1>5, <1>6, <2>1, <2>2, <2>3, <2>4 DEF ReadInv, Reached
<1>10. CursorInv'
  BY <1>0, <1>6 DEF SubInv, CursorInv, Covered, Reached
<1> QED BY <1>7, <1>8, <1>9, <1>10 DEF SubInv

\* next_from_live hands out a row without its seq.
LEMMA LiveSub ==
    ASSUME TypeOK, TypeOK', SubInv, NextFromLive PROVE SubInv'
<1> USE SubscriptionAssumption
<1>0. /\ UNCHANGED <<stored, late, acked, failed, start, handle, last, buffer, cursor, signals,
                     snapshot, saved, flusher>>
      /\ consumer = "fetching" /\ watermark' = IF 0 > watermark THEN 0 ELSE watermark
      /\ held'.seq = 0 /\ Settled' = Settled
      /\ consumer' = IF Debounced THEN "window" ELSE "handling"
  BY DEF NextFromLive, HandOut, logVars, worldVars, sharedVars, flusherVars, savedVars, LiveSeq,
         Settled
<1>1. held = None /\ held.seq = 0
  BY <1>0 DEF TypeOK, None
<1>2. /\ stored \subseteq Int /\ watermark \in Int /\ start \in Int /\ start >= 0
      /\ \A u \in stored : u > 0
  <2>1. stored \subseteq Seqs /\ watermark \in Int
    BY DEF TypeOK
  <2>2. start \in 0..MaxSeq
    BY DEF SubInv, CursorInv
  <2> QED BY <2>1, <2>2 DEF Seqs
<1>3. HandleInv'
  <2>1. handle = "open"
    BY <1>0 DEF SubInv, HandleInv
  <2>2. ~Debounced => last = None
    BY DEF SubInv, HandleInv
  <2> QED BY <1>0, <2>1, <2>2 DEF HandleInv
<1>4. AckInv'
  <2>1. last.seq # 0 => last.seq = last.row /\ last.seq <= watermark /\ last.seq \in Int
    BY DEF SubInv, AckInv, TypeOK, AckOf
  <2> QED BY <1>0, <1>2, <2>1 DEF AckInv
<1>5. ReadInv'
  <2>1. CASE watermark >= 0
    <3>1. watermark' = watermark
      BY <1>0, <1>2, <2>1
    <3> QED BY <1>0, <1>1, <1>2, <3>1 DEF SubInv, ReadInv, Reached
  <2>2. CASE watermark < 0
    <3>1. watermark' = 0
      BY <1>0, <1>2, <2>2
    <3>2. buffer' = buffer /\ stored' = stored /\ late' = late /\ buffer \subseteq stored
      BY <1>0 DEF SubInv, ReadInv
    <3>3. \A b \in buffer, s \in stored : 0 < s /\ s <= b => s \in buffer \cup late
      BY <1>2, <2>2 DEF SubInv, ReadInv
    <3> QED BY <1>0, <1>2, <3>1, <3>2, <3>3 DEF ReadInv, Reached
  <2> QED BY <1>2, <2>1, <2>2
<1>6. CursorInv'
  BY <1>0 DEF SubInv, CursorInv, Covered, Reached
<1> QED BY <1>3, <1>4, <1>5, <1>6 DEF SubInv

\* next() and the debouncer between two rows.
LEMMA TurnSub ==
    ASSUME TypeOK, TypeOK', SubInv,
           NextBegins \/ CaughtUp \/ Lagged \/ BootstrapFails \/ WaitForNewer \/ WindowEnds
    PROVE  SubInv'
<1>0. UNCHANGED <<stored, late, acked, failed, start, handle, watermark, buffer, cursor, signals,
                  snapshot, saved, flusher>>
  BY DEF NextBegins, CaughtUp, Lagged, BootstrapFails, WaitForNewer, WindowEnds, logVars, worldVars,
         sharedVars, flusherVars, savedVars, history, fetchVars
<1>1. CursorInv'
  BY <1>0 DEF SubInv, CursorInv, Covered, Reached, Settled
<1>2. CASE NextBegins \/ CaughtUp \/ Lagged \/ BootstrapFails
  <2>1. UNCHANGED <<held, last>> /\ consumer \in {"idle", "fetching"}
        /\ consumer' \in {"idle", "fetching"} /\ (handle # "open" => consumer' = "idle")
    BY <1>2 DEF NextBegins, CaughtUp, Lagged, BootstrapFails
  <2>2. HandleInv' /\ AckInv'
    BY <1>0, <2>1 DEF SubInv, HandleInv, AckInv
  <2>3. ReadInv'
    BY <1>0, <2>1 DEF SubInv, ReadInv, Reached, Settled
  <2> QED BY <1>1, <2>2, <2>3 DEF SubInv
<1>3. CASE WaitForNewer
  <2>1. last' = held /\ held' = None /\ last = None /\ consumer = "window" /\ consumer' = "idle"
    BY <1>3 DEF WaitForNewer
  <2>2. HandleInv' /\ AckInv'
    BY <1>0, <2>1 DEF SubInv, HandleInv, AckInv, None
  <2>3. {held'.seq, last'.seq} = {held.seq, last.seq}
    BY <2>1
  <2>4. ReadInv'
    BY <1>0, <2>3 DEF SubInv, ReadInv, Reached, Settled
  <2> QED BY <1>1, <2>2, <2>4 DEF SubInv
<1>4. CASE WindowEnds /\ last = None
  <2>1. UNCHANGED <<held, last>> /\ consumer = "window" /\ consumer' = "handling"
    BY <1>4 DEF WindowEnds
  <2>2. HandleInv' /\ AckInv'
    BY <1>0, <1>4, <2>1 DEF SubInv, HandleInv, AckInv
  <2>3. ReadInv'
    BY <1>0, <2>1 DEF SubInv, ReadInv, Reached, Settled
  <2> QED BY <1>1, <2>2, <2>3 DEF SubInv
<1>5. CASE WindowEnds /\ last # None
  <2>1. held' = last /\ last' = None /\ held = None /\ consumer' = "handling"
    BY <1>5 DEF WindowEnds, TypeOK
  <2>2. HandleInv' /\ AckInv'
    BY <1>0, <1>5, <2>1 DEF SubInv, HandleInv, AckInv, None
  <2>3. {held'.seq, last'.seq} = {held.seq, last.seq}
    BY <2>1
  <2>4. ReadInv'
    BY <1>0, <2>3 DEF SubInv, ReadInv, Reached, Settled
  <2> QED BY <1>1, <2>2, <2>4 DEF SubInv
<1> QED BY <1>2, <1>3, <1>4, <1>5

\* Steps that settle something leave the log alone.
LEMMA SettlingGrows ==
    ASSUME UNCHANGED <<stored, late, start>>, acked \subseteq acked', failed \subseteq failed'
    PROVE  Grows
  BY DEF Grows, Settled

\* ack() and silent_ack(), under the lock.
LEMMA AckSub ==
    ASSUME TypeOK, TypeOK', SubInv, AckCursor \/ Squash PROVE SubInv'
<1>0. /\ UNCHANGED <<stored, late, failed, start, handle, watermark, buffer, signals,
                     snapshot, saved, flusher, held>>
      /\ acked \subseteq acked'
  BY DEF AckCursor, Squash, logVars, worldVars, flusherVars, savedVars, fetchVars
<1>1. Grows /\ start \in 0..MaxSeq
  BY <1>0, SettlingGrows DEF SubInv, CursorInv
<1>2. CASE AckCursor
  <2>1. /\ last' = last /\ last = None /\ consumer = "handling" /\ consumer' = "acking"
        /\ held.row \in acked' /\ held.row \in Settled'
        /\ cursor' = IF held.seq > cursor THEN held.seq ELSE cursor
    BY <1>2 DEF AckCursor, Settled, SubInv, HandleInv
  <2>2. CoveredNext(held.seq)
    BY <1>0, <1>1, <2>1, AckCovered
  <2>3. CoveredNext(cursor')
    BY <1>1, <2>1, <2>2, OldCovered DEF SubInv
  <2>4. CursorInv'
    BY <1>0, <1>1, <2>3, OldCovered, QueueCovered, CursorKept DEF SubInv
  <2>5. HandleInv' /\ AckInv'
    BY <1>0, <2>1 DEF SubInv, HandleInv, AckInv
  <2>6. ReadInv'
    BY <1>0, <1>1, <2>1, ReadKept DEF SubInv
  <2> QED BY <2>4, <2>5, <2>6 DEF SubInv
<1>3. CASE Squash
  <2>1. /\ last' = None /\ consumer = "window" /\ consumer' = "squashing"
        /\ last.row \in Settled'
        /\ cursor' = IF last.seq > cursor THEN last.seq ELSE cursor
    BY <1>3 DEF Squash, Settled
  <2>2. CoveredNext(last.seq)
    BY <1>0, <1>1, <2>1, SquashCovered
  <2>3. CoveredNext(cursor')
    BY <1>1, <2>1, <2>2, OldCovered DEF SubInv
  <2>4. CursorInv'
    BY <1>0, <1>1, <2>3, OldCovered, QueueCovered, CursorKept DEF SubInv
  <2>5. HandleInv' /\ AckInv'
    BY <1>0, <2>1 DEF SubInv, HandleInv, AckInv, None
  <2>6. last.seq \in {0} \cup Settled'
    BY <2>1 DEF SubInv, AckInv
  <2>7. ReadInv'
    BY <1>0, <1>1, <2>6, ReadKept DEF SubInv
  <2> QED BY <2>4, <2>5, <2>7 DEF SubInv
<1> QED BY <1>2, <1>3

\* The Dirty signal of an ack.
LEMMA DirtySub ==
    ASSUME TypeOK, TypeOK', SubInv, AckSignal \/ SquashSignal PROVE SubInv'
<1>0. /\ UNCHANGED <<stored, late, acked, failed, start, handle, watermark, buffer, cursor,
                     snapshot, saved, flusher, last>>
      /\ signals' = Append(signals, Dirty)
  BY DEF AckSignal, SquashSignal, logVars, worldVars, sharedVars, savedVars, fetchVars, history
<1>1. Grows /\ start \in 0..MaxSeq
  BY <1>0, SettlingGrows DEF SubInv, CursorInv
<1>2. CursorInv'
  BY <1>0, <1>1, OldCovered, QueueCovered, CursorKept DEF SubInv
<1>3. CASE SquashSignal
  <2>1. held' = held /\ consumer = "squashing" /\ consumer' = "window"
    BY <1>3 DEF SquashSignal
  <2>2. HandleInv' /\ AckInv'
    BY <1>0, <2>1 DEF SubInv, HandleInv, AckInv
  <2>3. ReadInv'
    BY <1>0, <1>1, <2>1, ReadKept DEF SubInv
  <2> QED BY <1>2, <2>2, <2>3 DEF SubInv
<1>4. CASE AckSignal
  <2>1. held' = None /\ consumer = "acking" /\ consumer' = "idle" /\ last = None
    BY <1>4 DEF AckSignal, SubInv, HandleInv
  <2>2. HandleInv' /\ AckInv'
    BY <1>0, <2>1 DEF SubInv, HandleInv, AckInv, None
  <2>3. held.seq \in {0} \cup Settled'
    BY <1>0, <2>1 DEF SubInv, AckInv, Settled
  <2>4. ReadInv'
    BY <1>0, <1>1, <2>1, <2>3, ReadKept DEF SubInv
  <2> QED BY <1>2, <2>2, <2>4 DEF SubInv
<1> QED BY <1>3, <1>4

\* nack(), and an Ack that is dropped.
LEMMA FailSub ==
    ASSUME TypeOK, TypeOK', SubInv, Fail \/ Close PROVE SubInv'
<1>0. /\ UNCHANGED <<stored, late, start, watermark, buffer, cursor, snapshot, saved, flusher>>
      /\ held' = None /\ (last' = last \/ last' = None)
      /\ consumer' = "idle"
  BY DEF Fail, Close, logVars, worldVars, sharedVars, savedVars, fetchVars
<1>1. acked \subseteq acked' /\ failed \subseteq failed'
  BY DEF Fail, Close, Nacked
<1>2. Grows /\ start \in 0..MaxSeq
  BY <1>0, <1>1, SettlingGrows DEF SubInv, CursorInv
<1>3. /\ held = None \/ held.row \in Settled'
      /\ last = None \/ last.row \in Settled'
      /\ last' = None
  <2>1. CASE Fail
    BY <1>0, <2>1 DEF Fail, Nacked, Settled, SubInv, HandleInv
  <2>2. CASE Close
    <3>1. consumer = "squashing" => last = None
      BY DEF SubInv, HandleInv
    <3>2. consumer = "window" => held # None
      BY DEF TypeOK
    <3>3. last' = None
      BY <2>2 DEF Close
    <3>4. CASE consumer = "window"
      BY <2>2, <3>2, <3>3, <3>4 DEF Close, Nacked, Settled
    <3>5. CASE consumer # "window" /\ held # None
      <4>1. consumer = "squashing"
        BY <2>2, <3>5 DEF Close, TypeOK
      <4> QED BY <2>2, <3>1, <3>3, <3>5, <4>1 DEF Close, Nacked, Settled
    <3>6. CASE consumer # "window" /\ held = None
      BY <2>2, <3>3, <3>6 DEF Close, Nacked, Settled
    <3> QED BY <3>4, <3>5, <3>6
  <2> QED BY <2>1, <2>2
<1>4. CoveredNext(held.seq) /\ CoveredNext(last.seq)
  <2>1. CASE held = None /\ last = None
    <3>1. held.seq = 0 /\ last.seq = 0 /\ \A s \in stored' : s > 0 /\ s \in Int
      BY <2>1 DEF None, TypeOK, Seqs
    <3> QED BY <3>1 DEF CoveredNext
  <2>2. CASE held # None \/ last # None
    BY <1>0, <1>2, <1>3, <2>2, AckCovered
  <2> QED BY <2>1, <2>2
<1>5. \/ signals' = signals
      \/ \E a \in AckOf : CoveredNext(a.seq) /\ signals' = Append(signals, Nack(a))
  <2>1. held \in AckOf /\ last \in AckOf
    BY DEF TypeOK
  <2>2. signals' = signals \/ Nacked(held) \/ Nacked(last)
    BY DEF Fail, Close
  <2> QED BY <1>4, <2>1, <2>2 DEF Nacked
<1>6. CursorInv'
  BY <1>0, <1>2, <1>5, OldCovered, QueueCovered, CursorKept DEF SubInv
<1>7. handle' = handle \/ handle' = "closed"
  BY DEF Fail, Close
<1>8. HandleInv' /\ AckInv'
  <2>1. handle = "open"
    BY DEF Fail, Close, SubInv, HandleInv
  <2> QED BY <1>0, <1>3, <1>7, <2>1 DEF HandleInv, AckInv, None
<1>9. {held.seq, last.seq} \subseteq {0} \cup Settled'
  BY <1>3 DEF SubInv, AckInv, None
<1>10. ReadInv'
  BY <1>0, <1>2, <1>9, ReadKept DEF SubInv
<1> QED BY <1>6, <1>8, <1>10 DEF SubInv

\* The flusher and the operators.
LEMMA FlusherSub ==
    ASSUME TypeOK, TypeOK', SubInv,
           Flusher \/ SaveFails \/ \E d \in dlq : DlqReplay(d) \/ DlqAck(d)
    PROVE  SubInv'
<1>0. UNCHANGED <<stored, late, acked, failed, start, handle, watermark, buffer, consumer, held, last>>
  BY DEF Flusher, TakeDirty, TakeNack, Tick, LastSignal, Save, SaveFails, DlqReplay, DlqAck,
         logVars, worldVars, fetchVars, consumerVars, history
<1>1. Grows /\ start \in 0..MaxSeq
  BY <1>0, SettlingGrows DEF SubInv, CursorInv
<1>2. AckInv' /\ ReadInv'
  BY <1>0, <1>1, ReadKept DEF SubInv, AckInv
<1>3. HandleInv'
  <2>1. CASE handle \in {"none", "resolved"}
    <3>1. signals = <<>> /\ flusher = "gone"
      BY <2>1 DEF SubInv, HandleInv
    <3>2. UNCHANGED <<signals, flusher, snapshot>>
      BY <3>1 DEF Flusher, TakeDirty, TakeNack, Tick, LastSignal, Save, SaveFails, DlqReplay, DlqAck,
         flusherVars
    <3> QED BY <1>0, <3>2 DEF SubInv, HandleInv
  <2>2. CASE handle \notin {"none", "resolved"}
    BY <1>0, <2>2 DEF SubInv, HandleInv
  <2> QED BY <2>1, <2>2
<1>4. CoveredNext(cursor) /\ CoveredNext(snapshot) /\ CoveredNext(saved)
  BY <1>1, OldCovered DEF SubInv
<1>5. CASE TakeDirty \/ Tick \/ LastSignal \/ Save \/ SaveFails
  <2>1. /\ cursor' = cursor /\ snapshot' \in {cursor, snapshot} /\ saved' \in {saved, snapshot}
        /\ signals' = signals \/ (signals # <<>> /\ signals' = Tail(signals))
    BY <1>5 DEF TakeDirty, Tick, LastSignal, Save, SaveFails, SnapshotCursor, sharedVars, savedVars
  <2>2. CoveredNext(cursor') /\ CoveredNext(snapshot') /\ CoveredNext(saved')
    BY <1>4, <2>1
  <2>3. CursorInv'
    BY <1>1, <2>1, <2>2, QueueCovered, CursorKept DEF SubInv
  <2> QED BY <1>2, <1>3, <2>3 DEF SubInv
<1>6. CASE TakeNack
  <2>1. /\ snapshot' = snapshot /\ saved' = saved
        /\ signals # <<>> /\ signals' = Tail(signals) /\ Head(signals).kind = "Nack"
        /\ cursor' = cursor \/ cursor' = Head(signals).seq
    BY <1>6 DEF TakeNack, sharedVars
  <2>2. signals \in Seq(Signal)
    BY DEF TypeOK, Signal
  <2>3. 1 \in 1..Len(signals) /\ Head(signals) = signals[1]
    BY <2>1, <2>2
  <2>4. CoveredNext(Head(signals).seq)
    BY <1>1, <2>1, <2>3, OldCovered DEF SubInv
  <2>5. CoveredNext(cursor')
    BY <1>4, <2>1, <2>4
  <2>6. CursorInv'
    BY <1>1, <1>4, <2>1, <2>5, QueueCovered, CursorKept DEF SubInv
  <2> QED BY <1>2, <1>3, <2>6 DEF SubInv
<1>7. ASSUME NEW d \in dlq, DlqReplay(d) \/ DlqAck(d) PROVE SubInv'
  <2>1. /\ UNCHANGED <<cursor, snapshot, signals>>
        /\ saved' = saved \/ (saved' = d.seq - 1 /\ d.seq - 1 < saved)
    <3>1. CASE DlqReplay(d)
      BY <3>1 DEF DlqReplay, sharedVars, flusherVars
    <3>2. CASE DlqAck(d)
      BY <3>2 DEF DlqAck, sharedVars, flusherVars
    <3> QED BY <1>7, <3>1, <3>2
  <2>2. d.seq \in Int /\ saved \in Int
    <3>1. dlq \subseteq AckOf /\ saved \in Int /\ MaxSeq \in Nat
      BY SubscriptionAssumption DEF TypeOK
    <3>2. d \in AckOf
      BY <1>7, <3>1
    <3> QED BY <3>1, <3>2 DEF AckOf
  <2>3. Covered(d.seq - 1) \/ ~(d.seq - 1 < saved)
    BY <2>2, LowerCovered DEF SubInv, CursorInv
  <2>4. CoveredNext(saved')
    BY <1>1, <1>4, <2>1, <2>2, <2>3, StaysCovered
  <2>5. CursorInv'
    BY <1>1, <1>4, <2>1, <2>4, QueueCovered, CursorKept DEF SubInv
  <2> QED BY <1>2, <1>3, <2>5 DEF SubInv
<1> QED BY <1>5, <1>6, <1>7 DEF Flusher

\* A restart keeps the saved row and forgets the rest.
LEMMA RestartSub ==
    ASSUME TypeOK, TypeOK', SubInv, Restart PROVE SubInv'
<1>0. /\ UNCHANGED <<stored, late, acked, failed, start, saved>>
      /\ signals' = <<>> /\ cursor' = 0 /\ snapshot' = 0
  BY DEF Restart, Topic!StartOver, savedVars
<1>1. Grows /\ start \in 0..MaxSeq
  BY <1>0, SettlingGrows DEF SubInv, CursorInv
<1>2. \A s \in stored : s > 0 /\ s \in Int
  BY DEF TypeOK, Seqs
<1>3. CoveredNext(0)
  BY <1>0, <1>2 DEF CoveredNext
<1>4. CursorInv'
  BY <1>0, <1>1, <1>3, OldCovered, QueueCovered, CursorKept DEF SubInv
<1>5. HandleInv' /\ AckInv'
  BY DEF Restart, HandleInv, AckInv, None
<1>6. ReadInv'
  <2>1. watermark' = 0 /\ buffer' = {}
    BY DEF Restart
  <2> QED BY <1>0, <1>1, <1>2, <2>1 DEF ReadInv, Reached
<1> QED BY <1>4, <1>5, <1>6 DEF SubInv

LEMMA NextSub == TypeOK /\ TypeOK' /\ LogInv /\ SubInv /\ [Next]_vars => SubInv'
<1> SUFFICES ASSUME TypeOK, TypeOK', LogInv, SubInv, [Next]_vars PROVE SubInv'
  OBVIOUS
<1>1. CASE UNCHANGED vars
  BY <1>1 DEF vars, SubInv, HandleInv, AckInv, ReadInv, CursorInv, Covered, Reached, Settled
<1>2. CASE Next
  BY <1>2, WorldSub, SubscribeSub, BootstrapSub, LiveSub, TurnSub, AckSub, DirtySub, FailSub,
     FlusherSub, RestartSub DEF Next, Consumer, NextStep, Debounce
<1> QED BY <1>1, <1>2

\* At-least-once: whatever the interleaving of acks, nacks, flushes, lags,
\* replays of dead letters and restarts, the saved cursor covers only rows the
\* consumer settled, rows from before the subscription and late rows
\* (next_from_bootstrap, ack, do_flush, handle_nack, resolve_start).
THEOREM NothingSkipped == Spec => []SavedCursorSkipsNothing
<1>1. SubInv => SavedCursorSkipsNothing
  BY DEF SubInv, CursorInv, Covered, Settled, SavedCursorSkipsNothing
<1> QED BY <1>1, InitType, NextType, InitSub, NextSub, PTL DEF Spec

-----------------------------------------------------------------------------
(***************************************************************************)
(* The final flush.  Without a failed write, a dead letter or a debouncer, *)
(* a cursor that is ahead of what is saved, or of what is being saved, is  *)
(* announced: counted by the flusher, queued for it, or about to be.       *)
(***************************************************************************)
DirtyQueued == \E i \in 1..Len(signals) : signals[i].kind = "Dirty"

Calm == faults = 0 /\ dlqOps = 0 /\ dlq = {} /\ ~Debounced

Announced == DirtyQueued \/ consumer = "acking"

FlushInv ==
    Calm =>
        /\ handle = "resolved" => saved = cursor
        /\ handle = "open" => flusher \in {"recv", "saving"}
        /\ handle \in {"open", "closed"} =>
             /\ flusher = "recv" => saved = cursor \/ dirty > 0 \/ Announced
             /\ flusher = "saving" => snapshot = cursor \/ Announced
             /\ flusher = "saving_last" => signals = <<>> /\ snapshot = cursor
             /\ flusher = "gone" => signals = <<>> /\ saved = cursor

LEMMA QuietSignals ==
    ASSUME TypeOK, UNCHANGED signals PROVE DirtyQueued' <=> DirtyQueued
  BY DEF DirtyQueued

\* Sending keeps what is queued, and a Dirty adds itself.
LEMMA SendQueues ==
    ASSUME TypeOK, NEW m, signals' = Append(signals, m)
    PROVE  (DirtyQueued => DirtyQueued') /\ (m.kind = "Dirty" => DirtyQueued')
<1>1. /\ Len(signals') = Len(signals) + 1 /\ signals'[Len(signals) + 1] = m
      /\ \A i \in 1..Len(signals) : signals'[i] = signals[i]
      /\ Len(signals) \in Nat
  BY DEF TypeOK
<1>2. ASSUME NEW i \in 1..Len(signals), signals[i].kind = "Dirty" PROVE DirtyQueued'
  BY <1>1, <1>2 DEF DirtyQueued
<1> QED BY <1>1, <1>2 DEF DirtyQueued

\* Taking a nack keeps every Dirty.
LEMMA TakeQueues ==
    ASSUME TypeOK, signals # <<>>, Head(signals).kind = "Nack", signals' = Tail(signals)
    PROVE  DirtyQueued => DirtyQueued'
<1>0. signals \in Seq(Signal)
  BY DEF TypeOK, Signal
<1> SUFFICES ASSUME NEW i \in 1..Len(signals), signals[i].kind = "Dirty" PROVE DirtyQueued'
  BY DEF DirtyQueued
<1>1. i # 1
  BY <1>0
<1>2. i - 1 \in 1..Len(signals') /\ signals'[i - 1] = signals[i]
  BY <1>0, <1>1
<1> QED BY <1>2 DEF DirtyQueued

CountInv == faults \in Nat /\ dlqOps \in Nat

\* Nothing calms down again.
LEMMA CalmBefore ==
    ASSUME CountInv, Next PROVE CountInv' /\ (Calm' => Calm)
<1>1. ASSUME UNCHANGED <<faults, dlqOps, dlq>> PROVE CountInv' /\ (Calm' => Calm)
  BY <1>1 DEF Calm, CountInv
<1>2. CASE World \/ Resolve \/ Attach \/ NextStep \/ Debounce \/ AckCursor \/ AckSignal \/ Fail
           \/ Close \/ Restart \/ TakeDirty \/ Tick \/ LastSignal \/ Save
  BY <1>1, <1>2 DEF World, LogGrows, DoubtEnds, Dispatch, Resolve, Attach, NextStep, NextBegins,
     NextFromBootstrap, CaughtUp, NextFromLive, Lagged, Debounce, WaitForNewer, Squash,
     SquashSignal, WindowEnds, AckCursor, AckSignal, Fail, Close, Restart, TakeDirty, Tick,
     LastSignal, Save, savedVars, bounds
<1>3. CASE TakeNack
  <2>1. dlqOps' = dlqOps /\ faults' \in {faults, faults + 1} /\ dlq \subseteq dlq'
    BY <1>3 DEF TakeNack
  <2> QED BY <2>1 DEF CountInv, Calm
<1>4. CASE ResolveFails \/ BootstrapFails \/ SaveFails
  <2>1. dlqOps' = dlqOps /\ faults' \in {faults, faults + 1} /\ dlq' = dlq
    BY <1>4 DEF ResolveFails, BootstrapFails, SaveFails, savedVars
  <2> QED BY <2>1 DEF CountInv, Calm
<1>5. ASSUME NEW d \in dlq, DlqReplay(d) \/ DlqAck(d) PROVE CountInv' /\ (Calm' => Calm)
  <2>1. faults' = faults /\ dlqOps' = dlqOps + 1
    BY <1>5 DEF DlqReplay, DlqAck
  <2> QED BY <2>1 DEF CountInv, Calm
<1> QED BY <1>2, <1>3, <1>4, <1>5 DEF Next, Consumer, Flusher

LEMMA NextFlush ==
    TypeOK /\ TypeOK' /\ SubInv /\ CountInv /\ FlushInv /\ [Next]_vars => FlushInv'
<1> SUFFICES ASSUME TypeOK, TypeOK', SubInv, CountInv, FlushInv, [Next]_vars, Calm' PROVE FlushInv'
  BY DEF FlushInv
<1> USE SubscriptionAssumption
<1>0. CASE UNCHANGED vars
  BY <1>0 DEF vars, FlushInv, Announced, DirtyQueued, Calm
<1> SUFFICES ASSUME Next PROVE FlushInv'
  BY <1>0
<1>1. Calm
  BY CalmBefore
<1>2. /\ handle = "resolved" => saved = cursor
      /\ handle = "open" => flusher \in {"recv", "saving"}
      /\ handle \in {"open", "closed"} =>
             /\ flusher = "recv" => saved = cursor \/ dirty > 0 \/ Announced
             /\ flusher = "saving" => snapshot = cursor \/ Announced
             /\ flusher = "saving_last" => signals = <<>> /\ snapshot = cursor
             /\ flusher = "gone" => signals = <<>> /\ saved = cursor
  BY <1>1 DEF FlushInv
<1>3. /\ handle # "open" => consumer = "idle"
      /\ consumer \notin {"window", "squashing"} /\ last = None
  BY <1>1 DEF SubInv, HandleInv, Calm
\* Steps that only fetch, or are outside.
<1>4. ASSUME UNCHANGED <<handle, cursor, saved, signals, flusher, dirty, snapshot>>,
             consumer = "acking" => consumer' = "acking"
      PROVE  FlushInv'
  <2>1. Announced => Announced'
    BY <1>4, QuietSignals DEF Announced
  <2> QED BY <1>2, <1>4, <2>1 DEF FlushInv
<1>5. CASE World \/ NextStep \/ BootstrapFails \/ Debounce
  <2>1. UNCHANGED <<handle, cursor, saved, signals, flusher, dirty, snapshot>>
    BY <1>3, <1>5 DEF World, LogGrows, DoubtEnds, Dispatch, NextStep, NextBegins,
     NextFromBootstrap, CaughtUp, NextFromLive, Lagged, BootstrapFails, Debounce, WaitForNewer,
     Squash, SquashSignal, WindowEnds, sharedVars, flusherVars, savedVars
  <2>2. consumer = "acking" => consumer' = "acking"
    BY <1>3, <1>5 DEF World, LogGrows, DoubtEnds, Dispatch, NextStep, NextBegins,
     NextFromBootstrap, CaughtUp, NextFromLive, Lagged, BootstrapFails, Debounce, WaitForNewer,
     Squash, SquashSignal, WindowEnds, consumerVars
  <2> QED BY <1>4, <2>1, <2>2
<1>6. CASE Resolve
  BY <1>6 DEF Resolve, FlushInv
<1>7. CASE Attach
  BY <1>2, <1>7 DEF Attach, FlushInv, sharedVars, savedVars
<1>8. CASE ResolveFails
  <2>1. faults' = faults + 1 /\ faults' = 0 /\ faults \in Nat
    BY <1>8 DEF ResolveFails, Calm, CountInv
  <2> QED BY <2>1
<1>9. CASE AckCursor
  <2>1. consumer' = "acking" /\ handle = "open" /\ handle' = handle /\ flusher' = flusher
    BY <1>3, <1>9 DEF AckCursor, flusherVars
  <2> QED BY <1>2, <2>1 DEF FlushInv, Announced
<1>10. CASE AckSignal
  <2>1. /\ handle = "open" /\ UNCHANGED <<handle, flusher>> /\ signals' = Append(signals, Dirty)
    BY <1>3, <1>10 DEF AckSignal
  <2>2. DirtyQueued'
    BY <2>1, SendQueues DEF Dirty
  <2> QED BY <1>2, <2>1, <2>2 DEF FlushInv, Announced
<1>11. CASE Fail \/ Close
  <2>1. /\ handle = "open" /\ UNCHANGED <<cursor, saved, flusher, dirty, snapshot>>
        /\ consumer # "acking" /\ handle' \in {"open", "closed"}
    BY <1>3, <1>11 DEF Fail, Close, sharedVars, savedVars
  <2>2. signals' = signals \/ \E a \in {held, last} : signals' = Append(signals, Nack(a))
    BY <1>11 DEF Fail, Close, Nacked
  <2>3. DirtyQueued => DirtyQueued'
    BY <2>2, QuietSignals, SendQueues
  <2> QED BY <1>2, <2>1, <2>3 DEF FlushInv, Announced
<1>12. CASE TakeDirty
  <2>1. /\ UNCHANGED <<handle, cursor, saved, consumer>> /\ flusher = "recv"
        /\ \/ flusher' = "recv" /\ dirty' = Saturated(dirty + 1)
           \/ flusher' = "saving" /\ snapshot' = cursor
    BY <1>12 DEF TakeDirty, SnapshotCursor, sharedVars, savedVars, consumerVars
  <2>2. Saturated(dirty + 1) > 0
    BY DEF Saturated, TypeOK
  <2>3. handle # "resolved"
    BY <2>1 DEF SubInv, HandleInv
  <2> QED BY <2>1, <2>2, <2>3 DEF FlushInv
<1>13. CASE TakeNack
  <2>1. dlq' = {} /\ faults' = faults
    <3>1. faults' = 0 /\ faults = 0 /\ dlq' = {}
      BY <1>1 DEF Calm
    <3> QED BY <3>1
  <2>2. /\ UNCHANGED <<handle, cursor, saved, consumer, flusher, dirty, snapshot>>
        /\ signals # <<>> /\ Head(signals).kind = "Nack" /\ signals' = Tail(signals)
        /\ flusher = "recv"
    <3>1. cursor' = cursor
      <4>1. ~(faults' = faults + 1)
        BY <2>1 DEF CountInv
      <4> QED BY <1>13, <2>1, <4>1 DEF TakeNack, sharedVars
    <3> QED BY <1>13, <3>1 DEF TakeNack, consumerVars
  <2>3. Announced => Announced'
    BY <2>2, TakeQueues DEF Announced
  <2>4. handle # "resolved"
    BY <2>2 DEF SubInv, HandleInv
  <2> QED BY <1>2, <2>2, <2>3, <2>4 DEF FlushInv
<1>14. CASE Tick
  <2>1. /\ UNCHANGED <<handle, cursor>> /\ flusher = "recv"
        /\ flusher' = "saving" /\ snapshot' = cursor
    BY <1>14 DEF Tick, SnapshotCursor, sharedVars
  <2>2. handle # "resolved"
    BY <2>1 DEF SubInv, HandleInv
  <2> QED BY <2>1, <2>2 DEF FlushInv
<1>15. CASE LastSignal
  <2>1. /\ UNCHANGED <<handle, cursor, saved, signals>> /\ flusher = "recv" /\ handle = "closed"
        /\ signals = <<>>
        /\ \/ dirty > 0 /\ flusher' = "saving_last" /\ snapshot' = cursor
           \/ ~(dirty > 0) /\ flusher' = "gone"
    BY <1>15 DEF LastSignal, SnapshotCursor, sharedVars, savedVars
  <2>2. ~Announced
    BY <1>3, <2>1 DEF Announced, DirtyQueued
  <2> QED BY <1>2, <2>1, <2>2 DEF FlushInv
<1>16. CASE Save
  <2>1. /\ UNCHANGED <<handle, cursor, signals, consumer>> /\ flusher \in {"saving", "saving_last"}
        /\ flusher' = (IF flusher = "saving" THEN "recv" ELSE "gone") /\ saved' = snapshot
    BY <1>16 DEF Save, AfterSave, sharedVars, consumerVars
  <2>2. handle \in {"open", "closed"}
    BY <2>1 DEF SubInv, HandleInv, TypeOK
  <2>3. Announced => Announced'
    BY <2>1, QuietSignals DEF Announced
  <2> QED BY <1>2, <2>1, <2>2, <2>3 DEF FlushInv
<1>17. CASE SaveFails
  <2>1. faults' = faults + 1 /\ faults' = 0 /\ faults \in Nat
    BY <1>17 DEF SaveFails, Calm, CountInv
  <2> QED BY <2>1
<1>18. ASSUME NEW d \in dlq, DlqReplay(d) \/ DlqAck(d) PROVE FALSE
  BY <1>1, <1>18 DEF Calm
<1>19. CASE Restart
  BY <1>19 DEF Restart, FlushInv
<1> QED BY <1>5, <1>6, <1>7, <1>8, <1>9, <1>10, <1>11, <1>12, <1>13, <1>14, <1>15, <1>16, <1>17,
           <1>18, <1>19 DEF Next, Consumer, Flusher

\* flusher.rs, "Final flush before exiting so we don't lose the last ack
\* cluster": holds for every subscription that is not debounced.  A debounced
\* one that is dropped while silent_ack waits for room loses the Dirty signal
\* with it.
THEOREM CloseSaves == Spec => [](~Debounced => CloseSavesCursor)
<1>1. Init => CountInv /\ FlushInv
  BY DEF Init, Fresh, CountInv, FlushInv
<1>2. CountInv /\ [Next]_vars => CountInv'
  <2>1. CountInv /\ UNCHANGED vars => CountInv'
    BY DEF CountInv, vars
  <2> QED BY <2>1, CalmBefore
<1>3. FlushInv => (~Debounced => CloseSavesCursor)
  BY DEF FlushInv, Calm, CloseSavesCursor
<1> QED BY <1>1, <1>2, <1>3, InitType, NextType, InitSub, NextSub, NextFlush, PTL DEF Spec
=============================================================================
