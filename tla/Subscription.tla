---------------------------- MODULE Subscription ----------------------------
(***************************************************************************)
(* The egress side of the bus: one durable subscription.  A consumer task  *)
(* calls next(), which first replays the log past the saved cursor         *)
(* (Bootstrap) and then follows the dispatcher's broadcast topic (Live); a *)
(* flusher task saves the acked cursor and routes nacks.  Both share the   *)
(* in-memory cursor; the log, the dispatcher, the cursor row and the dead  *)
(* letters are outside, and the daemon may stop or crash at any point.     *)
(*                                                                         *)
(* The log is EventLog and the topic is LiveFeed, which LogWriter and      *)
(* Dispatcher implement.  Rows of other domains are gaps in seq here.      *)
(***************************************************************************)
EXTENDS EventLog, Integers, Sequences, FiniteSets

CONSTANTS
    BatchSize,        \* SubscriptionOpts.batch_size (100)
    TopicBuffer,      \* TOPIC_BUFFER_SIZE
    SignalCapacity,   \* capacity of the flush signal channel (256)
    Policies,         \* the policies considered: "Retry", "SkipToDLQ", "Halt"
    RetryMax,         \* max of FailurePolicy::Retry (3)
    FlushPerEvent,    \* CursorFlush::PerEvent
    StartLatest,      \* StartFrom::Latest, else Earliest
    MayBePoison,      \* seqs whose payload may not decode
    Nacks,            \* whether the consumer ever fails an event
    Debounced,        \* whether the consumer called debounce()
    MaxSeq, MaxInDoubt, MaxFaults, MaxRestarts, MaxDlqOps   \* bounds

Seqs == 1..MaxSeq

ASSUME SubscriptionAssumption ==
    /\ BatchMax \in Nat \ {0} /\ BatchSize \in Nat \ {0}
    /\ TopicBuffer \in Nat \ {0} /\ SignalCapacity \in Nat \ {0}
    /\ Policies \subseteq {"Retry", "SkipToDLQ", "Halt"} /\ RetryMax \in Nat
    /\ FlushPerEvent \in BOOLEAN /\ StartLatest \in BOOLEAN
    /\ Nacks \in BOOLEAN /\ Debounced \in BOOLEAN
    /\ MaxSeq \in Nat /\ MayBePoison \subseteq Seqs

VARIABLES
    policy,        \* SubscriptionOpts.failure_policy
    poison,        \* seqs whose payload does not decode
    late,          \* history: rows stored after a row with a higher seq
    dispatched,    \* Dispatcher.last_dispatched_seq
    feed,          \* what the topic was sent in this life of the daemon
    handle,        \* the Subscription: "none", "resolved", "open", "closed"
    phase,         \* Lifecycle.phase
    watermark,     \* Lifecycle.watermark
    buffer,        \* Lifecycle.bootstrap_buffer, as a set of seqs
    rx,            \* broadcast receiver: entries of feed taken or skipped
    consumer,      \* "idle", "fetching" in next(), "window" and "squashing" in
                   \* the debounced next(), "handling", "acking"
    held,          \* the Ack in the consumer's hands: its row and its seq
    last,          \* the Ack a debounced next() waits with for a newer one
    cursor,        \* SubscriptionState.cursor
    terminated,    \* SubscriptionState.terminated
    signals,       \* the flush signal channel, oldest first
    flusher,       \* "recv", "saving", "saving_last", "gone"
    dirty,         \* the flusher's dirty_since_flush, up to BatchSize
    snapshot,      \* the cursor do_flush is saving
    hasRow, saved, \* the event_subscriptions row: exists, last_acked_seq
    dlq,           \* dead_letter_queue: the row and the event_seq column
    start,         \* history: where the subscription began
    delivered,     \* history: rows handed to the consumer in this life
    acked, failed, \* history: rows the consumer acked, failed
    faults, restarts, dlqOps

worldVars    == <<late, dispatched, feed>>
fetchVars    == <<phase, watermark, buffer, rx>>
consumerVars == <<consumer, held, last>>
sharedVars   == <<cursor, terminated>>
flusherVars  == <<signals, flusher, dirty, snapshot>>
savedVars    == <<hasRow, saved, dlq>>
history      == <<start, delivered, acked, failed>>
bounds       == <<policy, poison, faults, restarts, dlqOps>>
vars == <<stored, lastSeq, inDoubt, policy, poison, late, dispatched, feed, handle, phase,
          watermark, buffer, rx, consumer, held, last, cursor, terminated, signals,
          flusher, dirty, snapshot, hasRow, saved, dlq, start, delivered, acked,
          failed, faults, restarts, dlqOps>>

Topic == INSTANCE LiveFeed WITH cursor <- dispatched

None == [row |-> 0, seq |-> 0]
Dirty == [kind |-> "Dirty", row |-> 0, seq |-> 0]
Nack(ack) == [kind |-> "Nack", row |-> ack.row, seq |-> ack.seq]

\* A life of the daemon begins: nobody has subscribed yet.
Fresh ==
    /\ handle = "none"
    /\ phase = "Bootstrap" /\ watermark = 0 /\ buffer = {} /\ rx = 0
    /\ consumer = "idle" /\ held = None /\ last = None
    /\ cursor = 0 /\ terminated = FALSE
    /\ signals = <<>> /\ flusher = "gone" /\ dirty = 0 /\ snapshot = 0
    /\ delivered = {}

Init ==
    /\ LogInit
    /\ Topic!FeedInit
    /\ Fresh
    /\ policy \in Policies /\ poison \in SUBSET MayBePoison
    /\ late = {}
    /\ hasRow = FALSE /\ saved = 0 /\ dlq = {}
    /\ start = 0 /\ acked = {} /\ failed = {}
    /\ faults = 0 /\ restarts = 0 /\ dlqOps = 0

-----------------------------------------------------------------------------
(* The log writer and the dispatcher.                                       *)

LogGrows ==
    /\ \E n \in 1..BatchMax :
          /\ lastSeq + n <= MaxSeq
          /\ \/ Commits(n)
             \/ Cardinality(inDoubt) < MaxInDoubt /\ LeftInDoubt(n)
    /\ UNCHANGED <<worldVars, handle, fetchVars, consumerVars, sharedVars,
                   flusherVars, savedVars, history, bounds>>

DoubtEnds(t) ==
    /\ Lands(t) \/ Vanishes(t)
    /\ late' = late \cup {s \in stored' \ stored : \E u \in stored : u > s}
    /\ UNCHANGED <<dispatched, feed, handle, fetchVars, consumerVars, sharedVars,
                   flusherVars, savedVars, history, bounds>>

\* The dispatcher publishes row s, or passes over it.  A row that does not
\* decode is never published.
Dispatch(s) ==
    /\ Topic!Advance(s)
    /\ s \in poison => feed' = feed
    /\ UNCHANGED <<lastSeq, inDoubt, late, handle, fetchVars, consumerVars,
                   sharedVars, flusherVars, savedVars, history, bounds>>

-----------------------------------------------------------------------------
(* subscribe().                                                             *)

Head_seq == IF stored = {} THEN 0
            ELSE CHOOSE m \in stored : \A s \in stored : s <= m

\* The saved row wins; a new subscription starts at the head of the log or
\* at 0 and saves that at once.
Resolve ==
    /\ handle = "none"
    /\ handle' = "resolved"
    /\ cursor' = IF hasRow THEN saved ELSE IF StartLatest THEN Head_seq ELSE 0
    /\ hasRow' = TRUE
    /\ saved' = cursor'
    /\ start' = IF hasRow THEN start ELSE cursor'
    /\ UNCHANGED <<logVars, worldVars, fetchVars, consumerVars, terminated,
                   flusherVars, dlq, delivered, acked, failed, bounds>>

\* The cursor store or the log fails: subscribe() returns an error and the
\* daemon goes on without this subscription.
ResolveFails ==
    /\ handle = "none"
    /\ faults < MaxFaults
    /\ faults' = faults + 1
    /\ handle' = "closed"
    /\ UNCHANGED <<logVars, worldVars, fetchVars, consumerVars, sharedVars,
                   flusherVars, savedVars, history, policy, poison, restarts, dlqOps>>

\* The flusher is spawned and the live receiver attached, ahead of any read.
Attach ==
    /\ handle = "resolved"
    /\ handle' = "open"
    /\ flusher' = "recv"
    /\ rx' = Len(feed)
    /\ phase' = "Bootstrap"
    /\ watermark' = cursor
    /\ UNCHANGED <<logVars, worldVars, buffer, consumerVars, sharedVars, signals,
                   dirty, snapshot, savedVars, history, bounds>>

-----------------------------------------------------------------------------
(* next().                                                                  *)

\* The loop of next() begins a turn, or returns None.
NextBegins ==
    /\ handle = "open" /\ consumer = "idle" /\ ~terminated
    /\ consumer' = "fetching"
    /\ UNCHANGED <<logVars, worldVars, handle, fetchVars, held, last, sharedVars,
                   flusherVars, savedVars, history, bounds>>

\* wrap_ack: the consumer, or the debouncer in front of it, gets row s under
\* the given seq.
HandOut(s, seq) ==
    /\ consumer' = IF Debounced THEN "window" ELSE "handling"
    /\ held' = [row |-> s, seq |-> seq]
    /\ delivered' = delivered \cup {s}
    /\ UNCHANGED <<last, start, acked, failed>>

\* read_from: the BatchSize lowest rows past the watermark.
Beyond == {s \in stored : s > watermark}
ReadFrom == {s \in Beyond : Cardinality({u \in Beyond : u < s}) < BatchSize}

\* Mutant of PopOrder: the batch is not reversed before it is popped.
PopOrderUnreversed(s, pool) == s \in pool /\ \A u \in pool : u <= s

\* The buffer is reversed, so pop() takes the lowest seq.
PopOrder(s, pool) == s \in pool /\ \A u \in pool : s <= u

\* next_from_bootstrap: pop the buffer, reading a batch when it is empty.
\* One row that does not decode fails the whole batch.
NextFromBootstrap ==
    /\ consumer = "fetching" /\ phase = "Bootstrap"
    /\ buffer # {} \/ ReadFrom \cap poison = {}
    /\ LET pool == IF buffer # {} THEN buffer ELSE ReadFrom IN
       \E s \in pool :
          /\ PopOrder(s, pool)
          /\ buffer' = pool \ {s}
          /\ watermark' = IF s > watermark THEN s ELSE watermark
          /\ HandOut(s, s)
    /\ UNCHANGED <<logVars, worldVars, handle, phase, rx, sharedVars, flusherVars,
                   savedVars, bounds>>

\* The log has nothing past the watermark: switch to the live receiver.
CaughtUp ==
    /\ consumer = "fetching" /\ phase = "Bootstrap"
    /\ buffer = {} /\ ReadFrom = {}
    /\ phase' = "Live"
    /\ consumer' = "idle"
    /\ UNCHANGED <<logVars, worldVars, handle, watermark, buffer, rx, held, last,
                   sharedVars, flusherVars, savedVars, history, bounds>>

\* The read fails, or a row of the batch does not decode: next() sleeps and
\* goes round again from the same watermark.
BootstrapFails ==
    /\ consumer = "fetching" /\ phase = "Bootstrap" /\ buffer = {}
    /\ \/ ReadFrom \cap poison # {} /\ UNCHANGED faults
       \/ faults < MaxFaults /\ faults' = faults + 1
    /\ consumer' = "idle"
    /\ UNCHANGED <<logVars, worldVars, handle, fetchVars, held, last, sharedVars,
                   flusherVars, savedVars, history, policy, poison, restarts, dlqOps>>

\* The domain event does not carry its seq: live rows are handed out as 0.
LiveSeq == 0

\* next_from_live: the oldest entry the receiver has not taken.
NextFromLive ==
    /\ consumer = "fetching" /\ phase = "Live"
    /\ rx < Len(feed) /\ Len(feed) - rx <= TopicBuffer
    /\ rx' = rx + 1
    /\ watermark' = IF LiveSeq > watermark THEN LiveSeq ELSE watermark
    /\ HandOut(feed[rx + 1], LiveSeq)
    /\ UNCHANGED <<logVars, worldVars, handle, phase, buffer, sharedVars, flusherVars,
                   savedVars, bounds>>

\* Mutant of Lagged: the receiver goes on with the oldest entry still there.
LaggedCarriesOn ==
    /\ consumer = "fetching" /\ phase = "Live"
    /\ Len(feed) - rx > TopicBuffer
    /\ rx' = Len(feed) - TopicBuffer
    /\ consumer' = "idle"
    /\ UNCHANGED <<logVars, worldVars, handle, phase, watermark, buffer, held, last,
                   sharedVars, flusherVars, savedVars, history, bounds>>

\* The receiver fell behind by more than the buffer holds: it is moved to the
\* oldest entry and the subscription replays the log from its watermark.
Lagged ==
    /\ consumer = "fetching" /\ phase = "Live"
    /\ Len(feed) - rx > TopicBuffer
    /\ rx' = Len(feed) - TopicBuffer
    /\ phase' = "Bootstrap"
    /\ consumer' = "idle"
    /\ UNCHANGED <<logVars, worldVars, handle, watermark, buffer, held, last, sharedVars,
                   flusherVars, savedVars, history, bounds>>

-----------------------------------------------------------------------------
(* Ack: ack(), nack() and drop.                                             *)

\* ack(), under the lock: the cursor never rewinds.
AckCursor ==
    /\ consumer = "handling"
    /\ consumer' = "acking"
    /\ cursor' = IF held.seq > cursor THEN held.seq ELSE cursor
    /\ acked' = acked \cup {held.row}
    /\ UNCHANGED <<logVars, worldVars, handle, fetchVars, held, last, terminated,
                   flusherVars, savedVars, start, delivered, failed, bounds>>

\* Mutant of AckSignal: the channel has no bound.
AckSignalUnbounded ==
    /\ consumer = "acking"
    /\ signals' = Append(signals, Dirty)
    /\ consumer' = "idle" /\ held' = None
    /\ UNCHANGED <<logVars, worldVars, handle, fetchVars, last, sharedVars, flusher,
                   dirty, snapshot, savedVars, history, bounds>>

\* ack(), after the unlock: the send waits for room in the channel.
AckSignal ==
    /\ consumer = "acking"
    /\ Len(signals) < SignalCapacity
    /\ signals' = Append(signals, Dirty)
    /\ consumer' = "idle" /\ held' = None
    /\ UNCHANGED <<logVars, worldVars, handle, fetchVars, last, sharedVars, flusher,
                   dirty, snapshot, savedVars, history, bounds>>

\* What a nack leaves: nack() waits for room, a dropped Ack only tries and is
\* lost when the channel is full.
Nacked(ack) ==
    /\ signals' = IF Len(signals) < SignalCapacity THEN Append(signals, Nack(ack))
                  ELSE signals
    /\ failed' = failed \cup {ack.row}

Fail ==
    /\ Nacks
    /\ consumer = "handling"
    /\ Nacked(held)
    /\ consumer' = "idle" /\ held' = None
    /\ UNCHANGED <<logVars, worldVars, handle, fetchVars, last, sharedVars, flusher,
                   dirty, snapshot, savedVars, start, delivered, acked, bounds>>

\* next() returned None, or the daemon shuts down while next() is pending:
\* the Subscription is dropped and the flusher is told.  A debounced next()
\* drops the Ack it waited with, or the newer one while it settles the older.
Close ==
    /\ handle = "open"
    /\ \/ consumer \in {"idle", "fetching", "squashing"}
       \/ consumer = "window" /\ last # None
    /\ handle' = "closed"
    /\ consumer' = "idle" /\ held' = None /\ last' = None
    /\ IF held # None THEN Nacked(held)
       ELSE IF last # None THEN Nacked(last)
       ELSE UNCHANGED <<signals, failed>>
    /\ acked' = IF consumer = "window" THEN acked \cup {last.row} ELSE acked
    /\ UNCHANGED <<logVars, worldVars, fetchVars, sharedVars, flusher, dirty, snapshot,
                   savedVars, start, delivered, bounds>>

-----------------------------------------------------------------------------
(* DebouncedSubscription::next(): wait with the last event for a newer one. *)

\* The window is open: call the inner next() again.
WaitForNewer ==
    /\ consumer = "window" /\ last = None
    /\ last' = held /\ held' = None
    /\ consumer' = "idle"
    /\ UNCHANGED <<logVars, worldVars, handle, fetchVars, sharedVars, flusherVars,
                   savedVars, history, bounds>>

\* Mutant of Squash: the cursor goes to the event that arrived.
SquashNewest ==
    /\ consumer = "window" /\ last # None
    /\ consumer' = "squashing" /\ last' = None
    /\ cursor' = IF held.seq > cursor THEN held.seq ELSE cursor
    /\ acked' = acked \cup {last.row}
    /\ UNCHANGED <<logVars, worldVars, handle, fetchVars, held, terminated,
                   flusherVars, savedVars, start, delivered, failed, bounds>>

\* A newer event arrived: silent_ack() of the one it replaces, under the lock.
Squash ==
    /\ consumer = "window" /\ last # None
    /\ consumer' = "squashing" /\ last' = None
    /\ cursor' = IF last.seq > cursor THEN last.seq ELSE cursor
    /\ acked' = acked \cup {last.row}
    /\ UNCHANGED <<logVars, worldVars, handle, fetchVars, held, terminated,
                   flusherVars, savedVars, start, delivered, failed, bounds>>

\* silent_ack() after the unlock: the send waits for room in the channel.
SquashSignal ==
    /\ consumer = "squashing"
    /\ Len(signals) < SignalCapacity
    /\ signals' = Append(signals, Dirty)
    /\ consumer' = "window"
    /\ UNCHANGED <<logVars, worldVars, handle, fetchVars, held, last, sharedVars,
                   flusher, dirty, snapshot, savedVars, history, bounds>>

\* The deadline has passed, or the inner next() returned None: the caller gets
\* the last event.
WindowEnds ==
    /\ \/ consumer = "window" /\ last = None /\ UNCHANGED <<held, last>>
       \/ consumer \in {"idle", "fetching"} /\ last # None /\ held' = last /\ last' = None
    /\ consumer' = "handling"
    /\ UNCHANGED <<logVars, worldVars, handle, fetchVars, sharedVars, flusherVars,
                   savedVars, history, bounds>>

-----------------------------------------------------------------------------
(* The flusher task.                                                        *)

Saturated(n) == IF n > BatchSize THEN BatchSize ELSE n

\* do_flush, up to the unlock.
SnapshotCursor(next) ==
    /\ snapshot' = cursor
    /\ flusher' = next

\* A Dirty signal; the batch threshold or PerEvent starts a flush.
TakeDirty ==
    /\ flusher = "recv" /\ signals # <<>> /\ Head(signals).kind = "Dirty"
    /\ signals' = Tail(signals)
    /\ dirty' = Saturated(dirty + 1)
    /\ IF FlushPerEvent \/ dirty + 1 >= BatchSize
         THEN SnapshotCursor("saving")
         ELSE UNCHANGED <<flusher, snapshot>>
    /\ UNCHANGED <<logVars, worldVars, handle, fetchVars, consumerVars, sharedVars,
                   savedVars, history, bounds>>

\* FailureRouter::route: the row goes to the DLQ unless the policy is Retry
\* with attempts left, and no delivery ever has an attempt other than 0.
GoesToDlq == policy # "Retry" \/ RetryMax = 0

\* handle_nack.  A failing DLQ insert terminates the subscription, except
\* under Halt, which terminates it anyway and ignores the error.
TakeNack ==
    /\ flusher = "recv" /\ signals # <<>> /\ Head(signals).kind = "Nack"
    /\ signals' = Tail(signals)
    /\ LET nack == Head(signals) IN
       \/ /\ ~GoesToDlq
          /\ UNCHANGED <<dlq, sharedVars, faults>>
       \/ /\ GoesToDlq
          /\ dlq' = dlq \cup {[row |-> nack.row, seq |-> nack.seq]}
          /\ IF policy = "Halt"
               THEN /\ terminated' = TRUE
                    /\ UNCHANGED cursor
               ELSE /\ cursor' = IF nack.seq > cursor THEN nack.seq ELSE cursor
                    /\ UNCHANGED terminated
          /\ UNCHANGED faults
       \/ /\ GoesToDlq
          /\ faults < MaxFaults
          /\ faults' = faults + 1
          /\ terminated' = TRUE
          /\ UNCHANGED <<dlq, cursor>>
    /\ UNCHANGED <<logVars, worldVars, handle, fetchVars, consumerVars, flusher, dirty,
                   snapshot, hasRow, saved, history, policy, poison, restarts, dlqOps>>

\* The flush window elapses with something to save.
Tick ==
    /\ flusher = "recv" /\ dirty > 0
    /\ SnapshotCursor("saving")
    /\ UNCHANGED <<logVars, worldVars, handle, fetchVars, consumerVars, sharedVars,
                   signals, dirty, savedVars, history, bounds>>

\* Mutant of LastSignal: the flusher stops without a final flush.
LastSignalNoFlush ==
    /\ flusher = "recv" /\ signals = <<>> /\ handle = "closed"
    /\ flusher' = "gone"
    /\ UNCHANGED <<logVars, worldVars, handle, fetchVars, consumerVars, sharedVars,
                   signals, dirty, snapshot, savedVars, history, bounds>>

\* Shutdown, or every sender gone, behind everything queued before it: a final
\* flush if the flusher counted anything.
LastSignal ==
    /\ flusher = "recv" /\ signals = <<>> /\ handle = "closed"
    /\ IF dirty > 0 THEN SnapshotCursor("saving_last")
       ELSE flusher' = "gone" /\ UNCHANGED snapshot
    /\ UNCHANGED <<logVars, worldVars, handle, fetchVars, consumerVars, sharedVars,
                   signals, dirty, savedVars, history, bounds>>

AfterSave == IF flusher = "saving" THEN "recv" ELSE "gone"

\* The upsert succeeds, or fails and leaves the count up for the next window.
Save ==
    /\ flusher \in {"saving", "saving_last"}
    /\ flusher' = AfterSave
    /\ saved' = snapshot
    /\ dirty' = 0
    /\ UNCHANGED <<logVars, worldVars, handle, fetchVars, consumerVars, sharedVars,
                   signals, snapshot, hasRow, dlq, history, bounds>>

\* Mutant of SaveFails: the count is cleared although nothing was saved.
SaveFailsForgets ==
    /\ flusher \in {"saving", "saving_last"}
    /\ faults < MaxFaults
    /\ faults' = faults + 1
    /\ flusher' = AfterSave
    /\ dirty' = 0
    /\ UNCHANGED <<logVars, worldVars, handle, fetchVars, consumerVars, sharedVars,
                   signals, snapshot, savedVars, history, policy, poison,
                   restarts, dlqOps>>

SaveFails ==
    /\ flusher \in {"saving", "saving_last"}
    /\ faults < MaxFaults
    /\ faults' = faults + 1
    /\ flusher' = AfterSave
    /\ dirty' = Saturated(dirty + 1)
    /\ UNCHANGED <<logVars, worldVars, handle, fetchVars, consumerVars, sharedVars,
                   signals, snapshot, savedVars, history, policy, poison,
                   restarts, dlqOps>>

-----------------------------------------------------------------------------
(* Operators and the daemon.                                                *)

\* dlq_replay: the saved cursor goes back before the dead letter, which is
\* deleted.  A running subscription is not told.
DlqReplay(d) ==
    /\ d \in dlq
    /\ dlqOps < MaxDlqOps
    /\ dlqOps' = dlqOps + 1
    /\ saved' = IF d.seq - 1 < saved THEN d.seq - 1 ELSE saved
    /\ dlq' = dlq \ {d}
    /\ UNCHANGED <<logVars, worldVars, handle, fetchVars, consumerVars, sharedVars,
                   flusherVars, hasRow, start, delivered, acked, failed, faults,
                   policy, poison, restarts>>

\* dlq_ack: an operator deletes a dead letter.
DlqAck(d) ==
    /\ d \in dlq
    /\ dlqOps < MaxDlqOps
    /\ dlqOps' = dlqOps + 1
    /\ dlq' = dlq \ {d}
    /\ UNCHANGED <<logVars, worldVars, handle, fetchVars, consumerVars, sharedVars,
                   flusherVars, hasRow, saved, history, policy, poison, faults, restarts>>

\* The daemon process ends, cleanly or not, and is started again.  The log,
\* the cursor row and the dead letters survive; the dispatcher starts over.
Restart ==
    /\ restarts < MaxRestarts
    /\ restarts' = restarts + 1
    /\ Topic!StartOver
    /\ handle' = "none"
    /\ phase' = "Bootstrap" /\ watermark' = 0 /\ buffer' = {} /\ rx' = 0
    /\ consumer' = "idle" /\ held' = None /\ last' = None
    /\ cursor' = 0 /\ terminated' = FALSE
    /\ signals' = <<>> /\ flusher' = "gone" /\ dirty' = 0 /\ snapshot' = 0
    /\ delivered' = {}
    /\ UNCHANGED <<lastSeq, inDoubt, late, savedVars, start, acked, failed,
                   policy, poison, faults, dlqOps>>

-----------------------------------------------------------------------------
World ==
    \/ LogGrows
    \/ \E t \in inDoubt : DoubtEnds(t)
    \/ \E s \in stored : Dispatch(s)

NextStep == NextBegins \/ NextFromBootstrap \/ CaughtUp \/ NextFromLive \/ Lagged

Debounce == WaitForNewer \/ Squash \/ SquashSignal \/ WindowEnds

Consumer == Resolve \/ Attach \/ NextStep \/ Debounce \/ AckCursor \/ AckSignal

Flusher == TakeDirty \/ TakeNack \/ Tick \/ LastSignal \/ Save

Next ==
    \/ World \/ Consumer \/ Flusher
    \/ ResolveFails \/ BootstrapFails \/ SaveFails
    \/ Fail \/ Close
    \/ \E d \in dlq : DlqReplay(d) \/ DlqAck(d)
    \/ Restart

Spec == Init /\ [][Next]_vars

\* The runtime keeps polling both tasks, handlers return and the flush timer
\* fires.  Rows, failures, shutdowns and restarts are never forced.
FairSpec == Spec /\ WF_vars(Consumer) /\ WF_vars(Flusher)

-----------------------------------------------------------------------------
(* Properties.                                                              *)

AckOf == [row: 0..MaxSeq, seq: 0..MaxSeq]

TypeOK ==
    /\ stored \subseteq Seqs /\ late \subseteq Seqs
    /\ dispatched \in 0..MaxSeq /\ feed \in Seq(Seqs)
    /\ handle \in {"none", "resolved", "open", "closed"}
    /\ phase \in {"Bootstrap", "Live"}
    /\ watermark \in -1..MaxSeq /\ buffer \subseteq Seqs /\ rx \in 0..Len(feed)
    /\ consumer \in {"idle", "fetching", "window", "squashing", "handling", "acking"}
    /\ held \in AckOf /\ last \in AckOf
    /\ (held = None) = (consumer \in {"idle", "fetching"})
    /\ cursor \in -1..MaxSeq /\ saved \in -1..MaxSeq /\ snapshot \in -1..MaxSeq
    /\ terminated \in BOOLEAN /\ hasRow \in BOOLEAN
    /\ signals \in Seq([kind: {"Dirty", "Nack"}, row: 0..MaxSeq, seq: 0..MaxSeq])
    /\ Len(signals) <= SignalCapacity
    /\ flusher \in {"recv", "saving", "saving_last", "gone"}
    /\ dirty \in 0..BatchSize
    /\ dlq \subseteq AckOf /\ policy \in Policies /\ poison \subseteq MayBePoison

Published == {feed[i] : i \in DOMAIN feed}

\* At-least-once across crashes: whatever interleaving of acks, flushes, lags
\* and restarts, the saved cursor only ever covers rows the consumer acked or
\* failed, rows from before the subscription, and rows that landed late.
SavedCursorSkipsNothing ==
    \A s \in stored :
        start < s /\ s <= saved => s \in acked \cup failed \cup late

\* A subscription that was closed and drained without a failed write has saved
\* all it knows (flusher, "Final flush before exiting so we don't lose the
\* last ack cluster").  The advance past a dead letter is the exception: the
\* flusher does not count it.
CloseSavesCursor ==
    handle = "closed" /\ flusher = "gone" /\ hasRow
        /\ faults = 0 /\ dlqOps = 0 /\ dlq = {} => saved = cursor

\* No row is lost in the switch from log to topic, by a lagging receiver or by
\* a restart: what the dispatcher publishes past the start reaches the
\* consumer, unless it landed late, the subscription ends, or a row that does
\* not decode holds the log reads up.
PublishedIsDelivered ==
    \A s \in Seqs :
        handle = "open" /\ s \in Published \ late /\ s > start ~>
            s \in delivered \cup acked \cup failed
                \/ handle = "closed" \/ terminated \/ stored \cap poison # {}

\* Every cursor the consumer reached is saved in time, however often the write
\* fails on the way ("will retry next window"), while the subscription lives.
CursorIsSaved ==
    \A s \in Seqs : handle = "open" /\ cursor >= s ~> saved >= s \/ handle # "open"

(* What the documentation says and the code does not do.                    *)

\* failure.rs: "SkipToDLQ - move the event to `dead_letter_queue`, advance the
\* cursor", and api.rs: halt "rather than silently drop": a failed row that
\* the saved cursor has passed is a dead letter.
FailedIsKept ==
    \A s \in failed : s <= saved => \E d \in dlq : d.row = s
=============================================================================
