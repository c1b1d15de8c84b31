----------------------------- MODULE Dispatcher -----------------------------
(***************************************************************************)
(* Steps 5-7 of the pipeline: one task polls event_log past its cursor,    *)
(* checks the control gate row by row and publishes to the row's topic.    *)
(* It runs beside the log writer, whose transactions may land late, beside *)
(* operators who pause domains, and beside a shutdown signal.              *)
(***************************************************************************)
EXTENDS EventLog, Integers, Sequences, FiniteSets

CONSTANTS
    Gated,            \* domains that map to a CtlDomain bucket
    Ungated,          \* the other registered domains
    UnknownLabel,     \* a domain column domain_from_str does not know
    Rows,             \* the rows a behaviour may store
    BatchLimit,       \* TAIL_BATCH_LIMIT (256)
    MaxSeq,           \* bound: rows of a behaviour
    MaxUnknown,       \* bound: rows with an unknown domain label
    MaxInDoubt,       \* bound: transactions left in doubt at a time
    MaxTailErrors,    \* bound: failed reads of a behaviour
    MaxRestarts       \* bound: daemon restarts of a behaviour

Domains == Gated \cup Ungated
Seqs == 1..MaxSeq

\* What the dispatcher looks at in a row; decodes is whether fanout_json can
\* turn the payload into the domain's event type.
Row == [domain: Domains \cup {UnknownLabel}, decodes: BOOLEAN]

ASSUME DispatcherAssumption ==
    /\ UnknownLabel \notin Domains
    /\ Rows \subseteq Row
    /\ BatchMax \in Nat \ {0}
    /\ BatchLimit \in Nat \ {0}
    /\ MaxSeq \in Nat

VARIABLES
    row,         \* the row each seq holds, once it is stored
    cursor,      \* Dispatcher.last_dispatched_seq
    pc,          \* where run_tail stands
    pending,     \* rows of the batch still to be dispatched
    full,        \* was_full
    paused,      \* domains the control gate reports paused
    shutdown,    \* the shutdown watch channel
    feed,        \* seqs published to the topics in this life
    dropped,     \* history: rows the loop dropped in this life
    late,        \* history: rows stored in this life after a row with a higher seq
    tailErrors, restarts

taskVars == <<cursor, pc, pending, full, feed, dropped>>
vars == <<stored, lastSeq, inDoubt, row, cursor, pc, pending, full, paused,
          shutdown, feed, dropped, late, tailErrors, restarts>>

Known(s) == row[s].domain # UnknownLabel

Init ==
    /\ LogInit
    /\ row \in [Seqs -> Rows]
    /\ Cardinality({s \in Seqs : ~Known(s)}) <= MaxUnknown
    /\ cursor = 0
    /\ pc = "poll"
    /\ pending = {}
    /\ full = FALSE
    /\ paused = {}
    /\ shutdown = FALSE
    /\ feed = <<>>
    /\ dropped = {}
    /\ late = {}
    /\ tailErrors = 0
    /\ restarts = 0

-----------------------------------------------------------------------------
(* The log writer, through the table.                                       *)

LogGrows ==
    /\ \E n \in 1..BatchMax :
          /\ lastSeq + n <= MaxSeq
          /\ \/ Commits(n)
             \/ RollsBack(n)
             \/ Cardinality(inDoubt) < MaxInDoubt /\ LeftInDoubt(n)
    /\ UNCHANGED <<row, taskVars, paused, shutdown, late, tailErrors, restarts>>

DoubtEnds(t) ==
    /\ Lands(t) \/ Vanishes(t)
    /\ late' = late \cup {s \in stored' \ stored : \E u \in stored : u > s}
    /\ UNCHANGED <<row, taskVars, paused, shutdown, tailErrors, restarts>>

-----------------------------------------------------------------------------
(* run_tail.                                                                *)

\* Mutant of Beyond: seq >= cursor.
BeyondInclusive == {s \in stored : s >= cursor}

Beyond == {s \in stored : s > cursor}

\* Mutant of Window: ORDER BY seq DESC.
WindowNewest == {s \in Beyond : Cardinality({u \in Beyond : u > s}) < BatchLimit}

\* SELECT .. WHERE seq > cursor ORDER BY seq ASC LIMIT BatchLimit.
Window == {s \in Beyond : Cardinality({u \in Beyond : u < s}) < BatchLimit}

\* read_all_from leaves out the rows whose domain label it does not know.
Batch == {s \in Window : Known(s)}

\* One poll that succeeds; the rows are a snapshot from here on.
Poll ==
    /\ pc = "poll" /\ ~shutdown
    /\ pending' = Batch
    /\ full' = (Cardinality(Batch) = BatchLimit)
    /\ pc' = "dispatch"
    /\ UNCHANGED <<logVars, row, cursor, paused, shutdown, feed, dropped, late,
                   tailErrors, restarts>>

\* The SELECT fails, or a payload_ref or its blob cannot be read or decoded:
\* run_tail returns DispatchError::Tail and its task is over.
PollFails ==
    /\ pc = "poll" /\ ~shutdown
    /\ tailErrors < MaxTailErrors
    /\ tailErrors' = tailErrors + 1
    /\ pc' = "failed"
    /\ UNCHANGED <<logVars, row, cursor, pending, full, paused, shutdown, feed,
                   dropped, late, restarts>>

\* dispatch_one publishes row s: its domain is not paused, has a topic (every
\* known domain does) and its payload decodes.
Passes(s) == row[s].domain \notin paused /\ row[s].decodes

\* The batch is walked in seq order.
IsNext(s) == s \in pending /\ \A u \in pending : s <= u

\* Mutant of DispatchOne: the cursor is taken for the next seq to read.
DispatchOneNextSeq ==
    /\ pc = "dispatch"
    /\ \E s \in pending :
          /\ IsNext(s)
          /\ pending' = pending \ {s}
          /\ cursor' = s + 1
          /\ feed' = IF Passes(s) THEN Append(feed, s) ELSE feed
          /\ dropped' = IF Passes(s) THEN dropped ELSE dropped \cup {s}
    /\ UNCHANGED <<logVars, row, pc, full, paused, shutdown, late, tailErrors,
                   restarts>>

\* Mutant of DispatchOne: a dropped row does not move the cursor.
DispatchOneKeepsDropped ==
    /\ pc = "dispatch"
    /\ \E s \in pending :
          /\ IsNext(s)
          /\ pending' = pending \ {s}
          /\ cursor' = IF Passes(s) THEN s ELSE cursor
          /\ feed' = IF Passes(s) THEN Append(feed, s) ELSE feed
          /\ dropped' = IF Passes(s) THEN dropped ELSE dropped \cup {s}
    /\ UNCHANGED <<logVars, row, pc, full, paused, shutdown, late, tailErrors,
                   restarts>>

\* One turn of the loop over the batch: dispatch_one, then the cursor.
DispatchOne ==
    /\ pc = "dispatch"
    /\ \E s \in pending :
          /\ IsNext(s)
          /\ pending' = pending \ {s}
          /\ cursor' = s
          /\ feed' = IF Passes(s) THEN Append(feed, s) ELSE feed
          /\ dropped' = IF Passes(s) THEN dropped ELSE dropped \cup {s}
    /\ UNCHANGED <<logVars, row, pc, full, paused, shutdown, late, tailErrors,
                   restarts>>

\* A full batch is followed by another poll at once, any other by a wait.
EndBatch ==
    /\ pc = "dispatch" /\ pending = {}
    /\ pc' = IF full THEN "poll" ELSE "wait"
    /\ UNCHANGED <<logVars, row, cursor, pending, full, paused, shutdown, feed,
                   dropped, late, tailErrors, restarts>>

\* TAIL_POLL_INTERVAL elapses.
Wake ==
    /\ pc = "wait"
    /\ pc' = "poll"
    /\ UNCHANGED <<logVars, row, cursor, pending, full, paused, shutdown, feed,
                   dropped, late, tailErrors, restarts>>

\* The shutdown flag is seen before a poll or during the wait.
Stop ==
    /\ pc \in {"poll", "wait"} /\ shutdown
    /\ pc' = "stopped"
    /\ UNCHANGED <<logVars, row, cursor, pending, full, paused, shutdown, feed,
                   dropped, late, tailErrors, restarts>>

-----------------------------------------------------------------------------
(* The rest of the daemon.                                                  *)

\* Operators set the control tree, one domain or the global switch; P is what
\* the gate reports afterwards.  The gate reads the tree per row.
SetPaused(P) ==
    /\ paused' = P
    /\ UNCHANGED <<logVars, row, taskVars, shutdown, late, tailErrors, restarts>>

\* BusStartHandle is dropped or the daemon is told to stop.
Shutdown ==
    /\ ~shutdown
    /\ shutdown' = TRUE
    /\ UNCHANGED <<logVars, row, taskVars, paused, late, tailErrors, restarts>>

\* The daemon process ends, at any point, and is started again: DispatcherBuilder
\* builds fresh topics and a cursor at 0, which is stored nowhere.  The new life
\* publishes the whole log again, where the head of dispatcher.rs says that a
\* restart goes on from last_dispatched and sends nothing again.
Restart ==
    /\ restarts < MaxRestarts
    /\ restarts' = restarts + 1
    /\ cursor' = 0
    /\ pc' = "poll"
    /\ pending' = {}
    /\ full' = FALSE
    /\ shutdown' = FALSE
    /\ feed' = <<>>
    /\ dropped' = {}
    /\ late' = {}
    /\ UNCHANGED <<logVars, row, paused, tailErrors>>

-----------------------------------------------------------------------------
RunTail == Poll \/ DispatchOne \/ EndBatch \/ Wake \/ Stop

Next ==
    \/ RunTail
    \/ PollFails
    \/ LogGrows
    \/ \E t \in inDoubt : DoubtEnds(t)
    \/ \E P \in SUBSET Gated : SetPaused(P)
    \/ Shutdown
    \/ Restart

Spec == Init /\ [][Next]_vars

\* The runtime polls the task again and again and its timer fires.  Nothing
\* else is forced: in particular nothing restarts a task that has returned.
FairSpec == Spec /\ WF_vars(RunTail)

-----------------------------------------------------------------------------
(* Properties.                                                              *)

TypeOK ==
    /\ stored \subseteq Seqs
    /\ lastSeq \in 0..MaxSeq
    /\ inDoubt \subseteq SUBSET Seqs
    /\ row \in [Seqs -> Row]
    /\ cursor \in 0..MaxSeq
    /\ pc \in {"poll", "dispatch", "wait", "failed", "stopped"}
    /\ pending \subseteq Seqs
    /\ full \in BOOLEAN /\ shutdown \in BOOLEAN
    /\ paused \subseteq Gated
    /\ feed \in Seq(Seqs)
    /\ dropped \subseteq Seqs /\ late \subseteq Seqs
    /\ tailErrors \in Nat /\ restarts \in Nat

Fed == {feed[i] : i \in DOMAIN feed}

\* The topics see rows in strictly ascending seq order, so no row twice, in
\* one life of the daemon, although transactions land out of order while a
\* batch is being dispatched (dispatcher.rs, "ordering").
FedInOrder ==
    \A i, j \in DOMAIN feed : i < j => feed[i] < feed[j]

\* Every row the cursor has passed was published or dropped by the loop in this
\* life of the daemon; the only stored rows it jumps over are those that landed
\* behind a row with a higher seq, out of a transaction in doubt, since the
\* daemon started.  What an earlier life jumped over is made up for: a restart
\* begins at 0, and by then the late rows are in their place.
OnlyLateRowsAreSkipped ==
    \A s \in stored : Known(s) /\ s <= cursor => s \in Fed \cup dropped \cup late

\* The abstract feed Subscription takes for its topic, re-publication by a
\* restarted daemon included.  It is no promise of dispatcher.rs: it records
\* what a subscription has to cope with, and DispatcherProofs shows that the
\* loop does nothing else.
Feed == INSTANCE LiveFeed

ImplementsFeed == Feed!FeedSpec

\* While reads succeed and nobody stops the daemon, every stored row of a
\* known domain is published or dropped, past rows that do not decode, paused
\* domains and unknown labels ("a single bad row must not stall the bus").
EveryRowIsDispatched ==
    \A s \in Seqs :
        s \in stored /\ Known(s) ~>
            s \in Fed \cup dropped \cup late \/ shutdown \/ pc = "failed"

-----------------------------------------------------------------------------
(* The inductive invariant behind the properties above.                     *)

\* The sequence has handed out every seq that is stored or in doubt.
LogInv ==
    /\ stored \subseteq 1..lastSeq
    /\ \A t \in inDoubt : t \subseteq 1..lastSeq

\* The cursor stands on a stored row; the batch lies past it, the feed not.
CursorInv ==
    /\ cursor = 0 \/ cursor \in stored
    /\ \A s \in pending : s \in stored /\ Known(s) /\ s > cursor
    /\ \A i \in DOMAIN feed : feed[i] <= cursor

\* Between the cursor and a row of the batch there is no row that the batch
\* leaves out, unless it landed late: the cursor will not jump over it.
WindowInv ==
    \A s \in stored, p \in pending :
        cursor < s /\ s <= p /\ Known(s) => s \in pending \cup late

IInv == TypeOK /\ LogInv /\ CursorInv /\ WindowInv /\ FedInOrder
            /\ OnlyLateRowsAreSkipped
=============================================================================
