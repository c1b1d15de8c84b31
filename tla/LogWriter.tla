------------------------------ MODULE LogWriter ------------------------------
(***************************************************************************)
(* Steps 1-4 of the event-bus pipeline: producers call                     *)
(* LogWriterHandle::append, one LogWriter task drains the bounded append   *)
(* channel in batches, inserts each batch in one PostgreSQL transaction    *)
(* and answers every producer on its oneshot.                              *)
(*                                                                         *)
(* Producers, the writer task and the database run concurrently.  The      *)
(* writer may be torn down at any await (runtime shutdown, panic, daemon   *)
(* crash) and started again; a producer may drop its append future; the    *)
(* database may fail before, during or after the COMMIT, and a COMMIT      *)
(* whose answer was lost may still land later.                             *)
(***************************************************************************)
EXTENDS Integers, Sequences, FiniteSets, Functions

CONSTANTS
    Appends,              \* identities of the append() calls of a behaviour
    Keys,                 \* (producer_id, dedupe_key) pairs
    NoKey,                \* dedupe_key = None
    Requests,             \* the arguments a producer may pass to append()
    ChannelCapacity,      \* APPEND_CHANNEL_CAPACITY (4096)
    BatchMax,             \* BATCH_MAX (100)
    RetryCap,             \* FAILED_STATE_RETRY_CAP (6)
    MaxCausationDepth     \* MAX_CAUSATION_DEPTH (10)

\* AppendOpts plus the one bit of the payload that matters: whether its JSON
\* is longer than CLAIM_CHECK_THRESHOLD and has to go to the blob store.
Request == [key: Keys \cup {NoKey}, large: BOOLEAN, ephemeral: BOOLEAN,
            depth: Nat, named: BOOLEAN]

ASSUME ConstantsAssumption ==
    /\ NoKey \notin Keys
    /\ Requests \subseteq Request
    /\ ChannelCapacity \in Nat \ {0}
    /\ BatchMax \in Nat \ {0}
    /\ RetryCap \in Nat \ {0}
    /\ MaxCausationDepth \in Nat

VARIABLES
    req,              \* the request each call was made with
    reply,            \* what each call has been answered
    channel,          \* the mpsc append channel, oldest first
    open,             \* some LogWriterHandle is alive
    volatileCounter,  \* LogWriterHandle.volatile_counter
    pc,               \* where LogWriter::run / flush stands
    batch,            \* the batch being collected or flushed
    blobErrors,       \* positions of batch whose blob upload failed
    attempt,          \* transient insert failures of this flush
    failed,           \* LogWriter.failed
    eventLog,         \* the committed rows of event_log
    lastSeq,          \* last value handed out by the BIGSERIAL sequence
    inDoubt,          \* transactions whose COMMIT was sent but not answered
    accepted          \* history: calls in the order the channel took them

handleVars   == <<req, reply, open, volatileCounter>>
writerVars   == <<batch, blobErrors, attempt, failed>>
databaseVars == <<eventLog, lastSeq, inDoubt>>
vars == <<req, reply, channel, open, volatileCounter, pc, batch, blobErrors,
          attempt, failed, eventLog, lastSeq, inDoubt, accepted>>

-----------------------------------------------------------------------------
(* Answers: AppendAck and AppendError, with the seq where there is one.     *)

Answer(tag, seq) == [tag |-> tag, seq |-> seq]

Idle      == Answer("Idle", 0)        \* append() not called yet
Pending   == Answer("Pending", 0)     \* awaiting the oneshot
Abandoned == Answer("Abandoned", 0)   \* the producer dropped the future

AckTags == {"Committed", "AlreadyExists", "Volatile"}
\* AppendError::Other is split by the reason text the writer puts in it.
ErrorTags == {"CausalLoop", "NoProducer", "Backpressure", "LogUnavailable",
              "BlobFailed", "CollisionNoKey", "CollisionNoSeq",
              "CollisionLookupFailed"}
Answers == [tag: AckTags \cup ErrorTags \cup {"Idle", "Pending", "Abandoned"},
            seq: Int]

\* p.ack.send(..) for every call in the domain of f.  A call whose future was
\* dropped has no receiver and the send is ignored.
SendAcks(f) ==
    reply' = [a \in Appends |->
                IF a \in DOMAIN f /\ reply[a] = Pending THEN f[a] ELSE reply[a]]

AllUnavailable(calls) == [a \in calls |-> Answer("LogUnavailable", 0)]

-----------------------------------------------------------------------------
(* The rows of a batch.                                                     *)

\* Mutant of Inserted: blob-failed entries are not filtered out of the rows.
InsertedUnfiltered == DOMAIN batch

Inserted == DOMAIN batch \ blobErrors

\* The position among the inserted rows of entry i: blob-failed entries are
\* skipped, so the i-th entry need not be the i-th row.
Rank(i) == Cardinality({j \in 1..i : j \notin blobErrors})

KeyOf(i) == req[batch[i]].key

\* Mutant of BatchRows: the rows take the position in the batch as offset, so
\* a skipped entry leaves a hole that the next transaction fills again.
BatchRowsByPosition == {[seq |-> lastSeq + i, id |-> batch[i], key |-> KeyOf(i)] :
                          i \in Inserted}

BatchRows == {[seq |-> lastSeq + Rank(i), id |-> batch[i], key |-> KeyOf(i)] :
                i \in Inserted}

\* Mutant of Hits: a duplicate inside the batch goes unnoticed.
HitsLogOnly(i) == KeyOf(i) # NoKey /\ \E r \in eventLog : r.key = KeyOf(i)

\* INSERT i would violate the unique index on (producer_id, dedupe_key):
\* against a committed row, or against an earlier row of the transaction.
Hits(i) ==
    /\ KeyOf(i) # NoKey
    /\ \/ \E r \in eventLog : r.key = KeyOf(i)
       \/ \E j \in Inserted : j < i /\ KeyOf(j) = KeyOf(i)

\* INSERT i waits on the index entry of a transaction still in doubt.
Waits(i) ==
    /\ KeyOf(i) # NoKey
    /\ \E t \in inDoubt : \E r \in t : r.key = KeyOf(i)

AllInsert == \A i \in Inserted : ~Hits(i) /\ ~Waits(i)

\* The INSERT that raises SQLSTATE 23505: every one before it succeeded.
FirstCollision(i) ==
    /\ i \in Inserted
    /\ Hits(i) /\ ~Waits(i)
    /\ \A j \in Inserted : j < i => ~Hits(j) /\ ~Waits(j)

\* Sequence values an aborted transaction may have consumed.
Burned == lastSeq .. lastSeq + Cardinality(Inserted)

-----------------------------------------------------------------------------
Init ==
    /\ req = [a \in Appends |->
                [key |-> NoKey, large |-> FALSE, ephemeral |-> FALSE,
                 depth |-> 0, named |-> FALSE]]
    /\ reply = [a \in Appends |-> Idle]
    /\ channel = <<>>
    /\ open = TRUE
    /\ volatileCounter = -1
    /\ pc = "recv"
    /\ batch = <<>>
    /\ blobErrors = {}
    /\ attempt = 0
    /\ failed = FALSE
    /\ eventLog = {}
    /\ lastSeq = 0
    /\ inDoubt = {}
    /\ accepted = <<>>

-----------------------------------------------------------------------------
(* Producers: LogWriterHandle::append.                                      *)

\* The checks of append() up to the send, in the order the code makes them.
\* "Send" is not an answer: the call goes on to the append channel.
Admission(r) ==
    CASE r.depth > MaxCausationDepth -> "CausalLoop"
      [] r.depth <= MaxCausationDepth /\ r.ephemeral -> "Volatile"
      [] r.depth <= MaxCausationDepth /\ ~r.ephemeral /\ ~r.named -> "NoProducer"
      [] OTHER -> "Send"

\* append() answers without touching the channel.
AppendTurnedAway(a, r) ==
    /\ open /\ reply[a] = Idle
    /\ Admission(r) # "Send"
    /\ req' = [req EXCEPT ![a] = r]
    /\ IF Admission(r) = "Volatile"
         THEN /\ reply' = [reply EXCEPT ![a] = Answer("Volatile", volatileCounter)]
              /\ volatileCounter' = volatileCounter - 1
         ELSE /\ reply' = [reply EXCEPT ![a] = Answer(Admission(r), 0)]
              /\ UNCHANGED volatileCounter
    /\ UNCHANGED <<open, channel, pc, accepted, writerVars, databaseVars>>

\* append() reaches try_send: Closed, Full, or accepted and awaiting the ack.
AppendSend(a, r) ==
    /\ open /\ reply[a] = Idle
    /\ Admission(r) = "Send"
    /\ req' = [req EXCEPT ![a] = r]
    /\ \/ /\ pc = "gone"
          /\ reply' = [reply EXCEPT ![a] = Answer("LogUnavailable", 0)]
          /\ UNCHANGED <<channel, accepted>>
       \/ /\ pc # "gone" /\ Len(channel) >= ChannelCapacity
          /\ reply' = [reply EXCEPT ![a] = Answer("Backpressure", 0)]
          /\ UNCHANGED <<channel, accepted>>
       \/ /\ pc # "gone" /\ Len(channel) < ChannelCapacity
          /\ reply' = [reply EXCEPT ![a] = Pending]
          /\ channel' = Append(channel, a)
          /\ accepted' = Append(accepted, a)
    /\ UNCHANGED <<open, volatileCounter, pc, writerVars, databaseVars>>

\* The producer times out or is cancelled while awaiting: the future and its
\* oneshot receiver are dropped, the entry stays in the channel or the batch.
Abandon(a) ==
    /\ reply[a] = Pending
    /\ reply' = [reply EXCEPT ![a] = Abandoned]
    /\ UNCHANGED <<req, open, volatileCounter, channel, pc, accepted,
                   writerVars, databaseVars>>

\* The last handle is dropped.  A pending append borrows its handle.
DropHandles ==
    /\ open
    /\ \A a \in Appends : reply[a] # Pending
    /\ open' = FALSE
    /\ UNCHANGED <<req, reply, volatileCounter, channel, pc, accepted,
                   writerVars, databaseVars>>

-----------------------------------------------------------------------------
(* The writer task: LogWriter::run.                                         *)

\* Mutant of Receive: the newest entry is taken first.
ReceiveNewest ==
    /\ pc \in {"recv", "drain"}
    /\ channel # <<>>
    /\ Len(batch) < BatchMax
    /\ batch' = Append(batch, channel[Len(channel)])
    /\ channel' = SubSeq(channel, 1, Len(channel) - 1)
    /\ pc' = "drain"
    /\ UNCHANGED <<handleVars, blobErrors, attempt, failed, databaseVars, accepted>>

\* rx.recv() yields the first entry of a batch, or a further one before the
\* batch is full and its deadline has passed.
Receive ==
    /\ pc \in {"recv", "drain"}
    /\ channel # <<>>
    /\ Len(batch) < BatchMax
    /\ batch' = Append(batch, Head(channel))
    /\ channel' = Tail(channel)
    /\ pc' = "drain"
    /\ UNCHANGED <<handleVars, blobErrors, attempt, failed, databaseVars, accepted>>

\* rx.recv() returns None: every handle is gone and the channel is drained.
Exit ==
    /\ pc = "recv"
    /\ ~open /\ channel = <<>>
    /\ pc' = "gone"
    /\ UNCHANGED <<handleVars, channel, writerVars, databaseVars, accepted>>

\* Mutant of EndFlush: the positions of the failed uploads are kept.
EndFlushKeepsErrors ==
    /\ batch' = <<>>
    /\ pc' = "recv"
    /\ UNCHANGED blobErrors

\* flush() returns to the loop of run().
EndFlush ==
    /\ batch' = <<>>
    /\ blobErrors' = {}
    /\ pc' = "recv"

\* Mutant of StartFlush: the failed flag is not looked at.
StartFlushUnfenced ==
    /\ pc = "drain"
    /\ \E failures \in SUBSET {i \in DOMAIN batch : req[batch[i]].large} :
          blobErrors' = failures
    /\ pc' = "insert"
    /\ attempt' = 0
    /\ UNCHANGED <<handleVars, batch, channel, failed, databaseVars, accepted>>

\* Mutant of StartFlush: in the failed state the batch waits for a recovery.
StartFlushParks ==
    /\ pc = "drain" /\ ~failed
    /\ \E failures \in SUBSET {i \in DOMAIN batch : req[batch[i]].large} :
          blobErrors' = failures
    /\ pc' = "insert"
    /\ attempt' = 0
    /\ UNCHANGED <<handleVars, batch, channel, failed, databaseVars, accepted>>

\* flush() begins: batch full, deadline hit (10 ms, at any time after the
\* first entry) or channel closed.  In the failed state it answers and
\* returns; otherwise it uploads the large payloads, each of which may fail.
StartFlush ==
    /\ pc = "drain"
    /\ IF failed
         THEN /\ SendAcks(AllUnavailable(Range(batch)))
              /\ EndFlush
         ELSE /\ \E failures \in SUBSET {i \in DOMAIN batch : req[batch[i]].large} :
                    blobErrors' = failures
              /\ pc' = "insert"
              /\ UNCHANGED <<reply, batch>>
    /\ attempt' = 0
    /\ UNCHANGED <<req, open, volatileCounter, channel, failed, databaseVars, accepted>>

\* Mutant of CommitAnswer: seqs are zipped with the whole batch.
CommitAnswerUnshifted(i) ==
    IF i \in blobErrors THEN Answer("BlobFailed", 0)
    ELSE Answer("Committed", lastSeq + i)

\* The seq vector zipped back onto the batch: straight when nothing was
\* skipped, past the blob-failed entries otherwise.
CommitAnswer(i) ==
    IF blobErrors = {} THEN Answer("Committed", lastSeq + i)
    ELSE IF i \in blobErrors THEN Answer("BlobFailed", 0)
    ELSE Answer("Committed", lastSeq + Rank(i))

CommitAcks ==
    [a \in Range(batch) |->
        CommitAnswer(CHOOSE i \in DOMAIN batch : batch[i] = a)]

\* insert_batch() returns Ok: every INSERT and the COMMIT succeeded.  With
\* every row skipped there is no insert and the loop breaks at once.
InsertCommits ==
    /\ pc = "insert"
    /\ AllInsert
    /\ eventLog' = eventLog \cup BatchRows
    /\ lastSeq' = lastSeq + Cardinality(Inserted)
    /\ SendAcks(CommitAcks)
    /\ EndFlush
    /\ UNCHANGED <<req, open, volatileCounter, channel, attempt, failed, inDoubt, accepted>>

\* insert_batch() returns DedupeCollision; the whole transaction is rolled
\* back and the writer goes on to answer the entries one by one.
InsertCollides ==
    /\ pc = "insert"
    /\ \E i \in Inserted : FirstCollision(i) /\ lastSeq' = lastSeq + Rank(i)
    /\ pc' = "resolve"
    /\ UNCHANGED <<handleVars, channel, writerVars, eventLog, inDoubt, accepted>>

\* What a failed insert_batch() leaves behind: the transaction is rolled
\* back, or all its INSERTs went through and the COMMIT is in doubt.
LeaveTransaction ==
    \/ /\ lastSeq' \in Burned
       /\ UNCHANGED inDoubt
    \/ /\ AllInsert
       /\ lastSeq' = lastSeq + Cardinality(Inserted)
       /\ inDoubt' = inDoubt \cup {BatchRows}

\* insert_batch() returns Transient: retry after a backoff, or give up and
\* lock the writer into the failed state once RetryCap is reached.
InsertTransient ==
    /\ pc = "insert" /\ Inserted # {}
    /\ LeaveTransaction
    /\ attempt' = attempt + 1
    /\ IF attempt + 1 >= RetryCap
         THEN /\ failed' = TRUE
              /\ SendAcks(AllUnavailable(Range(batch)))
              /\ EndFlush
         ELSE UNCHANGED <<failed, reply, batch, blobErrors, pc>>
    /\ UNCHANGED <<req, open, volatileCounter, channel, eventLog, accepted>>

\* Mutant of InsertFatal: the batch is put aside unanswered.
InsertFatalSilent ==
    /\ pc = "insert" /\ Inserted # {}
    /\ LeaveTransaction
    /\ EndFlush
    /\ UNCHANGED <<handleVars, channel, attempt, failed, eventLog, accepted>>

\* insert_batch() returns Fatal: no retry, and no failed state either.  The
\* classifier puts protocol and worker errors here, so the COMMIT may be in
\* doubt as well.
InsertFatal ==
    /\ pc = "insert" /\ Inserted # {}
    /\ LeaveTransaction
    /\ SendAcks(AllUnavailable(Range(batch)))
    /\ EndFlush
    /\ UNCHANGED <<req, open, volatileCounter, channel, attempt, failed, eventLog,
                   accepted>>

\* Mutant of CollisionAnswers: the lookup forgets the key.
CollisionAnswersAnyRow(a) ==
    IF req[a].key = NoKey THEN {Answer("CollisionNoKey", 0)}
    ELSE {Answer("AlreadyExists", r.seq) : r \in eventLog}

\* The answer to one entry of a collided batch: find_existing_seq for its
\* key, which may itself fail.
CollisionAnswers(a) ==
    LET k == req[a].key
        found == {r \in eventLog : r.key = k}
    IN  IF k = NoKey THEN {Answer("CollisionNoKey", 0)}
        ELSE {Answer("CollisionLookupFailed", 0)} \cup
             (IF found = {} THEN {Answer("CollisionNoSeq", 0)}
              ELSE {Answer("AlreadyExists", r.seq) : r \in found})

\* One turn of the loop over a collided batch (it awaits a lookup per entry).
ResolveCollision ==
    /\ pc = "resolve" /\ batch # <<>>
    /\ \E answer \in CollisionAnswers(Head(batch)) :
          SendAcks([a \in {Head(batch)} |-> answer])
    /\ batch' = Tail(batch)
    /\ blobErrors' = {}
    /\ pc' = IF Len(batch) = 1 THEN "recv" ELSE "resolve"
    /\ UNCHANGED <<req, open, volatileCounter, channel, attempt, failed,
                   databaseVars, accepted>>

-----------------------------------------------------------------------------
(* Failures and the database.                                               *)

\* The writer task is dropped at an await: runtime shutdown, panic or crash.
\* Its receiver and every oneshot sender go with it, so each waiting append
\* returns LogUnavailable; a transaction in flight is left to the database.
WriterDropped ==
    /\ pc # "gone"
    /\ IF pc = "insert" /\ Inserted # {}
         THEN LeaveTransaction
         ELSE UNCHANGED <<lastSeq, inDoubt>>
    /\ SendAcks(AllUnavailable(Range(channel) \cup Range(batch)))
    /\ channel' = <<>>
    /\ batch' = <<>>
    /\ blobErrors' = {}
    /\ pc' = "gone"
    /\ UNCHANGED <<req, open, volatileCounter, attempt, failed, eventLog, accepted>>

\* new_log_writer in a restarted daemon: fresh channel, counter and flag; the
\* rows and the sequence are the database's.
Restart ==
    /\ pc = "gone"
    /\ open' = TRUE
    /\ volatileCounter' = -1
    /\ pc' = "recv"
    /\ attempt' = 0
    /\ failed' = FALSE
    /\ UNCHANGED <<req, reply, channel, batch, blobErrors, databaseVars, accepted>>

\* The database finishes a transaction nobody waits for any more.
TxnLands(t) ==
    /\ t \in inDoubt
    /\ eventLog' = eventLog \cup t
    /\ inDoubt' = inDoubt \ {t}
    /\ UNCHANGED <<handleVars, channel, pc, writerVars, lastSeq, accepted>>

TxnVanishes(t) ==
    /\ t \in inDoubt
    /\ inDoubt' = inDoubt \ {t}
    /\ UNCHANGED <<handleVars, channel, pc, writerVars, eventLog, lastSeq, accepted>>

-----------------------------------------------------------------------------
Producer ==
    \/ \E a \in Appends, r \in Requests : AppendTurnedAway(a, r)
    \/ \E a \in Appends, r \in Requests : AppendSend(a, r)
    \/ \E a \in Appends : Abandon(a)
    \/ DropHandles

Flush == InsertCommits \/ InsertCollides \/ InsertTransient \/ InsertFatal
            \/ ResolveCollision

Writer == Receive \/ Exit \/ StartFlush \/ Flush

Database == \E t \in inDoubt : TxnLands(t) \/ TxnVanishes(t)

Next == Producer \/ Writer \/ Database \/ WriterDropped \/ Restart

Spec == Init /\ [][Next]_vars

\* tokio polls a ready task again and again, so the writer makes progress
\* whenever it can; the server finishes every transaction it was left with.
\* Producers and failures are never forced.
FairSpec == Spec /\ WF_vars(Writer) /\ WF_vars(Database)

-----------------------------------------------------------------------------
(* Properties.                                                              *)

Row == [seq: Nat \ {0}, id: Appends, key: Keys \cup {NoKey}]

TypeOK ==
    /\ req \in [Appends -> Request]
    /\ reply \in [Appends -> Answers]
    /\ channel \in Seq(Appends) /\ batch \in Seq(Appends) /\ accepted \in Seq(Appends)
    /\ open \in BOOLEAN /\ failed \in BOOLEAN
    /\ volatileCounter \in Int
    /\ pc \in {"recv", "drain", "insert", "resolve", "gone"}
    /\ blobErrors \subseteq DOMAIN batch
    /\ attempt \in Nat
    /\ eventLog \subseteq Row
    /\ lastSeq \in Nat
    /\ inDoubt \subseteq SUBSET Row

\* Rows that are committed or may still become so.
AllRows == eventLog \cup UNION inDoubt

\* No accepted append is forgotten: while a producer waits on its oneshot the
\* entry is in the channel or in the batch the writer holds, through retries,
\* collisions, blob failures and the failed state (LogWriter::flush drains
\* every batch it was given on every path).
NoLostAppend ==
    \A a \in Appends :
        reply[a] = Pending => a \in Range(channel) \cup Range(batch)

\* Ok(Committed{seq}) is only sent for a row that is committed, is the
\* caller's own and carries that seq, although blob-failed entries shift the
\* seq vector against the batch (flush, "zip seqs against the filtered set").
CommittedNamesOwnRow ==
    \A a \in Appends :
        reply[a].tag = "Committed" =>
            \E r \in eventLog : r.seq = reply[a].seq /\ r.id = a

\* Ok(AlreadyExists{seq}) names a committed row with the caller's own dedupe
\* key (find_existing_seq after a collided batch).
AlreadyExistsNamesKey ==
    \A a \in Appends :
        reply[a].tag = "AlreadyExists" =>
            \E r \in eventLog : /\ r.seq = reply[a].seq
                                /\ r.key = req[a].key /\ r.key # NoKey

\* A seq names one row and a dedupe key is used by one row, counting the
\* transactions whose outcome is still open: a retry after a lost COMMIT
\* answer never stores a keyed event twice (seq_authority.rs, dedup.rs).
RowsUnique ==
    /\ \A r, s \in AllRows : r.seq = s.seq => r = s
    /\ \A r, s \in AllRows : r.key = s.key /\ r.key # NoKey => r = s

\* Producer-retry semantics (pipeline/mod.rs "idempotency"): two calls with
\* one dedupe key that were both told Ok were told the same seq, whatever
\* crashed, was retried or was abandoned between them.
IdempotentRetry ==
    \A a, b \in Appends :
        /\ req[a].key = req[b].key /\ req[a].key # NoKey
        /\ reply[a].tag \in {"Committed", "AlreadyExists"}
        /\ reply[b].tag \in {"Committed", "AlreadyExists"}
        => reply[a].seq = reply[b].seq

\* An append that was turned away, or whose blob upload failed, has no row
\* and never gets one: these errors are safe to retry without a key.
RejectedNeverLands ==
    \A a \in Appends :
        reply[a].tag \in {"CausalLoop", "NoProducer", "Backpressure",
                          "Volatile", "BlobFailed"} =>
            \A r \in AllRows : r.id # a

\* Commits follow the order in which the channel took the calls, across
\* batches, retries and restarts (dispatcher.rs: "INSERT order").
CommitOrder ==
    \A i, j \in DOMAIN accepted :
        /\ i < j
        /\ reply[accepted[i]].tag = "Committed"
        /\ reply[accepted[j]].tag = "Committed"
        => reply[accepted[i]].seq < reply[accepted[j]].seq

\* A writer in the failed state starts no transaction: until a restart the
\* log only grows by transactions that were already in doubt.
FailedWriterIsFenced ==
    [][failed /\ failed' => /\ inDoubt' \subseteq inDoubt
                            /\ eventLog' \subseteq AllRows]_vars

\* Every append() that entered the channel returns, unless its producer gave
\* up first: batches are flushed, retries are capped, collisions resolved.
AppendReturns ==
    \A a \in Appends : reply[a] = Pending ~> reply[a] # Pending

\* The table as the writer drives it, for readers that see seqs only.
Table == INSTANCE EventLog WITH
            stored  <- {r.seq : r \in eventLog},
            inDoubt <- {{r.seq : r \in t} : t \in inDoubt}

\* Whatever the writer, its retries and its crashes do, readers of event_log
\* see what EventLog allows: each transaction takes the next consecutive
\* seqs and its rows appear together, at the commit or later, or never.
ImplementsEventLog == Table!LogSpec

-----------------------------------------------------------------------------
(* The inductive invariant behind the properties above.                     *)

Queued == Range(channel) \cup Range(batch)

\* Every call is queued at most once, and only while it is unanswered.
QueueInv ==
    /\ \A i, j \in DOMAIN channel : channel[i] = channel[j] => i = j
    /\ \A i, j \in DOMAIN batch : batch[i] = batch[j] => i = j
    /\ Range(channel) \cap Range(batch) = {}
    /\ \A a \in Queued : reply[a] \in {Pending, Abandoned}

\* Rows belong to calls that were made, carry the call's key and a seq the
\* sequence has handed out.
RowInv ==
    \A r \in AllRows : /\ r.seq <= lastSeq
                       /\ r.key = req[r.id].key
                       /\ reply[r.id] # Idle

\* What has not been sent to the database has no row: calls still in the
\* channel, a batch still being collected, blob-failed entries.
UnsentInv ==
    \A r \in AllRows :
        /\ r.id \notin Range(channel)
        /\ pc \in {"recv", "drain"} => r.id \notin Range(batch)
        /\ pc = "insert" => \A i \in blobErrors : r.id # batch[i]

\* Where the task holds no batch, and where it must hold one.
BatchInv ==
    /\ pc \in {"recv", "gone"} => batch = <<>>
    /\ pc \in {"drain", "resolve"} => batch # <<>>
    /\ pc = "gone" => channel = <<>>
    /\ pc \in {"recv", "drain"} => blobErrors = {}

IInv ==
    /\ TypeOK
    /\ QueueInv
    /\ RowInv
    /\ UnsentInv
    /\ BatchInv
    /\ RowsUnique
    /\ NoLostAppend
    /\ CommittedNamesOwnRow
    /\ AlreadyExistsNamesKey
    /\ RejectedNeverLands
==============================================================================
