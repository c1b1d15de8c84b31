# TLA+ specifications of missiond

missiond is a long-running daemon that coordinates coding agents. Its parts talk
to each other through a durable event bus (`crates/missiond-core/src/event`):
producers append events to a PostgreSQL log, a dispatcher publishes the log to
one broadcast topic per domain, and durable subscriptions consume it. The bus is
where messages are retried, lost and duplicated and where a crash must not lose
work; this project specifies it first, together with the control tree whose pause
switches the dispatcher obeys. On top of it sit the two schedulers that decide
which agent works on what: the runtime of PLAN DAGs, which runs the nodes of a plan
in waves, and the autopilot, which claims board tasks and sends them to slots. They
share leases and rows with each other, with workers that close their own tasks, and
with operators.

Paths below are relative to `src/crates/missiond-core/src/event` unless they
begin with `missiond-`.

## The system's parts

| Part | State it keeps | Operations | Talks to |
|---|---|---|---|
| Append handle, steps 1-2 (`pipeline/step3_commit/handle.rs`, `step1_guard`, `step2_decide`) | sender of the append channel | `append` | log writer by a bounded channel, answer by a oneshot |
| Log writer, steps 3-4 (`step3_commit/log_writer.rs`, `pg_backend.rs`, `dedup.rs`) | channel, current batch, `failed` | `run`, `flush`, `insert_batch`, `find_existing_seq` | PostgreSQL, blob store |
| `event_log` (migration `20260419000000_event_log.sql`) | rows, BIGSERIAL sequence, unique index on producer and key | INSERT, SELECT | everyone |
| Dispatcher, steps 5-7 (`step5_tail`, `step6_gate`, `step7_fanout`, `dispatcher/mod.rs`) | `last_dispatched_seq`, the batch, topics | `run_tail`, `dispatch_one`, `fanout_json` | log by polling, control tree per row, topics |
| Subscription (`subscription/`) | phase, watermark, buffer, receiver; shared cursor and `terminated`; flush signals | `subscribe`, `next`, `ack`, `nack`, flusher | log, topic, `event_subscriptions`, `dead_letter_queue` |
| Bus bootstrap and consumers (`missiond-daemon/src/bus`) | start handle | `start`, `shutdown`, `dlq_ack`, `dlq_replay`, consumer loops | all of the above |
| Control tree (`missiond-daemon/src/control_tree.rs`) | the tree in a watch channel, `control_tree.json` | setters, pause checks, reload | dispatcher gate, workers |
| PLAN DAG runtime (`missiond-daemon/src/handlers/knowledge/plan_dag`) | lifecycle, attempts, taint and outcome of every node of a run; `plan.status`; `work_leases` | execute (waves, gates, claims, drain, retries, acceptance, rollback, skips), resume | plan row, lease table, dispatched agents, review events |
| Board and autopilot (`missiond-core/src/db/pg/board.rs`, `missiond-daemon/src/engine/intent_engine/autopilot.rs`, `slot_dispatch.rs`) | `board_tasks` rows, their leases, the loop's snapshots, the dispatch guard, detached send tails | claim, unclaim, retry, update, recover; watchdog, displace, dispatch, send | database, PTY of a slot, settle |
| Shared memory settle (`missiond-daemon/src/engine/shared_memory.rs`) | settle grants, artifacts, work leases | `worker_settle`, `task_result_put`, claim and release | board rows, workers' tools |
| Retention, in-memory bus, metrics, projection | see `PROJECT.json` | | |
| Slot orchestrator, plan and review handlers, engines, workers, LLM gateways, PTY sessions, websocket server, front ends | see `PROJECT.json` | | bus and database |

What makes each part correct:

* an append that is told `Ok` has exactly the row it was told; one that is turned
  away has none; nobody waits for ever; a retried key is stored once;
* the topics see rows in seq order and, apart from rows that land late, the
  dispatcher's cursor jumps over nothing;
* the saved cursor of a subscription never covers a row its consumer did not
  handle, and published rows reach the consumer;
* what a restarted daemon believes about pauses is something that was true, and it
  forgets them only when the file was being written;
* a plan node runs only after everything upstream succeeded, holds its leases while
  it runs and no longer, and the run accounts for every node when it ends;
* a slot has one send, and one running task of those the loop claimed for it; row
  and lease of a claimed task agree; no task stays running when nobody works on it.

What is hard about them: transactions whose COMMIT answer is lost and which land
later, behind higher seqs; a batch of which some entries fail; the switch of a
subscription from log to topic while both move; three tasks (consumer, flusher,
operator) that read and write one cursor; nacks queued behind acks; timers racing
queues; two runs of one plan that contend for leases while nodes retry, pause, fail
fast and are compensated; a loop that acts on rows it read before an await while
send tails, workers, kills and operators write them; crashes between any two of
these steps. `PROJECT.json` lists these
hazards at the lines where they bite.

## Modules

| Module | Models | State and actions |
|---|---|---|
| `LogWriter` | steps 1-4 | A call of `append()` is an element of `Appends` with its request and its answer. The channel and the batch are sequences of calls, `pc` is where `run`/`flush` stands, `eventLog` the table, `inDoubt` transactions whose COMMIT was not answered. One action per early return, per outcome of `insert_batch` and per step of the collision path |
| `EventLog` | the table its readers see | Abstract: stored seqs, last seq handed out, seqs in doubt. `LogWriter` implements it; `Dispatcher` and `Subscription` extend it |
| `LiveFeed` | what a subscription sees of the dispatcher | Abstract: a feed of stored rows in ascending order, from 0 again after a restart. `Subscription` uses it as its topic; `DispatcherFeeds` proves that `Dispatcher` does nothing else |
| `Dispatcher` | steps 5-7 | `run_tail` as poll, one row at a time, end of batch, wait; failing reads, pauses, shutdown, restart |
| `Subscription` | one durable subscription | consumer (`next`, the debounced `next`, `Ack`), flusher, cursor row, dead letters, operators, restart, with the log and the topic moving underneath |
| `ControlTree` | pause switches | a setter as change, clone, open with truncation, write; failures and crashes. History: the trees held, whether setters overlapped, and whether a write has ended well since the last one cut short |
| `PlanGraph` | the graph algorithms of plans | topological order, ancestors, taint, the dry-run waves and the order of compensations, as operators |
| `PlanDag` | the wave scheduler | A run is a call of execute with the local state of `execute_with_concurrency`; runs share the plan row and the leases. One action per wave decision, claim, retry, outcome of a dispatch, rollback and end, and per resume |
| `BoardDispatch` | board claims and autopilot | Rows and leases as the store's transactions write them; `loop` is the serial autopilot task with what it has read, `tails` the detached sends, `settling` the `worker_settle` calls under way; workers, kills, tools called by anyone, errors the loop ignores and restarts around them. `via` in a row is history: who wrote its executor |
| `LogWriterProofs`, `LogWriterOrderProofs`, `DispatcherProofs`, `SubscriptionProofs`, `ControlTreeProofs`, `PlanGraphProofs`, `PlanDagProofs`, `BoardDispatchProofs` | | the proofs |
| `MCLogWriter`, `MCDispatcher`, `MCControlTree`, `MCPlanDag`, `MCBoardDispatch` | | small instances for TLC; `Subscription` needs none |

Composition is by the abstract modules. `LogWriter` is shown to implement
`EventLog`, whose actions are the environment of `Dispatcher` and of
`Subscription`; `Dispatcher` is proved to implement `LiveFeed`, whose actions are
the topic of `Subscription`. `LiveFeed` is no requirement on the dispatcher, since it
allows the restart from 0 that `dispatcher.rs` denies, and no run checks it as one.

Data is abstracted to what control depends on. A payload is a flag (large or not,
decodes or not), a domain a model value, an error a tag. A subscription sees the
rows of its own domain; other rows are gaps in seq. Time is absent: a timer may
fire whenever it is armed. Events that `next()` takes from the topic have seq 0 in
the code, because the domain event does not carry its seq, and in the model. The
debounced `next()` may see its deadline pass at any point.

In `PlanDag` a dispatch succeeds or fails, an acceptance check goes either way, and
evidence rows and bus events, whose results the scheduler ignores, are left out.
A scope is a key that is equal to another or not, as in the code.

In `BoardDispatch` the check and the consumption of a grant are one step, the list
of a pass is read task by task, a lease may lapse at any moment and an age test of
the watchdog may go either way. Tasks have no flow, no dependencies and no write
scope, slots are not codex slots, and the status `blocked` is left out. The errors
the loop ignores are steps: a failed list of stale claims is an empty one
(`ListFails`), a failed unclaim, claim or lease call is passed over (`CallFails`).
A tool's claim (`mission_board_claim`) and update may name any executor, a slot too,
and the executor type a caller gives decides whether the loop sees the row when it
displaces, so that list contains such rows or not. `ensure_autopilot_pty` may kill
and replace a busy session (`EnsurePty`), refuse (`PtyRefused`), or write the row
itself, as failed or with one more attempt (`PtyFails`). What still cannot fail are
the lists of open and running tasks and the last write of a send tail. The claims
`memory_scheduler.rs` makes for memory slots are not part of the model.

Not reachable and left out: `schedule_retry` and `FlushSignal::Force` (no caller),
the end of a broadcast topic (the dispatcher object lives as long as the daemon),
`StartFrom::Seq` (behaves like a saved row).

## Runs

| Run | Instance | Shows |
|---|---|---|
| `logwriter_safety` | three calls sharing keys, some with blobs, channel and batch of two, one retry, one transaction in doubt, teardown and restart | answers are true, rows unique, retries agree, order kept, failed writer fenced, nothing lost, `EventLog` implemented |
| `logwriter_edges` | every early return, the depth limit, fairness | a rejected call has no row; every accepted call returns |
| `dispatcher` | three rows of any kind, polls of two, one transaction in doubt, a failed read, a restart, fairness | order, only rows late in this life jumped over, every other row dispatched |
| `subscription` | two rows, topic buffer of one, batches of two, late rows, a row that may not decode, one fault, one restart, fairness | the saved cursor skips nothing, a clean close saves it, published rows are delivered, cursors get saved |
| `subscription_deadletters` | the same without late rows, with a debounced consumer under `SkipToDLQ` and `Halt`, with `dlq_ack` and `dlq_replay` | types, the saved cursor skips nothing, squashed and dropped events included |
| `controltree` | three overlapping setters of five switches, a failed write, a crash | a file that parses holds a tree that was held, and one that does not was cut short; setters that do not overlap are persisted; pause checks agree |
| `plan_dag` | two runs of each of nine three-node plans (join with retry and fail-fast, review gate, condition, manual acceptance, shared file across and within a wave, three cascades), two nodes in parallel, one lapsed lease, failed call or crash, one resume, fairness | leases match the work, nodes run after their ancestors, every node is accounted for, the plan status is earned, the dry-run preview is kept, compensations are complete and ordered, fail-fast stops, runs end |
| `board` | two tasks, one slot, two attempts, two dispatches with grants, one kill, exit, failed spawn, ignored error, tool call or restart, fairness | types, one send per slot, one claim of the loop per slot unless it failed to displace, row and lease agree unless an update wrote the executor, no task stays running |

Four runs show where code and documentation part:

| Run | What happens |
|---|---|
| `dispatcher_stall` | as many rows with unknown domain labels as a poll returns hold the dispatcher for ever |
| `subscription_kept` | a timer flush saves the cursor of a later ack while the nack of an earlier row is queued |
| `plan_wave` | two nodes of one wave own the same file: the second claim is an error that leaves the scheduler and aborts the first dispatch |
| `board_done` | a task its worker has settled is reopened by a late retry or unclaim that acts on an older reading of the row |

More disagreements of code and documentation show in the models as an action or as
an exception a property has to make; no run is spent on them:

* `dispatcher.rs:9` says that a restart goes on from `last_dispatched` and sends
  nothing again. The cursor is saved nowhere: `Restart` sets it to 0 and the whole log
  is published again. This is why `FedInOrder` and `OnlyLateRowsAreSkipped` speak of
  one life of the daemon.
* `control_tree.rs:7` says that a setter "atomically updates the tree and persists to
  `control_tree.json` for crash recovery", and line 328 that a pause "is permanent
  until user explicitly resumes". A crash between the truncation and the write of
  `fs::write` leaves an empty file, and the next start runs with every pause gone, not
  only the one being set. `RestoresAHeldTree` has to admit it (`unsaved`); it says that
  nothing but a write cut short, or setters that overlap, has that effect.
* `autopilot.rs:4855` speaks of a single-running-task-per-slot invariant. A tool's
  claim or update that names a slot gives it a second running row, and so does a claim
  of the loop after a list or an unclaim whose error it ignored. `OneClaimPerSlot` is
  about the claims of the loop (`via = "loop"`) and excepts those it failed to
  displace (`via = "kept"`).
* `types/board.rs:480` says that the executor of a row is set by `claim_board_task`
  and cleared when the status leaves `running`. An update that carries
  `claimExecutorId` sets it without a lease and keeps it in any status;
  `ClaimHoldsLease` excepts rows such an update wrote (`via = "update"`).

Facts the models contain and no run is spent on: a failed read ends `run_tail` and
only a daemon restart brings it back (`PollFails`); a row read from the log is delivered again by the topic
(`LiveSeq`); one row that does not decode holds a subscription in Bootstrap, which
is why `PublishedIsDelivered` excludes it; the cursor's advance past a dead letter
is not counted by the flusher, which is why `CloseSavesCursor` excludes it; a
`next()` already under way hands out one more event after `Halt`; setters that
overlap may leave the older tree in the file, which is why `PersistedWhenQuiet`
excludes them.

More of them, by module:

* `LogWriter`: one duplicate key rolls back a batch, and its other entries and the
  first holder of the key are told errors; a COMMIT that lands unseen makes the retry
  collide with it, and an entry without a key is told an error although its row is
  stored.
* `Subscription`: a nack under `Retry` leads neither to a redelivery nor to a dead
  letter (`schedule_retry` has no caller); a running subscription saves its cursor
  over the one `dlq_replay` rewound; a shutdown drops the event a debounced `next()`
  waits with, which counts as a nack and is a dead letter under `SkipToDLQ`.
* `PlanDag`: resumed dispatches take no lease and have no guard against a second
  delivery; a resumed node does not advance the run that paused it; pauses from
  manual acceptance cannot be resumed; rollbacks and compensations are dispatched
  after the leases are released and take none; compensation nodes also run forward;
  a file that a node owns twice conflicts with itself; leases are not renewed; the
  sleep before a retry holds up the drain; the plan row is overwritten whatever it
  says; a fan-in over ancestors never rejects (`RunsAfterAncestors`). Outside the
  model, `plan_dag.rs:361-366` compares the final status with names
  `aggregate_status` does not return, so the workflow row stays `running`.
* `BoardDispatch`: a claim also takes a running row whose lease lapsed, where the
  comment before it says "open + unclaimed"; a pinned task displaces a running one
  before the guard is tried, and the displaced task may be dispatched a second time;
  the watchdog unclaims tasks an operator claimed; a retry keeps artifacts and grants
  of the attempt before; the retry count is written from an earlier reading; a
  settle consumes its grant and releases its claims before the row is written, which
  may fail; a status update leaves the lease, so that a reopened task cannot be
  claimed until it lapses; a heartbeat revives an active lease that is past its
  expiry.

### Bounds

Every bound is a constant named `Max...` or a capacity of the code made small.
Two entries are the smallest batch with a neighbour, two rows the smallest poll
that can be full with one row left over, a topic buffer of one with two rows the
smallest lag, and one fault, one restart and one transaction in doubt suffice for
every pair of steps to be separated by one. Three calls let two share a key and a
third be a bystander. Three nodes are the smallest join and the smallest chain with
something between its ends; two runs suffice to contend. Two tasks on one slot are
the smallest displacement, two attempts the smallest retry with a last one. Restarts, faults and operator actions are bounded because
each adds a copy of the state space; the proofs do not depend on the bounds.

`CHECK_DEADLOCK FALSE` is set where the system may stop: a daemon that was told to
shut down, a bounded log that is full, runs that have all ended, tasks that are all
closed.

### Fairness

Weak fairness of the tasks' own steps: the tokio runtime polls a ready task again,
timers fire, handlers return. It is stated for `LogWriter`'s writer, for
`run_tail`, and for the consumer and the flusher of a subscription. Nothing else is
forced: no producer, no failure, no operator, no restart, no landing of a
transaction in doubt. For `PlanDag` it is weak fairness of the steps of each run:
the scheduler awaits each dispatch, and `RunEnds` assumes that a dispatch returns. For
`BoardDispatch` it is weak fairness of the loop, of `worker_settle` calls and of the
passing of the lease times of each task, and strong fairness of `Recover`, which a timer of 60
seconds attempts again and again between other passes of the loop; nothing is asked
of workers and sends, and failures are not forced. `OrphanRecovered` says that every
task is infinitely often not running. The consumer's step is fair as a whole, so a handler that
could fail or ack may do either.

## Proofs

All theorems are for every value of the constants under the named assumptions of
the modules (capacities are positive, model values distinct, the nodes of a plan
finitely many and its graph acyclic, as the parser checks).

* `LogWriterProofs`: `TypeCorrect`; `NothingLost` (a waiting call is in the channel
  or the batch, once); `RowsAreUnique`; `AnswersAreTrue`; `RetriesAgree`;
  `FailedWriterFenced`. The invariant is built in layers, each inductive relative
  to the ones before: types; the queue (who is where, and that `pc` agrees with the
  answers); the rows (unique, keyed as their request says, calls not yet sent have
  none); honesty of every answer given. The queue layer is what the properties do
  not say: without "a pending call is queued exactly once" a row could be inserted
  for a call that was already answered.
* `LogWriterOrderProofs`: `CommitsFollowTheChannel`, from `OrderLayer`: batch and
  channel are in the order of acceptance, the batch is ahead, and no call accepted
  after one that is still queued has been committed. `AlreadyExistsIsTrue` and
  `RejectedStaysOut` follow from the layers before. `WriterImplementsEventLog` is
  the refinement, action by action: a commit, or a transaction left in doubt, takes
  `Len(batch)` consecutive seqs (the seqs of its rows are distinct and as many as
  the batch is long), every other step leaves the table alone.
* `DispatcherProofs`: `TypeCorrect`; `FeedIsOrdered`; `OnlyLateRows`;
  `DispatcherFeeds` (`LiveFeed` allows whatever the loop does, so it is a sound topic
  for `Subscription`). The strengthening is `CursorInv` (the cursor stands on a
  stored row, the batch lies beyond it) and `WindowInv` (between the cursor and a
  row of the batch there is nothing the batch leaves out, unless it landed late).
  The key lemma is `WindowIsPrefix`: a LIMITed ascending read that returns a row
  returns every lower row.
* `SubscriptionProofs`: `SubscriptionTypeOK`; `NothingSkipped`; `CloseSaves`. A seq
  is `Covered` when every row up to it was acked, failed, landed late or is from
  before the subscription. `SubInv` says that the cursor, the flusher's snapshot, the
  saved cursor and the seq of every queued nack are covered; that the watermark is,
  up to the Acks in the consumer's hands; that the bootstrap buffer is the piece of
  the log that follows the watermark; and that a debouncer holds the older of two
  Acks. `CloseSaves` is proved for consumers that are not debounced, and is false for
  a debounced one: the send of `silent_ack` may wait for room while the subscription
  is dropped, and the signal goes with it. Its invariant `FlushInv` says that a
  cursor ahead of what is saved is counted, queued or about to be sent.
* `ControlTreeProofs`: `TypeCorrect`; `RestoresHeld`, from the facts that every
  clone a thread holds has been the tree (`HeldInv`) and that a setter that overlaps
  no other is alone with the file, finds it empty when it writes, and leaves it
  unparsable only by failing or dying (`CutInv`); `CascadesAgree`, for any switches;
  `QuietIsPersisted`, from the fact that a setter that overlaps no other carries the
  tree it has written into memory.
* `PlanGraphProofs` is about the algorithms. Recursion over data is proved by the
  least counterexample: a stage of the recursive function that breaks the claim has
  a least one, and the stage before it does not. `ReachLeast` and `ReachClosed` say
  that the walk of at most as many stages as there are nodes is the transitive
  closure; `TaintIsDownstream`, `AcyclicWellFounded` and `PreviewPlacesEveryNode`
  build on them. Both Kahn loops append nodes whose predecessors are placed until none
  is left (`Places`, `Opens`): `TopoOrderSorts` says that the order of an acyclic plan
  holds every node once and behind its dependencies, `CompensationIsOrdered` that the
  compensations hold every candidate once and break a `:rollback-after` edge only if
  its target is on a cycle or waits for one. What the second needs is that a node the
  loop leaves over always waits for another such node, and that following those edges
  in a finite graph ends in a cycle (`StuckIsCyclic`). `PreviewIsSchedule` says that
  the announced waves can be run: none empty or too wide (`PrefixWidth`), every node
  in one, behind all its dependencies.
* `PlanDagProofs`: `PlanDagTypeOK`; `FailFastHolds`; `RunsAfterAncestorsHolds`;
  `AccountsForEveryNode`; `StatusIsEarned`; `LeasesAreTheWork`; `PreviewIsKept`;
  `CompensationHolds`; `WidthIsKept`.
  First, one lemma per action says what it does to its run; then six layers.
  `ShapeInv`: a run has a queue only while it claims, keeps a node in one place at a
  time and does not claim once it has aborted. `LifeInv`: lifecycle, result and place
  of a node agree, and whatever has begun has succeeded dependencies. `TaintInv`: the
  tainted nodes are closed downstream and each has a tainter among its ancestors; a
  run that ended left no node pending that could have run. That such a node waits for
  a pause, and not for another such node, is where acyclicity is needed. `LeaseInv`:
  a node in flight holds all its scopes, a node being claimed the ones it has so far,
  and every lease backs work, was lost or leaked. `WaveInv`: while nothing is gated,
  skipped, paused or failed, the waves so far are a prefix of the announced ones and
  hold exactly the nodes the loop has got to. `UndoInv`: in the log of a run's
  rollback dispatches, the entries of a root are one block that is complete once its
  failure is recorded, at the end of the log and continued by what is still to be
  dispatched while it is being rolled back, and absent before, so that a root is never
  rolled back twice and two rollbacks never mix. `CompensationHolds` reads
  `CompensationIsOrdered` off a complete block. `WidthIsKept` needs the shape of a run
  only: no more than `max_parallel_nodes` nodes are in flight, waiting for their
  claim, being retried or being rolled back. It is stated in the proof module, has no
  run of its own, and is inductive as it stands: every step but a wave takes work off
  the run's hands or moves it, and a wave begins with empty hands.
* `BoardDispatchProofs`: `BoardTypeOK`; `GuardExcludesSends`; `SlotHasOneTask`;
  `RowAgreesWithLease`. Every write of the store keeps `BoardInv` (a row someone
  claimed and nobody rewrote is running; a task has one lease, and it is its
  executor's unless an update wrote the executor) and, the loop's claim apart, adds no
  claim of the loop (`Keeps`): tools may name slots, but what they write is theirs.
  What the property about slots does not say and its proof needs is `SlotInv`: while
  the loop displaces, every other claim it has made for the slot is in the list it
  has read, or was marked when the list or the unclaim failed. `SlotHasOneTask` is
  therefore about claims of the loop, with tools' claims and failures present and not
  assumed away. `SettleInv` says that the loop waits for its one settle, so
  that nothing it read changes hands meanwhile; `TailInv` that the guard is the set
  of slots with a tail.

Model-checked only: all liveness, which the prover does not reach. Every invariant,
safety action property and refinement of the passing runs is stated by a theorem.

## Plan

1. Done: the bus (`LogWriter`, `EventLog`, `Dispatcher`, `LiveFeed`,
   `Subscription` with the debounce combinator), `ControlTree`, `PlanGraph`,
   `PlanDag`, `BoardDispatch`, and proofs of every safety property and refinement
   the runs check, and of the sorts and the preview `PlanDag` is built on.
2. Next modules: the slot orchestrator's agent lifecycle; retention against lagging
   cursors; slot manager, inbox and learned permissions; `llm_gate` and the
   supervisor of workers; the flows and dependencies of board tasks.
3. Abstract specification worth stating: at-least-once delivery for `Subscription`.

## Not modelled

Most of the repository's lines are not state machines. Metrics, tracing, formatting
and projection of events decide nothing. The websocket server, IPC, the MCP server
and the CLI are transport and request parsing. The provider box and the PTY layer
recognise the screens of other programs by their text; the context pipeline, the
prompt builders and the LLM gateways assemble and score text; the storage layer and
the handlers under `missiond-daemon/src/handlers` translate requests to SQL and rows
to JSON. Modelling them would restate text or queries, not control. A large part of
the long files that are modelled (`autopilot.rs`, `shared_memory.rs`, `plan_dag`) is
of the same kind, and so are their tests. The in-memory bus is a test double, and
the combinators other than debounce have no caller in the daemon. `PROJECT.json`
gives the reason for each part.
