--------------------------- MODULE BoardDispatch ---------------------------
(***************************************************************************)
(* Board tasks dispatched by the autopilot: the board_tasks rows and their *)
(* work_leases (db/pg/board.rs), the serial autopilot loop (autopilot.rs), *)
(* the detached send tails it spawns, the worker behind each slot's PTY,   *)
(* the typed settle of shared_memory.rs, tools that kill a slot,           *)
(* an operator, and daemon restarts.                                       *)
(*                                                                         *)
(* One action is one transaction or one call between two awaits.  Tasks    *)
(* are auto-executed, without flow, dependencies or write scope; slots are *)
(* not codex slots.  Times are left out: a lease may lapse at any moment   *)
(* and an age test of the watchdog may go either way.  Calls that may fail *)
(* are those of the settle, the grants, the PTY and the send, and the ones *)
(* of the loop whose error it ignores (CallFails, ListFails); the lists of *)
(* open and running tasks, and the last write of a tail, do not fail here. *)
(***************************************************************************)
EXTENDS Naturals, Sequences, FiniteSets

CONSTANTS
    Tasks, Slots,
    Operator,     \* an executor that is no slot
    NoOne,        \* claim_executor_id IS NULL
    MaxRetries,   \* BoardTask.max_retries
    MaxGrants,    \* bound: dispatches that reach the worker grants
    MaxTrouble    \* bound: restarts, killed and exiting slots, failed spawns, ignored errors, calls of tools

ASSUME BoardAssumption ==
    /\ Operator \notin Slots /\ NoOne \notin Slots \cup {Operator}
    /\ MaxRetries \in Nat \ {0} /\ MaxGrants \in Nat /\ MaxTrouble \in Nat

VARIABLES
    row,        \* board_tasks: status, claim_executor_id, retry_count; via: who wrote the executor
    leases,     \* the work_leases with status 'active'; lapsed: lease_expires_at is past
    grants,     \* <<task, slot>> -> active settle grants of the worker
    granted,    \* dispatches that reached the grants so far
    artifacts,  \* tasks with a completed task_result_artifact
    finals,     \* tasks with a durable final of the provider since their claim
    pty,        \* slot -> the task its worker is busy with, "idle", or "gone"
    guard,      \* slots whose SlotDispatchGuard flag is set
    loop,       \* the autopilot task: where it is and what it has read
    tails,      \* spawned send tails
    settling,   \* worker_settle calls in progress
    killed,     \* slots killed and whose claims are not yet released
    trouble

vars == <<row, leases, grants, granted, artifacts, finals, pty, guard, loop, tails, settling, killed, trouble>>
board == <<row, leases>>
world == <<grants, granted, artifacts, finals, pty, killed, trouble>>

Executors == Slots \cup {Operator}
Status == {"open", "running", "done", "failed"}
Terminal == {"done", "failed"}

\* History: the executor was written by the loop's claim, by that claim and the
\* loop failed to displace it, by a tool's claim, by a tool's update.
Via == {"none", "loop", "kept", "claim", "update"}
IdleLoop == [pc |-> "idle", task |-> NoOne, slot |-> NoOne, stale |-> {}, retry |-> 0, tries |-> 0]

Init ==
    /\ row = [t \in Tasks |-> [status |-> "open", by |-> NoOne, via |-> "none", retry |-> 0]]
    /\ leases = {} /\ grants = [p \in Tasks \X Slots |-> 0] /\ granted = 0 /\ artifacts = {} /\ finals = {} /\ guard = {}
    /\ pty = [s \in Slots |-> "gone"]
    /\ loop = IdleLoop
    /\ tails = {} /\ settling = {} /\ killed = {} /\ trouble = 0

-----------------------------------------------------------------------------
(* The writes of the board store.  Each is one transaction.                *)

LeasesOf(t) == {l \in leases : l.task = t}

Claimable(t) ==
    /\ \A l \in LeasesOf(t) : l.lapsed
    /\ row[t].status \in {"open", "running"}

\* Mutant of ClaimRow: the lapsed lease is not expired.
ClaimRowKeepsLapsed(t, e, via) ==
    /\ leases' = leases \cup {[task |-> t, holder |-> e, lapsed |-> FALSE]}
    /\ row' = [row EXCEPT ![t].status = "running", ![t].by = e, ![t].via = via]
    /\ finals' = finals \ {t}

\* claim_board_task: expire a lapsed lease, refuse an active one or a closed
\* task, then write lease and row together.  A final counts from claimed_at.
ClaimRow(t, e, via) ==
    /\ leases' = (leases \ LeasesOf(t)) \cup {[task |-> t, holder |-> e, lapsed |-> FALSE]}
    /\ row' = [row EXCEPT ![t].status = "running", ![t].by = e, ![t].via = via]
    /\ finals' = finals \ {t}

\* A refused claim has expired the lapsed leases.
RefuseClaim(t) ==
    /\ leases' = {l \in leases : l.task = t => ~l.lapsed}
    /\ UNCHANGED row

\* Rewrites one row with its leases released, whatever the row says now.
Reopen(t, retry) ==
    /\ leases' = leases \ LeasesOf(t)
    /\ row' = [row EXCEPT ![t] = [status |-> "open", by |-> NoOne, via |-> "none", retry |-> retry]]

\* unclaim_board_task and retry_board_task.
Unclaim(t) == Reopen(t, row[t].retry)

\* fail_board_task_and_release_claim.
FailAndRelease(t) ==
    /\ leases' = leases \ LeasesOf(t)
    /\ row' = [row EXCEPT ![t].status = "failed", ![t].by = NoOne, ![t].via = "none"]

\* update_board_task with a status and no executor: clears the claim columns,
\* leaves the lease.
UpdateStatus(t, status) ==
    /\ row' = [row EXCEPT ![t].status = status,
                          ![t].by = IF status = "running" THEN @ ELSE NoOne,
                          ![t].via = IF status = "running" THEN @ ELSE "none"]
    /\ UNCHANGED leases

\* update_board_task with an executor: the column is written and not cleared,
\* whatever the status, and no lease is looked at.  An update of the executor's
\* type alone is this one with the executor that is there.
UpdateExecutor(t, status, e) ==
    /\ row' = [row EXCEPT ![t].status = status, ![t].by = e, ![t].via = "update"]
    /\ UNCHANGED leases

\* release_board_claims_by_executor.
ReleaseExecutor(e) ==
    /\ leases' = {l \in leases : l.holder # e}
    /\ row' = [t \in Tasks |-> IF row[t].by = e /\ row[t].status = "running"
                               THEN [row[t] EXCEPT !.status = "open", !.by = NoOne, !.via = "none"] ELSE row[t]]

\* Mutant of RecoverRows: leases are expired and the rows forgotten.
RecoverRowsLeasesOnly ==
    /\ leases' = {l \in leases : ~l.lapsed}
    /\ UNCHANGED row

\* recover_stale_running_tasks: expire, then reopen running rows left without a lease.
RecoverRows ==
    /\ leases' = {l \in leases : ~l.lapsed}
    /\ row' = [t \in Tasks |-> IF row[t].status = "running" /\ \A l \in LeasesOf(t) : l.lapsed
                               THEN [row[t] EXCEPT !.status = "open", !.by = NoOne, !.via = "none"] ELSE row[t]]

\* set_board_task_lease: every active lease of the task gets a new expiry.
ExtendLease(t) ==
    /\ leases' = {IF l.task = t THEN [l EXCEPT !.lapsed = FALSE] ELSE l : l \in leases}
    /\ UNCHANGED row

-----------------------------------------------------------------------------
(* worker_settle: check and consume a grant, release the lease of the slot,*)
(* close the row.  Each is a statement of its own, and an error ends the   *)
(* call where it stands.  The grant is consumed by one guarded UPDATE, so  *)
(* the check before it and the UPDATE are one step here.                   *)

CanSettle(t, s) == t \in artifacts /\ grants[<<t, s>>] > 0

\* A settle for slot s; after a failure its caller goes on at pc "then".
Settle(caller, t, s, then) ==
    /\ settling' = settling \cup
         {[caller |-> caller, task |-> t, slot |-> s, then |-> then, pc |-> "release"]}
    /\ grants' = IF s = NoOne THEN grants ELSE [grants EXCEPT ![<<t, s>>] = @ - 1]

TailOf(c) == {x \in tails : c.caller = "tail" /\ x.slot = c.slot}

\* The caller of a settle that failed goes on.
Resumed(c) ==
    /\ settling' = settling \ {c}
    /\ loop' = IF c.caller = "loop" THEN [loop EXCEPT !.pc = c.then] ELSE loop
    /\ tails' = IF c.then = "end" THEN tails \ TailOf(c)
                ELSE (tails \ TailOf(c)) \cup {[x EXCEPT !.pc = c.then] : x \in TailOf(c)}
    /\ guard' = IF c.then = "end" THEN guard \ {x.slot : x \in TailOf(c)} ELSE guard

\* The operator's settle names no slot and releases whoever holds the task.
ReleaseClaims(c) ==
    /\ c \in settling /\ c.pc = "release"
    /\ settling' = (settling \ {c}) \cup {[c EXCEPT !.pc = "close"]}
    /\ leases' = {l \in leases : l.task = c.task => c.slot # NoOne /\ l.holder # c.slot}
    /\ UNCHANGED <<row, world, guard, loop, tails>>

\* settle_board_task, with the evidence checked once more by the store.
CloseTask(c) ==
    /\ c \in settling /\ c.pc = "close" /\ c.task \in artifacts
    /\ UpdateStatus(c.task, "done")
    /\ settling' = settling \ {c}
    /\ loop' = IF c.caller = "loop" THEN IdleLoop ELSE loop
    /\ tails' = tails \ TailOf(c)
    /\ guard' = guard \ {x.slot : x \in TailOf(c)}
    /\ UNCHANGED world

SettleFails(c) ==
    /\ c \in settling
    /\ Resumed(c)
    /\ UNCHANGED <<board, world>>

SettleStep == \E c \in settling : ReleaseClaims(c) \/ CloseTask(c) \/ SettleFails(c)

-----------------------------------------------------------------------------
(* The autopilot loop: a watchdog pass over the running rows and a         *)
(* recovery every 60 s, a dispatch pass over the open rows then and        *)
(* whenever a slot becomes idle.  A pass is taken task by task; tasks of   *)
(* one pass do not touch each other's rows, so its list is read as it goes.*)

\* The slot of a running row has no session, or one that is not working; a
\* session that has exited may still be listed.
WatchTask ==
    /\ loop.pc = "idle"
    /\ \E t \in Tasks :
         /\ row[t].status = "running" /\ row[t].by # NoOne
         /\ row[t].by \in Slots => pty[row[t].by] \notin Tasks
         /\ \E pc \in {"judge", "missing"} :
              /\ pc = "judge" => row[t].by \in Slots
              /\ pc = "missing" /\ row[t].by \in Slots => pty[row[t].by] = "gone"
              /\ loop' = [IdleLoop EXCEPT !.task = t, !.slot = row[t].by, !.pc = pc]
    /\ UNCHANGED <<board, world, guard, tails, settling>>

\* close_idle_running_task_from_durable_summary, tried twice.
WatchSettle ==
    /\ loop.pc = "judge" /\ loop.tries < 2
    /\ IF row[loop.task].status = "running" /\ CanSettle(loop.task, loop.slot)
       THEN /\ Settle("loop", loop.task, loop.slot, "judge")
            /\ loop' = [loop EXCEPT !.tries = @ + 1, !.pc = "settling"]
       ELSE /\ UNCHANGED <<settling, grants>>
            /\ loop' = [loop EXCEPT !.tries = @ + 1]
    /\ UNCHANGED <<board, granted, artifacts, finals, pty, killed, trouble, guard, tails>>

\* materialize_read_only_task_result_artifact_from_durable_final: the final of a
\* read-only task becomes its artifact.
Materialize(t) ==
    /\ t \in finals
    /\ artifacts' = artifacts \cup {t}
    /\ finals' = finals \ {t}
    /\ UNCHANGED <<board, grants, granted, pty, killed, trouble, guard, loop, tails, settling>>

WatchMaterialize ==
    /\ loop.pc = "judge" /\ loop.tries < 2 /\ row[loop.task].status = "running"
    /\ Materialize(loop.task)

\* Younger than a grace period or than the missing-session probe: left alone.
WatchTooYoung ==
    /\ loop.pc = "missing" \/ (loop.pc = "judge" /\ loop.tries > 0)
    /\ loop' = IdleLoop
    /\ UNCHANGED <<board, world, guard, tails, settling>>

WatchExpired ==
    /\ loop.pc = "missing" \/ (loop.pc = "judge" /\ loop.tries = 2)
    /\ loop' = [loop EXCEPT !.pc = "drop"]
    /\ UNCHANGED <<board, world, guard, tails, settling>>

\* After the watchdog pass, and first of all after a restart.
Recover ==
    /\ loop.pc \in {"idle", "boot"}
    /\ RecoverRows
    /\ loop' = IdleLoop
    /\ UNCHANGED <<world, guard, tails, settling>>

\* The other running rows that name the slot.  A row the loop claimed is of
\* type pty_slot; of what type a tool's claim or update is, its caller says.
StaleClaims(t, s) == {u \in Tasks \ {t} : row[u].status = "running" /\ row[u].by = s}
OfLoop == {u \in Tasks : row[u].via \in {"loop", "kept"}}

Chosen(t, s, stale) ==
    loop' = [IdleLoop EXCEPT !.task = t, !.slot = s, !.pc = "displace", !.stale = stale]

\* An open task gets a slot, its own or a free one of the pool; the other
\* running claims of the slot, of type pty_slot, are read.
ChooseSlot ==
    /\ loop.pc = "idle" /\ granted < MaxGrants
    /\ \E t \in Tasks, s \in Slots : \E stale \in SUBSET StaleClaims(t, s) :
         /\ row[t].status = "open"
         /\ StaleClaims(t, s) \cap OfLoop \subseteq stale
         /\ Chosen(t, s, stale)
    /\ UNCHANGED <<board, world, guard, tails, settling>>

\* Claims of the loop that stay although another task is being dispatched.
Kept(U) ==
    row' = [u \in Tasks |-> IF u \in U /\ row[u].via = "loop" THEN [row[u] EXCEPT !.via = "kept"] ELSE row[u]]

\* The list cannot be read and is taken to be empty.
ListFails ==
    /\ loop.pc = "idle" /\ granted < MaxGrants
    /\ trouble < MaxTrouble /\ trouble' = trouble + 1
    /\ \E t \in Tasks, s \in Slots :
         /\ row[t].status = "open"
         /\ Chosen(t, s, {}) /\ Kept(StaleClaims(t, s))
    /\ UNCHANGED <<leases, grants, granted, artifacts, finals, pty, killed, guard, tails, settling>>

\* Mutant of Displace: the stale claim is noted and left in place.
DisplaceNotesOnly ==
    /\ loop.pc = "displace"
    /\ \E u \in loop.stale : loop' = [loop EXCEPT !.stale = @ \ {u}]
    /\ UNCHANGED <<board, world, guard, tails, settling>>

Displace ==
    /\ loop.pc = "displace"
    /\ \E u \in loop.stale :
         /\ Unclaim(u)
         /\ loop' = [loop EXCEPT !.stale = @ \ {u}]
    /\ UNCHANGED <<world, guard, tails, settling>>

ClaimTask ==
    /\ loop.pc = "displace" /\ loop.stale = {}
    /\ IF Claimable(loop.task)
       THEN /\ ClaimRow(loop.task, loop.slot, "loop")
            /\ loop' = [loop EXCEPT !.pc = "grant", !.retry = row[loop.task].retry]
       ELSE /\ RefuseClaim(loop.task)
            /\ loop' = IdleLoop /\ UNCHANGED finals
    /\ UNCHANGED <<grants, granted, artifacts, pty, killed, trouble, guard, tails, settling>>

GrantWorker ==
    /\ loop.pc = "grant"
    /\ grants' = [grants EXCEPT ![<<loop.task, loop.slot>>] = @ + 1] /\ granted' = granted + 1
    /\ loop' = [loop EXCEPT !.pc = "lease"]
    /\ UNCHANGED <<board, artifacts, finals, pty, killed, trouble, guard, tails, settling>>

GrantFails ==
    /\ loop.pc = "grant"
    /\ loop' = [loop EXCEPT !.pc = "drop"]
    /\ UNCHANGED <<board, world, guard, tails, settling>>

SetLease ==
    /\ loop.pc = "lease"
    /\ ExtendLease(loop.task)
    /\ loop' = [loop EXCEPT !.pc = "pty"]
    /\ UNCHANGED <<world, guard, tails, settling>>

\* ensure_autopilot_pty answers yes for an idle session, after a wait if need be,
\* and for a new one.  A live one, busy or not, is killed first if the task has
\* another project root or model.
EnsurePty ==
    /\ loop.pc = "pty"
    /\ pty' = [pty EXCEPT ![loop.slot] = "idle"]
    /\ loop' = [loop EXCEPT !.pc = "guard"]
    /\ UNCHANGED <<board, grants, granted, artifacts, finals, killed, trouble, guard, tails, settling>>

\* It answers no: the session is busy for 30 s, or there is none and the role is
\* paused.
PtyRefused ==
    /\ loop.pc = "pty"
    /\ \/ pty[loop.slot] \in Tasks /\ UNCHANGED pty
       \/ pty' = [pty EXCEPT ![loop.slot] = "gone"]
    /\ loop' = [loop EXCEPT !.pc = "check"]
    /\ UNCHANGED <<board, grants, granted, artifacts, finals, killed, trouble, guard, tails, settling>>

\* Slot or configuration are missing, which fails the task, or the spawn fails,
\* or is slow and comes up later, which counts as an attempt, the last of which
\* fails the task.
PtyFails ==
    /\ loop.pc = "pty" /\ trouble < MaxTrouble /\ trouble' = trouble + 1
    /\ \E p \in {"gone", "idle"} : pty' = [pty EXCEPT ![loop.slot] = p]
    /\ \/ FailAndRelease(loop.task)
       \/ loop.retry + 1 < MaxRetries /\ Reopen(loop.task, loop.retry + 1)
    /\ loop' = [loop EXCEPT !.pc = "check"]
    /\ UNCHANGED <<grants, granted, artifacts, finals, killed, guard, tails, settling>>

\* The row is read again; a task that is not closed is unclaimed.
CheckClosed ==
    /\ loop.pc = "check"
    /\ loop' = IF row[loop.task].status \in Terminal THEN IdleLoop ELSE [loop EXCEPT !.pc = "drop"]
    /\ UNCHANGED <<board, world, guard, tails, settling>>

\* Mutant of TrySend: the guard is released before the spawned send runs.
TrySendUnguarded ==
    /\ loop.pc = "guard"
    /\ IF loop.slot \in guard \/ pty[loop.slot] \in Tasks
       THEN /\ loop' = [loop EXCEPT !.pc = "drop"]
            /\ UNCHANGED tails
       ELSE /\ loop' = IdleLoop
            /\ tails' = tails \cup {[task |-> loop.task, slot |-> loop.slot,
                                     retry |-> loop.retry, pc |-> "start"]}
    /\ UNCHANGED <<board, world, guard, settling>>

\* The flag, then the state of the session; a missing session passes.
TrySend ==
    /\ loop.pc = "guard"
    /\ IF loop.slot \in guard \/ pty[loop.slot] \in Tasks
       THEN /\ loop' = [loop EXCEPT !.pc = "drop"]
            /\ UNCHANGED <<guard, tails>>
       ELSE /\ loop' = IdleLoop
            /\ guard' = guard \cup {loop.slot}
            /\ tails' = tails \cup {[task |-> loop.task, slot |-> loop.slot,
                                     retry |-> loop.retry, pc |-> "start"]}
    /\ UNCHANGED <<board, world, settling>>

\* unclaim_board_task at the end of a path that gave up, whatever the row says by now.
Drop ==
    /\ loop.pc = "drop"
    /\ Unclaim(loop.task)
    /\ loop' = IdleLoop
    /\ UNCHANGED <<world, guard, tails, settling>>

\* A call of the loop fails and the loop goes on: the unclaim of a stale row,
\* the claim, the new expiry, the read of a task that may be closed, the unclaim
\* of a path that gave up.
CallFails ==
    /\ trouble < MaxTrouble /\ trouble' = trouble + 1
    /\ \/ \E u \in loop.stale :
            loop.pc = "displace" /\ loop' = [loop EXCEPT !.stale = @ \ {u}] /\ Kept({u})
       \/ loop.pc = "displace" /\ loop.stale = {} /\ loop' = IdleLoop /\ UNCHANGED row
       \/ loop.pc = "lease" /\ loop' = [loop EXCEPT !.pc = "pty"] /\ UNCHANGED row
       \/ loop.pc = "check" /\ loop' = [loop EXCEPT !.pc = "drop"] /\ UNCHANGED row
       \/ loop.pc = "drop" /\ loop' = IdleLoop /\ UNCHANGED row
    /\ UNCHANGED <<leases, grants, granted, artifacts, finals, pty, killed, guard, tails, settling>>

Watch == WatchTask \/ WatchMaterialize \/ WatchSettle \/ WatchTooYoung \/ WatchExpired
Dispatch ==
    \/ ChooseSlot \/ Displace \/ ClaimTask \/ GrantWorker \/ GrantFails \/ SetLease
    \/ EnsurePty \/ PtyRefused \/ CheckClosed \/ TrySend
LoopStep == Watch \/ Recover \/ Dispatch \/ Drop
LoopTrouble == ListFails \/ PtyFails \/ CallFails

-----------------------------------------------------------------------------
(* A send tail, detached from the loop.  The guard is dropped with it.     *)

At(x, pc) == tails' = (tails \ {x}) \cup {[x EXCEPT !.pc = pc]}
Finish(x) == tails' = tails \ {x} /\ guard' = guard \ {x.slot}

\* Settle from evidence: before the prompt is sent, after the answer, and once
\* more if that failed and the task is not done by then.
TailSettle(x) ==
    /\ x.pc \in {"start", "sent"} \/ (x.pc = "again" /\ row[x.task].status # "done")
    /\ CanSettle(x.task, x.slot)
    /\ Settle("tail", x.task, x.slot,
              IF x.pc = "start" THEN "ready" ELSE IF x.pc = "sent" THEN "again" ELSE "end")
    /\ At(x, "settling")
    /\ UNCHANGED <<board, granted, artifacts, finals, pty, killed, trouble, guard, loop>>

Deliver(x) ==
    /\ x.pc \in {"start", "ready"} /\ pty[x.slot] = "idle"
    /\ pty' = [pty EXCEPT ![x.slot] = x.task]
    /\ At(x, "sent")
    /\ UNCHANGED <<board, grants, granted, artifacts, finals, killed, trouble, guard, loop, settling>>

\* "Cannot send message in state": back to the queue without penalty.
SendRefused(x) ==
    /\ x.pc \in {"start", "ready"} /\ pty[x.slot] \in Tasks
    /\ Unclaim(x.task) /\ Finish(x)
    /\ UNCHANGED <<world, loop, settling>>

\* Mutant of SendFails: the retry budget is not looked at.
SendFailsForever(x) ==
    /\ x.pc = "sent" \/ (x.pc \in {"start", "ready"} /\ pty[x.slot] = "gone")
    /\ Reopen(x.task, x.retry + 1)
    /\ Finish(x)
    /\ UNCHANGED <<world, loop, settling>>

\* An authentication error in the answer, or a send error that is neither a
\* refusal nor a timeout.  The retry count is the one read at the claim.
SendFails(x) ==
    /\ x.pc = "sent" \/ (x.pc \in {"start", "ready"} /\ pty[x.slot] = "gone")
    /\ IF x.retry + 1 >= MaxRetries THEN UpdateStatus(x.task, "failed") ELSE Reopen(x.task, x.retry + 1)
    /\ Finish(x)
    /\ UNCHANGED <<world, loop, settling>>

QuotaExhausted(x) ==
    /\ x.pc = "sent" /\ pty[x.slot] # x.task
    /\ UpdateStatus(x.task, "open") /\ Finish(x)
    /\ UNCHANGED <<world, loop, settling>>

TailMaterialize(x) == x.pc \in {"start", "sent", "again"} /\ Materialize(x.task)

\* Timed out, or answered without evidence: the task stays as it is.
LeaveRunning(x) ==
    /\ x.pc \in {"sent", "again"}
    /\ x.pc = "again" /\ CanSettle(x.task, x.slot) => row[x.task].status = "done"
    /\ Finish(x)
    /\ UNCHANGED <<board, world, loop, settling>>

TailStep ==
    \E x \in tails :
      \/ TailSettle(x) \/ Deliver(x) \/ SendRefused(x) \/ SendFails(x)
      \/ QuotaExhausted(x) \/ TailMaterialize(x) \/ LeaveRunning(x)

-----------------------------------------------------------------------------
(* Workers, killed slots, time, the operator and restarts.                 *)

\* task_result_put by the worker of slot s.  With an artifact nobody asks for a final.
PutArtifact(s) ==
    /\ pty[s] \in Tasks \ artifacts
    /\ artifacts' = artifacts \cup {pty[s]}
    /\ finals' = finals \ {pty[s]}
    /\ UNCHANGED <<board, grants, granted, pty, guard, loop, tails, settling, killed, trouble>>

\* worker_settle by the worker, with a grant of its slot; one call at a time.
WorkerSettle(s) ==
    /\ pty[s] \in Tasks /\ CanSettle(pty[s], s) /\ ~\E c \in settling : c.caller = "worker" /\ c.slot = s
    /\ Settle("worker", pty[s], s, "none")
    /\ UNCHANGED <<board, granted, artifacts, finals, pty, killed, trouble, guard, loop, tails>>

\* The turn of the worker ends, with or without a final in its transcript.
WorkerIdle(s) ==
    /\ pty[s] \in Tasks
    /\ pty' = [pty EXCEPT ![s] = "idle"]
    /\ finals' \in {finals, finals \cup ({pty[s]} \ artifacts)}
    /\ UNCHANGED <<board, grants, granted, artifacts, guard, loop, tails, settling, killed, trouble>>

SlotExits(s) ==
    /\ pty[s] # "gone" /\ trouble < MaxTrouble
    /\ pty' = [pty EXCEPT ![s] = "gone"] /\ trouble' = trouble + 1
    /\ UNCHANGED <<board, grants, granted, artifacts, finals, guard, loop, tails, settling, killed>>

\* mission_pty_kill kills in any state and without the guard; the supervisor's
\* own kills, in the loop's tick or under the guard, are fewer ...
KillSlot(s) ==
    /\ pty[s] # "gone" /\ trouble < MaxTrouble
    /\ pty' = [pty EXCEPT ![s] = "gone"] /\ trouble' = trouble + 1
    /\ killed' = killed \cup {s}
    /\ UNCHANGED <<board, grants, granted, artifacts, finals, guard, loop, tails, settling>>

\* ... and releases what the slot holds by the time it gets there.
ReleaseKilled(s) ==
    /\ s \in killed
    /\ ReleaseExecutor(s)
    /\ killed' = killed \ {s}
    /\ UNCHANGED <<grants, granted, artifacts, finals, pty, trouble, guard, loop, tails, settling>>

LeaseLapses(l) ==
    /\ l \in leases /\ ~l.lapsed
    /\ leases' = (leases \ {l}) \cup {[l EXCEPT !.lapsed = TRUE]}
    /\ UNCHANGED <<row, world, guard, loop, tails, settling>>

\* mission_board retry, update and toggle, claim, and update(done).  Claim and
\* update may name any executor, a slot too.
OperatorActs(t) ==
    /\ trouble < MaxTrouble /\ trouble' = trouble + 1
    /\ \/ Unclaim(t) /\ UNCHANGED <<settling, grants, finals>>
       \/ \E status \in Status \ {"done"} : UpdateStatus(t, status) /\ UNCHANGED <<settling, grants, finals>>
       \/ /\ \E status \in (Status \ {"done"}) \cup {row[t].status}, e \in Executors : UpdateExecutor(t, status, e)
          /\ UNCHANGED <<settling, grants, finals>>
       \/ /\ Claimable(t) /\ \E e \in Executors : ClaimRow(t, e, "claim")
          /\ UNCHANGED <<settling, grants>>
       \/ ~Claimable(t) /\ RefuseClaim(t) /\ UNCHANGED <<settling, grants, finals>>
       \/ t \in artifacts /\ Settle("operator", t, NoOne, "none") /\ UNCHANGED <<board, finals>>
    /\ UNCHANGED <<granted, artifacts, pty, killed, guard, loop, tails>>

\* Sessions may outlive the daemon; everything else in memory is lost.
Restart ==
    /\ trouble < MaxTrouble /\ trouble' = trouble + 1
    /\ loop' = [IdleLoop EXCEPT !.pc = "boot"]
    /\ guard' = {} /\ tails' = {} /\ settling' = {} /\ killed' = {}
    /\ \E lost \in SUBSET Slots : pty' = [s \in Slots |-> IF s \in lost THEN "gone" ELSE pty[s]]
    /\ UNCHANGED <<board, grants, granted, artifacts, finals>>

WorkerStep ==
    \E s \in Slots : PutArtifact(s) \/ WorkerSettle(s) \/ WorkerIdle(s)
                     \/ SlotExits(s) \/ KillSlot(s) \/ ReleaseKilled(s)

Next ==
    \/ LoopStep \/ LoopTrouble \/ TailStep \/ SettleStep \/ WorkerStep
    \/ \E l \in leases : LeaseLapses(l)
    \/ \E t \in Tasks : OperatorActs(t)
    \/ Restart

\* The loop runs, its timer keeps firing, calls of worker_settle return, leases
\* run out.  Nothing is asked of workers, sends, the operator or kills.
Fairness ==
    /\ WF_vars(LoopStep) /\ SF_vars(Recover) /\ WF_vars(SettleStep)
    /\ \A t \in Tasks : WF_vars(\E l \in LeasesOf(t) : LeaseLapses(l))

Spec == Init /\ [][Next]_vars /\ Fairness

-----------------------------------------------------------------------------

LoopPc == {"idle", "boot", "judge", "missing", "settling", "drop", "displace", "grant", "lease", "pty", "check", "guard"}
TailPc == {"start", "ready", "sent", "again", "settling"}

\* The type invariant.  Its sharp part is the retry count: a row, and a tail with
\* its old copy of one, never reaches max_retries, for the last failure closes
\* the task instead.
TypeOK ==
    /\ row \in [Tasks -> [status : Status, by : Executors \cup {NoOne}, via : Via, retry : 0..(MaxRetries - 1)]]
    /\ leases \subseteq [task : Tasks, holder : Executors, lapsed : BOOLEAN]
    /\ grants \in [Tasks \X Slots -> Nat] /\ granted \in 0..MaxGrants
    /\ artifacts \subseteq Tasks /\ finals \subseteq Tasks /\ guard \subseteq Slots /\ killed \subseteq Slots
    /\ pty \in [Slots -> Tasks \cup {"idle", "gone"}]
    /\ loop \in [pc : LoopPc, task : Tasks \cup {NoOne}, slot : Executors \cup {NoOne},
                stale : SUBSET Tasks, retry : 0..(MaxRetries - 1), tries : 0..2]
    /\ tails \subseteq [task : Tasks, slot : Slots, retry : 0..(MaxRetries - 1), pc : TailPc]
    /\ settling \subseteq [caller : {"tail", "loop", "worker", "operator"}, task : Tasks,
                           slot : Slots \cup {NoOne}, then : {"judge", "ready", "again", "end", "none"},
                           pc : {"release", "close"}]
    /\ trouble \in 0..MaxTrouble

\* Two sends never run on one slot: while a tail is alive its slot's flag is
\* set and no other tail is on the slot.
OneSendPerSlot ==
    /\ guard = {x.slot : x \in tails}
    /\ \A x, y \in tails : x.slot = y.slot => x = y

\* "single-running-task-per-slot invariant" (autopilot.rs, before the claim), as
\* far as the loop can keep it: two rows the loop has claimed for one slot are not
\* both running, unless the loop failed to read or to unclaim the older one.  A
\* tool's claim or update that names the slot is the only other way to a second.
OneClaimPerSlot ==
    \A t, u \in {v \in Tasks : row[v].status = "running" /\ row[v].via = "loop"} :
      row[t].by = row[u].by => t = u

\* The row and its lease are written by a dozen callers and still agree: a task
\* has at most one active lease, and while an executor has it claimed that
\* lease is the executor's, unless an update has written the executor column,
\* which looks at no lease.
ClaimHoldsLease ==
    \A l \in leases :
      /\ row[l.task].via # "update" => row[l.task].by \in {NoOne, l.holder}
      /\ \A k \in leases : k.task = l.task => k = l

\* A running task whose dispatch was lost, or whose worker never answers, does
\* not stay running for ever: whenever it runs, there is a later time at which
\* it does not.
OrphanRecovered == \A t \in Tasks : []<>(row[t].status # "running")

\* Only the operator takes a task out of done.
DoneStaysDone ==
    [][\A t \in Tasks : row[t].status = "done" => row'[t].status = "done" \/ OperatorActs(t)]_vars
=============================================================================
