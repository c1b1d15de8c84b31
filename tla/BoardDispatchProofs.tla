------------------------ MODULE BoardDispatchProofs ------------------------
(***************************************************************************)
(* Proofs about BoardDispatch, for any tasks, slots and bounds.            *)
(*                                                                         *)
(* Rows and leases are looked at through the store's writes alone: each    *)
(* keeps BoardInv, and each but the loop's claim adds no claim of the loop *)
(* (Keeps).  The loop, the tails and the settles are then looked at with   *)
(* those writes left opaque.                                               *)
(***************************************************************************)
EXTENDS BoardDispatch, TLAPS

Row == [status : Status, by : Executors \cup {NoOne}, via : Via, retry : 0..(MaxRetries - 1)]
Lease == [task : Tasks, holder : Executors, lapsed : BOOLEAN]

\* A claimed row is running, and a lease is its executor's; what an update has
\* written to a row says nothing of either.
BoardInv ==
    /\ row \in [Tasks -> Row] /\ leases \subseteq Lease
    /\ \A t \in Tasks : row[t].via \in {"loop", "kept", "claim"} => row[t].status = "running"
    /\ ClaimHoldsLease

\* A write that adds no claim of the loop.
Keeps == \A t \in Tasks : row'[t].via = "loop" => row[t].via = "loop" /\ row'[t].by = row[t].by

\* What the loop has read, as long as it acts on it.
LoopInv ==
    /\ loop \in [pc : LoopPc, task : Tasks \cup {NoOne}, slot : Executors \cup {NoOne},
                 stale : SUBSET Tasks, retry : 0..(MaxRetries - 1), tries : 0..2]
    /\ loop.pc \notin {"idle", "boot"} => loop.task \in Tasks
    /\ loop.pc \in {"judge", "settling", "displace", "grant", "lease", "pty", "check", "guard"} => loop.slot \in Slots
    /\ loop.pc \in {"displace", "grant"} => granted < MaxGrants

\* Settles in progress; the loop waits for its own.
SettleInv ==
    /\ settling \subseteq [caller : {"tail", "loop", "worker", "operator"}, task : Tasks,
                           slot : Slots \cup {NoOne}, then : {"judge", "ready", "again", "end", "none"},
                           pc : {"release", "close"}]
    /\ \A c \in settling :
         /\ c.caller = "loop" => loop.pc = "settling" /\ c.then = "judge"
         /\ c.caller = "tail" => c.then \in {"ready", "again", "end"}
         /\ \A d \in settling : c.caller = "loop" /\ d.caller = "loop" => c = d

TailInv ==
    /\ tails \subseteq [task : Tasks, slot : Slots, retry : 0..(MaxRetries - 1), pc : TailPc]
    /\ OneSendPerSlot

WorldInv ==
    /\ grants \in [Tasks \X Slots -> Nat] /\ granted \in 0..MaxGrants
    /\ artifacts \subseteq Tasks /\ finals \subseteq Tasks /\ guard \subseteq Slots /\ killed \subseteq Slots
    /\ pty \in [Slots -> Tasks \cup {"idle", "gone"}]
    /\ trouble \in 0..MaxTrouble

\* Two claims of the loop name two slots, and those of the slot being dispatched
\* to are in the loop's list.
SlotInv ==
    /\ \A t, u \in Tasks : row[t].via = "loop" /\ row[u].via = "loop" /\ row[t].by = row[u].by => t = u
    /\ loop.pc = "displace" =>
         \A u \in Tasks \ {loop.task} : row[u].via = "loop" /\ row[u].by = loop.slot => u \in loop.stale

Inv == BoardInv /\ LoopInv /\ SettleInv /\ TailInv /\ WorldInv /\ SlotInv

-----------------------------------------------------------------------------
(* The store's writes.                                                     *)

\* A write of one row's status and executor.
Writes(t, s, b, v) == row' = [row EXCEPT ![t].status = s, ![t].by = b, ![t].via = v]

\* It leaves the other rows alone.
LEMMA RowWritten ==
    ASSUME BoardInv, NEW t \in Tasks, NEW s \in Status, NEW b \in Executors \cup {NoOne}, NEW v \in Via,
           Writes(t, s, b, v)
    PROVE  /\ row' \in [Tasks -> Row]
           /\ row'[t].status = s /\ row'[t].by = b /\ row'[t].via = v
           /\ \A u \in Tasks \ {t} : row'[u] = row[u]
<1> DEFINE new == [row[t] EXCEPT !.status = s, !.by = b, !.via = v]
<1>1. row \in [Tasks -> Row] /\ row[t] \in Row
  BY DEF BoardInv
<1>2. new \in Row /\ new.status = s /\ new.by = b /\ new.via = v
  BY <1>1 DEF Row
<1>3. row' = [row EXCEPT ![t] = new]
  BY <1>1 DEF Row, Writes
<1> HIDE DEF new
<1>4. /\ row' \in [Tasks -> Row] /\ row'[t] = new
      /\ \A u \in Tasks \ {t} : row'[u] = row[u]
  BY <1>1, <1>2, <1>3
<1> QED BY <1>2, <1>4, Zenon

\* A claim writes a matching row and lease.
LEMMA ClaimRowFacts ==
    ASSUME BoardInv, NEW t \in Tasks, NEW e \in Executors, NEW v \in {"loop", "claim"}, ClaimRow(t, e, v)
    PROVE  /\ BoardInv'
           /\ row'[t].by = e /\ row'[t].via = v
           /\ \A u \in Tasks \ {t} : row'[u] = row[u]
<1> DEFINE new == [task |-> t, holder |-> e, lapsed |-> FALSE]
<1>1. /\ row' \in [Tasks -> Row] /\ row'[t].by = e /\ row'[t].status = "running" /\ row'[t].via = v
      /\ \A u \in Tasks \ {t} : row'[u] = row[u]
  <2>1. Writes(t, "running", e, v)
    BY Zenon DEF ClaimRow, Writes
  <2>2. "running" \in Status /\ v \in Via /\ e \in Executors \cup {NoOne}
    BY DEF Status, Via
  <2> QED BY <2>1, <2>2, RowWritten, Zenon
<1>2. new \in leases' /\ \A l \in leases' : l = new \/ (l \in leases /\ l.task # t)
  BY DEF ClaimRow, LeasesOf
<1>3. new \in Lease
  BY DEF Lease
<1>4. leases' \subseteq Lease
  BY <1>2, <1>3 DEF BoardInv
<1>5. ClaimHoldsLease'
  BY <1>1, <1>2, <1>4 DEF BoardInv, ClaimHoldsLease, Lease
<1> QED BY <1>1, <1>4, <1>5 DEF BoardInv

\* A refused claim.
LEMMA RefuseClaimFacts ==
    ASSUME BoardInv, NEW t \in Tasks, RefuseClaim(t) PROVE BoardInv' /\ Keeps
  BY DEF BoardInv, RefuseClaim, ClaimHoldsLease, Keeps, Row

\* Reopening a row with its leases released.
LEMMA ReopenFacts ==
    ASSUME BoardInv, NEW t \in Tasks, NEW r \in 0..(MaxRetries - 1), Reopen(t, r) PROVE BoardInv' /\ Keeps
  BY DEF BoardInv, Reopen, ClaimHoldsLease, Keeps, Row, Lease, LeasesOf, Status, Via

\* unclaim_board_task.
LEMMA UnclaimFacts ==
    ASSUME BoardInv, NEW t \in Tasks, Unclaim(t) PROVE BoardInv' /\ Keeps
  BY ReopenFacts DEF Unclaim, BoardInv, Row

\* A status update may leave a lease behind, never the wrong executor.
LEMMA UpdateStatusFacts ==
    ASSUME BoardInv, NEW t \in Tasks, NEW status \in Status, UpdateStatus(t, status) PROVE BoardInv' /\ Keeps
<1>1. /\ row' \in [Tasks -> Row] /\ leases' = leases
      /\ \A u \in Tasks \ {t} : row'[u] = row[u]
      /\ row'[t].status = status
      /\ \/ status = "running" /\ row'[t].by = row[t].by /\ row'[t].via = row[t].via
         \/ row'[t].by = NoOne /\ row'[t].via = "none"
  <2>1. PICK b, v : /\ b = IF status = "running" THEN row[t].by ELSE NoOne
                    /\ v = IF status = "running" THEN row[t].via ELSE "none"
    OBVIOUS
  <2>2. row[t] \in Row
    BY DEF BoardInv
  <2>3. b \in Executors \cup {NoOne} /\ v \in Via
    BY <2>1, <2>2 DEF Row, Via
  <2>4. row \in [Tasks -> Row]
    BY DEF BoardInv
  <2>5. Writes(t, status, b, v) /\ leases' = leases
    BY <2>1, <2>2, <2>4 DEF UpdateStatus, Row, Writes
  <2>6. /\ row' \in [Tasks -> Row]
        /\ row'[t].status = status /\ row'[t].by = b /\ row'[t].via = v
        /\ \A u \in Tasks \ {t} : row'[u] = row[u]
    BY <2>3, <2>5, RowWritten, Zenon
  <2> QED BY <2>1, <2>5, <2>6, Zenon
<1>2. Keeps
  BY <1>1 DEF Keeps
<1>3. ClaimHoldsLease'
  BY <1>1 DEF BoardInv, ClaimHoldsLease, Lease
<1> QED BY <1>1, <1>2, <1>3 DEF BoardInv

\* An update that names an executor takes its row out of what BoardInv says.
LEMMA UpdateExecutorFacts ==
    ASSUME BoardInv, NEW t \in Tasks, NEW status \in Status, NEW e \in Executors, UpdateExecutor(t, status, e)
    PROVE  BoardInv' /\ Keeps
<1>1. /\ row' \in [Tasks -> Row] /\ leases' = leases /\ row'[t].via = "update"
      /\ \A u \in Tasks \ {t} : row'[u] = row[u]
  <2>1. Writes(t, status, e, "update") /\ leases' = leases
    BY Zenon DEF UpdateExecutor, Writes
  <2>2. "update" \in Via /\ e \in Executors \cup {NoOne}
    BY DEF Via
  <2> QED BY <2>1, <2>2, RowWritten, Zenon
<1>2. Keeps
  BY <1>1 DEF Keeps
<1>3. ClaimHoldsLease'
  BY <1>1 DEF BoardInv, ClaimHoldsLease, Lease
<1> QED BY <1>1, <1>2, <1>3 DEF BoardInv

\* A task failed with its leases released.
LEMMA FailAndReleaseFacts ==
    ASSUME BoardInv, NEW t \in Tasks, FailAndRelease(t) PROVE BoardInv' /\ Keeps
<1>1. /\ row' \in [Tasks -> Row] /\ leases' \subseteq leases /\ row'[t].by = NoOne /\ row'[t].via = "none"
      /\ \A u \in Tasks \ {t} : row'[u] = row[u]
  <2>1. Writes(t, "failed", NoOne, "none") /\ leases' \subseteq leases
    BY Zenon DEF FailAndRelease, Writes
  <2>2. "failed" \in Status /\ "none" \in Via /\ NoOne \in Executors \cup {NoOne}
    BY DEF Status, Via
  <2> QED BY <2>1, <2>2, RowWritten
<1>2. Keeps
  BY <1>1 DEF Keeps
<1>3. ClaimHoldsLease'
  BY <1>1 DEF BoardInv, ClaimHoldsLease, Lease
<1> QED BY <1>1, <1>2, <1>3 DEF BoardInv

\* Claims that the loop failed to displace, which are no longer claims of the loop.
LEMMA KeptFacts ==
    ASSUME BoardInv, NEW U, Kept(U), leases' = leases
    PROVE  /\ BoardInv' /\ Keeps
           /\ \A u \in Tasks : u \in U => row'[u].via # "loop"
<1>1. /\ row' \in [Tasks -> Row]
      /\ \A u \in Tasks : /\ row'[u].by = row[u].by /\ row'[u].status = row[u].status
                           /\ row'[u].via = IF u \in U /\ row[u].via = "loop" THEN "kept" ELSE row[u].via
  BY DEF BoardInv, Kept, Row, Via
<1>2. Keeps /\ \A u \in Tasks : u \in U => row'[u].via # "loop"
  BY <1>1 DEF Keeps
<1>3. ClaimHoldsLease'
  BY <1>1 DEF BoardInv, ClaimHoldsLease, Lease
<1> QED BY <1>1, <1>2, <1>3 DEF BoardInv

\* Releasing what an executor holds.
LEMMA ReleaseExecutorFacts ==
    ASSUME BoardInv, NEW e \in Executors, ReleaseExecutor(e) PROVE BoardInv' /\ Keeps
<1>1. /\ row' \in [Tasks -> Row] /\ leases' \subseteq leases
      /\ \A t \in Tasks : row'[t] = row[t] \/ (row'[t].by = NoOne /\ row'[t].via = "none")
  BY DEF BoardInv, ReleaseExecutor, Row, Status, Via
<1>2. Keeps
  BY <1>1 DEF Keeps
<1>3. ClaimHoldsLease'
  BY <1>1 DEF BoardInv, ClaimHoldsLease, Lease
<1> QED BY <1>1, <1>2, <1>3 DEF BoardInv

\* Recovery.
LEMMA RecoverRowsFacts == ASSUME BoardInv, RecoverRows PROVE BoardInv' /\ Keeps
<1>1. /\ row' \in [Tasks -> Row] /\ leases' \subseteq leases
      /\ \A t \in Tasks : row'[t] = row[t] \/ (row'[t].by = NoOne /\ row'[t].via = "none")
  BY BoardAssumption DEF BoardInv, RecoverRows, Row, Status, Via
<1>2. Keeps
  BY <1>1 DEF Keeps
<1>3. ClaimHoldsLease'
  BY <1>1 DEF BoardInv, ClaimHoldsLease, Lease
<1> QED BY <1>1, <1>2, <1>3 DEF BoardInv

\* A new expiry.
LEMMA ExtendLeaseFacts ==
    ASSUME BoardInv, NEW t \in Tasks, ExtendLease(t) PROVE BoardInv' /\ Keeps
<1>1. row' = row /\ leases' \subseteq Lease
  BY DEF BoardInv, ExtendLease, Lease
<1>2. \A k \in leases' : \E l \in leases :
        k.task = l.task /\ k.holder = l.holder /\ k = IF l.task = t THEN [l EXCEPT !.lapsed = FALSE] ELSE l
  BY DEF BoardInv, ExtendLease, Lease
<1>3. ASSUME NEW k \in leases', NEW j \in leases', j.task = k.task
      PROVE  (row'[k.task].via # "update" => row'[k.task].by \in {NoOne, k.holder}) /\ j = k
  <2>1. PICK l \in leases : k.task = l.task /\ k.holder = l.holder
                             /\ k = IF l.task = t THEN [l EXCEPT !.lapsed = FALSE] ELSE l
    BY <1>2
  <2>2. PICK m \in leases : j.task = m.task /\ j.holder = m.holder
                             /\ j = IF m.task = t THEN [m EXCEPT !.lapsed = FALSE] ELSE m
    BY <1>2
  <2>3. l = m
    BY <2>1, <2>2, <1>3 DEF BoardInv, ClaimHoldsLease
  <2> QED BY <1>1, <2>1, <2>2, <2>3 DEF BoardInv, ClaimHoldsLease
<1>4. ClaimHoldsLease'
  BY <1>3 DEF ClaimHoldsLease
<1> QED BY <1>1, <1>4 DEF BoardInv, Keeps

\* A lease runs out.
LEMMA LeaseLapsesFacts ==
    ASSUME BoardInv, NEW l, LeaseLapses(l) PROVE BoardInv' /\ Keeps
<1> DEFINE k == [l EXCEPT !.lapsed = TRUE]
<1>1. l \in Lease /\ l \in leases /\ leases' = (leases \ {l}) \cup {k} /\ row' = row
  BY DEF BoardInv, LeaseLapses
<1>2. k \in Lease /\ k.task = l.task /\ k.holder = l.holder
  BY <1>1 DEF Lease
<1> HIDE DEF k
<1>3. leases' \subseteq Lease
  BY <1>1, <1>2 DEF BoardInv
<1>4. ClaimHoldsLease'
  BY <1>1, <1>2 DEF BoardInv, ClaimHoldsLease
<1>5. Keeps
  BY <1>1 DEF Keeps
<1> QED BY <1>1, <1>3, <1>4, <1>5 DEF BoardInv

\* Leases disappear and rows stay.
LEMMA FewerLeasesFacts ==
    ASSUME BoardInv, leases' \subseteq leases, row' = row PROVE BoardInv' /\ Keeps
  BY DEF BoardInv, ClaimHoldsLease, Keeps, Row

\* Rows and leases left alone.
LEMMA SameBoardFacts == ASSUME BoardInv, UNCHANGED board PROVE BoardInv' /\ Keeps
  BY FewerLeasesFacts DEF board

\* Adding no claim of the loop keeps the slots apart, and the loop's list complete.
LEMMA SlotKept ==
    ASSUME SlotInv, Keeps, loop' = loop \/ loop'.pc # "displace" PROVE SlotInv'
  BY DEF SlotInv, Keeps

-----------------------------------------------------------------------------

\* The invariant holds initially.
LEMMA InitInv == Init => Inv
<1> SUFFICES ASSUME Init PROVE Inv
  OBVIOUS
<1>1. BoardInv
  BY BoardAssumption DEF Init, BoardInv, Row, Status, Via, ClaimHoldsLease
<1>2. LoopInv
  BY BoardAssumption DEF Init, LoopInv, IdleLoop, LoopPc
<1>3. SettleInv /\ TailInv
  BY DEF Init, SettleInv, TailInv, OneSendPerSlot
<1>4. WorldInv
  BY BoardAssumption DEF Init, WorldInv
<1>5. SlotInv
  BY BoardAssumption DEF Init, SlotInv, IdleLoop
<1> QED BY <1>1, <1>2, <1>3, <1>4, <1>5 DEF Inv

\* A step that only moves the loop, away from a displacement.
LEMMA LoopMoves ==
    ASSUME Inv, UNCHANGED <<board, world, guard, tails, settling>>, LoopInv', loop'.pc # "displace",
           loop.pc # "settling"
    PROVE  Inv'
<1>1. BoardInv' /\ Keeps /\ SlotInv'
  BY SameBoardFacts, SlotKept DEF Inv
<1>2. SettleInv' /\ TailInv' /\ WorldInv'
  BY DEF Inv, SettleInv, TailInv, OneSendPerSlot, WorldInv, world
<1> QED BY <1>1, <1>2 DEF Inv

\* A write of the loop to the board that gives no executor.
LEMMA LoopWrites ==
    ASSUME Inv, BoardInv', Keeps, UNCHANGED <<world, guard, tails, settling>>, LoopInv',
           loop'.pc # "displace", loop.pc # "settling"
    PROVE  Inv'
<1>1. SlotInv'
  BY SlotKept DEF Inv
<1>2. SettleInv' /\ TailInv' /\ WorldInv'
  BY DEF Inv, SettleInv, TailInv, OneSendPerSlot, WorldInv, world
<1> QED BY <1>1, <1>2 DEF Inv

\* Back to idle is a good place for the loop.
LEMMA IdleFacts == IdleLoop.pc = "idle" /\ (loop' = IdleLoop => LoopInv')
  BY BoardAssumption DEF IdleLoop, LoopInv, LoopPc

\* A step that leaves the loop where it is.
LEMMA LoopWaits ==
    ASSUME Inv, loop' = loop, granted' = granted, BoardInv', Keeps, SettleInv', TailInv', WorldInv'
    PROVE  Inv'
<1>1. SlotInv'
  BY SlotKept DEF Inv
<1>2. LoopInv'
  BY DEF Inv, LoopInv
<1> QED BY <1>1, <1>2 DEF Inv

\* A final becomes an artifact.
LEMMA MaterializeInv == ASSUME Inv, NEW t \in Tasks, Materialize(t) PROVE Inv'
<1>1. WorldInv' /\ SettleInv' /\ TailInv'
  BY DEF Materialize, Inv, WorldInv, SettleInv, TailInv, OneSendPerSlot
<1> QED BY <1>1, SameBoardFacts, LoopWaits DEF Materialize, Inv

\* The watchdog.
LEMMA WatchInv == Inv /\ Watch => Inv'
<1> SUFFICES ASSUME Inv, Watch PROVE Inv'
  OBVIOUS
<1>1. CASE WatchTask
  <2>1. PICK t \in Tasks, pc \in {"judge", "missing"} :
          /\ row[t].status = "running" /\ row[t].by # NoOne
          /\ pc = "judge" => row[t].by \in Slots
          /\ loop' = [IdleLoop EXCEPT !.task = t, !.slot = row[t].by, !.pc = pc]
    BY <1>1 DEF WatchTask
  <2>2. row[t].by \in Executors
    BY <2>1 DEF Inv, BoardInv, Row
  <2>3. /\ loop'.task = t /\ loop'.slot = row[t].by /\ loop'.stale = {} /\ loop'.retry = 0 /\ loop'.tries = 0
        /\ loop'.pc \in {"judge", "missing"} /\ (loop'.pc = "judge" => row[t].by \in Slots)
        /\ loop' = [pc |-> loop'.pc, task |-> loop'.task, slot |-> loop'.slot, stale |-> loop'.stale,
                     retry |-> loop'.retry, tries |-> loop'.tries]
    BY <2>1 DEF IdleLoop
  <2>4. LoopInv' /\ loop'.pc # "displace"
    BY <2>2, <2>3, BoardAssumption DEF LoopInv, LoopPc
  <2> QED BY <1>1, <2>4, LoopMoves DEF WatchTask
<1>2. CASE WatchSettle
  <2>1. BoardInv' /\ Keeps /\ loop.pc = "judge" /\ loop'.pc # "displace"
    BY <1>2, SameBoardFacts DEF WatchSettle, Inv, LoopInv
  <2>2. SlotInv'
    BY <2>1, SlotKept DEF Inv
  <2>3. LoopInv' /\ TailInv'
    <3>1. /\ loop'.task = loop.task /\ loop'.slot = loop.slot /\ loop'.stale = loop.stale
          /\ loop'.retry = loop.retry /\ loop'.tries = loop.tries + 1 /\ loop'.pc \in {"judge", "settling"}
          /\ loop' = [pc |-> loop'.pc, task |-> loop'.task, slot |-> loop'.slot, stale |-> loop'.stale,
                       retry |-> loop'.retry, tries |-> loop'.tries]
      BY <1>2 DEF WatchSettle, Inv, LoopInv
    <3>2. LoopInv'
      BY <1>2, <3>1 DEF WatchSettle, Inv, LoopInv, LoopPc
    <3>3. TailInv'
      BY <1>2 DEF WatchSettle, Inv, TailInv, OneSendPerSlot
    <3> QED BY <3>2, <3>3
  <2>4. CASE UNCHANGED <<settling, grants>> /\ loop' = [loop EXCEPT !.tries = @ + 1]
    <3>1. SettleInv'
      BY <2>1, <2>4 DEF Inv, SettleInv, LoopInv
    <3>2. WorldInv'
      BY <1>2, <2>4 DEF WatchSettle, Inv, WorldInv
    <3> QED BY <2>1, <2>2, <2>3, <3>1, <3>2 DEF Inv
  <2>5. CASE /\ CanSettle(loop.task, loop.slot) /\ Settle("loop", loop.task, loop.slot, "judge")
             /\ loop' = [loop EXCEPT !.tries = @ + 1, !.pc = "settling"]
    <3>1. SettleInv'
      BY <2>1, <2>5 DEF Settle, Inv, SettleInv, LoopInv
    <3>2. grants' \in [Tasks \X Slots -> Nat]
      BY <2>1, <2>5, BoardAssumption DEF Settle, CanSettle, Inv, WorldInv, LoopInv
    <3>3. WorldInv'
      BY <1>2, <3>2 DEF WatchSettle, Inv, WorldInv
    <3> QED BY <2>1, <2>2, <2>3, <3>1, <3>3 DEF Inv
  <2> QED BY <1>2, <2>4, <2>5 DEF WatchSettle
<1>3. CASE WatchTooYoung
  BY <1>3, IdleFacts, LoopMoves DEF WatchTooYoung
<1>4. CASE WatchExpired
  <2>1. LoopInv' /\ loop'.pc # "displace" /\ loop.pc # "settling"
    BY <1>4 DEF WatchExpired, Inv, LoopInv, LoopPc
  <2> QED BY <1>4, <2>1, LoopMoves DEF WatchExpired
<1>5. CASE WatchMaterialize
  <2>1. loop.task \in Tasks
    BY <1>5 DEF WatchMaterialize, Inv, LoopInv
  <2> QED BY <1>5, <2>1, MaterializeInv DEF WatchMaterialize
<1> QED BY <1>1, <1>2, <1>3, <1>4, <1>5 DEF Watch

\* Recovery and the unclaim of a path that gave up.
LEMMA RecoverInv == Inv /\ (Recover \/ Drop) => Inv'
<1>1. ASSUME Inv, Recover PROVE Inv'
  BY <1>1, RecoverRowsFacts, IdleFacts, LoopWrites DEF Recover, Inv
<1>2. ASSUME Inv, Drop PROVE Inv'
  <2>1. loop.task \in Tasks
    BY <1>2 DEF Drop, Inv, LoopInv
  <2> QED BY <1>2, <2>1, UnclaimFacts, IdleFacts, LoopWrites DEF Drop, Inv
<1> QED BY <1>1, <1>2

\* A dispatch up to its claim: the claims of the slot are listed, displaced one
\* by one, and none is left when the task is claimed.
LEMMA ClaimInv == Inv /\ (ChooseSlot \/ ListFails \/ Displace \/ ClaimTask) => Inv'
<1> SUFFICES ASSUME Inv, ChooseSlot \/ ListFails \/ Displace \/ ClaimTask PROVE Inv'
  OBVIOUS
<1>0. ASSUME BoardInv', LoopInv', SlotInv' PROVE Inv'
  <2>1. SettleInv'
    BY DEF Inv, LoopInv, ChooseSlot, ListFails, Displace, ClaimTask, SettleInv
  <2>2. TailInv'
    BY DEF Inv, ChooseSlot, ListFails, Displace, ClaimTask, TailInv, OneSendPerSlot
  <2>3. WorldInv'
    BY BoardAssumption DEF Inv, ChooseSlot, ListFails, Displace, ClaimTask, ClaimRow, WorldInv, world
  <2> QED BY <1>0, <2>1, <2>2, <2>3 DEF Inv
<1>1. ASSUME NEW t \in Tasks, NEW s \in Slots, NEW stale \in SUBSET Tasks, Chosen(t, s, stale),
             granted' < MaxGrants
      PROVE  /\ loop' = [pc |-> "displace", task |-> t, slot |-> s, stale |-> stale, retry |-> 0, tries |-> 0]
             /\ LoopInv'
  <2>1. loop' = [pc |-> "displace", task |-> t, slot |-> s, stale |-> stale, retry |-> 0, tries |-> 0]
    BY <1>1 DEF Chosen, IdleLoop
  <2>2. /\ loop'.pc = "displace" /\ loop'.task \in Tasks /\ loop'.slot \in Slots /\ loop'.stale \in SUBSET Tasks
        /\ loop'.retry = 0 /\ loop'.tries = 0
        /\ loop' = [pc |-> loop'.pc, task |-> loop'.task, slot |-> loop'.slot, stale |-> loop'.stale,
                     retry |-> loop'.retry, tries |-> loop'.tries]
    BY <2>1
  <2> QED BY <1>1, <2>1, <2>2, BoardAssumption DEF LoopInv, LoopPc, Executors
<1>4. CASE ChooseSlot
  <2>1. PICK t \in Tasks, s \in Slots, stale \in SUBSET Tasks :
          StaleClaims(t, s) \cap OfLoop \subseteq stale /\ Chosen(t, s, stale)
    BY <1>4 DEF ChooseSlot, StaleClaims
  <2>2. BoardInv' /\ row' = row /\ granted' < MaxGrants
    BY <1>4, SameBoardFacts DEF ChooseSlot, Inv, board, world
  <2>3. LoopInv' /\ loop'.pc = "displace" /\ loop'.task = t /\ loop'.slot = s /\ loop'.stale = stale
    BY <1>1, <2>1, <2>2
  <2>4. \A u \in Tasks \ {t} : row[u].via = "loop" /\ row[u].by = s => u \in stale
    BY <2>1 DEF StaleClaims, OfLoop, Inv, BoardInv
  <2>5. SlotInv'
    BY <2>2, <2>3, <2>4 DEF SlotInv, Inv
  <2> QED BY <1>0, <2>2, <2>3, <2>5
<1>5. CASE ListFails
  <2>1. PICK t \in Tasks, s \in Slots : Chosen(t, s, {}) /\ Kept(StaleClaims(t, s))
    BY <1>5 DEF ListFails
  <2>2. granted' < MaxGrants /\ leases' = leases
    BY <1>5 DEF ListFails
  <2>3. LoopInv' /\ loop'.pc = "displace" /\ loop'.task = t /\ loop'.slot = s /\ loop'.stale = {}
    BY <1>1, <2>1, <2>2
  <2>4. BoardInv' /\ Keeps /\ \A u \in Tasks : u \in StaleClaims(t, s) => row'[u].via # "loop"
    BY <2>1, <2>2, KeptFacts DEF Inv
  <2>5. \A u \in Tasks \ {t} : row'[u].via = "loop" => row'[u].by # s
    BY <2>4 DEF StaleClaims, Keeps, Inv, BoardInv
  <2>6. SlotInv'
    BY <2>3, <2>4, <2>5 DEF SlotInv, Keeps, Inv
  <2> QED BY <1>0, <2>3, <2>4, <2>6
<1>2. CASE Displace
  <2>1. PICK u \in loop.stale : Unclaim(u) /\ loop' = [loop EXCEPT !.stale = @ \ {u}]
    BY <1>2 DEF Displace
  <2>2. u \in Tasks /\ loop.pc = "displace"
    BY <1>2 DEF Displace, Inv, LoopInv
  <2>3. BoardInv' /\ Keeps
    BY <2>1, <2>2, UnclaimFacts DEF Inv
  <2>4. row'[u].via = "none"
    BY <2>1, <2>2 DEF Unclaim, Reopen, Inv, BoardInv
  <2>5. LoopInv'
    BY <1>2, <2>1, <2>2 DEF Displace, Inv, LoopInv, LoopPc, world
  <2>6. loop'.pc = "displace" /\ loop'.slot = loop.slot /\ loop'.task = loop.task /\ loop'.stale = loop.stale \ {u}
    BY <2>1, <2>2 DEF Inv, LoopInv
  <2>7. SlotInv'
    BY <2>2, <2>3, <2>4, <2>6 DEF SlotInv, Keeps, Inv
  <2> QED BY <1>0, <2>3, <2>5, <2>7
<1>3. CASE ClaimTask
  <2>1. loop.task \in Tasks /\ loop.slot \in Slots /\ loop.pc = "displace" /\ loop.stale = {}
    BY <1>3 DEF ClaimTask, Inv, LoopInv
  <2>2. CASE ClaimRow(loop.task, loop.slot, "loop") /\ loop' = [loop EXCEPT !.pc = "grant", !.retry = row[loop.task].retry]
    <3>1. BoardInv' /\ row'[loop.task].by = loop.slot /\ \A u \in Tasks \ {loop.task} : row'[u] = row[u]
      BY <2>1, <2>2, ClaimRowFacts DEF Inv, Executors
    <3>2. loop' = [pc |-> "grant", task |-> loop.task, slot |-> loop.slot, stale |-> loop.stale,
                   retry |-> row[loop.task].retry, tries |-> loop.tries]
      BY <2>2 DEF Inv, LoopInv
    <3>3. LoopInv'
      BY <1>3, <2>1, <3>2 DEF ClaimTask, Inv, LoopInv, LoopPc, BoardInv, Row
    <3>4. SlotInv'
      BY <2>1, <3>1, <3>2 DEF SlotInv, Inv
    <3> QED BY <1>0, <3>1, <3>3, <3>4
  <2>3. CASE RefuseClaim(loop.task) /\ loop' = IdleLoop
    BY <1>0, <2>1, <2>3, RefuseClaimFacts, IdleFacts, SlotKept DEF Inv
  <2> QED BY <1>3, <2>2, <2>3 DEF ClaimTask
<1> QED BY <1>2, <1>3, <1>4, <1>5

\* A dispatch after its claim.
LEMMA SendInv ==
    Inv /\ (GrantWorker \/ GrantFails \/ SetLease \/ EnsurePty \/ PtyRefused \/ CheckClosed \/ TrySend) => Inv'
<1> SUFFICES ASSUME Inv,
                    \/ GrantWorker \/ GrantFails \/ SetLease \/ EnsurePty
                    \/ PtyRefused \/ CheckClosed \/ TrySend
             PROVE  Inv'
  OBVIOUS
<1>1. CASE GrantWorker
  <2>1. loop.task \in Tasks /\ loop.slot \in Slots /\ granted < MaxGrants /\ loop.pc = "grant"
    BY <1>1 DEF GrantWorker, Inv, LoopInv
  <2>2. WorldInv'
    BY <1>1, <2>1, BoardAssumption DEF GrantWorker, Inv, WorldInv
  <2>3. LoopInv' /\ loop'.pc = "lease"
    BY <1>1, <2>1 DEF GrantWorker, Inv, LoopInv, LoopPc
  <2>4. SettleInv' /\ TailInv'
    BY <1>1, <2>1 DEF GrantWorker, Inv, SettleInv, TailInv, OneSendPerSlot
  <2>5. BoardInv' /\ SlotInv'
    BY <1>1, <2>3, SameBoardFacts, SlotKept DEF GrantWorker, Inv
  <2> QED BY <2>2, <2>3, <2>4, <2>5 DEF Inv
<1>2. CASE GrantFails
  <2>1. LoopInv' /\ loop'.pc # "displace" /\ loop.pc # "settling"
    BY <1>2 DEF GrantFails, Inv, LoopInv, LoopPc
  <2> QED BY <1>2, <2>1, LoopMoves DEF GrantFails
<1>3. CASE SetLease
  <2>1. loop.task \in Tasks /\ LoopInv' /\ loop'.pc # "displace" /\ loop.pc # "settling"
    BY <1>3 DEF SetLease, Inv, LoopInv, LoopPc
  <2> QED BY <1>3, <2>1, ExtendLeaseFacts, LoopWrites DEF SetLease, Inv
<1>4. CASE EnsurePty
  <2>1. loop.slot \in Slots /\ LoopInv' /\ loop'.pc = "guard" /\ loop.pc = "pty"
    BY <1>4 DEF EnsurePty, Inv, LoopInv, LoopPc
  <2>2. WorldInv'
    BY <1>4, <2>1 DEF EnsurePty, Inv, WorldInv
  <2>3. SettleInv' /\ TailInv'
    BY <1>4, <2>1 DEF EnsurePty, Inv, SettleInv, TailInv, OneSendPerSlot
  <2>4. BoardInv' /\ SlotInv'
    BY <1>4, <2>1, SameBoardFacts, SlotKept DEF EnsurePty, Inv
  <2> QED BY <2>1, <2>2, <2>3, <2>4 DEF Inv
<1>5. CASE CheckClosed
  <2>1. CASE loop' = IdleLoop
    BY <1>5, <2>1, IdleFacts, LoopMoves DEF CheckClosed
  <2>2. CASE loop' = [loop EXCEPT !.pc = "drop"]
    <3>1. LoopInv' /\ loop'.pc # "displace" /\ loop.pc # "settling"
      BY <1>5, <2>2 DEF CheckClosed, Inv, LoopInv, LoopPc
    <3> QED BY <1>5, <3>1, LoopMoves DEF CheckClosed
  <2> QED BY <1>5, <2>1, <2>2 DEF CheckClosed
<1>7. CASE PtyRefused
  <2>1. loop.slot \in Slots /\ LoopInv' /\ loop'.pc = "check" /\ loop.pc = "pty"
    BY <1>7 DEF PtyRefused, Inv, LoopInv, LoopPc
  <2>2. WorldInv'
    BY <1>7, <2>1 DEF PtyRefused, Inv, WorldInv
  <2>3. SettleInv' /\ TailInv'
    BY <1>7, <2>1 DEF PtyRefused, Inv, SettleInv, TailInv, OneSendPerSlot
  <2>4. BoardInv' /\ SlotInv'
    BY <1>7, <2>1, SameBoardFacts, SlotKept DEF PtyRefused, Inv
  <2> QED BY <2>1, <2>2, <2>3, <2>4 DEF Inv
<1>6. CASE TrySend
  <2>1. CASE loop' = [loop EXCEPT !.pc = "drop"] /\ UNCHANGED <<guard, tails>>
    <3>1. LoopInv' /\ loop'.pc # "displace" /\ loop.pc # "settling"
      BY <1>6, <2>1 DEF TrySend, Inv, LoopInv, LoopPc
    <3> QED BY <1>6, <2>1, <3>1, LoopMoves DEF TrySend
  <2>2. CASE /\ loop.slot \notin guard /\ loop' = IdleLoop /\ guard' = guard \cup {loop.slot}
             /\ tails' = tails \cup {[task |-> loop.task, slot |-> loop.slot, retry |-> loop.retry, pc |-> "start"]}
    <3>1. loop.task \in Tasks /\ loop.slot \in Slots /\ loop.pc = "guard" /\ loop.retry \in 0..(MaxRetries - 1)
      BY <1>6 DEF TrySend, Inv, LoopInv
    <3>2. TailInv'
      <4> DEFINE new == [task |-> loop.task, slot |-> loop.slot, retry |-> loop.retry, pc |-> "start"]
      <4>1. new \in [task : Tasks, slot : Slots, retry : 0..(MaxRetries - 1), pc : TailPc] /\ new.slot = loop.slot
        BY <3>1 DEF TailPc
      <4> HIDE DEF new
      <4>2. tails' = tails \cup {new}
        BY <2>2 DEF new
      <4>3. \A x \in tails : x.slot # loop.slot
        BY <2>2 DEF Inv, TailInv, OneSendPerSlot
      <4> QED BY <2>2, <4>1, <4>2, <4>3 DEF Inv, TailInv, OneSendPerSlot
    <3>3. LoopInv' /\ loop'.pc = "idle"
      BY <2>2, IdleFacts
    <3>4. SettleInv' /\ WorldInv'
      BY <1>6, <2>2, <3>1, <3>3 DEF TrySend, Inv, SettleInv, WorldInv, world
    <3>5. BoardInv' /\ SlotInv'
      BY <1>6, <3>3, SameBoardFacts, SlotKept DEF TrySend, Inv
    <3> QED BY <3>2, <3>3, <3>4, <3>5 DEF Inv
  <2> QED BY <1>6, <2>1, <2>2 DEF TrySend
<1> QED BY <1>1, <1>2, <1>3, <1>4, <1>5, <1>6, <1>7

\* A session that cannot be had, and calls of the loop whose error is ignored.
LEMMA TroubleInv == Inv /\ LoopTrouble => Inv'
<1>1. ASSUME Inv, PtyFails PROVE Inv'
  <2>1. loop.task \in Tasks /\ loop.slot \in Slots /\ LoopInv' /\ loop'.pc = "check" /\ loop.pc = "pty"
    BY <1>1 DEF PtyFails, Inv, LoopInv, LoopPc
  <2>2. BoardInv' /\ Keeps
    <3>1. CASE FailAndRelease(loop.task)
      BY <1>1, <2>1, <3>1, FailAndReleaseFacts DEF Inv
    <3>2. CASE loop.retry + 1 < MaxRetries /\ Reopen(loop.task, loop.retry + 1)
      <4>1. loop.retry + 1 \in 0..(MaxRetries - 1)
        BY <1>1, <3>2, BoardAssumption DEF Inv, LoopInv
      <4> QED BY <1>1, <2>1, <3>2, <4>1, ReopenFacts DEF Inv
    <3> QED BY <1>1, <3>1, <3>2 DEF PtyFails
  <2>3. SlotInv'
    BY <1>1, <2>1, <2>2, SlotKept DEF Inv
  <2>4. WorldInv'
    BY <1>1, <2>1, BoardAssumption DEF PtyFails, Inv, WorldInv
  <2>5. SettleInv' /\ TailInv'
    BY <1>1, <2>1 DEF PtyFails, Inv, SettleInv, TailInv, OneSendPerSlot
  <2> QED BY <2>1, <2>2, <2>3, <2>4, <2>5 DEF Inv
<1>2. ASSUME Inv, CallFails PROVE Inv'
  <2>1. WorldInv' /\ TailInv'
    BY <1>2, BoardAssumption DEF CallFails, Inv, WorldInv, TailInv, OneSendPerSlot
  <2>2. CASE \E u \in loop.stale :
               loop.pc = "displace" /\ loop' = [loop EXCEPT !.stale = @ \ {u}] /\ Kept({u})
    <3>1. PICK u \in loop.stale :
            loop.pc = "displace" /\ loop' = [loop EXCEPT !.stale = @ \ {u}] /\ Kept({u})
      BY <2>2
    <3>2. leases' = leases /\ granted' = granted /\ settling' = settling
      BY <1>2 DEF CallFails
    <3>3. u \in Tasks /\ LoopInv'
      BY <1>2, <3>1, <3>2 DEF Inv, LoopInv, LoopPc
    <3>4. loop'.pc = "displace" /\ loop'.slot = loop.slot /\ loop'.task = loop.task /\ loop'.stale = loop.stale \ {u}
      BY <1>2, <3>1 DEF Inv, LoopInv
    <3>5. BoardInv' /\ Keeps /\ row'[u].via # "loop"
      BY <1>2, <3>1, <3>2, <3>3, KeptFacts DEF Inv
    <3>6. SlotInv'
      BY <1>2, <3>1, <3>4, <3>5 DEF SlotInv, Keeps, Inv
    <3>7. SettleInv'
      BY <1>2, <3>1, <3>2 DEF Inv, SettleInv
    <3> QED BY <2>1, <3>3, <3>5, <3>6, <3>7 DEF Inv
  <2>3. CASE UNCHANGED row
    <3>1. BoardInv' /\ Keeps
      BY <1>2, <2>3, FewerLeasesFacts DEF CallFails, Inv
    <3>2. \/ loop.pc \in {"displace", "drop"} /\ loop' = IdleLoop
          \/ loop.pc = "lease" /\ loop' = [loop EXCEPT !.pc = "pty"]
          \/ loop.pc = "check" /\ loop' = [loop EXCEPT !.pc = "drop"]
          \/ \E u \in loop.stale : Kept({u}) /\ loop.pc = "displace" /\ loop' = [loop EXCEPT !.stale = @ \ {u}]
      BY <1>2 DEF CallFails
    <3>3. CASE \/ loop.pc \in {"displace", "drop"} /\ loop' = IdleLoop
               \/ loop.pc = "lease" /\ loop' = [loop EXCEPT !.pc = "pty"]
               \/ loop.pc = "check" /\ loop' = [loop EXCEPT !.pc = "drop"]
      <4>1. LoopInv' /\ loop'.pc # "displace" /\ loop.pc # "settling"
        <5>1. CASE loop' = IdleLoop
          BY <3>3, <5>1, IdleFacts
        <5>2. CASE loop' # IdleLoop
          BY <1>2, <3>3, <5>2 DEF Inv, LoopInv, LoopPc
        <5> QED BY <5>1, <5>2
      <4>2. SlotInv'
        BY <1>2, <3>1, <4>1, SlotKept DEF Inv
      <4>3. SettleInv'
        BY <1>2, <4>1 DEF CallFails, Inv, SettleInv
      <4> QED BY <2>1, <3>1, <4>1, <4>2, <4>3 DEF Inv
    <3> QED BY <2>2, <3>2, <3>3
  <2> QED BY <1>2, <2>2, <2>3 DEF CallFails
<1> QED BY <1>1, <1>2, ClaimInv DEF LoopTrouble

-----------------------------------------------------------------------------
(* Tails, settles, and the rest of the world: none of them moves the loop, *)
(* except for the settle the loop itself waits for.                        *)

\* A tail moves on, and its slot stays guarded.
LEMMA AtFacts ==
    ASSUME TailInv, NEW x \in tails, NEW pc \in TailPc, At(x, pc), guard' = guard PROVE TailInv'
<1> DEFINE new == [x EXCEPT !.pc = pc]
<1>1. new \in [task : Tasks, slot : Slots, retry : 0..(MaxRetries - 1), pc : TailPc] /\ new.slot = x.slot
  BY DEF TailInv
<1> HIDE DEF new
<1>2. tails' = (tails \ {x}) \cup {new}
  BY DEF At, new
<1> QED BY <1>1, <1>2 DEF TailInv, OneSendPerSlot

\* A tail ends and frees its slot, which no other tail is on.
LEMMA FinishFacts == ASSUME TailInv, NEW x \in tails, Finish(x) PROVE TailInv'
  BY DEF TailInv, OneSendPerSlot, Finish

\* A settle begins on behalf of a tail, a worker or the operator.
LEMMA SettleFacts ==
    ASSUME SettleInv, WorldInv, loop' = loop, NEW t \in Tasks, NEW s \in Slots \cup {NoOne},
           s # NoOne => CanSettle(t, s),
           NEW caller \in {"tail", "worker", "operator"}, NEW then \in {"ready", "again", "end", "none"},
           caller = "tail" => then # "none", Settle(caller, t, s, then)
    PROVE  SettleInv' /\ grants' \in [Tasks \X Slots -> Nat]
<1> DEFINE new == [caller |-> caller, task |-> t, slot |-> s, then |-> then, pc |-> "release"]
<1>1. settling' = settling \cup {new}
  BY DEF Settle
<1>2. SettleInv'
  BY <1>1 DEF SettleInv
<1>3. CASE s = NoOne
  BY <1>2, <1>3 DEF Settle, WorldInv
<1>4. CASE s # NoOne
  <2>1. s \in Slots /\ grants[<<t, s>>] \in Nat /\ grants[<<t, s>>] > 0
    BY <1>4 DEF CanSettle, WorldInv
  <2> QED BY <1>2, <1>4, <2>1 DEF Settle, WorldInv
<1> QED BY <1>3, <1>4

\* The steps of a tail that end it with a write to the board, or with none.
LEMMA TailEnds ==
    ASSUME Inv, NEW x \in tails, Finish(x), BoardInv', Keeps, UNCHANGED <<world, loop, settling>>
    PROVE  Inv'
<1>1. TailInv'
  BY FinishFacts DEF Inv
<1>2. SettleInv'
  BY DEF Inv, SettleInv
<1>3. WorldInv' /\ granted' = granted
  BY DEF Inv, WorldInv, world, Finish
<1> QED BY <1>1, <1>2, <1>3, LoopWaits

\* The tails.
LEMMA TailStepInv == Inv /\ TailStep => Inv'
<1> SUFFICES ASSUME Inv, NEW x \in tails,
                    \/ TailSettle(x) \/ Deliver(x) \/ SendRefused(x) \/ SendFails(x)
                    \/ QuotaExhausted(x) \/ TailMaterialize(x) \/ LeaveRunning(x)
             PROVE  Inv'
  BY DEF TailStep
<1>0. x.task \in Tasks /\ x.slot \in Slots /\ x.retry \in 0..(MaxRetries - 1)
  BY DEF Inv, TailInv
<1>1. CASE TailSettle(x)
  <2>1. TailInv'
    BY <1>1, AtFacts DEF TailSettle, Inv, TailPc
  <2>2. SettleInv' /\ grants' \in [Tasks \X Slots -> Nat]
    <3> DEFINE then == IF x.pc = "start" THEN "ready" ELSE IF x.pc = "sent" THEN "again" ELSE "end"
    <3>1. then \in {"ready", "again", "end"}
      OBVIOUS
    <3>2. loop' = loop /\ CanSettle(x.task, x.slot) /\ Settle("tail", x.task, x.slot, then)
      BY <1>1 DEF TailSettle
    <3> HIDE DEF then
    <3> QED BY <1>0, <3>1, <3>2, SettleFacts DEF Inv
  <2>3. WorldInv' /\ BoardInv' /\ Keeps
    BY <1>1, <2>2, SameBoardFacts DEF TailSettle, Inv, WorldInv
  <2> QED BY <1>1, <2>1, <2>2, <2>3, LoopWaits DEF TailSettle
<1>2. CASE Deliver(x)
  <2>1. TailInv'
    BY <1>2, AtFacts DEF Deliver, Inv, TailPc
  <2>2. WorldInv' /\ SettleInv'
    BY <1>0, <1>2 DEF Deliver, Inv, WorldInv, SettleInv
  <2>3. BoardInv' /\ Keeps
    BY <1>2, SameBoardFacts DEF Deliver, Inv
  <2> QED BY <1>2, <2>1, <2>2, <2>3, LoopWaits DEF Deliver
<1>3. CASE SendRefused(x)
  BY <1>0, <1>3, UnclaimFacts, TailEnds DEF SendRefused, Inv
<1>4. CASE SendFails(x)
  <2>1. CASE UpdateStatus(x.task, "failed")
    BY <1>0, <1>4, <2>1, UpdateStatusFacts, TailEnds DEF SendFails, Inv, Status
  <2>2. CASE Reopen(x.task, x.retry + 1) /\ ~(x.retry + 1 >= MaxRetries)
    <3>1. x.retry + 1 \in 0..(MaxRetries - 1)
      BY <1>0, <2>2, BoardAssumption
    <3> QED BY <1>0, <1>4, <2>2, <3>1, ReopenFacts, TailEnds DEF SendFails, Inv
  <2> QED BY <1>4, <2>1, <2>2 DEF SendFails
<1>5. CASE QuotaExhausted(x)
  BY <1>0, <1>5, UpdateStatusFacts, TailEnds DEF QuotaExhausted, Inv, Status
<1>6. CASE TailMaterialize(x)
  BY <1>0, <1>6, MaterializeInv DEF TailMaterialize
<1>7. CASE LeaveRunning(x)
  BY <1>7, SameBoardFacts, TailEnds DEF LeaveRunning, Inv
<1> QED BY <1>1, <1>2, <1>3, <1>4, <1>5, <1>6, <1>7

\* A settle that ends returns the loop to a place where it may be, and only the
\* loop's own settle moves it.
LEMMA LoopReturns ==
    ASSUME Inv, NEW c \in settling, settling' = settling \ {c}, granted' = granted,
           \/ loop' = (IF c.caller = "loop" THEN IdleLoop ELSE loop)
           \/ loop' = (IF c.caller = "loop" THEN [loop EXCEPT !.pc = c.then] ELSE loop)
    PROVE  LoopInv' /\ SettleInv' /\ (loop' = loop \/ loop'.pc # "displace")
<1>1. CASE c.caller = "loop"
  <2>1. loop.pc = "settling" /\ c.then = "judge" /\ \A d \in settling' : d.caller # "loop"
    BY <1>1 DEF Inv, SettleInv
  <2>2. SettleInv'
    BY <2>1 DEF Inv, SettleInv
  <2>3. CASE loop' = IdleLoop
    BY <2>2, <2>3, IdleFacts
  <2>4. CASE loop' = [loop EXCEPT !.pc = "judge"]
    BY <2>1, <2>2, <2>4 DEF Inv, LoopInv, LoopPc
  <2> QED BY <1>1, <2>1, <2>3, <2>4
<1>2. CASE c.caller # "loop"
  BY <1>2 DEF Inv, LoopInv, SettleInv
<1> QED BY <1>1, <1>2

\* The tail that waits for a settle is alone on its slot.
LEMMA TailOfFacts ==
    ASSUME Inv, NEW c \in settling
    PROVE  TailOf(c) \subseteq tails /\ \A x, y \in TailOf(c) : x = y
  BY DEF TailOf, Inv, TailInv, OneSendPerSlot

\* Settles: the lease first, then the row, or an error.
LEMMA SettleStepInv == Inv /\ SettleStep => Inv'
<1> SUFFICES ASSUME Inv, NEW c \in settling, ReleaseClaims(c) \/ CloseTask(c) \/ SettleFails(c) PROVE Inv'
  BY DEF SettleStep
<1>0. c.task \in Tasks
  BY DEF Inv, SettleInv
<1>1. CASE ReleaseClaims(c)
  <2>1. BoardInv' /\ Keeps
    BY <1>1, FewerLeasesFacts DEF ReleaseClaims, Inv
  <2>2. SettleInv'
    <3> DEFINE new == [c EXCEPT !.pc = "close"]
    <3>1. /\ new \in [caller : {"tail", "loop", "worker", "operator"}, task : Tasks,
                      slot : Slots \cup {NoOne}, then : {"judge", "ready", "again", "end", "none"},
                      pc : {"release", "close"}]
          /\ new.caller = c.caller /\ new.then = c.then
      BY DEF Inv, SettleInv
    <3> HIDE DEF new
    <3>2. settling' = (settling \ {c}) \cup {new} /\ loop' = loop
      BY <1>1 DEF ReleaseClaims, new
    <3> QED BY <3>1, <3>2 DEF Inv, SettleInv
  <2>3. WorldInv' /\ TailInv' /\ granted' = granted
    BY <1>1 DEF ReleaseClaims, Inv, WorldInv, TailInv, OneSendPerSlot, world
  <2> QED BY <1>1, <2>1, <2>2, <2>3, LoopWaits DEF ReleaseClaims
<1>2. ASSUME tails' = tails \ TailOf(c), guard' = guard \ {x.slot : x \in TailOf(c)} PROVE TailInv'
  BY <1>2, TailOfFacts DEF Inv, TailInv, OneSendPerSlot
<1>3. CASE CloseTask(c)
  <2>1. BoardInv' /\ Keeps
    BY <1>0, <1>3, UpdateStatusFacts DEF CloseTask, Inv, Status
  <2>2. TailInv'
    BY <1>2, <1>3 DEF CloseTask
  <2>3. granted' = granted /\ WorldInv'
    BY <1>3 DEF CloseTask, Inv, WorldInv, world
  <2>4. LoopInv' /\ SettleInv' /\ (loop' = loop \/ loop'.pc # "displace")
    BY <1>3, <2>3, LoopReturns DEF CloseTask
  <2> QED BY <2>1, <2>2, <2>3, <2>4, SlotKept DEF Inv
<1>4. CASE SettleFails(c)
  <2>1. BoardInv' /\ Keeps
    BY <1>4, SameBoardFacts DEF SettleFails, Inv
  <2>2. TailInv'
    <3>1. CASE c.then = "end"
      BY <1>2, <1>4, <3>1 DEF SettleFails, Resumed
    <3>2. CASE TailOf(c) = {} /\ c.then # "end"
      BY <1>4, <3>2 DEF SettleFails, Resumed, Inv, TailInv, OneSendPerSlot
    <3>3. CASE TailOf(c) # {} /\ c.then # "end"
      <4>1. PICK x \in tails : TailOf(c) = {x} /\ c.caller = "tail"
        BY <3>3, TailOfFacts DEF TailOf
      <4>2. c.then \in TailPc
        BY <3>3, <4>1 DEF Inv, SettleInv, TailPc
      <4>3. At(x, c.then) /\ guard' = guard
        BY <1>4, <3>3, <4>1 DEF SettleFails, Resumed, At
      <4> QED BY <4>2, <4>3, AtFacts DEF Inv
    <3> QED BY <3>1, <3>2, <3>3
  <2>3. granted' = granted /\ WorldInv'
    BY <1>4 DEF SettleFails, Resumed, Inv, WorldInv, world
  <2>4. LoopInv' /\ SettleInv' /\ (loop' = loop \/ loop'.pc # "displace")
    BY <1>4, <2>3, LoopReturns DEF SettleFails, Resumed
  <2> QED BY <2>1, <2>2, <2>3, <2>4, SlotKept DEF Inv
<1> QED BY <1>1, <1>3, <1>4

\* Workers and the supervisor.
LEMMA WorkerStepInv == Inv /\ WorkerStep => Inv'
<1> SUFFICES ASSUME Inv, NEW s \in Slots,
                    \/ PutArtifact(s) \/ WorkerSettle(s) \/ WorkerIdle(s)
                    \/ SlotExits(s) \/ KillSlot(s) \/ ReleaseKilled(s)
             PROVE  Inv'
  BY DEF WorkerStep
<1>1. CASE WorkerSettle(s)
  <2>1. SettleInv' /\ grants' \in [Tasks \X Slots -> Nat]
    <3>1. pty[s] \in Tasks /\ CanSettle(pty[s], s) /\ loop' = loop /\ Settle("worker", pty[s], s, "none")
      BY <1>1 DEF WorkerSettle
    <3> QED BY <3>1, SettleFacts DEF Inv
  <2>2. WorldInv' /\ TailInv'
    BY <1>1, <2>1 DEF WorkerSettle, Inv, WorldInv, TailInv, OneSendPerSlot
  <2> QED BY <1>1, <2>1, <2>2, SameBoardFacts, LoopWaits DEF WorkerSettle, Inv
<1>2. CASE PutArtifact(s) \/ WorkerIdle(s) \/ SlotExits(s) \/ KillSlot(s)
  <2>1. WorldInv'
    BY <1>2, BoardAssumption DEF PutArtifact, WorkerIdle, SlotExits, KillSlot, Inv, WorldInv
  <2>2. SettleInv' /\ TailInv' /\ UNCHANGED <<board, loop, granted>>
    BY <1>2 DEF PutArtifact, WorkerIdle, SlotExits, KillSlot, Inv, SettleInv, TailInv, OneSendPerSlot
  <2> QED BY <2>1, <2>2, SameBoardFacts, LoopWaits DEF Inv
<1>3. CASE ReleaseKilled(s)
  <2>1. BoardInv' /\ Keeps
    BY <1>3, ReleaseExecutorFacts DEF ReleaseKilled, Inv, Executors
  <2>2. WorldInv' /\ SettleInv' /\ TailInv'
    BY <1>3 DEF ReleaseKilled, Inv, WorldInv, SettleInv, TailInv, OneSendPerSlot
  <2> QED BY <1>3, <2>1, <2>2, LoopWaits DEF ReleaseKilled
<1> QED BY <1>1, <1>2, <1>3

\* The board tools.  Whatever executor they name, theirs is no claim of the loop.
LEMMA OperatorInv == ASSUME Inv, NEW t \in Tasks, OperatorActs(t) PROVE Inv'
<1>1. loop' = loop /\ granted' = granted /\ TailInv' /\ LoopInv'
  BY DEF OperatorActs, Inv, TailInv, OneSendPerSlot, LoopInv
<1>2. SettleInv' /\ grants' \in [Tasks \X Slots -> Nat]
  <2>1. CASE UNCHANGED <<settling, grants>>
    BY <1>1, <2>1 DEF Inv, SettleInv, WorldInv
  <2>2. CASE Settle("operator", t, NoOne, "none")
    BY <1>1, <2>2, SettleFacts DEF Inv
  <2> QED BY <2>1, <2>2 DEF OperatorActs
<1>3. WorldInv'
  <2>1. finals' \subseteq finals
    BY DEF OperatorActs, ClaimRow
  <2> QED BY <1>2, <2>1, BoardAssumption DEF OperatorActs, Inv, WorldInv
<1>4. BoardInv' /\ Keeps
  <2>1. CASE \E e \in Executors : ClaimRow(t, e, "claim")
    <3>1. PICK e \in Executors : ClaimRow(t, e, "claim")
      BY <2>1
    <3>2. BoardInv' /\ row'[t].via = "claim" /\ \A u \in Tasks \ {t} : row'[u] = row[u]
      BY <3>1, ClaimRowFacts DEF Inv
    <3> QED BY <3>2 DEF Keeps
  <2>2. CASE \E status \in (Status \ {"done"}) \cup {row[t].status}, e \in Executors : UpdateExecutor(t, status, e)
    <3>1. row[t].status \in Status
      BY DEF Inv, BoardInv, Row
    <3> QED BY <2>2, <3>1, UpdateExecutorFacts DEF Inv
  <2>3. CASE Unclaim(t) \/ (\E status \in Status \ {"done"} : UpdateStatus(t, status)) \/ RefuseClaim(t) \/ UNCHANGED board
    BY <2>3, UnclaimFacts, UpdateStatusFacts, RefuseClaimFacts, SameBoardFacts DEF Inv
  <2> QED BY <2>1, <2>2, <2>3 DEF OperatorActs
<1> QED BY <1>1, <1>2, <1>3, <1>4, LoopWaits

\* A restart forgets what was read, sent and guarded, and keeps the board.
LEMMA RestartInv == Inv /\ Restart => Inv'
<1> SUFFICES ASSUME Inv, Restart PROVE Inv'
  OBVIOUS
<1>1. loop'.pc = "boot" /\ LoopInv'
  BY BoardAssumption DEF Restart, IdleLoop, LoopInv, LoopPc
<1>2. SettleInv' /\ TailInv'
  BY DEF Restart, SettleInv, TailInv, OneSendPerSlot
<1>3. WorldInv'
  BY BoardAssumption DEF Restart, Inv, WorldInv
<1>4. BoardInv' /\ SlotInv'
  BY <1>1, SameBoardFacts, SlotKept DEF Restart, Inv
<1> QED BY <1>1, <1>2, <1>3, <1>4 DEF Inv

\* A lease runs out under anyone.
LEMMA LapseInv == ASSUME Inv, NEW l, LeaseLapses(l) PROVE Inv'
<1>1. BoardInv' /\ Keeps
  BY LeaseLapsesFacts DEF Inv
<1>2. WorldInv' /\ SettleInv' /\ TailInv' /\ loop' = loop /\ granted' = granted
  BY DEF LeaseLapses, Inv, WorldInv, SettleInv, TailInv, OneSendPerSlot, world
<1> QED BY <1>1, <1>2, LoopWaits

\* Every step keeps the invariant.
LEMMA NextInv == Inv /\ [Next]_vars => Inv'
<1> SUFFICES ASSUME Inv, [Next]_vars PROVE Inv'
  OBVIOUS
<1>1. CASE UNCHANGED vars
  <2>1. WorldInv' /\ SettleInv' /\ TailInv' /\ loop' = loop /\ granted' = granted /\ UNCHANGED board
    BY <1>1 DEF vars, board, Inv, WorldInv, SettleInv, TailInv, OneSendPerSlot
  <2> QED BY <2>1, SameBoardFacts, LoopWaits DEF Inv
<1>2. CASE LoopStep
  BY <1>2, WatchInv, RecoverInv, ClaimInv, SendInv DEF LoopStep, Dispatch
<1>3. CASE Next /\ ~LoopStep
  BY <1>3, TroubleInv, TailStepInv, SettleStepInv, WorkerStepInv, LapseInv, OperatorInv, RestartInv DEF Next
<1> QED BY <1>1, <1>2, <1>3

\* The invariant holds throughout.
LEMMA AlwaysInv == Spec => []Inv
  BY InitInv, NextInv, PTL DEF Spec

\* Everything keeps its type, and no retry count of a row or a tail reaches
\* max_retries.
THEOREM BoardTypeOK == Spec => []TypeOK
<1>1. Inv => TypeOK
  BY DEF Inv, BoardInv, LoopInv, SettleInv, TailInv, WorldInv, TypeOK, Row, Lease
<1> QED BY <1>1, AlwaysInv, PTL

\* The dispatch guard keeps two sends off one slot.
THEOREM GuardExcludesSends == Spec => []OneSendPerSlot
<1>1. Inv => OneSendPerSlot
  BY DEF Inv, TailInv
<1> QED BY <1>1, AlwaysInv, PTL

\* Displacing the claims read before the claim is enough: of the claims the loop
\* has made for a slot at most one is running, whatever tools, settles, kills and
\* restarts do in between, except for one the loop failed to list or to unclaim.
THEOREM SlotHasOneTask == Spec => []OneClaimPerSlot
<1>1. Inv => OneClaimPerSlot
  BY DEF Inv, SlotInv, OneClaimPerSlot
<1> QED BY <1>1, AlwaysInv, PTL

\* A task has one lease at most, and after every write of every caller but an
\* update that names an executor, it is the lease of the row's executor.
THEOREM RowAgreesWithLease == Spec => []ClaimHoldsLease
<1>1. Inv => ClaimHoldsLease
  BY DEF Inv, BoardInv
<1> QED BY <1>1, AlwaysInv, PTL
=============================================================================
