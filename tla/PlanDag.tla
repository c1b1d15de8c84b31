------------------------------ MODULE PlanDag ------------------------------
(***************************************************************************)
(* The PLAN DAG runtime (handlers/knowledge/plan_dag): the wave scheduler  *)
(* execute_with_concurrency, the work leases its nodes take, retries,      *)
(* acceptance, rollback, failure taint and fail-fast, the plan row it      *)
(* writes at the end, and the resume of a node paused at a review gate.    *)
(*                                                                         *)
(* Runs are calls of mission_plan(action=execute) on one plan; they share  *)
(* only the database: the plan row and the work_leases table.  A run's     *)
(* steps are the code between two of its awaits on that database or on a   *)
(* dispatch.  Evidence rows and bus events are left out: the scheduler     *)
(* ignores the result of both.                                             *)
(***************************************************************************)
EXTENDS PlanGraph

CONSTANTS
    Nodes,        \* node ids: numbers, as only their order counts
    Runs,         \* calls of mission_plan(action=execute)
    Scopes,       \* keys of work_leases rows
    Plans,        \* the plans a behaviour may start with
    MaxParallel,  \* max_parallel_nodes
    MaxTrouble,   \* leases that lapse, calls that fail and daemon crashes
    MaxResumes    \* deliveries of an approved review

NoLease == [run |-> 0, node |-> 0, attempt |-> 0, lapsed |-> FALSE]

(***************************************************************************)
(* A plan: deps, the lease scopes of a node in claim order, max attempts,  *)
(* the fail-fast nodes, the nodes with a :condition, the review-gated      *)
(* ones, the acceptance mode ("check" stands for inner_status and          *)
(* evidence_keys, whose verdict depends on the payload), the fan-in        *)
(* sources, the nodes with a dispatching rollback or cascade, the          *)
(* compensation candidates of a root and the :rollback-after edges.        *)
(***************************************************************************)
IsPlan(p) ==
    /\ p.deps \in [Nodes -> SUBSET Nodes]
    /\ Acyclic(Nodes, p.deps)
    /\ p.scopes \in [Nodes -> Seq(Scopes) \ {<<>>}]
    /\ p.max \in [Nodes -> Nat \ {0}]
    /\ {p.failFast, p.condition, p.review, p.rollback, p.cascade} \subseteq SUBSET Nodes
    /\ p.acceptance \in [Nodes -> {"none", "check", "manual"}]
    /\ \A n \in Nodes : p.fanIn[n] \subseteq Ancestors(Nodes, p.deps, n)
    /\ p.candidates \in [Nodes -> SUBSET Nodes]
    /\ p.after \in [Nodes -> SUBSET Nodes]

ASSUME PlanDagAssumption ==
    /\ Nodes \subseteq Nat \ {0} /\ IsFiniteSet(Nodes)
    /\ Runs \subseteq Nat \ {0}
    /\ MaxParallel \in Nat \ {0}
    /\ {MaxTrouble, MaxResumes} \subseteq Nat
    /\ \A p \in Plans : IsPlan(p)

VARIABLES
    plan,       \* the contract, never rewritten by a run
    status,     \* plan.status ("approved" stands for executing too)
    leases,     \* the active work_leases row of every scope
    run,        \* the local state of every call of execute_with_concurrency
    resuming,   \* dispatches by the resume path in flight, per node
    lost,       \* history: claims one of whose leases has lapsed
    leaked,     \* history: claims one of whose releases has failed
    trouble, resumes

counters == <<trouble, resumes>>
vars == <<plan, status, leases, run, resuming, lost, leaked, counters>>

Lifecycles == {"Pending", "Claimed", "Running", "Succeeded", "Failed", "Skipped", "Paused"}
Results == {"none", "Succeeded", "Failed", "SkippedUpstream", "SkippedCondition",
            "SkippedFailFast", "Paused"}

\* The local variables of execute_with_concurrency before its first iteration.
FreshRun ==
    [pc |-> "idle", lifecycle |-> [n \in Nodes |-> "Pending"],
     results |-> [n \in Nodes |-> "none"], attempts |-> [n \in Nodes |-> 0],
     tainted |-> {}, abort |-> FALSE, queue |-> {}, cur |-> 0, have |-> 0,
     inflight |-> {}, undo |-> <<>>, undone |-> <<>>, waves |-> <<>>]

Init ==
    /\ plan \in Plans
    /\ status = "approved"
    /\ leases = [s \in Scopes |-> NoLease]
    /\ run = [r \in Runs |-> FreshRun]
    /\ lost = {} /\ leaked = {}
    /\ resuming = [n \in Nodes |-> 0]
    /\ trouble = 0 /\ resumes = 0

\* A disturbance of the environment; their number is bounded.
Trouble == trouble < MaxTrouble /\ trouble' = trouble + 1

-----------------------------------------------------------------------------
(***************************************************************************)
(* Starting, ending and losing a run.                                      *)
(***************************************************************************)
Start(r) ==
    /\ run[r].pc = "idle"
    /\ status = "approved"
    /\ run' = [run EXCEPT ![r].pc = "loop"]
    /\ UNCHANGED <<plan, status, leases, resuming, lost, leaked, counters>>

\* `?' on an Err: the JoinSet is dropped, which aborts the dispatches in it,
\* and nothing is released.
Failed(r) ==
    run' = [run EXCEPT ![r].pc = "failed", ![r].inflight = {}, ![r].queue = {},
                       ![r].undo = <<>>, ![r].cur = 0, ![r].have = 0]

AllSucceeded(results) ==
    /\ \E n \in Nodes : results[n] # "none"
    /\ \A n \in Nodes : results[n] \in {"none", "Succeeded"}

AnyFailed(results) == \E n \in Nodes : results[n] = "Failed"

\* Mutant of TargetPlanStatus: whatever did not fail has succeeded.
TargetPlanStatusOptimistic(results, aborted) ==
    IF aborted \/ AnyFailed(results) THEN "failed" ELSE "succeeded"

\* target_plan_status; "" when the run leaves the plan row alone.
TargetPlanStatus(results, aborted) ==
    CASE AllSucceeded(results)           -> "succeeded"
      [] aborted \/ AnyFailed(results)   -> "failed"
      [] OTHER                           -> ""

\* The tail of action_execute_dag_v1: an unconditional, best-effort UPDATE.
End(r) ==
    /\ run[r].pc = "end"
    /\ run' = [run EXCEPT ![r].pc = "ended"]
    /\ LET target == TargetPlanStatus(run[r].results, run[r].abort)
       IN  \/ /\ status' = IF target = "" THEN status ELSE target
              /\ UNCHANGED trouble
           \/ /\ target # "" /\ Trouble
              /\ UNCHANGED status
    /\ UNCHANGED <<plan, leases, resuming, lost, leaked, resumes>>

-----------------------------------------------------------------------------
(***************************************************************************)
(* Steps 1-5 of the loop: tainted nodes become skips, the ready set is     *)
(* computed, fail-fast and exhaustion end the run, gates filter the rest.  *)
(***************************************************************************)
TaintedPending(r) ==
    {n \in run[r].tainted : run[r].lifecycle[n] = "Pending"}

\* Mutant of Ready: a parked node counts as done.
ReadyPastPauses(r) ==
    {n \in Nodes \ TaintedPending(r) :
        /\ run[r].lifecycle[n] = "Pending"
        /\ \A d \in plan.deps[n] : run[r].lifecycle[d] \in {"Succeeded", "Paused"}}

Ready(r) ==
    {n \in Nodes \ TaintedPending(r) :
        /\ run[r].lifecycle[n] = "Pending"
        /\ \A d \in plan.deps[n] : run[r].lifecycle[d] = "Succeeded"}

Gated(n) == n \in plan.condition \cup plan.review

\* Mutant of Examined: the place is checked after it is taken.
ExaminedOneMore(r) ==
    {n \in Ready(r) : Cardinality({m \in Ready(r) : m < n /\ ~Gated(m)}) <= MaxParallel}

\* filter_ready_nodes_for_gates walks the sorted ready ids until it has
\* max_parallel_nodes to dispatch; a gated node takes no place.
Examined(r) ==
    {n \in Ready(r) : Cardinality({m \in Ready(r) : m < n /\ ~Gated(m)}) < MaxParallel}

Conditional(r) == Examined(r) \cap plan.condition
ReviewGated(r) == (Examined(r) \cap plan.review) \ plan.condition
ToDispatch(r)  == {n \in Examined(r) : ~Gated(n)}

Mark(f, S, v) == [n \in Nodes |-> IF n \in S THEN v ELSE f[n]]

\* Step 1, materialize_tainted_pending_skips.
SkipTainted(r) ==
    [run[r] EXCEPT !.lifecycle = Mark(@, TaintedPending(r), "Skipped"),
                   !.results = Mark(@, TaintedPending(r), "SkippedUpstream")]

AnyRunning(r) == \E n \in Nodes : run[r].lifecycle[n] = "Running"

\* Step 3: fail-fast skips whatever is still pending, ready or not.
StopFailFast(r) ==
    /\ run[r].pc = "loop" /\ run[r].abort /\ ~AnyRunning(r)
    /\ LET q == SkipTainted(r)
           pending == {n \in Nodes : q.lifecycle[n] = "Pending"}
       IN  run' = [run EXCEPT ![r] =
                    [q EXCEPT !.pc = "end",
                              !.lifecycle = Mark(@, pending, "Skipped"),
                              !.results = Mark(@, pending, "SkippedFailFast")]]
    /\ UNCHANGED <<plan, status, leases, resuming, lost, leaked, counters>>

\* Step 4.
StopExhausted(r) ==
    /\ run[r].pc = "loop" /\ ~run[r].abort /\ ~AnyRunning(r)
    /\ Ready(r) = {}
    /\ run' = [run EXCEPT ![r] = [SkipTainted(r) EXCEPT !.pc = "end"]]
    /\ UNCHANGED <<plan, status, leases, resuming, lost, leaked, counters>>

\* Mutant of TurnToNext: a wave that the gates emptied waits for its drain.
TurnToNextDrains(q, whenEmpty) ==
    IF q.queue = {} THEN [q EXCEPT !.pc = "drain", !.cur = 0, !.have = 0]
    ELSE [q EXCEPT !.pc = "claim", !.cur = Least(q.queue), !.have = 0,
                   !.attempts[Least(q.queue)] = @ + 1]

\* The claim loop of step 6 turns to the least node of `queue'; `continue'
\* when the gates kept everything, the drain when every node is spawned.
TurnToNext(q, whenEmpty) ==
    IF q.queue = {} THEN [q EXCEPT !.pc = whenEmpty, !.cur = 0, !.have = 0]
    ELSE [q EXCEPT !.pc = "claim", !.cur = Least(q.queue), !.have = 0,
                   !.attempts[Least(q.queue)] = @ + 1]

\* Step 5: a condition skips its node and taints, a review gate only parks it.
Wave(r) ==
    /\ run[r].pc = "loop" /\ ~run[r].abort
    /\ Ready(r) # {}
    /\ LET q == SkipTainted(r)
           gated == [q EXCEPT
               !.lifecycle = Mark(Mark(@, Conditional(r), "Skipped"), ReviewGated(r), "Paused"),
               !.results = Mark(Mark(@, Conditional(r), "SkippedCondition"),
                                ReviewGated(r), "Paused"),
               !.tainted = @ \cup UNION {PropagateTaint(Nodes, plan.deps, @, c) :
                                           c \in Conditional(r)},
               !.queue = ToDispatch(r),
               !.waves = IF ToDispatch(r) = {} THEN @ ELSE Append(@, ToDispatch(r))]
       IN  run' = [run EXCEPT ![r] = TurnToNext(gated, "loop")]
    /\ UNCHANGED <<plan, status, leases, resuming, lost, leaked, counters>>

-----------------------------------------------------------------------------
(***************************************************************************)
(* acquire_plan_dag_work_leases and spawn_dispatch_attempt, for the first  *)
(* attempt of a node (pc = "claim") and for a retry (pc = "retry").        *)
(***************************************************************************)
ClaimOf(r, n) == [run |-> r, node |-> n, attempt |-> run[r].attempts[n]]

HeldBy(s, c) ==
    /\ leases[s].run = c.run /\ leases[s].node = c.node /\ leases[s].attempt = c.attempt

Claiming(r) == run[r].pc \in {"claim", "retry"}

NextScope(r) == plan.scopes[run[r].cur][run[r].have + 1]

\* One transaction per scope; the claim of the last one records the claim.
ClaimScope(r) ==
    /\ Claiming(r)
    /\ run[r].have < Len(plan.scopes[run[r].cur])
    /\ leases[NextScope(r)] = NoLease \/ leases[NextScope(r)].lapsed
    /\ LET n == run[r].cur
       IN  /\ leases' = [leases EXCEPT ![NextScope(r)] =
                 [run |-> r, node |-> n, attempt |-> run[r].attempts[n], lapsed |-> FALSE]]
           /\ run' = [run EXCEPT ![r].have = @ + 1,
                        ![r].lifecycle[n] =
                            IF run[r].have + 1 = Len(plan.scopes[n]) THEN "Claimed" ELSE @]
    /\ UNCHANGED <<plan, status, resuming, lost, leaked, counters>>

\* claim returns Err(CLAIM_CONFLICT), so `.await?' leaves the scheduler before
\* its own Conflict branch; any other database error takes the same way out.
ClaimConflict(r) ==
    /\ Claiming(r)
    /\ run[r].have < Len(plan.scopes[run[r].cur])
    /\ leases[NextScope(r)] # NoLease /\ ~leases[NextScope(r)].lapsed
    /\ Failed(r)
    /\ UNCHANGED <<plan, status, leases, resuming, lost, leaked, counters>>

ClaimFault(r) ==
    /\ Claiming(r)
    /\ run[r].have < Len(plan.scopes[run[r].cur])
    /\ Trouble
    /\ Failed(r)
    /\ UNCHANGED <<plan, status, leases, resuming, lost, leaked, resumes>>

Spawn(r) ==
    /\ Claiming(r)
    /\ run[r].have = Len(plan.scopes[run[r].cur])
    /\ LET n == run[r].cur
           q == [run[r] EXCEPT !.lifecycle[n] = "Running", !.inflight = @ \cup {n},
                               !.queue = @ \ {n}]
       IN  run' = [run EXCEPT ![r] = TurnToNext(q, "drain")]
    /\ UNCHANGED <<plan, status, leases, resuming, lost, leaked, counters>>

-----------------------------------------------------------------------------
(***************************************************************************)
(* drain_dispatch_wave: results are taken in any order; the loop goes on   *)
(* when the JoinSet is empty.                                              *)
(***************************************************************************)
Draining(r, n) == run[r].pc = "drain" /\ n \in run[r].inflight

Drained(q) == [q EXCEPT !.pc = IF q.inflight = {} THEN "loop" ELSE "drain",
                        !.cur = 0, !.have = 0]

\* Mutant of ReleaseClaim: by scope key, whoever holds it now.
ReleaseClaimByScope(r, n) ==
    /\ leases' = [s \in Scopes |-> IF s \in Elems(plan.scopes[n]) THEN NoLease ELSE leases[s]]
    /\ UNCHANGED <<leaked, trouble>>

\* release_claim_if_recorded: by lease id, best effort, scope by scope.
ReleaseClaim(r, n) ==
    LET c == ClaimOf(r, n)
        held == {s \in Scopes : HeldBy(s, c)}
    IN  \E stuck \in SUBSET held :
          /\ IF stuck = {} THEN UNCHANGED trouble ELSE Trouble
          /\ leaked' = IF stuck = {} THEN leaked ELSE leaked \cup {c}
          /\ leases' = [s \in Scopes |-> IF s \in held \ stuck THEN NoLease ELSE leases[s]]

FanInPasses(r, n) == \A m \in plan.fanIn[n] : run[r].results[m] = "Succeeded"

\* evaluate_node_acceptance and apply_acceptance_fan_in for a dispatch that
\* returned Ok: the verdicts that its payload leaves open.
Verdicts(r, n) ==
    CASE plan.acceptance[n] = "manual" -> {"Paused"}
      [] ~FanInPasses(r, n)            -> {"Failed"}
      [] plan.acceptance[n] = "check"  -> {"Succeeded", "Failed"}
      [] OTHER                         -> {"Succeeded"}

\* record_successful_dispatch when acceptance does not reject.
Accept(r, n) ==
    /\ Draining(r, n)
    /\ \E verdict \in Verdicts(r, n) \ {"Failed"} :
         run' = [run EXCEPT ![r] =
                   Drained([run[r] EXCEPT !.lifecycle[n] = verdict, !.results[n] = verdict,
                                          !.inflight = @ \ {n}])]
    /\ ReleaseClaim(r, n)
    /\ UNCHANGED <<plan, status, resuming, lost, resumes>>

\* What evaluate_and_emit_rollback dispatches, in order: the node's own
\* rollback, then the compensations of the cascade.
Undoing(n) ==
    (IF n \in plan.rollback THEN <<n>> ELSE <<>>) \o
    (IF n \in plan.cascade
     THEN CompensationOrder(plan.candidates[n], plan.after, TopoOrder(Nodes, plan.deps))
     ELSE <<>>)

\* The first half of record_final_failure, and of a rejected acceptance: the
\* leases go before the rollback is dispatched.
FinalFailure(r, n) ==
    /\ run' = [run EXCEPT ![r].pc = "rollback", ![r].cur = n, ![r].undo = Undoing(n),
                          ![r].lifecycle[n] = "Failed", ![r].inflight = @ \ {n}]
    /\ ReleaseClaim(r, n)
    /\ UNCHANGED <<plan, status, resuming, lost, resumes>>

Reject(r, n) ==
    /\ Draining(r, n)
    /\ "Failed" \in Verdicts(r, n)
    /\ FinalFailure(r, n)

\* Mutant of ShouldRetry: an aborted run still retries.
ShouldRetryAlways(r, n, refused) == ~refused /\ run[r].attempts[n] < plan.max[n]

\* plan_node_should_retry.
ShouldRetry(r, n, refused) ==
    ~refused /\ ~run[r].abort /\ run[r].attempts[n] < plan.max[n]

Fail(r, n, refused) ==
    /\ Draining(r, n)
    /\ ~ShouldRetry(r, n, refused)
    /\ FinalFailure(r, n)

\* retry_failed_node_if_allowed up to its first claim: release, sleep, bump.
Retry(r, n) ==
    /\ Draining(r, n)
    /\ ShouldRetry(r, n, FALSE)
    /\ run' = [run EXCEPT ![r].pc = "retry", ![r].cur = n, ![r].have = 0,
                          ![r].attempts[n] = @ + 1, ![r].inflight = @ \ {n}]
    /\ ReleaseClaim(r, n)
    /\ UNCHANGED <<plan, status, resuming, lost, resumes>>

\* The dispatch returned Err or its task panicked: the drain returns Err.
Raise(r, n) ==
    /\ Draining(r, n)
    /\ Trouble
    /\ Failed(r)
    /\ UNCHANGED <<plan, status, leases, resuming, lost, leaked, resumes>>

\* run_rollback and run_cascade_rollback wait for one dispatch after another.
Undo(r) ==
    /\ run[r].pc = "rollback" /\ run[r].undo # <<>>
    /\ run' = [run EXCEPT ![r].undo = Tail(@),
                          ![r].undone = Append(@, [root |-> run[r].cur,
                                                   node |-> Head(run[r].undo)])]
    /\ UNCHANGED <<plan, status, leases, resuming, lost, leaked, counters>>

\* The second half of record_final_failure.
RecordFailure(r) ==
    /\ run[r].pc = "rollback" /\ run[r].undo = <<>>
    /\ LET n == run[r].cur
       IN  run' = [run EXCEPT ![r] =
                     Drained([run[r] EXCEPT !.results[n] = "Failed",
                                     !.tainted = PropagateTaint(Nodes, plan.deps, @, n),
                                     !.abort = @ \/ n \in plan.failFast])]
    /\ UNCHANGED <<plan, status, leases, resuming, lost, leaked, counters>>

-----------------------------------------------------------------------------
(***************************************************************************)
(* The environment: expiry, crashes, and approved reviews of a gate some   *)
(* run has paused at.  A resume takes no lease and leaves no mark that a   *)
(* later run would read.                                                   *)
(***************************************************************************)
LeaseLapses(s) ==
    /\ leases[s] # NoLease /\ ~leases[s].lapsed
    /\ Trouble
    /\ leases' = [leases EXCEPT ![s].lapsed = TRUE]
    /\ lost' = lost \cup {[run |-> leases[s].run, node |-> leases[s].node,
                           attempt |-> leases[s].attempt]}
    /\ UNCHANGED <<plan, status, run, resuming, leaked, resumes>>

Live(r) == run[r].pc \notin {"idle", "ended", "failed"}

Crash ==
    /\ Trouble
    /\ \E r \in Runs : Live(r)
    /\ run' = [r \in Runs |-> IF Live(r) THEN [run[r] EXCEPT !.pc = "failed", !.inflight = {},
                                                 !.queue = {}, !.undo = <<>>, !.cur = 0, !.have = 0]
                              ELSE run[r]]
    /\ resuming' = [n \in Nodes |-> 0]
    /\ UNCHANGED <<plan, status, leases, lost, leaked, resumes>>

\* Mutant of Resume: any paused node, review-gated or not.
ResumeAnyPaused(n) ==
    /\ resumes < MaxResumes /\ resumes' = resumes + 1
    /\ status = "approved"
    /\ \E r \in Runs : run[r].results[n] = "Paused"
    /\ resuming' = [resuming EXCEPT ![n] = @ + 1]
    /\ UNCHANGED <<plan, status, leases, run, lost, leaked, trouble>>

Resume(n) ==
    /\ resumes < MaxResumes /\ resumes' = resumes + 1
    /\ status = "approved"
    /\ n \in plan.review
    /\ \E r \in Runs : run[r].results[n] = "Paused"
    /\ resuming' = [resuming EXCEPT ![n] = @ + 1]
    /\ UNCHANGED <<plan, status, leases, run, lost, leaked, trouble>>

ResumeDone(n) ==
    /\ resuming[n] > 0
    /\ resuming' = [resuming EXCEPT ![n] = @ - 1]
    /\ UNCHANGED <<plan, status, leases, run, lost, leaked, counters>>

-----------------------------------------------------------------------------
\* What a run does by itself, its dispatches' returns included.
RunStep(r) ==
    \/ StopFailFast(r) \/ StopExhausted(r) \/ Wave(r)
    \/ ClaimScope(r) \/ ClaimConflict(r) \/ Spawn(r)
    \/ \E n \in Nodes : \/ Accept(r, n) \/ Reject(r, n) \/ Retry(r, n)
                        \/ \E refused \in BOOLEAN : Fail(r, n, refused)
    \/ Undo(r) \/ RecordFailure(r) \/ End(r)

Next ==
    \/ \E r \in Runs : \/ Start(r) \/ RunStep(r) \/ ClaimFault(r)
                       \/ \E n \in Nodes : Raise(r, n)
    \/ \E s \in Scopes : LeaseLapses(s)
    \/ Crash
    \/ \E n \in Nodes : Resume(n) \/ ResumeDone(n)

Fairness == \A r \in Runs : WF_vars(RunStep(r))

Spec == Init /\ [][Next]_vars /\ Fairness

-----------------------------------------------------------------------------
(***************************************************************************)
(* Every state component has its type; a run's cursor names the node it is *)
(* claiming, retrying or rolling back; the resume path dispatches only     *)
(* review-gated nodes, though manual acceptance pauses others.             *)
(***************************************************************************)
TypeOK ==
    /\ plan \in Plans
    /\ status \in {"approved", "succeeded", "failed"}
    /\ \A s \in Scopes :
         \/ leases[s] = NoLease
         \/ leases[s] \in [run : Runs, node : Nodes, attempt : Nat \ {0}, lapsed : BOOLEAN]
    /\ resuming \in [Nodes -> 0..MaxResumes] /\ \A n \in Nodes \ plan.review : resuming[n] = 0
    /\ \A r \in Runs :
         /\ run[r].pc \in {"idle", "loop", "claim", "retry", "drain", "rollback", "end",
                           "ended", "failed"}
         /\ run[r].lifecycle \in [Nodes -> Lifecycles]
         /\ run[r].results \in [Nodes -> Results]
         /\ run[r].attempts \in [Nodes -> Nat]
         /\ run[r].tainted \subseteq Nodes
         /\ run[r].abort \in BOOLEAN
         /\ run[r].queue \subseteq Nodes
         /\ run[r].inflight \subseteq Nodes
         /\ run[r].pc \in {"claim", "retry", "rollback"} <=> run[r].cur \in Nodes
         /\ run[r].have \in Nat

(***************************************************************************)
(* The leases are exactly the work.  A node whose dispatch is in flight    *)
(* holds every scope it claimed, whatever other runs claim, retry or       *)
(* release meanwhile, unless one of its own leases lapsed; and a scope is  *)
(* held only for a dispatch in flight or being claimed, unless its run     *)
(* died or its release failed (claiming.rs, claims.rs, retry.rs).          *)
(***************************************************************************)
LeasesMatchWork ==
    /\ \A r \in Runs : \A n \in run[r].inflight :
         ClaimOf(r, n) \notin lost =>
            \A i \in 1..Len(plan.scopes[n]) : HeldBy(plan.scopes[n][i], ClaimOf(r, n))
    /\ \A s \in Scopes : leases[s] # NoLease =>
         LET r == leases[s].run
             c == [run |-> r, node |-> leases[s].node, attempt |-> leases[s].attempt]
         IN  \/ c \in leaked \/ run[r].pc = "failed"
             \/ c = ClaimOf(r, c.node)
                /\ (c.node \in run[r].inflight \/ (Claiming(r) /\ c.node = run[r].cur))

(***************************************************************************)
(* A node is dispatched only after everything upstream of it, however far, *)
(* has succeeded and been accepted, so that an all_succeeded fan-in over   *)
(* ancestors is never what rejects it (bookkeeping.rs, fan_in.rs).         *)
(***************************************************************************)
RunsAfterAncestors ==
    \A r \in Runs : \A n \in Nodes :
        (n \in run[r].inflight \/ run[r].results[n] \in {"Succeeded", "Failed"}) =>
            \A a \in Ancestors(Nodes, plan.deps, n) : run[r].results[a] = "Succeeded"

(***************************************************************************)
(* The response of a run that ends accounts for every node: skipped as     *)
(* upstream-failed exactly behind a failure or a condition, without a      *)
(* result exactly behind nothing but a pause in a run that did not abort   *)
(* (skips.rs, gates.rs, scheduler.rs propagate_taint).                     *)
(***************************************************************************)
EveryNodeAccounted ==
    \A r \in Runs : run[r].pc \in {"end", "ended"} =>
        \A n \in Nodes :
            LET up == {run[r].results[a] : a \in Ancestors(Nodes, plan.deps, n)}
                behindFailure == up \cap {"Failed", "SkippedCondition"} # {}
            IN  /\ run[r].results[n] = "SkippedUpstream" <=> behindFailure
                /\ run[r].results[n] = "SkippedFailFast" => run[r].abort
                /\ run[r].results[n] = "none" <=>
                      "Paused" \in up /\ ~behindFailure /\ ~run[r].abort

(***************************************************************************)
(* The plan row never claims more than a run did: `succeeded' needs a run  *)
(* that finished every node, `failed' one in which a node failed, although *)
(* concurrent runs overwrite each other's status (outcome/execution.rs).   *)
(***************************************************************************)
PlanStatusEarned ==
    /\ status = "succeeded" =>
         \E r \in Runs : run[r].pc = "ended" /\ \A n \in Nodes : run[r].results[n] = "Succeeded"
    /\ status = "failed" =>
         \E r \in Runs : run[r].pc = "ended" /\ \E n \in Nodes : run[r].results[n] = "Failed"

(***************************************************************************)
(* The dry-run preview is a true prediction for a run in which every node  *)
(* succeeds: the wave loop launches exactly the waves that                 *)
(* compute_concurrency_plan announced, retries or not.                     *)
(***************************************************************************)
PreviewKept ==
    \A r \in Runs :
        (\A n \in Nodes : run[r].results[n] = "Succeeded") =>
            run[r].waves = ConcurrencyPlan(Nodes, plan.deps, MaxParallel)

(***************************************************************************)
(* A failed root is undone completely and in order: its own rollback, then *)
(* every compensation candidate once, none before one it must follow,      *)
(* except around a cycle of :rollback-after edges (cascade/ordering.rs).   *)
(***************************************************************************)
CompensatedInOrder ==
    \A r \in Runs : \A root \in plan.cascade : run[r].results[root] = "Failed" =>
        LET undone == run[r].undone
            mine == {i \in 1..Len(undone) : undone[i].root = root}
            own  == {i \in mine : root \in plan.rollback /\ \A j \in mine : i <= j}
            rest == mine \ own
            cand == plan.candidates[root]
            after == [n \in Nodes |-> IF n \in cand THEN plan.after[n] \cap cand ELSE {}]
        IN  /\ root \in plan.rollback => own # {}
            /\ \A i \in own : undone[i].node = root
            /\ {undone[i].node : i \in rest} = cand
            /\ \A i, j \in rest : undone[i].node = undone[j].node => i = j
            /\ \A n \in cand : \A m \in after[n] :
                 \/ \E i, j \in rest : i < j /\ undone[i].node = m /\ undone[j].node = n
                 \/ Cyclic(Nodes, after, m)

(***************************************************************************)
(* Once a fail-fast node has failed, its run begins no attempt of any      *)
(* node, be it a new wave or the retry of a sibling in flight (drain.rs,   *)
(* plan_node_should_retry).                                                *)
(***************************************************************************)
FailFastStops ==
    [][\A r \in Runs : run[r].abort => run'[r].attempts = run[r].attempts]_vars

(***************************************************************************)
(* A run that is started ends, with a response or with an error, whatever  *)
(* it is refused by other runs, as long as its dispatches return.          *)
(***************************************************************************)
RunEnds == \A r \in Runs : run[r].pc = "loop" ~> run[r].pc \in {"ended", "failed"}

(***************************************************************************)
(* plan_dag.rs:58 "In-flight nodes from the *current* wave are awaited so  *)
(* the caller still sees their final state — they are never abandoned      *)
(* mid-flight."                                                            *)
(***************************************************************************)
WaveNeverAbandoned ==
    [][\A r \in Runs : run'[r].pc = "failed" => run[r].inflight = {}]_vars
=============================================================================
