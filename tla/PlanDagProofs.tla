--------------------------- MODULE PlanDagProofs ---------------------------
(***************************************************************************)
(* The safety of the PLAN DAG runtime for every plan, every number of      *)
(* concurrent runs and every bound.  The invariant is established in       *)
(* layers: the shape of a run, the life of its nodes, taint, leases, waves *)
(* and rollbacks.                                                          *)
(***************************************************************************)
EXTENDS PlanDag, PlanGraphProofs

-----------------------------------------------------------------------------
(* The inductive invariant.                                                 *)

RunFields == {"pc", "lifecycle", "results", "attempts", "tainted", "abort", "queue",
              "cur", "have", "inflight", "undo", "undone", "waves"}

\* What a run is working on.  Only step 6 has a queue; a node is in one place
\* at a time; a run that has aborted neither claims nor retries.
CursorOK(q) ==
    /\ DOMAIN q = RunFields
    /\ q.pc = "claim" => q.cur \in q.queue
    /\ q.pc # "claim" => q.queue = {}
    /\ q.cur \notin q.inflight /\ q.queue \cap q.inflight = {}
    /\ q.inflight # {} => q.pc \in {"claim", "retry", "drain", "rollback"}
    /\ q.pc \in {"claim", "retry"} =>
         /\ q.have <= Len(plan.scopes[q.cur]) /\ q.attempts[q.cur] > 0 /\ ~q.abort
    /\ q.pc \in {"idle", "loop", "end", "ended"} => q.cur = 0

Lease == [run : Runs, node : Nodes, attempt : Nat \ {0}, lapsed : BOOLEAN]

ShapeInv ==
    /\ leases \in [Scopes -> {NoLease} \cup Lease]
    /\ DOMAIN run = Runs
    /\ trouble \in Nat /\ resumes \in 0..MaxResumes
    /\ \A n \in Nodes : resuming[n] <= resumes
    /\ \A r \in Runs : CursorOK(run[r])

\* Leases.  A node in flight holds all its scopes, the node a run is claiming
\* for the ones it has so far; what has lapsed is among the lost; a lease that
\* has not leaked backs work of its run, unless that run died.
Holds(l, x, n, a) == l.run = x /\ l.node = n /\ l.attempt = a

Held(x, n, k) ==
    ClaimOf(x, n) \notin lost =>
        \A i \in 1..k : Holds(leases[plan.scopes[n][i]], x, n, run[x].attempts[n])

WorkOf(x) ==
    /\ \A n \in run[x].inflight : Held(x, n, Len(plan.scopes[n]))
    /\ run[x].pc \in {"claim", "retry"} => Held(x, run[x].cur, run[x].have)

LeaseClaim(l) == [run |-> l.run, node |-> l.node, attempt |-> l.attempt]

Backs(q, n, a) ==
    \/ q.pc = "failed"
    \/ /\ q.attempts[n] = a
       /\ n \in q.inflight \/ (q.pc \in {"claim", "retry"} /\ n = q.cur)

Accounted(s) ==
    \/ leases[s] = NoLease
    \/ LeaseClaim(leases[s]) \in leaked
    \/ Backs(run[leases[s].run], leases[s].node, leases[s].attempt)

LeaseInv ==
    /\ \A x \in Runs : WorkOf(x)
    /\ \A s \in Scopes : leases[s].lapsed => LeaseClaim(leases[s]) \in lost
    /\ \A s \in Scopes : Accounted(s)

Skips == {"SkippedUpstream", "SkippedCondition", "SkippedFailFast"}

\* Lifecycle and result of a node, and where the run keeps it.
NodeOK(q, n) ==
    /\ q.lifecycle[n] \in {"Pending", "Claimed", "Running"} => q.results[n] = "none"
    /\ q.lifecycle[n] \in {"Succeeded", "Paused"} => q.results[n] = q.lifecycle[n]
    /\ q.lifecycle[n] = "Skipped" => q.results[n] \in Skips
    /\ q.lifecycle[n] = "Failed" =>
         \/ q.results[n] = "Failed"
         \/ q.results[n] = "none" /\ (q.pc = "failed" \/ (q.pc = "rollback" /\ q.cur = n))
    /\ q.lifecycle[n] = "Running" =>
         n \in q.inflight \/ (q.pc = "retry" /\ q.cur = n) \/ q.pc = "failed"
    /\ q.lifecycle[n] = "Claimed" =>
         (q.pc \in {"claim", "retry"} /\ q.cur = n) \/ q.pc = "failed"
    /\ n \in q.inflight => q.lifecycle[n] = "Running"
    /\ n \in q.queue => q.lifecycle[n] \in {"Pending", "Claimed"}
    /\ q.pc = "rollback" /\ q.cur = n => q.lifecycle[n] = "Failed" /\ q.results[n] = "none"
    /\ q.pc = "retry" /\ q.cur = n => q.lifecycle[n] \in {"Running", "Claimed"}

\* A node the scheduler has got to: its dependencies have succeeded.
Begun(q, n) ==
    \/ q.lifecycle[n] \in {"Claimed", "Running", "Succeeded", "Failed", "Paused"}
    \/ q.results[n] = "SkippedCondition"
    \/ n \in q.queue

Ordered(q) ==
    \A n \in Nodes : Begun(q, n) => \A d \in plan.deps[n] : q.results[d] = "Succeeded"

LifeInv == \A r \in Runs : Ordered(run[r]) /\ \A n \in Nodes : NodeOK(run[r], n)

Tainters == {"Failed", "SkippedCondition"}

\* Taint: everything behind a failure or a condition, and nothing else.
TaintOK(q) ==
    /\ \A n, m \in Nodes :
         n \in plan.deps[m] /\ (n \in q.tainted \/ q.results[n] \in Tainters) => m \in q.tainted
    /\ \A n \in q.tainted :
         \E a \in Ancestors(Nodes, plan.deps, n) : q.results[a] \in Tainters
    /\ \A n \in Nodes : q.results[n] = "SkippedUpstream" => n \in q.tainted
    /\ \A n \in Nodes : q.results[n] = "SkippedFailFast" =>
         q.abort /\ n \notin q.tainted /\ q.pc \in {"end", "ended", "failed"}
    /\ q.abort => \E n \in Nodes : q.results[n] = "Failed"

\* A run that has ended left no node behind that it could have run.
EndOK(q) ==
    q.pc \in {"end", "ended"} =>
        \A n \in Nodes : q.lifecycle[n] = "Pending" =>
            /\ n \notin q.tainted /\ ~q.abort
            /\ \E d \in plan.deps[n] : q.lifecycle[d] # "Succeeded"

TaintInv == \A r \in Runs : TaintOK(run[r]) /\ EndOK(run[r])

-----------------------------------------------------------------------------
(***************************************************************************)
(* What each step does to the run that takes it.                           *)
(***************************************************************************)
SameNodes(q1, q) == q1.lifecycle = q.lifecycle /\ q1.results = q.results
SameTaint(q1, q) == q1.tainted = q.tainted /\ q1.abort = q.abort
SameWork(q1, q)  == q1.queue = q.queue /\ q1.inflight = q.inflight /\ q1.attempts = q.attempts
SamePlace(q1, q) == q1.cur = q.cur /\ q1.have = q.have

\* The run r becomes q, the other runs stay.
Becomes(r, q) ==
    /\ DOMAIN run' = Runs /\ run'[r] = q
    /\ \A x \in Runs : x # r => run'[x] = run[x]

\* A run that dies: its dispatches are aborted, nothing else is touched.
Dies(q1, q) ==
    /\ DOMAIN q1 = RunFields
    /\ q1.pc = "failed" /\ q1.queue = {} /\ q1.inflight = {} /\ q1.cur = 0 /\ q1.have = 0
    /\ q1.attempts = q.attempts /\ q1.waves = q.waves
    /\ SameNodes(q1, q) /\ SameTaint(q1, q)

Ends(q1, q) ==
    /\ DOMAIN q1 = RunFields /\ q1.pc = "end" /\ q1.waves = q.waves
    /\ SameTaint(q1, q) /\ SameWork(q1, q) /\ SamePlace(q1, q)

\* A run whose claim loop turns to the next node, or to pc when none is left.
Turns(q1, queue, pc, q) ==
    /\ DOMAIN q1 = RunFields
    /\ q1.queue = queue /\ q1.have = 0 /\ q1.abort = q.abort
    /\ \/ queue = {} /\ q1.pc = pc /\ q1.cur = 0 /\ q1.attempts = q.attempts
       \/ /\ queue # {} /\ q1.pc = "claim" /\ q1.cur = Least(queue)
          /\ q1.attempts = [q.attempts EXCEPT ![Least(queue)] = @ + 1]

LEMMA EXCEPTFacts ==
    ASSUME DOMAIN run = Runs, NEW r \in Runs, NEW q, run' = [run EXCEPT ![r] = q]
    PROVE  Becomes(r, q)
  BY DEF Becomes

LEMMA StartFacts ==
    ASSUME ShapeInv, NEW r \in Runs, Start(r)
    PROVE  /\ Becomes(r, run'[r])
           /\ DOMAIN run'[r] = RunFields /\ run'[r].pc = "loop" /\ run'[r].waves = run[r].waves
           /\ SameNodes(run'[r], run[r]) /\ SameTaint(run'[r], run[r])
           /\ SameWork(run'[r], run[r]) /\ SamePlace(run'[r], run[r])
  <1>1. DOMAIN run = Runs /\ DOMAIN run[r] = RunFields
    BY DEF ShapeInv, CursorOK
  <1>2. run' = [run EXCEPT ![r] = [run[r] EXCEPT !.pc = "loop"]]
    BY DEF Start
  <1>3. QED
    BY <1>1, <1>2 DEF Becomes, RunFields, SameNodes, SameTaint, SameWork, SamePlace

LEMMA FailedFacts ==
    ASSUME ShapeInv, NEW r \in Runs, Failed(r)
    PROVE  Becomes(r, run'[r]) /\ Dies(run'[r], run[r])
  <1>1. DOMAIN run = Runs /\ DOMAIN run[r] = RunFields
    BY DEF ShapeInv, CursorOK
  <1>2. QED
    BY <1>1 DEF Failed, Becomes, Dies, RunFields, SameNodes, SameTaint

LEMMA CrashFacts ==
    ASSUME ShapeInv, Crash
    PROVE  /\ DOMAIN run' = Runs
           /\ \A r \in Runs : run'[r] = run[r] \/ (Live(r) /\ Dies(run'[r], run[r]))
  <1>1. DOMAIN run = Runs /\ \A r \in Runs : DOMAIN run[r] = RunFields
    BY DEF ShapeInv, CursorOK
  <1>2. QED
    BY <1>1 DEF Crash, Dies, RunFields, SameNodes, SameTaint

LEMMA EndFacts ==
    ASSUME ShapeInv, NEW r \in Runs, End(r)
    PROVE  /\ Becomes(r, run'[r])
           /\ DOMAIN run'[r] = RunFields /\ run'[r].pc = "ended" /\ run'[r].waves = run[r].waves
           /\ SameNodes(run'[r], run[r]) /\ SameTaint(run'[r], run[r])
           /\ SameWork(run'[r], run[r]) /\ SamePlace(run'[r], run[r])
  <1>1. DOMAIN run = Runs /\ DOMAIN run[r] = RunFields
    BY DEF ShapeInv, CursorOK
  <1>2. QED
    BY <1>1 DEF End, Becomes, RunFields, SameNodes, SameTaint, SameWork, SamePlace

\* Step 1 marks the tainted nodes that are pending.
SkippedLifecycle(r) == Mark(run[r].lifecycle, TaintedPending(r), "Skipped")
SkippedResults(r)   == Mark(run[r].results, TaintedPending(r), "SkippedUpstream")

LEMMA SkipTaintedFacts ==
    ASSUME NEW r, DOMAIN run[r] = RunFields
    PROVE  /\ DOMAIN SkipTainted(r) = RunFields
           /\ SkipTainted(r).lifecycle = SkippedLifecycle(r)
           /\ SkipTainted(r).results = SkippedResults(r)
           /\ SkipTainted(r).pc = run[r].pc /\ SkipTainted(r).waves = run[r].waves
           /\ SameTaint(SkipTainted(r), run[r]) /\ SameWork(SkipTainted(r), run[r])
           /\ SamePlace(SkipTainted(r), run[r])
  BY DEF SkipTainted, RunFields, SkippedLifecycle, SkippedResults, SameTaint, SameWork, SamePlace

LEMMA StopFailFastFacts ==
    ASSUME ShapeInv, NEW r \in Runs, StopFailFast(r)
    PROVE  /\ Becomes(r, run'[r]) /\ Ends(run'[r], run[r])
           /\ LET pending == {n \in Nodes : SkippedLifecycle(r)[n] = "Pending"}
              IN  /\ run'[r].lifecycle = Mark(SkippedLifecycle(r), pending, "Skipped")
                  /\ run'[r].results = Mark(SkippedResults(r), pending, "SkippedFailFast")
  <1> DEFINE q == SkipTainted(r)
  <1>1. DOMAIN run = Runs /\ DOMAIN run[r] = RunFields
    BY DEF ShapeInv, CursorOK
  <1>2. /\ DOMAIN q = RunFields /\ q.lifecycle = SkippedLifecycle(r)
        /\ q.results = SkippedResults(r) /\ q.waves = run[r].waves
        /\ SameTaint(q, run[r]) /\ SameWork(q, run[r]) /\ SamePlace(q, run[r])
    BY <1>1, SkipTaintedFacts
  <1> DEFINE pending == {n \in Nodes : q.lifecycle[n] = "Pending"}
             q1 == [q EXCEPT !.pc = "end", !.lifecycle = Mark(@, pending, "Skipped"),
                             !.results = Mark(@, pending, "SkippedFailFast")]
  <1>3. run' = [run EXCEPT ![r] = q1]
    BY DEF StopFailFast
  <1>4. Becomes(r, q1)
    <2> HIDE DEF q1
    <2>1. QED
      BY <1>1, <1>3, EXCEPTFacts
  <1> HIDE DEF q
  <1>5. /\ q1.lifecycle = Mark(SkippedLifecycle(r), pending, "Skipped")
        /\ q1.results = Mark(SkippedResults(r), pending, "SkippedFailFast")
        /\ pending = {n \in Nodes : SkippedLifecycle(r)[n] = "Pending"}
        /\ Ends(q1, run[r])
    BY <1>2 DEF RunFields, Ends, SameTaint, SameWork, SamePlace
  <1> HIDE DEF q1, pending
  <1>6. QED
    BY <1>4, <1>5 DEF Becomes

LEMMA StopExhaustedFacts ==
    ASSUME ShapeInv, NEW r \in Runs, StopExhausted(r)
    PROVE  /\ Becomes(r, run'[r]) /\ Ends(run'[r], run[r])
           /\ run'[r].lifecycle = SkippedLifecycle(r)
           /\ run'[r].results = SkippedResults(r)
  <1> DEFINE q == SkipTainted(r)
             q1 == [q EXCEPT !.pc = "end"]
  <1>1. DOMAIN run = Runs /\ DOMAIN run[r] = RunFields
    BY DEF ShapeInv, CursorOK
  <1>2. /\ DOMAIN q = RunFields /\ q.lifecycle = SkippedLifecycle(r)
        /\ q.results = SkippedResults(r) /\ q.waves = run[r].waves
        /\ SameTaint(q, run[r]) /\ SameWork(q, run[r]) /\ SamePlace(q, run[r])
    BY <1>1, SkipTaintedFacts
  <1>3. Becomes(r, q1)
    <2>1. run' = [run EXCEPT ![r] = q1]
      BY DEF StopExhausted
    <2> HIDE DEF q1
    <2>2. QED
      BY <1>1, <2>1, EXCEPTFacts
  <1> HIDE DEF q
  <1>4. q1.lifecycle = SkippedLifecycle(r) /\ q1.results = SkippedResults(r) /\ Ends(q1, run[r])
    BY <1>2 DEF RunFields, Ends, SameTaint, SameWork, SamePlace
  <1> HIDE DEF q1
  <1>5. QED
    BY <1>3, <1>4 DEF Becomes

LEMMA TurnFacts ==
    ASSUME NEW q, NEW pc, DOMAIN q = RunFields
    PROVE  /\ Turns(TurnToNext(q, pc), q.queue, pc, q)
           /\ SameNodes(TurnToNext(q, pc), q)
           /\ TurnToNext(q, pc).tainted = q.tainted
           /\ TurnToNext(q, pc).inflight = q.inflight
           /\ TurnToNext(q, pc).waves = q.waves
  <1>1. CASE q.queue = {}
    BY <1>1 DEF TurnToNext, Turns, RunFields, SameNodes
  <1>2. CASE q.queue # {}
    <2> DEFINE q1 == [q EXCEPT !.pc = "claim", !.cur = Least(q.queue), !.have = 0,
                               !.attempts[Least(q.queue)] = @ + 1]
    <2>1. TurnToNext(q, pc) = q1
      BY <1>2 DEF TurnToNext
    <2>2. /\ DOMAIN q1 = RunFields /\ q1.pc = "claim" /\ q1.cur = Least(q.queue) /\ q1.have = 0
          /\ q1.attempts = [q.attempts EXCEPT ![Least(q.queue)] = @ + 1]
          /\ q1.lifecycle = q.lifecycle /\ q1.results = q.results /\ q1.tainted = q.tainted
          /\ q1.abort = q.abort /\ q1.queue = q.queue /\ q1.inflight = q.inflight
          /\ q1.waves = q.waves
      BY DEF RunFields
    <2> HIDE DEF q1
    <2>3. QED
      BY <1>2, <2>1, <2>2 DEF Turns, SameNodes
  <1>3. QED
    BY <1>1, <1>2

\* Everything the conditions of a wave taint.
ConditionTaint(r) ==
    run[r].tainted \cup UNION {PropagateTaint(Nodes, plan.deps, run[r].tainted, c) :
                                 c \in Conditional(r)}

LEMMA WaveFacts ==
    ASSUME ShapeInv, NEW r \in Runs, Wave(r)
    PROVE  /\ Becomes(r, run'[r])
           /\ Turns(run'[r], ToDispatch(r), "loop", run[r])
           /\ run'[r].lifecycle = Mark(Mark(SkippedLifecycle(r), Conditional(r), "Skipped"),
                                       ReviewGated(r), "Paused")
           /\ run'[r].results = Mark(Mark(SkippedResults(r), Conditional(r), "SkippedCondition"),
                                     ReviewGated(r), "Paused")
           /\ run'[r].tainted = ConditionTaint(r)
           /\ run'[r].inflight = run[r].inflight
           /\ run'[r].waves = IF ToDispatch(r) = {} THEN run[r].waves
                              ELSE Append(run[r].waves, ToDispatch(r))
  <1> DEFINE q == SkipTainted(r)
             gated == [q EXCEPT
               !.lifecycle = Mark(Mark(@, Conditional(r), "Skipped"), ReviewGated(r), "Paused"),
               !.results = Mark(Mark(@, Conditional(r), "SkippedCondition"),
                                ReviewGated(r), "Paused"),
               !.tainted = @ \cup UNION {PropagateTaint(Nodes, plan.deps, @, c) :
                                           c \in Conditional(r)},
               !.queue = ToDispatch(r),
               !.waves = IF ToDispatch(r) = {} THEN @ ELSE Append(@, ToDispatch(r))]
  <1>1. DOMAIN run = Runs /\ DOMAIN run[r] = RunFields
    BY DEF ShapeInv, CursorOK
  <1>2. /\ DOMAIN q = RunFields /\ q.lifecycle = SkippedLifecycle(r)
        /\ q.results = SkippedResults(r) /\ q.waves = run[r].waves
        /\ SameTaint(q, run[r]) /\ SameWork(q, run[r]) /\ SamePlace(q, run[r])
    BY <1>1, SkipTaintedFacts
  <1>3. run' = [run EXCEPT ![r] = TurnToNext(gated, "loop")]
    BY DEF Wave
  <1> HIDE DEF q
  <1>4. /\ DOMAIN gated = RunFields
        /\ gated.lifecycle = Mark(Mark(q.lifecycle, Conditional(r), "Skipped"),
                                  ReviewGated(r), "Paused")
        /\ gated.results = Mark(Mark(q.results, Conditional(r), "SkippedCondition"),
                                ReviewGated(r), "Paused")
        /\ gated.tainted = q.tainted \cup UNION {PropagateTaint(Nodes, plan.deps, q.tainted, c) :
                                                   c \in Conditional(r)}
        /\ gated.queue = ToDispatch(r)
        /\ gated.waves = IF ToDispatch(r) = {} THEN q.waves ELSE Append(q.waves, ToDispatch(r))
        /\ gated.abort = q.abort /\ gated.inflight = q.inflight /\ gated.attempts = q.attempts
    BY <1>2, Zenon DEF RunFields
  <1> HIDE DEF gated
  <1> DEFINE q1 == TurnToNext(gated, "loop")
  <1>5. /\ Turns(q1, gated.queue, "loop", gated) /\ SameNodes(q1, gated)
        /\ q1.tainted = gated.tainted /\ q1.inflight = gated.inflight /\ q1.waves = gated.waves
    BY <1>4, TurnFacts
  <1> HIDE DEF q1
  <1>6. Becomes(r, q1) /\ run'[r] = q1
    BY <1>1, <1>3, EXCEPTFacts DEF q1, Becomes
  <1>7. Turns(q1, ToDispatch(r), "loop", run[r])
    BY <1>2, <1>4, <1>5 DEF Turns, SameTaint, SameWork
  <1>8. QED
    BY <1>2, <1>4, <1>5, <1>6, <1>7 DEF SameNodes, SameTaint, SameWork, ConditionTaint

LEMMA ClaimScopeFacts ==
    ASSUME ShapeInv, NEW r \in Runs, ClaimScope(r), run[r].lifecycle \in [Nodes -> Lifecycles]
    PROVE  /\ Becomes(r, run'[r])
           /\ DOMAIN run'[r] = RunFields /\ run'[r].have = run[r].have + 1
           /\ run'[r].lifecycle = [run[r].lifecycle EXCEPT ![run[r].cur] =
                 IF run[r].have + 1 = Len(plan.scopes[run[r].cur]) THEN "Claimed" ELSE @]
           /\ run'[r].pc = run[r].pc /\ run'[r].cur = run[r].cur /\ run'[r].results = run[r].results
           /\ run'[r].waves = run[r].waves
           /\ SameTaint(run'[r], run[r]) /\ SameWork(run'[r], run[r])
  <1>1. DOMAIN run = Runs /\ DOMAIN run[r] = RunFields
    BY DEF ShapeInv, CursorOK
  <1> DEFINE n == run[r].cur
             full == run[r].have + 1 = Len(plan.scopes[n])
             q1 == [run[r] EXCEPT !.have = @ + 1,
                                  !.lifecycle[n] = IF full THEN "Claimed" ELSE @]
  <1>2. run' = [run EXCEPT ![r] = q1]
    BY DEF ClaimScope
  <1>3. Becomes(r, q1)
    <2> HIDE DEF q1
    <2>1. QED
      BY <1>1, <1>2, EXCEPTFacts
  <1>4. /\ DOMAIN q1 = RunFields /\ q1.have = run[r].have + 1
        /\ q1.lifecycle = [run[r].lifecycle EXCEPT ![n] = IF full THEN "Claimed" ELSE @]
        /\ q1.pc = run[r].pc /\ q1.cur = run[r].cur /\ q1.results = run[r].results
        /\ q1.waves = run[r].waves
        /\ SameTaint(q1, run[r]) /\ SameWork(q1, run[r])
    BY <1>1 DEF RunFields, SameTaint, SameWork
  <1> HIDE DEF q1
  <1>5. QED
    BY <1>3, <1>4 DEF Becomes

LEMMA SpawnFacts ==
    ASSUME ShapeInv, NEW r \in Runs, Spawn(r)
    PROVE  /\ Becomes(r, run'[r])
           /\ Turns(run'[r], run[r].queue \ {run[r].cur}, "drain", run[r])
           /\ run'[r].lifecycle = [run[r].lifecycle EXCEPT ![run[r].cur] = "Running"]
           /\ run'[r].inflight = run[r].inflight \cup {run[r].cur}
           /\ run'[r].results = run[r].results /\ run'[r].waves = run[r].waves
           /\ SameTaint(run'[r], run[r])
  <1>1. DOMAIN run = Runs /\ DOMAIN run[r] = RunFields
    BY DEF ShapeInv, CursorOK
  <1> DEFINE n == run[r].cur
             q == [run[r] EXCEPT !.lifecycle[n] = "Running", !.inflight = @ \cup {n},
                                 !.queue = @ \ {n}]
             q1 == TurnToNext(q, "drain")
  <1>2. run' = [run EXCEPT ![r] = q1]
    BY DEF Spawn
  <1>3. /\ DOMAIN q = RunFields /\ q.lifecycle = [run[r].lifecycle EXCEPT ![n] = "Running"]
        /\ q.inflight = run[r].inflight \cup {n} /\ q.queue = run[r].queue \ {n}
        /\ q.results = run[r].results /\ q.attempts = run[r].attempts
        /\ q.waves = run[r].waves /\ SameTaint(q, run[r])
    BY <1>1 DEF RunFields, SameTaint
  <1> HIDE DEF q
  <1>4. /\ Turns(q1, q.queue, "drain", q) /\ SameNodes(q1, q)
        /\ q1.tainted = q.tainted /\ q1.inflight = q.inflight /\ q1.waves = q.waves
    BY <1>3, TurnFacts
  <1> HIDE DEF q1
  <1>5. Becomes(r, q1) /\ run'[r] = q1
    BY <1>1, <1>2, EXCEPTFacts DEF Becomes
  <1>6. QED
    BY <1>3, <1>4, <1>5 DEF Turns, SameNodes, SameTaint

\* A drain that has dealt with one dispatch.
DrainsOn(q1, inflight) ==
    /\ DOMAIN q1 = RunFields /\ q1.inflight = inflight
    /\ q1.pc = (IF inflight = {} THEN "loop" ELSE "drain")
    /\ q1.cur = 0 /\ q1.have = 0

LEMMA DrainedFacts ==
    ASSUME NEW q, DOMAIN q = RunFields
    PROVE  /\ DrainsOn(Drained(q), q.inflight)
           /\ SameNodes(Drained(q), q) /\ SameTaint(Drained(q), q)
           /\ Drained(q).queue = q.queue /\ Drained(q).attempts = q.attempts
           /\ Drained(q).waves = q.waves
  BY DEF Drained, DrainsOn, RunFields, SameNodes, SameTaint

LEMMA AcceptFacts ==
    ASSUME ShapeInv, NEW r \in Runs, NEW n \in Nodes, Accept(r, n)
    PROVE  \E verdict \in {"Succeeded", "Paused"} :
              /\ Becomes(r, run'[r]) /\ DrainsOn(run'[r], run[r].inflight \ {n})
              /\ run'[r].lifecycle = [run[r].lifecycle EXCEPT ![n] = verdict]
              /\ run'[r].results = [run[r].results EXCEPT ![n] = verdict]
              /\ run'[r].queue = run[r].queue /\ run'[r].attempts = run[r].attempts
              /\ run'[r].waves = run[r].waves /\ SameTaint(run'[r], run[r])
              /\ verdict = "Paused" <=> plan.acceptance[n] = "manual"
  <1>1. DOMAIN run = Runs /\ DOMAIN run[r] = RunFields
    BY DEF ShapeInv, CursorOK
  <1> DEFINE q(v) == [run[r] EXCEPT !.lifecycle[n] = v, !.results[n] = v, !.inflight = @ \ {n}]
  <1>2. PICK v \in Verdicts(r, n) \ {"Failed"} : run' = [run EXCEPT ![r] = Drained(q(v))]
    BY Zenon DEF Accept
  <1>3. v \in {"Succeeded", "Paused"} /\ (v = "Paused" <=> plan.acceptance[n] = "manual")
    BY <1>2 DEF Verdicts
  <1>4. /\ DOMAIN q(v) = RunFields /\ q(v).lifecycle = [run[r].lifecycle EXCEPT ![n] = v]
        /\ q(v).results = [run[r].results EXCEPT ![n] = v]
        /\ q(v).inflight = run[r].inflight \ {n} /\ q(v).queue = run[r].queue
        /\ q(v).attempts = run[r].attempts /\ q(v).waves = run[r].waves
        /\ SameTaint(q(v), run[r])
    BY <1>1 DEF RunFields, SameTaint
  <1> HIDE DEF q
  <1>5. Becomes(r, Drained(q(v))) /\ run'[r] = Drained(q(v))
    BY <1>1, <1>2, EXCEPTFacts DEF Becomes
  <1>6. /\ DrainsOn(Drained(q(v)), q(v).inflight)
        /\ SameNodes(Drained(q(v)), q(v)) /\ SameTaint(Drained(q(v)), q(v))
        /\ Drained(q(v)).queue = q(v).queue /\ Drained(q(v)).attempts = q(v).attempts
        /\ Drained(q(v)).waves = q(v).waves
    BY <1>4, DrainedFacts
  <1>7. QED
    BY <1>3, <1>4, <1>5, <1>6, Zenon DEF SameNodes, SameTaint

LEMMA FinalFailureFacts ==
    ASSUME ShapeInv, NEW r \in Runs, NEW n \in Nodes, FinalFailure(r, n)
    PROVE  /\ Becomes(r, run'[r])
           /\ DOMAIN run'[r] = RunFields /\ run'[r].pc = "rollback" /\ run'[r].cur = n
           /\ run'[r].lifecycle = [run[r].lifecycle EXCEPT ![n] = "Failed"]
           /\ run'[r].inflight = run[r].inflight \ {n}
           /\ run'[r].results = run[r].results /\ run'[r].queue = run[r].queue
           /\ run'[r].attempts = run[r].attempts /\ run'[r].have = run[r].have
           /\ run'[r].waves = run[r].waves /\ SameTaint(run'[r], run[r])
  <1>1. DOMAIN run = Runs /\ DOMAIN run[r] = RunFields
    BY DEF ShapeInv, CursorOK
  <1>2. /\ Becomes(r, run'[r])
        /\ DOMAIN run'[r] = RunFields /\ run'[r].pc = "rollback" /\ run'[r].cur = n
        /\ run'[r].lifecycle = [run[r].lifecycle EXCEPT ![n] = "Failed"]
        /\ run'[r].inflight = run[r].inflight \ {n}
    BY <1>1 DEF FinalFailure, RunFields, Becomes
  <1>3. /\ run'[r].results = run[r].results /\ run'[r].queue = run[r].queue
        /\ run'[r].attempts = run[r].attempts /\ run'[r].have = run[r].have
        /\ run'[r].waves = run[r].waves /\ SameTaint(run'[r], run[r])
    BY <1>1 DEF FinalFailure, RunFields, SameTaint
  <1>4. QED
    BY <1>2, <1>3

LEMMA RetryFacts ==
    ASSUME ShapeInv, NEW r \in Runs, NEW n \in Nodes, Retry(r, n)
    PROVE  /\ Becomes(r, run'[r])
           /\ DOMAIN run'[r] = RunFields /\ run'[r].pc = "retry" /\ run'[r].cur = n
           /\ run'[r].have = 0
           /\ run'[r].attempts = [run[r].attempts EXCEPT ![n] = @ + 1]
           /\ run'[r].inflight = run[r].inflight \ {n}
           /\ run'[r].queue = run[r].queue /\ run'[r].waves = run[r].waves
           /\ SameNodes(run'[r], run[r]) /\ SameTaint(run'[r], run[r])
  <1>1. DOMAIN run = Runs /\ DOMAIN run[r] = RunFields
    BY DEF ShapeInv, CursorOK
  <1>2. /\ Becomes(r, run'[r])
        /\ DOMAIN run'[r] = RunFields /\ run'[r].pc = "retry" /\ run'[r].cur = n
        /\ run'[r].have = 0
        /\ run'[r].attempts = [run[r].attempts EXCEPT ![n] = @ + 1]
    BY <1>1 DEF Retry, RunFields, Becomes
  <1>3. /\ run'[r].inflight = run[r].inflight \ {n}
        /\ run'[r].queue = run[r].queue /\ run'[r].waves = run[r].waves
        /\ SameNodes(run'[r], run[r]) /\ SameTaint(run'[r], run[r])
    BY <1>1 DEF Retry, RunFields, SameNodes, SameTaint
  <1>4. QED
    BY <1>2, <1>3

LEMMA UndoFacts ==
    ASSUME ShapeInv, NEW r \in Runs, Undo(r)
    PROVE  /\ Becomes(r, run'[r])
           /\ DOMAIN run'[r] = RunFields /\ run'[r].pc = run[r].pc /\ run'[r].waves = run[r].waves
           /\ SameNodes(run'[r], run[r]) /\ SameTaint(run'[r], run[r])
           /\ SameWork(run'[r], run[r]) /\ SamePlace(run'[r], run[r])
  <1>1. DOMAIN run = Runs /\ DOMAIN run[r] = RunFields
    BY DEF ShapeInv, CursorOK
  <1> DEFINE q1 == [run[r] EXCEPT !.undo = Tail(@),
                                  !.undone = Append(@, [root |-> run[r].cur,
                                                        node |-> Head(run[r].undo)])]
  <1>2. run' = [run EXCEPT ![r] = q1]
    BY DEF Undo
  <1>3. Becomes(r, q1) /\ run'[r] = q1
    <2> HIDE DEF q1
    <2>1. QED
      BY <1>1, <1>2, EXCEPTFacts DEF Becomes
  <1>4. /\ DOMAIN q1 = RunFields /\ q1.pc = run[r].pc /\ q1.waves = run[r].waves
        /\ SameNodes(q1, run[r]) /\ SameTaint(q1, run[r])
        /\ SameWork(q1, run[r]) /\ SamePlace(q1, run[r])
    BY <1>1 DEF RunFields, SameNodes, SameTaint, SameWork, SamePlace
  <1> HIDE DEF q1
  <1>5. QED
    BY <1>3, <1>4

LEMMA RecordFailureFacts ==
    ASSUME ShapeInv, NEW r \in Runs, RecordFailure(r)
    PROVE  /\ Becomes(r, run'[r]) /\ DrainsOn(run'[r], run[r].inflight)
           /\ run'[r].lifecycle = run[r].lifecycle
           /\ run'[r].results = [run[r].results EXCEPT ![run[r].cur] = "Failed"]
           /\ run'[r].tainted = PropagateTaint(Nodes, plan.deps, run[r].tainted, run[r].cur)
           /\ run'[r].abort = (run[r].abort \/ run[r].cur \in plan.failFast)
           /\ run'[r].queue = run[r].queue /\ run'[r].attempts = run[r].attempts
           /\ run'[r].waves = run[r].waves
  <1>1. DOMAIN run = Runs /\ DOMAIN run[r] = RunFields
    BY DEF ShapeInv, CursorOK
  <1> DEFINE n == run[r].cur
             q == [run[r] EXCEPT !.results[n] = "Failed",
                                 !.tainted = PropagateTaint(Nodes, plan.deps, @, n),
                                 !.abort = @ \/ n \in plan.failFast]
  <1>2. run' = [run EXCEPT ![r] = Drained(q)]
    BY Zenon DEF RecordFailure
  <1>3. /\ DOMAIN q = RunFields /\ q.results = [run[r].results EXCEPT ![n] = "Failed"]
        /\ q.tainted = PropagateTaint(Nodes, plan.deps, run[r].tainted, n)
        /\ q.abort = (run[r].abort \/ n \in plan.failFast)
        /\ q.lifecycle = run[r].lifecycle /\ q.inflight = run[r].inflight
        /\ q.queue = run[r].queue /\ q.attempts = run[r].attempts /\ q.waves = run[r].waves
    BY <1>1, Zenon DEF RunFields
  <1> HIDE DEF q
  <1>4. Becomes(r, Drained(q)) /\ run'[r] = Drained(q)
    BY <1>1, <1>2, EXCEPTFacts DEF Becomes
  <1>5. /\ DrainsOn(Drained(q), q.inflight)
        /\ SameNodes(Drained(q), q) /\ SameTaint(Drained(q), q)
        /\ Drained(q).queue = q.queue /\ Drained(q).attempts = q.attempts
        /\ Drained(q).waves = q.waves
    BY <1>3, DrainedFacts
  <1>6. QED
    BY <1>3, <1>4, <1>5, Zenon DEF SameNodes, SameTaint

-----------------------------------------------------------------------------
(***************************************************************************)
(* Layer 1: types, and the shape of a run.                                 *)
(***************************************************************************)
\* The part of TypeOK about one run.
RunTyped(q) ==
    /\ q.pc \in {"idle", "loop", "claim", "retry", "drain", "rollback", "end",
                 "ended", "failed"}
    /\ q.lifecycle \in [Nodes -> Lifecycles]
    /\ q.results \in [Nodes -> Results]
    /\ q.attempts \in [Nodes -> Nat]
    /\ q.tainted \subseteq Nodes
    /\ q.abort \in BOOLEAN
    /\ q.queue \subseteq Nodes
    /\ q.inflight \subseteq Nodes
    /\ q.pc \in {"claim", "retry", "rollback"} <=> q.cur \in Nodes
    /\ q.have \in Nat

GoodRun(q) == RunTyped(q) /\ CursorOK(q)

LEMMA PlanFacts ==
    ASSUME plan \in Plans
    PROVE  /\ plan.deps \in [Nodes -> SUBSET Nodes]
           /\ Acyclic(Nodes, plan.deps)
           /\ plan.scopes \in [Nodes -> Seq(Scopes) \ {<<>>}]
           /\ plan.condition \subseteq Nodes /\ plan.review \subseteq Nodes
           /\ plan.failFast \subseteq Nodes
           /\ plan.acceptance \in [Nodes -> {"none", "check", "manual"}]
  BY PlanDagAssumption DEF IsPlan

LEMMA NodeFacts ==
    /\ IsFiniteSet(Nodes) /\ Nodes \in SUBSET Nat /\ 0 \notin Nodes
    /\ \A S \in SUBSET Nodes : S # {} => Least(S) \in S
  BY PlanDagAssumption, LeastFacts

LEMMA MarkFacts ==
    ASSUME NEW X, NEW f \in [Nodes -> X], NEW S, NEW v \in X
    PROVE  /\ Mark(f, S, v) \in [Nodes -> X]
           /\ \A n \in Nodes : Mark(f, S, v)[n] = IF n \in S THEN v ELSE f[n]
  BY DEF Mark

LEMMA SkipTyped ==
    ASSUME NEW r \in Runs, RunTyped(run[r])
    PROVE  /\ SkippedLifecycle(r) \in [Nodes -> Lifecycles]
           /\ SkippedResults(r) \in [Nodes -> Results]
           /\ \A n \in Nodes :
                /\ SkippedLifecycle(r)[n] =
                     IF n \in TaintedPending(r) THEN "Skipped" ELSE run[r].lifecycle[n]
                /\ SkippedResults(r)[n] =
                     IF n \in TaintedPending(r) THEN "SkippedUpstream" ELSE run[r].results[n]
  BY DEF SkippedLifecycle, SkippedResults, RunTyped, Lifecycles, Results, Mark

LEMMA StopGood ==
    ASSUME TypeOK, ShapeInv, NEW r \in Runs, GoodRun(run[r]),
           StopFailFast(r) \/ StopExhausted(r)
    PROVE  Becomes(r, run'[r]) /\ GoodRun(run'[r])
  <1>1. /\ SkippedLifecycle(r) \in [Nodes -> Lifecycles]
        /\ SkippedResults(r) \in [Nodes -> Results]
    BY SkipTyped DEF GoodRun
  <1>2. run[r].pc = "loop" /\ Becomes(r, run'[r]) /\ Ends(run'[r], run[r])
    BY StopFailFastFacts, StopExhaustedFacts DEF StopFailFast, StopExhausted
  <1>3. run'[r].lifecycle \in [Nodes -> Lifecycles] /\ run'[r].results \in [Nodes -> Results]
    <2>1. CASE StopFailFast(r)
      <3> DEFINE pending == {n \in Nodes : SkippedLifecycle(r)[n] = "Pending"}
      <3>1. /\ run'[r].lifecycle = Mark(SkippedLifecycle(r), pending, "Skipped")
            /\ run'[r].results = Mark(SkippedResults(r), pending, "SkippedFailFast")
        BY <2>1, StopFailFastFacts
      <3>2. "Skipped" \in Lifecycles /\ "SkippedFailFast" \in Results
        BY DEF Lifecycles, Results
      <3> HIDE DEF pending
      <3>3. QED
        BY <1>1, <3>1, <3>2, MarkFacts
    <2>2. CASE StopExhausted(r)
      BY <1>1, <2>2, StopExhaustedFacts
    <2>3. QED
      BY <2>1, <2>2
  <1>4. QED
    BY <1>2, <1>3, NodeFacts
    DEF GoodRun, RunTyped, CursorOK, Ends, SameTaint, SameWork, SamePlace

LEMMA TurnGood ==
    ASSUME NEW q, NEW q1, NEW queue, NEW pc, plan \in Plans, RunTyped(q), Turns(q1, queue, pc, q),
           q1.lifecycle \in [Nodes -> Lifecycles], q1.results \in [Nodes -> Results],
           q1.tainted \subseteq Nodes, q1.inflight \subseteq Nodes, queue \subseteq Nodes,
           queue \cap q1.inflight = {}, ~q.abort, pc \in {"loop", "drain"},
           pc = "loop" => q1.inflight = {}
    PROVE  GoodRun(q1)
  <1>1. \A n \in Nodes : Len(plan.scopes[n]) \in Nat
    BY PlanFacts
  <1>2. q.attempts \in [Nodes -> Nat] /\ q.abort \in BOOLEAN
    BY DEF RunTyped
  <1>3. CASE queue = {}
    BY <1>2, <1>3, NodeFacts DEF Turns, GoodRun, RunTyped, CursorOK
  <1>4. CASE queue # {}
    <2>1. Least(queue) \in queue /\ Least(queue) \in Nodes
      BY <1>4, NodeFacts
    <2>2. /\ q1.attempts = [q.attempts EXCEPT ![Least(queue)] = @ + 1]
          /\ q1.pc = "claim" /\ q1.cur = Least(queue) /\ q1.have = 0 /\ q1.queue = queue
          /\ q1.abort = q.abort /\ DOMAIN q1 = RunFields
      BY <1>4 DEF Turns
    <2>3. q1.attempts \in [Nodes -> Nat] /\ q1.attempts[Least(queue)] > 0
      BY <1>2, <2>1, <2>2
    <2>4. RunTyped(q1)
      BY <1>2, <2>1, <2>2, <2>3 DEF RunTyped
    <2>5. q1.cur \in Nodes /\ q1.have <= Len(plan.scopes[q1.cur])
      BY <1>1, <2>1, <2>2
    <2>6. CursorOK(q1)
      BY <2>1, <2>2, <2>3, <2>5 DEF CursorOK
    <2>7. QED
      BY <2>4, <2>6 DEF GoodRun
  <1>5. QED
    BY <1>3, <1>4

LEMMA WaveTyped ==
    ASSUME plan \in Plans, NEW r \in Runs, RunTyped(run[r])
    PROVE  /\ Ready(r) \subseteq Nodes /\ Examined(r) \subseteq Ready(r)
           /\ Conditional(r) \subseteq Examined(r) /\ ReviewGated(r) \subseteq Examined(r)
           /\ ToDispatch(r) \subseteq Examined(r)
           /\ ConditionTaint(r) \subseteq Nodes
  <1>1. /\ Ready(r) \subseteq Nodes /\ Examined(r) \subseteq Ready(r)
        /\ Conditional(r) \subseteq Examined(r) /\ ReviewGated(r) \subseteq Examined(r)
        /\ ToDispatch(r) \subseteq Examined(r)
    BY DEF Ready, Examined, Conditional, ReviewGated, ToDispatch
  <1>2. \A c \in Conditional(r) :
           PropagateTaint(Nodes, plan.deps, run[r].tainted, c) \in SUBSET Nodes
    BY <1>1, PlanFacts, NodeFacts, TaintTyped DEF RunTyped
  <1>3. QED
    BY <1>1, <1>2 DEF ConditionTaint, RunTyped

LEMMA WaveGood ==
    ASSUME TypeOK, ShapeInv, NEW r \in Runs, GoodRun(run[r]), Wave(r)
    PROVE  Becomes(r, run'[r]) /\ GoodRun(run'[r])
  <1>1. plan \in Plans /\ RunTyped(run[r])
    BY DEF TypeOK, GoodRun
  <1>2. /\ SkippedLifecycle(r) \in [Nodes -> Lifecycles]
        /\ SkippedResults(r) \in [Nodes -> Results]
    BY <1>1, SkipTyped
  <1>3. /\ Becomes(r, run'[r]) /\ Turns(run'[r], ToDispatch(r), "loop", run[r])
        /\ run'[r].tainted = ConditionTaint(r) /\ run'[r].inflight = run[r].inflight
    BY WaveFacts
  <1>4. /\ "Skipped" \in Lifecycles /\ "Paused" \in Lifecycles
        /\ "SkippedCondition" \in Results /\ "Paused" \in Results
    BY DEF Lifecycles, Results
  <1>5. run'[r].lifecycle \in [Nodes -> Lifecycles] /\ run'[r].results \in [Nodes -> Results]
    <2> DEFINE L == Mark(SkippedLifecycle(r), Conditional(r), "Skipped")
               R == Mark(SkippedResults(r), Conditional(r), "SkippedCondition")
    <2>1. L \in [Nodes -> Lifecycles] /\ R \in [Nodes -> Results]
      <3>1. L \in [Nodes -> Lifecycles]
        BY <1>2, <1>4 DEF Mark
      <3>2. R \in [Nodes -> Results]
        BY <1>2, <1>4 DEF Mark
      <3>3. QED
        BY <3>1, <3>2
    <2>2. /\ run'[r].lifecycle = Mark(L, ReviewGated(r), "Paused")
          /\ run'[r].results = Mark(R, ReviewGated(r), "Paused")
      BY WaveFacts
    <2> HIDE DEF L, R
    <2>3. QED
      BY <1>4, <2>1, <2>2, MarkFacts
  <1>6. ToDispatch(r) \subseteq Nodes /\ ConditionTaint(r) \subseteq Nodes
    BY <1>1, WaveTyped
  <1>7. run[r].inflight = {} /\ ~run[r].abort
    BY DEF Wave, GoodRun, CursorOK
  <1>8. GoodRun(run'[r])
    BY <1>1, <1>3, <1>5, <1>6, <1>7, TurnGood
  <1>9. QED
    BY <1>3, <1>8

LEMMA DiesGood ==
    ASSUME NEW q, NEW q1, RunTyped(q), Dies(q1, q)
    PROVE  GoodRun(q1)
  BY NodeFacts DEF GoodRun, RunTyped, CursorOK, Dies, SameNodes, SameTaint

\* A run that moves to another point and keeps everything else.
LEMMA MovesGood ==
    ASSUME TypeOK, ShapeInv, NEW r \in Runs, GoodRun(run[r]), Start(r) \/ End(r) \/ Undo(r)
    PROVE  Becomes(r, run'[r]) /\ GoodRun(run'[r])
  <1>1. /\ Becomes(r, run'[r]) /\ DOMAIN run'[r] = RunFields
        /\ SameNodes(run'[r], run[r]) /\ SameTaint(run'[r], run[r])
        /\ SameWork(run'[r], run[r]) /\ SamePlace(run'[r], run[r])
    BY StartFacts, EndFacts, UndoFacts
  <1>2. \/ run[r].pc = "idle" /\ run'[r].pc = "loop"
        \/ run[r].pc = "end" /\ run'[r].pc = "ended"
        \/ run[r].pc = "rollback" /\ run'[r].pc = "rollback"
    BY StartFacts, EndFacts, UndoFacts DEF Start, End, Undo
  <1>3. GoodRun(run'[r])
    BY <1>1, <1>2 DEF GoodRun, RunTyped, CursorOK, SameNodes, SameTaint, SameWork, SamePlace
  <1>4. QED
    BY <1>1, <1>3

LEMMA ClaimScopeGood ==
    ASSUME TypeOK, ShapeInv, NEW r \in Runs, GoodRun(run[r]), ClaimScope(r)
    PROVE  Becomes(r, run'[r]) /\ GoodRun(run'[r])
  <1>1. run[r].lifecycle \in [Nodes -> Lifecycles] /\ plan \in Plans
    BY DEF GoodRun, RunTyped, TypeOK
  <1>2. /\ Becomes(r, run'[r])
        /\ DOMAIN run'[r] = RunFields /\ run'[r].have = run[r].have + 1
        /\ run'[r].lifecycle = [run[r].lifecycle EXCEPT ![run[r].cur] =
              IF run[r].have + 1 = Len(plan.scopes[run[r].cur]) THEN "Claimed" ELSE @]
        /\ run'[r].pc = run[r].pc /\ run'[r].cur = run[r].cur /\ run'[r].results = run[r].results
        /\ SameTaint(run'[r], run[r]) /\ SameWork(run'[r], run[r])
    BY <1>1, ClaimScopeFacts
  <1>3. /\ run[r].pc \in {"claim", "retry"} /\ run[r].cur \in Nodes /\ run[r].have \in Nat
        /\ run[r].have < Len(plan.scopes[run[r].cur])
    BY DEF ClaimScope, Claiming, GoodRun, RunTyped
  <1>4. Len(plan.scopes[run[r].cur]) \in Nat
    BY <1>1, <1>3, PlanFacts
  <1>5. run'[r].have \in Nat /\ run'[r].have <= Len(plan.scopes[run'[r].cur])
    BY <1>2, <1>3, <1>4
  <1>6. run'[r].lifecycle \in [Nodes -> Lifecycles]
    <2>1. "Claimed" \in Lifecycles
      BY DEF Lifecycles
    <2>2. QED
      BY <1>1, <1>2, <2>1
  <1>7. RunTyped(run'[r])
    BY <1>2, <1>5, <1>6 DEF GoodRun, RunTyped, SameTaint, SameWork
  <1>8. CursorOK(run'[r])
    BY <1>2, <1>3, <1>5 DEF GoodRun, CursorOK, SameTaint, SameWork
  <1>9. QED
    BY <1>2, <1>7, <1>8 DEF GoodRun

LEMMA SpawnGood ==
    ASSUME TypeOK, ShapeInv, NEW r \in Runs, GoodRun(run[r]), Spawn(r)
    PROVE  Becomes(r, run'[r]) /\ GoodRun(run'[r])
  <1>1. /\ Becomes(r, run'[r])
        /\ Turns(run'[r], run[r].queue \ {run[r].cur}, "drain", run[r])
        /\ run'[r].lifecycle = [run[r].lifecycle EXCEPT ![run[r].cur] = "Running"]
        /\ run'[r].inflight = run[r].inflight \cup {run[r].cur}
        /\ run'[r].results = run[r].results
        /\ SameTaint(run'[r], run[r])
    BY SpawnFacts
  <1>2. /\ run[r].cur \in Nodes /\ run[r].queue \cap run[r].inflight = {} /\ ~run[r].abort
        /\ run[r].queue \subseteq Nodes /\ run[r].inflight \subseteq Nodes
        /\ run[r].tainted \subseteq Nodes
        /\ run[r].lifecycle \in [Nodes -> Lifecycles] /\ run[r].results \in [Nodes -> Results]
    BY DEF Spawn, Claiming, GoodRun, RunTyped, CursorOK
  <1>3. run'[r].lifecycle \in [Nodes -> Lifecycles]
    BY <1>1, <1>2 DEF Lifecycles
  <1>4. plan \in Plans /\ RunTyped(run[r])
    BY DEF TypeOK, GoodRun
  <1>5. (run[r].queue \ {run[r].cur}) \cap run'[r].inflight = {}
    BY <1>1, <1>2
  <1>6. /\ run'[r].results \in [Nodes -> Results] /\ run'[r].tainted \subseteq Nodes
        /\ run'[r].inflight \subseteq Nodes /\ run[r].queue \ {run[r].cur} \subseteq Nodes
    BY <1>1, <1>2 DEF SameTaint
  <1>7. GoodRun(run'[r])
    BY <1>1, <1>2, <1>3, <1>4, <1>5, <1>6, TurnGood
  <1>8. QED
    BY <1>1, <1>7

LEMMA DrainingFacts ==
    ASSUME NEW r \in Runs, NEW n \in Nodes, GoodRun(run[r]), Draining(r, n)
    PROVE  run[r].pc = "drain" /\ n \in run[r].inflight /\ run[r].queue = {}
  BY DEF GoodRun, CursorOK, Draining

LEMMA AcceptGood ==
    ASSUME TypeOK, ShapeInv, NEW r \in Runs, NEW n \in Nodes, GoodRun(run[r]), Accept(r, n)
    PROVE  Becomes(r, run'[r]) /\ GoodRun(run'[r])
  <1>1. PICK verdict \in {"Succeeded", "Paused"} :
              /\ Becomes(r, run'[r]) /\ DrainsOn(run'[r], run[r].inflight \ {n})
              /\ run'[r].lifecycle = [run[r].lifecycle EXCEPT ![n] = verdict]
              /\ run'[r].results = [run[r].results EXCEPT ![n] = verdict]
              /\ run'[r].queue = run[r].queue /\ run'[r].attempts = run[r].attempts
              /\ SameTaint(run'[r], run[r])
    BY AcceptFacts
  <1>2. run[r].queue = {}
    BY DrainingFacts DEF Accept
  <1>3. run'[r].lifecycle \in [Nodes -> Lifecycles] /\ run'[r].results \in [Nodes -> Results]
    BY <1>1 DEF GoodRun, RunTyped, Lifecycles, Results
  <1>4. QED
    BY <1>1, <1>2, <1>3, NodeFacts DEF GoodRun, RunTyped, CursorOK, DrainsOn, SameTaint

LEMMA FinalFailureGood ==
    ASSUME TypeOK, ShapeInv, NEW r \in Runs, NEW n \in Nodes, GoodRun(run[r]), Draining(r, n),
           FinalFailure(r, n)
    PROVE  Becomes(r, run'[r]) /\ GoodRun(run'[r])
  <1>1. run[r].queue = {}
    BY DrainingFacts
  <1>2. /\ Becomes(r, run'[r])
        /\ DOMAIN run'[r] = RunFields /\ run'[r].pc = "rollback" /\ run'[r].cur = n
        /\ run'[r].lifecycle = [run[r].lifecycle EXCEPT ![n] = "Failed"]
        /\ run'[r].inflight = run[r].inflight \ {n}
        /\ run'[r].results = run[r].results /\ run'[r].queue = run[r].queue
        /\ run'[r].attempts = run[r].attempts /\ run'[r].have = run[r].have
        /\ SameTaint(run'[r], run[r])
    BY FinalFailureFacts
  <1>3. run'[r].lifecycle \in [Nodes -> Lifecycles]
    BY <1>2 DEF GoodRun, RunTyped, Lifecycles
  <1>4. QED
    BY <1>1, <1>2, <1>3 DEF GoodRun, RunTyped, CursorOK, SameTaint

LEMMA RetryGood ==
    ASSUME TypeOK, ShapeInv, NEW r \in Runs, NEW n \in Nodes, GoodRun(run[r]), Retry(r, n)
    PROVE  Becomes(r, run'[r]) /\ GoodRun(run'[r])
  <1>1. run[r].queue = {} /\ ~run[r].abort
    BY DrainingFacts DEF Retry, ShouldRetry
  <1>2. /\ Becomes(r, run'[r])
        /\ DOMAIN run'[r] = RunFields /\ run'[r].pc = "retry" /\ run'[r].cur = n
        /\ run'[r].have = 0
        /\ run'[r].attempts = [run[r].attempts EXCEPT ![n] = @ + 1]
        /\ run'[r].inflight = run[r].inflight \ {n} /\ run'[r].queue = run[r].queue
        /\ SameNodes(run'[r], run[r]) /\ SameTaint(run'[r], run[r])
    BY RetryFacts
  <1>3. run'[r].attempts \in [Nodes -> Nat] /\ run'[r].attempts[n] > 0
    BY <1>2 DEF GoodRun, RunTyped
  <1>4. Len(plan.scopes[n]) \in Nat
    BY PlanFacts DEF TypeOK
  <1>5. QED
    BY <1>1, <1>2, <1>3, <1>4 DEF GoodRun, RunTyped, CursorOK, SameTaint, SameNodes

LEMMA RecordFailureGood ==
    ASSUME TypeOK, ShapeInv, NEW r \in Runs, GoodRun(run[r]), RecordFailure(r)
    PROVE  Becomes(r, run'[r]) /\ GoodRun(run'[r])
  <1>1. run[r].cur \in Nodes /\ run[r].queue = {} /\ run[r].tainted \in SUBSET Nodes
    BY DEF RecordFailure, GoodRun, RunTyped, CursorOK
  <1>2. /\ Becomes(r, run'[r]) /\ DrainsOn(run'[r], run[r].inflight)
        /\ run'[r].lifecycle = run[r].lifecycle
        /\ run'[r].results = [run[r].results EXCEPT ![run[r].cur] = "Failed"]
        /\ run'[r].tainted = PropagateTaint(Nodes, plan.deps, run[r].tainted, run[r].cur)
        /\ run'[r].queue = run[r].queue /\ run'[r].attempts = run[r].attempts
    BY RecordFailureFacts
  <1>3. run'[r].tainted \in SUBSET Nodes
    <2>1. plan.deps \in [Nodes -> SUBSET Nodes] /\ IsFiniteSet(Nodes)
      BY PlanFacts, NodeFacts DEF TypeOK
    <2>2. PropagateTaint(Nodes, plan.deps, run[r].tainted, run[r].cur) \in SUBSET Nodes
      BY <1>1, <2>1, TaintTyped
    <2>3. QED
      BY <1>2, <2>2
  <1>4. run'[r].results \in [Nodes -> Results]
    <2>1. run[r].results \in [Nodes -> Results] /\ "Failed" \in Results
      BY DEF GoodRun, RunTyped, Results
    <2>2. run'[r].results = [run[r].results EXCEPT ![run[r].cur] = "Failed"]
      BY <1>2
    <2>3. QED
      BY <2>1, <2>2
  <1>5. run'[r].abort \in BOOLEAN
    <2>1. run'[r].abort = (run[r].abort \/ run[r].cur \in plan.failFast)
      BY RecordFailureFacts
    <2>2. QED
      BY <2>1, Zenon
  <1>6. RunTyped(run'[r])
    <2>1. /\ run'[r].pc \in {"loop", "drain"} /\ run'[r].cur = 0 /\ run'[r].have = 0
          /\ run'[r].inflight = run[r].inflight
      BY <1>2 DEF DrainsOn
    <2>2. QED
      BY <1>1, <1>2, <1>3, <1>4, <1>5, <2>1, NodeFacts DEF GoodRun, RunTyped
  <1>7. CursorOK(run'[r])
    <2>1. run'[r].pc = "loop" => run'[r].inflight = {}
      BY <1>2 DEF DrainsOn
    <2>2. run'[r].pc \in {"loop", "drain"} /\ run'[r].cur = 0 /\ DOMAIN run'[r] = RunFields
      BY <1>2 DEF DrainsOn
    <2>3. 0 \notin run'[r].inflight
      BY <1>2, NodeFacts DEF DrainsOn, GoodRun, RunTyped
    <2>4. QED
      BY <1>1, <1>2, <2>1, <2>2, <2>3 DEF CursorOK
  <1>8. QED
    BY <1>2, <1>6, <1>7 DEF GoodRun


AllGood == DOMAIN run = Runs /\ \A r \in Runs : GoodRun(run[r])

\* Every run is good; the next state's version of the same fact.
LEMMA GoodParts ==
    /\ TypeOK /\ ShapeInv => AllGood /\ plan \in Plans
    /\ (TypeOK /\ ShapeInv)' <=>
         /\ AllGood' /\ plan' \in Plans /\ status' \in {"approved", "succeeded", "failed"}
         /\ leases' \in [Scopes -> {NoLease} \cup Lease]
         /\ resuming' \in [Nodes -> 0..MaxResumes]
         /\ \A n \in Nodes \ plan'.review : resuming'[n] = 0
         /\ trouble' \in Nat /\ resumes' \in 0..MaxResumes
         /\ \A n \in Nodes : resuming'[n] <= resumes'
  BY DEF TypeOK, ShapeInv, AllGood, GoodRun, RunTyped, Lease

LEMMA OneBecomesGood ==
    ASSUME AllGood, plan' = plan, NEW r \in Runs, Becomes(r, run'[r]), GoodRun(run'[r])
    PROVE  AllGood'
  <1>1. DOMAIN run' = Runs
    BY DEF Becomes
  <1>2. \A x \in Runs : GoodRun(run'[x])
    BY DEF AllGood, Becomes
  <1>3. \A x \in Runs : GoodRun(run[x])'
    BY <1>2 DEF GoodRun, RunTyped, CursorOK
  <1>4. QED
    BY <1>1, <1>3 DEF AllGood

\* A step that some run takes.
ByRun(r) ==
    \/ Start(r) \/ RunStep(r) \/ ClaimFault(r) \/ \E n \in Nodes : Raise(r, n)

LEMMA RunGood ==
    ASSUME TypeOK, ShapeInv, NEW r \in Runs, ByRun(r)
    PROVE  Becomes(r, run'[r]) /\ GoodRun(run'[r])
  <1>1. GoodRun(run[r])
    BY GoodParts DEF AllGood
  <1>2. CASE Failed(r)
    BY <1>1, <1>2, FailedFacts, DiesGood DEF GoodRun
  <1>3. CASE StopFailFast(r) \/ StopExhausted(r)
    BY <1>1, <1>3, StopGood
  <1>4. CASE Wave(r)
    BY <1>1, <1>4, WaveGood
  <1>5. CASE Start(r) \/ End(r) \/ Undo(r)
    BY <1>1, <1>5, MovesGood
  <1>6. CASE ClaimScope(r)
    BY <1>1, <1>6, ClaimScopeGood
  <1>7. CASE Spawn(r)
    BY <1>1, <1>7, SpawnGood
  <1>8. ASSUME NEW n \in Nodes, Accept(r, n)
        PROVE  Becomes(r, run'[r]) /\ GoodRun(run'[r])
    BY <1>1, <1>8, AcceptGood
  <1>9. ASSUME NEW n \in Nodes, Draining(r, n), FinalFailure(r, n)
        PROVE  Becomes(r, run'[r]) /\ GoodRun(run'[r])
    BY <1>1, <1>9, FinalFailureGood
  <1>10. ASSUME NEW n \in Nodes, Retry(r, n)
         PROVE  Becomes(r, run'[r]) /\ GoodRun(run'[r])
    BY <1>1, <1>10, RetryGood
  <1>11. CASE RecordFailure(r)
    BY <1>1, <1>11, RecordFailureGood
  <1>12. QED
    BY <1>2, <1>3, <1>4, <1>5, <1>6, <1>7, <1>8, <1>9, <1>10, <1>11
    DEF ByRun, RunStep, ClaimConflict, ClaimFault, Raise, Reject, Fail

LEMMA NextCases ==
    ASSUME [Next]_vars
    PROVE  \/ \E r \in Runs : ByRun(r)
           \/ \E s \in Scopes : LeaseLapses(s)
           \/ Crash
           \/ \E n \in Nodes : Resume(n) \/ ResumeDone(n)
           \/ UNCHANGED vars
  BY DEF Next, ByRun

LEMMA AllGoodStep ==
    ASSUME TypeOK, ShapeInv, [Next]_vars
    PROVE  AllGood' /\ plan' = plan
  <1>1. AllGood
    BY GoodParts
  <1>2. ASSUME NEW r \in Runs, ByRun(r) PROVE AllGood' /\ plan' = plan
    <2>1. plan' = plan
      BY <1>2
      DEF ByRun, RunStep, Start, StopFailFast, StopExhausted, Wave, ClaimScope, ClaimConflict,
          Spawn, Accept, Reject, Retry, Fail, FinalFailure, Undo, RecordFailure, End,
          ClaimFault, Raise
    <2>2. QED
      BY <1>1, <1>2, <2>1, RunGood, OneBecomesGood
  <1>3. ASSUME UNCHANGED <<plan, run>> PROVE AllGood' /\ plan' = plan
    BY <1>1, <1>3 DEF AllGood, GoodRun, RunTyped, CursorOK
  <1>4. CASE Crash
    <2>1. plan' = plan
      BY <1>4 DEF Crash
    <2>2. \A r \in Runs : run'[r] = run[r] \/ Dies(run'[r], run[r])
      BY <1>4, CrashFacts
    <2>3. \A r \in Runs : GoodRun(run'[r])
      BY <1>1, <2>2, DiesGood DEF AllGood, GoodRun
    <2>4. \A r \in Runs : GoodRun(run[r])'
      BY <2>1, <2>3 DEF GoodRun, RunTyped, CursorOK
    <2>5. QED
      BY <1>4, <2>1, <2>4, CrashFacts DEF AllGood
  <1>5. QED
    BY <1>2, <1>3, <1>4, NextCases DEF LeaseLapses, Resume, ResumeDone, vars

LEMMA ReleaseTyped ==
    ASSUME leases \in [Scopes -> {NoLease} \cup Lease], trouble \in Nat,
           NEW r, NEW n, ReleaseClaim(r, n)
    PROVE  leases' \in [Scopes -> {NoLease} \cup Lease] /\ trouble' \in Nat
  BY DEF ReleaseClaim, Trouble

\* The tables that runs share.
LEMMA TablesTyped ==
    ASSUME TypeOK, ShapeInv, [Next]_vars
    PROVE  /\ leases' \in [Scopes -> {NoLease} \cup Lease]
           /\ status' \in {"approved", "succeeded", "failed"} /\ trouble' \in Nat
  <1>0. /\ leases \in [Scopes -> {NoLease} \cup Lease] /\ trouble \in Nat
        /\ status \in {"approved", "succeeded", "failed"}
    BY DEF TypeOK, ShapeInv
  <1>1. ASSUME UNCHANGED <<leases, status>>, trouble' \in {trouble, trouble + 1}
        PROVE  /\ leases' \in [Scopes -> {NoLease} \cup Lease]
               /\ status' \in {"approved", "succeeded", "failed"} /\ trouble' \in Nat
    BY <1>0, <1>1
  <1>2. ASSUME NEW r \in Runs,
               Start(r) \/ StopFailFast(r) \/ StopExhausted(r) \/ Wave(r) \/ ClaimConflict(r)
                 \/ ClaimFault(r) \/ Spawn(r) \/ Undo(r) \/ RecordFailure(r)
                 \/ \E n \in Nodes : Raise(r, n)
        PROVE  UNCHANGED <<leases, status>> /\ trouble' \in {trouble, trouble + 1}
    BY <1>2 DEF Start, StopFailFast, StopExhausted, Wave, ClaimConflict, ClaimFault, Spawn, Undo,
                RecordFailure, Raise, Trouble, counters
  <1>3. ASSUME NEW r \in Runs, NEW n \in Nodes,
               Accept(r, n) \/ FinalFailure(r, n) \/ Retry(r, n)
        PROVE  ReleaseClaim(r, n) /\ status' = status
    BY <1>3 DEF Accept, FinalFailure, Retry
  <1>4. ASSUME NEW r \in Runs, ClaimScope(r)
        PROVE  /\ leases' \in [Scopes -> {NoLease} \cup Lease]
               /\ status' = status /\ trouble' = trouble
    <2> DEFINE n == run[r].cur
    <2>1. GoodRun(run[r]) /\ plan \in Plans
      BY GoodParts DEF AllGood
    <2>2. /\ n \in Nodes /\ run[r].attempts[n] \in Nat \ {0}
      BY <1>4, <2>1 DEF GoodRun, RunTyped, CursorOK, ClaimScope, Claiming
    <2>3. leases' = [leases EXCEPT ![NextScope(r)] =
                 [run |-> r, node |-> n, attempt |-> run[r].attempts[n], lapsed |-> FALSE]]
      BY <1>4 DEF ClaimScope
    <2> HIDE DEF n
    <2>4. [run |-> r, node |-> n, attempt |-> run[r].attempts[n], lapsed |-> FALSE] \in Lease
      <3>1. FALSE \in BOOLEAN
        BY Zenon
      <3>2. QED
        BY <2>2, <3>1 DEF Lease
    <2>5. QED
      BY <1>0, <1>4, <2>3, <2>4 DEF ClaimScope, counters
  <1>5. ASSUME NEW r \in Runs, End(r)
        PROVE  /\ leases' = leases /\ trouble' \in {trouble, trouble + 1}
               /\ status' \in {"approved", "succeeded", "failed"}
    <2>1. TargetPlanStatus(run[r].results, run[r].abort) \in {"succeeded", "failed", ""}
      BY DEF TargetPlanStatus
    <2>2. QED
      BY <1>0, <1>5, <2>1 DEF End, Trouble
  <1>6. ASSUME NEW s \in Scopes, LeaseLapses(s)
        PROVE  /\ leases' \in [Scopes -> {NoLease} \cup Lease]
               /\ status' = status /\ trouble' \in {trouble, trouble + 1}
    <2>1. leases[s] \in Lease
      BY <1>0, <1>6 DEF LeaseLapses
    <2>2. leases' = [leases EXCEPT ![s] = [leases[s] EXCEPT !.lapsed = TRUE]]
      BY <1>6 DEF LeaseLapses
    <2>3. [leases[s] EXCEPT !.lapsed = TRUE] \in Lease
      <3>1. TRUE \in BOOLEAN
        BY Zenon
      <3>2. QED
        BY <2>1, <3>1 DEF Lease
    <2>4. leases' \in [Scopes -> {NoLease} \cup Lease]
      BY <1>0, <2>2, <2>3
    <2>5. QED
      BY <1>6, <2>4 DEF LeaseLapses, Trouble
  <1>7. ASSUME NEW r \in Runs, ByRun(r)
        PROVE  /\ leases' \in [Scopes -> {NoLease} \cup Lease]
               /\ status' \in {"approved", "succeeded", "failed"} /\ trouble' \in Nat
    <2>1. \/ Start(r) \/ StopFailFast(r) \/ StopExhausted(r) \/ Wave(r) \/ ClaimConflict(r)
             \/ ClaimFault(r) \/ Spawn(r) \/ Undo(r) \/ RecordFailure(r)
             \/ \E n \in Nodes : Raise(r, n)
          \/ \E n \in Nodes : Accept(r, n) \/ FinalFailure(r, n) \/ Retry(r, n)
          \/ ClaimScope(r) \/ End(r)
      BY <1>7 DEF ByRun, RunStep, Reject, Fail
    <2>2. CASE \E n \in Nodes : Accept(r, n) \/ FinalFailure(r, n) \/ Retry(r, n)
      BY <1>0, <1>3, <2>2, ReleaseTyped
    <2>3. QED
      BY <1>0, <1>1, <1>2, <1>4, <1>5, <2>1, <2>2
  <1>8. CASE Crash \/ (\E n \in Nodes : Resume(n) \/ ResumeDone(n)) \/ UNCHANGED vars
    BY <1>1, <1>8 DEF Crash, Trouble, Resume, ResumeDone, counters, vars
  <1>9. QED
    BY <1>0, <1>6, <1>7, <1>8, NextCases

\* Dispatches by the resume path.
LEMMA ResumesTyped ==
    ASSUME TypeOK, ShapeInv, [Next]_vars
    PROVE  /\ resuming' \in [Nodes -> 0..MaxResumes] /\ resumes' \in 0..MaxResumes
           /\ \A n \in Nodes \ plan'.review : resuming'[n] = 0
           /\ \A n \in Nodes : resuming'[n] <= resumes'
  <1>0. /\ resuming \in [Nodes -> 0..MaxResumes] /\ resumes \in 0..MaxResumes
        /\ \A n \in Nodes \ plan.review : resuming[n] = 0
        /\ \A n \in Nodes : resuming[n] <= resumes
        /\ MaxResumes \in Nat
    BY PlanDagAssumption DEF TypeOK, ShapeInv
  <1>1. plan' = plan
    BY AllGoodStep
  <1>2. CASE UNCHANGED <<resuming, resumes>>
    BY <1>0, <1>1, <1>2
  <1>3. ASSUME NEW n \in Nodes, Resume(n)
        PROVE  /\ resuming' \in [Nodes -> 0..MaxResumes] /\ resumes' \in 0..MaxResumes
               /\ \A m \in Nodes \ plan.review : resuming'[m] = 0
               /\ \A m \in Nodes : resuming'[m] <= resumes'
    <2>1. /\ resumes < MaxResumes /\ resumes' = resumes + 1 /\ n \in plan.review
          /\ resuming' = [resuming EXCEPT ![n] = resuming[n] + 1]
      BY <1>3 DEF Resume
    <2>2. resumes' \in 0..MaxResumes /\ resuming[n] + 1 \in 0..MaxResumes
      BY <1>0, <2>1
    <2>3. QED
      BY <1>0, <2>1, <2>2
  <1>4. ASSUME NEW n \in Nodes, ResumeDone(n)
        PROVE  /\ resuming' \in [Nodes -> 0..MaxResumes] /\ resumes' \in 0..MaxResumes
               /\ \A m \in Nodes \ plan.review : resuming'[m] = 0
               /\ \A m \in Nodes : resuming'[m] <= resumes'
    <2>1. /\ resuming[n] > 0 /\ resumes' = resumes
          /\ resuming' = [resuming EXCEPT ![n] = resuming[n] - 1]
      BY <1>4 DEF ResumeDone, counters
    <2>2. resuming[n] - 1 \in 0..MaxResumes /\ n \in plan.review
      BY <1>0, <2>1
    <2>3. QED
      BY <1>0, <2>1, <2>2
  <1>5. CASE Crash
    <2>1. resumes' = resumes /\ resuming' = [n \in Nodes |-> 0]
      BY <1>5 DEF Crash
    <2>2. QED
      BY <1>0, <2>1
  <1>6. ASSUME NEW r \in Runs, ByRun(r) PROVE UNCHANGED <<resuming, resumes>>
    BY <1>6
    DEF ByRun, RunStep, Start, StopFailFast, StopExhausted, Wave, ClaimScope, ClaimConflict,
        Spawn, Accept, Reject, Retry, Fail, FinalFailure, Undo, RecordFailure, End,
        ClaimFault, Raise, counters
  <1>7. CASE (\E s \in Scopes : LeaseLapses(s)) \/ UNCHANGED vars
    BY <1>2, <1>7 DEF LeaseLapses, vars, counters
  <1>8. QED
    BY <1>1, <1>2, <1>3, <1>4, <1>5, <1>6, <1>7, NextCases

LEMMA InitShape == Init => TypeOK /\ ShapeInv
  <1> SUFFICES ASSUME Init PROVE TypeOK /\ ShapeInv
    OBVIOUS
  <1>0. plan \in Plans /\ MaxResumes \in Nat
    BY PlanDagAssumption DEF Init
  <1>1. DOMAIN run = Runs /\ \A r \in Runs : run[r] = FreshRun
    BY DEF Init
  <1>2. RunTyped(FreshRun)
    <2>1. FreshRun.abort \in BOOLEAN
      <3>1. FreshRun.abort = FALSE
        BY DEF FreshRun
      <3>2. QED
        BY <3>1, Zenon
    <2>2. FreshRun.lifecycle \in [Nodes -> Lifecycles] /\ FreshRun.results \in [Nodes -> Results]
      BY DEF FreshRun, Lifecycles, Results
    <2>3. QED
      BY <2>1, <2>2, NodeFacts DEF FreshRun, RunTyped
  <1>3. CursorOK(FreshRun)
    BY DEF FreshRun, CursorOK, RunFields
  <1>4. leases \in [Scopes -> {NoLease} \cup Lease]
    BY DEF Init
  <1>5. /\ resuming \in [Nodes -> 0..MaxResumes] /\ trouble \in Nat /\ resumes \in 0..MaxResumes
        /\ \A n \in Nodes : resuming[n] = 0 /\ resuming[n] <= resumes
    BY <1>0 DEF Init
  <1>6. TypeOK
    BY <1>0, <1>1, <1>2, <1>4, <1>5 DEF TypeOK, RunTyped, Lease, Init
  <1>7. ShapeInv
    BY <1>1, <1>3, <1>4, <1>5 DEF ShapeInv
  <1>8. QED
    BY <1>6, <1>7

LEMMA ShapeStep ==
    ASSUME TypeOK, ShapeInv, [Next]_vars
    PROVE  (TypeOK /\ ShapeInv)'
  <1>1. AllGood' /\ plan' = plan /\ plan \in Plans
    BY AllGoodStep DEF TypeOK
  <1>2. /\ leases' \in [Scopes -> {NoLease} \cup Lease]
        /\ status' \in {"approved", "succeeded", "failed"} /\ trouble' \in Nat
    BY TablesTyped
  <1>3. /\ resuming' \in [Nodes -> 0..MaxResumes] /\ resumes' \in 0..MaxResumes
        /\ \A n \in Nodes \ plan'.review : resuming'[n] = 0
        /\ \A n \in Nodes : resuming'[n] <= resumes'
    BY ResumesTyped
  <1>4. QED
    BY <1>1, <1>2, <1>3, GoodParts

(***************************************************************************)
(* Every state component keeps its type, whatever the runs, the leases and *)
(* the resumes of reviews do meanwhile; a run has a queue only while it    *)
(* claims, keeps a node in one place at a time and, once aborted, neither  *)
(* claims nor retries (scheduler.rs, drain.rs, retry.rs).                  *)
(***************************************************************************)
THEOREM PlanDagTypeOK == Spec => [](TypeOK /\ ShapeInv)
  <1>1. (TypeOK /\ ShapeInv) /\ [Next]_vars => (TypeOK /\ ShapeInv)'
    BY ShapeStep
  <1>2. QED
    BY InitShape, <1>1, PTL DEF Spec

LEMMA AbortedBeginsNothing ==
    ASSUME TypeOK, ShapeInv, NEW r \in Runs, ByRun(r), run[r].abort
    PROVE  run'[r].attempts = run[r].attempts
  <1>1. run[r].pc \notin {"claim", "retry"}
    BY DEF ShapeInv, CursorOK
  <1>2. CASE Failed(r)
    BY <1>2, FailedFacts DEF Dies
  <1>3. CASE StopFailFast(r) \/ StopExhausted(r)
    BY <1>3, StopFailFastFacts, StopExhaustedFacts DEF Ends, SameWork
  <1>4. CASE Start(r) \/ End(r) \/ Undo(r)
    BY <1>4, StartFacts, EndFacts, UndoFacts DEF SameWork
  <1>5. ASSUME NEW n \in Nodes, Accept(r, n) PROVE run'[r].attempts = run[r].attempts
    BY <1>5, AcceptFacts
  <1>6. ASSUME NEW n \in Nodes, FinalFailure(r, n) PROVE run'[r].attempts = run[r].attempts
    BY <1>6, FinalFailureFacts
  <1>7. CASE RecordFailure(r)
    BY <1>7, RecordFailureFacts
  <1>8. ~Wave(r) /\ ~ClaimScope(r) /\ ~Spawn(r) /\ \A n \in Nodes : ~Retry(r, n)
    BY <1>1 DEF Wave, ClaimScope, Spawn, Claiming, Retry, ShouldRetry
  <1>9. QED
    BY <1>2, <1>3, <1>4, <1>5, <1>6, <1>7, <1>8
    DEF ByRun, RunStep, ClaimConflict, ClaimFault, Raise, Reject, Fail

(***************************************************************************)
(* A run that has aborted begins no attempt: neither the claim loop nor a  *)
(* retry is reached with the flag set (plan_node_should_retry, drain.rs).  *)
(***************************************************************************)
THEOREM FailFastHolds == Spec => FailFastStops
  <1> DEFINE P == \A r \in Runs : run[r].abort => run'[r].attempts = run[r].attempts
  <1>1. TypeOK /\ ShapeInv /\ [Next]_vars => [P]_vars
    <2> SUFFICES ASSUME TypeOK, ShapeInv, [Next]_vars PROVE P
      OBVIOUS
    <2>1. ASSUME NEW r \in Runs, ByRun(r) PROVE P
      BY <2>1, AbortedBeginsNothing, RunGood DEF Becomes
    <2>2. CASE Crash
      BY <2>2, CrashFacts DEF Dies
    <2>3. QED
      BY <2>1, <2>2, NextCases DEF LeaseLapses, Resume, ResumeDone, vars
  <1>2. QED
    BY PlanDagTypeOK, <1>1, PTL DEF Spec, FailFastStops

-----------------------------------------------------------------------------
(***************************************************************************)
(* Layer 2: the life of a node.                                            *)
(***************************************************************************)
GoodLife(q) == Ordered(q) /\ \A n \in Nodes : NodeOK(q, n)

\* Successes stay, and a node is begun only when its dependencies succeeded.
LEMMA OrderedKept ==
    ASSUME plan \in Plans, NEW q, NEW q1, Ordered(q),
           \A d \in Nodes : q.results[d] = "Succeeded" => q1.results[d] = "Succeeded",
           \A n \in Nodes : Begun(q1, n) =>
              Begun(q, n) \/ \A d \in plan.deps[n] : q.results[d] = "Succeeded"
    PROVE  Ordered(q1)
  <1>1. \A n \in Nodes : plan.deps[n] \subseteq Nodes
    BY PlanFacts
  <1> HIDE DEF Begun
  <1>2. QED
    BY <1>1 DEF Ordered

\* A node whose dispatch is begun, in doubt or over.
LEMMA NodeCases ==
    ASSUME NEW q, GoodRun(q), GoodLife(q), NEW n \in Nodes
    PROVE  /\ q.results[n] = "Succeeded" <=> q.lifecycle[n] = "Succeeded"
           /\ q.results[n] = "Failed" => q.lifecycle[n] = "Failed"
           /\ q.results[n] = "SkippedCondition" => q.lifecycle[n] = "Skipped"
           /\ q.results[n] = "Paused" <=> q.lifecycle[n] = "Paused"
           /\ q.pc \in {"idle", "loop", "end", "ended"} =>
                q.lifecycle[n] \notin {"Claimed", "Running"}
  <1>1. q.lifecycle[n] \in Lifecycles
    BY DEF GoodRun, RunTyped
  <1>2. NodeOK(q, n)
    BY DEF GoodLife
  <1>3. q.pc \in {"idle", "loop", "end", "ended"} => q.inflight = {}
    BY DEF GoodRun, CursorOK
  <1>4. QED
    BY <1>1, <1>2, <1>3 DEF NodeOK, Lifecycles, Skips

LEMMA DiesLives ==
    ASSUME plan \in Plans, NEW q, NEW q1, GoodRun(q), GoodLife(q), Dies(q1, q)
    PROVE  GoodLife(q1)
  <1>1. /\ q1.lifecycle = q.lifecycle /\ q1.results = q.results /\ q1.queue = {}
        /\ q1.inflight = {} /\ q1.pc = "failed"
    BY DEF Dies, SameNodes
  <1>2. Ordered(q1)
    BY <1>1, OrderedKept DEF GoodLife, Begun
  <1>3. \A n \in Nodes : NodeOK(q1, n)
    BY <1>1 DEF GoodLife, NodeOK
  <1>4. QED
    BY <1>2, <1>3 DEF GoodLife

LEMMA MovesLives ==
    ASSUME TypeOK, ShapeInv, NEW r \in Runs, GoodRun(run[r]), GoodLife(run[r]),
           Start(r) \/ End(r) \/ Undo(r)
    PROVE  GoodLife(run'[r])
  <1>1. /\ run'[r].lifecycle = run[r].lifecycle /\ run'[r].results = run[r].results
        /\ run'[r].queue = run[r].queue /\ run'[r].inflight = run[r].inflight
        /\ run'[r].cur = run[r].cur
    BY StartFacts, EndFacts, UndoFacts DEF SameNodes, SameWork, SamePlace
  <1>2. \/ run[r].pc = "idle" /\ run'[r].pc = "loop"
        \/ run[r].pc = "end" /\ run'[r].pc = "ended"
        \/ run[r].pc = "rollback" /\ run'[r].pc = "rollback"
    BY StartFacts, EndFacts, UndoFacts DEF Start, End, Undo
  <1>3. Ordered(run'[r])
    BY <1>1 DEF GoodLife, Ordered, Begun
  <1>4. \A n \in Nodes : NodeOK(run'[r], n)
    BY <1>1, <1>2 DEF GoodLife, NodeOK
  <1>5. QED
    BY <1>3, <1>4 DEF GoodLife

\* Step 1 leaves the nodes it does not skip as they are.
LEMMA SkipFacts ==
    ASSUME NEW r \in Runs, GoodRun(run[r]), NEW n \in Nodes
    PROVE  \/ /\ n \in TaintedPending(r) /\ n \in run[r].tainted
              /\ run[r].lifecycle[n] = "Pending"
              /\ SkippedLifecycle(r)[n] = "Skipped" /\ SkippedResults(r)[n] = "SkippedUpstream"
           \/ /\ n \notin TaintedPending(r)
              /\ (n \notin run[r].tainted \/ run[r].lifecycle[n] # "Pending")
              /\ SkippedLifecycle(r)[n] = run[r].lifecycle[n]
              /\ SkippedResults(r)[n] = run[r].results[n]
  <1>1. /\ SkippedLifecycle(r)[n] =
             IF n \in TaintedPending(r) THEN "Skipped" ELSE run[r].lifecycle[n]
        /\ SkippedResults(r)[n] =
             IF n \in TaintedPending(r) THEN "SkippedUpstream" ELSE run[r].results[n]
    BY SkipTyped DEF GoodRun
  <1>2. QED
    BY <1>1 DEF TaintedPending

\* What becomes of one node when the loop stops.
LEMMA StopNode ==
    ASSUME TypeOK, ShapeInv, NEW r \in Runs, GoodRun(run[r]),
           StopFailFast(r) \/ StopExhausted(r), NEW n \in Nodes
    PROVE  \/ /\ n \in run[r].tainted /\ run[r].lifecycle[n] = "Pending"
              /\ run'[r].lifecycle[n] = "Skipped" /\ run'[r].results[n] = "SkippedUpstream"
           \/ /\ n \notin run[r].tainted /\ run[r].lifecycle[n] = "Pending" /\ StopFailFast(r)
              /\ run'[r].lifecycle[n] = "Skipped" /\ run'[r].results[n] = "SkippedFailFast"
           \/ /\ run'[r].lifecycle[n] = run[r].lifecycle[n]
              /\ run'[r].results[n] = run[r].results[n]
              /\ run[r].lifecycle[n] = "Pending" => StopExhausted(r) /\ n \notin run[r].tainted
  <1>1. \/ /\ n \in TaintedPending(r) /\ n \in run[r].tainted
           /\ run[r].lifecycle[n] = "Pending"
           /\ SkippedLifecycle(r)[n] = "Skipped" /\ SkippedResults(r)[n] = "SkippedUpstream"
        \/ /\ n \notin TaintedPending(r)
           /\ (n \notin run[r].tainted \/ run[r].lifecycle[n] # "Pending")
           /\ SkippedLifecycle(r)[n] = run[r].lifecycle[n]
           /\ SkippedResults(r)[n] = run[r].results[n]
    BY SkipFacts
  <1>2. CASE StopFailFast(r)
    <2> DEFINE pending == {m \in Nodes : SkippedLifecycle(r)[m] = "Pending"}
    <2>1. /\ run'[r].lifecycle = Mark(SkippedLifecycle(r), pending, "Skipped")
          /\ run'[r].results = Mark(SkippedResults(r), pending, "SkippedFailFast")
      BY <1>2, StopFailFastFacts
    <2>2. /\ run'[r].lifecycle[n] = IF n \in pending THEN "Skipped" ELSE SkippedLifecycle(r)[n]
          /\ run'[r].results[n] =
               IF n \in pending THEN "SkippedFailFast" ELSE SkippedResults(r)[n]
      BY <2>1 DEF Mark
    <2>3. n \in pending <=> SkippedLifecycle(r)[n] = "Pending"
      OBVIOUS
    <2> HIDE DEF pending
    <2>4. QED
      BY <1>1, <1>2, <2>2, <2>3
  <1>3. CASE StopExhausted(r)
    <2>1. run'[r].lifecycle = SkippedLifecycle(r) /\ run'[r].results = SkippedResults(r)
      BY <1>3, StopExhaustedFacts
    <2>2. QED
      BY <1>1, <1>3, <2>1
  <1>4. QED
    BY <1>2, <1>3

LEMMA StopLives ==
    ASSUME TypeOK, ShapeInv, NEW r \in Runs, GoodRun(run[r]), GoodLife(run[r]),
           StopFailFast(r) \/ StopExhausted(r)
    PROVE  GoodLife(run'[r])
  <1>1. /\ run[r].pc = "loop" /\ run'[r].pc = "end"
        /\ run'[r].queue = run[r].queue /\ run'[r].inflight = run[r].inflight
        /\ run'[r].cur = run[r].cur
    BY StopFailFastFacts, StopExhaustedFacts
    DEF StopFailFast, StopExhausted, Ends, SameWork, SamePlace
  <1>2. run[r].queue = {} /\ run[r].inflight = {}
    BY <1>1 DEF GoodRun, CursorOK
  <1>3. \A n \in Nodes :
           \/ /\ run[r].lifecycle[n] = "Pending" /\ run'[r].lifecycle[n] = "Skipped"
              /\ run'[r].results[n] \in {"SkippedUpstream", "SkippedFailFast"}
           \/ /\ run'[r].lifecycle[n] = run[r].lifecycle[n]
              /\ run'[r].results[n] = run[r].results[n]
    BY StopNode
  <1>4. \A n \in Nodes : NodeOK(run[r], n)
    BY DEF GoodLife
  <1>5. Ordered(run'[r])
    <2>1. \A d \in Nodes : run[r].results[d] = "Succeeded" => run'[r].results[d] = "Succeeded"
      BY <1>3, <1>4 DEF NodeOK
    <2>2. \A n \in Nodes : Begun(run'[r], n) => Begun(run[r], n)
      BY <1>1, <1>2, <1>3 DEF Begun
    <2>3. QED
      BY <2>1, <2>2, OrderedKept DEF GoodLife, TypeOK
  <1>6. \A n \in Nodes : NodeOK(run'[r], n)
    BY <1>1, <1>2, <1>3, <1>4 DEF NodeOK, Skips
  <1>7. QED
    BY <1>5, <1>6 DEF GoodLife

\* A ready node is pending, untainted, and all it depends on has succeeded.
LEMMA ReadyFacts ==
    ASSUME NEW r \in Runs, GoodRun(run[r]), GoodLife(run[r]), plan \in Plans, NEW n \in Ready(r)
    PROVE  /\ n \in Nodes /\ n \notin TaintedPending(r) /\ n \notin run[r].tainted
           /\ run[r].lifecycle[n] = "Pending"
           /\ \A d \in plan.deps[n] : run[r].results[d] = "Succeeded"
  <1>1. /\ n \in Nodes /\ n \notin TaintedPending(r) /\ run[r].lifecycle[n] = "Pending"
        /\ \A d \in plan.deps[n] : run[r].lifecycle[d] = "Succeeded"
    BY DEF Ready
  <1>2. n \notin run[r].tainted
    BY <1>1 DEF TaintedPending
  <1>3. plan.deps[n] \subseteq Nodes
    BY <1>1, PlanFacts
  <1>4. QED
    BY <1>1, <1>2, <1>3, NodeCases

\* What becomes of one node in a wave.
LEMMA WaveNode ==
    ASSUME TypeOK, ShapeInv, NEW r \in Runs, GoodRun(run[r]), Wave(r), NEW n \in Nodes
    PROVE  \/ /\ n \in Conditional(r)
              /\ run'[r].lifecycle[n] = "Skipped" /\ run'[r].results[n] = "SkippedCondition"
           \/ /\ n \in ReviewGated(r)
              /\ run'[r].lifecycle[n] = "Paused" /\ run'[r].results[n] = "Paused"
           \/ /\ n \in TaintedPending(r) /\ n \in run[r].tainted
              /\ run[r].lifecycle[n] = "Pending"
              /\ run'[r].lifecycle[n] = "Skipped" /\ run'[r].results[n] = "SkippedUpstream"
           \/ /\ n \notin Conditional(r) /\ n \notin ReviewGated(r)
              /\ n \notin TaintedPending(r)
              /\ run'[r].lifecycle[n] = run[r].lifecycle[n]
              /\ run'[r].results[n] = run[r].results[n]
  <1>1. \/ /\ n \in TaintedPending(r) /\ n \in run[r].tainted
           /\ run[r].lifecycle[n] = "Pending"
           /\ SkippedLifecycle(r)[n] = "Skipped" /\ SkippedResults(r)[n] = "SkippedUpstream"
        \/ /\ n \notin TaintedPending(r)
           /\ SkippedLifecycle(r)[n] = run[r].lifecycle[n]
           /\ SkippedResults(r)[n] = run[r].results[n]
    BY SkipFacts
  <1>2. ReviewGated(r) \cap Conditional(r) = {}
    BY DEF ReviewGated, Conditional
  <1> DEFINE L == Mark(SkippedLifecycle(r), Conditional(r), "Skipped")
             R == Mark(SkippedResults(r), Conditional(r), "SkippedCondition")
  <1>3. /\ run'[r].lifecycle = Mark(L, ReviewGated(r), "Paused")
        /\ run'[r].results = Mark(R, ReviewGated(r), "Paused")
    BY WaveFacts
  <1>4. /\ L[n] = IF n \in Conditional(r) THEN "Skipped" ELSE SkippedLifecycle(r)[n]
        /\ R[n] = IF n \in Conditional(r) THEN "SkippedCondition" ELSE SkippedResults(r)[n]
    BY DEF Mark
  <1> HIDE DEF L, R
  <1>5. /\ run'[r].lifecycle[n] = IF n \in ReviewGated(r) THEN "Paused" ELSE L[n]
        /\ run'[r].results[n] = IF n \in ReviewGated(r) THEN "Paused" ELSE R[n]
    BY <1>3 DEF Mark
  <1>6. QED
    BY <1>1, <1>2, <1>4, <1>5

LEMMA WaveLives ==
    ASSUME TypeOK, ShapeInv, NEW r \in Runs, GoodRun(run[r]), GoodLife(run[r]), Wave(r)
    PROVE  GoodLife(run'[r])
  <1>0. plan \in Plans /\ run[r].pc = "loop" /\ run[r].inflight = {}
    BY DEF TypeOK, Wave, GoodRun, CursorOK
  <1>1. /\ run'[r].pc \in {"loop", "claim"} /\ run'[r].queue = ToDispatch(r)
        /\ run'[r].inflight = {}
    BY <1>0, WaveFacts DEF Turns
  <1>2. /\ Ready(r) \subseteq Nodes
        /\ Conditional(r) \subseteq Ready(r) /\ ReviewGated(r) \subseteq Ready(r)
        /\ ToDispatch(r) \subseteq Ready(r)
    BY <1>0, WaveTyped DEF GoodRun
  <1>3. ToDispatch(r) \cap (Conditional(r) \cup ReviewGated(r)) = {}
    BY DEF ToDispatch, Conditional, ReviewGated, Gated
  <1>4. \A n \in Ready(r) : /\ n \notin TaintedPending(r) /\ run[r].lifecycle[n] = "Pending"
                            /\ \A d \in plan.deps[n] : run[r].results[d] = "Succeeded"
    BY <1>0, ReadyFacts
  <1>5. \A n \in Nodes :
           \/ /\ n \in Ready(r) /\ n \notin ToDispatch(r)
              /\ run'[r].lifecycle[n] = "Skipped" /\ run'[r].results[n] = "SkippedCondition"
           \/ /\ n \in Ready(r) /\ n \notin ToDispatch(r)
              /\ run'[r].lifecycle[n] = "Paused" /\ run'[r].results[n] = "Paused"
           \/ /\ n \notin Ready(r) /\ run[r].lifecycle[n] = "Pending"
              /\ run'[r].lifecycle[n] = "Skipped" /\ run'[r].results[n] = "SkippedUpstream"
           \/ /\ run'[r].lifecycle[n] = run[r].lifecycle[n]
              /\ run'[r].results[n] = run[r].results[n]
    <2> TAKE n \in Nodes
    <2>1. \/ /\ n \in Conditional(r)
             /\ run'[r].lifecycle[n] = "Skipped" /\ run'[r].results[n] = "SkippedCondition"
          \/ /\ n \in ReviewGated(r)
             /\ run'[r].lifecycle[n] = "Paused" /\ run'[r].results[n] = "Paused"
          \/ /\ n \in TaintedPending(r) /\ run[r].lifecycle[n] = "Pending"
             /\ run'[r].lifecycle[n] = "Skipped" /\ run'[r].results[n] = "SkippedUpstream"
          \/ /\ run'[r].lifecycle[n] = run[r].lifecycle[n]
             /\ run'[r].results[n] = run[r].results[n]
      BY WaveNode
    <2>2. QED
      BY <1>2, <1>3, <1>4, <2>1
  <1>6. \A n \in Nodes : NodeOK(run[r], n)
    BY DEF GoodLife
  <1>7. \A n \in Nodes : run[r].lifecycle[n] = "Pending" => run[r].results[n] = "none"
    BY <1>6 DEF NodeOK
  <1>8. Ordered(run'[r])
    <2>1. \A d \in Nodes : run[r].results[d] = "Succeeded" => run'[r].results[d] = "Succeeded"
      BY <1>4, <1>5, <1>7
    <2>2. \A n \in Nodes : Begun(run'[r], n) => Begun(run[r], n) \/ n \in Ready(r)
      BY <1>1, <1>2, <1>5 DEF Begun
    <2>3. \A n \in Nodes : Begun(run'[r], n) =>
              Begun(run[r], n) \/ \A d \in plan.deps[n] : run[r].results[d] = "Succeeded"
      BY <1>4, <2>2
    <2>4. Ordered(run[r])
      BY DEF GoodLife
    <2>5. QED
      BY <1>0, <2>1, <2>3, <2>4, OrderedKept
  <1>9. ASSUME NEW n \in Nodes PROVE NodeOK(run'[r], n)
    <2>1. run[r].lifecycle[n] \notin {"Running", "Claimed"}
      BY <1>0, NodeCases
    <2>2. CASE n \in ToDispatch(r)
      <3>1. run'[r].lifecycle[n] = "Pending" /\ run'[r].results[n] = "none"
        BY <1>2, <1>4, <1>5, <1>7, <2>2
      <3>2. QED
        BY <1>1, <3>1 DEF NodeOK
    <2>3. CASE n \notin ToDispatch(r)
      <3>1. NodeOK(run[r], n)
        BY <1>6
      <3>2. QED
        BY <1>0, <1>1, <1>5, <2>1, <2>3, <3>1 DEF NodeOK, Skips
    <2>4. QED
      BY <2>2, <2>3
  <1>10. QED
    BY <1>8, <1>9 DEF GoodLife

LEMMA ClaimScopeLives ==
    ASSUME TypeOK, ShapeInv, NEW r \in Runs, GoodRun(run[r]), GoodLife(run[r]), ClaimScope(r)
    PROVE  GoodLife(run'[r])
  <1>0. plan \in Plans /\ run[r].lifecycle \in [Nodes -> Lifecycles]
    BY DEF TypeOK, GoodRun, RunTyped
  <1>1. /\ run'[r].lifecycle = [run[r].lifecycle EXCEPT ![run[r].cur] =
              IF run[r].have + 1 = Len(plan.scopes[run[r].cur]) THEN "Claimed" ELSE @]
        /\ run'[r].pc = run[r].pc /\ run'[r].cur = run[r].cur /\ run'[r].results = run[r].results
        /\ run'[r].queue = run[r].queue /\ run'[r].inflight = run[r].inflight
    BY <1>0, ClaimScopeFacts DEF SameWork
  <1>2. /\ run[r].pc \in {"claim", "retry"} /\ run[r].cur \in Nodes
        /\ run[r].cur \notin run[r].inflight
        /\ run[r].pc = "claim" => run[r].cur \in run[r].queue
        /\ run[r].pc = "retry" => run[r].queue = {}
    BY DEF ClaimScope, Claiming, GoodRun, RunTyped, CursorOK
  <1>3. \A m \in Nodes : m # run[r].cur => run'[r].lifecycle[m] = run[r].lifecycle[m]
    BY <1>0, <1>1
  <1>4. \/ run'[r].lifecycle[run[r].cur] = run[r].lifecycle[run[r].cur]
        \/ run'[r].lifecycle[run[r].cur] = "Claimed"
    BY <1>0, <1>1, <1>2
  <1>5. \A n \in Nodes : NodeOK(run[r], n)
    BY DEF GoodLife
  <1>6. run[r].results[run[r].cur] = "none" /\ Begun(run[r], run[r].cur)
    BY <1>2, <1>5 DEF NodeOK, Begun
  <1>7. Ordered(run'[r])
    <2>1. \A n \in Nodes : Begun(run'[r], n) => Begun(run[r], n)
      BY <1>1, <1>3, <1>6 DEF Begun
    <2>2. QED
      BY <1>0, <1>1, <2>1, OrderedKept DEF GoodLife
  <1>8. ASSUME NEW n \in Nodes PROVE NodeOK(run'[r], n)
    <2>1. CASE n # run[r].cur
      BY <1>1, <1>3, <1>5, <2>1 DEF NodeOK
    <2>2. CASE n = run[r].cur
      BY <1>1, <1>2, <1>4, <1>5, <1>6, <2>2 DEF NodeOK
    <2>3. QED
      BY <2>1, <2>2
  <1>9. QED
    BY <1>7, <1>8 DEF GoodLife

LEMMA SpawnLives ==
    ASSUME TypeOK, ShapeInv, NEW r \in Runs, GoodRun(run[r]), GoodLife(run[r]), Spawn(r)
    PROVE  GoodLife(run'[r])
  <1>0. plan \in Plans /\ run[r].lifecycle \in [Nodes -> Lifecycles]
    BY DEF TypeOK, GoodRun, RunTyped
  <1>1. /\ run'[r].lifecycle = [run[r].lifecycle EXCEPT ![run[r].cur] = "Running"]
        /\ run'[r].inflight = run[r].inflight \cup {run[r].cur}
        /\ run'[r].queue = run[r].queue \ {run[r].cur}
        /\ run'[r].results = run[r].results
        /\ run'[r].pc \in {"claim", "drain"}
    BY SpawnFacts DEF Turns
  <1>2. /\ run[r].pc \in {"claim", "retry"} /\ run[r].cur \in Nodes
        /\ run[r].pc = "claim" => run[r].cur \in run[r].queue
    BY DEF Spawn, Claiming, GoodRun, RunTyped, CursorOK
  <1>3. /\ \A m \in Nodes : m # run[r].cur => run'[r].lifecycle[m] = run[r].lifecycle[m]
        /\ run'[r].lifecycle[run[r].cur] = "Running"
    BY <1>0, <1>1, <1>2
  <1>5. \A n \in Nodes : NodeOK(run[r], n)
    BY DEF GoodLife
  <1>6. run[r].results[run[r].cur] = "none" /\ Begun(run[r], run[r].cur)
    BY <1>2, <1>5 DEF NodeOK, Begun
  <1>7. Ordered(run'[r])
    <2>1. \A n \in Nodes : Begun(run'[r], n) => Begun(run[r], n)
      BY <1>1, <1>3, <1>6 DEF Begun
    <2>2. QED
      BY <1>0, <1>1, <2>1, OrderedKept DEF GoodLife
  <1>8. ASSUME NEW n \in Nodes PROVE NodeOK(run'[r], n)
    <2>1. CASE n # run[r].cur
      BY <1>1, <1>2, <1>3, <1>5, <2>1 DEF NodeOK
    <2>2. CASE n = run[r].cur
      BY <1>1, <1>3, <1>6, <2>2 DEF NodeOK
    <2>3. QED
      BY <2>1, <2>2
  <1>9. QED
    BY <1>7, <1>8 DEF GoodLife

\* A dispatch that is in flight is the running of a node without a result.
LEMMA InflightFacts ==
    ASSUME NEW r \in Runs, NEW n \in Nodes, GoodRun(run[r]), GoodLife(run[r]), Draining(r, n)
    PROVE  /\ run[r].pc = "drain" /\ n \in run[r].inflight /\ run[r].queue = {}
           /\ run[r].lifecycle[n] = "Running" /\ run[r].results[n] = "none"
           /\ Begun(run[r], n)
  <1>1. run[r].pc = "drain" /\ n \in run[r].inflight /\ run[r].queue = {}
    BY DrainingFacts
  <1>2. NodeOK(run[r], n)
    BY DEF GoodLife
  <1>3. QED
    BY <1>1, <1>2 DEF NodeOK, Begun

LEMMA AcceptLives ==
    ASSUME TypeOK, ShapeInv, NEW r \in Runs, NEW n \in Nodes, GoodRun(run[r]), GoodLife(run[r]),
           Accept(r, n)
    PROVE  GoodLife(run'[r])
  <1>0. /\ plan \in Plans /\ run[r].lifecycle \in [Nodes -> Lifecycles]
        /\ run[r].results \in [Nodes -> Results]
    BY DEF TypeOK, GoodRun, RunTyped
  <1>1. PICK verdict \in {"Succeeded", "Paused"} :
              /\ DrainsOn(run'[r], run[r].inflight \ {n})
              /\ run'[r].lifecycle = [run[r].lifecycle EXCEPT ![n] = verdict]
              /\ run'[r].results = [run[r].results EXCEPT ![n] = verdict]
              /\ run'[r].queue = run[r].queue
    BY AcceptFacts
  <1>2. /\ run[r].pc = "drain" /\ n \in run[r].inflight /\ run[r].queue = {}
        /\ run[r].lifecycle[n] = "Running" /\ run[r].results[n] = "none"
        /\ Begun(run[r], n)
    BY InflightFacts DEF Accept
  <1>3. /\ run'[r].pc \in {"loop", "drain"} /\ run'[r].inflight = run[r].inflight \ {n}
        /\ run'[r].queue = {}
    BY <1>1, <1>2 DEF DrainsOn
  <1>4. /\ \A m \in Nodes : m # n => /\ run'[r].lifecycle[m] = run[r].lifecycle[m]
                                     /\ run'[r].results[m] = run[r].results[m]
        /\ run'[r].lifecycle[n] = verdict /\ run'[r].results[n] = verdict
    BY <1>0, <1>1
  <1>5. \A m \in Nodes : NodeOK(run[r], m)
    BY DEF GoodLife
  <1>6. Ordered(run'[r])
    <2>1. \A d \in Nodes : run[r].results[d] = "Succeeded" => run'[r].results[d] = "Succeeded"
      BY <1>2, <1>4
    <2>2. \A m \in Nodes : Begun(run'[r], m) => Begun(run[r], m)
      BY <1>2, <1>3, <1>4 DEF Begun
    <2>3. QED
      BY <1>0, <2>1, <2>2, OrderedKept DEF GoodLife
  <1>7. ASSUME NEW m \in Nodes PROVE NodeOK(run'[r], m)
    <2>1. CASE m # n
      BY <1>2, <1>3, <1>4, <1>5, <2>1 DEF NodeOK
    <2>2. CASE m = n
      BY <1>3, <1>4, <2>2 DEF NodeOK
    <2>3. QED
      BY <2>1, <2>2
  <1>8. QED
    BY <1>6, <1>7 DEF GoodLife

LEMMA FinalFailureLives ==
    ASSUME TypeOK, ShapeInv, NEW r \in Runs, NEW n \in Nodes, GoodRun(run[r]), GoodLife(run[r]),
           Draining(r, n), FinalFailure(r, n)
    PROVE  GoodLife(run'[r])
  <1>0. plan \in Plans /\ run[r].lifecycle \in [Nodes -> Lifecycles]
    BY DEF TypeOK, GoodRun, RunTyped
  <1>1. /\ run'[r].pc = "rollback" /\ run'[r].cur = n
        /\ run'[r].lifecycle = [run[r].lifecycle EXCEPT ![n] = "Failed"]
        /\ run'[r].inflight = run[r].inflight \ {n}
        /\ run'[r].results = run[r].results /\ run'[r].queue = run[r].queue
    BY FinalFailureFacts
  <1>2. /\ run[r].pc = "drain" /\ n \in run[r].inflight /\ run[r].queue = {}
        /\ run[r].lifecycle[n] = "Running" /\ run[r].results[n] = "none"
        /\ Begun(run[r], n)
    BY InflightFacts
  <1>3. /\ \A m \in Nodes : m # n => run'[r].lifecycle[m] = run[r].lifecycle[m]
        /\ run'[r].lifecycle[n] = "Failed"
    BY <1>0, <1>1
  <1>4. \A m \in Nodes : NodeOK(run[r], m)
    BY DEF GoodLife
  <1>5. Ordered(run'[r])
    <2>1. \A m \in Nodes : Begun(run'[r], m) => Begun(run[r], m)
      BY <1>1, <1>2, <1>3 DEF Begun
    <2>2. QED
      BY <1>0, <1>1, <2>1, OrderedKept DEF GoodLife
  <1>6. ASSUME NEW m \in Nodes PROVE NodeOK(run'[r], m)
    <2>1. CASE m # n
      BY <1>1, <1>2, <1>3, <1>4, <2>1 DEF NodeOK
    <2>2. CASE m = n
      BY <1>1, <1>2, <1>3, <2>2 DEF NodeOK
    <2>3. QED
      BY <2>1, <2>2
  <1>7. QED
    BY <1>5, <1>6 DEF GoodLife

LEMMA RetryLives ==
    ASSUME TypeOK, ShapeInv, NEW r \in Runs, NEW n \in Nodes, GoodRun(run[r]), GoodLife(run[r]),
           Retry(r, n)
    PROVE  GoodLife(run'[r])
  <1>1. /\ run'[r].pc = "retry" /\ run'[r].cur = n
        /\ run'[r].inflight = run[r].inflight \ {n} /\ run'[r].queue = run[r].queue
        /\ run'[r].lifecycle = run[r].lifecycle /\ run'[r].results = run[r].results
    BY RetryFacts DEF SameNodes
  <1>2. /\ run[r].pc = "drain" /\ n \in run[r].inflight /\ run[r].queue = {}
        /\ run[r].lifecycle[n] = "Running" /\ run[r].results[n] = "none"
    BY InflightFacts DEF Retry
  <1>3. \A m \in Nodes : NodeOK(run[r], m)
    BY DEF GoodLife
  <1>4. Ordered(run'[r])
    BY <1>1 DEF GoodLife, Ordered, Begun
  <1>5. \A m \in Nodes : NodeOK(run'[r], m)
    BY <1>1, <1>2, <1>3 DEF NodeOK
  <1>6. QED
    BY <1>4, <1>5 DEF GoodLife

\* The node being rolled back has failed and has no result yet.
LEMMA RollbackFacts ==
    ASSUME NEW r \in Runs, GoodRun(run[r]), GoodLife(run[r]), run[r].pc = "rollback"
    PROVE  /\ run[r].cur \in Nodes /\ run[r].queue = {}
           /\ run[r].lifecycle[run[r].cur] = "Failed" /\ run[r].results[run[r].cur] = "none"
  <1>1. run[r].cur \in Nodes /\ run[r].queue = {}
    BY DEF GoodRun, RunTyped, CursorOK
  <1>2. NodeOK(run[r], run[r].cur)
    BY <1>1 DEF GoodLife
  <1>3. QED
    BY <1>1, <1>2 DEF NodeOK

LEMMA RecordFailureLives ==
    ASSUME TypeOK, ShapeInv, NEW r \in Runs, GoodRun(run[r]), GoodLife(run[r]), RecordFailure(r)
    PROVE  GoodLife(run'[r])
  <1>0. plan \in Plans /\ run[r].results \in [Nodes -> Results] /\ run[r].pc = "rollback"
    BY DEF TypeOK, GoodRun, RunTyped, RecordFailure
  <1>1. /\ DrainsOn(run'[r], run[r].inflight)
        /\ run'[r].lifecycle = run[r].lifecycle
        /\ run'[r].results = [run[r].results EXCEPT ![run[r].cur] = "Failed"]
        /\ run'[r].queue = run[r].queue
    BY RecordFailureFacts
  <1>2. /\ run[r].cur \in Nodes /\ run[r].queue = {}
        /\ run[r].lifecycle[run[r].cur] = "Failed" /\ run[r].results[run[r].cur] = "none"
    BY <1>0, RollbackFacts
  <1>3. run'[r].pc \in {"loop", "drain"} /\ run'[r].inflight = run[r].inflight
    BY <1>1 DEF DrainsOn
  <1>4. /\ \A m \in Nodes : m # run[r].cur => run'[r].results[m] = run[r].results[m]
        /\ run'[r].results[run[r].cur] = "Failed"
    BY <1>0, <1>1, <1>2
  <1>5. \A m \in Nodes : NodeOK(run[r], m)
    BY DEF GoodLife
  <1>6. Ordered(run'[r])
    <2>1. \A d \in Nodes : run[r].results[d] = "Succeeded" => run'[r].results[d] = "Succeeded"
      BY <1>2, <1>4
    <2>2. \A m \in Nodes : Begun(run'[r], m) => Begun(run[r], m)
      BY <1>1, <1>2, <1>4 DEF Begun
    <2>3. QED
      BY <1>0, <2>1, <2>2, OrderedKept DEF GoodLife
  <1>7. ASSUME NEW m \in Nodes PROVE NodeOK(run'[r], m)
    <2>1. CASE m # run[r].cur
      BY <1>0, <1>1, <1>2, <1>3, <1>4, <1>5, <2>1 DEF NodeOK
    <2>2. CASE m = run[r].cur
      BY <1>1, <1>2, <1>3, <1>4, <1>5, <2>2 DEF NodeOK
    <2>3. QED
      BY <2>1, <2>2
  <1>8. QED
    BY <1>6, <1>7 DEF GoodLife

LEMMA RunLives ==
    ASSUME TypeOK, ShapeInv, NEW r \in Runs, GoodLife(run[r]), ByRun(r)
    PROVE  GoodLife(run'[r])
  <1>1. GoodRun(run[r]) /\ plan \in Plans
    BY GoodParts DEF AllGood
  <1>2. CASE Failed(r)
    BY <1>1, <1>2, FailedFacts, DiesLives
  <1>3. CASE StopFailFast(r) \/ StopExhausted(r)
    BY <1>1, <1>3, StopLives
  <1>4. CASE Wave(r)
    BY <1>1, <1>4, WaveLives
  <1>5. CASE Start(r) \/ End(r) \/ Undo(r)
    BY <1>1, <1>5, MovesLives
  <1>6. CASE ClaimScope(r)
    BY <1>1, <1>6, ClaimScopeLives
  <1>7. CASE Spawn(r)
    BY <1>1, <1>7, SpawnLives
  <1>8. ASSUME NEW n \in Nodes, Accept(r, n) PROVE GoodLife(run'[r])
    BY <1>1, <1>8, AcceptLives
  <1>9. ASSUME NEW n \in Nodes, Draining(r, n), FinalFailure(r, n) PROVE GoodLife(run'[r])
    BY <1>1, <1>9, FinalFailureLives
  <1>10. ASSUME NEW n \in Nodes, Retry(r, n) PROVE GoodLife(run'[r])
    BY <1>1, <1>10, RetryLives
  <1>11. CASE RecordFailure(r)
    BY <1>1, <1>11, RecordFailureLives
  <1>12. QED
    BY <1>2, <1>3, <1>4, <1>5, <1>6, <1>7, <1>8, <1>9, <1>10, <1>11
    DEF ByRun, RunStep, ClaimConflict, ClaimFault, Raise, Reject, Fail

LEMMA LifeStep ==
    ASSUME TypeOK, ShapeInv, LifeInv, [Next]_vars
    PROVE  LifeInv'
  <1>1. \A r \in Runs : GoodLife(run[r])
    BY DEF LifeInv, GoodLife
  <1>2. plan' = plan /\ plan \in Plans /\ \A r \in Runs : GoodRun(run[r])
    BY AllGoodStep, GoodParts DEF AllGood
  <1>3. \A r \in Runs : GoodLife(run'[r])
    <2>1. ASSUME NEW r \in Runs, ByRun(r) PROVE \A x \in Runs : GoodLife(run'[x])
      BY <1>1, <2>1, RunLives, RunGood DEF Becomes
    <2>2. CASE Crash
      BY <1>1, <1>2, <2>2, CrashFacts, DiesLives
    <2>3. QED
      BY <1>1, <2>1, <2>2, NextCases DEF LeaseLapses, Resume, ResumeDone, vars
  <1>4. QED
    BY <1>2, <1>3 DEF LifeInv, GoodLife, Ordered, Begun, NodeOK

LEMMA InitLife == Init => LifeInv
  <1> SUFFICES ASSUME Init PROVE LifeInv
    OBVIOUS
  <1>1. \A r \in Runs : run[r] = FreshRun
    BY DEF Init
  <1>2. GoodLife(FreshRun)
    BY DEF GoodLife, FreshRun, Ordered, Begun, NodeOK
  <1>3. QED
    BY <1>1, <1>2 DEF LifeInv, GoodLife

\* Success runs backwards along the dependencies, so to every ancestor.
LEMMA AncestorsSucceeded ==
    ASSUME plan \in Plans, NEW q, GoodRun(q), GoodLife(q), NEW n \in Nodes, Begun(q, n)
    PROVE  \A a \in Ancestors(Nodes, plan.deps, n) : q.results[a] = "Succeeded"
  <1> DEFINE X == {m \in Nodes : q.results[m] = "Succeeded"}
  <1>1. plan.deps \in [Nodes -> SUBSET Nodes] /\ IsFiniteSet(Nodes)
    BY PlanFacts, NodeFacts
  <1>2. \A m \in Nodes : q.results[m] = "Succeeded" => Begun(q, m)
    BY NodeCases DEF Begun
  <1>3. \A m \in Nodes : Begun(q, m) => plan.deps[m] \subseteq X
    BY <1>1 DEF GoodLife, Ordered
  <1>4. \A m \in X : m \in Nodes => plan.deps[m] \subseteq X
    BY <1>2, <1>3
  <1>5. plan.deps[n] \subseteq X
    BY <1>3
  <1> HIDE DEF X
  <1>6. Ancestors(Nodes, plan.deps, n) \subseteq X
    BY <1>1, <1>4, <1>5, AncestorsWithin
  <1>7. QED
    BY <1>6 DEF X

PlanInv == TypeOK /\ ShapeInv /\ LifeInv

LEMMA PlanInvHolds == Spec => []PlanInv
  <1>1. Init => PlanInv
    BY InitShape, InitLife DEF PlanInv
  <1>2. PlanInv /\ [Next]_vars => PlanInv'
    BY ShapeStep, LifeStep DEF PlanInv
  <1>3. QED
    BY <1>1, <1>2, PTL DEF Spec

(***************************************************************************)
(* In every run of every plan, a node is in flight, succeeded or failed    *)
(* only after all its transitive ancestors succeeded (bookkeeping.rs       *)
(* ready set; gates.rs; record_successful_dispatch).                       *)
(***************************************************************************)
THEOREM RunsAfterAncestorsHolds == Spec => []RunsAfterAncestors
  <1>1. PlanInv => RunsAfterAncestors
    <2> SUFFICES ASSUME PlanInv, NEW r \in Runs, NEW n \in Nodes,
                        n \in run[r].inflight \/ run[r].results[n] \in {"Succeeded", "Failed"}
                 PROVE  \A a \in Ancestors(Nodes, plan.deps, n) : run[r].results[a] = "Succeeded"
      BY DEF RunsAfterAncestors
    <2>1. plan \in Plans /\ GoodRun(run[r]) /\ GoodLife(run[r])
      BY GoodParts DEF PlanInv, AllGood, LifeInv, GoodLife
    <2>2. NodeOK(run[r], n)
      BY <2>1 DEF GoodLife
    <2>3. Begun(run[r], n)
      BY <2>1, <2>2, NodeCases DEF NodeOK, Begun
    <2>4. QED
      BY <2>1, <2>3, AncestorsSucceeded
  <1>2. QED
    BY PlanInvHolds, <1>1, PTL

-----------------------------------------------------------------------------
(***************************************************************************)
(* Layer 3: taint, and what a run that ends leaves behind.                 *)
(***************************************************************************)
GoodTaint(q) == TaintOK(q) /\ EndOK(q)

\* Nothing begins or stops to taint, and no skip is out of place.
LEMMA TaintKept ==
    ASSUME NEW q, NEW q1, TaintOK(q), q1.tainted = q.tainted, q1.abort = q.abort,
           plan \in Plans, q.tainted \subseteq Nodes,
           \A n \in Nodes : q1.results[n] \in Tainters <=> q.results[n] \in Tainters,
           \A n \in Nodes : q.results[n] = "Failed" => q1.results[n] = "Failed",
           \A n \in Nodes : q1.results[n] = "SkippedUpstream" => n \in q.tainted,
           \A n \in Nodes : q1.results[n] = "SkippedFailFast" =>
              q.abort /\ n \notin q.tainted /\ q1.pc \in {"end", "ended", "failed"}
    PROVE  TaintOK(q1)
  <1>1. \A n, m \in Nodes :
           n \in plan.deps[m] /\ (n \in q1.tainted \/ q1.results[n] \in Tainters)
              => m \in q1.tainted
    BY DEF TaintOK
  <1>2. \A n \in q1.tainted :
           \E a \in Ancestors(Nodes, plan.deps, n) : q1.results[a] \in Tainters
    <2> TAKE n \in q1.tainted
    <2>1. PICK a \in Ancestors(Nodes, plan.deps, n) : q.results[a] \in Tainters
      BY DEF TaintOK
    <2>2. a \in Nodes
      BY PlanFacts, NodeFacts, AncestorsAreNodes
    <2>3. QED
      BY <2>1, <2>2
  <1>3. q1.abort => \E n \in Nodes : q1.results[n] = "Failed"
    BY DEF TaintOK
  <1>4. QED
    BY <1>1, <1>2, <1>3 DEF TaintOK

LEMMA NotAtEnd ==
    ASSUME NEW q, q.pc \notin {"end", "ended"}
    PROVE  EndOK(q)
  BY DEF EndOK

\* No fail-fast skip while the run is still at work.
LEMMA NoFailFastSkip ==
    ASSUME NEW q, TaintOK(q), q.pc \notin {"end", "ended", "failed"}
    PROVE  \A n \in Nodes : q.results[n] # "SkippedFailFast"
  BY DEF TaintOK

LEMMA DiesTaint ==
    ASSUME plan \in Plans, NEW q, NEW q1, GoodRun(q), GoodTaint(q), Dies(q1, q)
    PROVE  GoodTaint(q1)
  <1>1. /\ q1.results = q.results /\ q1.pc = "failed"
        /\ q1.tainted = q.tainted /\ q1.abort = q.abort
    BY DEF Dies, SameNodes, SameTaint
  <1>2. TaintOK(q) /\ q.tainted \subseteq Nodes
    BY DEF GoodTaint, GoodRun, RunTyped
  <1>3. TaintOK(q1)
    <2>1. /\ \A n \in Nodes : q.results[n] = "SkippedUpstream" => n \in q.tainted
          /\ \A n \in Nodes : q.results[n] = "SkippedFailFast" => q.abort /\ n \notin q.tainted
      BY <1>2 DEF TaintOK
    <2>2. QED
      BY <1>1, <1>2, <2>1, TaintKept
  <1>4. QED
    BY <1>1, <1>3, NotAtEnd DEF GoodTaint

\* The steps of a run that change no result.
LEMMA QuietTaint ==
    ASSUME plan \in Plans, NEW q, NEW q1, GoodRun(q), GoodTaint(q), q1.results = q.results,
           SameTaint(q1, q),
           q.pc \notin {"end", "ended", "failed"}, q1.pc \notin {"end", "ended", "failed"}
    PROVE  GoodTaint(q1)
  <1>1. q1.tainted = q.tainted /\ q1.abort = q.abort
    BY DEF SameTaint
  <1>2. TaintOK(q) /\ q.tainted \subseteq Nodes
    BY DEF GoodTaint, GoodRun, RunTyped
  <1>3. TaintOK(q1)
    <2>1. /\ \A n \in Nodes : q.results[n] = "SkippedUpstream" => n \in q.tainted
          /\ \A n \in Nodes : q.results[n] # "SkippedFailFast"
      BY <1>2, NoFailFastSkip DEF TaintOK
    <2>2. QED
      BY <1>1, <1>2, <2>1, TaintKept
  <1>4. QED
    BY <1>3, NotAtEnd DEF GoodTaint

LEMMA EndTaint ==
    ASSUME TypeOK, ShapeInv, NEW r \in Runs, GoodRun(run[r]), GoodTaint(run[r]), End(r)
    PROVE  GoodTaint(run'[r])
  <1>1. /\ run'[r].results = run[r].results /\ run'[r].lifecycle = run[r].lifecycle
        /\ run'[r].tainted = run[r].tainted /\ run'[r].abort = run[r].abort
        /\ run[r].pc = "end" /\ run'[r].pc = "ended"
    BY EndFacts DEF End, SameNodes, SameTaint
  <1>2. TaintOK(run[r]) /\ EndOK(run[r])
    BY DEF GoodTaint
  <1>3. TaintOK(run'[r])
    BY <1>1, <1>2 DEF TaintOK
  <1>4. EndOK(run'[r])
    BY <1>1, <1>2 DEF EndOK
  <1>5. QED
    BY <1>3, <1>4 DEF GoodTaint

LEMMA StopTaint ==
    ASSUME TypeOK, ShapeInv, NEW r \in Runs, GoodRun(run[r]), GoodLife(run[r]),
           GoodTaint(run[r]), StopFailFast(r) \/ StopExhausted(r)
    PROVE  GoodTaint(run'[r])
  <1>0. plan \in Plans /\ TaintOK(run[r]) /\ run[r].tainted \subseteq Nodes
    BY DEF TypeOK, GoodTaint, GoodRun, RunTyped
  <1>1. /\ run[r].pc = "loop" /\ run'[r].pc = "end"
        /\ run'[r].tainted = run[r].tainted /\ run'[r].abort = run[r].abort
    BY StopFailFastFacts, StopExhaustedFacts
    DEF StopFailFast, StopExhausted, Ends, SameTaint
  <1>2. /\ StopFailFast(r) => run[r].abort
        /\ StopExhausted(r) => ~run[r].abort /\ Ready(r) = {}
    BY DEF StopFailFast, StopExhausted
  <1>3. \A n \in Nodes :
          \/ /\ n \in run[r].tainted /\ run[r].lifecycle[n] = "Pending"
             /\ run'[r].lifecycle[n] = "Skipped" /\ run'[r].results[n] = "SkippedUpstream"
          \/ /\ n \notin run[r].tainted /\ run[r].lifecycle[n] = "Pending" /\ StopFailFast(r)
             /\ run'[r].lifecycle[n] = "Skipped" /\ run'[r].results[n] = "SkippedFailFast"
          \/ /\ run'[r].lifecycle[n] = run[r].lifecycle[n]
             /\ run'[r].results[n] = run[r].results[n]
             /\ run[r].lifecycle[n] = "Pending" => StopExhausted(r) /\ n \notin run[r].tainted
    BY StopNode
  <1>4. \A n \in Nodes : run[r].lifecycle[n] = "Pending" => run[r].results[n] = "none"
    BY DEF GoodLife, NodeOK
  <1>5. TaintOK(run'[r])
    <2>1. \A n \in Nodes : run[r].results[n] # "SkippedFailFast"
      BY <1>0, <1>1, NoFailFastSkip
    <2>2. \A n \in Nodes : run[r].results[n] = "SkippedUpstream" => n \in run[r].tainted
      BY <1>0 DEF TaintOK
    <2>3. /\ \A n \in Nodes : run'[r].results[n] \in Tainters <=> run[r].results[n] \in Tainters
          /\ \A n \in Nodes : run[r].results[n] = "Failed" => run'[r].results[n] = "Failed"
      BY <1>3, <1>4 DEF Tainters
    <2>4. /\ \A n \in Nodes : run'[r].results[n] = "SkippedUpstream" => n \in run[r].tainted
          /\ \A n \in Nodes : run'[r].results[n] = "SkippedFailFast" =>
               run[r].abort /\ n \notin run[r].tainted
      BY <1>2, <1>3, <2>1, <2>2
    <2>5. QED
      BY <1>0, <1>1, <2>3, <2>4, TaintKept
  <1>6. EndOK(run'[r])
    <2> SUFFICES ASSUME NEW n \in Nodes, run'[r].lifecycle[n] = "Pending"
                 PROVE  /\ n \notin run'[r].tainted /\ ~run'[r].abort
                        /\ \E d \in plan.deps[n] : run'[r].lifecycle[d] # "Succeeded"
      BY DEF EndOK
    <2>1. run[r].lifecycle[n] = "Pending" /\ StopExhausted(r) /\ n \notin run[r].tainted
      BY <1>3
    <2>2. n \notin Ready(r) /\ n \notin TaintedPending(r)
      BY <1>2, <2>1 DEF TaintedPending
    <2>3. PICK d \in plan.deps[n] : run[r].lifecycle[d] # "Succeeded"
      BY <2>1, <2>2 DEF Ready
    <2>4. d \in Nodes
      BY <1>0, <2>3, PlanFacts
    <2>5. run'[r].lifecycle[d] # "Succeeded"
      BY <1>3, <2>3, <2>4
    <2>6. QED
      BY <1>1, <1>2, <2>1, <2>5
  <1>7. QED
    BY <1>5, <1>6 DEF GoodTaint

\* The taint that a wave's conditions or a failure add: all that lies behind
\* the new tainters, and nothing else.
LEMMA TaintGrows ==
    ASSUME plan \in Plans, NEW q, NEW q1, TaintOK(q), q.tainted \subseteq Nodes,
           NEW C \in SUBSET Nodes,
           q1.tainted = q.tainted \cup UNION {PropagateTaint(Nodes, plan.deps, q.tainted, c) :
                                                c \in C},
           \A n \in Nodes : q1.results[n] \in Tainters <=> q.results[n] \in Tainters \/ n \in C,
           \A n \in Nodes : q1.results[n] = "SkippedUpstream" => n \in q.tainted,
           \A n \in Nodes : q1.results[n] # "SkippedFailFast",
           q1.abort => \E n \in Nodes : q1.results[n] = "Failed"
    PROVE  TaintOK(q1)
  <1> DEFINE T(c) == PropagateTaint(Nodes, plan.deps, q.tainted, c)
  <1>1. plan.deps \in [Nodes -> SUBSET Nodes] /\ IsFiniteSet(Nodes)
    BY PlanFacts, NodeFacts
  <1>2. \A n \in q.tainted, m \in Nodes : n \in plan.deps[m] => m \in q.tainted
    BY DEF TaintOK
  <1>3. ASSUME NEW c \in C
        PROVE  /\ q.tainted \subseteq T(c) /\ T(c) \subseteq Nodes
               /\ \A n \in T(c) \cup {c}, m \in Nodes : n \in plan.deps[m] => m \in T(c)
               /\ \A n \in T(c) \ q.tainted : c \in Ancestors(Nodes, plan.deps, n)
    <2>1. c \in Nodes /\ q.tainted \in SUBSET Nodes
      BY <1>3
    <2>2. TaintClosed(Nodes, plan.deps, q.tainted)
      BY <1>2 DEF TaintClosed
    <2>3. Taints(Nodes, plan.deps, q.tainted, c, T(c))
      BY <1>1, <2>1, <2>2, TaintIsDownstream
    <2> HIDE DEF T
    <2>4. QED
      BY <2>3 DEF Taints
  <1>4. q1.tainted = q.tainted \cup UNION {T(c) : c \in C}
    OBVIOUS
  <1> HIDE DEF T
  <1>5. ASSUME NEW n \in Nodes, NEW m \in Nodes, n \in plan.deps[m],
               n \in q1.tainted \/ q1.results[n] \in Tainters
        PROVE  m \in q1.tainted
    <2>1. CASE n \in q.tainted \/ q.results[n] \in Tainters
      BY <1>4, <1>5, <2>1 DEF TaintOK
    <2>2. CASE n \in C
      BY <1>3, <1>4, <1>5, <2>2
    <2>3. ASSUME NEW c \in C, n \in T(c) PROVE m \in q1.tainted
      BY <1>3, <1>4, <1>5, <2>3
    <2>4. QED
      BY <1>4, <1>5, <2>1, <2>2, <2>3
  <1>6. ASSUME NEW n \in q1.tainted
        PROVE  \E a \in Ancestors(Nodes, plan.deps, n) : q1.results[a] \in Tainters
    <2>1. CASE n \in q.tainted
      <3>1. PICK a \in Ancestors(Nodes, plan.deps, n) : q.results[a] \in Tainters
        BY <2>1 DEF TaintOK
      <3>2. a \in Nodes
        BY <1>1, <2>1, AncestorsAreNodes
      <3>3. QED
        BY <3>1, <3>2
    <2>2. CASE n \notin q.tainted
      <3>1. PICK c \in C : n \in T(c)
        BY <1>4, <1>6, <2>2
      <3>2. c \in Ancestors(Nodes, plan.deps, n)
        BY <1>3, <2>2, <3>1
      <3>3. QED
        BY <3>2
    <2>3. QED
      BY <2>1, <2>2
  <1>7. \A n \in Nodes : q1.results[n] = "SkippedUpstream" => n \in q1.tainted
    BY <1>4
  <1>8. QED
    BY <1>5, <1>6, <1>7 DEF TaintOK

LEMMA WaveTaint ==
    ASSUME TypeOK, ShapeInv, NEW r \in Runs, GoodRun(run[r]), GoodLife(run[r]),
           GoodTaint(run[r]), Wave(r)
    PROVE  GoodTaint(run'[r])
  <1>0. /\ plan \in Plans /\ TaintOK(run[r]) /\ run[r].tainted \subseteq Nodes
        /\ run[r].pc = "loop" /\ ~run[r].abort
    BY DEF TypeOK, GoodTaint, GoodRun, RunTyped, Wave
  <1>1. /\ run'[r].pc \in {"loop", "claim"} /\ run'[r].abort = run[r].abort
        /\ run'[r].tainted = run[r].tainted \cup
             UNION {PropagateTaint(Nodes, plan.deps, run[r].tainted, c) : c \in Conditional(r)}
    BY WaveFacts DEF Turns, ConditionTaint
  <1>2. Conditional(r) \in SUBSET Nodes /\ Conditional(r) \subseteq Ready(r)
        /\ ReviewGated(r) \subseteq Ready(r)
    BY <1>0, WaveTyped DEF GoodRun
  <1>3. \A n \in Ready(r) : n \notin TaintedPending(r) /\ run[r].lifecycle[n] = "Pending"
    BY <1>0, ReadyFacts
  <1>4. \A n \in Nodes : run[r].lifecycle[n] = "Pending" => run[r].results[n] = "none"
    BY DEF GoodLife, NodeOK
  <1>5. \A n \in Nodes :
          \/ n \in Conditional(r) /\ run'[r].results[n] = "SkippedCondition"
          \/ n \in ReviewGated(r) /\ run'[r].results[n] = "Paused"
          \/ /\ n \in TaintedPending(r) /\ n \in run[r].tainted
             /\ run[r].lifecycle[n] = "Pending" /\ run'[r].results[n] = "SkippedUpstream"
          \/ n \notin Conditional(r) /\ run'[r].results[n] = run[r].results[n]
    BY WaveNode
  <1>6. ReviewGated(r) \cap Conditional(r) = {}
    BY DEF ReviewGated, Conditional
  <1>7. \A n \in Nodes : run'[r].results[n] \in Tainters <=>
                            run[r].results[n] \in Tainters \/ n \in Conditional(r)
    BY <1>2, <1>3, <1>4, <1>5, <1>6 DEF Tainters
  <1>8. /\ \A n \in Nodes : run[r].results[n] # "SkippedFailFast"
        /\ \A n \in Nodes : run[r].results[n] = "SkippedUpstream" => n \in run[r].tainted
    BY <1>0, NoFailFastSkip DEF TaintOK
  <1>9. /\ \A n \in Nodes : run'[r].results[n] # "SkippedFailFast"
        /\ \A n \in Nodes : run'[r].results[n] = "SkippedUpstream" => n \in run[r].tainted
    BY <1>5, <1>8
  <1>10. TaintOK(run'[r])
    BY <1>0, <1>1, <1>2, <1>7, <1>9, TaintGrows
  <1>11. QED
    BY <1>1, <1>10, NotAtEnd DEF GoodTaint

LEMMA AcceptTaint ==
    ASSUME TypeOK, ShapeInv, NEW r \in Runs, NEW n \in Nodes, GoodRun(run[r]), GoodLife(run[r]),
           GoodTaint(run[r]), Accept(r, n)
    PROVE  GoodTaint(run'[r])
  <1>0. /\ plan \in Plans /\ TaintOK(run[r]) /\ run[r].tainted \subseteq Nodes
        /\ run[r].results \in [Nodes -> Results]
    BY DEF TypeOK, GoodTaint, GoodRun, RunTyped
  <1>1. PICK verdict \in {"Succeeded", "Paused"} :
              /\ DrainsOn(run'[r], run[r].inflight \ {n})
              /\ run'[r].lifecycle = [run[r].lifecycle EXCEPT ![n] = verdict]
              /\ run'[r].results = [run[r].results EXCEPT ![n] = verdict]
              /\ run'[r].queue = run[r].queue /\ run'[r].attempts = run[r].attempts
              /\ SameTaint(run'[r], run[r])
    BY AcceptFacts
  <1>2. run[r].pc = "drain" /\ run[r].results[n] = "none"
    BY InflightFacts DEF Accept
  <1>3. /\ run'[r].pc \in {"loop", "drain"}
        /\ run'[r].tainted = run[r].tainted /\ run'[r].abort = run[r].abort
    BY <1>1 DEF DrainsOn, SameTaint
  <1>4. /\ \A m \in Nodes : m # n => run'[r].results[m] = run[r].results[m]
        /\ run'[r].results[n] = verdict
    BY <1>0, <1>1
  <1>5. /\ \A m \in Nodes : run'[r].results[m] \in Tainters <=> run[r].results[m] \in Tainters
        /\ \A m \in Nodes : run[r].results[m] = "Failed" => run'[r].results[m] = "Failed"
    BY <1>2, <1>4 DEF Tainters
  <1>6. /\ \A m \in Nodes : run[r].results[m] # "SkippedFailFast"
        /\ \A m \in Nodes : run[r].results[m] = "SkippedUpstream" => m \in run[r].tainted
    BY <1>0, <1>2, NoFailFastSkip DEF TaintOK
  <1>7. /\ \A m \in Nodes : run'[r].results[m] # "SkippedFailFast"
        /\ \A m \in Nodes : run'[r].results[m] = "SkippedUpstream" => m \in run[r].tainted
    BY <1>4, <1>6
  <1>8. TaintOK(run'[r])
    BY <1>0, <1>3, <1>5, <1>7, TaintKept
  <1>9. QED
    BY <1>3, <1>8, NotAtEnd DEF GoodTaint

LEMMA RecordFailureTaint ==
    ASSUME TypeOK, ShapeInv, NEW r \in Runs, GoodRun(run[r]), GoodLife(run[r]),
           GoodTaint(run[r]), RecordFailure(r)
    PROVE  GoodTaint(run'[r])
  <1>0. /\ plan \in Plans /\ TaintOK(run[r]) /\ run[r].tainted \subseteq Nodes
        /\ run[r].results \in [Nodes -> Results] /\ run[r].pc = "rollback"
    BY DEF TypeOK, GoodTaint, GoodRun, RunTyped, RecordFailure
  <1>1. run[r].cur \in Nodes /\ run[r].results[run[r].cur] = "none"
    BY <1>0, RollbackFacts
  <1>2. /\ DrainsOn(run'[r], run[r].inflight)
        /\ run'[r].results = [run[r].results EXCEPT ![run[r].cur] = "Failed"]
        /\ run'[r].tainted = PropagateTaint(Nodes, plan.deps, run[r].tainted, run[r].cur)
    BY RecordFailureFacts
  <1>3. run'[r].pc \in {"loop", "drain"}
    BY <1>2 DEF DrainsOn
  <1>4. /\ \A m \in Nodes : m # run[r].cur => run'[r].results[m] = run[r].results[m]
        /\ run'[r].results[run[r].cur] = "Failed"
    BY <1>0, <1>1, <1>2
  <1> DEFINE C == {run[r].cur}
  <1>5. run'[r].tainted = run[r].tainted \cup
             UNION {PropagateTaint(Nodes, plan.deps, run[r].tainted, c) : c \in C}
    BY <1>2 DEF PropagateTaint
  <1>6. C \in SUBSET Nodes
    BY <1>1
  <1>7. \A n \in Nodes : run'[r].results[n] \in Tainters <=>
                            run[r].results[n] \in Tainters \/ n \in C
    BY <1>4 DEF Tainters
  <1>8. /\ \A m \in Nodes : run[r].results[m] # "SkippedFailFast"
        /\ \A m \in Nodes : run[r].results[m] = "SkippedUpstream" => m \in run[r].tainted
    BY <1>0, NoFailFastSkip DEF TaintOK
  <1>9. /\ \A m \in Nodes : run'[r].results[m] # "SkippedFailFast"
        /\ \A m \in Nodes : run'[r].results[m] = "SkippedUpstream" => m \in run[r].tainted
        /\ \E m \in Nodes : run'[r].results[m] = "Failed"
    BY <1>1, <1>4, <1>8
  <1> HIDE DEF C
  <1>10. TaintOK(run'[r])
    BY <1>0, <1>5, <1>6, <1>7, <1>9, TaintGrows
  <1>11. QED
    BY <1>3, <1>10, NotAtEnd DEF GoodTaint

LEMMA RunTaint ==
    ASSUME TypeOK, ShapeInv, NEW r \in Runs, GoodLife(run[r]), GoodTaint(run[r]), ByRun(r)
    PROVE  GoodTaint(run'[r])
  <1>1. GoodRun(run[r]) /\ plan \in Plans
    BY GoodParts DEF AllGood
  <1>2. CASE Failed(r)
    BY <1>1, <1>2, FailedFacts, DiesTaint
  <1>3. CASE StopFailFast(r) \/ StopExhausted(r)
    BY <1>1, <1>3, StopTaint
  <1>4. CASE Wave(r)
    BY <1>1, <1>4, WaveTaint
  <1>5. CASE End(r)
    BY <1>1, <1>5, EndTaint
  <1>6. ASSUME run'[r].results = run[r].results, SameTaint(run'[r], run[r]),
               run[r].pc \notin {"end", "ended", "failed"},
               run'[r].pc \notin {"end", "ended", "failed"}
        PROVE  GoodTaint(run'[r])
    BY <1>1, <1>6, QuietTaint
  <1>7. CASE Start(r) \/ Undo(r)
    <2>1. /\ run'[r].results = run[r].results /\ SameTaint(run'[r], run[r])
          /\ run[r].pc \in {"idle", "rollback"} /\ run'[r].pc \in {"loop", "rollback"}
      BY <1>7, StartFacts, UndoFacts DEF Start, Undo, SameNodes
    <2>2. QED
      BY <1>6, <2>1
  <1>8. CASE ClaimScope(r)
    <2>1. /\ run'[r].results = run[r].results /\ SameTaint(run'[r], run[r])
          /\ run[r].pc \in {"claim", "retry"} /\ run'[r].pc = run[r].pc
      BY <1>1, <1>8, ClaimScopeFacts DEF ClaimScope, Claiming, GoodRun, RunTyped
    <2>2. QED
      BY <1>6, <2>1
  <1>9. CASE Spawn(r)
    <2>1. /\ run'[r].results = run[r].results /\ SameTaint(run'[r], run[r])
          /\ run[r].pc \in {"claim", "retry"} /\ run'[r].pc \in {"claim", "drain"}
      BY <1>9, SpawnFacts DEF Spawn, Claiming, Turns
    <2>2. QED
      BY <1>6, <2>1
  <1>10. ASSUME NEW n \in Nodes, Accept(r, n) PROVE GoodTaint(run'[r])
    BY <1>1, <1>10, AcceptTaint
  <1>11. ASSUME NEW n \in Nodes, Draining(r, n), FinalFailure(r, n) PROVE GoodTaint(run'[r])
    <2>1. /\ run'[r].results = run[r].results /\ SameTaint(run'[r], run[r])
          /\ run[r].pc = "drain" /\ run'[r].pc = "rollback"
      BY <1>11, FinalFailureFacts DEF Draining
    <2>2. QED
      BY <1>6, <2>1
  <1>12. ASSUME NEW n \in Nodes, Retry(r, n) PROVE GoodTaint(run'[r])
    <2>1. /\ run'[r].results = run[r].results /\ SameTaint(run'[r], run[r])
          /\ run[r].pc = "drain" /\ run'[r].pc = "retry"
      BY <1>12, RetryFacts DEF Retry, Draining, SameNodes
    <2>2. QED
      BY <1>6, <2>1
  <1>13. CASE RecordFailure(r)
    BY <1>1, <1>13, RecordFailureTaint
  <1>14. QED
    BY <1>2, <1>3, <1>4, <1>5, <1>7, <1>8, <1>9, <1>10, <1>11, <1>12, <1>13
    DEF ByRun, RunStep, ClaimConflict, ClaimFault, Raise, Reject, Fail

LEMMA TaintStep ==
    ASSUME TypeOK, ShapeInv, LifeInv, TaintInv, [Next]_vars
    PROVE  TaintInv'
  <1>1. \A r \in Runs : GoodLife(run[r]) /\ GoodTaint(run[r])
    BY DEF LifeInv, GoodLife, TaintInv, GoodTaint
  <1>2. plan' = plan /\ plan \in Plans /\ \A r \in Runs : GoodRun(run[r])
    BY AllGoodStep, GoodParts DEF AllGood
  <1>3. \A r \in Runs : GoodTaint(run'[r])
    <2>1. ASSUME NEW r \in Runs, ByRun(r) PROVE \A x \in Runs : GoodTaint(run'[x])
      BY <1>1, <2>1, RunTaint, RunGood DEF Becomes
    <2>2. CASE Crash
      BY <1>1, <1>2, <2>2, CrashFacts, DiesTaint
    <2>3. QED
      BY <1>1, <2>1, <2>2, NextCases DEF LeaseLapses, Resume, ResumeDone, vars
  <1>4. QED
    BY <1>2, <1>3 DEF TaintInv, GoodTaint, TaintOK, EndOK

LEMMA InitTaint == Init => TaintInv
  <1> SUFFICES ASSUME Init PROVE TaintInv
    OBVIOUS
  <1>1. \A r \in Runs : run[r] = FreshRun
    BY DEF Init
  <1>2. GoodTaint(FreshRun)
    BY DEF GoodTaint, FreshRun, TaintOK, EndOK, Tainters
  <1>3. QED
    BY <1>1, <1>2 DEF TaintInv, GoodTaint

-----------------------------------------------------------------------------
(* What a run that ends answers.                                            *)

\* A node with a tainter among its ancestors is tainted, and conversely.
LEMMA BehindIsTainted ==
    ASSUME plan \in Plans, NEW q, GoodRun(q), TaintOK(q), NEW n \in Nodes
    PROVE  n \in q.tainted <=>
             \E a \in Ancestors(Nodes, plan.deps, n) : q.results[a] \in Tainters
  <1>1. plan.deps \in [Nodes -> SUBSET Nodes] /\ IsFiniteSet(Nodes)
    BY PlanFacts, NodeFacts
  <1>2. ASSUME n \notin q.tainted
        PROVE  \A a \in Ancestors(Nodes, plan.deps, n) : q.results[a] \notin Tainters
    <2> DEFINE X == {m \in Nodes : m \notin q.tainted /\ q.results[m] \notin Tainters}
    <2>1. \A m \in Nodes : m \notin q.tainted => plan.deps[m] \subseteq X
      BY <1>1 DEF TaintOK
    <2>2. plan.deps[n] \subseteq X /\ \A m \in X : m \in Nodes => plan.deps[m] \subseteq X
      BY <1>2, <2>1
    <2> HIDE DEF X
    <2>3. Ancestors(Nodes, plan.deps, n) \subseteq X
      BY <1>1, <2>2, AncestorsWithin
    <2>4. QED
      BY <2>3 DEF X
  <1>3. QED
    BY <1>2 DEF TaintOK

\* A node the run never got to is pending or skipped.
LEMMA NotBegun ==
    ASSUME NEW q, GoodRun(q), GoodLife(q), NEW n \in Nodes, ~Begun(q, n)
    PROVE  \/ q.lifecycle[n] = "Pending" /\ q.results[n] = "none"
           \/ q.lifecycle[n] = "Skipped" /\ q.results[n] \in {"SkippedUpstream", "SkippedFailFast"}
  <1>1. NodeOK(q, n) /\ q.lifecycle[n] \in Lifecycles
    BY DEF GoodLife, GoodRun, RunTyped
  <1>2. QED
    BY <1>1 DEF NodeOK, Begun, Lifecycles, Skips

\* A node behind an ancestor that has not succeeded is not begun.
LEMMA BlockedNotBegun ==
    ASSUME plan \in Plans, NEW q, GoodRun(q), GoodLife(q), NEW n \in Nodes,
           NEW a \in Ancestors(Nodes, plan.deps, n), q.results[a] # "Succeeded"
    PROVE  ~Begun(q, n)
  BY AncestorsSucceeded

LEMMA SkippedIsTainted ==
    ASSUME plan \in Plans, NEW q, GoodRun(q), GoodLife(q), GoodTaint(q), NEW n \in Nodes,
           q.pc \in {"end", "ended"}
    PROVE  q.results[n] = "SkippedUpstream" <=> n \in q.tainted
  <1>1. TaintOK(q) /\ EndOK(q)
    BY DEF GoodTaint
  <1>2. q.results[n] = "SkippedUpstream" => n \in q.tainted
    BY <1>1 DEF TaintOK
  <1>3. ASSUME n \in q.tainted PROVE q.results[n] = "SkippedUpstream"
    <2>1. PICK a \in Ancestors(Nodes, plan.deps, n) : q.results[a] \in Tainters
      BY <1>1, <1>3 DEF TaintOK
    <2>2. ~Begun(q, n)
      <3>1. q.results[a] # "Succeeded"
        BY <2>1 DEF Tainters
      <3>2. QED
        BY <3>1, BlockedNotBegun
    <2>3. q.lifecycle[n] # "Pending"
      BY <1>1, <1>3 DEF EndOK
    <2>4. q.results[n] # "SkippedFailFast"
      BY <1>1, <1>3 DEF TaintOK
    <2>5. QED
      BY <2>2, <2>3, <2>4, NotBegun
  <1>4. QED
    BY <1>2, <1>3

\* A node without a result is pending when its run ends.
LEMMA NoneIsPending ==
    ASSUME NEW q, GoodRun(q), GoodLife(q), NEW n \in Nodes, q.pc \in {"end", "ended"},
           q.results[n] = "none"
    PROVE  q.lifecycle[n] = "Pending"
  <1>1. NodeOK(q, n) /\ q.lifecycle[n] \in Lifecycles
    BY DEF GoodLife, GoodRun, RunTyped
  <1>2. q.lifecycle[n] \notin {"Claimed", "Running"}
    BY NodeCases
  <1>3. QED
    BY <1>1, <1>2 DEF NodeOK, Lifecycles, Skips

\* Behind a node without a result there is a pause: going back from it along
\* dependencies without a result must stop, and only a pause stops it.
LEMMA NoneIsPaused ==
    ASSUME plan \in Plans, NEW q, GoodRun(q), GoodLife(q), GoodTaint(q), NEW n \in Nodes,
           q.pc \in {"end", "ended"}, q.results[n] = "none"
    PROVE  /\ n \notin q.tainted /\ ~q.abort
           /\ \E a \in Ancestors(Nodes, plan.deps, n) : q.results[a] = "Paused"
  <1>0. /\ plan.deps \in [Nodes -> SUBSET Nodes] /\ IsFiniteSet(Nodes)
        /\ Acyclic(Nodes, plan.deps) /\ Nodes \in SUBSET Nat
    BY PlanFacts, NodeFacts
  <1>1. TaintOK(q) /\ EndOK(q)
    BY DEF GoodTaint
  <1>2. \A m \in Nodes : q.results[m] = "none" =>
           /\ m \notin q.tainted /\ ~q.abort
           /\ \E d \in plan.deps[m] : q.lifecycle[d] # "Succeeded"
    BY <1>1, NoneIsPending DEF EndOK
  <1> DEFINE A == Ancestors(Nodes, plan.deps, n)
             S == {m \in A \cup {n} : q.results[m] = "none"}
  <1>3. A \subseteq Nodes /\ plan.deps[n] \subseteq A /\ \A m \in A : plan.deps[m] \subseteq A
    BY <1>0, ReachClosed DEF Ancestors
  <1>4. S \in SUBSET Nodes /\ S # {}
    BY <1>3
  <1>5. PICK m \in S : plan.deps[m] \cap S = {}
    <2> HIDE DEF S
    <2>1. QED
      BY <1>0, <1>4, AcyclicWellFounded
  <1>6. PICK d \in plan.deps[m] : q.lifecycle[d] # "Succeeded"
    BY <1>2, <1>4
  <1>7. d \in A /\ d \in Nodes /\ q.results[d] # "none"
    BY <1>3, <1>5, <1>6
  <1>8. m \in Nodes /\ m \notin q.tainted /\ ~q.abort
    BY <1>2, <1>4
  <1>9. q.results[d] = "Paused"
    <2>1. q.results[d] \in Results
      BY <1>7 DEF GoodRun, RunTyped
    <2>2. q.results[d] # "Succeeded"
      BY <1>6, <1>7, NodeCases
    <2>3. d \notin q.tainted /\ q.results[d] \notin Tainters
      BY <1>1, <1>6, <1>7, <1>8 DEF TaintOK
    <2>4. q.results[d] # "SkippedUpstream" /\ q.results[d] # "SkippedFailFast"
      BY <1>1, <1>7, <1>8, <2>3 DEF TaintOK
    <2>5. QED
      BY <1>7, <2>1, <2>2, <2>3, <2>4 DEF Results, Tainters
  <1>10. QED
    BY <1>2, <1>7, <1>9

LEMMA PausedIsNone ==
    ASSUME plan \in Plans, NEW q, GoodRun(q), GoodLife(q), GoodTaint(q), NEW n \in Nodes,
           q.pc \in {"end", "ended"}, n \notin q.tainted, ~q.abort,
           NEW a \in Ancestors(Nodes, plan.deps, n), q.results[a] = "Paused"
    PROVE  q.results[n] = "none"
  <1>1. ~Begun(q, n)
    BY BlockedNotBegun
  <1>2. q.results[n] # "SkippedUpstream" /\ q.results[n] # "SkippedFailFast"
    BY DEF GoodTaint, TaintOK
  <1>3. QED
    BY <1>1, <1>2, NotBegun

DagInv == TypeOK /\ ShapeInv /\ LifeInv /\ TaintInv

LEMMA DagInvParts ==
    ASSUME DagInv, NEW r \in Runs
    PROVE  plan \in Plans /\ GoodRun(run[r]) /\ GoodLife(run[r]) /\ GoodTaint(run[r])
  BY GoodParts DEF DagInv, AllGood, LifeInv, GoodLife, TaintInv, GoodTaint

LEMMA DagInvHolds == Spec => []DagInv
  <1>1. Init => DagInv
    BY InitShape, InitLife, InitTaint DEF DagInv
  <1>2. DagInv /\ [Next]_vars => DagInv'
    BY ShapeStep, LifeStep, TaintStep DEF DagInv
  <1>3. QED
    BY <1>1, <1>2, PTL DEF Spec

LEMMA AccountsInv == DagInv => EveryNodeAccounted
  <1> SUFFICES ASSUME DagInv, NEW r \in Runs, run[r].pc \in {"end", "ended"}, NEW n \in Nodes
               PROVE  LET up == {run[r].results[a] : a \in Ancestors(Nodes, plan.deps, n)}
                          behindFailure == up \cap {"Failed", "SkippedCondition"} # {}
                      IN  /\ run[r].results[n] = "SkippedUpstream" <=> behindFailure
                          /\ run[r].results[n] = "SkippedFailFast" => run[r].abort
                          /\ run[r].results[n] = "none" <=>
                                "Paused" \in up /\ ~behindFailure /\ ~run[r].abort
    BY DEF EveryNodeAccounted
  <1> DEFINE A == Ancestors(Nodes, plan.deps, n)
             up == {run[r].results[a] : a \in A}
             behindFailure == up \cap {"Failed", "SkippedCondition"} # {}
  <1>1. plan \in Plans /\ GoodRun(run[r]) /\ GoodLife(run[r]) /\ GoodTaint(run[r])
    BY DagInvParts
  <1>2. behindFailure <=> \E a \in A : run[r].results[a] \in Tainters
    BY DEF Tainters
  <1>3. "Paused" \in up <=> \E a \in A : run[r].results[a] = "Paused"
    OBVIOUS
  <1>4. n \in run[r].tainted <=> \E a \in A : run[r].results[a] \in Tainters
    BY <1>1, BehindIsTainted DEF GoodTaint
  <1>5. run[r].results[n] = "SkippedUpstream" <=> n \in run[r].tainted
    BY <1>1, SkippedIsTainted
  <1>6. run[r].results[n] = "SkippedFailFast" => run[r].abort
    BY <1>1 DEF GoodTaint, TaintOK
  <1>7. run[r].results[n] = "none" =>
           /\ n \notin run[r].tainted /\ ~run[r].abort
           /\ \E a \in A : run[r].results[a] = "Paused"
    BY <1>1, NoneIsPaused
  <1>8. n \notin run[r].tainted /\ ~run[r].abort /\ (\E a \in A : run[r].results[a] = "Paused")
           => run[r].results[n] = "none"
    BY <1>1, PausedIsNone
  <1> HIDE DEF behindFailure, up, A
  <1>9. /\ run[r].results[n] = "SkippedUpstream" <=> behindFailure
        /\ run[r].results[n] = "SkippedFailFast" => run[r].abort
        /\ run[r].results[n] = "none" <=>
              "Paused" \in up /\ ~behindFailure /\ ~run[r].abort
    BY <1>2, <1>3, <1>4, <1>5, <1>6, <1>7, <1>8
  <1>10. QED
    BY <1>9 DEF behindFailure, up, A

(***************************************************************************)
(* The response of every run accounts for every node of every plan: taint  *)
(* is exactly what lies behind a failure or a condition, and a node is     *)
(* left without a result exactly behind a pause (skips.rs, gates.rs,       *)
(* scheduler.rs propagate_taint).                                          *)
(***************************************************************************)
THEOREM AccountsForEveryNode == Spec => []EveryNodeAccounted
  BY DagInvHolds, AccountsInv, PTL

-----------------------------------------------------------------------------
(* The plan row.                                                            *)

LEMMA EndedStays ==
    ASSUME TypeOK, ShapeInv, [Next]_vars, NEW r \in Runs, run[r].pc = "ended"
    PROVE  run'[r] = run[r]
  <1>1. ASSUME NEW x \in Runs, ByRun(x) PROVE run'[r] = run[r]
    <2>1. x # r
      <3>1. run[x].pc # "ended"
        BY <1>1
        DEF ByRun, RunStep, Start, StopFailFast, StopExhausted, Wave, ClaimScope, ClaimConflict,
            Spawn, Accept, Reject, Retry, Fail, Undo, RecordFailure, End,
            ClaimFault, Raise, Claiming, Draining
      <3>2. QED
        BY <3>1
    <2>2. QED
      BY <1>1, <2>1, RunGood DEF Becomes
  <1>2. CASE Crash
    BY <1>2 DEF Crash, Live
  <1>3. QED
    BY <1>1, <1>2, NextCases DEF LeaseLapses, Resume, ResumeDone, vars

\* What End writes is earned by the run that writes it.
LEMMA TargetEarned ==
    ASSUME DagInv, NEW r \in Runs, run[r].pc = "end"
    PROVE  LET target == TargetPlanStatus(run[r].results, run[r].abort)
           IN  /\ target = "succeeded" => \A n \in Nodes : run[r].results[n] = "Succeeded"
               /\ target = "failed" => \E n \in Nodes : run[r].results[n] = "Failed"
  <1>1. plan \in Plans /\ GoodRun(run[r]) /\ GoodLife(run[r]) /\ GoodTaint(run[r])
    BY DagInvParts
  <1>2. ASSUME AllSucceeded(run[r].results), NEW n \in Nodes
        PROVE  run[r].results[n] = "Succeeded"
    <2>1. \A m \in Nodes : run[r].results[m] \in {"none", "Succeeded"}
      BY <1>2 DEF AllSucceeded
    <2>2. ASSUME run[r].results[n] = "none" PROVE FALSE
      <3>1. PICK a \in Ancestors(Nodes, plan.deps, n) : run[r].results[a] = "Paused"
        BY <1>1, <2>2, NoneIsPaused
      <3>2. a \in Nodes
        BY <1>1, PlanFacts, NodeFacts, AncestorsAreNodes
      <3>3. QED
        BY <2>1, <3>1, <3>2
    <2>3. QED
      BY <2>1, <2>2
  <1>3. run[r].abort => AnyFailed(run[r].results)
    BY <1>1 DEF GoodTaint, TaintOK, AnyFailed
  <1>4. ASSUME TargetPlanStatus(run[r].results, run[r].abort) = "succeeded"
        PROVE  AllSucceeded(run[r].results)
    BY <1>4 DEF TargetPlanStatus
  <1>5. ASSUME TargetPlanStatus(run[r].results, run[r].abort) = "failed"
        PROVE  AnyFailed(run[r].results)
    BY <1>3, <1>5 DEF TargetPlanStatus
  <1>6. QED
    BY <1>2, <1>4, <1>5 DEF AnyFailed

LEMMA StatusStep ==
    ASSUME DagInv, PlanStatusEarned, [Next]_vars
    PROVE  PlanStatusEarned'
  <1>0. TypeOK /\ ShapeInv
    BY DEF DagInv
  <1>1. \A r \in Runs : run[r].pc = "ended" => run'[r] = run[r]
    BY <1>0, EndedStays
  <1>2. CASE status' = status
    BY <1>1, <1>2 DEF PlanStatusEarned
  <1>3. ASSUME NEW r \in Runs, End(r), status' # status PROVE PlanStatusEarned'
    <2>1. /\ run[r].pc = "end"
          /\ status' = TargetPlanStatus(run[r].results, run[r].abort)
      BY <1>3 DEF End
    <2>2. run'[r].pc = "ended" /\ run'[r].results = run[r].results
      BY <1>0, <1>3, EndFacts DEF SameNodes
    <2>3. /\ status' = "succeeded" => \A n \in Nodes : run[r].results[n] = "Succeeded"
          /\ status' = "failed" => \E n \in Nodes : run[r].results[n] = "Failed"
      BY <2>1, TargetEarned
    <2>4. QED
      BY <2>2, <2>3 DEF PlanStatusEarned
  <1>4. (\E r \in Runs : End(r)) \/ status' = status
    <2>1. ASSUME NEW r \in Runs, ByRun(r), ~End(r) PROVE status' = status
      BY <2>1
      DEF ByRun, RunStep, Start, StopFailFast, StopExhausted, Wave, ClaimScope, ClaimConflict,
          Spawn, Accept, Reject, Retry, Fail, FinalFailure, Undo, RecordFailure,
          ClaimFault, Raise
    <2>2. QED
      BY <2>1, NextCases DEF LeaseLapses, Crash, Resume, ResumeDone, vars
  <1>5. QED
    BY <1>2, <1>3, <1>4

(***************************************************************************)
(* The plan row says `succeeded' only if some run finished every node, and *)
(* `failed' only if some run has a failed node, whatever other runs wrote  *)
(* before (outcome/execution.rs target_plan_status).                       *)
(***************************************************************************)
THEOREM StatusIsEarned == Spec => []PlanStatusEarned
  <1>1. Init => PlanStatusEarned
    BY DEF Init, PlanStatusEarned
  <1>2. QED
    BY <1>1, StatusStep, DagInvHolds, PTL DEF Spec

-----------------------------------------------------------------------------
(***************************************************************************)
(* Layer 4: the leases.                                                    *)
(***************************************************************************)
\* A step of a run that begins no claim other than from its first scope: the
\* work on the nodes N goes on, and nothing else is in flight.
Steady(q1, q, N) ==
    /\ \A m \in N : \A a \in Nat : Backs(q, m, a) => Backs(q1, m, a)
    /\ \A m \in q1.inflight :
         /\ m \in N /\ q1.attempts[m] = q.attempts[m]
         /\ \/ m \in q.inflight
            \/ q.pc \in {"claim", "retry"} /\ m = q.cur /\ q.have = Len(plan.scopes[m])
    /\ q1.pc \in {"claim", "retry"} => q1.have = 0

LEMMA DiesSteady ==
    ASSUME NEW q, NEW q1, Dies(q1, q)
    PROVE  Steady(q1, q, Nodes)
  BY DEF Dies, Steady, Backs

LEMMA SpawnSteady ==
    ASSUME TypeOK, ShapeInv, NEW r \in Runs, GoodRun(run[r]), Spawn(r)
    PROVE  Steady(run'[r], run[r], Nodes)
  <1>1. /\ run'[r].inflight = run[r].inflight \cup {run[r].cur}
        /\ Turns(run'[r], run[r].queue \ {run[r].cur}, "drain", run[r])
    BY SpawnFacts
  <1>2. /\ run[r].pc \in {"claim", "retry"} /\ run[r].cur \in Nodes
        /\ run[r].have = Len(plan.scopes[run[r].cur])
        /\ run[r].queue \cap run[r].inflight = {} /\ run[r].inflight \subseteq Nodes
        /\ run[r].queue \subseteq Nodes /\ run[r].attempts \in [Nodes -> Nat]
    BY DEF Spawn, Claiming, GoodRun, RunTyped, CursorOK
  <1>3. \A m \in run'[r].inflight : run'[r].attempts[m] = run[r].attempts[m]
    <2>1. CASE run[r].queue \ {run[r].cur} = {}
      BY <1>1, <2>1 DEF Turns
    <2>2. CASE run[r].queue \ {run[r].cur} # {}
      <3>1. PICK l : l = Least(run[r].queue \ {run[r].cur})
        OBVIOUS
      <3>2. l \in run[r].queue \ {run[r].cur}
        BY <1>2, <2>2, <3>1, NodeFacts
      <3>3. run'[r].attempts = [run[r].attempts EXCEPT ![l] = @ + 1]
        BY <1>1, <2>2, <3>1 DEF Turns
      <3>4. \A m \in run'[r].inflight : m # l /\ m \in Nodes
        BY <1>1, <1>2, <3>2
      <3>5. QED
        BY <1>2, <3>3, <3>4
    <2>3. QED
      BY <2>1, <2>2
  <1>4. run'[r].have = 0
    BY <1>1 DEF Turns
  <1>5. QED
    BY <1>1, <1>2, <1>3, <1>4 DEF Steady, Backs

LEMMA QuietSteady ==
    ASSUME TypeOK, ShapeInv, NEW r \in Runs, GoodRun(run[r]),
           \/ Start(r) \/ End(r) \/ Undo(r) \/ StopFailFast(r) \/ StopExhausted(r) \/ Wave(r)
           \/ Spawn(r) \/ RecordFailure(r) \/ Failed(r)
    PROVE  Steady(run'[r], run[r], Nodes)
  <1>0. run[r].inflight \subseteq Nodes
    BY DEF GoodRun, RunTyped
  <1>1. CASE Failed(r)
    BY <1>1, FailedFacts, DiesSteady
  <1>2. CASE Spawn(r)
    BY <1>2, SpawnSteady
  <1>3. CASE Start(r) \/ End(r) \/ StopFailFast(r) \/ StopExhausted(r)
    <2>1. run[r].pc \in {"idle", "end", "loop"} /\ run'[r].pc \in {"loop", "ended", "end"}
          /\ run'[r].inflight = run[r].inflight
      BY <1>3, StartFacts, EndFacts, StopFailFastFacts, StopExhaustedFacts
      DEF Start, End, StopFailFast, StopExhausted, Ends, SameWork
    <2>2. run[r].inflight = {}
      BY <2>1 DEF GoodRun, CursorOK
    <2>3. QED
      BY <2>1, <2>2 DEF Steady, Backs
  <1>4. CASE Wave(r)
    <2>1. /\ run[r].pc = "loop" /\ run'[r].pc \in {"loop", "claim"} /\ run'[r].have = 0
          /\ run'[r].inflight = run[r].inflight
      BY <1>4, WaveFacts DEF Wave, Turns
    <2>2. run[r].inflight = {}
      BY <2>1 DEF GoodRun, CursorOK
    <2>3. QED
      BY <2>1, <2>2 DEF Steady, Backs
  <1>5. CASE Undo(r) \/ RecordFailure(r)
    <2>1. /\ run[r].pc = "rollback" /\ run'[r].pc \in {"rollback", "loop", "drain"}
          /\ run'[r].inflight = run[r].inflight /\ run'[r].attempts = run[r].attempts
      BY <1>5, UndoFacts, RecordFailureFacts DEF Undo, RecordFailure, DrainsOn, SameWork
    <2>2. QED
      BY <1>0, <2>1 DEF Steady, Backs
  <1>6. QED
    BY <1>1, <1>2, <1>3, <1>4, <1>5

LEMMA ReleaseSteady ==
    ASSUME TypeOK, ShapeInv, NEW r \in Runs, NEW n \in Nodes, GoodRun(run[r]), Draining(r, n),
           Accept(r, n) \/ FinalFailure(r, n) \/ Retry(r, n)
    PROVE  Steady(run'[r], run[r], Nodes \ {n})
  <1>0. /\ run[r].inflight \subseteq Nodes /\ run[r].pc = "drain"
        /\ run[r].attempts \in [Nodes -> Nat]
    BY DEF GoodRun, RunTyped, Draining
  <1>1. CASE Accept(r, n)
    <2>1. /\ run'[r].inflight = run[r].inflight \ {n} /\ run'[r].pc \in {"loop", "drain"}
          /\ run'[r].attempts = run[r].attempts
      BY <1>1, AcceptFacts DEF DrainsOn
    <2>2. QED
      BY <1>0, <2>1 DEF Steady, Backs
  <1>2. CASE FinalFailure(r, n)
    <2>1. /\ run'[r].inflight = run[r].inflight \ {n} /\ run'[r].pc = "rollback"
          /\ run'[r].attempts = run[r].attempts
      BY <1>2, FinalFailureFacts
    <2>2. QED
      BY <1>0, <2>1 DEF Steady, Backs
  <1>3. CASE Retry(r, n)
    <2>1. /\ run'[r].inflight = run[r].inflight \ {n} /\ run'[r].pc = "retry"
          /\ run'[r].have = 0 /\ run'[r].attempts = [run[r].attempts EXCEPT ![n] = @ + 1]
      BY <1>3, RetryFacts
    <2>2. \A m \in Nodes \ {n} : run'[r].attempts[m] = run[r].attempts[m]
      BY <1>0, <2>1
    <2>3. QED
      BY <1>0, <2>1, <2>2 DEF Steady, Backs
  <1>4. QED
    BY <1>1, <1>2, <1>3

\* The leases of the claim of attempt a of node n by run x survive the step.
Keeps(x, n, a) ==
    [run |-> x, node |-> n, attempt |-> a] \notin lost =>
        \A s \in Scopes : Holds(leases[s], x, n, a) => Holds(leases'[s], x, n, a)

LEMMA HeldKept ==
    ASSUME plan \in Plans, plan' = plan, lost \subseteq lost', NEW x \in Runs, NEW n \in Nodes,
           NEW k \in Nat, k <= Len(plan.scopes[n]), Held(x, n, k),
           run'[x].attempts[n] = run[x].attempts[n], Keeps(x, n, run[x].attempts[n])
    PROVE  Held(x, n, k)'
  <1>1. PICK a : a = run[x].attempts[n]
    OBVIOUS
  <1>2. plan.scopes[n] \in Seq(Scopes)
    BY PlanFacts
  <1>3. \A i \in 1..k : plan.scopes[n][i] \in Scopes
    BY <1>2
  <1>4. ASSUME [run |-> x, node |-> n, attempt |-> a] \notin lost', NEW i \in 1..k
        PROVE  Holds(leases'[plan.scopes[n][i]], x, n, a)
    <2>1. [run |-> x, node |-> n, attempt |-> a] \notin lost
      BY <1>4
    <2>2. Holds(leases[plan.scopes[n][i]], x, n, a)
      BY <1>1, <2>1 DEF Held, ClaimOf
    <2>3. QED
      BY <1>1, <1>3, <2>1, <2>2 DEF Keeps
  <1>5. run'[x].attempts[n] = a
    BY <1>1
  <1>6. QED
    BY <1>4, <1>5 DEF Held, ClaimOf, Holds

\* A node in flight holds all its scopes.
LEMMA FlightHeld ==
    ASSUME plan \in Plans, plan' = plan, lost \subseteq lost', NEW x \in Runs, NEW n \in Nodes,
           Held(x, n, Len(plan.scopes[n])),
           run'[x].attempts[n] = run[x].attempts[n], Keeps(x, n, run[x].attempts[n])
    PROVE  Held(x, n, Len(plan.scopes[n]))'
  <1>1. PICK k : k = Len(plan.scopes[n])
    OBVIOUS
  <1>2. k \in Nat /\ k <= Len(plan.scopes[n])
    BY <1>1, PlanFacts
  <1>3. Held(x, n, k)
    BY <1>1
  <1>4. Held(x, n, k)'
    BY <1>2, <1>3, HeldKept
  <1>5. Len(plan'.scopes[n]) = k
    BY <1>1
  <1>6. QED
    BY <1>4, <1>5

LEMMA WorkSame ==
    ASSUME plan \in Plans, plan' = plan, lost \subseteq lost', NEW x \in Runs, GoodRun(run[x]),
           WorkOf(x), run'[x] = run[x], \A n \in Nodes : Keeps(x, n, run[x].attempts[n])
    PROVE  WorkOf(x)'
  <1>0. run[x].inflight \subseteq Nodes
    BY DEF GoodRun, RunTyped
  <1>1. ASSUME NEW n \in run[x].inflight PROVE Held(x, n, Len(plan.scopes[n]))'
    <2>1. n \in Nodes /\ Held(x, n, Len(plan.scopes[n]))
      BY <1>0, <1>1 DEF WorkOf
    <2>2. QED
      BY <2>1, FlightHeld
  <1>2. ASSUME run[x].pc \in {"claim", "retry"} PROVE Held(x, run[x].cur, run[x].have)'
    <2>1. PICK n, k : n = run[x].cur /\ k = run[x].have
      OBVIOUS
    <2>2. n \in Nodes /\ k \in Nat /\ k <= Len(plan.scopes[n])
      BY <1>2, <2>1 DEF GoodRun, RunTyped, CursorOK
    <2>3. Held(x, n, k)
      BY <1>2, <2>1 DEF WorkOf
    <2>4. Held(x, n, k)'
      BY <2>2, <2>3, HeldKept
    <2>5. run'[x].cur = n /\ run'[x].have = k
      BY <2>1
    <2>6. QED
      BY <2>4, <2>5
  <1>3. QED
    BY <1>1, <1>2 DEF WorkOf

LEMMA WorkSteady ==
    ASSUME plan \in Plans, plan' = plan, lost \subseteq lost', NEW x \in Runs, GoodRun(run[x]),
           WorkOf(x), NEW N \in SUBSET Nodes, Steady(run'[x], run[x], N),
           \A n \in N : Keeps(x, n, run[x].attempts[n])
    PROVE  WorkOf(x)'
  <1>1. ASSUME NEW n \in run'[x].inflight PROVE Held(x, n, Len(plan.scopes[n]))'
    <2>1. /\ n \in N /\ n \in Nodes /\ run'[x].attempts[n] = run[x].attempts[n]
          /\ \/ n \in run[x].inflight
             \/ run[x].pc \in {"claim", "retry"} /\ n = run[x].cur
                /\ run[x].have = Len(plan.scopes[n])
      BY <1>1 DEF Steady
    <2>2. Held(x, n, Len(plan.scopes[n]))
      BY <2>1 DEF WorkOf
    <2>3. QED
      BY <2>1, <2>2, FlightHeld
  <1>2. ASSUME run'[x].pc \in {"claim", "retry"} PROVE Held(x, run[x].cur, run[x].have)'
    <2>1. run'[x].have = 0
      BY <1>2 DEF Steady
    <2>2. 1..run'[x].have = {}
      BY <2>1
    <2>3. QED
      BY <2>2 DEF Held
  <1>3. QED
    BY <1>1, <1>2 DEF WorkOf

\* A lease that the step leaves alone.
LEMMA AccountedKept ==
    ASSUME TypeOK, ShapeInv, NEW s \in Scopes, Accounted(s), leaked \subseteq leaked',
           LeaseClaim(leases'[s]) = LeaseClaim(leases[s]), leases[s] # NoLease,
           LET l == leases[s]
           IN  Backs(run[l.run], l.node, l.attempt) => Backs(run'[l.run], l.node, l.attempt)
    PROVE  Accounted(s)'
  <1> DEFINE l == leases[s]
             l1 == leases'[s]
  <1>1. l1.run = l.run /\ l1.node = l.node /\ l1.attempt = l.attempt
    BY DEF LeaseClaim
  <1>2. LeaseClaim(l) \in leaked \/ Backs(run[l.run], l.node, l.attempt)
    BY DEF Accounted
  <1>3. LeaseClaim(l1) \in leaked' \/ Backs(run'[l1.run], l1.node, l1.attempt)
    BY <1>1, <1>2
  <1>4. QED
    BY <1>3 DEF Accounted, LeaseClaim, Backs

LEMMA LeaseFacts ==
    ASSUME ShapeInv, NEW s \in Scopes, leases[s] # NoLease
    PROVE  /\ leases[s].run \in Runs /\ leases[s].node \in Nodes
           /\ leases[s].attempt \in Nat \ {0}
  BY DEF ShapeInv, Lease

\* A step that leaves the table alone.
LEMMA QuietLeases ==
    ASSUME TypeOK, ShapeInv, LeaseInv, plan' = plan, UNCHANGED <<leases, lost, leaked>>,
           \A x \in Runs : run'[x] = run[x] \/ Steady(run'[x], run[x], Nodes)
    PROVE  LeaseInv'
  <1>0. plan \in Plans /\ \A x \in Runs : GoodRun(run[x])
    BY GoodParts DEF AllGood
  <1>1. \A x \in Runs : \A n \in Nodes : Keeps(x, n, run[x].attempts[n])
    BY DEF Keeps
  <1>2. ASSUME NEW x \in Runs PROVE WorkOf(x)'
    <2>1. WorkOf(x) /\ lost \subseteq lost' /\ Nodes \in SUBSET Nodes
      BY DEF LeaseInv
    <2>2. CASE run'[x] = run[x]
      BY <1>0, <1>1, <2>1, <2>2, WorkSame
    <2>3. CASE Steady(run'[x], run[x], Nodes)
      BY <1>0, <1>1, <2>1, <2>3, WorkSteady
    <2>4. QED
      BY <2>2, <2>3
  <1>3. \A s \in Scopes : (leases[s].lapsed => LeaseClaim(leases[s]) \in lost)'
    BY DEF LeaseInv, LeaseClaim
  <1>4. ASSUME NEW s \in Scopes PROVE Accounted(s)'
    <2>1. CASE leases[s] = NoLease
      BY <2>1 DEF Accounted
    <2>2. CASE leases[s] # NoLease
      <3>1. /\ leases[s].run \in Runs /\ leases[s].node \in Nodes
            /\ leases[s].attempt \in Nat \ {0}
        BY <2>2, LeaseFacts
      <3>2. Backs(run[leases[s].run], leases[s].node, leases[s].attempt)
               => Backs(run'[leases[s].run], leases[s].node, leases[s].attempt)
        BY <3>1 DEF Steady
      <3>3. Accounted(s) /\ leaked \subseteq leaked'
        BY DEF LeaseInv
      <3>4. LeaseClaim(leases'[s]) = LeaseClaim(leases[s])
        OBVIOUS
      <3>5. QED
        BY <2>2, <3>2, <3>3, <3>4, AccountedKept
    <2>3. QED
      BY <2>1, <2>2
  <1>5. QED
    BY <1>2, <1>3, <1>4 DEF LeaseInv

\* A lease that lapses is lost, and stays in its row until it is claimed.
LEMMA LapseLeases ==
    ASSUME TypeOK, ShapeInv, LeaseInv, NEW s \in Scopes, LeaseLapses(s)
    PROVE  LeaseInv'
  <1>0. plan \in Plans /\ \A x \in Runs : GoodRun(run[x])
    BY GoodParts DEF AllGood
  <1>1. /\ UNCHANGED <<plan, run, leaked>> /\ leases[s] # NoLease
        /\ leases' = [leases EXCEPT ![s] = [leases[s] EXCEPT !.lapsed = TRUE]]
        /\ lost' = lost \cup {LeaseClaim(leases[s])}
    BY DEF LeaseLapses, LeaseClaim
  <1>2. leases \in [Scopes -> {NoLease} \cup Lease] /\ leases[s] \in Lease
    BY <1>1 DEF ShapeInv
  <1>3. /\ leases'[s].run = leases[s].run /\ leases'[s].node = leases[s].node
        /\ leases'[s].attempt = leases[s].attempt
        /\ \A t \in Scopes : t # s => leases'[t] = leases[t]
    BY <1>1, <1>2 DEF Lease
  <1>4. \A x \in Runs : WorkOf(x)'
    <2> TAKE x \in Runs
    <2>1. \A n \in Nodes : Keeps(x, n, run[x].attempts[n])
      BY <1>3 DEF Keeps, Holds
    <2>2. WorkOf(x) /\ lost \subseteq lost' /\ run'[x] = run[x] /\ plan' = plan
      BY <1>1 DEF LeaseInv
    <2>3. QED
      BY <1>0, <2>1, <2>2, WorkSame
  <1>5. \A t \in Scopes : leases'[t].lapsed => LeaseClaim(leases'[t]) \in lost'
    BY <1>1, <1>3 DEF LeaseInv, LeaseClaim
  <1>6. ASSUME NEW t \in Scopes PROVE Accounted(t)'
    <2>1. CASE leases[t] = NoLease
      BY <1>1, <1>3, <2>1 DEF Accounted
    <2>2. CASE leases[t] # NoLease
      <3>1. LeaseClaim(leases'[t]) = LeaseClaim(leases[t])
        BY <1>3 DEF LeaseClaim
      <3>2. Backs(run[leases[t].run], leases[t].node, leases[t].attempt)
               => Backs(run'[leases[t].run], leases[t].node, leases[t].attempt)
        BY <1>1
      <3>3. Accounted(t) /\ leaked \subseteq leaked'
        BY <1>1 DEF LeaseInv
      <3>4. QED
        BY <2>2, <3>1, <3>2, <3>3, AccountedKept
    <2>3. QED
      BY <2>1, <2>2
  <1>7. QED
    BY <1>4, <1>5, <1>6 DEF LeaseInv, LeaseClaim

\* What a release does: rows of other claims stay, rows of this one go or leak.
LEMMA ReleaseFacts ==
    ASSUME ShapeInv, NEW r \in Runs, NEW n \in Nodes, ReleaseClaim(r, n)
    PROVE  /\ leaked \subseteq leaked'
           /\ \A s \in Scopes :
                \/ leases'[s] = leases[s] /\ ~Holds(leases[s], r, n, run[r].attempts[n])
                \/ leases'[s] = NoLease /\ Holds(leases[s], r, n, run[r].attempts[n])
                \/ leases'[s] = leases[s] /\ LeaseClaim(leases[s]) \in leaked'
  <1> DEFINE c == ClaimOf(r, n)
             held == {s \in Scopes : HeldBy(s, c)}
  <1>1. PICK stuck \in SUBSET held :
          /\ leaked' = IF stuck = {} THEN leaked ELSE leaked \cup {c}
          /\ leases' = [s \in Scopes |-> IF s \in held \ stuck THEN NoLease ELSE leases[s]]
    BY Zenon DEF ReleaseClaim
  <1>2. \A s \in Scopes : s \in held <=> Holds(leases[s], r, n, run[r].attempts[n])
    BY DEF HeldBy, ClaimOf, Holds
  <1>3. \A s \in held : LeaseClaim(leases[s]) = c
    BY DEF HeldBy, ClaimOf, LeaseClaim
  <1> HIDE DEF c, held
  <1>4. \A s \in stuck : LeaseClaim(leases[s]) \in leaked'
    BY <1>1, <1>3
  <1>5. leaked \subseteq leaked'
    BY <1>1
  <1>6. QED
    BY <1>1, <1>2, <1>4, <1>5

LEMMA ReleaseLeases ==
    ASSUME TypeOK, ShapeInv, LeaseInv, plan' = plan, lost' = lost, NEW r \in Runs, NEW n \in Nodes,
           Draining(r, n), Accept(r, n) \/ FinalFailure(r, n) \/ Retry(r, n),
           Becomes(r, run'[r])
    PROVE  LeaseInv'
  <1>0. plan \in Plans /\ \A x \in Runs : GoodRun(run[x])
    BY GoodParts DEF AllGood
  <1>1. ReleaseClaim(r, n)
    BY DEF Accept, FinalFailure, Retry
  <1>2. /\ leaked \subseteq leaked'
        /\ \A s \in Scopes :
             \/ leases'[s] = leases[s] /\ ~Holds(leases[s], r, n, run[r].attempts[n])
             \/ leases'[s] = NoLease /\ Holds(leases[s], r, n, run[r].attempts[n])
             \/ leases'[s] = leases[s] /\ LeaseClaim(leases[s]) \in leaked'
    BY <1>1, ReleaseFacts
  <1>3. Steady(run'[r], run[r], Nodes \ {n})
    BY <1>0, ReleaseSteady
  <1>4. \A x \in Runs : \A m \in Nodes : x # r \/ m # n => Keeps(x, m, run[x].attempts[m])
    BY <1>2 DEF Keeps, Holds
  <1>5. ASSUME NEW x \in Runs PROVE WorkOf(x)'
    <2>1. WorkOf(x) /\ lost \subseteq lost'
      BY DEF LeaseInv
    <2>2. CASE x # r
      <3>1. run'[x] = run[x] /\ \A m \in Nodes : Keeps(x, m, run[x].attempts[m])
        BY <1>4, <2>2 DEF Becomes
      <3>2. QED
        BY <1>0, <2>1, <3>1, WorkSame
    <2>3. CASE x = r
      <3>1. \A m \in Nodes \ {n} : Keeps(x, m, run[x].attempts[m])
        BY <1>4
      <3>2. Nodes \ {n} \in SUBSET Nodes /\ Steady(run'[x], run[x], Nodes \ {n})
        BY <1>3, <2>3
      <3>3. QED
        BY <1>0, <2>1, <3>1, <3>2, WorkSteady
    <2>4. QED
      BY <2>2, <2>3
  <1>6. \A s \in Scopes : leases'[s].lapsed => LeaseClaim(leases'[s]) \in lost'
    <2>1. ~NoLease.lapsed
      BY DEF NoLease
    <2>2. QED
      BY <1>2, <2>1 DEF LeaseInv
  <1>7. ASSUME NEW s \in Scopes PROVE Accounted(s)'
    <2>1. CASE leases'[s] = NoLease
      BY <2>1 DEF Accounted
    <2>2. CASE leases'[s] = leases[s] /\ LeaseClaim(leases[s]) \in leaked'
      BY <2>2 DEF Accounted, LeaseClaim
    <2>3. CASE /\ leases[s] # NoLease /\ leases'[s] = leases[s]
               /\ ~Holds(leases[s], r, n, run[r].attempts[n])
      <3>1. /\ leases[s].run \in Runs /\ leases[s].node \in Nodes
            /\ leases[s].attempt \in Nat \ {0}
        BY <2>3, LeaseFacts
      <3>2. run[r].pc = "drain"
        BY DEF Draining
      <3>3. Backs(run[leases[s].run], leases[s].node, leases[s].attempt)
               => Backs(run'[leases[s].run], leases[s].node, leases[s].attempt)
        <4>1. CASE leases[s].run # r
          BY <3>1, <4>1 DEF Becomes
        <4>2. CASE leases[s].run = r /\ leases[s].node # n
          BY <1>3, <3>1, <4>2 DEF Steady
        <4>3. CASE leases[s].run = r /\ leases[s].node = n
          BY <2>3, <3>2, <4>3 DEF Backs, Holds
        <4>4. QED
          BY <4>1, <4>2, <4>3
      <3>4. Accounted(s) /\ LeaseClaim(leases'[s]) = LeaseClaim(leases[s])
        BY <2>3 DEF LeaseInv
      <3>5. QED
        BY <1>2, <2>3, <3>3, <3>4, AccountedKept
    <2>4. QED
      BY <1>2, <2>1, <2>2, <2>3
  <1>8. QED
    BY <1>5, <1>6, <1>7 DEF LeaseInv, LeaseClaim

\* A claim takes a row that is free or lapsed, so from nobody who relies on it.
LEMMA ClaimLeases ==
    ASSUME TypeOK, ShapeInv, LeaseInv, plan' = plan, NEW r \in Runs, ClaimScope(r)
    PROVE  LeaseInv'
  <1>0. plan \in Plans /\ \A x \in Runs : GoodRun(run[x])
    BY GoodParts DEF AllGood
  <1>1. PICK n, a, h, s0 : /\ n = run[r].cur /\ a = run[r].attempts[run[r].cur]
                           /\ h = run[r].have /\ s0 = NextScope(r)
    OBVIOUS
  <1>2. /\ run[r].pc \in {"claim", "retry"} /\ n \in Nodes /\ h \in Nat
        /\ h < Len(plan.scopes[n]) /\ s0 = plan.scopes[n][h + 1] /\ a = run[r].attempts[n]
        /\ n \notin run[r].inflight /\ run[r].inflight \subseteq Nodes
    BY <1>0, <1>1 DEF ClaimScope, Claiming, NextScope, GoodRun, RunTyped, CursorOK
  <1>3. plan.scopes[n] \in Seq(Scopes) /\ Len(plan.scopes[n]) \in Nat
    BY <1>0, <1>2, PlanFacts
  <1>4. s0 \in Scopes /\ \A i \in 1..h : plan.scopes[n][i] \in Scopes
    BY <1>2, <1>3
  <1>5. /\ leases[s0] = NoLease \/ leases[s0].lapsed
        /\ leases' = [leases EXCEPT ![s0] =
                        [run |-> r, node |-> n, attempt |-> a, lapsed |-> FALSE]]
        /\ lost' = lost /\ leaked' = leaked
    BY <1>1 DEF ClaimScope
  <1>6. /\ Holds(leases'[s0], r, n, a) /\ ~leases'[s0].lapsed
        /\ \A s \in Scopes : s # s0 => leases'[s] = leases[s]
    BY <1>4, <1>5 DEF ShapeInv, Holds
  <1>7. /\ Becomes(r, run'[r])
        /\ run'[r].have = h + 1 /\ run'[r].pc = run[r].pc /\ run'[r].cur = n
        /\ run'[r].inflight = run[r].inflight /\ run'[r].attempts = run[r].attempts
    <2>1. run[r].lifecycle \in [Nodes -> Lifecycles]
      BY <1>0 DEF GoodRun, RunTyped
    <2>2. QED
      BY <1>1, <2>1, ClaimScopeFacts DEF SameWork
  <1>8. ASSUME NEW x \in Runs, NEW m, NEW b PROVE Keeps(x, m, b)
    <2>1. ASSUME [run |-> x, node |-> m, attempt |-> b] \notin lost,
                 Holds(leases[s0], x, m, b)
          PROVE  FALSE
      <3>1. leases[s0] # NoLease
        BY <2>1, PlanDagAssumption DEF NoLease, Holds
      <3>2. LeaseClaim(leases[s0]) \in lost
        BY <1>4, <1>5, <3>1 DEF LeaseInv
      <3>3. QED
        BY <2>1, <3>2 DEF LeaseClaim, Holds
    <2>2. QED
      BY <1>6, <2>1 DEF Keeps
  <1>9. ASSUME NEW x \in Runs PROVE WorkOf(x)'
    <2>1. WorkOf(x) /\ lost \subseteq lost'
      BY <1>5 DEF LeaseInv
    <2>2. CASE x # r
      <3>1. run'[x] = run[x] /\ \A m \in Nodes : Keeps(x, m, run[x].attempts[m])
        BY <1>7, <1>8, <2>2 DEF Becomes
      <3>2. QED
        BY <1>0, <2>1, <3>1, WorkSame
    <2>3. CASE x = r
      <3>1. ASSUME NEW m \in run'[r].inflight PROVE Held(r, m, Len(plan.scopes[m]))'
        <4>1. m \in run[r].inflight /\ m \in Nodes
          BY <1>2, <1>7, <3>1
        <4>2. Held(r, m, Len(plan.scopes[m]))
          BY <2>1, <2>3, <4>1 DEF WorkOf
        <4>3. run'[r].attempts[m] = run[r].attempts[m] /\ Keeps(r, m, run[r].attempts[m])
          BY <1>7, <1>8
        <4>4. QED
          BY <1>0, <2>1, <4>1, <4>2, <4>3, FlightHeld
      <3>2. Held(r, run[r].cur, run[r].have)'
        <4>1. Held(r, n, h)
          BY <1>1, <1>2, <2>1, <2>3 DEF WorkOf
        <4>2. run'[r].attempts[n] = run[r].attempts[n] /\ Keeps(r, n, run[r].attempts[n])
          BY <1>7, <1>8
        <4>3. h <= Len(plan.scopes[n])
          BY <1>2, <1>3
        <4>4. Held(r, n, h)'
          BY <1>0, <1>2, <2>1, <4>1, <4>2, <4>3, HeldKept
        <4>5. Holds(leases'[plan'.scopes[n][h + 1]], r, n, run'[r].attempts[n])
          BY <1>2, <1>6, <1>7
        <4>6. 1..(h + 1) = 1..h \cup {h + 1}
          BY <1>2
        <4>7. Held(r, n, h + 1)'
          BY <4>4, <4>5, <4>6 DEF Held
        <4>8. QED
          BY <1>7, <4>7
      <3>3. QED
        BY <2>3, <3>1, <3>2 DEF WorkOf
    <2>4. QED
      BY <2>2, <2>3
  <1>10. \A s \in Scopes : leases'[s].lapsed => LeaseClaim(leases'[s]) \in lost'
    BY <1>5, <1>6 DEF LeaseInv
  <1>11. ASSUME NEW s \in Scopes PROVE Accounted(s)'
    <2>1. CASE s = s0
      <3>1. leases'[s].run = r /\ leases'[s].node = n /\ leases'[s].attempt = a
        BY <1>6, <2>1 DEF Holds
      <3>2. Backs(run'[r], n, a)
        BY <1>2, <1>7 DEF Backs
      <3>3. Backs(run'[leases'[s].run], leases'[s].node, leases'[s].attempt)
        BY <3>1, <3>2
      <3>4. QED
        BY <3>3 DEF Accounted, Backs
    <2>2. CASE s # s0 /\ leases[s] = NoLease
      BY <1>6, <2>2 DEF Accounted
    <2>3. CASE s # s0 /\ leases[s] # NoLease
      <3>1. leases'[s] = leases[s] /\ LeaseClaim(leases'[s]) = LeaseClaim(leases[s])
        BY <1>6, <2>3
      <3>2. leases[s].run \in Runs
        BY <2>3, LeaseFacts
      <3>3. Backs(run[leases[s].run], leases[s].node, leases[s].attempt)
               => Backs(run'[leases[s].run], leases[s].node, leases[s].attempt)
        BY <1>1, <1>7, <3>2 DEF Becomes, Backs
      <3>4. Accounted(s) /\ leaked \subseteq leaked'
        BY <1>5 DEF LeaseInv
      <3>5. QED
        BY <2>3, <3>1, <3>3, <3>4, AccountedKept
    <2>4. QED
      BY <2>1, <2>2, <2>3
  <1>12. QED
    BY <1>9, <1>10, <1>11 DEF LeaseInv, LeaseClaim

LEMMA LeaseStep ==
    ASSUME TypeOK, ShapeInv, LeaseInv, [Next]_vars
    PROVE  LeaseInv'
  <1>0. plan' = plan /\ \A x \in Runs : GoodRun(run[x])
    BY AllGoodStep, GoodParts DEF AllGood
  <1>1. ASSUME NEW r \in Runs, ByRun(r) PROVE LeaseInv'
    <2>1. Becomes(r, run'[r])
      BY <1>1, RunGood
    <2>2. CASE \/ Start(r) \/ End(r) \/ Undo(r) \/ StopFailFast(r) \/ StopExhausted(r) \/ Wave(r)
               \/ Spawn(r) \/ RecordFailure(r)
               \/ ClaimConflict(r) \/ ClaimFault(r) \/ \E n \in Nodes : Raise(r, n)
      <3>1. UNCHANGED <<leases, lost, leaked>>
        BY <2>2 DEF Start, End, Undo, StopFailFast, StopExhausted, Wave, Spawn, RecordFailure,
                    ClaimConflict, ClaimFault, Raise
      <3>2. Steady(run'[r], run[r], Nodes)
        BY <1>0, <2>2, QuietSteady DEF ClaimConflict, ClaimFault, Raise
      <3>3. \A x \in Runs : run'[x] = run[x] \/ Steady(run'[x], run[x], Nodes)
        BY <2>1, <3>2 DEF Becomes
      <3>4. QED
        BY <1>0, <3>1, <3>3, QuietLeases
    <2>3. CASE ClaimScope(r)
      BY <1>0, <2>3, ClaimLeases
    <2>4. ASSUME NEW n \in Nodes, Draining(r, n), Accept(r, n) \/ FinalFailure(r, n) \/ Retry(r, n)
          PROVE  LeaseInv'
      <3>1. lost' = lost
        BY <2>4 DEF Accept, FinalFailure, Retry
      <3>2. QED
        BY <1>0, <2>1, <2>4, <3>1, ReleaseLeases
    <2>5. QED
      BY <1>1, <2>2, <2>3, <2>4 DEF ByRun, RunStep, Accept, Reject, Retry, Fail
  <1>2. CASE Crash
    <2>1. UNCHANGED <<leases, lost, leaked>>
      BY <1>2 DEF Crash
    <2>2. \A x \in Runs : run'[x] = run[x] \/ Steady(run'[x], run[x], Nodes)
      BY <1>2, CrashFacts, DiesSteady
    <2>3. QED
      BY <1>0, <2>1, <2>2, QuietLeases
  <1>3. CASE \E s \in Scopes : LeaseLapses(s)
    BY <1>3, LapseLeases
  <1>4. CASE (\E n \in Nodes : Resume(n) \/ ResumeDone(n)) \/ UNCHANGED vars
    <2>1. UNCHANGED <<leases, lost, leaked>> /\ run' = run
      BY <1>4 DEF Resume, ResumeDone, vars
    <2>2. QED
      BY <1>0, <2>1, QuietLeases
  <1>5. QED
    BY <1>1, <1>2, <1>3, <1>4, NextCases

LEMMA InitLeases == Init => LeaseInv
  <1> SUFFICES ASSUME Init PROVE LeaseInv
    OBVIOUS
  <1>1. \A s \in Scopes : leases[s] = NoLease /\ ~leases[s].lapsed
    BY DEF Init, NoLease
  <1>2. \A x \in Runs : run[x].inflight = {} /\ run[x].pc = "idle"
    BY DEF Init, FreshRun
  <1>3. QED
    BY <1>1, <1>2 DEF LeaseInv, WorkOf, Accounted

LEMMA LeaseInvMatches == TypeOK /\ ShapeInv /\ LeaseInv => LeasesMatchWork
  <1> SUFFICES ASSUME TypeOK, ShapeInv, LeaseInv PROVE LeasesMatchWork
    OBVIOUS
  <1>1. ASSUME NEW r \in Runs, NEW n \in run[r].inflight, ClaimOf(r, n) \notin lost,
               NEW i \in 1..Len(plan.scopes[n])
        PROVE  HeldBy(plan.scopes[n][i], ClaimOf(r, n))
    <2>1. Held(r, n, Len(plan.scopes[n]))
      BY <1>1 DEF LeaseInv, WorkOf
    <2>2. Holds(leases[plan.scopes[n][i]], r, n, run[r].attempts[n])
      BY <1>1, <2>1 DEF Held
    <2>3. QED
      BY <2>2 DEF Holds, HeldBy, ClaimOf
  <1>2. ASSUME NEW s \in Scopes, leases[s] # NoLease
        PROVE  LET r == leases[s].run
                   c == [run |-> r, node |-> leases[s].node, attempt |-> leases[s].attempt]
               IN  \/ c \in leaked \/ run[r].pc = "failed"
                   \/ c = ClaimOf(r, c.node)
                      /\ (c.node \in run[r].inflight \/ (Claiming(r) /\ c.node = run[r].cur))
    <2>1. \/ LeaseClaim(leases[s]) \in leaked
          \/ Backs(run[leases[s].run], leases[s].node, leases[s].attempt)
      BY <1>2 DEF LeaseInv, Accounted
    <2>2. QED
      BY <2>1 DEF Backs, LeaseClaim, ClaimOf, Claiming
  <1>3. QED
    BY <1>1, <1>2 DEF LeasesMatchWork

(***************************************************************************)
(* The leases are exactly the work, for any number of runs, scopes, lapses *)
(* and failed releases: a claim takes a row only when it is free or has    *)
(* lapsed, a release frees only rows of its own claim, and a retry claims  *)
(* under a new attempt (claiming.rs, claims.rs, retry.rs).                 *)
(***************************************************************************)
THEOREM LeasesAreTheWork == Spec => []LeasesMatchWork
  <1>1. LeaseInv /\ (TypeOK /\ ShapeInv) /\ [Next]_vars => LeaseInv'
    BY LeaseStep
  <1>2. QED
    BY InitLeases, <1>1, LeaseInvMatches, PlanDagTypeOK, PTL DEF Spec

-----------------------------------------------------------------------------
(***************************************************************************)
(* Layer 5: the waves.  As long as nothing is gated and nothing has been   *)
(* skipped, paused or failed, the waves launched so far are a prefix of    *)
(* the announced ones, and hold exactly the nodes the loop has got to.     *)
(***************************************************************************)
Hot(q, n) == n \in q.queue \/ q.lifecycle[n] \in {"Claimed", "Running", "Succeeded"}

Placed(q, n) == q.lifecycle[n] # "Pending" \/ n \in q.queue

Going == {"Pending", "Claimed", "Running", "Succeeded"}

Smooth(q) == \A n \in Nodes : ~Gated(n) /\ q.lifecycle[n] \in Going

GoodWaves(q) ==
    /\ \A n \in Nodes : Hot(q, n) => ~Gated(n)
    /\ Smooth(q) =>
         /\ PlansSoFar(Nodes, plan.deps, MaxParallel, q.waves)
         /\ \A n \in Nodes : Placed(q, n) => n \in Done(q.waves)
         /\ q.pc # "failed" => \A n \in Nodes : n \in Done(q.waves) => Placed(q, n)

WaveInv == \A r \in Runs : GoodWaves(run[r])

\* A step that launches no wave, and one node of it.
NoWaveNode(q1, q, n) ==
    /\ Hot(q1, n) => Hot(q, n)
    /\ q1.lifecycle[n] \in Going =>
         /\ q.lifecycle[n] \in Going
         /\ Placed(q1, n) => Placed(q, n)
         /\ q1.pc # "failed" => (Placed(q, n) => Placed(q1, n))

LEMMA NoWave ==
    ASSUME NEW q, NEW q1, GoodWaves(q), q1.waves = q.waves,
           q.pc = "failed" => q1.pc = "failed", \A n \in Nodes : NoWaveNode(q1, q, n)
    PROVE  GoodWaves(q1)
  <1>1. \A n \in Nodes : Hot(q1, n) => ~Gated(n)
    BY DEF GoodWaves, NoWaveNode
  <1>2. ASSUME Smooth(q1)
        PROVE  /\ PlansSoFar(Nodes, plan.deps, MaxParallel, q1.waves)
               /\ \A n \in Nodes : Placed(q1, n) => n \in Done(q1.waves)
               /\ q1.pc # "failed" => \A n \in Nodes : n \in Done(q1.waves) => Placed(q1, n)
    <2>1. \A n \in Nodes : q1.lifecycle[n] \in Going
      BY <1>2 DEF Smooth
    <2>2. Smooth(q)
      BY <1>2, <2>1 DEF Smooth, NoWaveNode
    <2>3. /\ PlansSoFar(Nodes, plan.deps, MaxParallel, q.waves)
          /\ \A n \in Nodes : Placed(q, n) => n \in Done(q.waves)
          /\ q.pc # "failed" => \A n \in Nodes : n \in Done(q.waves) => Placed(q, n)
      BY <2>2 DEF GoodWaves
    <2>4. QED
      BY <2>1, <2>3 DEF NoWaveNode
  <1>3. QED
    BY <1>1, <1>2 DEF GoodWaves

LEMMA DiesWaves ==
    ASSUME NEW q, NEW q1, GoodWaves(q), Dies(q1, q)
    PROVE  GoodWaves(q1)
  <1>1. /\ q1.lifecycle = q.lifecycle /\ q1.queue = {} /\ q1.pc = "failed"
        /\ q1.waves = q.waves
    BY DEF Dies, SameNodes
  <1>2. \A n \in Nodes : NoWaveNode(q1, q, n)
    BY <1>1 DEF NoWaveNode, Hot, Placed
  <1>3. QED
    BY <1>1, <1>2, NoWave

LEMMA SameWaves ==
    ASSUME NEW q, NEW q1, GoodWaves(q), q1.waves = q.waves, q1.lifecycle = q.lifecycle,
           q1.queue = q.queue, q.pc # "failed"
    PROVE  GoodWaves(q1)
  <1>1. \A n \in Nodes : NoWaveNode(q1, q, n)
    BY DEF NoWaveNode, Hot, Placed
  <1>2. QED
    BY <1>1, NoWave

LEMMA StopWaves ==
    ASSUME TypeOK, ShapeInv, NEW r \in Runs, GoodRun(run[r]), GoodWaves(run[r]),
           StopFailFast(r) \/ StopExhausted(r)
    PROVE  GoodWaves(run'[r])
  <1>1. /\ run'[r].waves = run[r].waves /\ run'[r].queue = run[r].queue
        /\ run[r].pc = "loop" /\ run'[r].pc = "end"
    BY StopFailFastFacts, StopExhaustedFacts
    DEF Ends, SameWork, StopFailFast, StopExhausted
  <1>2. \A n \in Nodes :
            \/ run'[r].lifecycle[n] = "Skipped"
            \/ run'[r].lifecycle[n] = run[r].lifecycle[n]
    BY StopNode
  <1>3. ASSUME NEW n \in Nodes PROVE NoWaveNode(run'[r], run[r], n)
    <2>1. CASE run'[r].lifecycle[n] = "Skipped"
      BY <1>1, <2>1 DEF NoWaveNode, Hot, Going
    <2>2. CASE run'[r].lifecycle[n] = run[r].lifecycle[n]
      BY <1>1, <2>2 DEF NoWaveNode, Hot, Placed
    <2>3. QED
      BY <1>2, <2>1, <2>2
  <1>4. QED
    BY <1>1, <1>3, NoWave

\* A step on a node the loop has got to.
LEMMA OneNodeWaves ==
    ASSUME NEW q, NEW q1, GoodRun(q), GoodWaves(q), q1.waves = q.waves, q.pc # "failed",
           NEW n \in Nodes, NEW v \in Lifecycles \ {"Pending"},
           q1.lifecycle = [q.lifecycle EXCEPT ![n] = v],
           q1.queue = q.queue \/ q1.queue = q.queue \ {n},
           Hot(q, n), q.lifecycle[n] \in Going
    PROVE  GoodWaves(q1)
  <1>1. q.lifecycle \in [Nodes -> Lifecycles]
    BY DEF GoodRun, RunTyped
  <1>2. q1.lifecycle[n] = v /\ \A m \in Nodes \ {n} : q1.lifecycle[m] = q.lifecycle[m]
    BY <1>1
  <1>3. NoWaveNode(q1, q, n)
    BY <1>2 DEF NoWaveNode, Hot, Placed, Going
  <1>4. ASSUME NEW m \in Nodes \ {n} PROVE NoWaveNode(q1, q, m)
    BY <1>2 DEF NoWaveNode, Hot, Placed
  <1>5. \A m \in Nodes : NoWaveNode(q1, q, m)
    BY <1>3, <1>4
  <1>6. QED
    BY <1>5, NoWave

\* Between two waves a smooth run has only pending and succeeded nodes.
LEMMA SmoothLoop ==
    ASSUME NEW q, GoodRun(q), GoodLife(q), q.pc = "loop", Smooth(q)
    PROVE  \A n \in Nodes : q.lifecycle[n] \in {"Pending", "Succeeded"} /\ n \notin q.queue
  <1>1. q.queue = {} /\ q.inflight = {}
    BY DEF GoodRun, CursorOK
  <1>2. \A n \in Nodes : NodeOK(q, n) /\ q.lifecycle[n] \in Going
    BY DEF GoodLife, Smooth
  <1>3. QED
    BY <1>1, <1>2 DEF NodeOK, Going

\* The ready set of a smooth run is what the announcement can start next.
LEMMA SmoothReady ==
    ASSUME NEW r \in Runs, plan \in Plans, GoodRun(run[r]), GoodLife(run[r]),
           run[r].pc = "loop", Smooth(run[r]), TaintedPending(r) = {},
           \A n \in Nodes : Placed(run[r], n) <=> n \in Done(run[r].waves)
    PROVE  /\ Ready(r) = Startable(Nodes, plan.deps, run[r].waves)
           /\ ToDispatch(r) = FirstOf(Startable(Nodes, plan.deps, run[r].waves), MaxParallel)
  <1>1. \A n \in Nodes : /\ run[r].lifecycle[n] \in {"Pending", "Succeeded"}
                         /\ n \notin run[r].queue
    BY SmoothLoop
  <1>2. \A n \in Nodes : n \in Done(run[r].waves) <=> run[r].lifecycle[n] = "Succeeded"
    BY <1>1 DEF Placed
  <1>3. \A n \in Nodes : plan.deps[n] \subseteq Nodes
    BY PlanFacts
  <1>4. Ready(r) = Startable(Nodes, plan.deps, run[r].waves)
    BY <1>1, <1>2, <1>3 DEF Ready, Startable
  <1>5. Ready(r) \subseteq Nodes /\ \A n \in Ready(r) : ~Gated(n)
    BY DEF Ready, Smooth
  <1>6. \A n : {m \in Ready(r) : m < n /\ ~Gated(m)} = {m \in Ready(r) : m < n}
    BY <1>5
  <1>7. ToDispatch(r) = FirstOf(Ready(r), MaxParallel)
    BY <1>5, <1>6 DEF ToDispatch, Examined, FirstOf
  <1>8. QED
    BY <1>4, <1>7

LEMMA WaveWaves ==
    ASSUME TypeOK, ShapeInv, NEW r \in Runs, GoodRun(run[r]), GoodLife(run[r]),
           GoodWaves(run[r]), Wave(r)
    PROVE  GoodWaves(run'[r])
  <1>1. /\ run[r].pc = "loop" /\ Ready(r) # {} /\ plan \in Plans
        /\ run[r].queue = {}
    BY DEF Wave, TypeOK, GoodRun, CursorOK
  <1>2. /\ run'[r].queue = ToDispatch(r)
        /\ run'[r].waves = IF ToDispatch(r) = {} THEN run[r].waves
                           ELSE Append(run[r].waves, ToDispatch(r))
    BY WaveFacts DEF Turns
  <1>3. \A n \in Nodes :
            \/ run'[r].lifecycle[n] \in {"Skipped", "Paused"}
            \/ n \notin TaintedPending(r) /\ run'[r].lifecycle[n] = run[r].lifecycle[n]
    BY WaveNode
  <1>4. ASSUME NEW n \in Nodes, Hot(run'[r], n) PROVE ~Gated(n)
    <2>1. CASE n \in ToDispatch(r)
      BY <2>1 DEF ToDispatch
    <2>2. CASE n \notin ToDispatch(r)
      <3>1. Hot(run[r], n)
        BY <1>2, <1>3, <1>4, <2>2 DEF Hot
      <3>2. QED
        BY <3>1 DEF GoodWaves
    <2>3. QED
      BY <2>1, <2>2
  <1>5. ASSUME Smooth(run'[r])
        PROVE  /\ PlansSoFar(Nodes, plan.deps, MaxParallel, run'[r].waves)
               /\ \A n \in Nodes : Placed(run'[r], n) <=> n \in Done(run'[r].waves)
    <2> DEFINE s == run[r].waves
               x == ToDispatch(r)
    <2>1. \A n \in Nodes : n \notin TaintedPending(r)
                           /\ run'[r].lifecycle[n] = run[r].lifecycle[n]
      BY <1>3, <1>5 DEF Smooth, Going
    <2>2. Smooth(run[r])
      BY <1>5, <2>1 DEF Smooth
    <2>3. TaintedPending(r) = {}
      BY <2>1 DEF TaintedPending, GoodRun, RunTyped
    <2>4. /\ PlansSoFar(Nodes, plan.deps, MaxParallel, s)
          /\ \A n \in Nodes : Placed(run[r], n) <=> n \in Done(s)
      BY <1>1, <2>2 DEF GoodWaves
    <2>5. /\ Ready(r) = Startable(Nodes, plan.deps, s)
          /\ x = FirstOf(Startable(Nodes, plan.deps, s), MaxParallel)
      BY <1>1, <2>2, <2>3, <2>4, SmoothReady
    <2>6. Startable(Nodes, plan.deps, s) # {} /\ MaxParallel \in Nat \ {0}
          /\ Nodes \in SUBSET Nat /\ IsFiniteSet(Nodes)
      BY <1>1, <2>5, NodeFacts, PlanDagAssumption
    <2> HIDE DEF s, x
    <2>7. /\ PlansSoFar(Nodes, plan.deps, MaxParallel, Append(s, x))
          /\ Done(Append(s, x)) = Done(s) \cup x /\ x # {}
      BY <2>4, <2>5, <2>6, PlansNext
    <2>8. run'[r].waves = Append(s, x) /\ run'[r].queue = x
      BY <1>2, <2>7 DEF s, x
    <2>9. \A n \in Nodes : Placed(run'[r], n) <=> Placed(run[r], n) \/ n \in x
      BY <1>1, <2>1, <2>8 DEF Placed
    <2>10. QED
      BY <2>4, <2>7, <2>8, <2>9
  <1>6. QED
    BY <1>4, <1>5 DEF GoodWaves

LEMMA RunWaves ==
    ASSUME TypeOK, ShapeInv, NEW r \in Runs, GoodLife(run[r]), GoodWaves(run[r]), ByRun(r)
    PROVE  GoodWaves(run'[r])
  <1>1. /\ GoodRun(run[r]) /\ plan \in Plans /\ run[r].lifecycle \in [Nodes -> Lifecycles]
        /\ \A n \in Nodes : NodeOK(run[r], n)
    BY GoodParts DEF AllGood, GoodRun, RunTyped, GoodLife
  <1>2. CASE Failed(r)
    BY <1>2, FailedFacts, DiesWaves
  <1>3. CASE StopFailFast(r) \/ StopExhausted(r)
    BY <1>1, <1>3, StopWaves
  <1>4. CASE Wave(r)
    BY <1>1, <1>4, WaveWaves
  <1>5. ASSUME run'[r].waves = run[r].waves, run'[r].lifecycle = run[r].lifecycle,
               run'[r].queue = run[r].queue, run[r].pc # "failed"
        PROVE  GoodWaves(run'[r])
    BY <1>5, SameWaves
  <1>6. CASE Start(r) \/ End(r) \/ Undo(r) \/ RecordFailure(r)
    <2>1. /\ run'[r].waves = run[r].waves /\ run'[r].lifecycle = run[r].lifecycle
          /\ run'[r].queue = run[r].queue /\ run[r].pc # "failed"
      BY <1>6, StartFacts, EndFacts, UndoFacts, RecordFailureFacts
      DEF SameNodes, SameWork, Start, End, Undo, RecordFailure
    <2>2. QED
      BY <1>5, <2>1
  <1>7. ASSUME NEW n \in Nodes, Retry(r, n) PROVE GoodWaves(run'[r])
    <2>1. /\ run'[r].waves = run[r].waves /\ run'[r].lifecycle = run[r].lifecycle
          /\ run'[r].queue = run[r].queue /\ run[r].pc # "failed"
      BY <1>7, RetryFacts DEF SameNodes, Retry, Draining
    <2>2. QED
      BY <1>5, <2>1
  <1>8. ASSUME NEW n \in Nodes, NEW v \in Lifecycles \ {"Pending"},
               run'[r].waves = run[r].waves, run[r].pc # "failed",
               run'[r].lifecycle = [run[r].lifecycle EXCEPT ![n] = v],
               run'[r].queue = run[r].queue \/ run'[r].queue = run[r].queue \ {n},
               Hot(run[r], n), run[r].lifecycle[n] \in Going
        PROVE  GoodWaves(run'[r])
    BY <1>1, <1>8, OneNodeWaves
  <1>9. ASSUME Claiming(r)
        PROVE  /\ run[r].cur \in Nodes /\ run[r].pc # "failed" /\ Hot(run[r], run[r].cur)
               /\ run[r].lifecycle[run[r].cur] \in Going
    <2>1. run[r].pc \in {"claim", "retry"} /\ run[r].cur \in Nodes
      BY <1>1, <1>9 DEF Claiming, GoodRun, RunTyped
    <2>2. run[r].pc = "claim" => run[r].cur \in run[r].queue
      BY <1>1 DEF GoodRun, CursorOK
    <2>3. QED
      BY <1>1, <2>1, <2>2 DEF NodeOK, Hot, Going
  <1>10. CASE ClaimScope(r)
    <2>1. /\ run'[r].lifecycle = [run[r].lifecycle EXCEPT ![run[r].cur] =
                IF run[r].have + 1 = Len(plan.scopes[run[r].cur]) THEN "Claimed" ELSE @]
          /\ run'[r].waves = run[r].waves /\ run'[r].queue = run[r].queue
      BY <1>1, <1>10, ClaimScopeFacts DEF SameWork
    <2>2. Claiming(r)
      BY <1>10 DEF ClaimScope
    <2>3. \/ run'[r].lifecycle = run[r].lifecycle
          \/ run'[r].lifecycle = [run[r].lifecycle EXCEPT ![run[r].cur] = "Claimed"]
      <3>1. CASE run[r].have + 1 = Len(plan.scopes[run[r].cur])
        BY <2>1, <3>1
      <3>2. CASE run[r].have + 1 # Len(plan.scopes[run[r].cur])
        <4>1. run'[r].lifecycle = [run[r].lifecycle EXCEPT ![run[r].cur] = @]
          BY <2>1, <3>2
        <4>2. QED
          BY <1>1, <4>1
      <3>3. QED
        BY <3>1, <3>2
    <2>4. "Claimed" \in Lifecycles \ {"Pending"}
      BY DEF Lifecycles
    <2>5. QED
      BY <1>5, <1>8, <1>9, <2>1, <2>2, <2>3, <2>4
  <1>11. CASE Spawn(r)
    <2>1. /\ run'[r].lifecycle = [run[r].lifecycle EXCEPT ![run[r].cur] = "Running"]
          /\ run'[r].waves = run[r].waves /\ run'[r].queue = run[r].queue \ {run[r].cur}
          /\ Claiming(r)
      BY <1>11, SpawnFacts DEF Spawn, Turns
    <2>2. "Running" \in Lifecycles \ {"Pending"}
      BY DEF Lifecycles
    <2>3. QED
      BY <1>8, <1>9, <2>1, <2>2
  <1>12. ASSUME NEW n \in Nodes, Draining(r, n)
         PROVE  run[r].pc # "failed" /\ Hot(run[r], n) /\ run[r].lifecycle[n] \in Going
    BY <1>1, <1>12 DEF Draining, NodeOK, Hot, Going
  <1>13. ASSUME NEW n \in Nodes, Accept(r, n) PROVE GoodWaves(run'[r])
    <2>1. PICK v \in {"Succeeded", "Paused"} :
              /\ Becomes(r, run'[r]) /\ DrainsOn(run'[r], run[r].inflight \ {n})
              /\ run'[r].lifecycle = [run[r].lifecycle EXCEPT ![n] = v]
              /\ run'[r].results = [run[r].results EXCEPT ![n] = v]
              /\ run'[r].queue = run[r].queue /\ run'[r].attempts = run[r].attempts
              /\ run'[r].waves = run[r].waves /\ SameTaint(run'[r], run[r])
              /\ v = "Paused" <=> plan.acceptance[n] = "manual"
      BY <1>13, AcceptFacts, Zenon
    <2>2. v \in Lifecycles \ {"Pending"} /\ Draining(r, n)
      BY <1>13 DEF Lifecycles, Accept
    <2>3. QED
      BY <1>8, <1>12, <2>1, <2>2
  <1>14. ASSUME NEW n \in Nodes, Draining(r, n), FinalFailure(r, n) PROVE GoodWaves(run'[r])
    <2>1. /\ run'[r].lifecycle = [run[r].lifecycle EXCEPT ![n] = "Failed"]
          /\ run'[r].queue = run[r].queue /\ run'[r].waves = run[r].waves
      BY <1>14, FinalFailureFacts
    <2>2. "Failed" \in Lifecycles \ {"Pending"}
      BY DEF Lifecycles
    <2>3. QED
      BY <1>8, <1>12, <1>14, <2>1, <2>2
  <1>15. QED
    BY <1>2, <1>3, <1>4, <1>6, <1>7, <1>10, <1>11, <1>13, <1>14
    DEF ByRun, RunStep, ClaimConflict, ClaimFault, Raise, Reject, Fail

LEMMA WaveStep ==
    ASSUME TypeOK, ShapeInv, LifeInv, WaveInv, [Next]_vars
    PROVE  WaveInv'
  <1>1. \A r \in Runs : GoodLife(run[r]) /\ GoodWaves(run[r])
    BY DEF LifeInv, GoodLife, WaveInv
  <1>2. plan' = plan
    BY AllGoodStep
  <1>3. \A r \in Runs : GoodWaves(run'[r])
    <2>1. ASSUME NEW r \in Runs, ByRun(r) PROVE \A x \in Runs : GoodWaves(run'[x])
      BY <1>1, <2>1, RunWaves, RunGood DEF Becomes
    <2>2. CASE Crash
      BY <1>1, <2>2, CrashFacts, DiesWaves
    <2>3. QED
      BY <1>1, <2>1, <2>2, NextCases DEF LeaseLapses, Resume, ResumeDone, vars
  <1>4. QED
    BY <1>2, <1>3 DEF WaveInv, GoodWaves, Smooth, Gated, Hot, Placed

LEMMA InitWaves == Init => WaveInv
  <1> SUFFICES ASSUME Init, NEW r \in Runs PROVE GoodWaves(run[r])
    BY DEF WaveInv
  <1>1. /\ run[r].queue = {} /\ run[r].waves = <<>> /\ run[r].pc = "idle"
        /\ \A n \in Nodes : run[r].lifecycle[n] = "Pending"
    BY DEF Init, FreshRun
  <1>2. \A n \in Nodes : ~Hot(run[r], n) /\ ~Placed(run[r], n)
    BY <1>1 DEF Hot, Placed
  <1>3. PlansSoFar(Nodes, plan.deps, MaxParallel, <<>>)
    BY PlansNothing, NodeFacts
  <1>4. Done(<<>>) = {}
    BY DEF Done, Elems
  <1>5. QED
    BY <1>1, <1>2, <1>3, <1>4 DEF GoodWaves

LEMMA WaveInvKeepsPreview == DagInv /\ WaveInv => PreviewKept
  <1> SUFFICES ASSUME DagInv, WaveInv, NEW r \in Runs,
                      \A n \in Nodes : run[r].results[n] = "Succeeded"
               PROVE  run[r].waves = ConcurrencyPlan(Nodes, plan.deps, MaxParallel)
    BY DEF PreviewKept
  <1>1. plan \in Plans /\ GoodRun(run[r]) /\ GoodLife(run[r]) /\ GoodWaves(run[r])
    BY DagInvParts DEF WaveInv
  <1>2. \A n \in Nodes : run[r].lifecycle[n] = "Succeeded"
    BY <1>1, NodeCases
  <1>3. \A n \in Nodes : Hot(run[r], n) /\ Placed(run[r], n)
    BY <1>2 DEF Hot, Placed
  <1>4. Smooth(run[r])
    BY <1>1, <1>2, <1>3 DEF GoodWaves, Smooth, Going
  <1>5. /\ PlansSoFar(Nodes, plan.deps, MaxParallel, run[r].waves)
        /\ Nodes \subseteq Done(run[r].waves)
    BY <1>1, <1>3, <1>4 DEF GoodWaves
  <1>6. QED
    BY <1>5, PlansAll, NodeFacts

(***************************************************************************)
(* The dry run is a true prediction: whatever the plan and the width, and  *)
(* however often nodes are retried, a run in which every node succeeds     *)
(* launched exactly the waves of compute_concurrency_plan.                 *)
(***************************************************************************)
THEOREM PreviewIsKept == Spec => []PreviewKept
  <1>1. DagInv => TypeOK /\ ShapeInv /\ LifeInv
    BY DEF DagInv
  <1>2. WaveInv /\ DagInv /\ [Next]_vars => WaveInv'
    BY <1>1, WaveStep
  <1>3. QED
    BY InitWaves, <1>2, WaveInvKeepsPreview, DagInvHolds, PTL DEF Spec
-----------------------------------------------------------------------------
(***************************************************************************)
(* Layer 6: rollbacks.  The dispatches for one root are a block of the     *)
(* log: complete when the root's failure is recorded, at the end of the    *)
(* log while the root is rolled back, absent before.                       *)
(***************************************************************************)
UndoLog == Seq([root : Nodes, node : Nodes])

\* The entries of u for root are those behind b, and their nodes read t.
Block(u, root, t, b) ==
    /\ b \in Nat /\ b + Len(t) <= Len(u)
    /\ \A i \in 1..Len(u) : u[i].root = root <=> (b < i /\ i <= b + Len(t))
    /\ \A k \in 1..Len(t) : u[b + k].node = t[k]

Undone(u, root, t) == \E b \in Nat : Block(u, root, t, b)

\* What is left to undo is what the log does not end with.
Partial(q, root) ==
    \E t \in Seq(Nodes) :
        /\ q.undo \in Seq(Nodes) /\ Undoing(root) = t \o q.undo
        /\ Len(t) <= Len(q.undone) /\ Block(q.undone, root, t, Len(q.undone) - Len(t))

Untouched(u, root) == \A i \in 1..Len(u) : u[i].root # root

RollsBack(q, n) == q.pc = "rollback" /\ q.cur = n

GoodUndo(q) ==
    /\ q.undone \in UndoLog
    /\ \A n \in Nodes :
         /\ q.results[n] = "Failed" => Undone(q.undone, n, Undoing(n))
         /\ RollsBack(q, n) => Partial(q, n)
         /\ q.pc # "failed" /\ q.results[n] # "Failed" /\ ~RollsBack(q, n) =>
              Untouched(q.undone, n)

UndoInv == \A r \in Runs : GoodUndo(run[r])

\* A block stays one when an entry for another root follows.
LEMMA UndoneKeptByOthers ==
    ASSUME NEW u \in UndoLog, NEW e \in [root : Nodes, node : Nodes], NEW root, e.root # root,
           NEW t \in Seq(Nodes), Undone(u, root, t)
    PROVE  Undone(Append(u, e), root, t)
  <1>1. PICK b \in Nat : Block(u, root, t, b)
    BY DEF Undone
  <1>2. PICK v : v = Append(u, e)
    OBVIOUS
  <1>3. /\ Len(u) \in Nat /\ Len(v) = Len(u) + 1 /\ v[Len(u) + 1] = e
        /\ \A i \in 1..Len(u) : v[i] = u[i]
    BY <1>2, AppendFacts DEF UndoLog
  <1>4. /\ b + Len(t) <= Len(u) /\ Len(t) \in Nat
        /\ \A i \in 1..Len(u) : u[i].root = root <=> (b < i /\ i <= b + Len(t))
        /\ \A k \in 1..Len(t) : u[b + k].node = t[k]
    BY <1>1 DEF Block
  <1>5. ASSUME NEW i \in 1..Len(v) PROVE v[i].root = root <=> (b < i /\ i <= b + Len(t))
    <2>1. CASE i \in 1..Len(u)
      BY <1>3, <1>4, <2>1
    <2>2. CASE i = Len(u) + 1
      <3>1. v[i].root # root
        BY <1>3, <2>2
      <3>2. ~(i <= b + Len(t))
        BY <1>1, <1>3, <1>4, <2>2
      <3>3. QED
        BY <3>1, <3>2
    <2>3. QED
      BY <1>3, <2>1, <2>2
  <1>6. ASSUME NEW k \in 1..Len(t) PROVE v[b + k].node = t[k]
    <2>1. b + k \in 1..Len(u)
      BY <1>1, <1>3, <1>4
    <2>2. QED
      BY <1>3, <1>4, <2>1
  <1>7. b + Len(t) <= Len(v)
    BY <1>1, <1>3, <1>4
  <1>8. Block(v, root, t, b)
    BY <1>1, <1>5, <1>6, <1>7 DEF Block
  <1>9. QED
    BY <1>1, <1>2, <1>8 DEF Undone

LEMMA UntouchedByOthers ==
    ASSUME NEW u \in UndoLog, NEW e \in [root : Nodes, node : Nodes], NEW root, e.root # root,
           Untouched(u, root)
    PROVE  Untouched(Append(u, e), root)
  <1>1. PICK v : v = Append(u, e)
    OBVIOUS
  <1>2. /\ Len(u) \in Nat /\ Len(v) = Len(u) + 1 /\ v[Len(u) + 1] = e
        /\ \A i \in 1..Len(u) : v[i] = u[i]
    BY <1>1, AppendFacts DEF UndoLog
  <1>3. \A i \in 1..Len(v) : i \in 1..Len(u) \/ i = Len(u) + 1
    BY <1>2
  <1>4. Untouched(v, root)
    BY <1>2, <1>3 DEF Untouched
  <1>5. QED
    BY <1>1, <1>4

\* A block at the end of the log grows by an entry of its own.
LEMMA BlockGrows ==
    ASSUME NEW u \in UndoLog, NEW root \in Nodes, NEW t \in Seq(Nodes), NEW n \in Nodes,
           Len(t) <= Len(u), Block(u, root, t, Len(u) - Len(t)),
           NEW v, v = Append(u, [root |-> root, node |-> n]), NEW t1, t1 = Append(t, n)
    PROVE  Len(t1) <= Len(v) /\ Block(v, root, t1, Len(v) - Len(t1))
  <1>1. PICK e : e = [root |-> root, node |-> n]
    OBVIOUS
  <1>2. e \in [root : Nodes, node : Nodes] /\ e.root = root /\ e.node = n
    BY <1>1
  <1>3. v = Append(u, e)
    BY <1>1
  <1>4. /\ Len(u) \in Nat /\ Len(v) = Len(u) + 1 /\ v[Len(u) + 1] = e
        /\ \A i \in 1..Len(u) : v[i] = u[i]
    BY <1>2, <1>3, AppendFacts DEF UndoLog
  <1>5. /\ Len(t) \in Nat /\ Len(t1) = Len(t) + 1 /\ t1[Len(t) + 1] = n
        /\ \A i \in 1..Len(t) : t1[i] = t[i]
    BY AppendFacts
  <1>6. PICK b : b = Len(u) - Len(t)
    OBVIOUS
  <1>7. b \in Nat /\ b + Len(t) = Len(u) /\ b = Len(v) - Len(t1) /\ b + Len(t1) = Len(v)
    BY <1>4, <1>5, <1>6
  <1>8. /\ \A i \in 1..Len(u) : u[i].root = root <=> (b < i /\ i <= b + Len(t))
        /\ \A k \in 1..Len(t) : u[b + k].node = t[k]
    BY <1>6 DEF Block
  <1>9. ASSUME NEW i \in 1..Len(v) PROVE v[i].root = root <=> (b < i /\ i <= b + Len(t1))
    <2>1. CASE i \in 1..Len(u)
      <3>1. i <= b + Len(t) /\ i <= b + Len(t1)
        BY <1>4, <1>7, <2>1
      <3>2. QED
        BY <1>4, <1>8, <2>1, <3>1
    <2>2. CASE i = Len(u) + 1
      <3>1. v[i].root = root
        BY <1>2, <1>4, <2>2
      <3>2. b < i /\ i <= b + Len(t1)
        BY <1>4, <1>5, <1>7, <2>2
      <3>3. QED
        BY <3>1, <3>2
    <2>3. QED
      BY <1>4, <2>1, <2>2
  <1>10. ASSUME NEW k \in 1..Len(t1) PROVE v[b + k].node = t1[k]
    <2>1. CASE k \in 1..Len(t)
      <3>1. b + k \in 1..Len(u)
        BY <1>4, <1>5, <1>7, <2>1
      <3>2. QED
        BY <1>4, <1>5, <1>8, <2>1, <3>1
    <2>2. CASE k = Len(t) + 1
      <3>1. b + k = Len(u) + 1
        BY <1>4, <1>5, <1>7, <2>2
      <3>2. QED
        BY <1>2, <1>4, <1>5, <2>2, <3>1
    <2>3. k \in 1..(Len(t) + 1) /\ Len(t) \in Nat
      BY <1>5
    <2>4. k \in 1..Len(t) \/ k = Len(t) + 1
      BY <2>3
    <2>5. QED
      BY <2>1, <2>2, <2>4
  <1>11. Block(v, root, t1, b) /\ Len(t1) <= Len(v)
    <2>1. b + Len(t1) <= Len(v) /\ Len(t1) <= Len(v)
      BY <1>4, <1>5, <1>7
    <2>2. QED
      BY <1>7, <1>9, <1>10, <2>1, Zenon DEF Block
  <1>12. QED
    BY <1>7, <1>11

\* Moving the head of u behind t leaves their concatenation alone.
LEMMA HeadMoves ==
    ASSUME NEW S, NEW t \in Seq(S), NEW u \in Seq(S), u # <<>>
    PROVE  /\ Head(u) \in S /\ Tail(u) \in Seq(S) /\ Append(t, Head(u)) \in Seq(S)
           /\ Append(t, Head(u)) \o Tail(u) = t \o u
  <1>1. /\ Head(u) \in S /\ Tail(u) \in Seq(S) /\ Len(u) \in Nat /\ Len(u) # 0 /\ Head(u) = u[1]
        /\ Len(Tail(u)) = Len(u) - 1 /\ \A i \in 1..(Len(u) - 1) : Tail(u)[i] = u[i + 1]
    OBVIOUS
  <1>2. PICK a : a = Append(t, Head(u))
    OBVIOUS
  <1>3. /\ Len(t) \in Nat /\ a \in Seq(S) /\ Len(a) = Len(t) + 1 /\ a[Len(t) + 1] = Head(u)
        /\ \A i \in 1..Len(t) : a[i] = t[i]
    BY <1>1, <1>2, AppendFacts
  <1>4. PICK w : w = Tail(u)
    OBVIOUS
  <1>5. PICK x : x = a \o w
    OBVIOUS
  <1>6. PICK y : y = t \o u
    OBVIOUS
  <1>7. /\ x \in Seq(S) /\ Len(x) = Len(a) + Len(w)
        /\ \A i \in 1..Len(a) : x[i] = a[i]
        /\ \A i \in 1..(Len(a) + Len(w)) :
              i \in 1..Len(a) \/ (i - Len(a) \in 1..Len(w) /\ x[i] = w[i - Len(a)])
    <2>1. w \in Seq(S) /\ a \in Seq(S)
      BY <1>1, <1>3, <1>4
    <2>2. QED
      BY <1>5, <2>1, ConcatFacts
  <1>8. /\ y \in Seq(S) /\ Len(y) = Len(t) + Len(u)
        /\ \A i \in 1..Len(t) : y[i] = t[i]
        /\ \A i \in 1..Len(u) : y[Len(t) + i] = u[i]
    BY <1>6, ConcatFacts
  <1>9. Len(w) = Len(u) - 1 /\ Len(x) = Len(y)
    BY <1>1, <1>3, <1>4, <1>7, <1>8
  <1>10. ASSUME NEW i \in 1..Len(x) PROVE x[i] = y[i]
    <2>1. CASE i \in 1..Len(t)
      <3>1. i \in 1..Len(a)
        BY <1>3, <2>1
      <3>2. QED
        BY <1>3, <1>7, <1>8, <2>1, <3>1
    <2>2. CASE i = Len(t) + 1
      <3>1. i \in 1..Len(a) /\ 1 \in 1..Len(u)
        BY <1>1, <1>3, <2>2
      <3>2. x[i] = u[1] /\ y[i] = u[1]
        BY <1>1, <1>3, <1>7, <1>8, <2>2, <3>1
      <3>3. QED
        BY <3>2
    <2>3. CASE i \notin 1..Len(t) /\ i # Len(t) + 1
      <3>1. i \notin 1..Len(a) /\ i \in 1..(Len(a) + Len(w))
        BY <1>3, <1>7, <2>3
      <3>2. i - Len(a) \in 1..Len(w) /\ x[i] = w[i - Len(a)]
        BY <1>7, <3>1
      <3>3. PICK k : k = i - Len(a)
        OBVIOUS
      <3>4. k \in 1..(Len(u) - 1) /\ k + 1 \in 1..Len(u) /\ Len(t) + (k + 1) = i
        BY <1>1, <1>3, <1>9, <3>2, <3>3
      <3>5. x[i] = u[k + 1] /\ y[Len(t) + (k + 1)] = u[k + 1]
        BY <1>1, <1>4, <1>8, <3>2, <3>3, <3>4
      <3>6. QED
        BY <3>4, <3>5
    <2>4. QED
      BY <2>1, <2>2, <2>3
  <1>11. x = y
    <2>1. x = [i \in 1..Len(x) |-> x[i]] /\ y = [i \in 1..Len(y) |-> y[i]]
      BY <1>7, <1>8
    <2>2. QED
      BY <1>9, <1>10, <2>1
  <1>12. QED
    BY <1>1, <1>2, <1>3, <1>4, <1>5, <1>6, <1>11

\* What compute_compensation_order returns for a node of a plan.
Cascade(n) == CompensationOrder(plan.candidates[n], plan.after, TopoOrder(Nodes, plan.deps))

LEMMA CascadeFacts ==
    ASSUME plan \in Plans, NEW n \in Nodes
    PROVE  Compensates(Nodes, plan.candidates[n], plan.after, Cascade(n))
  <1>1. /\ plan.deps \in [Nodes -> SUBSET Nodes] /\ Acyclic(Nodes, plan.deps)
        /\ plan.candidates[n] \in SUBSET Nodes /\ plan.after \in [Nodes -> SUBSET Nodes]
    BY PlanDagAssumption DEF IsPlan
  <1>2. IsFiniteSet(Nodes) /\ Nodes \in SUBSET Nat
    BY NodeFacts
  <1>3. PICK forward : forward = TopoOrder(Nodes, plan.deps)
    OBVIOUS
  <1>4. IsTopoOrder(Nodes, plan.deps, forward)
    BY <1>1, <1>2, <1>3, TopoOrderSorts
  <1>5. forward \in Seq(Nodes) /\ plan.candidates[n] \subseteq Elems(forward)
    BY <1>1, <1>4 DEF IsTopoOrder
  <1>6. Compensates(Nodes, plan.candidates[n], plan.after,
                    CompensationOrder(plan.candidates[n], plan.after, forward))
    BY <1>1, <1>2, <1>5, CompensationIsOrdered
  <1>7. QED
    BY <1>3, <1>6 DEF Cascade

LEMMA UndoingTyped ==
    ASSUME plan \in Plans, NEW n \in Nodes
    PROVE  Undoing(n) \in Seq(Nodes)
  <1>1. Cascade(n) \in Seq(Nodes)
    <2>1. Compensates(Nodes, plan.candidates[n], plan.after, Cascade(n))
      BY CascadeFacts
    <2>2. QED
      BY <2>1 DEF Compensates
  <1>2. PICK s : s = IF n \in plan.rollback THEN <<n>> ELSE <<>>
    OBVIOUS
  <1>3. PICK t : t = IF n \in plan.cascade THEN Cascade(n) ELSE <<>>
    OBVIOUS
  <1>4. s \in Seq(Nodes) /\ t \in Seq(Nodes)
    BY <1>1, <1>2, <1>3
  <1>5. Undoing(n) = s \o t
    BY <1>2, <1>3 DEF Undoing, Cascade
  <1>6. QED
    BY <1>4, <1>5

\* The first half of a failure leaves the log alone and knows what to undo.
LEMMA FinalFailureUndo ==
    ASSUME ShapeInv, NEW r \in Runs, NEW n \in Nodes, FinalFailure(r, n)
    PROVE  run'[r].undone = run[r].undone /\ run'[r].undo = Undoing(n)
  <1>1. DOMAIN run = Runs /\ DOMAIN run[r] = RunFields
    BY DEF ShapeInv, CursorOK
  <1>2. QED
    BY <1>1 DEF FinalFailure, RunFields

LEMMA UndoUndo ==
    ASSUME ShapeInv, NEW r \in Runs, Undo(r)
    PROVE  /\ run[r].pc = "rollback" /\ run[r].undo # <<>>
           /\ run'[r].undo = Tail(run[r].undo)
           /\ run'[r].undone = Append(run[r].undone,
                                      [root |-> run[r].cur, node |-> Head(run[r].undo)])
  <1>1. DOMAIN run = Runs /\ DOMAIN run[r] = RunFields
    BY DEF ShapeInv, CursorOK
  <1> DEFINE e == [root |-> run[r].cur, node |-> Head(run[r].undo)]
             q1 == [run[r] EXCEPT !.undo = Tail(@), !.undone = Append(@, e)]
  <1>2. run' = [run EXCEPT ![r] = q1] /\ run[r].pc = "rollback" /\ run[r].undo # <<>>
    BY DEF Undo
  <1> HIDE DEF e
  <1>3. q1.undo = Tail(run[r].undo) /\ q1.undone = Append(run[r].undone, e)
    BY <1>1 DEF RunFields
  <1> HIDE DEF q1
  <1>4. run'[r] = q1
    BY <1>1, <1>2
  <1>5. QED
    BY <1>2, <1>3, <1>4 DEF e

LEMMA DrainedUndo ==
    ASSUME NEW q, DOMAIN q = RunFields
    PROVE  Drained(q).undone = q.undone
  BY DEF Drained, RunFields

LEMMA TurnUndo ==
    ASSUME NEW q, NEW pc, DOMAIN q = RunFields
    PROVE  TurnToNext(q, pc).undone = q.undone
  <1>1. CASE q.queue = {}
    BY <1>1 DEF TurnToNext, RunFields
  <1>2. CASE q.queue # {}
    <2> DEFINE q1 == [q EXCEPT !.pc = "claim", !.cur = Least(q.queue), !.have = 0,
                               !.attempts[Least(q.queue)] = @ + 1]
    <2>1. TurnToNext(q, pc) = q1
      BY <1>2 DEF TurnToNext
    <2>2. q1.undone = q.undone
      BY DEF RunFields
    <2> HIDE DEF q1
    <2>3. QED
      BY <2>1, <2>2
  <1>3. QED
    BY <1>1, <1>2

LEMMA SkipUndo ==
    ASSUME NEW r, DOMAIN run[r] = RunFields
    PROVE  DOMAIN SkipTainted(r) = RunFields /\ SkipTainted(r).undone = run[r].undone
  BY DEF SkipTainted, RunFields

LEMMA StopUndo ==
    ASSUME ShapeInv, NEW r \in Runs, StopFailFast(r) \/ StopExhausted(r)
    PROVE  run'[r].undone = run[r].undone
  <1> DEFINE q == SkipTainted(r)
             pending == {n \in Nodes : q.lifecycle[n] = "Pending"}
             q1 == [q EXCEPT !.pc = "end", !.lifecycle = Mark(@, pending, "Skipped"),
                             !.results = Mark(@, pending, "SkippedFailFast")]
             q2 == [q EXCEPT !.pc = "end"]
  <1>1. DOMAIN run = Runs /\ DOMAIN run[r] = RunFields
    BY DEF ShapeInv, CursorOK
  <1>2. DOMAIN q = RunFields /\ q.undone = run[r].undone
    BY <1>1, SkipUndo
  <1>3. run' = [run EXCEPT ![r] = q1] \/ run' = [run EXCEPT ![r] = q2]
    BY DEF StopFailFast, StopExhausted
  <1> HIDE DEF q
  <1>4. q1.undone = q.undone /\ q2.undone = q.undone
    BY <1>2 DEF RunFields
  <1> HIDE DEF q1, q2
  <1>5. run'[r] = q1 \/ run'[r] = q2
    BY <1>1, <1>3
  <1>6. QED
    BY <1>2, <1>4, <1>5

LEMMA WaveUndo ==
    ASSUME ShapeInv, NEW r \in Runs, Wave(r)
    PROVE  run'[r].undone = run[r].undone
  <1> DEFINE q == SkipTainted(r)
             gated == [q EXCEPT
               !.lifecycle = Mark(Mark(@, Conditional(r), "Skipped"), ReviewGated(r), "Paused"),
               !.results = Mark(Mark(@, Conditional(r), "SkippedCondition"),
                                ReviewGated(r), "Paused"),
               !.tainted = @ \cup UNION {PropagateTaint(Nodes, plan.deps, @, c) :
                                           c \in Conditional(r)},
               !.queue = ToDispatch(r),
               !.waves = IF ToDispatch(r) = {} THEN @ ELSE Append(@, ToDispatch(r))]
  <1>1. DOMAIN run = Runs /\ DOMAIN run[r] = RunFields
    BY DEF ShapeInv, CursorOK
  <1>2. DOMAIN q = RunFields /\ q.undone = run[r].undone
    BY <1>1, SkipUndo
  <1>3. run' = [run EXCEPT ![r] = TurnToNext(gated, "loop")]
    BY DEF Wave
  <1> HIDE DEF q
  <1>4. DOMAIN gated = RunFields /\ gated.undone = q.undone
    BY <1>2, Zenon DEF RunFields
  <1> HIDE DEF gated
  <1>5. TurnToNext(gated, "loop").undone = gated.undone
    BY <1>4, TurnUndo
  <1>6. run'[r] = TurnToNext(gated, "loop")
    BY <1>1, <1>3
  <1>7. QED
    BY <1>2, <1>4, <1>5, <1>6

LEMMA SpawnUndo ==
    ASSUME ShapeInv, NEW r \in Runs, Spawn(r)
    PROVE  run'[r].undone = run[r].undone
  <1>1. DOMAIN run = Runs /\ DOMAIN run[r] = RunFields
    BY DEF ShapeInv, CursorOK
  <1> DEFINE n == run[r].cur
             q == [run[r] EXCEPT !.lifecycle[n] = "Running", !.inflight = @ \cup {n},
                                 !.queue = @ \ {n}]
  <1>2. run' = [run EXCEPT ![r] = TurnToNext(q, "drain")]
    BY DEF Spawn
  <1>3. DOMAIN q = RunFields /\ q.undone = run[r].undone
    BY <1>1 DEF RunFields
  <1> HIDE DEF q
  <1>4. TurnToNext(q, "drain").undone = q.undone /\ run'[r] = TurnToNext(q, "drain")
    BY <1>1, <1>2, <1>3, TurnUndo
  <1>5. QED
    BY <1>3, <1>4

LEMMA AcceptUndo ==
    ASSUME ShapeInv, NEW r \in Runs, NEW n \in Nodes, Accept(r, n)
    PROVE  run'[r].undone = run[r].undone
  <1>1. DOMAIN run = Runs /\ DOMAIN run[r] = RunFields
    BY DEF ShapeInv, CursorOK
  <1> DEFINE q(v) == [run[r] EXCEPT !.lifecycle[n] = v, !.results[n] = v, !.inflight = @ \ {n}]
  <1>2. PICK v \in Verdicts(r, n) \ {"Failed"} : run' = [run EXCEPT ![r] = Drained(q(v))]
    BY Zenon DEF Accept
  <1>3. DOMAIN q(v) = RunFields /\ q(v).undone = run[r].undone
    BY <1>1 DEF RunFields
  <1> HIDE DEF q
  <1>4. Drained(q(v)).undone = q(v).undone /\ run'[r] = Drained(q(v))
    BY <1>1, <1>2, <1>3, DrainedUndo
  <1>5. QED
    BY <1>3, <1>4

LEMMA RecordFailureUndo ==
    ASSUME ShapeInv, NEW r \in Runs, RecordFailure(r)
    PROVE  /\ run[r].pc = "rollback" /\ run[r].undo = <<>>
           /\ run'[r].undone = run[r].undone
  <1>1. DOMAIN run = Runs /\ DOMAIN run[r] = RunFields
    BY DEF ShapeInv, CursorOK
  <1> DEFINE n == run[r].cur
             q == [run[r] EXCEPT !.results[n] = "Failed",
                                 !.tainted = PropagateTaint(Nodes, plan.deps, @, n),
                                 !.abort = @ \/ n \in plan.failFast]
  <1>2. run' = [run EXCEPT ![r] = Drained(q)] /\ run[r].pc = "rollback" /\ run[r].undo = <<>>
    BY Zenon DEF RecordFailure
  <1>3. DOMAIN q = RunFields /\ q.undone = run[r].undone
    BY <1>1, Zenon DEF RunFields
  <1> HIDE DEF q
  <1>4. Drained(q).undone = q.undone /\ run'[r] = Drained(q)
    BY <1>1, <1>2, <1>3, DrainedUndo
  <1>5. QED
    BY <1>2, <1>3, <1>4

LEMMA MoveUndo ==
    ASSUME ShapeInv, NEW r \in Runs, Start(r) \/ End(r) \/ ClaimScope(r) \/ Failed(r)
    PROVE  run'[r].undone = run[r].undone
  <1>1. DOMAIN run = Runs /\ DOMAIN run[r] = RunFields
    BY DEF ShapeInv, CursorOK
  <1>2. CASE Start(r)
    BY <1>1, <1>2 DEF Start, RunFields
  <1>3. CASE End(r)
    BY <1>1, <1>3 DEF End, RunFields
  <1>4. CASE Failed(r)
    BY <1>1, <1>4 DEF Failed, RunFields
  <1>5. CASE ClaimScope(r)
    <2> DEFINE n == run[r].cur
               full == run[r].have + 1 = Len(plan.scopes[n])
               q1 == [run[r] EXCEPT !.have = @ + 1,
                                    !.lifecycle[n] = IF full THEN "Claimed" ELSE @]
    <2>1. run' = [run EXCEPT ![r] = q1]
      BY <1>5 DEF ClaimScope
    <2>2. q1.undone = run[r].undone
      BY <1>1 DEF RunFields
    <2> HIDE DEF q1
    <2>3. QED
      BY <1>1, <2>1, <2>2
  <1>6. QED
    BY <1>2, <1>3, <1>4, <1>5

LEMMA RetryUndo ==
    ASSUME ShapeInv, NEW r \in Runs, NEW n \in Nodes, Retry(r, n)
    PROVE  run'[r].undone = run[r].undone
  <1>1. DOMAIN run = Runs /\ DOMAIN run[r] = RunFields
    BY DEF ShapeInv, CursorOK
  <1>2. QED
    BY <1>1 DEF Retry, RunFields

LEMMA CrashUndo ==
    ASSUME ShapeInv, Crash, NEW r \in Runs
    PROVE  run'[r].undone = run[r].undone
  <1>1. DOMAIN run[r] = RunFields
    BY DEF ShapeInv, CursorOK
  <1>2. QED
    BY <1>1 DEF Crash, RunFields

\* A step outside a rollback that records no failure.
LEMMA QuietUndo ==
    ASSUME NEW q, NEW q1, GoodUndo(q), q1.undone = q.undone, q1.pc # "rollback",
           q1.pc = "failed" \/ q.pc \notin {"failed", "rollback"},
           \A n \in Nodes : q1.results[n] = "Failed" <=> q.results[n] = "Failed"
    PROVE  GoodUndo(q1)
  BY DEF GoodUndo, RollsBack

\* No node fails by being skipped, gated, claimed, launched or accepted.
LEMMA SkippedNotFailed ==
    ASSUME NEW r \in Runs, GoodRun(run[r]), GoodLife(run[r]), NEW n \in Nodes
    PROVE  /\ SkippedResults(r)[n] = "Failed" <=> run[r].results[n] = "Failed"
           /\ SkippedLifecycle(r)[n] = "Pending" => run[r].results[n] = "none"
           /\ SkippedResults(r) \in [Nodes -> Results]
           /\ SkippedLifecycle(r) \in [Nodes -> Lifecycles]
  <1>1. /\ SkippedLifecycle(r)[n] =
              IF n \in TaintedPending(r) THEN "Skipped" ELSE run[r].lifecycle[n]
        /\ SkippedResults(r)[n] =
              IF n \in TaintedPending(r) THEN "SkippedUpstream" ELSE run[r].results[n]
        /\ SkippedResults(r) \in [Nodes -> Results]
        /\ SkippedLifecycle(r) \in [Nodes -> Lifecycles]
    BY SkipTyped DEF GoodRun
  <1>2. NodeOK(run[r], n)
    BY DEF GoodLife
  <1>3. run[r].lifecycle[n] = "Pending" => run[r].results[n] = "none"
    BY <1>2 DEF NodeOK
  <1>4. n \in TaintedPending(r) => run[r].lifecycle[n] = "Pending"
    BY DEF TaintedPending
  <1>5. QED
    BY <1>1, <1>3, <1>4

LEMMA StopKeepsUndo ==
    ASSUME ShapeInv, NEW r \in Runs, GoodRun(run[r]), GoodLife(run[r]), GoodUndo(run[r]),
           StopFailFast(r) \/ StopExhausted(r)
    PROVE  GoodUndo(run'[r])
  <1>1. run'[r].undone = run[r].undone /\ run[r].pc = "loop"
    BY StopUndo DEF StopFailFast, StopExhausted
  <1>2. run'[r].pc = "end"
    BY StopFailFastFacts, StopExhaustedFacts DEF Ends
  <1>3. ASSUME NEW n \in Nodes
        PROVE  run'[r].results[n] = "Failed" <=> run[r].results[n] = "Failed"
    <2>1. CASE StopExhausted(r)
      <3>1. run'[r].results = SkippedResults(r)
        BY <2>1, StopExhaustedFacts
      <3>2. QED
        BY <3>1, SkippedNotFailed
    <2>2. CASE StopFailFast(r)
      <3> DEFINE pending == {m \in Nodes : SkippedLifecycle(r)[m] = "Pending"}
      <3>1. run'[r].results = Mark(SkippedResults(r), pending, "SkippedFailFast")
        BY <2>2, StopFailFastFacts
      <3>2. run'[r].results[n] = IF n \in pending THEN "SkippedFailFast" ELSE SkippedResults(r)[n]
        BY <3>1 DEF Mark
      <3>3. QED
        BY <3>2, SkippedNotFailed
    <2>3. QED
      BY <2>1, <2>2
  <1>4. QED
    BY <1>1, <1>2, <1>3, QuietUndo

LEMMA WaveKeepsUndo ==
    ASSUME ShapeInv, plan \in Plans, NEW r \in Runs, GoodRun(run[r]), GoodLife(run[r]),
           GoodUndo(run[r]), Wave(r)
    PROVE  GoodUndo(run'[r])
  <1>1. run'[r].undone = run[r].undone /\ run[r].pc = "loop"
    BY WaveUndo DEF Wave
  <1>2. run'[r].pc \in {"loop", "claim"}
    BY WaveFacts DEF Turns
  <1>3. ASSUME NEW n \in Nodes
        PROVE  run'[r].results[n] = "Failed" <=> run[r].results[n] = "Failed"
    <2>1. run'[r].results = Mark(Mark(SkippedResults(r), Conditional(r), "SkippedCondition"),
                                 ReviewGated(r), "Paused")
      BY WaveFacts
    <2>2. run'[r].results[n] =
            IF n \in ReviewGated(r) THEN "Paused"
            ELSE IF n \in Conditional(r) THEN "SkippedCondition" ELSE SkippedResults(r)[n]
      BY <2>1 DEF Mark
    <2>3. n \in ReviewGated(r) \cup Conditional(r) => n \in Ready(r)
      BY DEF ReviewGated, Conditional, Examined
    <2>4. n \in Ready(r) => run[r].lifecycle[n] = "Pending"
      BY DEF Ready
    <2>5. NodeOK(run[r], n)
      BY DEF GoodLife
    <2>6. n \in Ready(r) => run[r].results[n] = "none"
      BY <2>4, <2>5 DEF NodeOK
    <2>7. QED
      BY <2>2, <2>3, <2>6, SkippedNotFailed
  <1>4. QED
    BY <1>1, <1>2, <1>3, QuietUndo

LEMMA AcceptKeepsUndo ==
    ASSUME ShapeInv, NEW r \in Runs, NEW n \in Nodes, GoodRun(run[r]), GoodLife(run[r]),
           GoodUndo(run[r]), Accept(r, n)
    PROVE  GoodUndo(run'[r])
  <1>1. PICK v \in {"Succeeded", "Paused"} :
              /\ Becomes(r, run'[r]) /\ DrainsOn(run'[r], run[r].inflight \ {n})
              /\ run'[r].lifecycle = [run[r].lifecycle EXCEPT ![n] = v]
              /\ run'[r].results = [run[r].results EXCEPT ![n] = v]
              /\ run'[r].queue = run[r].queue /\ run'[r].attempts = run[r].attempts
              /\ run'[r].waves = run[r].waves /\ SameTaint(run'[r], run[r])
              /\ v = "Paused" <=> plan.acceptance[n] = "manual"
    BY AcceptFacts, Zenon
  <1>2. run'[r].pc \in {"loop", "drain"}
    BY <1>1 DEF DrainsOn
  <1>3. run[r].pc = "drain" /\ n \in run[r].inflight
    BY DrainingFacts DEF Accept
  <1>4. run[r].results[n] = "none"
    BY <1>3 DEF GoodLife, NodeOK
  <1>5. run[r].results \in [Nodes -> Results]
    BY DEF GoodRun, RunTyped
  <1>6. \A m \in Nodes : run'[r].results[m] = "Failed" <=> run[r].results[m] = "Failed"
    BY <1>1, <1>4, <1>5
  <1>7. run'[r].undone = run[r].undone
    BY AcceptUndo
  <1>8. QED
    BY <1>2, <1>3, <1>6, <1>7, QuietUndo

\* The failure opens an empty block for its root at the end of the log.
LEMMA FinalFailureOpensUndo ==
    ASSUME ShapeInv, plan \in Plans, NEW r \in Runs, NEW n \in Nodes, GoodRun(run[r]),
           GoodLife(run[r]), GoodUndo(run[r]), Draining(r, n), FinalFailure(r, n)
    PROVE  GoodUndo(run'[r])
  <1>1. /\ run'[r].pc = "rollback" /\ run'[r].cur = n /\ run'[r].results = run[r].results
        /\ run'[r].undone = run[r].undone /\ run'[r].undo = Undoing(n)
    BY FinalFailureFacts, FinalFailureUndo
  <1>2. run[r].pc = "drain" /\ n \in run[r].inflight
    BY DrainingFacts
  <1>3. run[r].results[n] = "none"
    BY <1>2 DEF GoodLife, NodeOK
  <1>4. PICK u : u = run[r].undone
    OBVIOUS
  <1>5. u \in UndoLog /\ Untouched(u, n)
    BY <1>2, <1>3, <1>4 DEF GoodUndo, RollsBack
  <1>6. Undoing(n) \in Seq(Nodes)
    BY UndoingTyped
  <1>7. Partial(run'[r], n)
    <2>1. Len(u) \in Nat /\ <<>> \in Seq(Nodes) /\ Len(<<>>) = 0 /\ Len(u) - 0 = Len(u)
      BY <1>5 DEF UndoLog
    <2>2. Undoing(n) = <<>> \o Undoing(n)
      BY <1>6
    <2>3. \A i \in 1..Len(u) : u[i].root # n /\ ~(Len(u) < i)
      BY <1>5, <2>1 DEF Untouched
    <2>4. Block(u, n, <<>>, Len(u))
      <3>1. Len(u) + Len(<<>>) <= Len(u) /\ 1..Len(<<>>) = {}
        BY <2>1
      <3>2. QED
        BY <2>1, <2>3, <3>1 DEF Block
    <2>5. Len(<<>>) <= Len(u) /\ Block(u, n, <<>>, Len(u) - Len(<<>>))
      BY <2>1, <2>4
    <2>6. QED
      BY <1>1, <1>4, <1>6, <2>1, <2>2, <2>5 DEF Partial
  <1>8. QED
    BY <1>1, <1>2, <1>4, <1>5, <1>7 DEF GoodUndo, RollsBack

\* A dispatch of the rollback moves from what is left to the end of the log.
LEMMA UndoMovesOn ==
    ASSUME ShapeInv, plan \in Plans, NEW r \in Runs, GoodRun(run[r]), GoodLife(run[r]),
           GoodUndo(run[r]), Undo(r)
    PROVE  GoodUndo(run'[r])
  <1>1. /\ run'[r].pc = run[r].pc /\ run'[r].cur = run[r].cur /\ run'[r].results = run[r].results
    BY UndoFacts DEF SameNodes, SamePlace
  <1>2. /\ run[r].pc = "rollback" /\ run[r].undo # <<>>
        /\ run'[r].undo = Tail(run[r].undo)
        /\ run'[r].undone = Append(run[r].undone,
                                   [root |-> run[r].cur, node |-> Head(run[r].undo)])
    BY UndoUndo
  <1>3. run[r].cur \in Nodes /\ run[r].results[run[r].cur] = "none"
    BY <1>2, RollbackFacts
  <1>4. PICK n \in Nodes : n = run[r].cur
    BY <1>3
  <1>5. PICK u : u = run[r].undone
    OBVIOUS
  <1>6. PICK left : left = run[r].undo
    OBVIOUS
  <1>7. u \in UndoLog /\ Partial(run[r], n)
    BY <1>2, <1>4, <1>5 DEF GoodUndo, RollsBack
  <1>8. PICK t \in Seq(Nodes) :
           /\ left \in Seq(Nodes) /\ Undoing(n) = t \o left
           /\ Len(t) <= Len(u) /\ Block(u, n, t, Len(u) - Len(t))
    BY <1>5, <1>6, <1>7 DEF Partial
  <1>9. PICK h : h = Head(left)
    OBVIOUS
  <1>10. PICK t1 : t1 = Append(t, h)
    OBVIOUS
  <1>11. PICK rest : rest = Tail(left)
    OBVIOUS
  <1>12. h \in Nodes /\ rest \in Seq(Nodes) /\ t1 \in Seq(Nodes) /\ t1 \o rest = t \o left
    <2>1. left \in Seq(Nodes) /\ left # <<>>
      BY <1>2, <1>6, <1>8
    <2>2. /\ Head(left) \in Nodes /\ Tail(left) \in Seq(Nodes) /\ Append(t, Head(left)) \in Seq(Nodes)
          /\ Append(t, Head(left)) \o Tail(left) = t \o left
      BY <2>1, HeadMoves
    <2>3. QED
      BY <1>9, <1>10, <1>11, <2>2
  <1>13. PICK e : e = [root |-> n, node |-> h]
    OBVIOUS
  <1>14. PICK v : v = Append(u, e)
    OBVIOUS
  <1>15. e \in [root : Nodes, node : Nodes] /\ e.root = n
    BY <1>12, <1>13
  <1>16. v \in UndoLog /\ run'[r].undone = v /\ run'[r].undo = rest
    <2>1. v \in UndoLog
      BY <1>7, <1>14, <1>15 DEF UndoLog
    <2>2. QED
      BY <1>2, <1>4, <1>5, <1>6, <1>9, <1>11, <1>13, <1>14, <2>1
  <1>17. Len(t1) <= Len(v) /\ Block(v, n, t1, Len(v) - Len(t1))
    BY <1>7, <1>8, <1>10, <1>12, <1>13, <1>14, BlockGrows
  <1>18. Partial(run'[r], n)
    BY <1>8, <1>12, <1>16, <1>17 DEF Partial
  <1>19. ASSUME NEW m \in Nodes, m # n
         PROVE  /\ run[r].results[m] = "Failed" => Undone(v, m, Undoing(m))
                /\ run[r].results[m] # "Failed" => Untouched(v, m)
    <2>1. e.root # m /\ Undoing(m) \in Seq(Nodes)
      BY <1>15, <1>19, UndoingTyped
    <2>2. run[r].results[m] = "Failed" => Undone(u, m, Undoing(m))
      BY <1>5 DEF GoodUndo
    <2>3. run[r].results[m] # "Failed" => Untouched(u, m)
      BY <1>2, <1>4, <1>5, <1>19 DEF GoodUndo, RollsBack
    <2>4. PICK s : s = Undoing(m)
      OBVIOUS
    <2>5. ASSUME run[r].results[m] = "Failed" PROVE Undone(v, m, s)
      BY <1>7, <1>14, <1>15, <2>1, <2>2, <2>4, <2>5, UndoneKeptByOthers
    <2>6. ASSUME run[r].results[m] # "Failed" PROVE Untouched(v, m)
      BY <1>7, <1>14, <1>15, <2>1, <2>3, <2>6, UntouchedByOthers
    <2>7. QED
      BY <2>4, <2>5, <2>6
  <1>20. QED
    BY <1>1, <1>2, <1>3, <1>4, <1>16, <1>18, <1>19 DEF GoodUndo, RollsBack

\* When nothing is left, the block is complete and its root's result is set.
LEMMA RecordFailureClosesUndo ==
    ASSUME ShapeInv, plan \in Plans, NEW r \in Runs, GoodRun(run[r]), GoodLife(run[r]),
           GoodUndo(run[r]), RecordFailure(r)
    PROVE  GoodUndo(run'[r])
  <1>1. /\ run'[r].results = [run[r].results EXCEPT ![run[r].cur] = "Failed"]
        /\ DrainsOn(run'[r], run[r].inflight)
    BY RecordFailureFacts
  <1>2. /\ run[r].pc = "rollback" /\ run[r].undo = <<>>
        /\ run'[r].undone = run[r].undone
    BY RecordFailureUndo
  <1>3. run[r].cur \in Nodes
    BY <1>2, RollbackFacts
  <1>4. PICK n \in Nodes : n = run[r].cur
    BY <1>3
  <1>5. run'[r].pc \in {"loop", "drain"}
    BY <1>1 DEF DrainsOn
  <1>6. run[r].results \in [Nodes -> Results]
    BY DEF GoodRun, RunTyped
  <1>7. \A m \in Nodes : run'[r].results[m] = IF m = n THEN "Failed" ELSE run[r].results[m]
    BY <1>1, <1>4, <1>6
  <1>8. PICK u : u = run[r].undone
    OBVIOUS
  <1>9. u \in UndoLog /\ Partial(run[r], n)
    BY <1>2, <1>4, <1>8 DEF GoodUndo, RollsBack
  <1>10. PICK t \in Seq(Nodes) :
           /\ Undoing(n) = t \o <<>>
           /\ Len(t) <= Len(u) /\ Block(u, n, t, Len(u) - Len(t))
    BY <1>2, <1>8, <1>9 DEF Partial
  <1>11. Undoing(n) = t
    BY <1>10
  <1>12. Len(u) - Len(t) \in Nat
    BY <1>10 DEF Block
  <1>13. Undone(u, n, Undoing(n))
    BY <1>10, <1>11, <1>12 DEF Undone
  <1>14. QED
    BY <1>2, <1>4, <1>5, <1>7, <1>8, <1>9, <1>13 DEF GoodUndo, RollsBack

LEMMA RunUndoes ==
    ASSUME TypeOK, ShapeInv, NEW r \in Runs, GoodLife(run[r]), GoodUndo(run[r]), ByRun(r)
    PROVE  GoodUndo(run'[r])
  <1>1. GoodRun(run[r]) /\ plan \in Plans /\ run[r].lifecycle \in [Nodes -> Lifecycles]
    BY GoodParts DEF AllGood, GoodRun, RunTyped
  <1>2. CASE Failed(r)
    <2>1. /\ run'[r].undone = run[r].undone /\ run'[r].pc = "failed"
          /\ run'[r].results = run[r].results
      BY <1>2, FailedFacts, MoveUndo DEF Dies, SameNodes
    <2>2. QED
      BY <2>1, QuietUndo
  <1>3. CASE StopFailFast(r) \/ StopExhausted(r)
    BY <1>1, <1>3, StopKeepsUndo
  <1>4. CASE Wave(r)
    BY <1>1, <1>4, WaveKeepsUndo
  <1>5. ASSUME run'[r].undone = run[r].undone, run'[r].results = run[r].results,
               run'[r].pc # "rollback", run[r].pc \notin {"failed", "rollback"}
        PROVE  GoodUndo(run'[r])
    BY <1>5, QuietUndo
  <1>6. CASE Start(r) \/ End(r)
    <2>1. /\ run'[r].undone = run[r].undone /\ run'[r].results = run[r].results
          /\ run'[r].pc # "rollback" /\ run[r].pc \notin {"failed", "rollback"}
      BY <1>6, StartFacts, EndFacts, MoveUndo DEF SameNodes, Start, End
    <2>2. QED
      BY <1>5, <2>1
  <1>7. CASE ClaimScope(r)
    <2>1. /\ run'[r].undone = run[r].undone /\ run'[r].results = run[r].results
          /\ run'[r].pc = run[r].pc
      BY <1>1, <1>7, ClaimScopeFacts, MoveUndo
    <2>2. run[r].pc \in {"claim", "retry"}
      BY <1>7 DEF ClaimScope, Claiming
    <2>3. QED
      BY <1>5, <2>1, <2>2
  <1>8. CASE Spawn(r)
    <2>1. /\ run'[r].undone = run[r].undone /\ run'[r].results = run[r].results
          /\ run'[r].pc \in {"claim", "drain"}
      BY <1>8, SpawnFacts, SpawnUndo DEF Turns
    <2>2. run[r].pc \in {"claim", "retry"}
      BY <1>8 DEF Spawn, Claiming
    <2>3. QED
      BY <1>5, <2>1, <2>2
  <1>9. ASSUME NEW n \in Nodes, Accept(r, n) PROVE GoodUndo(run'[r])
    BY <1>1, <1>9, AcceptKeepsUndo
  <1>10. ASSUME NEW n \in Nodes, Draining(r, n), FinalFailure(r, n) PROVE GoodUndo(run'[r])
    BY <1>1, <1>10, FinalFailureOpensUndo
  <1>11. ASSUME NEW n \in Nodes, Retry(r, n) PROVE GoodUndo(run'[r])
    <2>1. /\ run'[r].undone = run[r].undone /\ run'[r].results = run[r].results
          /\ run'[r].pc = "retry"
      BY <1>11, RetryFacts, RetryUndo DEF SameNodes
    <2>2. run[r].pc = "drain"
      BY <1>11 DEF Retry, Draining
    <2>3. QED
      BY <1>5, <2>1, <2>2
  <1>12. CASE Undo(r)
    BY <1>1, <1>12, UndoMovesOn
  <1>13. CASE RecordFailure(r)
    BY <1>1, <1>13, RecordFailureClosesUndo
  <1>14. QED
    BY <1>2, <1>3, <1>4, <1>6, <1>7, <1>8, <1>9, <1>10, <1>11, <1>12, <1>13
    DEF ByRun, RunStep, ClaimConflict, ClaimFault, Raise, Reject, Fail

LEMMA UndoStep ==
    ASSUME TypeOK, ShapeInv, LifeInv, UndoInv, [Next]_vars
    PROVE  UndoInv'
  <1>1. \A r \in Runs : GoodLife(run[r]) /\ GoodUndo(run[r])
    BY DEF LifeInv, GoodLife, UndoInv
  <1>2. plan' = plan
    BY AllGoodStep
  <1>3. \A r \in Runs : GoodUndo(run'[r])
    <2>1. ASSUME NEW r \in Runs, ByRun(r) PROVE \A x \in Runs : GoodUndo(run'[x])
      BY <1>1, <2>1, RunUndoes, RunGood DEF Becomes
    <2>2. ASSUME Crash, NEW r \in Runs PROVE GoodUndo(run'[r])
      <3>1. CASE run'[r] = run[r]
        BY <1>1, <3>1
      <3>2. CASE Dies(run'[r], run[r])
        <4>1. /\ run'[r].undone = run[r].undone /\ run'[r].pc = "failed"
              /\ run'[r].results = run[r].results
          BY <2>2, <3>2, CrashUndo DEF Dies, SameNodes
        <4>2. QED
          BY <1>1, <4>1, QuietUndo
      <3>3. QED
        BY <2>2, <3>1, <3>2, CrashFacts
    <2>3. QED
      BY <1>1, <2>1, <2>2, NextCases DEF LeaseLapses, Resume, ResumeDone, vars
  <1>4. ASSUME NEW r \in Runs PROVE GoodUndo(run[r])'
    <2>1. \A n \in Nodes : Undoing(n)' = Undoing(n)
      BY <1>2 DEF Undoing
    <2>2. \A n \in Nodes :
            /\ RollsBack(run[r], n)' <=> RollsBack(run'[r], n)
            /\ Untouched(run[r].undone, n)' <=> Untouched(run'[r].undone, n)
      BY DEF RollsBack, Untouched
    <2>3. \A n \in Nodes : Undone(run[r].undone, n, Undoing(n))' <=>
                             Undone(run'[r].undone, n, Undoing(n))
      BY <2>1 DEF Undone, Block
    <2>4. \A n \in Nodes : Partial(run[r], n)' <=> Partial(run'[r], n)
      BY <2>1 DEF Partial, Block
    <2>5. GoodUndo(run'[r])
      BY <1>3
    <2>6. QED
      BY <2>2, <2>3, <2>4, <2>5 DEF GoodUndo
  <1>5. QED
    BY <1>4 DEF UndoInv

LEMMA InitUndo == Init => UndoInv
  <1> SUFFICES ASSUME Init, NEW r \in Runs PROVE GoodUndo(run[r])
    BY DEF UndoInv
  <1>1. /\ run[r].undone = <<>> /\ run[r].pc = "idle"
        /\ \A n \in Nodes : run[r].results[n] = "none"
    BY DEF Init, FreshRun
  <1>2. <<>> \in UndoLog /\ Len(<<>>) = 0 /\ 1..0 = {}
    BY DEF UndoLog
  <1>3. \A n \in Nodes : Untouched(<<>>, n)
    BY <1>2 DEF Untouched
  <1>4. QED
    BY <1>1, <1>2, <1>3 DEF GoodUndo, RollsBack

\* The log of one complete rollback, read as CompensatedInOrder reads it.
Reads(u, root, rb, cand, after) ==
    LET mine == {i \in 1..Len(u) : u[i].root = root}
        own  == {i \in mine : root \in rb /\ \A j \in mine : i <= j}
        rest == mine \ own
    IN  /\ root \in rb => own # {}
        /\ \A i \in own : u[i].node = root
        /\ {u[i].node : i \in rest} = cand
        /\ \A i, j \in rest : u[i].node = u[j].node => i = j
        /\ \A n \in cand : \A m \in after[n] :
             \/ \E i, j \in rest : i < j /\ u[i].node = m /\ u[j].node = n
             \/ Cyclic(Nodes, after, m)

LEMMA BlockReads ==
    ASSUME NEW u \in UndoLog, NEW root, NEW rb, NEW cand, NEW after,
           NEW c, Compensates(Nodes, cand, after, c),
           NEW t, t = (IF root \in rb THEN <<root>> ELSE <<>>) \o c, root \in Nodes,
           Undone(u, root, t)
    PROVE  Reads(u, root, rb, cand, Within(Nodes, cand, after))
  <1> DEFINE step == Within(Nodes, cand, after)
  <1>1. /\ c \in Seq(Nodes) /\ Elems(c) = cand
        /\ \A i, j \in 1..Len(c) : c[i] = c[j] => i = j
        /\ \A n \in cand : \A m \in step[n] :
             \/ \E i, j \in 1..Len(c) : i < j /\ c[i] = m /\ c[j] = n
             \/ Cyclic(Nodes, step, m)
    BY DEF Compensates
  <1> HIDE DEF step
  <1>2. PICK s : s = IF root \in rb THEN <<root>> ELSE <<>>
    OBVIOUS
  <1>3. /\ s \in Seq(Nodes) /\ t = s \o c
        /\ Len(s) = IF root \in rb THEN 1 ELSE 0
        /\ root \in rb => s[1] = root
    BY <1>2
  <1>4. /\ Len(t) = Len(s) + Len(c) /\ Len(s) \in Nat /\ Len(c) \in Nat
        /\ \A i \in 1..Len(s) : t[i] = s[i]
        /\ \A i \in 1..Len(c) : t[Len(s) + i] = c[i]
    BY <1>1, <1>3, ConcatFacts
  <1>5. PICK b0 \in Nat : Block(u, root, t, b0)
    BY DEF Undone
  <1>6. /\ b0 + Len(t) <= Len(u)
        /\ \A i \in 1..Len(u) : u[i].root = root <=> (b0 < i /\ i <= b0 + Len(t))
        /\ \A k \in 1..Len(t) : u[b0 + k].node = t[k]
    BY <1>5 DEF Block
  <1>7. Len(u) \in Nat
    BY DEF UndoLog
  <1> DEFINE mine == {i \in 1..Len(u) : u[i].root = root}
             own  == {i \in mine : root \in rb /\ \A j \in mine : i <= j}
             rest == mine \ own
             b == b0 + Len(s)
  <1>8. mine = (b0 + 1)..(b0 + Len(t))
    <2>1. \A i \in mine : i \in (b0 + 1)..(b0 + Len(t))
      BY <1>5, <1>6, <1>7
    <2>2. \A i \in (b0 + 1)..(b0 + Len(t)) : i \in 1..Len(u) /\ b0 < i /\ i <= b0 + Len(t)
      BY <1>4, <1>5, <1>6, <1>7
    <2>3. QED
      BY <1>6, <2>1, <2>2
  <1> HIDE DEF mine
  \* The node's own rollback comes first, the compensations behind it.
  <1>9. /\ own = IF root \in rb THEN {b0 + 1} ELSE {}
        /\ rest = (b + 1)..(b + Len(c))
        /\ b \in Nat
    <2>1. CASE root \in rb
      <3>1. Len(s) = 1 /\ Len(t) = Len(c) + 1 /\ b = b0 + 1 /\ b \in Nat
        BY <1>3, <1>4, <1>5, <2>1
      <3>2. b0 + 1 \in mine /\ \A j \in mine : j \in Nat /\ b0 + 1 <= j
        BY <1>4, <1>5, <1>8, <3>1
      <3>3. own = {b0 + 1}
        <4>1. \A i \in own : i \in Nat /\ i <= b0 + 1 /\ b0 + 1 <= i
          BY <3>2
        <4>2. \A i \in own : i = b0 + 1
          BY <1>5, <4>1
        <4>3. b0 + 1 \in own
          BY <2>1, <3>2
        <4>4. QED
          BY <4>2, <4>3
      <3>4. \A i : i \in mine /\ i # b0 + 1 <=> i \in (b + 1)..(b + Len(c))
        BY <1>4, <1>5, <1>8, <3>1
      <3>5. QED
        BY <2>1, <3>1, <3>3, <3>4
    <2>2. CASE root \notin rb
      <3>1. Len(s) = 0 /\ Len(t) = Len(c) /\ b = b0
        BY <1>3, <1>4, <1>5, <2>2
      <3>2. own = {}
        BY <2>2
      <3>3. QED
        BY <1>5, <1>8, <2>2, <3>1, <3>2
    <2>3. QED
      BY <2>1, <2>2
  <1>10. root \in rb => u[b0 + 1].node = root
    BY <1>3, <1>4, <1>6
  <1>11. \A k \in 1..Len(c) : b + k \in rest /\ u[b + k].node = c[k]
    <2> SUFFICES ASSUME NEW k \in 1..Len(c) PROVE b + k \in rest /\ u[b + k].node = c[k]
      OBVIOUS
    <2>1. b + k \in rest
      <3> HIDE DEF rest, b
      <3>1. b + k \in (b + 1)..(b + Len(c))
        BY <1>4, <1>9
      <3>2. QED
        BY <1>9, <3>1
    <2>2. Len(s) + k \in 1..Len(t) /\ b0 + (Len(s) + k) = b + k
      BY <1>4, <1>5
    <2>3. u[b0 + (Len(s) + k)].node = t[Len(s) + k] /\ t[Len(s) + k] = c[k]
      BY <1>4, <1>6, <2>2
    <2>4. QED
      BY <2>1, <2>2, <2>3
  <1>12. \A i \in rest : i - b \in 1..Len(c) /\ b + (i - b) = i
    BY <1>4, <1>9
  <1>13. \A i \in rest : u[i].node = c[i - b]
    BY <1>11, <1>12
  <1>14. (root \in rb => own # {}) /\ \A i \in own : u[i].node = root
    BY <1>9, <1>10
  <1> HIDE DEF own, rest, b
  <1>15. {u[i].node : i \in rest} = cand
    <2>1. \A i \in rest : u[i].node \in cand
      BY <1>1, <1>12, <1>13 DEF Elems
    <2>2. ASSUME NEW x \in cand PROVE \E i \in rest : u[i].node = x
      <3>1. PICK k \in 1..Len(c) : c[k] = x
        BY <1>1, <2>2 DEF Elems
      <3>2. QED
        BY <1>11, <3>1
    <2>3. QED
      BY <2>1, <2>2
  <1>16. ASSUME NEW i \in rest, NEW j \in rest, u[i].node = u[j].node PROVE i = j
    <2>1. i - b = j - b
      BY <1>1, <1>12, <1>13, <1>16
    <2>2. QED
      BY <1>12, <2>1
  <1>17. ASSUME NEW n \in cand, NEW m \in step[n]
         PROVE  \/ \E i, j \in rest : i < j /\ u[i].node = m /\ u[j].node = n
                \/ Cyclic(Nodes, step, m)
    <2>1. CASE \E i, j \in 1..Len(c) : i < j /\ c[i] = m /\ c[j] = n
      <3>1. PICK i \in 1..Len(c), j \in 1..Len(c) : i < j /\ c[i] = m /\ c[j] = n
        BY <2>1
      <3>2. b + i \in rest /\ b + j \in rest /\ u[b + i].node = m /\ u[b + j].node = n
        BY <1>11, <3>1
      <3>3. b + i < b + j
        BY <1>4, <1>9, <3>1
      <3>4. QED
        BY <3>2, <3>3
    <2>2. QED
      BY <1>1, <1>17, <2>1
  <1>18. QED
    BY <1>14, <1>15, <1>16, <1>17 DEF Reads, step, mine, own, rest

LEMMA UndoInvOrders == DagInv /\ UndoInv => CompensatedInOrder
  <1> SUFFICES ASSUME DagInv, UndoInv, NEW r \in Runs, NEW root \in plan.cascade,
                      run[r].results[root] = "Failed"
               PROVE  Reads(run[r].undone, root, plan.rollback, plan.candidates[root],
                            [n \in Nodes |-> IF n \in plan.candidates[root]
                                             THEN plan.after[n] \cap plan.candidates[root] ELSE {}])
    BY DEF CompensatedInOrder, Reads
  <1>1. plan \in Plans /\ GoodUndo(run[r])
    BY DagInvParts DEF UndoInv
  <1>2. root \in Nodes
    BY <1>1, PlanDagAssumption DEF IsPlan
  <1>3. PICK u : u = run[r].undone
    OBVIOUS
  <1>4. PICK c : c = Cascade(root)
    OBVIOUS
  <1>5. PICK rb : rb = plan.rollback
    OBVIOUS
  <1>6. PICK cand : cand = plan.candidates[root]
    OBVIOUS
  <1>7. PICK after : after = plan.after
    OBVIOUS
  <1>8. Compensates(Nodes, cand, after, c)
    BY <1>1, <1>2, <1>4, <1>6, <1>7, CascadeFacts
  <1>9. Undoing(root) = (IF root \in rb THEN <<root>> ELSE <<>>) \o c
    BY <1>4, <1>5 DEF Undoing, Cascade
  <1>10. u \in UndoLog /\ Undone(u, root, Undoing(root))
    BY <1>1, <1>2, <1>3 DEF GoodUndo
  <1>11. PICK t : t = Undoing(root)
    OBVIOUS
  <1>12. Reads(u, root, rb, cand, Within(Nodes, cand, after))
    BY <1>2, <1>8, <1>9, <1>10, <1>11, BlockReads
  <1>13. Within(Nodes, cand, after) =
           [n \in Nodes |-> IF n \in plan.candidates[root]
                            THEN plan.after[n] \cap plan.candidates[root] ELSE {}]
    BY <1>6, <1>7 DEF Within
  <1>14. QED
    BY <1>3, <1>5, <1>6, <1>12, <1>13

(***************************************************************************)
(* Whatever the plan, its :rollback-after edges and what other runs do, a  *)
(* root whose failure a run has recorded was rolled back first and then    *)
(* compensated by every candidate once, in the declared order, cycles      *)
(* apart (run_rollback, run_cascade_rollback, compute_compensation_order). *)
(***************************************************************************)
THEOREM CompensationHolds == Spec => []CompensatedInOrder
  <1>1. DagInv => TypeOK /\ ShapeInv /\ LifeInv
    BY DEF DagInv
  <1>2. UndoInv /\ DagInv /\ [Next]_vars => UndoInv'
    BY <1>1, UndoStep
  <1>3. QED
    BY InitUndo, <1>2, UndoInvOrders, DagInvHolds, PTL DEF Spec
-----------------------------------------------------------------------------
(***************************************************************************)
(* The width of a run.                                                     *)
(***************************************************************************)
\* What a run has on its hands: the nodes it waits for, the ones it has still
\* to claim for, and the one it retries or rolls back.
OnHand(q) ==
    q.inflight \cup q.queue \cup {n \in Nodes : q.pc \in {"retry", "rollback"} /\ n = q.cur}

WithinWidth == \A r \in Runs : Cardinality(OnHand(run[r])) <= MaxParallel

LEMMA OnHandFinite ==
    ASSUME NEW q, GoodRun(q)
    PROVE  OnHand(q) \in SUBSET Nodes /\ IsFiniteSet(OnHand(q)) /\ Cardinality(OnHand(q)) \in Nat
  <1>1. OnHand(q) \in SUBSET Nodes
    BY DEF GoodRun, RunTyped, OnHand
  <1>2. QED
    BY <1>1, NodeFacts, FS_Subset, FS_CardinalityType

\* A wave puts at most max_parallel_nodes on the hands of its run.
LEMMA WaveWidth ==
    ASSUME ShapeInv, NEW r \in Runs, Wave(r)
    PROVE  Cardinality(OnHand(run'[r])) <= MaxParallel
  <1>1. /\ Turns(run'[r], ToDispatch(r), "loop", run[r])
        /\ run'[r].inflight = run[r].inflight
    BY WaveFacts
  <1>2. run[r].pc = "loop" /\ CursorOK(run[r])
    BY DEF Wave, ShapeInv
  <1>3. run[r].inflight = {}
    BY <1>2 DEF CursorOK
  <1>4. OnHand(run'[r]) = ToDispatch(r)
    BY <1>1, <1>3 DEF OnHand, Turns
  <1>5. PICK S : S = {m \in Ready(r) : ~Gated(m)}
    OBVIOUS
  <1>6. PICK T : T = ToDispatch(r)
    OBVIOUS
  <1>7. S \in SUBSET Nodes /\ T \in SUBSET S
    BY <1>5, <1>6 DEF Ready, ToDispatch, Examined
  <1>8. IsFiniteSet(S) /\ S \in SUBSET Nat /\ MaxParallel \in Nat
    BY <1>7, NodeFacts, FS_Subset, PlanDagAssumption
  <1>9. ASSUME NEW n \in T PROVE Cardinality({m \in S : m < n}) < MaxParallel
    <2>1. Cardinality({m \in Ready(r) : m < n /\ ~Gated(m)}) < MaxParallel
      BY <1>6, <1>9 DEF ToDispatch, Examined
    <2>2. {m \in S : m < n} = {m \in Ready(r) : m < n /\ ~Gated(m)}
      BY <1>5
    <2>3. QED
      BY <2>1, <2>2
  <1>10. Cardinality(T) <= MaxParallel
    BY <1>7, <1>8, <1>9, PrefixWidth
  <1>11. QED
    BY <1>4, <1>6, <1>10

\* Every other step of a run takes work off its hands, or moves it on.
LEMMA OnHandShrinks ==
    ASSUME TypeOK, ShapeInv, NEW r \in Runs, ByRun(r), ~Wave(r)
    PROVE  OnHand(run'[r]) \subseteq OnHand(run[r])
  <1>1. GoodRun(run[r]) /\ run[r].lifecycle \in [Nodes -> Lifecycles]
    BY GoodParts DEF AllGood, GoodRun, RunTyped
  <1>2. CASE Failed(r)
    BY <1>2, FailedFacts DEF Dies, OnHand
  <1>3. CASE StopFailFast(r) \/ StopExhausted(r)
    BY <1>3, StopFailFastFacts, StopExhaustedFacts DEF Ends, SameWork, OnHand
  <1>4. CASE Start(r) \/ End(r)
    BY <1>4, StartFacts, EndFacts DEF SameWork, OnHand
  <1>5. CASE Undo(r)
    BY <1>5, UndoFacts DEF SameWork, SamePlace, OnHand
  <1>6. CASE ClaimScope(r)
    BY <1>1, <1>6, ClaimScopeFacts DEF SameWork, OnHand
  <1>7. CASE Spawn(r)
    <2>1. run[r].pc \in {"claim", "retry"}
      BY <1>7 DEF Spawn, Claiming
    <2>2. run[r].cur \in OnHand(run[r])
      BY <1>1, <2>1 DEF GoodRun, RunTyped, CursorOK, OnHand
    <2>3. /\ run'[r].queue = run[r].queue \ {run[r].cur} /\ run'[r].pc \in {"claim", "drain"}
          /\ run'[r].inflight = run[r].inflight \cup {run[r].cur}
      BY <1>7, SpawnFacts DEF Turns
    <2>4. QED
      BY <2>2, <2>3 DEF OnHand
  <1>8. ASSUME NEW n \in Nodes, Accept(r, n) PROVE OnHand(run'[r]) \subseteq OnHand(run[r])
    <2>1. /\ run'[r].queue = run[r].queue /\ run'[r].pc \in {"loop", "drain"}
          /\ run'[r].inflight = run[r].inflight \ {n}
      BY <1>8, AcceptFacts DEF DrainsOn
    <2>2. QED
      BY <2>1 DEF OnHand
  <1>9. ASSUME NEW n \in Nodes, Draining(r, n), FinalFailure(r, n) \/ Retry(r, n)
        PROVE  OnHand(run'[r]) \subseteq OnHand(run[r])
    <2>1. /\ run'[r].queue = run[r].queue /\ run'[r].cur = n
          /\ run'[r].inflight = run[r].inflight \ {n} /\ n \in run[r].inflight
      BY <1>9, FinalFailureFacts, RetryFacts DEF Draining
    <2>2. QED
      BY <2>1 DEF OnHand
  <1>10. CASE RecordFailure(r)
    <2>1. /\ run'[r].queue = run[r].queue /\ run'[r].pc \in {"loop", "drain"}
          /\ run'[r].inflight = run[r].inflight
      BY <1>10, RecordFailureFacts DEF DrainsOn
    <2>2. QED
      BY <2>1 DEF OnHand
  <1>11. QED
    BY <1>2, <1>3, <1>4, <1>5, <1>6, <1>7, <1>8, <1>9, <1>10
    DEF ByRun, RunStep, ClaimConflict, ClaimFault, Raise, Reject, Fail, Retry

LEMMA WidthStep ==
    ASSUME TypeOK, ShapeInv, WithinWidth, [Next]_vars
    PROVE  WithinWidth'
  <1>1. \A r \in Runs : GoodRun(run[r]) /\ Cardinality(OnHand(run[r])) <= MaxParallel
    BY GoodParts DEF AllGood, WithinWidth
  <1>2. ASSUME NEW r \in Runs, OnHand(run'[r]) \subseteq OnHand(run[r])
        PROVE  Cardinality(OnHand(run'[r])) <= MaxParallel
    <2>1. PICK S : S = OnHand(run[r])
      OBVIOUS
    <2>2. PICK T : T = OnHand(run'[r])
      OBVIOUS
    <2>3. IsFiniteSet(S) /\ Cardinality(S) \in Nat /\ Cardinality(S) <= MaxParallel
      BY <1>1, <2>1, OnHandFinite
    <2>4. T \in SUBSET S
      BY <1>2, <2>1, <2>2
    <2>5. IsFiniteSet(T) /\ Cardinality(T) \in Nat /\ Cardinality(T) <= Cardinality(S)
      BY <2>3, <2>4, FS_Subset, FS_CardinalityType
    <2>6. QED
      BY <2>2, <2>3, <2>5, PlanDagAssumption
  <1>3. ASSUME NEW r \in Runs PROVE Cardinality(OnHand(run'[r])) <= MaxParallel
    <2>1. CASE run'[r] = run[r]
      BY <1>1, <2>1
    <2>2. CASE ByRun(r) /\ Wave(r)
      BY <2>2, WaveWidth
    <2>3. CASE ByRun(r) /\ ~Wave(r)
      BY <1>2, <2>3, OnHandShrinks
    <2>4. CASE Crash
      <3>1. run'[r] = run[r] \/ Dies(run'[r], run[r])
        BY <2>4, CrashFacts
      <3>2. OnHand(run'[r]) \subseteq OnHand(run[r])
        BY <3>1 DEF Dies, OnHand
      <3>3. QED
        BY <1>2, <3>2
    <2>5. ASSUME NEW x \in Runs, ByRun(x), x # r PROVE run'[r] = run[r]
      BY <2>5, RunGood DEF Becomes
    <2>6. QED
      BY <2>1, <2>2, <2>3, <2>4, <2>5, NextCases DEF LeaseLapses, Resume, ResumeDone, vars
  <1>4. ASSUME NEW r \in Runs PROVE (Cardinality(OnHand(run[r])) <= MaxParallel)'
    BY <1>3 DEF OnHand
  <1>5. QED
    BY <1>4 DEF WithinWidth

LEMMA InitWidth == Init => WithinWidth
  <1> SUFFICES ASSUME Init, NEW r \in Runs PROVE Cardinality(OnHand(run[r])) <= MaxParallel
    BY DEF WithinWidth
  <1>1. run[r].inflight = {} /\ run[r].queue = {} /\ run[r].pc = "idle"
    BY DEF Init, FreshRun
  <1>2. OnHand(run[r]) = {}
    BY <1>1 DEF OnHand
  <1>3. Cardinality({}) = 0
    BY FS_EmptySet
  <1>4. QED
    BY <1>2, <1>3, PlanDagAssumption

(***************************************************************************)
(* A run never has more than max_parallel_nodes on its hands, the node it  *)
(* retries or rolls back in the middle of a drain included: retries reuse  *)
(* the place of the dispatch that failed, and no wave begins before the    *)
(* last one is drained (execute_with_concurrency, drain_dispatch_wave,     *)
(* retry_failed_node_if_allowed, filter_ready_nodes_for_gates).            *)
(***************************************************************************)
THEOREM WidthIsKept == Spec => []WithinWidth
  <1>1. WithinWidth /\ (TypeOK /\ ShapeInv) /\ [Next]_vars => WithinWidth'
    BY WidthStep
  <1>2. QED
    BY InitWidth, <1>1, PlanDagTypeOK, PTL DEF Spec
=============================================================================
