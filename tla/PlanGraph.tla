----------------------------- MODULE PlanGraph -----------------------------
(***************************************************************************)
(* The pure algorithms of the PLAN DAG scheduler                           *)
(* (handlers/knowledge/plan_dag): topological sort, transitive ancestors,  *)
(* failure taint, the dry-run wave preview and the order of cascade        *)
(* compensations.  Node ids are numbers: the scheduler only compares ids,  *)
(* by their sort order.  `deps' maps every node to its :depends-on set.    *)
(***************************************************************************)
EXTENDS Integers, Sequences, FiniteSets

Least(S) == CHOOSE n \in S : \A m \in S : n <= m

Elems(s) == {s[i] : i \in 1..Len(s)}

\* ready.iter().take(k) of a sorted vector.
FirstOf(S, k) == {n \in S : Cardinality({m \in S : m < n}) < k}

(***************************************************************************)
(* kahn_topo_sort: repeatedly the least node all of whose dependencies are *)
(* already placed.  A shorter result means the graph has a cycle.          *)
(***************************************************************************)
TopoOrder(nodes, deps) ==
    LET prefix[k \in 0..Cardinality(nodes)] ==
          IF k = 0 THEN <<>>
          ELSE LET placed == Elems(prefix[k - 1])
                   ready  == {n \in nodes \ placed : deps[n] \subseteq placed}
               IN  IF ready = {} THEN prefix[k - 1]
                   ELSE Append(prefix[k - 1], Least(ready))
    IN  prefix[Cardinality(nodes)]

Acyclic(nodes, deps) == Len(TopoOrder(nodes, deps)) = Cardinality(nodes)

(***************************************************************************)
(* Nodes reached from `from' in at most |nodes| steps of a relation.       *)
(***************************************************************************)
Reach(nodes, step, from) ==
    LET within[k \in 0..Cardinality(nodes)] ==
          IF k = 0 THEN step[from]
          ELSE within[k - 1] \cup UNION {step[m] : m \in within[k - 1]}
    IN  within[Cardinality(nodes)]

\* n lies on a cycle of the relation, or a cycle can be reached from it.
Cyclic(nodes, step, n) ==
    \E m \in {n} \cup Reach(nodes, step, n) : m \in Reach(nodes, step, m)

\* compute_transitive_ancestors.
Ancestors(nodes, deps, n) == Reach(nodes, deps, n)

\* build_successor_map.
Successors(nodes, deps) == [n \in nodes |-> {m \in nodes : n \in deps[m]}]

\* Mutant of PropagateTaint: only the direct successors.
PropagateTaintOneStep(nodes, deps, tainted, failed) ==
    tainted \cup Successors(nodes, deps)[failed]

(***************************************************************************)
(* propagate_taint: a breadth-first walk from the failed node that does    *)
(* not enter a node already tainted, so an older tainter keeps its nodes   *)
(* and hides whatever lies behind them.                                    *)
(***************************************************************************)
PropagateTaint(nodes, deps, tainted, failed) ==
    LET succs == Successors(nodes, deps)
        fresh == [n \in nodes |-> succs[n] \ tainted]
    IN  tainted \cup Reach(nodes, fresh, failed)

(***************************************************************************)
(* compute_concurrency_plan: the waves a dry run announces, on the         *)
(* assumption that every node succeeds.                                    *)
(***************************************************************************)
ConcurrencyPlan(nodes, deps, maxParallel) ==
    LET waves[k \in 0..Cardinality(nodes)] ==
          IF k = 0 THEN <<>>
          ELSE LET done  == UNION Elems(waves[k - 1])
                   ready == {n \in nodes \ done : deps[n] \subseteq done}
               IN  IF ready = {} THEN waves[k - 1]
                   ELSE Append(waves[k - 1], FirstOf(ready, maxParallel))
    IN  waves[Cardinality(nodes)]

\* Mutant of CompensationOrder: forward order, whatever :rollback-after says.
CompensationOrderForward(candidates, after, forward) ==
    LET isCandidate(n) == n \in candidates IN SelectSeq(forward, isCandidate)

\* The first of S in the forward order, which holds every node.
FirstIn(forward, S) == forward[Least({i \in 1..Len(forward) : forward[i] \in S})]

\* The Kahn loop over the candidates and the :rollback-after edges between
\* them, ties by forward rank; it stops short of a cycle.
RollbackSort(candidates, after, forward) ==
    LET sorted[k \in 0..Cardinality(candidates)] ==
          IF k = 0 THEN <<>>
          ELSE LET placed == Elems(sorted[k - 1])
                   ready  == {n \in candidates \ placed :
                                 (after[n] \cap candidates) \subseteq placed}
               IN  IF ready = {} THEN sorted[k - 1]
                   ELSE Append(sorted[k - 1], FirstIn(forward, ready))
    IN  sorted[Cardinality(candidates)]

\* A set of nodes in declaration order.
DeclarationOrder(S) ==
    CHOOSE s \in [1..Cardinality(S) -> S] :
        \A i, j \in 1..Cardinality(S) : i < j => s[i] < s[j]

(***************************************************************************)
(* compute_compensation_order: the candidates for a failed root, in the    *)
(* order of their :rollback-after edges; candidates on (or behind) a cycle *)
(* are appended in declaration order.                                      *)
(***************************************************************************)
CompensationOrder(candidates, after, forward) ==
    LET kahn == RollbackSort(candidates, after, forward)
    IN  kahn \o DeclarationOrder(candidates \ Elems(kahn))
=============================================================================
