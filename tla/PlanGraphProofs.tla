-------------------------- MODULE PlanGraphProofs --------------------------
(***************************************************************************)
(* What the recursive definitions of PlanGraph compute, for every finite   *)
(* graph: Reach is the least set closed under its relation, taint covers   *)
(* what lies downstream, a topological order of full length rules out      *)
(* cycles and is one, the waves of a dry run place every node, and the     *)
(* compensations of a failed root are complete and in order.               *)
(***************************************************************************)
EXTENDS PlanGraph, FiniteSetTheorems, WellFoundedInduction, TLAPS

\* A non-empty set of naturals has a least element.
LEMMA LeastNat ==
    ASSUME NEW S \in SUBSET Nat, S # {}
    PROVE  \E n \in S : \A m \in S : n <= m
  <1> DEFINE R == {p \in Nat \X Nat : p[1] < p[2]}
  <1>1. IsWellFoundedOn(R, Nat)
    BY NatLessThanWellFounded DEF OpToRel
  <1>2. PICK n \in S : \A m \in S : ~(<<m, n>> \in R)
    BY <1>1, WFMin
  <1>3. \A m \in S : ~(m < n)
    BY <1>2
  <1>4. QED
    BY <1>2, <1>3

LEMMA LeastFacts ==
    ASSUME NEW S \in SUBSET Nat, S # {}
    PROVE  Least(S) \in S /\ \A m \in S : Least(S) <= m
  BY LeastNat DEF Least

\* f[k] is G applied k times to a.
IsIteration(f, D, a, G, N) ==
    f \in [0..N -> D] /\ f[0] = a /\ \A k \in 1..N : f[k] = G[f[k - 1]]

LEMMA IteratesExist ==
    ASSUME NEW D, NEW a \in D, NEW G \in [D -> D], NEW N \in Nat
    PROVE  \E f : IsIteration(f, D, a, G, N)
  <1> DEFINE Its(n) == {f \in [0..n -> D] : f[0] = a /\ \A k \in 1..n : f[k] = G[f[k - 1]]}
             B == {n \in Nat : Its(n) = {}}
  <1>1. Its(0) # {}
    <2>1. [k \in 0..0 |-> a] \in Its(0)
      OBVIOUS
    <2>2. QED
      BY <2>1
  <1>2. ASSUME NEW n \in Nat, Its(n) # {} PROVE Its(n + 1) # {}
    <2>1. PICK f \in [0..n -> D] : f[0] = a /\ \A k \in 1..n : f[k] = G[f[k - 1]]
      BY <1>2
    <2> DEFINE g == [k \in 0..(n + 1) |-> IF k = n + 1 THEN G[f[n]] ELSE f[k]]
    <2>2. /\ g \in [0..(n + 1) -> D] /\ g[0] = a
      BY <2>1
    <2>3. ASSUME NEW k \in 1..(n + 1) PROVE g[k] = G[g[k - 1]]
      <3>1. CASE k = n + 1
        BY <3>1
      <3>2. CASE k # n + 1
        <4>1. k \in 1..n /\ k - 1 \in 0..n
          BY <3>2
        <4>2. QED
          BY <2>1, <3>2, <4>1
      <3>3. QED
        BY <3>1, <3>2
    <2>4. g \in Its(n + 1)
      BY <2>2, <2>3
    <2>5. QED
      BY <2>4
  <1> HIDE DEF Its
  <1>3. B = {}
    <2> SUFFICES ASSUME B # {} PROVE FALSE
      OBVIOUS
    <2>1. PICK n \in B : \A m \in B : n <= m
      BY LeastNat
    <2>2. n \in Nat /\ n # 0 /\ n - 1 \in Nat /\ n - 1 \notin B
      BY <1>1, <2>1
    <2>3. Its((n - 1) + 1) # {}
      BY <1>2, <2>2
    <2>4. (n - 1) + 1 = n
      BY <2>2
    <2>5. QED
      BY <2>1, <2>3, <2>4
  <1>4. Its(N) # {}
    BY <1>3
  <1>5. QED
    BY <1>4 DEF Its, IsIteration

-----------------------------------------------------------------------------
(***************************************************************************)
(* Reach.                                                                  *)
(***************************************************************************)
\* The stages of Reach(nodes, step, from).
IsStages(w, nodes, step, from) ==
    /\ w \in [0..Cardinality(nodes) -> SUBSET nodes]
    /\ w[0] = step[from]
    /\ \A k \in 1..Cardinality(nodes) :
          w[k] = w[k - 1] \cup UNION {step[m] : m \in w[k - 1]}

LEMMA ReachStages ==
    ASSUME NEW nodes, IsFiniteSet(nodes), NEW step \in [nodes -> SUBSET nodes],
           NEW from \in nodes
    PROVE  \E w : /\ IsStages(w, nodes, step, from)
                  /\ Reach(nodes, step, from) = w[Cardinality(nodes)]
  <1> DEFINE N == Cardinality(nodes)
             G == [X \in SUBSET nodes |-> X \cup UNION {step[m] : m \in X}]
             Body(w) == [k \in 0..N |->
                           IF k = 0 THEN step[from]
                           ELSE w[k - 1] \cup UNION {step[m] : m \in w[k - 1]}]
             w0 == CHOOSE w : w = Body(w)
  <1>1. N \in Nat
    BY FS_CardinalityType
  <1>2. step[from] \in SUBSET nodes /\ G \in [SUBSET nodes -> SUBSET nodes]
    OBVIOUS
  <1>3. PICK f \in [0..N -> SUBSET nodes] :
           f[0] = step[from] /\ \A k \in 1..N : f[k] = G[f[k - 1]]
    <2> DEFINE D == SUBSET nodes
               a == step[from]
    <2>1. a \in D /\ G \in [D -> D]
      BY <1>2
    <2> HIDE DEF N, G, D, a, Body, w0
    <2>2. PICK f : IsIteration(f, D, a, G, N)
      BY <1>1, <2>1, IteratesExist, Zenon
    <2>3. QED
      BY <2>2 DEF IsIteration, D, a
  <1>4. f = Body(f)
    <2>1. ASSUME NEW k \in 0..N PROVE f[k] = Body(f)[k]
      <3>1. CASE k = 0
        BY <1>3, <3>1
      <3>2. CASE k # 0
        <4>1. k \in 1..N /\ k - 1 \in 0..N
          BY <1>1, <3>2
        <4>2. f[k] = G[f[k - 1]] /\ f[k - 1] \in SUBSET nodes
          BY <1>3, <4>1
        <4>3. QED
          BY <3>2, <4>1, <4>2
      <3>3. QED
        BY <3>1, <3>2
    <2>2. QED
      BY <2>1
  <1>5. w0 = Body(w0)
    <2> HIDE DEF Body
    <2>1. QED
      BY <1>4
  <1>6. Reach(nodes, step, from) = w0[N]
    BY DEF Reach
  <1> HIDE DEF w0
  <1>7. \A k \in 0..N : w0[k] = f[k]
    <2> DEFINE B == {k \in 0..N : w0[k] # f[k]}
    <2> SUFFICES ASSUME B # {} PROVE FALSE
      OBVIOUS
    <2>1. B \in SUBSET Nat
      BY <1>1
    <2>2. PICK k \in B : \A j \in B : k <= j
      BY <2>1, LeastNat
    <2>3. k \in 0..N /\ k # 0
      BY <1>1, <1>3, <1>5
    <2>4. k \in 1..N /\ k - 1 \in 0..N /\ k - 1 \notin B
      BY <1>1, <2>2, <2>3
    <2>5. w0[k - 1] = f[k - 1]
      BY <2>4
    <2>6. w0[k] = w0[k - 1] \cup UNION {step[m] : m \in w0[k - 1]}
      BY <1>5, <2>3
    <2>7. f[k] = f[k - 1] \cup UNION {step[m] : m \in f[k - 1]}
      BY <1>4, <2>3
    <2>8. QED
      BY <2>5, <2>6, <2>7
  <1>8. DOMAIN w0 = 0..N
    BY <1>5
  <1>9. w0 = [k \in 0..N |-> w0[k]]
    BY <1>5
  <1>10. w0 = f
    BY <1>7, <1>9
  <1>11. \A k \in 1..N : f[k] = f[k - 1] \cup UNION {step[m] : m \in f[k - 1]}
    <2> TAKE k \in 1..N
    <2>1. k \in 0..N /\ k # 0
      BY <1>1
    <2>2. QED
      BY <1>4, <2>1
  <1>12. IsStages(f, nodes, step, from)
    BY <1>3, <1>11 DEF IsStages
  <1>13. QED
    BY <1>6, <1>10, <1>12

\* Reach is contained in every set that holds the first steps and is closed.
LEMMA ReachLeast ==
    ASSUME NEW nodes, IsFiniteSet(nodes), NEW step \in [nodes -> SUBSET nodes],
           NEW from \in nodes, NEW X, step[from] \subseteq X,
           \A m \in X : m \in nodes => step[m] \subseteq X
    PROVE  Reach(nodes, step, from) \subseteq X
  <1> DEFINE N == Cardinality(nodes)
  <1>1. N \in Nat
    BY FS_CardinalityType
  <1>2. PICK w : IsStages(w, nodes, step, from) /\ Reach(nodes, step, from) = w[N]
    BY ReachStages
  <1>3. /\ w \in [0..N -> SUBSET nodes] /\ w[0] = step[from]
        /\ \A k \in 1..N : w[k] = w[k - 1] \cup UNION {step[m] : m \in w[k - 1]}
    BY <1>2 DEF IsStages
  <1> DEFINE B == {k \in 0..N : ~(w[k] \subseteq X)}
  <1> HIDE DEF N
  <1>4. B = {}
    <2> SUFFICES ASSUME B # {} PROVE FALSE
      OBVIOUS
    <2>1. B \in SUBSET Nat
      BY <1>1
    <2>2. PICK k \in B : \A j \in B : k <= j
      BY <2>1, LeastNat
    <2>3. k \in 0..N /\ k # 0
      BY <1>3
    <2>4. k \in 1..N /\ k - 1 \in 0..N /\ k - 1 \notin B
      BY <1>1, <2>2, <2>3
    <2>5. w[k - 1] \subseteq X /\ w[k - 1] \subseteq nodes
      BY <1>3, <2>4
    <2>6. w[k] = w[k - 1] \cup UNION {step[m] : m \in w[k - 1]}
      BY <1>3, <2>4
    <2>7. w[k] \subseteq X
      BY <2>5, <2>6
    <2>8. QED
      BY <2>7
  <1>5. N \in 0..N /\ N \notin B
    BY <1>1, <1>4
  <1>6. QED
    BY <1>2, <1>5

\* Reach holds the first steps and is closed: within |nodes| steps nothing
\* new can appear, as every stage that is not closed has one node more.
LEMMA ReachClosed ==
    ASSUME NEW nodes, IsFiniteSet(nodes), NEW step \in [nodes -> SUBSET nodes],
           NEW from \in nodes
    PROVE  /\ Reach(nodes, step, from) \subseteq nodes
           /\ step[from] \subseteq Reach(nodes, step, from)
           /\ \A m \in Reach(nodes, step, from) : step[m] \subseteq Reach(nodes, step, from)
  <1> DEFINE N == Cardinality(nodes)
             Closed(S) == \A m \in S : step[m] \subseteq S
  <1>1. N \in Nat
    BY FS_CardinalityType
  <1>2. PICK w : IsStages(w, nodes, step, from) /\ Reach(nodes, step, from) = w[N]
    BY ReachStages
  <1>3. /\ w \in [0..N -> SUBSET nodes] /\ w[0] = step[from]
        /\ \A k \in 1..N : w[k] = w[k - 1] \cup UNION {step[m] : m \in w[k - 1]}
    BY <1>2 DEF IsStages
  <1>4. \A k \in 0..N : IsFiniteSet(w[k]) /\ Cardinality(w[k]) \in Nat /\ Cardinality(w[k]) <= N
    <2> TAKE k \in 0..N
    <2>1. w[k] \in SUBSET nodes
      BY <1>3
    <2>2. QED
      BY <2>1, FS_Subset, FS_CardinalityType
  <1> HIDE DEF N
  \* One stage: it grows unless the one before is closed.
  <1>5. ASSUME NEW k \in 1..N
        PROVE  /\ k - 1 \in 0..N /\ k \in 0..N
               /\ w[k - 1] \subseteq w[k]
               /\ Closed(w[k - 1]) => w[k] = w[k - 1]
               /\ ~Closed(w[k - 1]) => Cardinality(w[k]) >= Cardinality(w[k - 1]) + 1
    <2>1. k - 1 \in 0..N /\ k \in 0..N
      BY <1>1
    <2>2. w[k] = w[k - 1] \cup UNION {step[m] : m \in w[k - 1]}
      BY <1>3
    <2>3. w[k - 1] \subseteq w[k] /\ (Closed(w[k - 1]) => w[k] = w[k - 1])
      BY <2>2
    <2>4. ASSUME ~Closed(w[k - 1]) PROVE w[k] # w[k - 1]
      BY <2>2, <2>4
    <2> HIDE DEF Closed
    <2>5. ASSUME ~Closed(w[k - 1]) PROVE Cardinality(w[k]) >= Cardinality(w[k - 1]) + 1
      <3>1. w[k - 1] \in SUBSET w[k] /\ w[k - 1] # w[k]
        BY <2>3, <2>4, <2>5
      <3>2. /\ IsFiniteSet(w[k]) /\ Cardinality(w[k]) \in Nat
            /\ Cardinality(w[k - 1]) \in Nat
        BY <1>4, <2>1
      <3>3. Cardinality(w[k - 1]) <= Cardinality(w[k]) /\ Cardinality(w[k]) # Cardinality(w[k - 1])
        BY <3>1, <3>2, FS_Subset
      <3>4. QED
        BY <3>2, <3>3
    <2>6. QED
      BY <2>1, <2>3, <2>5
  \* So stage k is closed or has at least k + 1 nodes.
  <1> DEFINE B == {k \in 0..N : ~(Closed(w[k]) \/ Cardinality(w[k]) >= k + 1)}
  <1>6. B = {}
    <2> SUFFICES ASSUME B # {} PROVE FALSE
      OBVIOUS
    <2>1. B \in SUBSET Nat
      BY <1>1
    <2>2. PICK k \in B : \A j \in B : k <= j
      BY <2>1, LeastNat
    <2>3. k \in 0..N /\ ~Closed(w[k]) /\ ~(Cardinality(w[k]) >= k + 1)
      OBVIOUS
    <2>4. k # 0
      <3> SUFFICES ASSUME k = 0 PROVE FALSE
        OBVIOUS
      <3>1. w[0] # {}
        BY <2>3
      <3>2. 0 \in 0..N
        BY <1>1
      <3>3. Cardinality(w[0]) # 0
        BY <1>4, <3>1, <3>2, FS_EmptySet
      <3> HIDE DEF Closed
      <3>4. QED
        BY <1>4, <2>3, <3>2, <3>3
    <2> HIDE DEF Closed
    <2>5. k \in 1..N /\ k - 1 \in 0..N /\ k - 1 \notin B
      BY <1>1, <2>2, <2>3, <2>4
    <2>6. Closed(w[k - 1]) \/ Cardinality(w[k - 1]) >= (k - 1) + 1
      BY <2>5
    <2>7. ~Closed(w[k - 1])
      BY <1>5, <2>3, <2>5
    <2>8. Cardinality(w[k]) >= Cardinality(w[k - 1]) + 1
      BY <1>5, <2>5, <2>7
    <2>9. Cardinality(w[k]) \in Nat /\ Cardinality(w[k - 1]) \in Nat /\ k \in Nat
      BY <1>1, <1>4, <2>3, <2>5
    <2>10. QED
      BY <2>3, <2>6, <2>7, <2>8, <2>9
  <1>7. N \in 0..N
    BY <1>1
  <1>8. Closed(w[N])
    <2> HIDE DEF Closed
    <2>1. Closed(w[N]) \/ Cardinality(w[N]) >= N + 1
      BY <1>6, <1>7
    <2>2. QED
      BY <1>1, <1>4, <1>7, <2>1
  \* The stages grow.
  <1>9. w[0] \subseteq w[N]
    <2> DEFINE C == {k \in 0..N : ~(w[0] \subseteq w[k])}
    <2> SUFFICES ASSUME C # {} PROVE FALSE
      BY <1>7
    <2>1. C \in SUBSET Nat
      BY <1>1
    <2>2. PICK k \in C : \A j \in C : k <= j
      BY <2>1, LeastNat
    <2>3. k \in 1..N /\ k - 1 \in 0..N /\ k - 1 \notin C
      BY <1>1, <2>2
    <2>4. w[0] \subseteq w[k - 1] /\ w[k - 1] \subseteq w[k]
      BY <1>5, <2>3
    <2>5. QED
      BY <2>2, <2>4
  <1>10. QED
    BY <1>2, <1>3, <1>7, <1>8, <1>9

-----------------------------------------------------------------------------
(***************************************************************************)
(* Ancestors and taint.                                                    *)
(***************************************************************************)
\* A node inherits the ancestors of its dependencies.
LEMMA AncestorsInherited ==
    ASSUME NEW nodes, IsFiniteSet(nodes), NEW deps \in [nodes -> SUBSET nodes],
           NEW n \in nodes, NEW d \in deps[n]
    PROVE  /\ d \in Ancestors(nodes, deps, n)
           /\ Ancestors(nodes, deps, d) \subseteq Ancestors(nodes, deps, n)
  <1> DEFINE A == Reach(nodes, deps, n)
  <1>1. A \subseteq nodes /\ deps[n] \subseteq A /\ \A m \in A : deps[m] \subseteq A
    BY ReachClosed
  <1>2. d \in A /\ d \in nodes
    BY <1>1
  <1> HIDE DEF A
  <1>3. deps[d] \subseteq A
    BY <1>1, <1>2
  <1>4. Reach(nodes, deps, d) \subseteq A
    BY <1>1, <1>2, <1>3, ReachLeast
  <1>5. QED
    BY <1>2, <1>4 DEF Ancestors, A

\* What holds of the dependencies of n, and of those of every node it holds
\* of, holds of the ancestors of n.
LEMMA AncestorsWithin ==
    ASSUME NEW nodes, IsFiniteSet(nodes), NEW deps \in [nodes -> SUBSET nodes],
           NEW n \in nodes, NEW X, deps[n] \subseteq X,
           \A m \in X : m \in nodes => deps[m] \subseteq X
    PROVE  Ancestors(nodes, deps, n) \subseteq X
  BY ReachLeast DEF Ancestors

LEMMA AncestorsAreNodes ==
    ASSUME NEW nodes, IsFiniteSet(nodes), NEW deps \in [nodes -> SUBSET nodes], NEW n \in nodes
    PROVE  Ancestors(nodes, deps, n) \subseteq nodes
  BY ReachClosed DEF Ancestors

LEMMA TaintTyped ==
    ASSUME NEW nodes, IsFiniteSet(nodes), NEW deps \in [nodes -> SUBSET nodes],
           NEW tainted \in SUBSET nodes, NEW failed \in nodes
    PROVE  PropagateTaint(nodes, deps, tainted, failed) \in SUBSET nodes
  <1> DEFINE succs == Successors(nodes, deps)
             fresh == [n \in nodes |-> succs[n] \ tainted]
  <1>1. fresh \in [nodes -> SUBSET nodes]
    BY DEF Successors
  <1> HIDE DEF fresh
  <1>2. Reach(nodes, fresh, failed) \subseteq nodes
    BY <1>1, ReachClosed
  <1>3. QED
    BY <1>2 DEF PropagateTaint, fresh

\* What is tainted taints what depends on it.
TaintClosed(nodes, deps, tainted) ==
    \A n \in tainted, m \in nodes : n \in deps[m] => m \in tainted

\* Everything behind the failed node is tainted, what was tainted stays so,
\* and what is new has the failed node among its ancestors.
Taints(nodes, deps, tainted, failed, T) ==
    /\ tainted \subseteq T /\ T \subseteq nodes
    /\ \A n \in T \cup {failed}, m \in nodes : n \in deps[m] => m \in T
    /\ \A n \in T \ tainted : failed \in Ancestors(nodes, deps, n)

(***************************************************************************)
(* propagate_taint is complete although it does not enter a node already   *)
(* tainted: when what is tainted is closed downstream, the walk from a     *)
(* failed node leaves it closed, with everything behind the failed node in *)
(* it, and adds nothing that is not behind it (scheduler.rs).              *)
(***************************************************************************)
THEOREM TaintIsDownstream ==
    ASSUME NEW nodes, IsFiniteSet(nodes), NEW deps \in [nodes -> SUBSET nodes],
           NEW tainted \in SUBSET nodes, NEW failed \in nodes,
           TaintClosed(nodes, deps, tainted)
    PROVE  Taints(nodes, deps, tainted, failed, PropagateTaint(nodes, deps, tainted, failed))
  <1> DEFINE T == PropagateTaint(nodes, deps, tainted, failed)
  <1>0. \A n \in tainted, m \in nodes : n \in deps[m] => m \in tainted
    BY DEF TaintClosed
  <1> DEFINE succs == Successors(nodes, deps)
             fresh == [n \in nodes |-> succs[n] \ tainted]
             R == Reach(nodes, fresh, failed)
  <1>1. T = tainted \cup R
    BY DEF PropagateTaint
  <1>2. \A n \in nodes : succs[n] = {m \in nodes : n \in deps[m]}
    BY DEF Successors
  <1>3. /\ fresh \in [nodes -> SUBSET nodes]
        /\ \A n \in nodes : fresh[n] = {m \in nodes : n \in deps[m]} \ tainted
    BY <1>2
  <1> HIDE DEF fresh, succs
  <1>4. R \subseteq nodes /\ fresh[failed] \subseteq R /\ \A m \in R : fresh[m] \subseteq R
    BY <1>3, ReachClosed
  <1> DEFINE X == {n \in nodes : failed \in Ancestors(nodes, deps, n)}
  <1>5. fresh[failed] \subseteq X
    BY <1>3, AncestorsInherited
  <1>6. \A m \in X : m \in nodes => fresh[m] \subseteq X
    <2> SUFFICES ASSUME NEW m \in X, NEW x \in fresh[m] PROVE x \in X
      OBVIOUS
    <2>1. m \in nodes /\ x \in nodes /\ m \in deps[x]
      BY <1>3
    <2>2. Ancestors(nodes, deps, m) \subseteq Ancestors(nodes, deps, x)
      BY <2>1, AncestorsInherited
    <2>3. QED
      BY <2>1, <2>2
  <1>7. R \subseteq X
    <2> HIDE DEF X
    <2>1. QED
      BY <1>3, <1>5, <1>6, ReachLeast
  <1> HIDE DEF R, T
  <1>8. ASSUME NEW n \in T \cup {failed}, NEW m \in nodes, n \in deps[m]
        PROVE  m \in T
    <2>1. CASE n \in tainted
      BY <1>0, <1>1, <1>8, <2>1
    <2>2. CASE n \in R \cup {failed}
      BY <1>1, <1>3, <1>4, <1>8, <2>2
    <2>3. QED
      BY <1>1, <2>1, <2>2
  <1>9. Taints(nodes, deps, tainted, failed, T)
    BY <1>1, <1>4, <1>7, <1>8 DEF Taints
  <1>10. QED
    BY <1>9 DEF T

-----------------------------------------------------------------------------
(***************************************************************************)
(* Acyclicity.                                                             *)
(***************************************************************************)
\* One turn of Kahn's algorithm.
Placeable(nodes, deps, s) == {n \in nodes \ Elems(s) : deps[n] \subseteq Elems(s)}

KahnStep(nodes, deps, s) ==
    IF Placeable(nodes, deps, s) = {} THEN s
    ELSE Append(s, Least(Placeable(nodes, deps, s)))

LEMMA KahnStepTyped ==
    ASSUME NEW nodes \in SUBSET Nat, NEW deps, NEW s \in Seq(nodes)
    PROVE  KahnStep(nodes, deps, s) \in Seq(nodes)
  <1>1. Placeable(nodes, deps, s) \in SUBSET Nat /\ Placeable(nodes, deps, s) \subseteq nodes
    BY DEF Placeable
  <1>2. CASE Placeable(nodes, deps, s) # {}
    <2>1. Least(Placeable(nodes, deps, s)) \in nodes
      BY <1>1, <1>2, LeastFacts
    <2>2. QED
      BY <2>1 DEF KahnStep
  <1>3. QED
    BY <1>2 DEF KahnStep

\* The prefixes of the topological order.
LEMMA TopoStages ==
    ASSUME NEW nodes \in SUBSET Nat, IsFiniteSet(nodes), NEW deps
    PROVE  \E w : /\ w \in [0..Cardinality(nodes) -> Seq(nodes)]
                  /\ w[0] = <<>>
                  /\ \A k \in 1..Cardinality(nodes) : w[k] = KahnStep(nodes, deps, w[k - 1])
                  /\ TopoOrder(nodes, deps) = w[Cardinality(nodes)]
  <1> DEFINE N == Cardinality(nodes)
             D == Seq(nodes)
             G == [s \in D |-> KahnStep(nodes, deps, s)]
             Body(w) == [k \in 0..N |->
                          IF k = 0 THEN <<>>
                          ELSE LET placed == Elems(w[k - 1])
                                   ready  == {n \in nodes \ placed : deps[n] \subseteq placed}
                               IN  IF ready = {} THEN w[k - 1]
                                   ELSE Append(w[k - 1], Least(ready))]
             w0 == CHOOSE w : w = Body(w)
  <1>1. N \in Nat
    BY FS_CardinalityType
  <1>2. <<>> \in D /\ G \in [D -> D]
    BY KahnStepTyped
  <1>3. PICK f : IsIteration(f, D, <<>>, G, N)
    <2> HIDE DEF N, G, D, Body, w0
    <2>1. QED
      BY <1>1, <1>2, IteratesExist, Zenon
  <1>4. f \in [0..N -> D] /\ f[0] = <<>> /\ \A k \in 1..N : f[k] = G[f[k - 1]]
    BY <1>3 DEF IsIteration
  <1>5. \A w, k : k \in 0..N /\ k # 0 => Body(w)[k] = KahnStep(nodes, deps, w[k - 1])
    BY DEF KahnStep, Placeable
  <1>6. \A w : Body(w) = [k \in 0..N |-> Body(w)[k]] /\ Body(w)[0] = <<>>
    BY <1>1
  <1>7. TopoOrder(nodes, deps) = w0[N]
    BY DEF TopoOrder
  <1> HIDE DEF Body
  <1>8. ASSUME NEW k \in 1..N
        PROVE  k \in 0..N /\ k # 0 /\ k - 1 \in 0..N /\ f[k] = KahnStep(nodes, deps, f[k - 1])
    <2>1. k \in 0..N /\ k # 0 /\ k - 1 \in 0..N
      BY <1>1
    <2>2. f[k - 1] \in D /\ f[k] = G[f[k - 1]]
      BY <1>4, <2>1
    <2>3. QED
      BY <2>1, <2>2
  <1>9. f = Body(f)
    <2>1. ASSUME NEW k \in 0..N PROVE f[k] = Body(f)[k]
      <3>1. CASE k = 0
        BY <1>4, <1>6, <3>1
      <3>2. CASE k # 0
        <4>1. k \in 1..N
          BY <1>1, <3>2
        <4>2. QED
          BY <1>5, <1>8, <4>1
      <3>3. QED
        BY <3>1, <3>2
    <2>2. f = [k \in 0..N |-> f[k]]
      BY <1>4
    <2>3. QED
      BY <1>6, <2>1, <2>2
  <1>10. w0 = Body(w0)
    BY <1>9
  <1> HIDE DEF w0
  <1>11. \A k \in 0..N : w0[k] = f[k]
    <2> DEFINE B == {k \in 0..N : w0[k] # f[k]}
    <2> SUFFICES ASSUME B # {} PROVE FALSE
      OBVIOUS
    <2>1. B \in SUBSET Nat
      BY <1>1
    <2>2. PICK k \in B : \A j \in B : k <= j
      BY <2>1, LeastNat
    <2>3. k \in 0..N /\ k # 0
      BY <1>1, <1>4, <1>6, <1>10
    <2>4. k \in 1..N /\ k - 1 \in 0..N /\ k - 1 \notin B
      BY <1>1, <2>2, <2>3
    <2>5. w0[k - 1] = f[k - 1]
      BY <2>4
    <2>6. w0[k] = KahnStep(nodes, deps, w0[k - 1])
      BY <1>5, <1>10, <2>3
    <2>7. QED
      BY <1>8, <2>4, <2>5, <2>6
  <1>12. N \in 0..N
    BY <1>1
  <1>13. TopoOrder(nodes, deps) = f[N]
    BY <1>7, <1>11, <1>12
  <1>14. QED
    BY <1>4, <1>8, <1>13

\* One turn adds at most one node, a new one whose dependencies are placed.
LEMMA KahnStepPlaces ==
    ASSUME NEW nodes \in SUBSET Nat, NEW deps, NEW s \in Seq(nodes), NEW t,
           t = KahnStep(nodes, deps, s)
    PROVE  \/ t = s
           \/ \E x \in nodes : /\ x \notin Elems(s) /\ deps[x] \subseteq Elems(s)
                               /\ Elems(t) = Elems(s) \cup {x}
                               /\ Len(t) = Len(s) + 1
  <1> DEFINE P == Placeable(nodes, deps, s)
             x == Least(P)
  <1>1. CASE P = {}
    BY <1>1 DEF KahnStep
  <1>2. CASE P # {}
    <2>1. P \in SUBSET Nat
      BY DEF Placeable
    <2>2. x \in P
      BY <1>2, <2>1, LeastFacts
    <2>3. x \in nodes /\ x \notin Elems(s) /\ deps[x] \subseteq Elems(s)
      BY <2>2 DEF Placeable
    <2>4. t = Append(s, x)
      BY <1>2 DEF KahnStep
    <2> HIDE DEF x
    <2>5. /\ Len(t) = Len(s) + 1 /\ Len(s) \in Nat /\ t[Len(s) + 1] = x
          /\ \A i \in 1..Len(s) : t[i] = s[i]
      BY <2>3, <2>4
    <2>6. 1..Len(t) = 1..Len(s) \cup {Len(s) + 1}
      BY <2>5
    <2>7. Elems(t) = Elems(s) \cup {x}
      BY <2>5, <2>6 DEF Elems
    <2>8. QED
      BY <2>3, <2>5, <2>7
  <1>3. QED
    BY <1>1, <1>2

(***************************************************************************)
(* The parser's cycle check means what it should: when kahn_topo_sort has  *)
(* placed every node, every non-empty set of nodes has a member none of    *)
(* whose dependencies is in the set, so no set of nodes waits on itself.   *)
(***************************************************************************)
THEOREM AcyclicWellFounded ==
    ASSUME NEW nodes \in SUBSET Nat, IsFiniteSet(nodes), NEW deps, Acyclic(nodes, deps),
           NEW S \in SUBSET nodes, S # {}
    PROVE  \E n \in S : deps[n] \cap S = {}
  <1> DEFINE N == Cardinality(nodes)
  <1>1. N \in Nat /\ 0 \in 0..N /\ N \in 0..N
    BY FS_CardinalityType
  <1>2. PICK w : /\ w \in [0..N -> Seq(nodes)] /\ w[0] = <<>>
                 /\ \A k \in 1..N : w[k] = KahnStep(nodes, deps, w[k - 1])
                 /\ TopoOrder(nodes, deps) = w[N]
    BY TopoStages
  <1>3. Len(w[N]) = N
    BY <1>2 DEF Acyclic
  <1> HIDE DEF N
  <1>4. Elems(<<>>) = {}
    BY DEF Elems
  <1>5. ASSUME NEW k \in 1..N
        PROVE  /\ k - 1 \in 0..N /\ k \in 0..N
               /\ \/ w[k] = w[k - 1]
                  \/ \E x \in nodes : /\ x \notin Elems(w[k - 1]) /\ deps[x] \subseteq Elems(w[k - 1])
                                      /\ Elems(w[k]) = Elems(w[k - 1]) \cup {x}
                                      /\ Len(w[k]) = Len(w[k - 1]) + 1
    <2>1. k - 1 \in 0..N /\ k \in 0..N
      BY <1>1
    <2>2. w[k - 1] \in Seq(nodes) /\ w[k] = KahnStep(nodes, deps, w[k - 1])
      BY <1>2, <2>1
    <2>3. QED
      BY <2>1, <2>2, KahnStepPlaces
  \* The prefixes repeat no node.
  <1> DEFINE Counted(k) == IsFiniteSet(Elems(w[k])) /\ Cardinality(Elems(w[k])) = Len(w[k])
             B == {k \in 0..N : ~Counted(k)}
  <1>6. B = {}
    <2> SUFFICES ASSUME B # {} PROVE FALSE
      OBVIOUS
    <2>1. B \in SUBSET Nat
      BY <1>1
    <2>2. PICK k \in B : \A j \in B : k <= j
      BY <2>1, LeastNat
    <2>3. Counted(0)
      BY <1>2, <1>4, FS_EmptySet
    <2> HIDE DEF Counted
    <2>4. k \in 1..N /\ k - 1 \in 0..N /\ k - 1 \notin B
      BY <1>1, <2>2, <2>3
    <2>5. Counted(k - 1)
      BY <2>4
    <2>6. Counted(k)
      <3>1. CASE w[k] = w[k - 1]
        BY <2>5, <3>1 DEF Counted
      <3>2. CASE \E x \in nodes : /\ x \notin Elems(w[k - 1])
                                  /\ Elems(w[k]) = Elems(w[k - 1]) \cup {x}
                                  /\ Len(w[k]) = Len(w[k - 1]) + 1
        <4>1. PICK x \in nodes : /\ x \notin Elems(w[k - 1])
                                 /\ Elems(w[k]) = Elems(w[k - 1]) \cup {x}
                                 /\ Len(w[k]) = Len(w[k - 1]) + 1
          BY <3>2
        <4>2. IsFiniteSet(Elems(w[k - 1])) /\ Cardinality(Elems(w[k - 1])) = Len(w[k - 1])
          BY <2>5 DEF Counted
        <4> DEFINE E == Elems(w[k - 1])
        <4> HIDE DEF E
        <4>3. IsFiniteSet(E \cup {x}) /\ Cardinality(E \cup {x}) = Cardinality(E) + 1
          BY <4>1, <4>2, FS_AddElement DEF E
        <4>4. QED
          BY <4>1, <4>2, <4>3 DEF Counted, E
      <3>3. QED
        BY <1>5, <2>4, <3>1, <3>2
    <2>7. QED
      BY <2>6
  <1>7. Elems(w[N]) = nodes
    <2>1. Elems(w[N]) \in SUBSET nodes
      BY <1>1, <1>2 DEF Elems
    <2>2. Counted(N)
      BY <1>1, <1>6
    <2>3. Cardinality(Elems(w[N])) = Cardinality(nodes)
      BY <1>3, <2>2 DEF N
    <2>4. QED
      BY <2>1, <2>3, FS_Subset
  \* The first node of S to be placed.
  <1> DEFINE C == {k \in 0..N : Elems(w[k]) \cap S # {}}
  <1>8. C # {} /\ C \in SUBSET Nat
    <2>1. Elems(w[N]) \cap S # {}
      BY <1>7
    <2>2. N \in C
      BY <1>1, <2>1
    <2>3. C \in SUBSET Nat
      BY <1>1
    <2>4. QED
      BY <2>2, <2>3
  <1>9. PICK k \in C : \A j \in C : k <= j
    BY <1>8, LeastNat
  <1>10. k \in 1..N /\ k - 1 \in 0..N /\ k - 1 \notin C
    BY <1>1, <1>2, <1>4, <1>9
  <1>11. Elems(w[k - 1]) \cap S = {} /\ Elems(w[k]) \cap S # {}
    BY <1>9, <1>10
  <1>12. PICK x \in nodes : /\ deps[x] \subseteq Elems(w[k - 1])
                            /\ Elems(w[k]) = Elems(w[k - 1]) \cup {x}
    BY <1>5, <1>10, <1>11
  <1>13. x \in S /\ deps[x] \cap S = {}
    BY <1>11, <1>12
  <1>14. QED
    BY <1>13

-----------------------------------------------------------------------------
(***************************************************************************)
(* The waves of a dry run.                                                 *)
(***************************************************************************)
Done(s) == UNION Elems(s)

Startable(nodes, deps, s) == {n \in nodes \ Done(s) : deps[n] \subseteq Done(s)}

\* One turn of compute_concurrency_plan.
NextWave(nodes, deps, mp, s) ==
    IF Startable(nodes, deps, s) = {} THEN s
    ELSE Append(s, FirstOf(Startable(nodes, deps, s), mp))

IsWaves(w, nodes, deps, mp) ==
    /\ w \in [0..Cardinality(nodes) -> Seq(SUBSET nodes)]
    /\ w[0] = <<>>
    /\ \A k \in 1..Cardinality(nodes) : w[k] = NextWave(nodes, deps, mp, w[k - 1])

LEMMA NextWaveTyped ==
    ASSUME NEW nodes, NEW deps, NEW mp, NEW s \in Seq(SUBSET nodes)
    PROVE  NextWave(nodes, deps, mp, s) \in Seq(SUBSET nodes)
  <1>1. FirstOf(Startable(nodes, deps, s), mp) \in SUBSET nodes
    BY DEF FirstOf, Startable
  <1>2. QED
    BY <1>1 DEF NextWave

LEMMA WavesUnique ==
    ASSUME NEW nodes, IsFiniteSet(nodes), NEW deps, NEW mp, NEW v, NEW w,
           IsWaves(v, nodes, deps, mp), IsWaves(w, nodes, deps, mp)
    PROVE  \A k \in 0..Cardinality(nodes) : v[k] = w[k]
  <1> DEFINE N == Cardinality(nodes)
             B == {k \in 0..N : v[k] # w[k]}
  <1> SUFFICES ASSUME B # {} PROVE FALSE
    OBVIOUS
  <1>1. N \in Nat
    BY FS_CardinalityType
  <1>2. B \in SUBSET Nat
    BY <1>1
  <1>3. PICK k \in B : \A j \in B : k <= j
    BY <1>2, LeastNat
  <1>4. k \in 0..N /\ k # 0
    BY <1>3 DEF IsWaves
  <1>5. k \in 1..N /\ k - 1 \in 0..N /\ k - 1 \notin B
    BY <1>1, <1>3, <1>4
  <1>6. v[k - 1] = w[k - 1]
    BY <1>5
  <1>7. QED
    BY <1>3, <1>5, <1>6 DEF IsWaves

LEMMA WaveStages ==
    ASSUME NEW nodes, IsFiniteSet(nodes), NEW deps, NEW mp
    PROVE  \E w : /\ IsWaves(w, nodes, deps, mp)
                  /\ ConcurrencyPlan(nodes, deps, mp) = w[Cardinality(nodes)]
  <1> DEFINE N == Cardinality(nodes)
             D == Seq(SUBSET nodes)
             G == [s \in D |-> NextWave(nodes, deps, mp, s)]
             Body(w) == [k \in 0..N |->
                          IF k = 0 THEN <<>>
                          ELSE LET done  == UNION Elems(w[k - 1])
                                   ready == {n \in nodes \ done : deps[n] \subseteq done}
                               IN  IF ready = {} THEN w[k - 1]
                                   ELSE Append(w[k - 1], FirstOf(ready, mp))]
             w0 == CHOOSE w : w = Body(w)
  <1>1. N \in Nat
    BY FS_CardinalityType
  <1>2. <<>> \in D /\ G \in [D -> D]
    BY NextWaveTyped
  <1>3. PICK f : IsIteration(f, D, <<>>, G, N)
    <2> HIDE DEF N, G, D, Body, w0
    <2>1. QED
      BY <1>1, <1>2, IteratesExist, Zenon
  <1>4. f \in [0..N -> D] /\ f[0] = <<>> /\ \A k \in 1..N : f[k] = G[f[k - 1]]
    BY <1>3 DEF IsIteration
  <1>5. \A w, k : k \in 0..N /\ k # 0 => Body(w)[k] = NextWave(nodes, deps, mp, w[k - 1])
    BY DEF NextWave, Startable, Done
  <1>6. \A w : Body(w) = [k \in 0..N |-> Body(w)[k]] /\ Body(w)[0] = <<>>
    BY <1>1
  <1>7. ConcurrencyPlan(nodes, deps, mp) = w0[N]
    BY DEF ConcurrencyPlan
  <1> HIDE DEF Body
  <1>8. ASSUME NEW k \in 1..N
        PROVE  k \in 0..N /\ k # 0 /\ k - 1 \in 0..N /\ f[k] = NextWave(nodes, deps, mp, f[k - 1])
    <2>1. k \in 0..N /\ k # 0 /\ k - 1 \in 0..N
      BY <1>1
    <2>2. f[k - 1] \in D /\ f[k] = G[f[k - 1]]
      BY <1>4, <2>1
    <2>3. QED
      BY <2>1, <2>2
  <1>9. f = Body(f)
    <2>1. ASSUME NEW k \in 0..N PROVE f[k] = Body(f)[k]
      <3>1. CASE k = 0
        BY <1>4, <1>6, <3>1
      <3>2. CASE k # 0
        <4>1. k \in 1..N
          BY <1>1, <3>2
        <4>2. QED
          BY <1>5, <1>8, <4>1
      <3>3. QED
        BY <3>1, <3>2
    <2>2. f = [k \in 0..N |-> f[k]]
      BY <1>4
    <2>3. QED
      BY <1>6, <2>1, <2>2
  <1>10. w0 = Body(w0)
    BY <1>9
  <1> HIDE DEF w0
  <1>11. \A k \in 0..N : w0[k] = f[k]
    <2> DEFINE B == {k \in 0..N : w0[k] # f[k]}
    <2> SUFFICES ASSUME B # {} PROVE FALSE
      OBVIOUS
    <2>1. B \in SUBSET Nat
      BY <1>1
    <2>2. PICK k \in B : \A j \in B : k <= j
      BY <2>1, LeastNat
    <2>3. k \in 0..N /\ k # 0
      BY <1>1, <1>4, <1>6, <1>10
    <2>4. k \in 1..N /\ k - 1 \in 0..N /\ k - 1 \notin B
      BY <1>1, <2>2, <2>3
    <2>5. w0[k - 1] = f[k - 1]
      BY <2>4
    <2>6. w0[k] = NextWave(nodes, deps, mp, w0[k - 1])
      BY <1>5, <1>10, <2>3
    <2>7. QED
      BY <1>8, <2>4, <2>5, <2>6
  <1>12. N \in 0..N
    BY <1>1
  <1>13. ConcurrencyPlan(nodes, deps, mp) = f[N]
    BY <1>7, <1>11, <1>12
  <1>14. IsWaves(f, nodes, deps, mp)
    BY <1>4, <1>8 DEF IsWaves
  <1>15. QED
    BY <1>13, <1>14

\* s is a prefix of the announced waves; each of them places a node.
PlansSoFar(nodes, deps, mp, s) ==
    \E w : \E j \in 0..Cardinality(nodes) :
        IsWaves(w, nodes, deps, mp) /\ s = w[j] /\ Cardinality(Done(s)) >= j

LEMMA PlansNothing ==
    ASSUME NEW nodes, IsFiniteSet(nodes), NEW deps, NEW mp
    PROVE  PlansSoFar(nodes, deps, mp, <<>>)
  <1>1. PICK w : IsWaves(w, nodes, deps, mp)
    BY WaveStages
  <1>2. 0 \in 0..Cardinality(nodes) /\ w[0] = <<>>
    BY <1>1, FS_CardinalityType DEF IsWaves
  <1>3. Cardinality(Done(<<>>)) = 0
    <2>1. Done(<<>>) = {}
      BY DEF Done, Elems
    <2>2. QED
      BY <2>1, FS_EmptySet
  <1>4. QED
    BY <1>1, <1>2, <1>3 DEF PlansSoFar

LEMMA DoneAppend ==
    ASSUME NEW S, NEW s \in Seq(S), NEW x \in S
    PROVE  Done(Append(s, x)) = Done(s) \cup x
  <1>1. /\ Len(s) \in Nat
        /\ Len(Append(s, x)) = Len(s) + 1
        /\ Append(s, x)[Len(s) + 1] = x
        /\ \A i \in 1..Len(s) : Append(s, x)[i] = s[i]
    OBVIOUS
  <1>2. 1..(Len(s) + 1) = (1..Len(s)) \cup {Len(s) + 1}
    BY <1>1
  <1>3. {Append(s, x)[i] : i \in 1..Len(s)} = {s[i] : i \in 1..Len(s)}
    BY <1>1
  <1>4. Elems(Append(s, x)) = Elems(s) \cup {x}
    BY <1>1, <1>2, <1>3 DEF Elems
  <1>5. QED
    BY <1>4 DEF Done

LEMMA PlanTyped ==
    ASSUME NEW nodes, IsFiniteSet(nodes), NEW deps, NEW mp, NEW s, PlansSoFar(nodes, deps, mp, s)
    PROVE  s \in Seq(SUBSET nodes) /\ Done(s) \subseteq nodes
  <1>1. s \in Seq(SUBSET nodes)
    BY DEF PlansSoFar, IsWaves
  <1>2. QED
    BY <1>1 DEF Done, Elems

\* A wave places at least one node that was not placed before.
Grows(nodes, s, x) ==
    /\ Done(Append(s, x)) = Done(s) \cup x /\ x # {}
    /\ Done(s) \cup x \subseteq nodes
    /\ Cardinality(Done(s)) \in Nat /\ Cardinality(Done(s) \cup x) \in Nat
    /\ Cardinality(Done(s) \cup x) >= Cardinality(Done(s)) + 1

LEMMA WaveGrows ==
    ASSUME NEW nodes \in SUBSET Nat, IsFiniteSet(nodes), NEW deps, NEW mp \in Nat \ {0},
           NEW s \in Seq(SUBSET nodes),
           Startable(nodes, deps, s) # {},
           NEW x, x = FirstOf(Startable(nodes, deps, s), mp)
    PROVE  Grows(nodes, s, x)
  <1> DEFINE R == Startable(nodes, deps, s)
  <1>1. R \subseteq nodes /\ R \cap Done(s) = {} /\ x \subseteq R
    BY DEF Startable, FirstOf
  <1>0. Done(s) \in SUBSET nodes
    BY DEF Done, Elems
  <1>2. Cardinality(Done(s)) \in Nat /\ IsFiniteSet(Done(s))
    BY <1>0, FS_CardinalityType, FS_Subset
  <1>3. Done(Append(s, x)) = Done(s) \cup x
    <2>1. x \in SUBSET nodes
      BY <1>1
    <2>2. QED
      BY <2>1, DoneAppend
  <1>4. PICK l : l = Least(R)
    OBVIOUS
  <1>5. l \in R /\ \A m \in R : l <= m
    BY <1>1, <1>4, LeastFacts
  <1>6. {m \in R : m < l} = {}
    <2>1. \A m \in R : m \in Nat /\ l \in Nat
      BY <1>1, <1>5
    <2>2. \A m \in R : ~(m < l)
      BY <1>5, <2>1
    <2>3. QED
      BY <2>2
  <1>7. l \in x
    <2>1. Cardinality({m \in R : m < l}) = 0
      BY <1>6, FS_EmptySet
    <2>2. Cardinality({m \in R : m < l}) < mp
      BY <2>1
    <2>3. QED
      BY <1>5, <2>2 DEF FirstOf
  <1>8. Cardinality(Done(s) \cup {l}) = Cardinality(Done(s)) + 1
    BY <1>1, <1>2, <1>5, FS_AddElement
  <1>9. Done(s) \cup {l} \in SUBSET (Done(s) \cup x) /\ Done(s) \cup x \in SUBSET nodes
    BY <1>0, <1>1, <1>7
  <1>10. Cardinality(Done(s) \cup {l}) <= Cardinality(Done(s) \cup x)
    BY <1>9, FS_Subset
  <1>11. Cardinality(Done(s) \cup x) \in Nat
    BY <1>9, FS_Subset, FS_CardinalityType
  <1>12. Cardinality(Done(s) \cup x) >= Cardinality(Done(s)) + 1
    BY <1>2, <1>8, <1>10, <1>11
  <1>13. QED
    BY <1>2, <1>3, <1>7, <1>9, <1>11, <1>12 DEF Grows

\* The next wave of the announcement.
LEMMA PlansNext ==
    ASSUME NEW nodes \in SUBSET Nat, IsFiniteSet(nodes), NEW deps, NEW mp \in Nat \ {0}, NEW s,
           PlansSoFar(nodes, deps, mp, s), Startable(nodes, deps, s) # {},
           NEW x, x = FirstOf(Startable(nodes, deps, s), mp)
    PROVE  /\ PlansSoFar(nodes, deps, mp, Append(s, x))
           /\ Done(Append(s, x)) = Done(s) \cup x
           /\ x # {}
  <1> DEFINE N == Cardinality(nodes)
  <1>0. PICK w : \E j \in 0..N :
            IsWaves(w, nodes, deps, mp) /\ s = w[j] /\ Cardinality(Done(s)) >= j
    BY DEF PlansSoFar
  <1>1. PICK j \in 0..N :
            IsWaves(w, nodes, deps, mp) /\ s = w[j] /\ Cardinality(Done(s)) >= j
    BY <1>0
  <1>2. s \in Seq(SUBSET nodes) /\ Done(s) \subseteq nodes
    BY PlanTyped
  <1>3. /\ Done(Append(s, x)) = Done(s) \cup x /\ x # {}
        /\ Done(s) \cup x \subseteq nodes
        /\ Cardinality(Done(s)) \in Nat /\ Cardinality(Done(s) \cup x) \in Nat
        /\ Cardinality(Done(s) \cup x) >= Cardinality(Done(s)) + 1
    <2>1. Grows(nodes, s, x)
      BY <1>2, WaveGrows
    <2>2. QED
      BY <2>1 DEF Grows
  <1>4. N \in Nat /\ Cardinality(Done(s) \cup x) <= N
    BY <1>3, FS_CardinalityType, FS_Subset
  <1>5. j + 1 \in 1..N /\ j + 1 \in 0..N /\ (j + 1) - 1 = j
    BY <1>1, <1>3, <1>4
  <1>6. w[j + 1] = Append(s, x)
    <2>1. w[j + 1] = NextWave(nodes, deps, mp, w[j])
      BY <1>1, <1>5 DEF IsWaves
    <2>2. QED
      BY <1>1, <2>1 DEF NextWave
  <1>7. PlansSoFar(nodes, deps, mp, Append(s, x))
    <2>1. PICK k : k = j + 1
      OBVIOUS
    <2>2. k \in 0..N /\ IsWaves(w, nodes, deps, mp) /\ Append(s, x) = w[k]
      BY <1>1, <1>5, <1>6, <2>1
    <2>3. Cardinality(Done(s) \cup x) >= k
      BY <1>1, <1>3, <2>1
    <2>4. Cardinality(Done(Append(s, x))) >= k
      BY <1>3, <2>3
    <2>5. QED
      BY <2>2, <2>4, Zenon DEF PlansSoFar
  <1>8. QED
    BY <1>3, <1>7

\* When every node is placed, the announcement is complete.
LEMMA PlansAll ==
    ASSUME NEW nodes, IsFiniteSet(nodes), NEW deps, NEW mp, NEW s,
           PlansSoFar(nodes, deps, mp, s), nodes \subseteq Done(s)
    PROVE  s = ConcurrencyPlan(nodes, deps, mp)
  <1> DEFINE N == Cardinality(nodes)
  <1>0. PICK w : \E j \in 0..N : IsWaves(w, nodes, deps, mp) /\ s = w[j]
    BY DEF PlansSoFar
  <1>1. PICK j \in 0..N : IsWaves(w, nodes, deps, mp) /\ s = w[j]
    BY <1>0
  <1>2. N \in Nat
    BY FS_CardinalityType
  <1>3. NextWave(nodes, deps, mp, s) = s
    BY DEF NextWave, Startable
  <1> DEFINE B == {k \in j..N : w[k] # s}
  <1>4. B = {}
    <2> SUFFICES ASSUME B # {} PROVE FALSE
      OBVIOUS
    <2>1. B \in SUBSET Nat
      BY <1>1, <1>2
    <2>2. PICK k \in B : \A i \in B : k <= i
      BY <2>1, LeastNat
    <2>3. k # j
      BY <1>1, <2>2
    <2>4. k \in 1..N /\ k - 1 \in j..N /\ k - 1 \notin B
      BY <1>1, <1>2, <2>2, <2>3
    <2>5. w[k - 1] = s
      BY <2>4
    <2>6. w[k] = NextWave(nodes, deps, mp, w[k - 1])
      BY <1>1, <2>4 DEF IsWaves
    <2>7. QED
      BY <1>3, <2>2, <2>5, <2>6
  <1>5. N \in j..N /\ N \in 0..N
    BY <1>1, <1>2
  <1>6. w[N] = s
    BY <1>4, <1>5
  <1>7. PICK v : IsWaves(v, nodes, deps, mp) /\ ConcurrencyPlan(nodes, deps, mp) = v[N]
    BY WaveStages
  <1>8. v[N] = w[N]
    BY <1>1, <1>5, <1>7, WavesUnique
  <1>9. QED
    BY <1>6, <1>7, <1>8

(***************************************************************************)
(* The dry run announces every node: in a graph that passes the parser's   *)
(* cycle check, compute_concurrency_plan never runs out of startable nodes *)
(* while one is left, whatever the width of a wave.                        *)
(***************************************************************************)
THEOREM PreviewPlacesEveryNode ==
    ASSUME NEW nodes \in SUBSET Nat, IsFiniteSet(nodes),
           NEW deps \in [nodes -> SUBSET nodes], NEW mp \in Nat \ {0}, Acyclic(nodes, deps)
    PROVE  Done(ConcurrencyPlan(nodes, deps, mp)) = nodes
  <1> DEFINE N == Cardinality(nodes)
  <1>1. N \in Nat
    BY FS_CardinalityType
  <1>2. PICK w : IsWaves(w, nodes, deps, mp) /\ ConcurrencyPlan(nodes, deps, mp) = w[N]
    BY WaveStages
  <1>3. ASSUME NEW k \in 0..N
        PROVE  /\ w[k] \in Seq(SUBSET nodes) /\ Done(w[k]) \subseteq nodes
               /\ Cardinality(Done(w[k])) \in Nat
    <2>1. w[k] \in Seq(SUBSET nodes)
      BY <1>2 DEF IsWaves
    <2>2. Done(w[k]) \subseteq nodes
      BY <2>1 DEF Done, Elems
    <2>3. QED
      BY <2>1, <2>2, FS_Subset, FS_CardinalityType
  <1> DEFINE Far(k) == Done(w[k]) = nodes \/ Cardinality(Done(w[k])) >= k
             B == {k \in 0..N : ~Far(k)}
  <1>4. B = {}
    <2> SUFFICES ASSUME B # {} PROVE FALSE
      OBVIOUS
    <2>1. B \in SUBSET Nat
      BY <1>1
    <2>2. PICK k \in B : \A j \in B : k <= j
      BY <2>1, LeastNat
    <2>3. k # 0
      BY <1>3, <2>2
    <2>4. k \in 1..N /\ k - 1 \in 0..N /\ k - 1 \notin B
      BY <1>1, <2>2, <2>3
    <2>5. Far(k - 1) /\ ~Far(k)
      BY <2>2, <2>4
    <2>6. w[k] = NextWave(nodes, deps, mp, w[k - 1])
      BY <1>2, <2>4 DEF IsWaves
    <2>7. CASE Done(w[k - 1]) = nodes
      BY <2>5, <2>6, <2>7 DEF NextWave, Startable
    <2>8. CASE Done(w[k - 1]) # nodes
      <3>1. PICK s : s = w[k - 1]
        OBVIOUS
      <3>2. s \in Seq(SUBSET nodes) /\ Done(s) \subseteq nodes
        BY <1>3, <2>4, <3>1
      <3>3. PICK S : S = nodes \ Done(s)
        OBVIOUS
      <3>4. S \in SUBSET nodes /\ S # {}
        BY <2>8, <3>1, <3>2, <3>3
      <3>5. PICK n \in S : deps[n] \cap S = {}
        BY <3>4, AcyclicWellFounded
      <3>6. n \in Startable(nodes, deps, s)
        BY <3>3, <3>5 DEF Startable
      <3>7. PICK x : x = FirstOf(Startable(nodes, deps, s), mp)
        OBVIOUS
      <3>8. w[k] = Append(s, x)
        BY <2>6, <3>1, <3>6, <3>7 DEF NextWave
      <3>9. Startable(nodes, deps, s) # {}
        BY <3>6
      <3>10. Grows(nodes, s, x)
        BY <3>2, <3>7, <3>9, WaveGrows
      <3>11. Cardinality(Done(s)) >= k - 1
        BY <2>5, <2>8, <3>1
      <3>12. Cardinality(Done(w[k])) >= k
        BY <2>4, <3>8, <3>10, <3>11 DEF Grows
      <3>13. QED
        BY <2>5, <3>12
    <2>9. QED
      BY <2>7, <2>8
  <1>5. N \in 0..N
    BY <1>1
  <1>6. Far(N)
    BY <1>4, <1>5
  <1>7. QED
    <2>1. CASE Done(w[N]) = nodes
      BY <1>2, <2>1
    <2>2. CASE Cardinality(Done(w[N])) >= N
      <3>1. Done(w[N]) \subseteq nodes /\ Cardinality(Done(w[N])) \in Nat
        BY <1>3, <1>5
      <3>2. Cardinality(Done(w[N])) = N
        BY <1>1, <2>2, <3>1, FS_Subset
      <3>3. QED
        BY <1>2, <3>1, <3>2, FS_Subset
    <2>3. QED
      BY <1>6, <2>1, <2>2
-----------------------------------------------------------------------------
(***************************************************************************)
(* Placing nodes one by one: kahn_topo_sort and the sort of compensations. *)
(***************************************************************************)
LEMMA AppendFacts ==
    ASSUME NEW S, NEW s \in Seq(S), NEW x \in S
    PROVE  /\ Len(s) \in Nat /\ Append(s, x) \in Seq(S)
           /\ Len(Append(s, x)) = Len(s) + 1
           /\ Append(s, x)[Len(s) + 1] = x
           /\ \A i \in 1..Len(s) : Append(s, x)[i] = s[i]
           /\ Elems(Append(s, x)) = Elems(s) \cup {x}
  <1>1. /\ Len(s) \in Nat /\ Append(s, x) \in Seq(S)
        /\ Len(Append(s, x)) = Len(s) + 1
        /\ Append(s, x)[Len(s) + 1] = x
        /\ \A i \in 1..Len(s) : Append(s, x)[i] = s[i]
    OBVIOUS
  <1>2. 1..(Len(s) + 1) = (1..Len(s)) \cup {Len(s) + 1}
    BY <1>1
  <1>3. {Append(s, x)[i] : i \in 1..Len(s)} = {s[i] : i \in 1..Len(s)}
    BY <1>1
  <1>4. Elems(Append(s, x)) = Elems(s) \cup {x}
    BY <1>1, <1>2, <1>3 DEF Elems
  <1>5. QED
    BY <1>1, <1>4

\* What may be placed next: its dependencies among `nodes' are placed.
Opens(nodes, deps, s) ==
    {n \in nodes \ Elems(s) : (deps[n] \cap nodes) \subseteq Elems(s)}

\* Every node at most once, after its dependencies among `nodes'.
Places(nodes, deps, s) ==
    /\ s \in Seq(nodes)
    /\ \A i, j \in 1..Len(s) : s[i] = s[j] => i = j
    /\ \A j \in 1..Len(s) : \A m \in deps[s[j]] \cap nodes : \E i \in 1..Len(s) : i < j /\ s[i] = m

LEMMA PlacesNext ==
    ASSUME NEW nodes, NEW deps, NEW s, Places(nodes, deps, s), NEW x \in Opens(nodes, deps, s)
    PROVE  Places(nodes, deps, Append(s, x)) /\ Len(Append(s, x)) = Len(s) + 1
  <1>1. /\ s \in Seq(nodes)
        /\ \A i, j \in 1..Len(s) : s[i] = s[j] => i = j
        /\ \A j \in 1..Len(s) : \A m \in deps[s[j]] \cap nodes :
              \E i \in 1..Len(s) : i < j /\ s[i] = m
    BY DEF Places
  <1>2. x \in nodes /\ x \notin Elems(s) /\ (deps[x] \cap nodes) \subseteq Elems(s)
    BY DEF Opens
  <1>3. PICK t : t = Append(s, x)
    OBVIOUS
  <1>4. /\ Len(s) \in Nat /\ t \in Seq(nodes) /\ Len(t) = Len(s) + 1 /\ t[Len(s) + 1] = x
        /\ \A i \in 1..Len(s) : t[i] = s[i]
    BY <1>1, <1>2, <1>3, AppendFacts
  <1>5. \A i \in 1..Len(s) : t[i] # x
    BY <1>2, <1>4 DEF Elems
  <1>6. \A j \in 1..Len(t) : j \in 1..Len(s) \/ j = Len(s) + 1
    BY <1>4
  <1>7. \A i, j \in 1..Len(t) : t[i] = t[j] => i = j
    <2> SUFFICES ASSUME NEW i \in 1..Len(t), NEW j \in 1..Len(t), t[i] = t[j] PROVE i = j
      OBVIOUS
    <2>1. CASE i = Len(s) + 1 \/ j = Len(s) + 1
      BY <1>4, <1>5, <1>6, <2>1
    <2>2. CASE i \in 1..Len(s) /\ j \in 1..Len(s)
      BY <1>1, <1>4, <2>2
    <2>3. QED
      BY <1>6, <2>1, <2>2
  <1>8. ASSUME NEW j \in 1..Len(t), NEW m \in deps[t[j]] \cap nodes
        PROVE  \E i \in 1..Len(t) : i < j /\ t[i] = m
    <2>1. PICK i \in 1..Len(s) : i < j /\ s[i] = m
      <3>1. CASE j \in 1..Len(s)
        BY <1>1, <1>4, <3>1
      <3>2. CASE j = Len(s) + 1
        <4>1. m \in Elems(s)
          BY <1>2, <1>4, <3>2
        <4>2. PICK i \in 1..Len(s) : s[i] = m
          BY <4>1 DEF Elems
        <4>3. i < j
          BY <1>4, <3>2
        <4>4. QED
          BY <4>2, <4>3
      <3>3. QED
        BY <1>6, <3>1, <3>2
    <2>2. i \in 1..Len(t) /\ t[i] = m
      BY <1>4, <2>1
    <2>3. QED
      BY <2>1, <2>2
  <1>9. Places(nodes, deps, t)
    BY <1>4, <1>7, <1>8 DEF Places
  <1>10. QED
    BY <1>3, <1>4, <1>9

\* As many places as nodes, no node twice: every node has its place.
LEMMA InjectionFills ==
    ASSUME NEW S, IsFiniteSet(S), NEW s \in [1..Cardinality(S) -> S],
           \A i, j \in 1..Cardinality(S) : s[i] = s[j] => i = j
    PROVE  {s[i] : i \in 1..Cardinality(S)} = S
  <1> DEFINE N == Cardinality(S)
  <1>1. N \in Nat
    BY FS_CardinalityType
  <1>2. Cardinality(1..N) = N
    BY <1>1, FS_Interval
  <1>3. s \in Injection(1..N, S)
    BY DEF Injection, IsInjective
  <1>4. s \in Surjection(1..N, S)
    BY <1>2, <1>3, FS_Injection
  <1>5. \A x \in S : \E i \in 1..N : s[i] = x
    BY <1>4 DEF Surjection
  <1>6. QED
    BY <1>5

\* A run of placements that stops only when nothing is open ends with
\* nothing open, having had as many turns as there are nodes.
LEMMA PlacementEnds ==
    ASSUME NEW nodes, IsFiniteSet(nodes), NEW deps, NEW w, w[0] = <<>>,
           \A k \in 1..Cardinality(nodes) :
             \/ Opens(nodes, deps, w[k - 1]) = {} /\ w[k] = w[k - 1]
             \/ \E x \in Opens(nodes, deps, w[k - 1]) : w[k] = Append(w[k - 1], x)
    PROVE  /\ Places(nodes, deps, w[Cardinality(nodes)])
           /\ Opens(nodes, deps, w[Cardinality(nodes)]) = {}
  <1> DEFINE N == Cardinality(nodes)
             Good(k) == /\ Places(nodes, deps, w[k])
                        /\ Opens(nodes, deps, w[k]) = {} \/ Len(w[k]) = k
             B == {k \in 0..N : ~Good(k)}
  <1>1. N \in Nat /\ N \in 0..N
    BY FS_CardinalityType
  <1>2. Good(0)
    <2>1. <<>> \in Seq(nodes) /\ Len(<<>>) = 0 /\ 1..0 = {}
      OBVIOUS
    <2>2. QED
      BY <2>1 DEF Places
  <1>3. B = {}
    <2> SUFFICES ASSUME B # {} PROVE FALSE
      OBVIOUS
    <2>1. B \in SUBSET Nat
      BY <1>1
    <2>2. PICK k \in B : \A j \in B : k <= j
      BY <2>1, LeastNat
    <2> HIDE DEF Good
    <2>3. k \in 1..N /\ k - 1 \in 0..N /\ k - 1 \notin B
      BY <1>1, <1>2, <2>2
    <2>4. Good(k - 1) /\ ~Good(k)
      BY <2>2, <2>3
    <2>5. CASE Opens(nodes, deps, w[k - 1]) = {} /\ w[k] = w[k - 1]
      BY <2>4, <2>5 DEF Good
    <2>6. CASE \E x \in Opens(nodes, deps, w[k - 1]) : w[k] = Append(w[k - 1], x)
      <3>1. PICK s : s = w[k - 1]
        OBVIOUS
      <3>2. PICK x \in Opens(nodes, deps, s) : w[k] = Append(s, x)
        BY <2>6, <3>1
      <3>3. Places(nodes, deps, s) /\ Len(s) = k - 1
        BY <2>4, <3>1, <3>2 DEF Good
      <3>4. Places(nodes, deps, w[k]) /\ Len(w[k]) = Len(s) + 1
        BY <3>2, <3>3, PlacesNext
      <3>5. Len(w[k]) = k
        BY <2>3, <3>3, <3>4
      <3>6. QED
        BY <2>4, <3>4, <3>5 DEF Good
    <2>7. QED
      BY <2>3, <2>5, <2>6
  <1>4. Good(N)
    BY <1>1, <1>3
  <1>5. CASE Len(w[N]) = N
    <2>1. w[N] \in Seq(nodes) /\ \A i, j \in 1..N : w[N][i] = w[N][j] => i = j
      BY <1>4, <1>5 DEF Places
    <2>2. w[N] \in [1..N -> nodes]
      BY <1>5, <2>1
    <2>3. PICK s : s = w[N]
      OBVIOUS
    <2>4. {s[i] : i \in 1..N} = nodes
      BY <2>1, <2>2, <2>3, InjectionFills
    <2>5. Elems(w[N]) = nodes
      BY <1>5, <2>3, <2>4 DEF Elems
    <2>6. Opens(nodes, deps, w[N]) = {}
      BY <2>5 DEF Opens
    <2>7. QED
      BY <1>4, <2>6
  <1>6. QED
    BY <1>4, <1>5

\* A topological order: every node once, after its dependencies.
IsTopoOrder(nodes, deps, s) ==
    /\ s \in Seq(nodes) /\ Elems(s) = nodes
    /\ \A i, j \in 1..Len(s) : s[i] = s[j] => i = j
    /\ \A j \in 1..Len(s) : \A m \in deps[s[j]] : \E i \in 1..Len(s) : i < j /\ s[i] = m

LEMMA TopoPlaces ==
    ASSUME NEW nodes \in SUBSET Nat, IsFiniteSet(nodes), NEW deps \in [nodes -> SUBSET nodes]
    PROVE  /\ Places(nodes, deps, TopoOrder(nodes, deps))
           /\ Opens(nodes, deps, TopoOrder(nodes, deps)) = {}
  <1> DEFINE N == Cardinality(nodes)
  <1>1. PICK w : /\ w \in [0..N -> Seq(nodes)] /\ w[0] = <<>>
                 /\ \A k \in 1..N : w[k] = KahnStep(nodes, deps, w[k - 1])
                 /\ TopoOrder(nodes, deps) = w[N]
    BY TopoStages
  <1>2. ASSUME NEW k \in 1..N
        PROVE  \/ Opens(nodes, deps, w[k - 1]) = {} /\ w[k] = w[k - 1]
               \/ \E x \in Opens(nodes, deps, w[k - 1]) : w[k] = Append(w[k - 1], x)
    <2>1. PICK s : s = w[k - 1]
      OBVIOUS
    <2>2. PICK P : P = Opens(nodes, deps, s)
      OBVIOUS
    <2>3. Placeable(nodes, deps, s) = P /\ P \in SUBSET Nat
      BY <2>2 DEF Placeable, Opens
    <2>4. w[k] = IF P = {} THEN s ELSE Append(s, Least(P))
      BY <1>1, <2>1, <2>3 DEF KahnStep
    <2>5. P # {} => Least(P) \in P
      BY <2>3, LeastFacts
    <2>6. QED
      BY <2>1, <2>2, <2>4, <2>5
  <1> HIDE DEF N
  <1>3. /\ Places(nodes, deps, w[Cardinality(nodes)])
        /\ Opens(nodes, deps, w[Cardinality(nodes)]) = {}
    BY <1>1, <1>2, PlacementEnds DEF N
  <1>4. QED
    BY <1>1, <1>3 DEF N

(***************************************************************************)
(* kahn_topo_sort sorts: on a graph it does not reject, the order it       *)
(* returns holds every node exactly once and after all of its              *)
(* dependencies (parser/validation.rs).                                    *)
(***************************************************************************)
THEOREM TopoOrderSorts ==
    ASSUME NEW nodes \in SUBSET Nat, IsFiniteSet(nodes),
           NEW deps \in [nodes -> SUBSET nodes], Acyclic(nodes, deps)
    PROVE  IsTopoOrder(nodes, deps, TopoOrder(nodes, deps))
  <1>1. PICK s : s = TopoOrder(nodes, deps)
    OBVIOUS
  <1>2. Places(nodes, deps, s)
    BY <1>1, TopoPlaces
  <1>3. Len(s) = Cardinality(nodes)
    BY <1>1 DEF Acyclic
  <1>4. /\ s \in Seq(nodes) /\ \A i, j \in 1..Len(s) : s[i] = s[j] => i = j
        /\ \A j \in 1..Len(s) : \A m \in deps[s[j]] \cap nodes :
              \E i \in 1..Len(s) : i < j /\ s[i] = m
    BY <1>2 DEF Places
  <1>5. s \in [1..Cardinality(nodes) -> nodes]
    BY <1>3, <1>4
  <1>6. {s[i] : i \in 1..Cardinality(nodes)} = nodes
    BY <1>3, <1>4, <1>5, InjectionFills
  <1>7. Elems(s) = nodes
    BY <1>3, <1>6 DEF Elems
  <1>8. \A j \in 1..Len(s) : deps[s[j]] \cap nodes = deps[s[j]]
    BY <1>3, <1>5
  <1>9. IsTopoOrder(nodes, deps, s)
    BY <1>4, <1>7, <1>8 DEF IsTopoOrder
  <1>10. QED
    BY <1>1, <1>9

-----------------------------------------------------------------------------
(***************************************************************************)
(* The order of compensations.                                             *)
(***************************************************************************)
LEMMA FirstInFacts ==
    ASSUME NEW T, NEW forward \in Seq(T), NEW S, S # {}, S \subseteq Elems(forward)
    PROVE  FirstIn(forward, S) \in S
  <1>1. PICK I : I = {i \in 1..Len(forward) : forward[i] \in S}
    OBVIOUS
  <1>2. I \in SUBSET Nat /\ I # {}
    BY <1>1 DEF Elems
  <1>3. Least(I) \in I
    BY <1>2, LeastFacts
  <1>4. FirstIn(forward, S) = forward[Least(I)]
    BY <1>1 DEF FirstIn
  <1>5. QED
    BY <1>1, <1>3, <1>4

\* One turn of the loop in compute_compensation_order.
RollbackStep(cand, after, forward, s) ==
    IF Opens(cand, after, s) = {} THEN s
    ELSE Append(s, FirstIn(forward, Opens(cand, after, s)))

LEMMA RollbackStepTyped ==
    ASSUME NEW cand, NEW after, NEW T, NEW forward \in Seq(T), cand \subseteq Elems(forward),
           NEW s \in Seq(cand)
    PROVE  RollbackStep(cand, after, forward, s) \in Seq(cand)
  <1>1. PICK P : P = Opens(cand, after, s)
    OBVIOUS
  <1>2. P \subseteq cand /\ P \subseteq Elems(forward)
    BY <1>1 DEF Opens
  <1>3. P # {} => FirstIn(forward, P) \in P
    BY <1>2, FirstInFacts
  <1>4. RollbackStep(cand, after, forward, s) = IF P = {} THEN s ELSE Append(s, FirstIn(forward, P))
    BY <1>1 DEF RollbackStep
  <1>5. CASE P # {}
    <2>1. PICK x : x = FirstIn(forward, P)
      OBVIOUS
    <2>2. x \in cand
      BY <1>2, <1>3, <1>5, <2>1
    <2>3. Append(s, x) \in Seq(cand)
      BY <2>2
    <2>4. QED
      BY <1>4, <1>5, <2>1, <2>3
  <1>6. QED
    BY <1>4, <1>5

LEMMA RollbackStages ==
    ASSUME NEW cand, IsFiniteSet(cand), NEW after, NEW T, NEW forward \in Seq(T),
           cand \subseteq Elems(forward)
    PROVE  \E w : /\ w \in [0..Cardinality(cand) -> Seq(cand)]
                  /\ w[0] = <<>>
                  /\ \A k \in 1..Cardinality(cand) :
                        w[k] = RollbackStep(cand, after, forward, w[k - 1])
                  /\ RollbackSort(cand, after, forward) = w[Cardinality(cand)]
  <1> DEFINE N == Cardinality(cand)
             D == Seq(cand)
             G == [s \in D |-> RollbackStep(cand, after, forward, s)]
             Body(w) == [k \in 0..N |->
                          IF k = 0 THEN <<>>
                          ELSE LET placed == Elems(w[k - 1])
                                   ready  == {n \in cand \ placed :
                                                 (after[n] \cap cand) \subseteq placed}
                               IN  IF ready = {} THEN w[k - 1]
                                   ELSE Append(w[k - 1], FirstIn(forward, ready))]
             w0 == CHOOSE w : w = Body(w)
  <1>1. N \in Nat
    BY FS_CardinalityType
  <1>2. <<>> \in D /\ G \in [D -> D]
    BY RollbackStepTyped
  <1>3. PICK f : IsIteration(f, D, <<>>, G, N)
    <2> HIDE DEF N, G, D, Body, w0
    <2>1. QED
      BY <1>1, <1>2, IteratesExist, Zenon
  <1>4. f \in [0..N -> D] /\ f[0] = <<>> /\ \A k \in 1..N : f[k] = G[f[k - 1]]
    BY <1>3 DEF IsIteration
  <1>5. \A w, k : k \in 0..N /\ k # 0 =>
                    Body(w)[k] = RollbackStep(cand, after, forward, w[k - 1])
    BY DEF RollbackStep, Opens
  <1>6. \A w : Body(w) = [k \in 0..N |-> Body(w)[k]] /\ Body(w)[0] = <<>>
    BY <1>1
  <1>7. RollbackSort(cand, after, forward) = w0[N]
    BY DEF RollbackSort
  <1> HIDE DEF Body
  <1>8. ASSUME NEW k \in 1..N
        PROVE  /\ k \in 0..N /\ k # 0 /\ k - 1 \in 0..N
               /\ f[k] = RollbackStep(cand, after, forward, f[k - 1])
    <2>1. k \in 0..N /\ k # 0 /\ k - 1 \in 0..N
      BY <1>1
    <2>2. f[k - 1] \in D /\ f[k] = G[f[k - 1]]
      BY <1>4, <2>1
    <2>3. QED
      BY <2>1, <2>2
  <1>9. f = Body(f)
    <2>1. ASSUME NEW k \in 0..N PROVE f[k] = Body(f)[k]
      <3>1. CASE k = 0
        BY <1>4, <1>6, <3>1
      <3>2. CASE k # 0
        <4>1. k \in 1..N
          BY <1>1, <3>2
        <4>2. QED
          BY <1>5, <1>8, <4>1
      <3>3. QED
        BY <3>1, <3>2
    <2>2. f = [k \in 0..N |-> f[k]]
      BY <1>4
    <2>3. QED
      BY <1>6, <2>1, <2>2
  <1>10. w0 = Body(w0)
    BY <1>9
  <1> HIDE DEF w0
  <1>11. \A k \in 0..N : w0[k] = f[k]
    <2> DEFINE B == {k \in 0..N : w0[k] # f[k]}
    <2> SUFFICES ASSUME B # {} PROVE FALSE
      OBVIOUS
    <2>1. B \in SUBSET Nat
      BY <1>1
    <2>2. PICK k \in B : \A j \in B : k <= j
      BY <2>1, LeastNat
    <2>3. k \in 0..N /\ k # 0
      BY <1>1, <1>4, <1>6, <1>10
    <2>4. k \in 1..N /\ k - 1 \in 0..N /\ k - 1 \notin B
      BY <1>1, <2>2, <2>3
    <2>5. w0[k - 1] = f[k - 1]
      BY <2>4
    <2>6. w0[k] = RollbackStep(cand, after, forward, w0[k - 1])
      BY <1>5, <1>10, <2>3
    <2>7. QED
      BY <1>8, <2>4, <2>5, <2>6
  <1>12. N \in 0..N
    BY <1>1
  <1>13. RollbackSort(cand, after, forward) = f[N]
    BY <1>7, <1>11, <1>12
  <1>14. QED
    BY <1>4, <1>8, <1>13

LEMMA RollbackSortPlaces ==
    ASSUME NEW cand, IsFiniteSet(cand), NEW after, NEW T, NEW forward \in Seq(T),
           cand \subseteq Elems(forward)
    PROVE  /\ Places(cand, after, RollbackSort(cand, after, forward))
           /\ Opens(cand, after, RollbackSort(cand, after, forward)) = {}
  <1> DEFINE N == Cardinality(cand)
  <1>1. PICK w : /\ w \in [0..N -> Seq(cand)] /\ w[0] = <<>>
                 /\ \A k \in 1..N : w[k] = RollbackStep(cand, after, forward, w[k - 1])
                 /\ RollbackSort(cand, after, forward) = w[N]
    BY RollbackStages
  <1>2. ASSUME NEW k \in 1..N
        PROVE  \/ Opens(cand, after, w[k - 1]) = {} /\ w[k] = w[k - 1]
               \/ \E x \in Opens(cand, after, w[k - 1]) : w[k] = Append(w[k - 1], x)
    <2>1. PICK s : s = w[k - 1]
      OBVIOUS
    <2>2. PICK P : P = Opens(cand, after, s)
      OBVIOUS
    <2>3. P \subseteq Elems(forward)
      BY <2>2 DEF Opens
    <2>4. w[k] = IF P = {} THEN s ELSE Append(s, FirstIn(forward, P))
      BY <1>1, <2>1, <2>2 DEF RollbackStep
    <2>5. P # {} => FirstIn(forward, P) \in P
      BY <2>3, FirstInFacts
    <2>6. QED
      BY <2>1, <2>2, <2>4, <2>5
  <1> HIDE DEF N
  <1>3. /\ Places(cand, after, w[Cardinality(cand)])
        /\ Opens(cand, after, w[Cardinality(cand)]) = {}
    BY <1>1, <1>2, PlacementEnds DEF N
  <1>4. QED
    BY <1>1, <1>3 DEF N

\* The members of S in ascending order.
Ascending(S, s) ==
    /\ s \in [1..Cardinality(S) -> S]
    /\ \A i, j \in 1..Cardinality(S) : i < j => s[i] < s[j]

LEMMA AscendingExists ==
    ASSUME NEW S \in SUBSET Nat, IsFiniteSet(S)
    PROVE  \E s : Ascending(S, s)
  <1> DEFINE Bad(U) == \A s : ~Ascending(U, s)
             B == {c \in Nat : \E U \in SUBSET S : Cardinality(U) = c /\ Bad(U)}
  <1> SUFFICES ASSUME Bad(S) PROVE FALSE
    OBVIOUS
  <1> HIDE DEF Bad
  <1>1. Cardinality(S) \in B
    BY FS_CardinalityType
  <1>2. PICK c \in B : \A d \in B : c <= d
    BY <1>1, LeastNat
  <1>3. PICK U \in SUBSET S : Cardinality(U) = c /\ Bad(U)
    BY <1>2
  <1>4. IsFiniteSet(U) /\ c \in Nat
    BY <1>2, <1>3, FS_Subset
  <1>5. U # {}
    <2> SUFFICES ASSUME U = {} PROVE FALSE
      OBVIOUS
    <2>1. Cardinality(U) = 0 /\ 1..0 = {}
      BY FS_EmptySet
    <2>2. [i \in 1..0 |-> 0] \in [1..Cardinality(U) -> U]
      BY <2>1
    <2>3. Ascending(U, [i \in 1..0 |-> 0])
      BY <2>1, <2>2 DEF Ascending
    <2>4. QED
      BY <1>3, <2>3 DEF Bad
  <1>6. PICK l : l = Least(U)
    OBVIOUS
  <1>7. l \in U /\ \A m \in U : l <= m
    BY <1>5, <1>6, LeastFacts
  <1>8. PICK V : V = U \ {l}
    OBVIOUS
  <1>9. V \in SUBSET S /\ Cardinality(V) = c - 1
    BY <1>3, <1>4, <1>7, <1>8, FS_RemoveElement
  <1>10. IsFiniteSet(V) /\ c - 1 \in Nat
    BY <1>9, FS_Subset, FS_CardinalityType
  <1>11. c - 1 \notin B
    BY <1>2, <1>4, <1>10
  <1>12. PICK t : Ascending(V, t)
    BY <1>9, <1>10, <1>11 DEF Bad
  <1>13. /\ t \in [1..(c - 1) -> V] /\ \A i, j \in 1..(c - 1) : i < j => t[i] < t[j]
    BY <1>9, <1>12 DEF Ascending
  <1> DEFINE s == [i \in 1..c |-> IF i = 1 THEN l ELSE t[i - 1]]
  <1>14. \A i \in 1..c : i # 1 => i - 1 \in 1..(c - 1)
    BY <1>4, <1>10
  <1>15. \A i \in 1..c : s[i] = IF i = 1 THEN l ELSE t[i - 1]
    OBVIOUS
  <1>16. s \in [1..c -> U]
    BY <1>7, <1>8, <1>13, <1>14
  <1> HIDE DEF s
  <1>17. ASSUME NEW i \in 1..c, NEW j \in 1..c, i < j PROVE s[i] < s[j]
    <2>1. j # 1 /\ s[j] = t[j - 1] /\ t[j - 1] \in V
      BY <1>13, <1>14, <1>15, <1>17
    <2>2. CASE i = 1
      <3>1. s[i] = l /\ s[j] \in V
        BY <1>15, <2>1, <2>2
      <3>2. \A m \in V : m \in Nat /\ l \in Nat /\ l < m
        BY <1>7, <1>8
      <3>3. QED
        BY <3>1, <3>2
    <2>3. CASE i # 1
      <3>1. s[i] = t[i - 1] /\ i - 1 \in 1..(c - 1) /\ j - 1 \in 1..(c - 1) /\ i - 1 < j - 1
        BY <1>4, <1>14, <1>15, <1>17, <2>1, <2>3
      <3>2. QED
        BY <1>13, <2>1, <3>1
    <2>4. QED
      BY <2>2, <2>3
  <1>18. Ascending(U, s)
    BY <1>3, <1>16, <1>17 DEF Ascending
  <1>19. QED
    BY <1>3, <1>18 DEF Bad

LEMMA DeclarationFacts ==
    ASSUME NEW S \in SUBSET Nat, IsFiniteSet(S)
    PROVE  LET d == DeclarationOrder(S)
           IN  /\ d \in Seq(S) /\ Elems(d) = S
               /\ \A i, j \in 1..Len(d) : d[i] = d[j] => i = j
  <1> DEFINE N == Cardinality(S)
  <1>1. PICK d : d = DeclarationOrder(S)
    OBVIOUS
  <1>2. d \in [1..N -> S] /\ \A i, j \in 1..N : i < j => d[i] < d[j]
    <2>1. \E s \in [1..N -> S] : \A i, j \in 1..N : i < j => s[i] < s[j]
      BY AscendingExists DEF Ascending
    <2>2. QED
      BY <1>1, <2>1 DEF DeclarationOrder
  <1>3. N \in Nat
    BY FS_CardinalityType
  <1>4. d \in Seq(S) /\ Len(d) = N
    BY <1>2, <1>3
  <1>5. ASSUME NEW i \in 1..N, NEW j \in 1..N, d[i] = d[j] PROVE i = j
    <2>0. d[i] \in S /\ d[j] \in S
      BY <1>2
    <2>1. d[i] \in Nat /\ d[j] \in Nat /\ i \in Nat /\ j \in Nat
      <3>1. i \in Nat /\ j \in Nat
        BY <1>3
      <3>2. d[i] \in Nat /\ d[j] \in Nat
        BY <2>0, Zenon
      <3>3. QED
        BY <3>1, <3>2
    <2>2. ~(i < j) /\ ~(j < i)
      BY <1>2, <1>5, <2>1
    <2>3. QED
      BY <2>1, <2>2
  <1>6. {d[i] : i \in 1..N} = S
    BY <1>2, <1>5, InjectionFills
  <1>7. Elems(d) = S
    BY <1>4, <1>6 DEF Elems
  <1>8. QED
    BY <1>1, <1>4, <1>5, <1>7

\* A set of nodes each of which steps into the set is on or before a cycle.
LEMMA StuckIsCyclic ==
    ASSUME NEW nodes, IsFiniteSet(nodes), NEW step \in [nodes -> SUBSET nodes],
           NEW S \in SUBSET nodes, \A n \in S : step[n] \cap S # {}, NEW n \in S
    PROVE  Cyclic(nodes, step, n)
  <1> DEFINE R(m) == Reach(nodes, step, m)
             X == {m \in S : m \in {n} \cup R(n)}
             C == {Cardinality(R(m)) : m \in X}
  <1>1. \A m \in nodes : /\ R(m) \subseteq nodes /\ step[m] \subseteq R(m)
                         /\ \A q \in R(m) : step[q] \subseteq R(m)
    BY ReachClosed
  <1>2. \A m \in nodes : \A q \in step[m] : R(q) \subseteq R(m)
    <2> SUFFICES ASSUME NEW m \in nodes, NEW q \in step[m] PROVE R(q) \subseteq R(m)
      OBVIOUS
    <2>1. Ancestors(nodes, step, q) \subseteq Ancestors(nodes, step, m)
      BY AncestorsInherited
    <2>2. QED
      BY <2>1 DEF Ancestors
  <1>3. \A m \in nodes : IsFiniteSet(R(m)) /\ Cardinality(R(m)) \in Nat
    BY <1>1, FS_Subset, FS_CardinalityType
  <1>4. Cyclic(nodes, step, n) <=> \E m \in {n} \cup R(n) : m \in R(m)
    BY DEF Cyclic
  <1> HIDE DEF R
  <1>5. C \in SUBSET Nat /\ C # {}
    BY <1>3
  <1>6. PICK c \in C : \A d \in C : c <= d
    BY <1>5, LeastNat
  <1>7. PICK x \in X : Cardinality(R(x)) = c
    BY <1>6
  <1>8. PICK y \in step[x] : y \in S
    BY <1>7
  <1>9. x \in nodes /\ y \in nodes /\ y \in R(x) /\ R(y) \subseteq R(x)
    BY <1>1, <1>2, <1>7, <1>8
  <1>10. y \in X
    <2>1. step[x] \subseteq R(n)
      BY <1>1, <1>7
    <2>2. QED
      BY <1>8, <2>1
  <1>11. Cardinality(R(x)) <= Cardinality(R(y))
    BY <1>6, <1>7, <1>10
  <1>12. R(y) = R(x)
    <2>1. R(y) \in SUBSET R(x) /\ IsFiniteSet(R(x))
      BY <1>3, <1>9
    <2>2. Cardinality(R(y)) <= Cardinality(R(x)) /\ (Cardinality(R(x)) = Cardinality(R(y)) => R(x) = R(y))
      BY <2>1, FS_Subset
    <2>3. Cardinality(R(x)) \in Nat /\ Cardinality(R(y)) \in Nat
      BY <1>3, <1>9
    <2>4. QED
      BY <1>11, <2>2, <2>3
  <1>13. y \in R(y) /\ y \in {n} \cup R(n)
    BY <1>9, <1>10, <1>12
  <1>14. QED
    BY <1>4, <1>13

\* The :rollback-after edges between candidates.
Within(nodes, cand, after) == [n \in nodes |-> IF n \in cand THEN after[n] \cap cand ELSE {}]

\* Every candidate once, none before one it must follow, cycles apart.
Compensates(nodes, cand, after, c) ==
    /\ c \in Seq(nodes) /\ Elems(c) = cand
    /\ \A i, j \in 1..Len(c) : c[i] = c[j] => i = j
    /\ \A n \in cand : \A m \in Within(nodes, cand, after)[n] :
         \/ \E i, j \in 1..Len(c) : i < j /\ c[i] = m /\ c[j] = n
         \/ Cyclic(nodes, Within(nodes, cand, after), m)

LEMMA SeqWidens ==
    ASSUME NEW S, NEW T, S \subseteq T, NEW s \in Seq(S)
    PROVE  s \in Seq(T)
  <1>1. Len(s) \in Nat /\ s \in [1..Len(s) -> S]
    OBVIOUS
  <1>2. s \in [1..Len(s) -> T]
    BY <1>1
  <1>3. QED
    BY <1>1, <1>2

LEMMA ConcatFacts ==
    ASSUME NEW S, NEW s \in Seq(S), NEW t \in Seq(S)
    PROVE  /\ s \o t \in Seq(S) /\ Len(s \o t) = Len(s) + Len(t)
           /\ Len(s) \in Nat /\ Len(t) \in Nat
           /\ \A i \in 1..Len(s) : (s \o t)[i] = s[i]
           /\ \A i \in 1..Len(t) : (s \o t)[Len(s) + i] = t[i]
           /\ \A i \in 1..(Len(s) + Len(t)) :
                 i \in 1..Len(s) \/ (i - Len(s) \in 1..Len(t) /\ (s \o t)[i] = t[i - Len(s)])
  <1>1. s \o t \in Seq(S) /\ Len(s \o t) = Len(s) + Len(t) /\ Len(s) \in Nat /\ Len(t) \in Nat
    OBVIOUS
  <1>2. \A i \in 1..Len(s) : (s \o t)[i] = s[i]
    OBVIOUS
  <1>3. \A i \in 1..Len(t) : (s \o t)[Len(s) + i] = t[i]
    OBVIOUS
  <1>4. ASSUME NEW i \in 1..(Len(s) + Len(t)), i \notin 1..Len(s)
        PROVE  i - Len(s) \in 1..Len(t) /\ (s \o t)[i] = t[i - Len(s)]
    <2>1. i - Len(s) \in 1..Len(t) /\ Len(s) + (i - Len(s)) = i
      BY <1>1, <1>4
    <2>2. (s \o t)[Len(s) + (i - Len(s))] = t[i - Len(s)]
      BY <1>3, <2>1
    <2>3. QED
      BY <2>1, <2>2
  <1>5. QED
    BY <1>1, <1>2, <1>3, <1>4

\* Two sequences without repetition and without a common element.
LEMMA ConcatOnce ==
    ASSUME NEW S, NEW s \in Seq(S), NEW t \in Seq(S),
           \A i, j \in 1..Len(s) : s[i] = s[j] => i = j,
           \A i, j \in 1..Len(t) : t[i] = t[j] => i = j,
           Elems(s) \cap Elems(t) = {}
    PROVE  /\ Elems(s \o t) = Elems(s) \cup Elems(t)
           /\ \A i, j \in 1..Len(s \o t) : (s \o t)[i] = (s \o t)[j] => i = j
  <1>1. PICK c : c = s \o t
    OBVIOUS
  <1>2. /\ Len(c) = Len(s) + Len(t) /\ Len(s) \in Nat /\ Len(t) \in Nat
        /\ \A i \in 1..Len(s) : c[i] = s[i]
        /\ \A i \in 1..Len(t) : c[Len(s) + i] = t[i]
        /\ \A i \in 1..(Len(s) + Len(t)) :
             i \in 1..Len(s) \/ (i - Len(s) \in 1..Len(t) /\ c[i] = t[i - Len(s)])
    BY <1>1, ConcatFacts
  <1>3. \A x \in Elems(c) : x \in Elems(s) \cup Elems(t)
    BY <1>2 DEF Elems
  <1>4. \A x \in Elems(s) : x \in Elems(c)
    <2> SUFFICES ASSUME NEW i \in 1..Len(s) PROVE s[i] \in Elems(c)
      BY DEF Elems
    <2>1. i \in 1..Len(c) /\ c[i] = s[i]
      BY <1>2
    <2>2. QED
      BY <2>1 DEF Elems
  <1>5. \A x \in Elems(t) : x \in Elems(c)
    <2> SUFFICES ASSUME NEW i \in 1..Len(t) PROVE t[i] \in Elems(c)
      BY DEF Elems
    <2>1. Len(s) + i \in 1..Len(c) /\ c[Len(s) + i] = t[i]
      BY <1>2
    <2>2. QED
      BY <2>1 DEF Elems
  <1>6. \A i \in 1..Len(s) : c[i] \in Elems(s)
    BY <1>2 DEF Elems
  <1>7. ASSUME NEW i \in 1..Len(c), i \notin 1..Len(s) PROVE c[i] \in Elems(t)
    <2>1. i \in 1..(Len(s) + Len(t))
      BY <1>2
    <2>2. i - Len(s) \in 1..Len(t) /\ c[i] = t[i - Len(s)]
      BY <1>2, <1>7, <2>1
    <2>3. PICK k \in 1..Len(t) : c[i] = t[k]
      BY <2>2
    <2>4. QED
      BY <2>3 DEF Elems
  <1>8. ASSUME NEW i \in 1..Len(c), NEW j \in 1..Len(c), c[i] = c[j] PROVE i = j
    <2>0. i \in Nat /\ j \in Nat /\ i \in 1..(Len(s) + Len(t)) /\ j \in 1..(Len(s) + Len(t))
      BY <1>2
    <2>1. CASE i \in 1..Len(s) /\ j \in 1..Len(s)
      BY <1>2, <1>8, <2>1
    <2>2. CASE i \in 1..Len(s) /\ j \notin 1..Len(s)
      <3>1. c[i] \in Elems(s) /\ c[j] \in Elems(t)
        BY <1>6, <1>7, <2>2
      <3>2. QED
        BY <1>8, <3>1
    <2>3. CASE i \notin 1..Len(s) /\ j \in 1..Len(s)
      <3>1. c[j] \in Elems(s) /\ c[i] \in Elems(t)
        BY <1>6, <1>7, <2>3
      <3>2. QED
        BY <1>8, <3>1
    <2>4. CASE i \notin 1..Len(s) /\ j \notin 1..Len(s)
      <3>1. i - Len(s) \in 1..Len(t) /\ j - Len(s) \in 1..Len(t) /\ t[i - Len(s)] = t[j - Len(s)]
        BY <1>2, <1>8, <2>0, <2>4
      <3>2. i - Len(s) = j - Len(s)
        BY <3>1
      <3>3. QED
        BY <1>2, <2>0, <3>2
    <2>5. QED
      BY <2>1, <2>2, <2>3, <2>4
  <1>9. Elems(c) = Elems(s) \cup Elems(t)
    BY <1>3, <1>4, <1>5
  <1>10. QED
    BY <1>1, <1>8, <1>9

(***************************************************************************)
(* compute_compensation_order is complete and in order: every candidate is *)
(* compensated exactly once, and none before a candidate it declares to    *)
(* run after, unless that one is on a cycle of :rollback-after edges or    *)
(* waits for one (ordering.rs).                                            *)
(***************************************************************************)
THEOREM CompensationIsOrdered ==
    ASSUME NEW nodes \in SUBSET Nat, IsFiniteSet(nodes), NEW cand \in SUBSET nodes,
           NEW after \in [nodes -> SUBSET nodes],
           NEW forward \in Seq(nodes), cand \subseteq Elems(forward)
    PROVE  Compensates(nodes, cand, after, CompensationOrder(cand, after, forward))
  <1>1. PICK s : s = RollbackSort(cand, after, forward)
    OBVIOUS
  <1>2. PICK rest : rest = cand \ Elems(s)
    OBVIOUS
  <1>3. PICK d : d = DeclarationOrder(rest)
    OBVIOUS
  <1>4. PICK c : c = s \o d
    OBVIOUS
  <1>5. CompensationOrder(cand, after, forward) = c
    BY <1>1, <1>2, <1>3, <1>4 DEF CompensationOrder
  <1>6. IsFiniteSet(cand) /\ IsFiniteSet(rest) /\ rest \in SUBSET Nat
    <2>1. rest \in SUBSET nodes /\ rest \in SUBSET Nat
      BY <1>2
    <2>2. QED
      BY <2>1, FS_Subset
  <1>7. Places(cand, after, s) /\ Opens(cand, after, s) = {}
    BY <1>1, <1>6, RollbackSortPlaces
  <1>8. /\ s \in Seq(cand)
        /\ \A i, j \in 1..Len(s) : s[i] = s[j] => i = j
        /\ \A j \in 1..Len(s) : \A m \in after[s[j]] \cap cand :
              \E i \in 1..Len(s) : i < j /\ s[i] = m
    BY <1>7 DEF Places
  <1>9. /\ d \in Seq(rest) /\ Elems(d) = rest
        /\ \A i, j \in 1..Len(d) : d[i] = d[j] => i = j
    BY <1>3, <1>6, DeclarationFacts
  <1>10. s \in Seq(nodes) /\ d \in Seq(nodes)
    BY <1>2, <1>8, <1>9, SeqWidens
  <1>11. Elems(s) \subseteq cand /\ Elems(s) \cap Elems(d) = {} /\ Elems(s) \cup Elems(d) = cand
    <2>1. Elems(s) \subseteq cand
      BY <1>8 DEF Elems
    <2>2. QED
      BY <1>2, <1>9, <2>1
  <1>12. /\ Elems(c) = cand
         /\ \A i, j \in 1..Len(c) : c[i] = c[j] => i = j
    <2>1. /\ Elems(s \o d) = Elems(s) \cup Elems(d)
          /\ \A i, j \in 1..Len(s \o d) : (s \o d)[i] = (s \o d)[j] => i = j
      BY <1>8, <1>9, <1>10, <1>11, ConcatOnce
    <2>2. QED
      BY <1>4, <1>11, <2>1
  <1>13. /\ c \in Seq(nodes) /\ Len(c) = Len(s) + Len(d) /\ Len(s) \in Nat /\ Len(d) \in Nat
         /\ \A i \in 1..Len(s) : c[i] = s[i]
         /\ \A i \in 1..Len(d) : c[Len(s) + i] = d[i]
    BY <1>4, <1>10, ConcatFacts
  <1>14. PICK step : step = Within(nodes, cand, after)
    OBVIOUS
  <1>15. /\ step \in [nodes -> SUBSET nodes]
         /\ \A n \in cand : step[n] = after[n] \cap cand
    BY <1>14 DEF Within
  <1>16. \A n \in rest : step[n] \cap rest # {}
    <2> SUFFICES ASSUME NEW n \in rest PROVE step[n] \cap rest # {}
      OBVIOUS
    <2>1. ~(after[n] \cap cand \subseteq Elems(s))
      BY <1>2, <1>7 DEF Opens
    <2>2. QED
      BY <1>2, <1>15, <2>1
  <1>17. rest \in SUBSET nodes
    BY <1>2
  <1>18. \A n \in rest : Cyclic(nodes, step, n)
    BY <1>15, <1>16, <1>17, StuckIsCyclic
  <1>19. ASSUME NEW n \in cand, NEW m \in step[n]
         PROVE  \/ \E i, j \in 1..Len(c) : i < j /\ c[i] = m /\ c[j] = n
                \/ Cyclic(nodes, step, m)
    <2>1. m \in cand /\ m \in after[n] \cap cand
      BY <1>15, <1>19
    <2>2. CASE n \in Elems(s)
      <3>1. PICK j \in 1..Len(s) : s[j] = n
        BY <2>2 DEF Elems
      <3>2. PICK i \in 1..Len(s) : i < j /\ s[i] = m
        BY <1>8, <2>1, <3>1
      <3>3. i \in 1..Len(c) /\ j \in 1..Len(c) /\ c[i] = m /\ c[j] = n
        BY <1>13, <3>1, <3>2
      <3>4. QED
        BY <3>2, <3>3
    <2>3. CASE n \in rest /\ m \in Elems(s)
      <3>1. PICK i \in 1..Len(s) : s[i] = m
        BY <2>3 DEF Elems
      <3>2. PICK j \in 1..Len(d) : d[j] = n
        BY <1>9, <2>3 DEF Elems
      <3>3. /\ i \in 1..Len(c) /\ Len(s) + j \in 1..Len(c) /\ i < Len(s) + j
        BY <1>13
      <3>4. c[i] = m /\ c[Len(s) + j] = n
        BY <1>13, <3>1, <3>2
      <3>5. QED
        BY <3>3, <3>4
    <2>4. CASE m \in rest
      BY <1>18, <2>4
    <2>5. QED
      BY <1>2, <2>1, <2>2, <2>3, <2>4
  <1>20. Compensates(nodes, cand, after, c)
    BY <1>12, <1>13, <1>14, <1>19 DEF Compensates
  <1>21. QED
    BY <1>5, <1>20
-----------------------------------------------------------------------------
(***************************************************************************)
(* The width of a wave.                                                    *)
(***************************************************************************)
\* Nodes with fewer than k smaller candidates: there are at most k of them.
LEMMA PrefixWidth ==
    ASSUME NEW S \in SUBSET Nat, IsFiniteSet(S), NEW T \in SUBSET S, NEW k \in Nat,
           \A n \in T : Cardinality({m \in S : m < n}) < k
    PROVE  Cardinality(T) <= k
  <1> DEFINE c == Cardinality(T)
  <1>1. IsFiniteSet(T) /\ c \in Nat /\ T \in SUBSET Nat
    BY FS_Subset, FS_CardinalityType
  <1>2. PICK t : Ascending(T, t)
    BY <1>1, AscendingExists
  <1>3. t \in [1..c -> T] /\ \A i, j \in 1..c : i < j => t[i] < t[j]
    BY <1>2 DEF Ascending
  <1>4. SUFFICES ASSUME c # 0 PROVE c <= k
    BY <1>1
  <1> HIDE DEF c
  <1>5. c \in 1..c
    BY <1>1, <1>4
  <1>6. PICK x : x = t[c]
    OBVIOUS
  <1>7. x \in T
    BY <1>3, <1>5, <1>6
  <1>8. ASSUME NEW i \in 1..c, NEW j \in 1..c, t[i] = t[j] PROVE i = j
    <2>1. t[i] \in T /\ t[j] \in T
      BY <1>3
    <2>2. t[i] \in Nat /\ t[j] \in Nat
      BY <1>1, <2>1, Zenon
    <2>3. i \in Nat /\ j \in Nat
      BY <1>1
    <2>4. ~(i < j) /\ ~(j < i)
      BY <1>3, <1>8, <2>2
    <2>5. QED
      BY <2>3, <2>4
  <1>9. {t[i] : i \in 1..c} = T
    BY <1>1, <1>3, <1>8, InjectionFills DEF c
  <1>10. \A m \in T : m # x => m < x
    <2> SUFFICES ASSUME NEW m \in T, m # x PROVE m < x
      OBVIOUS
    <2>1. PICK i \in 1..c : t[i] = m
      BY <1>9
    <2>2. i < c
      BY <1>1, <1>6, <2>1
    <2>3. QED
      BY <1>3, <1>5, <1>6, <2>1, <2>2
  <1>11. PICK L : L = {m \in S : m < x}
    OBVIOUS
  <1>12. L \in SUBSET S /\ T \ {x} \in SUBSET L
    BY <1>10, <1>11
  <1>13. IsFiniteSet(L) /\ Cardinality(L) \in Nat /\ Cardinality(T \ {x}) <= Cardinality(L)
    BY <1>12, FS_Subset, FS_CardinalityType
  <1>14. Cardinality(T \ {x}) = c - 1
    BY <1>1, <1>7, FS_RemoveElement DEF c
  <1>15. Cardinality(L) < k
    BY <1>7, <1>11
  <1>16. QED
    BY <1>1, <1>13, <1>14, <1>15

\* Waves without an empty one, none too wide, no node twice, and every node
\* behind the waves of its dependencies.
IsSchedule(nodes, deps, mp, s) ==
    /\ s \in Seq(SUBSET nodes)
    /\ \A i \in 1..Len(s) : s[i] # {} /\ Cardinality(s[i]) <= mp
    /\ \A i, j \in 1..Len(s) : s[i] \cap s[j] # {} => i = j
    /\ \A i \in 1..Len(s) : \A n \in s[i] : \A d \in deps[n] :
          \E j \in 1..Len(s) : j < i /\ d \in s[j]

LEMMA ScheduleNext ==
    ASSUME NEW nodes \in SUBSET Nat, IsFiniteSet(nodes), NEW deps, NEW mp \in Nat \ {0}, NEW s,
           IsSchedule(nodes, deps, mp, s), Startable(nodes, deps, s) # {},
           NEW x, x = FirstOf(Startable(nodes, deps, s), mp)
    PROVE  IsSchedule(nodes, deps, mp, Append(s, x))
  <1>1. /\ s \in Seq(SUBSET nodes)
        /\ \A i \in 1..Len(s) : s[i] # {} /\ Cardinality(s[i]) <= mp
        /\ \A i, j \in 1..Len(s) : s[i] \cap s[j] # {} => i = j
        /\ \A i \in 1..Len(s) : \A n \in s[i] : \A d \in deps[n] :
              \E j \in 1..Len(s) : j < i /\ d \in s[j]
    BY DEF IsSchedule
  <1>2. PICK R : R = Startable(nodes, deps, s)
    OBVIOUS
  <1>3. /\ R \in SUBSET nodes /\ R \in SUBSET Nat /\ R \cap Done(s) = {}
        /\ \A n \in R : deps[n] \subseteq Done(s)
    BY <1>2 DEF Startable
  <1>4. x \in SUBSET R /\ \A n \in x : Cardinality({m \in R : m < n}) < mp
    BY <1>2 DEF FirstOf
  <1>5. x \in SUBSET nodes /\ x # {}
    <2>1. Grows(nodes, s, x)
      BY <1>1, WaveGrows
    <2>2. QED
      BY <1>3, <1>4, <2>1 DEF Grows
  <1>6. Cardinality(x) <= mp
    <2>1. IsFiniteSet(R)
      BY <1>3, FS_Subset
    <2>2. QED
      BY <1>3, <1>4, <2>1, PrefixWidth
  <1>7. PICK t : t = Append(s, x)
    OBVIOUS
  <1>8. /\ Len(s) \in Nat /\ t \in Seq(SUBSET nodes) /\ Len(t) = Len(s) + 1 /\ t[Len(s) + 1] = x
        /\ \A i \in 1..Len(s) : t[i] = s[i]
    BY <1>1, <1>5, <1>7, AppendFacts
  <1>9. \A i \in 1..Len(t) : i \in 1..Len(s) \/ i = Len(s) + 1
    BY <1>8
  <1>10. \A i \in 1..Len(s) : s[i] \subseteq Done(s)
    BY DEF Done, Elems
  <1>11. \A i \in 1..Len(s) : s[i] \cap x = {}
    BY <1>3, <1>4, <1>10
  <1>12. \A i \in 1..Len(t) : t[i] # {} /\ Cardinality(t[i]) <= mp
    BY <1>1, <1>5, <1>6, <1>8, <1>9
  <1>13. ASSUME NEW i \in 1..Len(t), NEW j \in 1..Len(t), t[i] \cap t[j] # {} PROVE i = j
    <2>1. CASE i \in 1..Len(s) /\ j \in 1..Len(s)
      BY <1>1, <1>8, <1>13, <2>1
    <2>2. CASE i \in 1..Len(s) /\ j = Len(s) + 1
      <3>1. t[i] = s[i] /\ t[j] = x
        BY <1>8, <2>2
      <3>2. QED
        BY <1>11, <1>13, <2>2, <3>1
    <2>3. CASE i = Len(s) + 1 /\ j \in 1..Len(s)
      <3>1. t[j] = s[j] /\ t[i] = x
        BY <1>8, <2>3
      <3>2. QED
        BY <1>11, <1>13, <2>3, <3>1
    <2>4. QED
      BY <1>9, <2>1, <2>2, <2>3
  <1>14. ASSUME NEW i \in 1..Len(t), NEW n \in t[i], NEW d \in deps[n]
         PROVE  \E j \in 1..Len(t) : j < i /\ d \in t[j]
    <2>1. PICK j \in 1..Len(s) : j < i /\ d \in s[j]
      <3>1. CASE i \in 1..Len(s)
        BY <1>1, <1>8, <1>14, <3>1
      <3>2. CASE i = Len(s) + 1
        <4>1. n \in x /\ d \in Done(s)
          BY <1>3, <1>4, <1>8, <1>14, <3>2
        <4>2. PICK j \in 1..Len(s) : d \in s[j]
          BY <4>1 DEF Done, Elems
        <4>3. j < i
          BY <1>8, <3>2
        <4>4. QED
          BY <4>2, <4>3
      <3>3. QED
        BY <1>9, <3>1, <3>2
    <2>2. j \in 1..Len(t) /\ t[j] = s[j]
      BY <1>8
    <2>3. QED
      BY <2>1, <2>2
  <1>15. IsSchedule(nodes, deps, mp, t)
    BY <1>8, <1>12, <1>13, <1>14 DEF IsSchedule
  <1>16. QED
    BY <1>7, <1>15

(***************************************************************************)
(* The dry run announces a schedule that can be run: waves no wider than   *)
(* max_parallel_nodes, each node in one of them and behind all of its      *)
(* dependencies, and every node in some wave (compute_concurrency_plan).   *)
(***************************************************************************)
THEOREM PreviewIsSchedule ==
    ASSUME NEW nodes \in SUBSET Nat, IsFiniteSet(nodes),
           NEW deps \in [nodes -> SUBSET nodes], NEW mp \in Nat \ {0}, Acyclic(nodes, deps)
    PROVE  /\ IsSchedule(nodes, deps, mp, ConcurrencyPlan(nodes, deps, mp))
           /\ Done(ConcurrencyPlan(nodes, deps, mp)) = nodes
  <1> DEFINE N == Cardinality(nodes)
  <1>1. N \in Nat /\ N \in 0..N
    BY FS_CardinalityType
  <1>2. PICK w : IsWaves(w, nodes, deps, mp) /\ ConcurrencyPlan(nodes, deps, mp) = w[N]
    BY WaveStages
  <1>3. w[0] = <<>> /\ \A k \in 1..N : w[k] = NextWave(nodes, deps, mp, w[k - 1])
    BY <1>2 DEF IsWaves
  <1>4. IsSchedule(nodes, deps, mp, w[0])
    <2>1. <<>> \in Seq(SUBSET nodes) /\ Len(<<>>) = 0 /\ 1..0 = {}
      OBVIOUS
    <2>2. QED
      BY <1>3, <2>1 DEF IsSchedule
  <1> DEFINE B == {k \in 0..N : ~IsSchedule(nodes, deps, mp, w[k])}
  <1>5. B = {}
    <2> SUFFICES ASSUME B # {} PROVE FALSE
      OBVIOUS
    <2>1. B \in SUBSET Nat
      BY <1>1
    <2>2. PICK k \in B : \A j \in B : k <= j
      BY <2>1, LeastNat
    <2>3. k \in 1..N /\ k - 1 \in 0..N /\ k - 1 \notin B
      BY <1>1, <1>4, <2>2
    <2>4. PICK s : s = w[k - 1]
      OBVIOUS
    <2>5. IsSchedule(nodes, deps, mp, s) /\ w[k] = NextWave(nodes, deps, mp, s)
      BY <1>3, <2>3, <2>4
    <2>6. PICK x : x = FirstOf(Startable(nodes, deps, s), mp)
      OBVIOUS
    <2>7. CASE Startable(nodes, deps, s) = {}
      BY <2>2, <2>5, <2>7 DEF NextWave
    <2>8. CASE Startable(nodes, deps, s) # {}
      <3>1. w[k] = Append(s, x)
        BY <2>5, <2>6, <2>8 DEF NextWave
      <3>2. IsSchedule(nodes, deps, mp, Append(s, x))
        BY <2>5, <2>6, <2>8, ScheduleNext
      <3>3. QED
        BY <2>2, <3>1, <3>2
    <2>9. QED
      BY <2>7, <2>8
  <1>6. QED
    BY <1>1, <1>2, <1>5, PreviewPlacesEveryNode
=============================================================================
