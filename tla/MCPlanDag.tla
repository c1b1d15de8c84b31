----------------------------- MODULE MCPlanDag -----------------------------
(***************************************************************************)
(* Instances of PlanDag with three nodes.  Scope n is the synthetic        *)
(* plan/<id>/node/<n> of node n, scope 4 an owned file.                    *)
(***************************************************************************)
EXTENDS PlanDag

MCNodes == 1..3
MCScopes == 1..4

None == [n \in MCNodes |-> {}]

Plain(deps) ==
    [deps |-> deps, scopes |-> [n \in MCNodes |-> <<n>>], max |-> [n \in MCNodes |-> 1],
     failFast |-> {}, condition |-> {}, review |-> {}, rollback |-> {}, cascade |-> {},
     acceptance |-> [n \in MCNodes |-> "none"], fanIn |-> None,
     candidates |-> None, after |-> None]

\* 3 joins 1 and 2; 1 may be retried, 2 is fail-fast and can be rejected.
Join ==
    [Plain([None EXCEPT ![3] = {1, 2}]) EXCEPT
        !.max[1] = 2, !.failFast = {2}, !.acceptance[2] = "check", !.fanIn[3] = {1, 2}]

\* A review gate before 2; 3 is independent.
Gate == [Plain([None EXCEPT ![2] = {1}]) EXCEPT !.review = {1}]

\* A condition two steps above 3, which also waits for 2.
Conditional1 ==
    [Plain([None EXCEPT ![2] = {1}, ![3] = {2}]) EXCEPT !.condition = {1}]

\* Manual acceptance of 1 holds 2 back while 3 can abort the run.
Manual ==
    [Plain([None EXCEPT ![2] = {1}]) EXCEPT !.acceptance[1] = "manual", !.failFast = {3}]

\* 1 and 3 own file 4 and are never in one wave; 1 holds a second scope and retries.
SharedFile ==
    [Plain([None EXCEPT ![2] = {1}, ![3] = {1}]) EXCEPT
        !.scopes = <<(<<1, 4>>), (<<2>>), (<<4>>)>>, !.max[1] = 2]

\* 1 and 2 own file 4 and are in one wave.
Siblings == [Plain([None EXCEPT ![3] = {1, 2}]) EXCEPT !.scopes = <<(<<4>>), (<<4>>), (<<3>>)>>]

\* A failed 1 is compensated by 2 and 3, under some :rollback-after edges.
Cascade(deps, after) ==
    [Plain(deps) EXCEPT !.rollback = {1}, !.cascade = {1}, !.candidates[1] = {2, 3},
                        !.after = after]

Forward == [None EXCEPT ![2] = {1}, ![3] = {1}]
Backward == [None EXCEPT ![2] = {1, 3}, ![3] = {1}]
Cascades ==
    {Cascade(None, [None EXCEPT ![2] = {3}]), Cascade(Forward, [None EXCEPT ![2] = {3}, ![3] = {3}]),
     Cascade(Backward, [None EXCEPT ![2] = {3}, ![3] = {2}])}

AllPlans == {Join, Gate, Conditional1, Manual, SharedFile, Siblings} \cup Cascades
SiblingPlans == {Siblings}
=============================================================================
