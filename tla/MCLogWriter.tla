---------------------------- MODULE MCLogWriter ----------------------------
(* Small instances of LogWriter for TLC.                                   *)
EXTENDS LogWriter, TLC

CONSTANTS k1

Plain == [key |-> NoKey, large |-> FALSE, ephemeral |-> FALSE,
          depth |-> 0, named |-> TRUE]

\* Requests that reach the channel: small with a key, large without one.
SendableRequests == {[Plain EXCEPT !.key = k1], [Plain EXCEPT !.large = TRUE]}

\* One request per early return of append(), and one at the depth limit.
EdgeRequests ==
    {[Plain EXCEPT !.ephemeral = TRUE],
     [Plain EXCEPT !.named = FALSE],
     [Plain EXCEPT !.depth = MaxCausationDepth + 1],
     [Plain EXCEPT !.depth = MaxCausationDepth, !.key = k1],
     [Plain EXCEPT !.large = TRUE, !.key = k1]}

CallSymmetry == Permutations(Appends)
=============================================================================
