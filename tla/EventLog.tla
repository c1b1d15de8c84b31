------------------------------ MODULE EventLog ------------------------------
(***************************************************************************)
(* The event_log table as its readers see it: which seqs are stored, which *)
(* the BIGSERIAL sequence has handed out, and which belong to transactions *)
(* whose COMMIT was sent but not answered.  LogWriter implements this      *)
(* specification; Dispatcher and Subscription read the table it describes. *)
(***************************************************************************)
EXTENDS Naturals

CONSTANT BatchMax     \* rows per transaction (BATCH_MAX)

VARIABLES
    stored,           \* seqs of the committed rows
    lastSeq,          \* last value handed out by the sequence
    inDoubt           \* seqs of each transaction left in doubt

logVars == <<stored, lastSeq, inDoubt>>

LogInit ==
    /\ stored = {}
    /\ lastSeq = 0
    /\ inDoubt = {}

\* The seqs of a transaction of n rows.
Txn(n) == (lastSeq + 1) .. (lastSeq + n)

Commits(n) ==
    /\ stored' = stored \cup Txn(n)
    /\ lastSeq' = lastSeq + n
    /\ UNCHANGED inDoubt

\* An aborted transaction does not give its seqs back.
RollsBack(n) ==
    /\ lastSeq' = lastSeq + n
    /\ UNCHANGED <<stored, inDoubt>>

LeftInDoubt(n) ==
    /\ inDoubt' = inDoubt \cup {Txn(n)}
    /\ lastSeq' = lastSeq + n
    /\ UNCHANGED stored

Lands(t) ==
    /\ t \in inDoubt
    /\ stored' = stored \cup t
    /\ inDoubt' = inDoubt \ {t}
    /\ UNCHANGED lastSeq

Vanishes(t) ==
    /\ t \in inDoubt
    /\ inDoubt' = inDoubt \ {t}
    /\ UNCHANGED <<stored, lastSeq>>

LogNext ==
    \/ \E n \in 1..BatchMax : Commits(n) \/ RollsBack(n) \/ LeftInDoubt(n)
    \/ \E t \in inDoubt : Lands(t) \/ Vanishes(t)

LogSpec == LogInit /\ [][LogNext]_logVars
=============================================================================
