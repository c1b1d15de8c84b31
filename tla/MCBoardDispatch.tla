-------------------------- MODULE MCBoardDispatch --------------------------
(***************************************************************************)
(* Two tasks that compete for one slot, or for two.                        *)
(***************************************************************************)
EXTENDS BoardDispatch

CONSTANTS t1, t2, s1, s2

MCTasks == {t1, t2}
MCSlots == {s1, s2}
OneSlot == {s1}
=============================================================================
