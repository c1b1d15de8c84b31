---------------------------- MODULE MCDispatcher ----------------------------
(* Small instances of Dispatcher for TLC.                                  *)
EXTENDS Dispatcher

CONSTANTS Board, Slot

\* A row the gate may stop, one that does not decode, one with a bad label.
MixedRows == {[domain |-> Board, decodes |-> TRUE],
              [domain |-> Slot, decodes |-> FALSE],
              [domain |-> UnknownLabel, decodes |-> TRUE]}
=============================================================================
