--------------------------- MODULE MCControlTree ---------------------------
(* Small instances of ControlTree for TLC.                                 *)
EXTENDS ControlTree, TLC

CONSTANTS Memory, Gemini, Extractor

ExtractorDeps == [w \in Workers |-> {Memory, Gemini} \cap (Domains \cup Providers)]
=============================================================================
