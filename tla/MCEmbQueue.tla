------------------------------ MODULE MCEmbQueue -----------------------------
(* Instances of EmbQueue for TLC: a ring of three slots, so that it fills, *)
(* wraps and drains, holding one of two elements per slot.                 *)
EXTENDS EmbQueue

MCQueueSize == 3
MCElements  == {0, 1}
MCZero      == 0
BothModels  == {"SC", "TSO"}
OnlyTSO     == {"TSO"}
=============================================================================
