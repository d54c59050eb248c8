-------------------------- MODULE MCKsmValidation --------------------------
(* KsmValidation with the two children of the code. *)
EXTENDS KsmValidation

BothScenarios == {"positive", "inefficient"}
PositiveOnly == {"positive"}
============================================================================
