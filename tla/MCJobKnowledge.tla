--------------------------- MODULE MCJobKnowledge ---------------------------
(* A definition that is edited and may be edited back.                       *)
EXTENDS JobKnowledge, TLC

CONSTANTS before, after

MCDefinitions == {before, after}
DefinitionSymmetry == Permutations(MCDefinitions)
=============================================================================
