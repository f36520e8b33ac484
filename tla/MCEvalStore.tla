---------------------------- MODULE MCEvalStore ----------------------------
(***************************************************************************)
(* Instances of EvalStore for TLC: a base revision and one derived from it *)
(* by a change of params, so that they share the structure document; one   *)
(* binding set that evaluates and one that breaks a stage.                 *)
(***************************************************************************)
EXTENDS EvalStore, TLC

CONSTANTS base, derived, good, bad

MCStructureOf == [r \in Revs |-> "structure"]

MCParamsOf == [r \in Revs |-> r]

MCParentOf == [r \in Revs |-> IF r = derived THEN base ELSE None]

MCFate == [b \in Binds |-> IF b = good THEN "ok" ELSE "model_error"]

Symmetry == Permutations(Evaluators) \union Permutations(Dirs) \union Permutations(Envs)
=============================================================================
