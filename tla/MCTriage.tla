------------------------------ MODULE MCTriage ------------------------------
(***************************************************************************)
(* Instances of Triage for TLC.                                            *)
(***************************************************************************)
EXTENDS Triage, TLC

\* The loops are interchangeable.
Symmetry == Permutations(Loop)

\* As an ACTION_CONSTRAINT it makes PromptSpec of Spec.
PromptStep == Prompt'
=============================================================================
