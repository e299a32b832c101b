----------------------------- MODULE MCHandlers -----------------------------
(***************************************************************************)
(* Instances of Handlers for TLC: one case, runs that pass, that miss the  *)
(* fuel burn of the reference, that did not converge, or that failed.      *)
(***************************************************************************)
EXTENDS Handlers, TLC

MCCase    == {"c1"}
MCRunRef  == [of : MCCase, attempt : 1..MaxAttempts]
MCVerdict == [run : MCRunRef \cup {NoRun}, level : Level]

MCAccepting == {v \in MCVerdict : v.level = "pass"}
MCUnfounded == {[run |-> NoRun, level |-> "error"]}

MCResult ==
    {[outcome |-> "ok", found |-> Finding],
     [outcome |-> "ok", found |-> Finding \ {"fuel_close"}],
     [outcome |-> "transient", found |-> {}]}

MCWanted == [parity |-> "advisory", fences |-> TRUE, range |-> TRUE]

\* The workers are interchangeable.
Symmetry == Permutations(Worker)
=============================================================================
