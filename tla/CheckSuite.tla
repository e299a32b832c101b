----------------------------- MODULE CheckSuite -----------------------------
(***************************************************************************)
(* The verdict on a run: RangeSafetyCheckSuite of checks.py, as operators. *)
(* A run is known by what is found true of it: that range-safety calls it  *)
(* converged, which outputs can be read from it, and which comparisons of  *)
(* them with reference and fences turn out well.                           *)
(***************************************************************************)
EXTENDS TLAPS

Finding ==
    {"converged", "mtow", "fuel", "battery",    \* the outputs it has
     "mtow_close", "fuel_close",                \* to the reference
     "mtow_fence", "fuel_nonneg", "battery_lt_mtow", "mileage"}

\* What is asked of a case: parity with the reference table, where its cell
\* is missing or has one of three ways to look at fuel; the plausibility
\* suite; and whether the case says over which range its mileage counts.
Acceptance ==
    [parity : {"off", "none", "strict", "advisory", "skip"},
     fences : BOOLEAN, range : BOOLEAN]

Level == {"pass", "warn", "fail", "error"}

\* Mutant: the best level wins.
FoldBest(levels) ==
    IF "pass" \in levels THEN "pass"
    ELSE IF "warn" \in levels THEN "warn"
    ELSE IF "fail" \in levels THEN "fail" ELSE "error"

\* fold: worst first, and "pass" when there is nothing to fold.
Fold(levels) ==
    IF "error" \in levels THEN "error"
    ELSE IF "fail" \in levels THEN "fail"
    ELSE IF "warn" \in levels THEN "warn" ELSE "pass"

Unless(holds, level) == IF holds THEN "pass" ELSE level

\* is_parity: a missing weight is an error, a missing fuel burn a warning.
Parity(run, cell) ==
    {IF "mtow" \in run THEN Unless("mtow_close" \in run, "fail") ELSE "error",
     IF cell = "skip" THEN "pass"
     ELSE Unless({"fuel", "fuel_close"} \subseteq run,
                 IF cell = "strict" /\ "fuel" \in run THEN "fail" ELSE "warn")}

\* plausibility_raymer_breguet_v1: a fence only where the outputs exist.
Fences(run, range) ==
    {Unless("mtow_fence" \in run, "fail") : x \in {"mtow"} \cap run}
      \cup {Unless("fuel_nonneg" \in run, "fail") : x \in {"fuel"} \cap run}
      \cup {Unless("battery_lt_mtow" \in run, "fail") :
               x \in IF "mtow" \in run THEN {"battery"} \cap run ELSE {}}
      \cup {Unless("mileage" \in run, "fail") :
               x \in IF range THEN {"fuel"} \cap run ELSE {}}

\* RangeSafetyCheckSuite.run on a run that exists: parity and fences only
\* where it converged.  assert_convergence shows a run that did not by at
\* least one check that did not pass.
LevelOf(run, acceptance) ==
    Fold({Unless("converged" \in run, "fail")}
           \cup (IF "converged" \notin run \/ acceptance.parity = "off" THEN {}
                 ELSE IF acceptance.parity = "none" THEN {"warn"}
                      ELSE Parity(run, acceptance.parity))
           \cup (IF "converged" \in run /\ acceptance.fences
                 THEN Fences(run, acceptance.range) ELSE {}))

\* What a run must be for the level "pass", said without the suite: outputs
\* that parity compares must be there, outputs that only the fences look at
\* need not.
Sound(run, acceptance) ==
    /\ "converged" \in run
    /\ acceptance.parity # "off" =>
         /\ acceptance.parity # "none"
         /\ {"mtow", "mtow_close"} \subseteq run
         /\ acceptance.parity # "skip" => {"fuel", "fuel_close"} \subseteq run
    /\ acceptance.fences =>
         /\ "mtow" \in run => "mtow_fence" \in run
         /\ "fuel" \in run => "fuel_nonneg" \in run
         /\ {"mtow", "battery"} \subseteq run => "battery_lt_mtow" \in run
         /\ "fuel" \in run /\ acceptance.range => "mileage" \in run

(***************************************************************************)
(* A run passes exactly when it is sound: whatever is asked of a case, no  *)
(* check that went wrong is folded away, and none fails a sound run.       *)
(***************************************************************************)
THEOREM PassMeansSound ==
    ASSUME NEW run \in SUBSET Finding, NEW acceptance \in Acceptance
    PROVE  LevelOf(run, acceptance) = "pass" <=> Sound(run, acceptance)
<1> DEFINE levels ==
      {Unless("converged" \in run, "fail")}
         \cup (IF "converged" \notin run \/ acceptance.parity = "off" THEN {}
               ELSE IF acceptance.parity = "none" THEN {"warn"}
                    ELSE Parity(run, acceptance.parity))
         \cup (IF "converged" \in run /\ acceptance.fences
               THEN Fences(run, acceptance.range) ELSE {})
<1>1. LevelOf(run, acceptance) = Fold(levels)
  BY DEF LevelOf
<1>2. Fold(levels) = "pass" <=> levels \cap {"error", "fail", "warn"} = {}
  <2> HIDE DEF levels
  <2> QED BY DEF Fold
<1>3. levels \cap {"error", "fail", "warn"} = {} <=> Sound(run, acceptance)
  <2>1. CASE "converged" \notin run
    BY <2>1 DEF Unless, Sound
  <2>2. CASE "converged" \in run
    <3>1. Fences(run, acceptance.range) \cap {"error", "fail", "warn"} = {} <=>
            /\ "mtow" \in run => "mtow_fence" \in run
            /\ "fuel" \in run => "fuel_nonneg" \in run
            /\ {"mtow", "battery"} \subseteq run => "battery_lt_mtow" \in run
            /\ "fuel" \in run /\ acceptance.range => "mileage" \in run
      BY DEF Fences, Unless, Acceptance
    <3>2. acceptance.parity \in {"strict", "advisory", "skip"} =>
            (Parity(run, acceptance.parity) \cap {"error", "fail", "warn"} = {} <=>
               /\ {"mtow", "mtow_close"} \subseteq run
               /\ acceptance.parity # "skip" => {"fuel", "fuel_close"} \subseteq run)
      BY DEF Parity, Unless
    <3>3. acceptance.parity \in {"off", "none", "strict", "advisory", "skip"}
      BY DEF Acceptance
    <3> QED BY <2>2, <3>1, <3>2, <3>3 DEF Unless, Sound
  <2> QED BY <2>1, <2>2
<1> QED BY <1>1, <1>2, <1>3
=============================================================================
