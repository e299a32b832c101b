---------------------------- MODULE MCSubstrate ----------------------------
(***************************************************************************)
(* Instances of Substrate for TLC: which calls the clients make.           *)
(***************************************************************************)
EXTENDS Substrate, TLC

Move(j, to, human, expected) ==
    [op |-> "transition", obj |-> j, to |-> to, human |-> human,
     expected |-> expected,
     args |-> IF to = "assigned"
              THEN ClaimArgs(CHOOSE w \in Worker : TRUE) ELSE NoArgs]

StudyMove(s, to, human) ==
    [op |-> "study_transition", obj |-> s, to |-> to, human |-> human,
     expected |-> AnyState]

Creations ==
    {[op |-> "create_job", obj |-> j, attempt |-> 1, max |-> 2] : j \in Job}
      \cup {[op |-> "create_study", obj |-> s] : s \in Study}

\* The life of a job up to its outcome, with expected_state and without, and
\* the first steps of its study.
WorkCalls ==
    Creations
      \cup {Move(j, to, FALSE, e) : j \in Job, e \in {AnyState, "assigned"},
             to \in {"approved", "queued", "assigned", "running", "failed"}}
      \cup {Move(j, "cancelled", TRUE, AnyState) : j \in Job}
      \cup {StudyMove(s, to, to # "proposed") :
             s \in Study, to \in {"proposed", "aborted"}}
      \cup {[op |-> "emit_event", obj |-> o] : o \in Study}

Symmetry == Permutations(Client)
=============================================================================
