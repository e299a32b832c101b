---------------------------- MODULE StudyMachine ----------------------------
(***************************************************************************)
(* The study state machine of have_agent/substrate.py: statuses, legal     *)
(* transitions, and which of them only a human makes.                      *)
(***************************************************************************)

StudyNonTerminal == {"draft", "proposed", "approved", "running", "review"}

StudyStatus == StudyNonTerminal \cup {"closed", "aborted"}

StudyTransition ==
    { <<"draft", "proposed">>,   <<"proposed", "approved">>,
      <<"approved", "running">>, <<"running", "review">>,
      <<"review", "closed">> }
    \cup (StudyNonTerminal \X {"aborted"})

StudyHumanRequired ==
    {<<"proposed", "approved">>, <<"review", "closed">>}
      \cup (StudyNonTerminal \X {"aborted"})

\* _check_study_actor: a human exactly where a human is required.
StudyActorMay(human, from, to) == human <=> <<from, to>> \in StudyHumanRequired
=============================================================================
