--------------------------- MODULE ControlProofs ---------------------------
(***************************************************************************)
(* Theorems about Control, for any number of cases, control loops,         *)
(* attempts and upsets, for a study from its submission on and for one     *)
(* whose submission went through.                                          *)
(***************************************************************************)
EXTENDS Control, JobMachineProofs

MaxOf(j) == IF j.kind = "REPORT" THEN ReportAttempts ELSE MaxAttempts

SameLine(i, j) == i.kind = j.kind /\ i.of = j.of

(***************************************************************************)
(* The tables: the jobs of a line of retries, their bounds, and what       *)
(* depends on what.  Only the planned CHECKs and the planned REPORT have   *)
(* dependencies.                                                           *)
(***************************************************************************)
RowsOK ==
    /\ DOMAIN job \subseteq Job /\ job \in [DOMAIN job -> JobRow]
    /\ \A j \in DOMAIN job :
          /\ job[j].max = MaxOf(j)
          /\ j.try <= job[j].attempt
          /\ [j EXCEPT !.try = 1] \in DOMAIN job

\* Of a line, only the last job is not yet replaced.
LinesOK ==
    \A i, j \in DOMAIN job :
        SameLine(i, j) /\ i.try < j.try
          => job[i].state = "retry_spawned" /\ job[i].attempt < j.try

DepsOK ==
    \A e \in dep :
        /\ e = <<e[1], e[2]>>
        /\ e[1] \in DOMAIN job /\ e[2] \in DOMAIN job
        /\ e[1].try = 1
        /\ \/ e[1] \in Checks /\ e[2] \in Analyses /\ e[1].of = e[2].of
           \/ e[1] \in Reports /\ e[2] \in Checks
        /\ e[1] \in Checks => \A f \in dep : f[1] = e[1] => f = e

TablesOK == RowsOK /\ LinesOK /\ DepsOK

LoopsOK ==
    /\ at \in [Loop -> {"idle", "gates", "gate", "accept", "run", "review"}]
    /\ rows \in [Loop -> SUBSET (Checks \cap DOMAIN job)]
    /\ hand \in [Loop -> Checks \cup {NoCheck}]
    /\ \A p \in Loop : IF at[p] \in {"gate", "accept"} THEN hand[p] \in rows[p]
                                                      ELSE hand[p] = NoCheck

PeopleOK ==
    /\ study \in StudyStatus /\ drafting \in BOOLEAN
    /\ permanent \subseteq DOMAIN job /\ byHuman \subseteq DOMAIN job
    /\ cmd \in {"none", "approve", "approving", "abort", "aborting"}
    /\ \A r \in todo : Present(r.id)
    /\ upsets \in 0..MaxUpsets

TypeInv == TablesOK /\ LoopsOK /\ PeopleOK
-----------------------------------------------------------------------------
(***************************************************************************)
(* What a step does to the job table and to the dependencies: nothing, one *)
(* transition, a planned job, or a retry.                                  *)
(***************************************************************************)
Moves(j) ==
    /\ j \in DOMAIN job
    /\ DOMAIN job' = DOMAIN job /\ job' \in [DOMAIN job -> JobRow]
    /\ \A i \in DOMAIN job : i # j => job'[i] = job[i]
    /\ <<job[j].state, job'[j].state>> \in JobTransition
    /\ job'[j].max = job[j].max /\ job[j].attempt <= job'[j].attempt
    /\ job'[j].attempt = AttemptAfter(job[j], job'[j].state)
    /\ job[j].verdict # NoVerdict => job'[j].verdict # NoVerdict
    /\ dep' = dep

\* Who moved it, where that matters: a success is accepted or put before a
\* human by a gate, and a check by the loop that has it in hand.  Nobody but
\* triage replaces a job, a CHECK ends with a verdict, and what goes back to the
\* queue has an attempt left or is one of the upsets.
Decides(j) ==
    /\ byHuman' = byHuman \cup {j}
    /\ job'[j].state \in {"accepted", "rejected"}
    /\ job'[j].verdict = job[j].verdict

Gates(p, j) ==
    LET k == hand[p] IN
    /\ at[p] = "gate" /\ j \in Upstream(k)
    /\ job[j].state = "succeeded"
    /\ job'[j].state = IF job[k].verdict \in Accepting THEN "accepted" ELSE "review"
    /\ job[k].verdict # NoVerdict => job'[j].verdict = job[k].verdict
    /\ byHuman' = byHuman

Accepts(p, j) ==
    /\ at[p] = "accept" /\ hand[p] = j /\ job[j].state = "succeeded"
    /\ job'[j].state = "accepted" /\ job'[j].verdict = job[j].verdict
    /\ byHuman' = byHuman

Cause(j) ==
    /\ job'[j].state = "assigned" => \A u \in Upstream(j) : Satisfied(j, u)
    /\ job'[j].state # "retry_spawned"
    /\ job'[j].state = "succeeded" /\ j.kind = "CHECK"
         => job'[j].verdict # NoVerdict
    /\ job'[j].state = "queued" =>
          \/ job[j].state = "approved"
          \/ job[j].state \in Leased /\ job[j].attempt < job[j].max
          \/ job[j].state = "escalated" /\ upsets' = upsets + 1
    /\ \/ job[j].state \notin {"succeeded", "review"} /\ byHuman' = byHuman
       \/ j.kind = "REPORT" /\ byHuman' = byHuman
       \/ Decides(j)
       \/ \E p \in Loop : Gates(p, j) \/ Accepts(p, j)

Plans(j) ==
    /\ drafting /\ j \in Plan /\ j \notin DOMAIN job
    /\ \A c \in Case : j = CheckOf(c) => Present(AnalysisOf(c))
    /\ \A c \in Case : j = Report => Present(CheckOf(c))
    /\ job' = Inserted(job, j, NewJob(1, MaxOf(j)))
    /\ \E new :
          /\ dep' = dep \cup new
          /\ \A e \in new :
                /\ e = <<e[1], e[2]>> /\ e[1] = j /\ e[2] \in DOMAIN job
                /\ \/ j \in Checks /\ e[2] \in Analyses /\ e[2].of = j.of
                   \/ j \in Reports /\ e[2] \in Checks
                /\ j \in Checks => \A f \in new : f = e
    /\ byHuman' = byHuman

RetryOf(j) == [j EXCEPT !.try = job[j].attempt + 1]

Retries(j) ==
    /\ j \in DOMAIN job /\ job[j].state = "triage"
    /\ job[j].attempt < job[j].max
    /\ RetryOf(j) \in Job \ DOMAIN job
    /\ DOMAIN job' = DOMAIN job \cup {RetryOf(j)}
    /\ job' \in [DOMAIN job' -> JobRow]
    /\ \A i \in DOMAIN job : i # j => job'[i] = job[i]
    /\ job'[j].state = "retry_spawned"
    /\ job'[j].attempt = job[j].attempt /\ job'[j].max = job[j].max
    /\ job'[RetryOf(j)].state \in {"proposed", "approved"}
    /\ job'[RetryOf(j)].attempt = job[j].attempt + 1
    /\ job'[RetryOf(j)].max = job[j].max
    /\ dep' = {<<e[1], IF e[2] = j THEN RetryOf(j) ELSE e[2]>> : e \in dep}
    /\ byHuman' = byHuman

TableStep ==
    \/ UNCHANGED <<job, dep, byHuman>>
    \/ \E j : Moves(j) /\ Cause(j)
    \/ \E j : Plans(j)
    \/ \E j : Retries(j)

\* A transition() of one job.
LEMMA MoveEffect ==
    ASSUME job \in [DOMAIN job -> JobRow], dep' = dep,
           NEW j, NEW to, NEW human, NEW expected, NEW args \in MoveArgs,
           Move(j, to, human, expected, args)
    PROVE  /\ Moves(j) /\ job'[j].state = to
           /\ expected \in {AnyState, job[j].state}
           /\ job'[j].verdict = IF args.verdict = NoVerdict
                                THEN job[j].verdict ELSE args.verdict
<1>1. /\ j \in DOMAIN job
      /\ job' = [job EXCEPT ![j] = Moved(job[j], to, args)]
      /\ CanMove(job[j], to, human, expected, args)
  BY DEF Move, Present
<1>2. job[j] \in JobRow
  BY <1>1
<1>3. Moved(job[j], to, args) \in JobRow
  BY <1>1, <1>2, MovedIsRow
<1>4. /\ Moved(job[j], to, args).state = to
      /\ Moved(job[j], to, args).max = job[j].max
      /\ Moved(job[j], to, args).verdict = IF args.verdict = NoVerdict
                                THEN job[j].verdict ELSE args.verdict
      /\ job[j].attempt <= Moved(job[j], to, args).attempt
      /\ Moved(job[j], to, args).attempt = AttemptAfter(job[j], to)
  BY <1>2 DEF Moved, AttemptAfter, JobRow
<1>6. job[j].verdict # NoVerdict => Moved(job[j], to, args).verdict # NoVerdict
  BY <1>4
<1>5. /\ <<job[j].state, to>> \in JobTransition
      /\ expected \in {AnyState, job[j].state}
  BY <1>1 DEF CanMove
<1> HIDE DEF Moved
<1> QED BY <1>1, <1>3, <1>4, <1>5, <1>6 DEF Moves

LEMMA ArgsAreArgs ==
    /\ NoArgs \in MoveArgs
    /\ \A w \in Worker : ClaimArgs(w) \in MoveArgs
    /\ \A v \in Verdict \cup {NoVerdict}, run \in RunRef \cup {NoRun} :
          /\ [NoArgs EXCEPT !.verdict = v, !.run = run] \in MoveArgs
          /\ [NoArgs EXCEPT !.verdict = v, !.run = run].verdict = v
    /\ \A v \in Verdict \cup {NoVerdict} :
          /\ [NoArgs EXCEPT !.verdict = v] \in MoveArgs
          /\ [NoArgs EXCEPT !.verdict = v].verdict = v
    /\ \A run \in RunRef \cup {NoRun} : [NoArgs EXCEPT !.run = run] \in MoveArgs
BY DEF NoArgs, ClaimArgs, MoveArgs

\* The moves of a worker, of the loop in one statement, and of humans.
LEMMA JobStepIsTableStep ==
    ASSUME TypeInv, NEW j \in DOMAIN job, JobStep(j), ~RunTriage(j)
    PROVE  Moves(j) /\ Cause(j)
<1>1. job \in [DOMAIN job -> JobRow]
  BY DEF TypeInv, TablesOK, RowsOK
<1>2. ASSUME Claim(j) PROVE Moves(j) /\ Cause(j)
  <2>1. PICK w \in Worker : Move(j, "assigned", FALSE, "queued", ClaimArgs(w))
    BY <1>2 DEF Claim
  <2>2. /\ Moves(j) /\ job'[j].state = "assigned"
        /\ "queued" \in {AnyState, job[j].state}
    BY <1>1, <1>2, <2>1, MoveEffect, ArgsAreArgs DEF Claim
  <2>3. job[j].state = "queued"
    BY <2>2, NullsAssumption DEF JobState, PreRunning
  <2> QED BY <1>2, <2>2, <2>3 DEF Claim, Cause
<1>3. ASSUME Start(j) \/ Enqueue(j) \/ SpawnTriage(j)
      PROVE  Moves(j) /\ Cause(j)
  <2>1. PICK from, to :
           /\ Move(j, to, FALSE, from, NoArgs)
           /\ \/ from = "assigned" /\ to = "running"
              \/ from = "approved" /\ to = "queued"
              \/ from = "failed" /\ to = "triage"
    BY <1>3 DEF Start, Enqueue, SpawnTriage
  <2>2. dep' = dep /\ byHuman' = byHuman
    BY <1>3 DEF Start, Enqueue, SpawnTriage
  <2>3. /\ Moves(j) /\ job'[j].state = to /\ from \in {AnyState, job[j].state}
    BY <1>1, <2>1, <2>2, MoveEffect, ArgsAreArgs
  <2>4. job[j].state = from
    BY <2>1, <2>3, NullsAssumption DEF JobState, PreRunning
  <2> QED BY <2>1, <2>2, <2>3, <2>4 DEF Cause
<1>4. ASSUME Succeed(j) PROVE Moves(j) /\ Cause(j)
  <2>1. PICK verdict \in PossibleVerdicts(j), run \in RunRef \cup {NoRun} :
           Move(j, "succeeded", FALSE, "running",
                [NoArgs EXCEPT !.verdict = verdict, !.run = run])
    BY <1>4 DEF Succeed
  <2>2. /\ verdict \in Verdict \cup {NoVerdict}
        /\ j.kind = "CHECK" => verdict # NoVerdict
    BY ControlAssumption, NullsAssumption DEF PossibleVerdicts
  <2> DEFINE args == [NoArgs EXCEPT !.verdict = verdict, !.run = run]
  <2>5. args \in MoveArgs /\ args.verdict = verdict
    BY <2>2, ArgsAreArgs
  <2>6. Move(j, "succeeded", FALSE, "running", args) /\ dep' = dep
    BY <1>4, <2>1 DEF Succeed
  <2> HIDE DEF args
  <2>3. /\ Moves(j) /\ job'[j].state = "succeeded"
        /\ "running" \in {AnyState, job[j].state}
        /\ job'[j].verdict = IF verdict = NoVerdict THEN job[j].verdict ELSE verdict
    BY <1>1, <2>5, <2>6, MoveEffect
  <2>4. job[j].state = "running"
    BY <2>3, NullsAssumption DEF JobState
  <2> QED BY <1>4, <2>2, <2>3, <2>4 DEF Cause, Succeed
<1>5. ASSUME Fail(j) PROVE Moves(j) /\ Cause(j)
  <2>1. PICK run \in RunRef \cup {NoRun} :
           Move(j, "failed", FALSE, "running", [NoArgs EXCEPT !.run = run])
    BY <1>5 DEF Fail
  <2>2. Moves(j) /\ job'[j].state = "failed"
        /\ "running" \in {AnyState, job[j].state}
    BY <1>1, <1>5, <2>1, MoveEffect, ArgsAreArgs DEF Fail
  <2>3. job[j].state = "running"
    BY <2>2, NullsAssumption DEF JobState
  <2> QED BY <1>5, <2>2, <2>3 DEF Cause, Fail
<1>6. ASSUME AutoAcceptReport(j) PROVE Moves(j) /\ Cause(j)
  <2>1. Moves(j) /\ job'[j].state = "accepted"
    BY <1>1, <1>6, MoveEffect, ArgsAreArgs DEF AutoAcceptReport
  <2> QED BY <1>6, <2>1 DEF Cause, AutoAcceptReport
<1>7. ASSUME CancelDead(j) PROVE Moves(j) /\ Cause(j)
  <2>1. Moves(j) /\ job'[j].state = "cancelled"
    BY <1>1, <1>7, MoveEffect, ArgsAreArgs DEF CancelDead
  <2> QED BY <1>7, <2>1 DEF Cause, CancelDead
<1> QED BY <1>2, <1>3, <1>4, <1>5, <1>6, <1>7 DEF JobStep

\* A retry has a name nobody has: the last of its line is the one in triage.
LEMMA RetryIsNew ==
    ASSUME TypeInv, NEW j \in DOMAIN job, job[j].state = "triage",
           job[j].attempt < job[j].max
    PROVE  RetryOf(j) \in Job \ DOMAIN job
<1> DEFINE r == RetryOf(j)
<1>1. /\ j \in Job /\ job[j] \in JobRow /\ job[j].max = MaxOf(j)
      /\ j.try <= job[j].attempt
  BY DEF TypeInv, TablesOK, RowsOK
<1>2. job[j].attempt + 1 \in 1..MaxOf(j) /\ MaxOf(j) \in Nat
  BY <1>1, ControlAssumption DEF JobRow, MaxOf
<1>3. r \in Job
  BY <1>1, <1>2 DEF RetryOf, Job, Analyses, Checks, Reports, MaxOf
<1>4. SameLine(j, r) /\ j.try < r.try
  BY <1>1, <1>2, <1>3
     DEF RetryOf, SameLine, Job, Analyses, Checks, Reports, JobRow
<1> HIDE DEF r
<1>5. r \notin DOMAIN job
  BY <1>4 DEF TypeInv, TablesOK, LinesOK
<1> QED BY <1>3, <1>5 DEF r

LEMMA RetryIsTableStep ==
    ASSUME TypeInv, NEW j \in DOMAIN job, job[j].state = "triage",
           job[j].attempt < job[j].max, Retry(j), byHuman' = byHuman
    PROVE  Retries(j)
<1> DEFINE r == RetryOf(j)
           fresh == NewJob(job[j].attempt + 1, job[j].max)
           row == IF job[j].attempt <= AutoRetryMax
                  THEN Moved(fresh, "approved", NoArgs) ELSE fresh
           left == Moved(job[j], "retry_spawned", NoArgs)
           done == [job EXCEPT ![j] = left]
<1>1. r \in Job \ DOMAIN job
  BY RetryIsNew
<1>2. /\ job \in [DOMAIN job -> JobRow] /\ job[j] \in JobRow
  BY DEF TypeInv, TablesOK, RowsOK
<1>3. fresh \in JobRow
  BY <1>2, NewJobIsRow DEF JobRow
<1>4. CanMove(fresh, "approved", FALSE, AnyState, NoArgs)
  BY DEF CanMove, NewJob, JobTransition, JobActorMay, JobHumanOrMachine
<1>5. /\ row \in JobRow
      /\ row.state \in {"proposed", "approved"}
      /\ row.attempt = job[j].attempt + 1 /\ row.max = job[j].max
  <2>1. Moved(fresh, "approved", NoArgs) \in JobRow
    BY <1>3, <1>4, MovedIsRow, ArgsAreArgs
  <2> QED BY <1>3, <2>1 DEF Moved, NewJob, AttemptAfter, LeaseExpiry, Leased
<1>6. CanMove(job[j], "retry_spawned", FALSE, AnyState, NoArgs)
  BY DEF CanMove, JobTransition, JobActorMay, JobHumanRequired
<1>7. left \in JobRow
  BY <1>2, <1>6, MovedIsRow, ArgsAreArgs
<1>8. /\ left.state = "retry_spawned"
      /\ left.attempt = job[j].attempt /\ left.max = job[j].max
  BY DEF Moved, AttemptAfter, LeaseExpiry
<1>9. /\ job' = Inserted(done, r, row)
      /\ dep' = {<<e[1], IF e[2] = j THEN r ELSE e[2]>> : e \in dep}
  BY DEF Retry, RetryOf
<1> HIDE DEF r, row, left
<1>10. /\ DOMAIN done = DOMAIN job /\ done[j] = left
       /\ \A i \in DOMAIN job : i # j => done[i] = job[i]
  BY <1>2
<1>11. done \in [DOMAIN done -> JobRow]
  BY <1>2, <1>7
<1> HIDE DEF done
<1>12. /\ job' \in [DOMAIN done \cup {r} -> JobRow]
       /\ job'[r] = row
       /\ \A i \in DOMAIN done \ {r} : job'[i] = done[i]
  BY <1>5, <1>9, <1>11 DEF Inserted
<1>13. job'[j] = left /\ \A i \in DOMAIN job : i # j => job'[i] = job[i]
  BY <1>1, <1>10, <1>12
<1>14. DOMAIN job' = DOMAIN job \cup {r}
  BY <1>10, <1>12
<1> QED BY <1>1, <1>5, <1>8, <1>9, <1>12, <1>13, <1>14 DEF Retries, r

LEMMA RunTriageIsTableStep ==
    ASSUME TypeInv, NEW j \in DOMAIN job, RunTriage(j)
    PROVE  Retries(j) \/ (Moves(j) /\ Cause(j))
<1>1. /\ job \in [DOMAIN job -> JobRow] /\ job[j].state = "triage"
      /\ byHuman' = byHuman /\ job[j] \in JobRow
  BY DEF TypeInv, TablesOK, RowsOK, RunTriage
<1>2. ASSUME NEW to \in {"infeasible", "escalated"},
             Move(j, to, FALSE, "triage", NoArgs), dep' = dep
      PROVE  Moves(j) /\ Cause(j)
  <2>1. Moves(j) /\ job'[j].state = to
    BY <1>1, <1>2, MoveEffect, ArgsAreArgs
  <2> QED BY <1>1, <2>1 DEF Cause
<1>3. CASE j \in permanent
  BY <1>2, <1>3 DEF RunTriage
<1>4. CASE j \notin permanent /\ job[j].attempt >= job[j].max
  BY <1>2, <1>4 DEF RunTriage
<1>5. CASE j \notin permanent /\ ~(job[j].attempt >= job[j].max)
  <2>1. Retry(j)
    BY <1>5 DEF RunTriage
  <2>2. job[j].attempt < job[j].max
    BY <1>1, <1>5 DEF JobRow
  <2> QED BY <1>1, <2>1, <2>2, RetryIsTableStep
<1> QED BY <1>3, <1>4, <1>5

LEMMA LeaseOutIsTableStep ==
    ASSUME TypeInv, NEW j \in DOMAIN job, LeaseOut(j)
    PROVE  Moves(j) /\ Cause(j)
<1>1. PICK to \in {"queued", "failed"} :
         /\ Move(j, to, FALSE, job[j].state, NoArgs)
         /\ to = "queued" => job[j].attempt < job[j].max
  BY DEF LeaseOut
<1>2. /\ Moves(j) /\ job'[j].state = to
  BY <1>1, MoveEffect, ArgsAreArgs DEF LeaseOut, TypeInv, TablesOK, RowsOK
<1> QED BY <1>1, <1>2 DEF Cause, LeaseOut, Leased

\* The two statements of a gate that move a job.
LEMMA GateIsTableStep ==
    ASSUME TypeInv, NEW p \in Loop, Gate(p) \/ AcceptCheck(p)
    PROVE  TableStep
<1>1. /\ job \in [DOMAIN job -> JobRow] /\ byHuman' = byHuman /\ dep' = dep
      /\ hand[p] \in Checks \cap DOMAIN job
      /\ job[hand[p]] \in JobRow
  BY DEF TypeInv, TablesOK, RowsOK, LoopsOK, Gate, AcceptCheck
<1>2. CASE Gate(p)
  <2> DEFINE k == hand[p]
             v == job[k].verdict
             to == IF v \in Accepting THEN "accepted" ELSE "review"
  <2>1. CASE job' = job
    BY <1>1, <2>1 DEF TableStep
  <2>2. CASE job' # job
    <3>1. PICK u \in Upstream(k) :
             Move(u, to, FALSE, "succeeded", [NoArgs EXCEPT !.verdict = v])
      BY <1>2, <2>2 DEF Gate
    <3>2. v \in Verdict \cup {NoVerdict}
      BY <1>1 DEF JobRow
    <3> DEFINE args == [NoArgs EXCEPT !.verdict = v]
    <3>7. args \in MoveArgs /\ args.verdict = v
      BY <3>2, ArgsAreArgs
    <3> HIDE DEF args
    <3>3. /\ Moves(u) /\ job'[u].state = to
          /\ "succeeded" \in {AnyState, job[u].state}
          /\ job'[u].verdict = IF v = NoVerdict THEN job[u].verdict ELSE v
      <4>1. Move(u, to, FALSE, "succeeded", args)
        BY <3>1 DEF args
      <4> HIDE DEF v, to
      <4> QED BY <1>1, <3>7, <4>1, MoveEffect
    <3>4. job[u].state = "succeeded"
      BY <3>3, NullsAssumption DEF JobState
    <3>5. Gates(p, u)
      BY <1>1, <1>2, <3>1, <3>3, <3>4 DEF Gates, Gate
    <3>6. Cause(u)
      BY <3>3, <3>5 DEF Cause
    <3> QED BY <3>3, <3>6 DEF TableStep
  <2> QED BY <2>1, <2>2
<1>3. CASE AcceptCheck(p)
  <2>1. CASE job' = job
    BY <1>1, <2>1 DEF TableStep
  <2>2. CASE job' # job
    <3>1. Move(hand[p], "accepted", FALSE, "succeeded", NoArgs)
      BY <1>3, <2>2 DEF AcceptCheck
    <3>2. /\ Moves(hand[p]) /\ job'[hand[p]].state = "accepted"
          /\ job'[hand[p]].verdict = job[hand[p]].verdict
          /\ "succeeded" \in {AnyState, job[hand[p]].state}
      BY <1>1, <3>1, MoveEffect, ArgsAreArgs DEF NoArgs
    <3>5. job[hand[p]].state = "succeeded"
      BY <3>2, NullsAssumption DEF JobState
    <3>3. Accepts(p, hand[p])
      BY <1>1, <1>3, <3>2, <3>5 DEF Accepts, AcceptCheck
    <3>4. Cause(hand[p])
      BY <3>2, <3>3 DEF Cause
    <3> QED BY <3>2, <3>4 DEF TableStep
  <2> QED BY <2>1, <2>2
<1> QED BY <1>2, <1>3

LEMMA HumanIsTableStep ==
    ASSUME TypeInv,
           Human \/ \E j \in DOMAIN job : ApproveJob(j)
    PROVE  TableStep
<1>1. job \in [DOMAIN job -> JobRow]
  BY DEF TypeInv, TablesOK, RowsOK
<1>2. CASE UNCHANGED <<job, dep, byHuman>>
  BY <1>2 DEF TableStep
<1>3. ASSUME Cascade PROVE TableStep
  <2>1. PICK r \in todo : Move(r.id, CascadeTarget, TRUE, r.state, NoArgs)
    BY <1>3 DEF Cascade
  <2>2. Moves(r.id) /\ job'[r.id].state \in {"approved", "cancelled"}
    BY <1>1, <1>3, <2>1, MoveEffect, ArgsAreArgs DEF Cascade, CascadeTarget
  <2>3. Cause(r.id)
    BY <1>3, <2>2
       DEF Cascade, Cause, Moves, JobTransition, LeaseExpiry, Leased, PreRunning
  <2> QED BY <2>2, <2>3 DEF TableStep
<1>4. ASSUME NEW j \in DOMAIN job, ApproveJob(j) \/ RejectJob(j)
      PROVE  TableStep
  <2>1. PICK to \in {"approved", "accepted", "cancelled", "rejected"} :
           Move(j, to, TRUE, AnyState, NoArgs)
    BY <1>4 DEF ApproveJob, RejectJob
  <2>2. Moves(j) /\ job'[j].state = to /\ job'[j].verdict = job[j].verdict
    <3>1. NoArgs.verdict = NoVerdict /\ dep' = dep
      BY <1>4 DEF ApproveJob, RejectJob, NoArgs
    <3> QED BY <1>1, <2>1, <3>1, MoveEffect, ArgsAreArgs
  <2>3. byHuman' = IF j.kind # "REPORT" /\ job[j].state \in {"succeeded", "review"}
                   THEN byHuman \cup {j} ELSE byHuman
    BY <1>4 DEF ApproveJob, RejectJob, Decided
  <2>4. job[j].state \in {"succeeded", "review"} => to \in {"accepted", "rejected"}
    BY <2>2 DEF Moves, JobTransition, LeaseExpiry, Leased, PreRunning
  <2>5. Cause(j)
    BY <2>2, <2>3, <2>4 DEF Cause, Decides
  <2> QED BY <2>2, <2>5 DEF TableStep
<1>5. ASSUME NEW j \in DOMAIN job, ResolveJob(j) PROVE TableStep
  <2>1. PICK to \in {"queued", "cancelled", "infeasible"} :
           /\ Move(j, to, TRUE, "escalated", NoArgs)
           /\ to = "queued" => upsets' = upsets + 1
    BY <1>5 DEF ResolveJob
  <2>2. /\ Moves(j) /\ job'[j].state = to
        /\ "escalated" \in {AnyState, job[j].state}
    BY <1>1, <1>5, <2>1, MoveEffect, ArgsAreArgs DEF ResolveJob
  <2>3. job[j].state = "escalated"
    BY <2>2, NullsAssumption DEF JobState
  <2>4. Cause(j)
    BY <1>5, <2>1, <2>2, <2>3 DEF Cause, ResolveJob
  <2> QED BY <2>2, <2>4 DEF TableStep
<1>6. CASE ApproveStudy \/ CloseStudy \/ AbortStudy \/ SelectJobs \/ CascadeEnds
  BY <1>2, <1>6
     DEF ApproveStudy, CloseStudy, AbortStudy, SelectJobs, CascadeEnds
<1> QED BY <1>3, <1>4, <1>5, <1>6 DEF Human

LEMMA PlanIsTableStep ==
    ASSUME TypeInv,
           \/ PlanReport
           \/ \E c \in Case : PlanAnalysis(c) \/ PlanCheck(c)
    PROVE  TableStep
<1>1. ASSUME NEW c \in Case, PlanAnalysis(c) PROVE Plans(AnalysisOf(c))
  <2> DEFINE j == AnalysisOf(c)
             new == {<<j, u>> : u \in {}}
  <2>1. /\ drafting /\ j \notin DOMAIN job
        /\ job' = Inserted(job, j, NewJob(1, MaxAttempts))
        /\ dep' = dep \cup new /\ byHuman' = byHuman
    BY <1>1 DEF PlanAnalysis, Create, Present
  <2>2. j \in Plan /\ MaxOf(j) = MaxAttempts
    BY DEF Plan, MaxOf, AnalysisOf
  <2>3. \A e \in new : FALSE
    OBVIOUS
  <2>5. j # Report /\ \A d \in Case : j # CheckOf(d)
    BY DEF AnalysisOf, CheckOf, Report
  <2> HIDE DEF j, new
  <2>4. Plans(j)
    BY <2>1, <2>2, <2>3, <2>5 DEF Plans
  <2> QED BY <2>4 DEF j
<1>2. ASSUME NEW c \in Case, PlanCheck(c) PROVE Plans(CheckOf(c))
  <2> DEFINE j == CheckOf(c)
             new == {<<j, AnalysisOf(c)>>}
  <2>1. /\ drafting /\ j \notin DOMAIN job
        /\ job' = Inserted(job, j, NewJob(1, MaxAttempts))
        /\ dep' = dep \cup new /\ byHuman' = byHuman
        /\ AnalysisOf(c) \in DOMAIN job
    BY <1>2 DEF PlanCheck, Create, Present
  <2>2. /\ j \in Plan /\ MaxOf(j) = MaxAttempts /\ j \in Checks
        /\ AnalysisOf(c) \in Analyses /\ AnalysisOf(c).of = j.of
    BY ControlAssumption DEF Plan, MaxOf, CheckOf, AnalysisOf, Checks, Analyses
  <2>3. \A e \in new :
          /\ e = <<e[1], e[2]>> /\ e[1] = j /\ e[2] \in DOMAIN job
          /\ j \in Checks /\ e[2] \in Analyses /\ e[2].of = j.of
          /\ \A f \in new : f = e
    BY <2>1, <2>2
  <2>4. /\ j # Report
        /\ \A d \in Case : j = CheckOf(d) => Present(AnalysisOf(d))
    BY <2>1 DEF CheckOf, Report, Present
  <2> HIDE DEF new, j
  <2>5. Plans(j)
    BY <2>1, <2>2, <2>3, <2>4 DEF Plans
  <2> QED BY <2>5 DEF j
<1>3. ASSUME PlanReport PROVE Plans(Report)
  <2> DEFINE new == {<<Report, u>> : u \in {CheckOf(c) : c \in Case}}
  <2>1. /\ drafting /\ Report \notin DOMAIN job
        /\ job' = Inserted(job, Report, NewJob(1, ReportAttempts))
        /\ dep' = dep \cup new /\ byHuman' = byHuman
        /\ \A c \in Case : CheckOf(c) \in DOMAIN job
    BY <1>3 DEF PlanReport, Create, Present
  <2>2. /\ Report \in Plan /\ MaxOf(Report) = ReportAttempts
        /\ Report \in Reports
        /\ \A c \in Case : CheckOf(c) \in Checks /\ CheckOf(c) # Report
        /\ Report \notin Checks
    BY ControlAssumption DEF Plan, MaxOf, CheckOf, Report, Checks, Reports
  <2>3. \A e \in new :
          /\ e = <<e[1], e[2]>> /\ e[1] = Report /\ e[2] \in DOMAIN job
          /\ Report \in Reports /\ e[2] \in Checks
    BY <2>1, <2>2
  <2> HIDE DEF new
  <2> QED BY <2>1, <2>2, <2>3 DEF Plans, Present
<1> QED BY <1>1, <1>2, <1>3 DEF TableStep

(***************************************************************************)
(* Every step is a TableStep.                                              *)
(***************************************************************************)
LEMMA StepIsTableStep == ASSUME TypeInv, [Next]_vars PROVE TableStep
<1>1. CASE UNCHANGED <<job, dep, byHuman>>
  BY <1>1 DEF TableStep
<1>2. ASSUME NEW j \in DOMAIN job, JobStep(j) PROVE TableStep
  BY <1>2, JobStepIsTableStep, RunTriageIsTableStep DEF TableStep
<1>3. ASSUME NEW j \in DOMAIN job, LeaseOut(j) PROVE TableStep
  BY <1>3, LeaseOutIsTableStep DEF TableStep
<1>4. ASSUME NEW p \in Loop, LoopStep(p) \/ CrashLoop(p) PROVE TableStep
  <2>1. CASE Gate(p) \/ AcceptCheck(p)
    BY <2>1, GateIsTableStep
  <2> QED BY <1>1, <1>4, <2>1
     DEF LoopStep, SelectChecks, ReadUpstream, ReadStudy, SyncStudy, CrashLoop
<1>5. CASE Submit \/ SubmitDies
  BY <1>1, <1>5, PlanIsTableStep DEF Submit, Propose, SubmitDies
<1>6. CASE Human \/ \E j \in DOMAIN job : ApproveJob(j)
  BY <1>6, HumanIsTableStep
<1>7. CASE UNCHANGED vars
  BY <1>1, <1>7 DEF vars
<1> QED BY <1>2, <1>3, <1>4, <1>5, <1>6, <1>7 DEF Next, NextButApproval, Machine
-----------------------------------------------------------------------------
(***************************************************************************)
(* The type invariant is inductive.                                        *)
(***************************************************************************)
\* Jobs are told apart by kind, case and try.
LEMMA JobFields ==
    /\ \A j \in Job :
          /\ j.try \in Nat \ {0}
          /\ j.kind \in {"ANALYSIS", "CHECK", "REPORT"}
          /\ j.kind = "ANALYSIS" <=> j \in Analyses
          /\ j.kind = "CHECK" <=> j \in Checks
          /\ j.kind = "REPORT" <=> j \in Reports
    /\ \A i, j \in Job :
          SameLine(i, j) =>
             /\ i.try = j.try => i = j
             /\ [i EXCEPT !.try = 1] = [j EXCEPT !.try = 1]
    /\ Plan \subseteq Job /\ \A j \in Plan : j.try = 1
<1>1. {MaxAttempts, ReportAttempts} \subseteq Nat \ {0}
  BY ControlAssumption
<1>2. \A j \in Job :
          /\ j.try \in Nat \ {0}
          /\ j.kind \in {"ANALYSIS", "CHECK", "REPORT"}
          /\ j.kind = "ANALYSIS" <=> j \in Analyses
          /\ j.kind = "CHECK" <=> j \in Checks
          /\ j.kind = "REPORT" <=> j \in Reports
  BY <1>1 DEF Job, Analyses, Checks, Reports
<1>3. \A j \in Job : j = [kind |-> j.kind, of |-> j.of, try |-> j.try]
  BY DEF Job, Analyses, Checks, Reports
<1>4. Plan \subseteq Job /\ \A j \in Plan : j.try = 1
  BY <1>1 DEF Plan, AnalysisOf, CheckOf, Report, Job, Analyses, Checks, Reports
<1>5. ASSUME NEW i \in Job, NEW j \in Job, SameLine(i, j)
      PROVE  /\ i.try = j.try => i = j
             /\ [i EXCEPT !.try = 1] = [j EXCEPT !.try = 1]
  BY <1>3, <1>5 DEF SameLine
<1> QED BY <1>2, <1>4, <1>5

LEMMA NoWayFromTerminal ==
    \A to : \A from \in TerminalJobState : <<from, to>> \notin JobTransition
BY DEF TerminalJobState, JobTransition, LeaseExpiry, Leased, PreRunning

LEMMA RowsStep ==
    ASSUME TypeInv, TableStep
    PROVE  RowsOK' /\ LinesOK' /\ DOMAIN job \subseteq DOMAIN job'
<1>1. RowsOK /\ LinesOK
  BY DEF TypeInv, TablesOK
<1>2. CASE UNCHANGED <<job, dep, byHuman>>
  BY <1>1, <1>2 DEF RowsOK, LinesOK
<1>3. ASSUME NEW j, Moves(j) PROVE RowsOK' /\ LinesOK'
  <2>1. RowsOK'
    <3>2. \A i \in DOMAIN job : /\ job[i] \in JobRow /\ job'[i] \in JobRow
                                /\ i \in Job
      BY <1>1, <1>3 DEF Moves, RowsOK
    <3>3. \A i \in DOMAIN job : /\ job'[i].max = job[i].max
                                /\ job[i].attempt <= job'[i].attempt
      BY <1>3, <3>2 DEF Moves, JobRow
    <3>1. \A i \in DOMAIN job : /\ job'[i].max = job[i].max
                                /\ job[i].attempt <= job'[i].attempt
                                /\ job[i].attempt \in Nat
                                /\ job'[i].attempt \in Nat
                                /\ i.try \in Nat
      BY <3>2, <3>3, JobFields DEF JobRow
    <3>4. DOMAIN job' = DOMAIN job /\ job' \in [DOMAIN job -> JobRow]
      BY <1>3 DEF Moves
    <3>5. \A i \in DOMAIN job : i.try <= job'[i].attempt
      <4>1. \A i \in DOMAIN job : i.try <= job[i].attempt
        BY <1>1 DEF RowsOK
      <4> QED BY <3>1, <4>1
    <3> QED BY <1>1, <3>1, <3>4, <3>5 DEF RowsOK
  <2>2. \A i \in DOMAIN job : job[i].state = "retry_spawned" => job'[i] = job[i]
    BY <1>3, NoWayFromTerminal DEF Moves, TerminalJobState
  <2>3. LinesOK'
    BY <1>1, <1>3, <2>2 DEF Moves, LinesOK
  <2> QED BY <2>1, <2>3
<1>4. ASSUME NEW j, Plans(j) PROVE RowsOK' /\ LinesOK'
  <2>1. /\ j \in Job \ DOMAIN job /\ j.try = 1
        /\ NewJob(1, MaxOf(j)) \in JobRow
        /\ NewJob(1, MaxOf(j)).max = MaxOf(j) /\ NewJob(1, MaxOf(j)).attempt = 1
    BY <1>4, JobFields, NewJobIsRow, ControlAssumption
       DEF Plans, MaxOf, NewJob
  <2>2. job' = Inserted(job, j, NewJob(1, MaxOf(j)))
    BY <1>4 DEF Plans
  <2>3. [j EXCEPT !.try = 1] = j
    BY <2>1 DEF Job, Analyses, Checks, Reports
  <2> HIDE DEF NewJob
  <2>4. /\ DOMAIN job' = DOMAIN job \cup {j}
        /\ job'[j] = NewJob(1, MaxOf(j))
        /\ \A i \in DOMAIN job : job'[i] = job[i]
        /\ job' \in [DOMAIN job' -> JobRow]
    BY <1>1, <2>1, <2>2 DEF Inserted, RowsOK
  <2>5. RowsOK'
    BY <1>1, <2>1, <2>3, <2>4 DEF RowsOK
  <2>6. ASSUME NEW i \in DOMAIN job', NEW k \in DOMAIN job',
               SameLine(i, k), i.try < k.try
        PROVE  i \in DOMAIN job /\ k \in DOMAIN job
    <3>1. i \in Job /\ k \in Job /\ i.try \in Nat \ {0} /\ k.try \in Nat \ {0}
      BY <1>1, <2>1, <2>4, JobFields DEF RowsOK
    <3>2. k # j
      BY <2>1, <2>6, <3>1
    <3>3. k \in DOMAIN job /\ [k EXCEPT !.try = 1] \in DOMAIN job
      BY <1>1, <2>4, <3>2 DEF RowsOK
    <3>4. [i EXCEPT !.try = 1] = [k EXCEPT !.try = 1]
      BY <2>6, <3>1, JobFields
    <3>5. i # j
      BY <2>1, <2>3, <3>3, <3>4
    <3> QED BY <2>4, <3>3, <3>5
  <2>7. LinesOK'
    BY <1>1, <2>4, <2>6 DEF LinesOK
  <2> QED BY <2>5, <2>7
<1>5. ASSUME NEW j, Retries(j) PROVE RowsOK' /\ LinesOK'
  <2> DEFINE r == RetryOf(j)
  <2>1. /\ j \in DOMAIN job /\ job[j].state = "triage"
        /\ job[j].attempt < job[j].max
        /\ r \in Job \ DOMAIN job
        /\ DOMAIN job' = DOMAIN job \cup {r}
        /\ job' \in [DOMAIN job' -> JobRow]
        /\ \A i \in DOMAIN job : i # j => job'[i] = job[i]
        /\ job'[j].state = "retry_spawned"
        /\ job'[j].attempt = job[j].attempt /\ job'[j].max = job[j].max
        /\ job'[r].attempt = job[j].attempt + 1
        /\ job'[r].max = job[j].max
    BY <1>5 DEF Retries
  <2>2. /\ j \in Job /\ job[j] \in JobRow /\ job[j].attempt \in Nat
        /\ job[j].max = MaxOf(j) /\ j.try <= job[j].attempt
        /\ [j EXCEPT !.try = 1] \in DOMAIN job
    BY <1>1, <2>1 DEF RowsOK, JobRow
  <2>3. /\ r.try = job[j].attempt + 1 /\ SameLine(j, r)
        /\ MaxOf(r) = MaxOf(j)
        /\ [r EXCEPT !.try = 1] = [j EXCEPT !.try = 1]
    <3>1. /\ r.try = job[j].attempt + 1 /\ SameLine(j, r)
      BY <2>2 DEF RetryOf, SameLine, Job, Analyses, Checks, Reports
    <3> QED BY <2>1, <2>2, <3>1, JobFields DEF SameLine, MaxOf
  <2> HIDE DEF r
  <2>4. RowsOK'
    <3>1. \A i \in DOMAIN job' :
             /\ job'[i].max = MaxOf(i)
             /\ i.try <= job'[i].attempt
             /\ [i EXCEPT !.try = 1] \in DOMAIN job'
      <4> SUFFICES ASSUME NEW i \in DOMAIN job'
                   PROVE  /\ job'[i].max = MaxOf(i)
                          /\ i.try <= job'[i].attempt
                          /\ [i EXCEPT !.try = 1] \in DOMAIN job'
        OBVIOUS
      <4>1. CASE i = r
        BY <2>1, <2>2, <2>3, <4>1
      <4>2. CASE i = j
        BY <2>1, <2>2, <4>2
      <4>3. CASE i # r /\ i # j
        BY <1>1, <2>1, <4>3 DEF RowsOK
      <4> QED BY <4>1, <4>2, <4>3
    <3> QED BY <1>1, <2>1, <3>1 DEF RowsOK
  <2>5. ASSUME NEW x \in DOMAIN job, SameLine(j, x)
        PROVE  x.try <= j.try
    <3>1. x.try \in Nat /\ j.try \in Nat
      BY <1>1, <2>2, JobFields DEF RowsOK
    <3>2. ~(j.try < x.try)
      BY <1>1, <2>1, <2>5 DEF LinesOK
    <3> QED BY <3>1, <3>2
  <2>6. ASSUME NEW i \in DOMAIN job', NEW k \in DOMAIN job',
               SameLine(i, k), i.try < k.try
        PROVE  job'[i].state = "retry_spawned" /\ job'[i].attempt < k.try
    <3>1. /\ i \in Job /\ k \in Job /\ i.try \in Nat /\ k.try \in Nat
          /\ j.try \in Nat /\ r.try \in Nat
      BY <1>1, <2>1, <2>2, JobFields DEF RowsOK
    <3>2. CASE i = r
      <4>1. SameLine(j, k)
        BY <2>3, <2>6, <3>2 DEF SameLine
      <4>2. k # r
        BY <2>6, <3>1, <3>2
      <4>3. k.try <= j.try
        BY <2>1, <2>5, <4>1, <4>2
      <4> QED BY <2>2, <2>3, <2>6, <3>1, <3>2, <4>3
    <3>3. CASE i # r /\ k = r
      <4>1. SameLine(j, i) /\ i \in DOMAIN job
        BY <2>1, <2>3, <3>3, <2>6 DEF SameLine
      <4>2. i.try <= j.try
        BY <2>5, <4>1
      <4>3. CASE i = j
        BY <2>1, <2>2, <2>3, <3>3, <4>3
      <4>4. CASE i # j
        <5>1. i.try # j.try
          BY <2>2, <3>1, <4>1, <4>4, JobFields
        <5>2. i.try < j.try /\ SameLine(i, j)
          BY <3>1, <4>1, <4>2, <5>1 DEF SameLine
        <5>3. job[i].state = "retry_spawned" /\ job[i].attempt < j.try
          BY <1>1, <2>1, <4>1, <5>2 DEF LinesOK
        <5>4. job[i].attempt \in Nat
          BY <1>1, <4>1 DEF RowsOK, JobRow
        <5> QED BY <2>1, <2>2, <2>3, <3>1, <3>3, <4>1, <4>4, <5>3, <5>4
      <4> QED BY <4>3, <4>4
    <3>4. CASE i # r /\ k # r
      <4>1. job[i].state = "retry_spawned" /\ job[i].attempt < k.try
            /\ i \in DOMAIN job
        BY <1>1, <2>1, <2>6, <3>4 DEF LinesOK
      <4> QED BY <2>1, <4>1
    <3> QED BY <3>2, <3>3, <3>4
  <2>7. LinesOK'
    BY <2>6 DEF LinesOK
  <2> QED BY <2>4, <2>7
<1>6. DOMAIN job \subseteq DOMAIN job'
  BY DEF TableStep, Moves, Plans, Retries, Inserted
<1> QED BY <1>2, <1>3, <1>4, <1>5, <1>6 DEF TableStep

LEMMA DepsStep == ASSUME TypeInv, TableStep PROVE DepsOK'
<1>1. DepsOK /\ RowsOK /\ DOMAIN job \subseteq DOMAIN job'
  BY RowsStep DEF TypeInv, TablesOK
<1>2. CASE dep' = dep
  BY <1>1, <1>2 DEF DepsOK
<1>3. ASSUME NEW j, Plans(j) PROVE DepsOK'
  <2>1. PICK new :
          /\ dep' = dep \cup new
          /\ \A e \in new :
                /\ e = <<e[1], e[2]>> /\ e[1] = j /\ e[2] \in DOMAIN job
                /\ \/ j \in Checks /\ e[2] \in Analyses /\ e[2].of = j.of
                   \/ j \in Reports /\ e[2] \in Checks
                /\ j \in Checks => \A f \in new : f = e
    BY <1>3 DEF Plans
  <2>2. j \in DOMAIN job' /\ j.try = 1 /\ \A e \in dep : e[1] # j
    BY <1>1, <1>3, JobFields DEF Plans, Inserted, DepsOK
  <2> QED BY <1>1, <2>1, <2>2 DEF DepsOK
<1>4. ASSUME NEW j, Retries(j) PROVE DepsOK'
  <2> DEFINE r == RetryOf(j)
  <2>1. /\ j \in DOMAIN job /\ j \in Job
        /\ r \in Job /\ r \in DOMAIN job'
        /\ dep' = {<<e[1], IF e[2] = j THEN r ELSE e[2]>> : e \in dep}
    BY <1>1, <1>4 DEF Retries, RowsOK
  <2>2. SameLine(j, r)
    BY <2>1 DEF RetryOf, SameLine, Job, Analyses, Checks, Reports
  <2>3. /\ j \in Analyses => r \in Analyses
        /\ j \in Checks => r \in Checks
        /\ j.of = r.of
    BY <2>1, <2>2, JobFields DEF SameLine
  <2> HIDE DEF r
  <2> SUFFICES ASSUME NEW e \in dep
               PROVE  LET f == <<e[1], IF e[2] = j THEN r ELSE e[2]>> IN
                        /\ f = <<f[1], f[2]>>
                        /\ f[1] \in DOMAIN job' /\ f[2] \in DOMAIN job'
                        /\ f[1].try = 1
                        /\ \/ f[1] \in Checks /\ f[2] \in Analyses /\ f[1].of = f[2].of
                           \/ f[1] \in Reports /\ f[2] \in Checks
                        /\ f[1] \in Checks => \A g \in dep' : g[1] = f[1] => g = f
    BY <2>1 DEF DepsOK
  <2>4. e[1] \in Checks => \A g \in dep : g[1] = e[1] => g = e
    BY <1>1 DEF DepsOK
  <2> QED BY <1>1, <2>1, <2>3, <2>4 DEF DepsOK
<1> QED BY <1>2, <1>3, <1>4 DEF TableStep, Moves

LEMMA LoopsStep == ASSUME TypeInv, [Next]_vars PROVE LoopsOK'
<1>1. /\ LoopsOK /\ RowsOK
      /\ DOMAIN job \subseteq DOMAIN job'
  BY StepIsTableStep, RowsStep DEF TypeInv, TablesOK
<1>2. CASE UNCHANGED loops
  BY <1>1, <1>2 DEF LoopsOK, loops
<1>3. ASSUME NEW p \in Loop, LoopStep(p) \/ CrashLoop(p) PROVE LoopsOK'
  <2>1. ASSUME NEW l, NEW R, NEW h,
               at' = [at EXCEPT ![p] = l],
               rows' = [rows EXCEPT ![p] = R],
               hand' = [hand EXCEPT ![p] = h],
               l \in {"idle", "gates", "gate", "accept", "run", "review"},
               R \subseteq Checks \cap DOMAIN job,
               IF l \in {"gate", "accept"} THEN h \in R ELSE h = NoCheck
        PROVE  LoopsOK'
    BY <1>1, <2>1 DEF LoopsOK
  <2>2. /\ rows = [rows EXCEPT ![p] = rows[p]]
        /\ hand = [hand EXCEPT ![p] = hand[p]]
        /\ rows[p] \subseteq Checks \cap DOMAIN job
        /\ IF at[p] \in {"gate", "accept"} THEN hand[p] \in rows[p]
                                           ELSE hand[p] = NoCheck
    BY <1>1 DEF LoopsOK
  <2>3. CASE SelectChecks(p)
    <3>1. Gateable \subseteq Checks \cap DOMAIN job
      BY <1>1, JobFields DEF Gateable, RowsOK
    <3> QED BY <2>1, <2>2, <2>3, <3>1 DEF SelectChecks
  <2>4. CASE ReadUpstream(p)
    <3>1. PICK k \in rows[p] :
             /\ hand' = [hand EXCEPT ![p] = k]
             /\ \E l \in {"gate", "accept"} : at' = [at EXCEPT ![p] = l]
      BY <2>4 DEF ReadUpstream
    <3> QED BY <2>1, <2>2, <2>4, <3>1 DEF ReadUpstream
  <2>5. CASE Gate(p)
    BY <2>1, <2>2, <2>5 DEF Gate
  <2>6. CASE AcceptCheck(p)
    <3> DEFINE R == rows[p] \ {hand[p]}
    <3>1. /\ rows' = [rows EXCEPT ![p] = R]
          /\ \E l \in {"idle", "gates"} : at' = [at EXCEPT ![p] = l]
          /\ hand' = [hand EXCEPT ![p] = NoCheck]
      BY <2>6 DEF AcceptCheck
    <3>2. R \subseteq Checks \cap DOMAIN job
      BY <2>2
    <3> HIDE DEF R
    <3>3. PICK l \in {"idle", "gates"} : at' = [at EXCEPT ![p] = l]
      BY <3>1
    <3> QED BY <2>1, <3>1, <3>2, <3>3
  <2>7. CASE ReadStudy(p)
    <3>1. /\ rows' = [rows EXCEPT ![p] = rows[p]]
          /\ hand' = [hand EXCEPT ![p] = hand[p]] /\ hand[p] = NoCheck
      BY <2>2, <2>7 DEF ReadStudy
    <3>2. PICK l \in {"run", "review"} : at' = [at EXCEPT ![p] = l]
      BY <2>7 DEF ReadStudy
    <3> QED BY <2>1, <2>2, <3>1, <3>2
  <2>8. CASE SyncStudy(p)
    <3>1. /\ rows' = [rows EXCEPT ![p] = rows[p]]
          /\ hand' = [hand EXCEPT ![p] = hand[p]] /\ hand[p] = NoCheck
          /\ at' = [at EXCEPT ![p] = "idle"]
      BY <2>2, <2>8 DEF SyncStudy
    <3> QED BY <2>1, <2>2, <3>1
  <2>9. CASE CrashLoop(p)
    <3> DEFINE R == {}
    <3>1. /\ rows' = [rows EXCEPT ![p] = R]
          /\ hand' = [hand EXCEPT ![p] = NoCheck]
          /\ at' = [at EXCEPT ![p] = "idle"]
      BY <2>9 DEF CrashLoop
    <3>2. R \subseteq Checks \cap DOMAIN job
      OBVIOUS
    <3> HIDE DEF R
    <3> QED BY <2>1, <3>1, <3>2
  <2> QED BY <1>3, <2>3, <2>4, <2>5, <2>6, <2>7, <2>8, <2>9 DEF LoopStep
<1>4. CASE Next
  <2>1. ASSUME NEW j, JobStep(j) \/ LeaseOut(j) \/ ApproveJob(j)
                        \/ RejectJob(j) \/ ResolveJob(j)
        PROVE  UNCHANGED loops
    BY <2>1
       DEF JobStep, Claim, Start, Succeed, Fail, Enqueue, AutoAcceptReport,
           CancelDead, SpawnTriage, RunTriage, LeaseOut, ApproveJob, RejectJob,
           ResolveJob
  <2>2. ASSUME Submit \/ SubmitDies \/ ApproveStudy \/ CloseStudy \/ AbortStudy
                  \/ SelectJobs \/ Cascade \/ CascadeEnds
        PROVE  UNCHANGED loops
    BY <2>2
       DEF Submit, PlanAnalysis, PlanCheck, PlanReport, Create, Propose,
           SubmitDies, ApproveStudy, CloseStudy, AbortStudy, SelectJobs,
           Cascade, CascadeEnds
  <2> QED BY <1>2, <1>3, <1>4, <2>1, <2>2
     DEF Next, NextButApproval, Machine, Human
<1>5. CASE UNCHANGED vars
  BY <1>2, <1>5 DEF vars
<1> QED BY <1>4, <1>5

\* The study's own transitions.
LEMMA StudyMoves ==
    ASSUME NEW to, NEW human, NEW from, StudyMove(to, human, from)
    PROVE  /\ study = from /\ study' = to /\ to \in StudyStatus
           /\ <<from, to>> \in StudyTransition
           /\ human <=> <<from, to>> \in StudyHumanRequired
BY DEF StudyMove, StudyTransition, StudyStatus, StudyNonTerminal, StudyActorMay

LEMMA PeopleStep == ASSUME TypeInv, [Next]_vars PROVE PeopleOK'
<1>1. PeopleOK /\ TableStep /\ DOMAIN job \subseteq DOMAIN job'
  BY StepIsTableStep, RowsStep DEF TypeInv
<1>2. byHuman' \subseteq DOMAIN job'
  BY <1>1
     DEF PeopleOK, TableStep, Moves, Cause, Decides, Gates, Accepts, Plans,
         Retries
<1>3. /\ permanent' \subseteq DOMAIN job' /\ drafting' \in BOOLEAN
      /\ upsets' \in 0..MaxUpsets
  <2>1. ASSUME NEW j \in DOMAIN job, Fail(j) \/ LeaseOut(j)
        PROVE  /\ permanent' \subseteq permanent \cup {j} /\ drafting' = drafting
               /\ upsets' \in {upsets} \cup {upsets + 1}
               /\ upsets' # upsets => upsets < MaxUpsets
    BY <2>1 DEF Fail, LeaseOut
  <2>2. CASE \E j \in DOMAIN job : Fail(j) \/ LeaseOut(j)
    BY <1>1, <2>1, <2>2, ControlAssumption DEF PeopleOK
  <2>3. ASSUME ~\E j \in DOMAIN job : Fail(j) \/ LeaseOut(j)
        PROVE  /\ permanent' = permanent /\ drafting' \in {drafting, FALSE}
               /\ upsets' \in {upsets} \cup {upsets + 1}
               /\ upsets' # upsets => upsets < MaxUpsets
    <3>1. CASE \/ \E j \in DOMAIN job :
                    JobStep(j) \/ ApproveJob(j) \/ RejectJob(j) \/ ResolveJob(j)
      BY <2>3, <3>1
         DEF JobStep, Claim, Start, Succeed, Enqueue, AutoAcceptReport,
             CancelDead, SpawnTriage, RunTriage, ApproveJob, RejectJob,
             ResolveJob
    <3>2. CASE \/ ApproveStudy \/ CloseStudy \/ AbortStudy
               \/ SelectJobs \/ Cascade \/ CascadeEnds
      BY <3>2
         DEF ApproveStudy, CloseStudy, AbortStudy, SelectJobs, Cascade,
             CascadeEnds
    <3>3. CASE Submit \/ SubmitDies
      BY <3>3
         DEF Submit, PlanAnalysis, PlanCheck, PlanReport, Create, Propose,
             SubmitDies
    <3>4. CASE \E p \in Loop : LoopStep(p) \/ CrashLoop(p)
      BY <3>4
         DEF LoopStep, SelectChecks, ReadUpstream, Gate, AcceptCheck, ReadStudy,
             SyncStudy, CrashLoop
    <3>5. CASE UNCHANGED vars
      BY <3>5 DEF vars
    <3> QED BY <2>3, <3>1, <3>2, <3>3, <3>4, <3>5
       DEF Next, NextButApproval, Machine, Human
  <2>4. CASE ~\E j \in DOMAIN job : Fail(j) \/ LeaseOut(j)
    <3>1. upsets' \in 0..MaxUpsets
      BY <1>1, <2>3, <2>4, ControlAssumption DEF PeopleOK
    <3> QED BY <1>1, <2>3, <2>4, <3>1 DEF PeopleOK
  <2> QED BY <2>2, <2>4
<1>4. /\ study' \in StudyStatus
      /\ cmd' \in {"none", "approve", "approving", "abort", "aborting"}
      /\ \A r \in todo' : r.id \in DOMAIN job'
  <2>1. CASE UNCHANGED <<study, cmd, todo>>
    BY <1>1, <2>1 DEF PeopleOK, Present
  <2>2. ASSUME study' # study => study' \in StudyStatus, UNCHANGED cli
        PROVE  /\ study' \in StudyStatus
               /\ cmd' \in {"none", "approve", "approving", "abort", "aborting"}
               /\ \A r \in todo' : r.id \in DOMAIN job'
    BY <1>1, <2>2 DEF PeopleOK, Present, cli
  <2>3. CASE \E j \in DOMAIN job :
               \/ JobStep(j) \/ ApproveJob(j) \/ RejectJob(j) \/ ResolveJob(j)
               \/ LeaseOut(j)
    BY <2>2, <2>3
       DEF JobStep, Claim, Start, Succeed, Fail, Enqueue, AutoAcceptReport,
           CancelDead, SpawnTriage, RunTriage, ApproveJob, RejectJob,
           ResolveJob, LeaseOut
  <2>4. CASE ApproveStudy \/ CloseStudy \/ AbortStudy
    <3>1. study' \in StudyStatus
      BY <2>4, StudyMoves DEF ApproveStudy, CloseStudy, AbortStudy
    <3> QED BY <1>1, <2>4, <3>1
       DEF ApproveStudy, CloseStudy, AbortStudy, PeopleOK, Present, cli
  <2>5. CASE SelectJobs \/ Cascade \/ CascadeEnds
    <3>1. ASSUME SelectJobs PROVE \A r \in todo' : r.id \in DOMAIN job
      <4>1. \A states : \A r \in RowsIn(states) : r.id \in DOMAIN job
        BY DEF RowsIn
      <4> QED BY <3>1, <4>1 DEF SelectJobs
    <3>2. ASSUME Cascade \/ CascadeEnds PROVE \A r \in todo' : r.id \in DOMAIN job
      BY <1>1, <3>2 DEF Cascade, CascadeEnds, PeopleOK, Present
    <3>3. /\ study' = study
          /\ cmd' \in {"none", "approving", "aborting"} \cup {cmd}
      BY <2>5 DEF SelectJobs, Cascade, CascadeEnds
    <3> QED BY <1>1, <2>5, <3>1, <3>2, <3>3 DEF PeopleOK
  <2>6. CASE Submit \/ SubmitDies
    BY <2>2, <2>6, StudyMoves
       DEF Submit, PlanAnalysis, PlanCheck, PlanReport, Create, Propose,
           SubmitDies
  <2>7. CASE \E p \in Loop : LoopStep(p) \/ CrashLoop(p)
    BY <2>2, <2>7, StudyMoves
       DEF LoopStep, SelectChecks, ReadUpstream, Gate, AcceptCheck, ReadStudy,
           SyncStudy, CrashLoop
  <2>8. CASE UNCHANGED vars
    BY <2>1, <2>8 DEF vars, cli
  <2> QED BY <2>3, <2>4, <2>5, <2>6, <2>7, <2>8
     DEF Next, NextButApproval, Machine, Human
<1> QED BY <1>2, <1>3, <1>4 DEF PeopleOK, Present

\* The tables as decompose_study leaves them, wherever the jobs have got to.
LEMMA PlanIsTyped ==
    ASSUME DOMAIN job = Plan, job \in [DOMAIN job -> JobRow], dep = PlannedDeps,
           \A j \in Plan : job[j].max = MaxOf(j) /\ job[j].attempt = 1,
           study \in StudyStatus, drafting \in BOOLEAN, Quiet
    PROVE  TypeInv
<1>1. /\ Plan \subseteq Job
      /\ \A j \in Plan : j \in Job /\ j.try = 1
  BY JobFields
<1>2. RowsOK
  <2>1. \A j \in Plan : [j EXCEPT !.try = 1] = j
    <3> TAKE j \in Plan
    <3>1. j \in Job /\ j.try = 1
      BY <1>1
    <3> QED BY <3>1 DEF Job, Analyses, Checks, Reports
  <2>2. \A j \in Plan : j.try <= job[j].attempt
    BY <1>1
  <2> QED BY <1>1, <2>1, <2>2 DEF RowsOK
<1>3. LinesOK
  <2>1. \A i, j \in Plan : ~(i.try < j.try)
    BY <1>1
  <2> QED BY <1>1, <2>1 DEF LinesOK
<1>4. DepsOK
  <2>1. \A c \in Case :
           /\ CheckOf(c) \in Plan /\ AnalysisOf(c) \in Plan
           /\ CheckOf(c) \in Checks /\ AnalysisOf(c) \in Analyses
           /\ CheckOf(c).of = c /\ AnalysisOf(c).of = c
           /\ CheckOf(c).try = 1
    <3> TAKE c \in Case
    <3>1. 1 \in 1..MaxAttempts
      BY ControlAssumption
    <3> QED BY <3>1 DEF Plan, CheckOf, AnalysisOf, Checks, Analyses
  <2>2. /\ Report \in Plan /\ Report \in Reports /\ Report.try = 1
        /\ Report \notin Checks
    BY ControlAssumption DEF Plan, Report, Reports, Checks
  <2> SUFFICES ASSUME NEW e \in PlannedDeps
               PROVE  /\ e = <<e[1], e[2]>>
                      /\ e[1] \in Plan /\ e[2] \in Plan
                      /\ e[1].try = 1
                      /\ \/ e[1] \in Checks /\ e[2] \in Analyses
                            /\ e[1].of = e[2].of
                         \/ e[1] \in Reports /\ e[2] \in Checks
                      /\ e[1] \in Checks =>
                            \A f \in PlannedDeps : f[1] = e[1] => f = e
    BY <1>1 DEF DepsOK
  <2>3. CASE \E c \in Case : e = <<CheckOf(c), AnalysisOf(c)>>
    <3>1. PICK c \in Case : e = <<CheckOf(c), AnalysisOf(c)>>
      BY <2>3
    <3>2. ASSUME NEW f \in PlannedDeps, f[1] = e[1] PROVE f = e
      <4>1. PICK d \in Case : f = <<CheckOf(d), AnalysisOf(d)>>
        BY <2>1, <2>2, <3>1, <3>2 DEF PlannedDeps
      <4>2. CheckOf(d) = CheckOf(c)
        BY <3>1, <3>2, <4>1
      <4>3. d = c
        BY <2>1, <4>2
      <4> QED BY <3>1, <4>1, <4>3
    <3> QED BY <2>1, <3>1, <3>2
  <2>4. CASE \E c \in Case : e = <<Report, CheckOf(c)>>
    BY <2>1, <2>2, <2>4
  <2> QED BY <2>3, <2>4 DEF PlannedDeps
<1>5. LoopsOK /\ PeopleOK
  <2>1. 0 \in 0..MaxUpsets
    BY ControlAssumption
  <2> QED BY <1>1, <2>1 DEF Quiet, LoopsOK, PeopleOK
<1> QED BY <1>2, <1>3, <1>4, <1>5 DEF TypeInv, TablesOK

\* The rows decompose_study creates.
LEMMA PlanRows ==
    ASSUME NEW j \in Plan
    PROVE  LET new == NewJob(1, IF j = Report THEN ReportAttempts ELSE MaxAttempts)
           IN  /\ new \in JobRow /\ new.state = "proposed"
               /\ new.max = MaxOf(j) /\ new.attempt = 1
               /\ new.run = NoRun /\ new.verdict = NoVerdict
<1>1. j = Report <=> j.kind = "REPORT"
  BY DEF Plan, AnalysisOf, CheckOf, Report
<1>2. MaxAttempts \in Nat \ {0} /\ ReportAttempts \in Nat \ {0}
  BY ControlAssumption
<1>3. MaxOf(j) \in Nat \ {0}
      /\ MaxOf(j) = IF j = Report THEN ReportAttempts ELSE MaxAttempts
  BY <1>1, <1>2 DEF MaxOf
<1>4. NewJob(1, MaxOf(j)) \in JobRow
  BY <1>3, NewJobIsRow
<1> QED BY <1>3, <1>4 DEF NewJob

LEMMA TypeInit == Init \/ Planned => TypeInv
<1>1. "draft" \in StudyStatus /\ "proposed" \in StudyStatus
  BY DEF StudyStatus, StudyNonTerminal
<1>2. ASSUME Init PROVE TypeInv
  <2>1. DOMAIN job = {} /\ dep = {} /\ 0 \in 0..MaxUpsets
    BY <1>2, ControlAssumption DEF Init
  <2>2. job \in [DOMAIN job -> JobRow]
    BY <1>2, <2>1 DEF Init
  <2>3. TablesOK
    BY <2>1, <2>2 DEF TablesOK, RowsOK, LinesOK, DepsOK
  <2>4. LoopsOK /\ PeopleOK
    BY <1>1, <1>2, <2>1 DEF Init, Quiet, LoopsOK, PeopleOK
  <2> QED BY <2>3, <2>4 DEF TypeInv
<1>3. ASSUME Planned PROVE TypeInv
  <2>1. \A j \in Plan : /\ job[j] \in JobRow
                        /\ job[j].max = MaxOf(j) /\ job[j].attempt = 1
    BY <1>3, PlanRows DEF Planned
  <2>2. DOMAIN job = Plan /\ job \in [DOMAIN job -> JobRow]
    BY <1>3, <2>1 DEF Planned
  <2> QED BY <1>1, <1>3, <2>1, <2>2, PlanIsTyped DEF Planned
<1> QED BY <1>2, <1>3

LEMMA TypeStep == ASSUME TypeInv, [Next]_vars PROVE TypeInv'
BY StepIsTableStep, RowsStep, DepsStep, LoopsStep, PeopleStep
   DEF TypeInv, TablesOK

(***************************************************************************)
(* Every variable keeps its type, whether the study is followed from its   *)
(* submission on or from the end of it.                                    *)
(***************************************************************************)
THEOREM TypeCorrect == Spec \/ PlannedSpec => []TypeOK
<1>1. TypeInv => TypeOK
  BY DEF TypeInv, TablesOK, RowsOK, DepsOK, LoopsOK, PeopleOK, TypeOK, Present
<1> QED BY TypeInit, TypeStep, <1>1, PTL DEF Spec, PlannedSpec
-----------------------------------------------------------------------------
(***************************************************************************)
(* The study: what its status says of its plan and of its jobs.            *)
(***************************************************************************)
\* The plan is made from its beginning to its end.
PlanInOrder ==
    /\ Present(Report) => \A c \in Case : Present(CheckOf(c))
    /\ \A c \in Case : Present(CheckOf(c)) => Present(AnalysisOf(c))

AllOver == \A j \in DOMAIN job : job[j].state \in TerminalJobState

\* A loop that will move the study to review has seen that all is over.
OverIsSeen ==
    (\E p \in Loop : at[p] = "review") \/ study \in {"review", "closed"}
      => AllOver /\ ~drafting

StudyInv == TypeInv /\ PlanInOrder /\ PlanIsWhole /\ OverIsSeen

\* What a step does to the study, and what it looked at.
LEMMA StudyStep ==
    ASSUME TypeInv, [Next]_vars
    PROVE  /\ drafting' => drafting
           /\ study' # study =>
                \/ study' = "aborted"
                \/ study = "draft" /\ study' = "proposed"
                     /\ Present(Report) /\ ~drafting'
                \/ study \notin {"draft", "aborted"} /\ study' \in {"approved", "running"}
                \/ study = "running" /\ study' = "review"
                     /\ \E p \in Loop : at[p] = "review"
                \/ study = "review" /\ study' = "closed"
           /\ \A p \in Loop : at'[p] = "review" =>
                \/ at[p] = "review"
                \/ study = "running" /\ ~Pending
<1>1. LoopsOK /\ drafting \in BOOLEAN
  BY DEF TypeInv, PeopleOK
<1>2. ASSUME NEW j,
             \/ JobStep(j) \/ ApproveJob(j) \/ RejectJob(j) \/ ResolveJob(j)
             \/ LeaseOut(j)
      PROVE  UNCHANGED <<study, drafting, at>>
  BY <1>2
     DEF JobStep, Claim, Start, Succeed, Fail, Enqueue, AutoAcceptReport,
         CancelDead, SpawnTriage, RunTriage, ApproveJob, RejectJob,
         ResolveJob, LeaseOut, loops
<1>3. ASSUME ApproveStudy \/ CloseStudy \/ AbortStudy
      PROVE  /\ UNCHANGED <<drafting, at>>
             /\ \/ study' = "aborted"
                \/ study = "proposed" /\ study' = "approved"
                \/ study = "review" /\ study' = "closed"
  BY <1>3, StudyMoves DEF ApproveStudy, CloseStudy, AbortStudy, loops
<1>4. ASSUME SelectJobs \/ Cascade \/ CascadeEnds
      PROVE  UNCHANGED <<study, drafting, at>>
  BY <1>4 DEF SelectJobs, Cascade, CascadeEnds, loops
<1>5. ASSUME Submit \/ SubmitDies
      PROVE  /\ at' = at /\ (drafting' => drafting)
             /\ study' # study => /\ study = "draft" /\ study' = "proposed"
                                  /\ Present(Report) /\ ~drafting'
  BY <1>5, StudyMoves
     DEF Submit, PlanAnalysis, PlanCheck, PlanReport, Create, Propose,
         SubmitDies, loops
<1>6. ASSUME NEW p \in Loop, LoopStep(p) \/ CrashLoop(p)
      PROVE  /\ drafting' = drafting
             /\ study' # study =>
                  \/ study = "approved" /\ study' = "running"
                  \/ study = "running" /\ study' = "review" /\ at[p] = "review"
             /\ \A q \in Loop : at'[q] = "review" =>
                  at[q] = "review" \/ (study = "running" /\ ~Pending)
  <2>1. CASE SyncStudy(p)
    BY <1>1, <2>1, StudyMoves DEF SyncStudy, LoopsOK
  <2>2. CASE ReadStudy(p)
    BY <1>1, <2>2 DEF ReadStudy, LoopsOK
  <2>3. CASE SelectChecks(p) \/ ReadUpstream(p) \/ Gate(p) \/ AcceptCheck(p)
             \/ CrashLoop(p)
    <3>1. PICK l \in {"gates", "gate", "accept", "idle"} :
             at' = [at EXCEPT ![p] = l]
      BY <2>3 DEF SelectChecks, ReadUpstream, Gate, AcceptCheck, CrashLoop
    <3>2. UNCHANGED <<study, drafting>>
      BY <2>3 DEF SelectChecks, ReadUpstream, Gate, AcceptCheck, CrashLoop
    <3> QED BY <1>1, <3>1, <3>2 DEF LoopsOK
  <2> QED BY <1>6, <2>1, <2>2, <2>3 DEF LoopStep
<1>7. CASE UNCHANGED vars
  BY <1>7 DEF vars, loops
<1>8. CASE Next
  BY <1>2, <1>3, <1>4, <1>5, <1>6, <1>8
     DEF Next, NextButApproval, Machine, Human
<1> QED BY <1>7, <1>8

LEMMA StudyInit == Init \/ Planned => PlanInOrder /\ PlanIsWhole /\ OverIsSeen
<1>1. ASSUME Init PROVE PlanInOrder /\ PlanIsWhole /\ OverIsSeen
  BY <1>1
     DEF Init, Quiet, PlanInOrder, PlanIsWhole, OverIsSeen, Present
<1>2. ASSUME Planned PROVE PlanInOrder /\ PlanIsWhole /\ OverIsSeen
  <2>1. Plan = DOMAIN job
    BY <1>2 DEF Planned
  <2> QED BY <1>2, <2>1
     DEF Planned, Quiet, PlanInOrder, PlanIsWhole, OverIsSeen, Present, Plan
<1> QED BY <1>1, <1>2

\* Where all jobs are over, none is created once the plan is made.
LEMMA OverStaysOver ==
    ASSUME TypeInv, TableStep, AllOver, ~drafting
    PROVE  AllOver'
<1>1. ASSUME NEW j PROVE ~Moves(j) /\ ~Plans(j) /\ ~Retries(j)
  BY NoWayFromTerminal DEF AllOver, Moves, Plans, Retries, TerminalJobState
<1> QED BY <1>1 DEF TableStep, AllOver

LEMMA PlanStep ==
    ASSUME TypeInv, TableStep, PlanInOrder
    PROVE  PlanInOrder'
<1>1. CASE \E j : Plans(j)
  <2>1. PICK j : Plans(j)
    BY <1>1
  <2>2. DOMAIN job' = DOMAIN job \cup {j}
    BY <2>1 DEF Plans, Inserted
  <2> QED BY <2>1, <2>2 DEF Plans, PlanInOrder, Present
<1>2. CASE \E j : Retries(j)
  <2>1. PICK j : Retries(j)
    BY <1>2
  <2>2. j \in Job /\ job[j].attempt \in Nat \ {0}
    BY <2>1 DEF Retries, TypeInv, TablesOK, RowsOK, JobRow
  <2>3. RetryOf(j).try # 1
    BY <2>2 DEF RetryOf, Job, Analyses, Checks, Reports
  <2>4. /\ Report.try = 1
        /\ \A c \in Case : CheckOf(c).try = 1 /\ AnalysisOf(c).try = 1
    BY DEF Report, CheckOf, AnalysisOf
  <2>5. DOMAIN job' = DOMAIN job \cup {RetryOf(j)}
    BY <2>1 DEF Retries
  <2> HIDE DEF RetryOf
  <2> QED BY <2>3, <2>4, <2>5 DEF PlanInOrder, Present
<1>3. CASE DOMAIN job' = DOMAIN job
  BY <1>3 DEF PlanInOrder, Present
<1> QED BY <1>1, <1>2, <1>3 DEF TableStep, Moves

LEMMA StudyInvStep == ASSUME StudyInv, [Next]_vars PROVE StudyInv'
<1>1. /\ TypeInv /\ TableStep /\ TypeInv'
      /\ PlanInOrder /\ PlanIsWhole /\ OverIsSeen
      /\ DOMAIN job \subseteq DOMAIN job'
  BY StepIsTableStep, TypeStep, RowsStep DEF StudyInv
<1>2. PlanInOrder'
  BY <1>1, PlanStep
<1>3. PlanIsWhole'
  <2>1. Present(Report) /\ PlanInOrder => Plan \subseteq DOMAIN job
    BY DEF PlanInOrder, Plan, Present
  <2> QED BY <1>1, <2>1, StudyStep DEF PlanIsWhole
<1>4. OverIsSeen'
  <2>1. ASSUME \/ \E p \in Loop : at'[p] = "review"
               \/ study' \in {"review", "closed"}
        PROVE  AllOver /\ ~drafting
    <3>1. \/ \E p \in Loop : at[p] = "review"
          \/ study \in {"review", "closed"}
          \/ study = "running" /\ ~Pending
      BY <1>1, <2>1, StudyStep
    <3> QED BY <1>1, <3>1 DEF OverIsSeen, PlanIsWhole, Pending, AllOver
  <2>2. ASSUME AllOver, ~drafting PROVE AllOver' /\ ~drafting'
    BY <1>1, <2>2, OverStaysOver, StudyStep
  <2> QED BY <2>1, <2>2 DEF OverIsSeen
<1> QED BY <1>1, <1>2, <1>3, <1>4 DEF StudyInv

LEMMA StudyIsRight == StudyInv => PlanIsWhole /\ ReviewIsOver
BY DEF StudyInv, OverIsSeen, AllOver, ReviewIsOver

LEMMA StudyInvInit == Init \/ Planned => StudyInv
BY TypeInit, StudyInit DEF StudyInv

(***************************************************************************)
(* Whoever approves a study sees all of its plan, wherever the submit      *)
(* command died, and whatever becomes of jobs that are approved early.     *)
(***************************************************************************)
THEOREM PlanSeen == Spec \/ PlannedSpec => []PlanIsWhole
BY StudyInvInit, StudyInvStep, StudyIsRight, PTL DEF Spec, PlannedSpec

(***************************************************************************)
(* A study is in review only when nothing of it is left to do and nothing  *)
(* will come into being.                                                   *)
(***************************************************************************)
THEOREM ReviewLast == Spec \/ PlannedSpec => []ReviewIsOver
BY StudyInvInit, StudyInvStep, StudyIsRight, PTL DEF Spec, PlannedSpec
-----------------------------------------------------------------------------
(***************************************************************************)
(* The cases: what the state of a CHECK or a REPORT says of the jobs it    *)
(* depends on.                                                             *)
(***************************************************************************)
\* Where a job is once it has succeeded; it never leaves.
Past == {"succeeded", "review", "accepted", "rejected"}

Worked == Leased \cup Past

Settled(u) ==
    job[u].state \in TerminalJobState \/ job[u].attempt >= job[u].max

ReportsWait ==
    \A e \in dep :
        e[1] \in Reports /\ job[e[1]].state \in Worked => Settled(e[2])

ChecksFollow ==
    \A e \in dep : e[1] \in Checks =>
        /\ job[e[1]].state \in Worked => job[e[2]].state \in Past
        /\ job[e[1]].state \in Leased
             => job[e[2]].state \in {"succeeded", "accepted"}
        /\ job[e[1]].state = "accepted" /\ e[1] \notin byHuman
             => job[e[2]].state # "succeeded"

\* The verdict of its first CHECK is the one that gates an ANALYSIS.
Gated(u) ==
    LET k == CheckOf(u.of) IN
    /\ k \in DOMAIN job /\ job[k].state \in Past
    /\ job[u].verdict = job[k].verdict
    /\ job[u].state = IF job[k].verdict \in Accepting THEN "accepted" ELSE "review"

DecisionsOK ==
    \A u \in Analyses \cap DOMAIN job :
        job[u].state \in Past \ {"succeeded"} => u \in byHuman \/ Gated(u)

\* What a loop has read stays true of the CHECKs it goes through.
RowsReady ==
    \A p \in Loop : \A k \in rows[p] :
        job[k].state \in Past /\ job[k].verdict # NoVerdict

HandsOK ==
    \A p \in Loop, e \in dep :
        at[p] = "accept" /\ hand[p] = e[1] => job[e[2]].state # "succeeded"

CaseInv ==
    /\ TypeInv /\ ReportsWait /\ ChecksFollow /\ DecisionsOK
    /\ RowsReady /\ HandsOK

LEMMA WaysOfJobs ==
    ASSUME NEW from, NEW to, <<from, to>> \in JobTransition
    PROVE  /\ from \in Past => to \in Past \ {"succeeded"}
           /\ to \in Worked =>
                from \in Worked \/ (from = "queued" /\ to = "assigned")
           /\ to \in Leased =>
                from \in Leased \/ (from = "queued" /\ to = "assigned")
           /\ to \in Past \ {"succeeded"} => from \in {"succeeded", "review"}
           /\ from \notin TerminalJobState
BY DEF JobTransition, LeaseExpiry, Leased, PreRunning, Past, Worked,
       TerminalJobState

\* Who depends on an ANALYSIS is the first CHECK of its case; it has no other.
LEMMA Dependents ==
    ASSUME TypeInv, NEW e \in dep
    PROVE  /\ e = <<e[1], e[2]>> /\ e[1] # e[2]
           /\ e[1] \in DOMAIN job /\ e[2] \in DOMAIN job
           /\ e[2] \in Upstream(e[1])
           /\ e[1] \in Checks =>
                /\ e[2] \in Analyses /\ e[1] = CheckOf(e[2].of)
                /\ \A u \in Upstream(e[1]) : u = e[2]
           /\ e[1] \in Reports => e[2] \in Checks
<1>1. /\ e = <<e[1], e[2]>> /\ e[1] \in DOMAIN job /\ e[2] \in DOMAIN job
      /\ e[1].try = 1
      /\ \/ e[1] \in Checks /\ e[2] \in Analyses /\ e[1].of = e[2].of
         \/ e[1] \in Reports /\ e[2] \in Checks
      /\ e[1] \in Checks => \A f \in dep : f[1] = e[1] => f = e
  BY DEF TypeInv, TablesOK, DepsOK
<1>2. e[2] \in Upstream(e[1])
  BY <1>1 DEF Upstream
<1>3. e[1] \in Checks => \A u \in Upstream(e[1]) : u = e[2]
  <2> SUFFICES ASSUME e[1] \in Checks, NEW u \in Upstream(e[1]) PROVE u = e[2]
    OBVIOUS
  <2>1. <<e[1], u>> \in dep
    BY DEF Upstream
  <2>2. <<e[1], u>> = e
    BY <1>1, <2>1
  <2> QED BY <2>2
<1>4. e[1] \in Checks \cup Reports /\ e[1].kind # e[2].kind
      /\ ~(e[1] \in Checks /\ e[1] \in Reports)
  BY <1>1 DEF Checks, Reports, Analyses
<1>5. e[1] \in Checks => e[1] = CheckOf(e[2].of)
  BY <1>1, <1>4 DEF Checks, CheckOf
<1> QED BY <1>1, <1>2, <1>3, <1>4, <1>5

LEMMA PastStays ==
    ASSUME TypeInv, TableStep, NEW j \in DOMAIN job, job[j].state \in Past
    PROVE  /\ job'[j].state \in Past
           /\ job[j].state # "succeeded" => job'[j].state # "succeeded"
           /\ job[j].verdict # NoVerdict => job'[j].verdict # NoVerdict
           /\ j \in Checks => job'[j].verdict = job[j].verdict
<1>1. CASE job'[j] = job[j]
  BY <1>1
<1>2. ASSUME Moves(j), Cause(j)
      PROVE  /\ job'[j].state \in Past /\ job'[j].state # "succeeded"
             /\ job[j].verdict # NoVerdict => job'[j].verdict # NoVerdict
             /\ j \in Checks => job'[j].verdict = job[j].verdict
  <2>1. /\ job'[j].state \in Past \ {"succeeded"}
        /\ job[j].state \in {"succeeded", "review"}
    BY <1>2, WaysOfJobs DEF Moves
  <2>2. ASSUME j \in Checks PROVE job'[j].verdict = job[j].verdict
    <3>1. j.kind = "CHECK"
      BY <2>2 DEF Checks
    <3>2. ASSUME NEW p \in Loop, Gates(p, j) PROVE FALSE
      <4>1. <<hand[p], j>> \in dep /\ hand[p] \in Checks
        BY <3>2 DEF Gates, Upstream, TypeInv, LoopsOK
      <4>2. j \in Analyses
        BY <4>1, Dependents
      <4> QED BY <3>1, <4>2 DEF Analyses
    <3> QED BY <1>2, <2>1, <3>1, <3>2 DEF Cause, Decides, Accepts
  <2> QED BY <1>2, <2>1, <2>2 DEF Moves
<1>3. ASSUME NEW i, Plans(i) PROVE job'[j] = job[j]
  BY <1>3 DEF Plans, Inserted
<1>4. ASSUME NEW i, Retries(i) PROVE job'[j] = job[j]
  BY <1>4 DEF Retries, Past
<1>5. ASSUME NEW i, Moves(i), i # j PROVE job'[j] = job[j]
  BY <1>5 DEF Moves
<1> QED BY <1>1, <1>2, <1>3, <1>4, <1>5 DEF TableStep

\* A job that is not replaced is where it was after Plans and Retries.
LEMMA NewEdges ==
    ASSUME TypeInv, TableStep, NEW e \in dep'
    PROVE  \/ e \in dep
           \/ e[1] \notin DOMAIN job /\ job'[e[1]].state = "proposed"
           \/ \E f \in dep : /\ f[1] = e[1] /\ e[1] \in DOMAIN job
                             /\ Retries(f[2])
<1>1. ASSUME NEW j, Plans(j), e \notin dep
      PROVE  e[1] \notin DOMAIN job /\ job'[e[1]].state = "proposed"
  <2>1. e[1] = j /\ j \notin DOMAIN job
    BY <1>1 DEF Plans
  <2>2. job'[j] = NewJob(1, MaxOf(j))
    BY <1>1 DEF Plans, Inserted
  <2> QED BY <2>1, <2>2 DEF NewJob
<1>2. ASSUME NEW j, Retries(j), e \notin dep
      PROVE  \E f \in dep : /\ f[1] = e[1] /\ e[1] \in DOMAIN job
                           /\ Retries(f[2])
  <2>1. PICK f \in dep : e = <<f[1], IF f[2] = j THEN RetryOf(j) ELSE f[2]>>
    BY <1>2 DEF Retries
  <2>2. f = <<f[1], f[2]>> /\ f[1] \in DOMAIN job
    BY Dependents
  <2>3. f[2] = j
    BY <1>2, <2>1, <2>2
  <2> QED BY <1>2, <2>1, <2>2, <2>3
<1> QED BY <1>1, <1>2 DEF TableStep, Moves

LEMMA ReportsStep == ASSUME TypeInv, TableStep, ReportsWait PROVE ReportsWait'
<1> SUFFICES ASSUME NEW e \in dep', e[1] \in Reports, job'[e[1]].state \in Worked
             PROVE  \/ job'[e[2]].state \in TerminalJobState
                    \/ job'[e[2]].attempt >= job'[e[2]].max
  BY DEF ReportsWait, Settled
<1>1. RowsOK
  BY DEF TypeInv, TablesOK
<1>2. ASSUME NEW j, Retries(j) PROVE job'[e[1]] = job[e[1]] \/ e[1] \notin DOMAIN job
  BY <1>2 DEF Retries, Worked, Past, Leased
<1>3. ASSUME NEW f \in dep, f[1] = e[1], Retries(f[2]), e[1] \in DOMAIN job
      PROVE  FALSE
  <2>1. Settled(f[2])
    BY <1>2, <1>3 DEF ReportsWait
  <2>2. job[f[2]] \in JobRow
    BY <1>1, <1>3 DEF Retries, RowsOK
  <2> QED BY <1>3, <2>1, <2>2 DEF Settled, Retries, TerminalJobState, JobRow
<1>4. CASE e \in dep
  <2>1. /\ e[1] \in DOMAIN job /\ e[2] \in DOMAIN job /\ e[1] # e[2]
        /\ e[2] \in Upstream(e[1]) /\ e[1].kind = "REPORT"
        /\ job[e[2]] \in JobRow
    BY <1>1, <1>4, Dependents DEF Reports, RowsOK
  <2>2. CASE UNCHANGED job
    BY <1>4, <2>2 DEF ReportsWait, Settled
  <2>3. ASSUME NEW j, Moves(j), Cause(j)
        PROVE  \/ job'[e[2]].state \in TerminalJobState
               \/ job'[e[2]].attempt >= job'[e[2]].max
    <3>1. CASE j = e[1]
      <4>1. job'[e[2]] = job[e[2]]
        BY <2>1, <2>3, <3>1 DEF Moves
      <4>2. CASE job[e[1]].state \in Worked
        BY <1>4, <4>1, <4>2 DEF ReportsWait, Settled
      <4>3. CASE job'[e[1]].state = "assigned"
        <5>1. Satisfied(e[1], e[2])
          BY <2>1, <2>3, <3>1, <4>3 DEF Cause
        <5> QED BY <2>1, <4>1, <5>1
           DEF Satisfied, ReportDepTerminal, TerminalJobState
      <4> QED BY <2>3, <3>1, <4>2, <4>3, WaysOfJobs DEF Moves
    <3>2. CASE j = e[2]
      <4>1. Settled(e[2])
        BY <1>4, <2>1, <2>3, <3>2 DEF ReportsWait, Moves
      <4>2. job[e[2]].attempt >= job[e[2]].max
        BY <2>3, <3>2, <4>1, NoWayFromTerminal DEF Settled, Moves
      <4>3. /\ job'[e[2]].max = job[e[2]].max
            /\ job[e[2]].attempt <= job'[e[2]].attempt
            /\ job'[e[2]] \in JobRow
        BY <2>1, <2>3, <3>2 DEF Moves
      <4> QED BY <2>1, <4>2, <4>3 DEF JobRow
    <3>3. CASE j # e[1] /\ j # e[2]
      BY <1>4, <2>1, <2>3, <3>3 DEF Moves, ReportsWait, Settled
    <3> QED BY <3>1, <3>2, <3>3
  <2>4. ASSUME NEW j, Plans(j)
        PROVE  job'[e[1]] = job[e[1]] /\ job'[e[2]] = job[e[2]]
    BY <2>1, <2>4 DEF Plans, Inserted
  <2>5. ASSUME NEW j, Retries(j)
        PROVE  job'[e[1]] = job[e[1]] /\ job'[e[2]] = job[e[2]]
    <3>1. e[2] # j
      BY <1>3, <1>4, <2>1, <2>5
    <3> QED BY <1>2, <2>1, <2>5, <3>1 DEF Retries
  <2> QED BY <1>4, <2>2, <2>3, <2>4, <2>5 DEF TableStep, ReportsWait, Settled
<1> QED BY <1>3, <1>4, NewEdges DEF Worked, Past, Leased

\* A gate takes the verdict to the ANALYSIS of the CHECK in hand.
LEMMA GatesAnalyses ==
    ASSUME TypeInv, NEW p \in Loop, NEW u, Gates(p, u)
    PROVE  /\ u \in Analyses /\ hand[p] = CheckOf(u.of) /\ hand[p] # u
           /\ hand[p] \in rows[p] /\ hand[p] \in DOMAIN job
<1>1. <<hand[p], u>> \in dep /\ hand[p] \in Checks /\ hand[p] \in rows[p]
  BY DEF Gates, Upstream, TypeInv, LoopsOK
<1> QED BY <1>1, Dependents

\* A machine accepts the CHECK it has in hand.
LEMMA AcceptsChecks ==
    ASSUME TypeInv, NEW p \in Loop, NEW k, Accepts(p, k)
    PROVE  k \in Checks
BY DEF Accepts, TypeInv, LoopsOK

LEMMA DecisionsStep ==
    ASSUME TypeInv, TableStep, DecisionsOK, RowsReady
    PROVE  DecisionsOK'
<1> SUFFICES ASSUME NEW u \in Analyses \cap DOMAIN job',
                    job'[u].state \in Past \ {"succeeded"}, u \notin byHuman'
             PROVE  Gated(u)'
  BY DEF DecisionsOK
<1> DEFINE k == CheckOf(u.of)
<1>1. /\ byHuman \subseteq byHuman' /\ DOMAIN job \subseteq DOMAIN job'
      /\ u.kind = "ANALYSIS" /\ (k \in DOMAIN job => k \in Checks)
  <2>1. byHuman \subseteq byHuman'
    BY DEF TableStep, Cause, Decides, Gates, Accepts, Plans, Retries
  <2>2. k.kind = "CHECK"
    BY DEF CheckOf
  <2> HIDE DEF k
  <2> QED BY <2>1, <2>2, RowsStep, JobFields
     DEF TypeInv, TablesOK, RowsOK, Analyses
<1>2. ASSUME u \in DOMAIN job, job'[u] = job[u] PROVE Gated(u)'
  <2>1. Gated(u)
    BY <1>1, <1>2 DEF DecisionsOK
  <2>2. /\ job'[k].state \in Past /\ job'[k].verdict = job[k].verdict
        /\ k \in DOMAIN job'
    BY <1>1, <2>1, PastStays DEF Gated
  <2> QED BY <1>2, <2>1, <2>2 DEF Gated
<1>3. ASSUME u \in DOMAIN job, Moves(u), Cause(u) PROVE Gated(u)'
  <2>1. job[u].state \in {"succeeded", "review"}
    BY <1>3, WaysOfJobs DEF Moves
  <2>2. ASSUME NEW p \in Loop, Accepts(p, u) PROVE FALSE
    BY <1>1, <2>2, AcceptsChecks DEF Checks
  <2>3. PICK p \in Loop : Gates(p, u)
    BY <1>1, <1>3, <2>1, <2>2 DEF Cause, Decides
  <2>4. /\ hand[p] = k /\ k # u /\ k \in rows[p] /\ k \in DOMAIN job
    BY <2>3, GatesAnalyses
  <2>5. /\ job'[k] = job[k] /\ k \in DOMAIN job'
        /\ job[k].state \in Past /\ job[k].verdict # NoVerdict
    BY <1>3, <2>4 DEF Moves, RowsReady
  <2>6. /\ job'[u].state = IF job[k].verdict \in Accepting
                           THEN "accepted" ELSE "review"
        /\ job'[u].verdict = job[k].verdict
    BY <2>3, <2>4, <2>5 DEF Gates
  <2> HIDE DEF k
  <2> QED BY <2>5, <2>6 DEF Gated, k
<1>4. ASSUME NEW j, Moves(j), Cause(j) PROVE Gated(u)'
  BY <1>2, <1>3, <1>4 DEF Moves
<1>5. ASSUME NEW j, Plans(j) PROVE Gated(u)'
  <2>1. u # j
    <3>1. job'[j] = NewJob(1, MaxOf(j))
      BY <1>5 DEF Plans, Inserted
    <3> QED BY <3>1 DEF NewJob, Past
  <2> QED BY <1>2, <1>5, <2>1 DEF Plans, Inserted
<1>6. ASSUME NEW j, Retries(j) PROVE Gated(u)'
  BY <1>2, <1>6 DEF Retries, Past
<1>7. CASE UNCHANGED <<job, dep, byHuman>>
  BY <1>2, <1>7
<1> QED BY <1>4, <1>5, <1>6, <1>7 DEF TableStep

LEMMA ChecksStep ==
    ASSUME CaseInv, TableStep
    PROVE  ChecksFollow'
<1>1. TypeInv /\ ChecksFollow /\ RowsReady /\ HandsOK
  BY DEF CaseInv
<1> SUFFICES ASSUME NEW e \in dep', e[1] \in Checks
             PROVE  /\ job'[e[1]].state \in Worked => job'[e[2]].state \in Past
                    /\ job'[e[1]].state \in Leased
                         => job'[e[2]].state \in {"succeeded", "accepted"}
                    /\ job'[e[1]].state = "accepted" /\ e[1] \notin byHuman'
                         => job'[e[2]].state # "succeeded"
  BY DEF ChecksFollow
<1> DEFINE k == e[1]
           u == e[2]
<1>2. Leased \cup {"accepted"} \subseteq Worked /\ "proposed" \notin Worked
      /\ "approved" \notin Worked /\ "retry_spawned" \notin Worked
      /\ Leased \cap Past = {}
  BY DEF Worked, Past, Leased
<1>3. ASSUME NEW f \in dep, f[1] = k, Retries(f[2])
      PROVE  job'[k].state \notin Worked
  <2>1. job[k].state \notin Worked
    BY <1>1, <1>3 DEF ChecksFollow, Retries, Past
  <2>2. k \in DOMAIN job
    BY <1>1, <1>3, Dependents
  <2> QED BY <1>2, <1>3, <2>1, <2>2 DEF Retries
<1>4. ASSUME e \in dep
      PROVE  /\ job'[k].state \in Worked => job'[u].state \in Past
             /\ job'[k].state \in Leased
                  => job'[u].state \in {"succeeded", "accepted"}
             /\ job'[k].state = "accepted" /\ k \notin byHuman'
                  => job'[u].state # "succeeded"
  <2>1. /\ k \in DOMAIN job /\ u \in DOMAIN job /\ k # u
        /\ u \in Upstream(k) /\ u \in Analyses /\ k = CheckOf(u.of)
    BY <1>1, <1>4, Dependents
  <2>2. /\ job[k].state \in Worked => job[u].state \in Past
        /\ job[k].state \in Leased => job[u].state \in {"succeeded", "accepted"}
        /\ job[k].state = "accepted" /\ k \notin byHuman
             => job[u].state # "succeeded"
    BY <1>1, <1>4 DEF ChecksFollow
  <2>3. k.kind = "CHECK" /\ u.kind = "ANALYSIS"
    BY <2>1 DEF Analyses, CheckOf
  <2>4. CASE UNCHANGED <<job, dep, byHuman>>
    BY <2>2, <2>4
  <2>5. ASSUME NEW j, Plans(j)
        PROVE  job'[k] = job[k] /\ job'[u] = job[u] /\ byHuman' = byHuman
    BY <2>1, <2>5 DEF Plans, Inserted
  <2>6. ASSUME NEW j, Retries(j)
        PROVE  \/ job'[k] = job[k] /\ job'[u] = job[u] /\ byHuman' = byHuman
               \/ job'[k].state \notin Worked
    <3>1. CASE u = j
      BY <1>3, <1>4, <2>6, <3>1
    <3>2. CASE k = j
      BY <1>2, <2>6, <3>2 DEF Retries
    <3> QED BY <2>1, <2>6, <3>1, <3>2 DEF Retries
  <2>7. ASSUME Moves(k), Cause(k)
        PROVE  /\ job'[k].state \in Worked => job'[u].state \in Past
               /\ job'[k].state \in Leased
                    => job'[u].state \in {"succeeded", "accepted"}
               /\ job'[k].state = "accepted" /\ k \notin byHuman'
                    => job'[u].state # "succeeded"
    <3>1. job'[u] = job[u] /\ <<job[k].state, job'[k].state>> \in JobTransition
      BY <2>1, <2>7 DEF Moves
    <3>2. job'[k].state = "assigned" => job[u].state \in {"succeeded", "accepted"}
      BY <2>1, <2>3, <2>7 DEF Cause, Satisfied
    <3>3. ASSUME job'[k].state = "accepted", k \notin byHuman'
          PROVE  job[u].state # "succeeded"
      <4>1. job[k].state \in {"succeeded", "review"}
        BY <3>1, <3>3, WaysOfJobs DEF Past
      <4>2. ASSUME NEW p \in Loop PROVE ~Gates(p, k)
        BY <1>1, <2>3, <4>2, GatesAnalyses DEF Analyses
      <4>3. PICK p \in Loop : Accepts(p, k)
        BY <2>3, <2>7, <3>3, <4>1, <4>2 DEF Cause, Decides
      <4> QED BY <1>1, <1>4, <4>3 DEF Accepts, HandsOK
    <3>4. {"succeeded", "accepted"} \subseteq Past
      BY DEF Past
    <3> HIDE DEF k, u
    <3> QED BY <2>2, <3>1, <3>2, <3>3, <3>4, WaysOfJobs
  <2>8. ASSUME Moves(u), Cause(u)
        PROVE  /\ job'[k].state \in Worked => job'[u].state \in Past
               /\ job'[k].state \in Leased
                    => job'[u].state \in {"succeeded", "accepted"}
               /\ job'[k].state = "accepted" /\ k \notin byHuman'
                    => job'[u].state # "succeeded"
    <3>1. /\ job'[k] = job[k] /\ byHuman \subseteq byHuman'
          /\ <<job[u].state, job'[u].state>> \in JobTransition
      BY <2>1, <2>8 DEF Moves, Cause, Decides, Gates, Accepts
    <3>2. job[u].state \in Past => job'[u].state \in Past \ {"succeeded"}
      BY <3>1, WaysOfJobs
    <3>3. ASSUME job[k].state \in Leased PROVE job'[u].state = "accepted"
      <4>1. job[u].state = "succeeded"
        BY <2>2, <3>1, <3>3, WaysOfJobs DEF TerminalJobState
      <4>2. ASSUME NEW p \in Loop PROVE ~Gates(p, u)
        BY <1>1, <1>2, <2>1, <3>3, <4>2, GatesAnalyses DEF RowsReady
      <4>3. \/ job'[u].state \in {"accepted", "rejected"}
        BY <2>3, <2>8, <4>1, <4>2 DEF Cause, Decides, Accepts
      <4> QED BY <3>1, <4>1, <4>3
         DEF JobTransition, LeaseExpiry, Leased, PreRunning
    <3> QED BY <1>2, <2>2, <3>1, <3>2, <3>3
  <2>9. ASSUME NEW j, Moves(j), Cause(j), j # k, j # u
        PROVE  /\ job'[k] = job[k] /\ job'[u] = job[u]
               /\ byHuman \subseteq byHuman'
    BY <2>1, <2>9 DEF Moves, Cause, Decides, Gates, Accepts
  <2> HIDE DEF k, u
  <2> QED BY <1>2, <2>2, <2>4, <2>5, <2>6, <2>7, <2>8, <2>9 DEF TableStep
<1> QED BY <1>1, <1>2, <1>3, <1>4, NewEdges

\* What a loop reads, it reads before it moves anything.
LEMMA LoopLooks ==
    ASSUME TypeInv, [Next]_vars
    PROVE  /\ \A p \in Loop : \A k \in rows'[p] :
                k \in rows[p] \/ (k \in Gateable /\ job' = job)
           /\ \A p \in Loop : at'[p] = "accept" =>
                \/ at[p] = "accept" /\ hand'[p] = hand[p]
                \/ /\ job' = job /\ dep' = dep
                   /\ \A u \in Upstream(hand'[p]) : job[u].state # "succeeded"
                \/ /\ hand'[p] = hand[p] /\ hand[p] \in Checks /\ dep' = dep
                   /\ \E u \in Upstream(hand[p]) : job'[u].state # "succeeded"
<1>1. LoopsOK /\ job \in [DOMAIN job -> JobRow]
  BY DEF TypeInv, TablesOK, RowsOK
<1>2. CASE UNCHANGED loops
  BY <1>2 DEF loops
<1>3. ASSUME NEW p \in Loop, LoopStep(p) \/ CrashLoop(p)
      PROVE  /\ \A q \in Loop : \A k \in rows'[q] :
                  k \in rows[q] \/ (k \in Gateable /\ job' = job)
             /\ \A q \in Loop : at'[q] = "accept" =>
                \/ at[q] = "accept" /\ hand'[q] = hand[q]
                \/ /\ job' = job /\ dep' = dep
                   /\ \A u \in Upstream(hand'[q]) : job[u].state # "succeeded"
                \/ /\ hand'[q] = hand[q] /\ hand[q] \in Checks /\ dep' = dep
                   /\ \E u \in Upstream(hand[q]) : job'[u].state # "succeeded"
  <2>1. CASE SelectChecks(p)
    BY <1>1, <2>1 DEF SelectChecks, LoopsOK
  <2>2. CASE ReadUpstream(p)
    <3>1. PICK k \in rows[p] :
             /\ hand' = [hand EXCEPT ![p] = k]
             /\ at' = [at EXCEPT ![p] =
                  IF \E u \in Upstream(k) : job[u].state = "succeeded"
                  THEN "gate" ELSE "accept"]
             /\ UNCHANGED <<job, dep, rows>>
      BY <2>2 DEF ReadUpstream
    <3> QED BY <1>1, <3>1 DEF LoopsOK
  <2>3. CASE Gate(p)
    <3> DEFINE v == job[hand[p]].verdict
               to == IF v \in Accepting THEN "accepted" ELSE "review"
               args == [NoArgs EXCEPT !.verdict = v]
    <3>1. /\ at[p] = "gate" /\ at' = [at EXCEPT ![p] = "accept"]
          /\ UNCHANGED <<rows, hand, dep>>
      BY <2>3 DEF Gate
    <3>2. PICK u \in Upstream(hand[p]) :
             \/ Move(u, to, FALSE, "succeeded", args)
             \/ job[u].state # "succeeded" /\ UNCHANGED job
      BY <2>3 DEF Gate
    <3>3. hand[p] \in Checks /\ job[hand[p]] \in JobRow
      BY <1>1, <3>1 DEF LoopsOK
    <3>4. args \in MoveArgs
      BY <3>3, ArgsAreArgs DEF JobRow
    <3>5. to # "succeeded"
      OBVIOUS
    <3> HIDE DEF args, to
    <3>6. job'[u].state # "succeeded"
      BY <1>1, <3>1, <3>2, <3>4, <3>5, MoveEffect
    <3> QED BY <1>1, <3>1, <3>2, <3>3, <3>6 DEF LoopsOK
  <2>4. CASE AcceptCheck(p)
    BY <1>1, <2>4 DEF AcceptCheck, LoopsOK
  <2>5. CASE ReadStudy(p) \/ SyncStudy(p)
    BY <1>1, <2>5 DEF ReadStudy, SyncStudy, LoopsOK
  <2>6. CASE CrashLoop(p)
    BY <1>1, <2>6 DEF CrashLoop, LoopsOK
  <2> QED BY <1>3, <2>1, <2>2, <2>3, <2>4, <2>5, <2>6 DEF LoopStep
<1>4. CASE Next
  <2>1. ASSUME NEW j, JobStep(j) \/ LeaseOut(j) \/ ApproveJob(j)
                        \/ RejectJob(j) \/ ResolveJob(j)
        PROVE  UNCHANGED loops
    BY <2>1
       DEF JobStep, Claim, Start, Succeed, Fail, Enqueue, AutoAcceptReport,
           CancelDead, SpawnTriage, RunTriage, LeaseOut, ApproveJob, RejectJob,
           ResolveJob
  <2>2. ASSUME Submit \/ SubmitDies \/ ApproveStudy \/ CloseStudy \/ AbortStudy
                  \/ SelectJobs \/ Cascade \/ CascadeEnds
        PROVE  UNCHANGED loops
    BY <2>2
       DEF Submit, PlanAnalysis, PlanCheck, PlanReport, Create, Propose,
           SubmitDies, ApproveStudy, CloseStudy, AbortStudy, SelectJobs,
           Cascade, CascadeEnds
  <2> QED BY <1>2, <1>3, <1>4, <2>1, <2>2
     DEF Next, NextButApproval, Machine, Human
<1>5. CASE UNCHANGED vars
  BY <1>2, <1>5 DEF vars
<1> QED BY <1>4, <1>5

LEMMA RowsReadyStep ==
    ASSUME TypeInv, RowsReady, [Next]_vars
    PROVE  RowsReady'
<1> SUFFICES ASSUME NEW p \in Loop, NEW k \in rows'[p]
             PROVE  job'[k].state \in Past /\ job'[k].verdict # NoVerdict
  BY DEF RowsReady
<1>1. k \in rows[p] \/ (k \in Gateable /\ job' = job)
  BY LoopLooks
<1>2. CASE k \in rows[p]
  <2>1. k \in DOMAIN job
    BY <1>2 DEF TypeInv, LoopsOK
  <2> QED BY <1>2, <2>1, PastStays, StepIsTableStep DEF RowsReady
<1>3. CASE k \in Gateable /\ job' = job
  BY <1>3 DEF Gateable, Past
<1> QED BY <1>1, <1>2, <1>3

LEMMA HandsStep == ASSUME CaseInv, [Next]_vars PROVE HandsOK'
<1>1. /\ TypeInv /\ ChecksFollow /\ RowsReady /\ HandsOK /\ TableStep /\ TypeInv'
  BY StepIsTableStep, TypeStep DEF CaseInv
<1> SUFFICES ASSUME NEW p \in Loop, NEW e \in dep',
                    at'[p] = "accept", hand'[p] = e[1]
             PROVE  job'[e[2]].state # "succeeded"
  BY DEF HandsOK
<1>2. CASE at[p] = "accept" /\ hand'[p] = hand[p]
  <2>1. /\ e[1] \in rows[p] /\ e[1] \in Checks /\ e[1] \in DOMAIN job
        /\ job[e[1]].state \in Past
    BY <1>1, <1>2 DEF TypeInv, LoopsOK, RowsReady
  <2>2. e[1] \notin DOMAIN job \/ e \in dep
    <3>1. ASSUME NEW f \in dep, f[1] = e[1], Retries(f[2]) PROVE FALSE
      BY <1>1, <2>1, <3>1 DEF ChecksFollow, Retries, Worked, Past
    <3> QED BY <1>1, <3>1, NewEdges
  <2>3. e \in dep
    BY <2>1, <2>2
  <2>4. /\ e[2] \in DOMAIN job /\ job[e[2]].state \in Past
        /\ job[e[2]].state # "succeeded"
    BY <1>1, <1>2, <2>1, <2>3, Dependents DEF ChecksFollow, HandsOK, Worked
  <2> QED BY <1>1, <2>4, PastStays
<1>3. CASE /\ job' = job /\ dep' = dep
           /\ \A u \in Upstream(hand'[p]) : job[u].state # "succeeded"
  BY <1>1, <1>3, Dependents
<1>4. CASE /\ hand'[p] = hand[p] /\ hand[p] \in Checks /\ dep' = dep
           /\ \E u \in Upstream(hand[p]) : job'[u].state # "succeeded"
  BY <1>1, <1>4, Dependents
<1> QED BY <1>1, <1>2, <1>3, <1>4, LoopLooks

LEMMA CaseInit == Init \/ Planned => CaseInv
<1>1. Init \/ Planned =>
         /\ \A j \in DOMAIN job : job[j].state = "proposed"
         /\ \A p \in Loop : rows[p] = {} /\ at[p] = "idle"
  BY DEF Init, Planned, Quiet, NewJob
<1>2. "proposed" \notin Worked /\ "proposed" \notin Past /\ "proposed" \notin Leased
  BY DEF Worked, Past, Leased
<1>3. TypeInv => \A e \in dep : e[1] \in DOMAIN job
  BY Dependents
<1>4. TypeInv /\ (Init \/ Planned) => ReportsWait /\ ChecksFollow
  BY <1>1, <1>2, <1>3 DEF ReportsWait, ChecksFollow
<1>5. Init \/ Planned => DecisionsOK /\ RowsReady /\ HandsOK
  BY <1>1, <1>2 DEF DecisionsOK, RowsReady, HandsOK
<1> QED BY <1>4, <1>5, TypeInit DEF CaseInv

LEMMA CaseStep == ASSUME CaseInv, [Next]_vars PROVE CaseInv'
BY StepIsTableStep, TypeStep, ReportsStep, ChecksStep, DecisionsStep,
   RowsReadyStep, HandsStep DEF CaseInv

LEMMA CasesAreRight ==
    ASSUME CaseInv
    PROVE  ReportComesLast /\ ChecksHaveARun /\ VerdictDecides
<1>1. TypeInv /\ ReportsWait /\ ChecksFollow /\ DecisionsOK
  BY DEF CaseInv
<1>2. ASSUME NEW j \in DOMAIN job, NEW u \in Upstream(j)
      PROVE  <<j, u>> \in dep
  BY <1>2 DEF Upstream
<1>3. ReportComesLast
  BY <1>1, <1>2 DEF ReportComesLast, ReportsWait, Settled, Worked, Past
<1>4. ChecksHaveARun
  BY <1>1, <1>2 DEF ChecksHaveARun, ChecksFollow
<1>5. VerdictDecides
  <2> SUFFICES ASSUME NEW k \in Checks \cap DOMAIN job, AcceptedByMachine(k),
                      NEW u \in Upstream(k), u \notin byHuman
               PROVE  /\ job[u].verdict = job[k].verdict
                      /\ job[u].state = IF job[k].verdict \in Accepting
                                        THEN "accepted" ELSE "review"
    BY DEF VerdictDecides
  <2>1. <<k, u>> \in dep /\ job[k].state = "accepted" /\ k \notin byHuman
    BY <1>2 DEF AcceptedByMachine
  <2>2. job[u].state \in Past \ {"succeeded"}
    BY <1>1, <2>1 DEF ChecksFollow, Worked, Past
  <2>3. u \in Analyses \cap DOMAIN job /\ k = CheckOf(u.of)
    BY <1>1, <2>1, Dependents
  <2>4. Gated(u)
    BY <1>1, <2>2, <2>3 DEF DecisionsOK
  <2> QED BY <2>3, <2>4 DEF Gated
<1> QED BY <1>3, <1>4, <1>5

(***************************************************************************)
(* A REPORT is made after its cases.                                       *)
(***************************************************************************)
THEOREM ReportLast == Spec \/ PlannedSpec => []ReportComesLast
BY CaseInit, CaseStep, CasesAreRight, PTL DEF Spec, PlannedSpec

(***************************************************************************)
(* No worker is busy with a CHECK whose ANALYSIS has come to nothing.      *)
(***************************************************************************)
THEOREM RunsAreThere == Spec \/ PlannedSpec => []ChecksHaveARun
BY CaseInit, CaseStep, CasesAreRight, PTL DEF Spec, PlannedSpec

(***************************************************************************)
(* Where the control loop accepted a CHECK, its verdict decided.           *)
(***************************************************************************)
THEOREM VerdictsDecide == Spec \/ PlannedSpec => []VerdictDecides
BY CaseInit, CaseStep, CasesAreRight, PTL DEF Spec, PlannedSpec
-----------------------------------------------------------------------------
(***************************************************************************)
(* Everyone waits only for somebody.                                       *)
(***************************************************************************)
ChecksEndJudged ==
    \A k \in Checks \cap DOMAIN job :
        job[k].state = "succeeded" => job[k].verdict # NoVerdict

NoHuskAhead ==
    \A e \in dep : e[1] \in Checks => job[e[2]].state # "retry_spawned"

\* Nobody has begun anything of a draft.
DraftAtRest ==
    drafting => /\ cmd \notin {"approve", "approving"}
                /\ \A j \in DOMAIN job : job[j].state \in {"proposed", "cancelled"}

WaitInv == StudyInv /\ ChecksEndJudged /\ NoHuskAhead /\ DraftAtRest

\* What the answer to who waits for whom rests on.
Waiting == TypeInv /\ ChecksEndJudged /\ NoHuskAhead

LEMMA ChecksEndStep ==
    ASSUME TypeInv, TableStep, ChecksEndJudged
    PROVE  ChecksEndJudged'
<1> SUFFICES ASSUME NEW k \in Checks \cap DOMAIN job', job'[k].state = "succeeded"
             PROVE  job'[k].verdict # NoVerdict
  BY DEF ChecksEndJudged
<1>1. k.kind = "CHECK"
  BY DEF Checks
<1>2. CASE k \in DOMAIN job /\ job'[k] = job[k]
  BY <1>2 DEF ChecksEndJudged
<1>3. ASSUME NEW j, Moves(j), Cause(j) PROVE job'[k].verdict # NoVerdict
  <2>1. CASE j = k
    BY <1>1, <1>3, <2>1 DEF Cause
  <2>2. CASE j # k
    BY <1>2, <1>3, <2>2 DEF Moves
  <2> QED BY <2>1, <2>2
<1>4. ASSUME NEW j, Plans(j) PROVE job'[k].verdict # NoVerdict
  <2>1. job' = [i \in DOMAIN job \cup {j} |->
                   IF i = j THEN NewJob(1, MaxOf(j)) ELSE job[i]]
    BY <1>4 DEF Plans, Inserted
  <2>2. k # j
    BY <2>1 DEF NewJob
  <2> QED BY <1>2, <2>1, <2>2
<1>5. ASSUME NEW j, Retries(j) PROVE job'[k].verdict # NoVerdict
  BY <1>2, <1>5 DEF Retries
<1> QED BY <1>2, <1>3, <1>4, <1>5 DEF TableStep

\* Dependents follow a retry, and a CHECK is planned on an ANALYSIS at rest.
LEMMA HuskStep ==
    ASSUME TypeInv, TableStep, DraftAtRest, NoHuskAhead
    PROVE  NoHuskAhead'
<1> SUFFICES ASSUME NEW e \in dep', e[1] \in Checks
             PROVE  job'[e[2]].state # "retry_spawned"
  BY DEF NoHuskAhead
<1>1. \A f \in dep : f = <<f[1], f[2]>> /\ f[2] \in DOMAIN job
  BY Dependents
<1>2. ASSUME UNCHANGED <<job, dep>> PROVE job'[e[2]].state # "retry_spawned"
  BY <1>2 DEF NoHuskAhead
<1>3. ASSUME NEW j, Moves(j), Cause(j) PROVE job'[e[2]].state # "retry_spawned"
  BY <1>1, <1>3 DEF Moves, Cause, NoHuskAhead
<1>4. ASSUME NEW j, Plans(j) PROVE job'[e[2]].state # "retry_spawned"
  <2>1. /\ drafting /\ j \notin DOMAIN job
        /\ job' = [i \in DOMAIN job \cup {j} |->
                      IF i = j THEN NewJob(1, MaxOf(j)) ELSE job[i]]
    BY <1>4 DEF Plans, Inserted
  <2>2. e[2] \in DOMAIN job
    BY <1>1, <1>4 DEF Plans
  <2>3. job'[e[2]] = job[e[2]]
    BY <2>1, <2>2
  <2> QED BY <2>1, <2>2, <2>3 DEF DraftAtRest
<1>5. ASSUME NEW j, Retries(j) PROVE job'[e[2]].state # "retry_spawned"
  <2>1. PICK f \in dep : e = <<f[1], IF f[2] = j THEN RetryOf(j) ELSE f[2]>>
    BY <1>5 DEF Retries
  <2>2. CASE f[2] = j
    BY <1>5, <2>1, <2>2 DEF Retries
  <2>3. CASE f[2] # j
    <3>1. e[1] = f[1] /\ e[2] = f[2] /\ f[2] \in DOMAIN job
      BY <1>1, <2>1, <2>3
    <3>2. job'[f[2]] = job[f[2]]
      BY <1>5, <2>3, <3>1 DEF Retries
    <3> QED BY <3>1, <3>2 DEF NoHuskAhead
  <2> QED BY <2>2, <2>3
<1> QED BY <1>2, <1>3, <1>4, <1>5 DEF TableStep

\* Where all jobs are proposed or cancelled, only people move them.
LEMMA RestMoves ==
    ASSUME TypeInv, NEW i \in DOMAIN job, job[i].state \in {"proposed", "cancelled"},
           NEW j, NEW to, NEW human, NEW expected, NEW args \in MoveArgs,
           Move(j, to, human, expected, args), dep' = dep,
           \/ expected \notin {AnyState, "proposed", "cancelled"}
           \/ to # "approved"
    PROVE  job'[i].state \in {"proposed", "cancelled"}
<1>1. job \in [DOMAIN job -> JobRow]
  BY DEF TypeInv, TablesOK, RowsOK
<1>2. /\ Moves(j) /\ job'[j].state = to
      /\ expected \in {AnyState, job[j].state}
  BY <1>1, MoveEffect
<1>3. <<job[j].state, to>> \in JobTransition
  BY <1>2 DEF Moves
<1>4. CASE i = j
  <2>1. job[i].state = "proposed" /\ to \in {"approved", "cancelled"}
    BY <1>3, <1>4 DEF JobTransition, LeaseExpiry, Leased, PreRunning
  <2> QED BY <1>2, <1>4, <2>1
<1>5. CASE i # j
  BY <1>2, <1>5 DEF Moves
<1> QED BY <1>4, <1>5
LEMMA RestIsKept ==
    ASSUME TypeInv, DraftAtRest, drafting, NextButApproval, NEW i \in DOMAIN job
    PROVE  job'[i].state \in {"proposed", "cancelled"}
<1>1. /\ job[i].state \in {"proposed", "cancelled"}
      /\ \A j \in DOMAIN job : job[j].state \in {"proposed", "cancelled"}
      /\ cmd # "approving"
  BY DEF DraftAtRest
<1>2. \A s \in {"queued", "assigned", "running", "approved", "succeeded",
                "failed", "escalated"} :
         s \notin {AnyState, "proposed", "cancelled"}
  BY NullsAssumption DEF JobState, PreRunning
<1>3. ASSUME NEW j, NEW to, NEW human, NEW expected, NEW args \in MoveArgs,
             Move(j, to, human, expected, args), dep' = dep,
             \/ expected \in {"queued", "assigned", "running", "approved",
                              "succeeded", "failed", "escalated"}
             \/ to # "approved"
      PROVE  job'[i].state \in {"proposed", "cancelled"}
  BY <1>1, <1>2, <1>3, RestMoves
<1>4. ASSUME NEW j \in DOMAIN job, JobStep(j)
      PROVE  job'[i].state \in {"proposed", "cancelled"}
  <2>1. CASE Claim(j)
    <3>1. PICK w \in Worker : Move(j, "assigned", FALSE, "queued", ClaimArgs(w))
      BY <2>1 DEF Claim
    <3> QED BY <1>3, <2>1, <3>1, ArgsAreArgs DEF Claim
  <2>2. CASE Start(j) \/ Enqueue(j) \/ AutoAcceptReport(j) \/ SpawnTriage(j)
    <3>1. dep' = dep
      BY <2>2 DEF Start, Enqueue, AutoAcceptReport, SpawnTriage
    <3>2. PICK to \in {"running", "queued", "accepted", "triage"},
            from \in {"assigned", "approved", "succeeded", "failed"} :
             Move(j, to, FALSE, from, NoArgs)
      BY <2>2 DEF Start, Enqueue, AutoAcceptReport, SpawnTriage
    <3> QED BY <1>3, <3>1, <3>2, ArgsAreArgs
  <2>3. CASE CancelDead(j)
    BY <1>3, <2>3, ArgsAreArgs DEF CancelDead
  <2>4. CASE Succeed(j)
    <3>1. PICK verdict \in PossibleVerdicts(j), run \in RunRef \cup {NoRun} :
             Move(j, "succeeded", FALSE, "running",
                  [NoArgs EXCEPT !.verdict = verdict, !.run = run])
      BY <2>4 DEF Succeed
    <3>2. verdict \in Verdict \cup {NoVerdict}
      BY ControlAssumption DEF PossibleVerdicts
    <3> DEFINE args == [NoArgs EXCEPT !.verdict = verdict, !.run = run]
    <3>3. args \in MoveArgs
      BY <3>2, ArgsAreArgs
    <3>4. Move(j, "succeeded", FALSE, "running", args) /\ dep' = dep
      BY <2>4, <3>1 DEF Succeed
    <3> HIDE DEF args
    <3> QED BY <1>3, <3>3, <3>4
  <2>5. CASE Fail(j)
    <3>1. PICK run \in RunRef \cup {NoRun} :
             Move(j, "failed", FALSE, "running", [NoArgs EXCEPT !.run = run])
      BY <2>5 DEF Fail
    <3>2. dep' = dep
      BY <2>5 DEF Fail
    <3> QED BY <1>3, <3>1, <3>2, ArgsAreArgs
  <2>6. CASE RunTriage(j)
    BY <1>1, <2>6 DEF RunTriage
  <2> QED BY <1>4, <2>1, <2>2, <2>3, <2>4, <2>5, <2>6 DEF JobStep
<1>5. ASSUME NEW j \in DOMAIN job, LeaseOut(j)
      PROVE  job'[i].state \in {"proposed", "cancelled"}
  BY <1>1, <1>5 DEF LeaseOut, Leased
<1>6. ASSUME NEW p \in Loop, LoopStep(p) \/ CrashLoop(p)
      PROVE  job'[i].state \in {"proposed", "cancelled"}
  <2>1. CASE job' = job
    BY <1>1, <2>1
  <2>2. CASE Gate(p) /\ job' # job
    <3> DEFINE v == job[hand[p]].verdict
               args == [NoArgs EXCEPT !.verdict = v]
    <3>1. /\ dep' = dep
          /\ \E to : \E u : Move(u, to, FALSE, "succeeded", args)
      BY <2>2 DEF Gate
    <3>2. args \in MoveArgs
      <4>1. hand[p] \in DOMAIN job /\ job \in [DOMAIN job -> JobRow]
        BY <2>2 DEF Gate, TypeInv, LoopsOK, TablesOK, RowsOK
      <4>2. v \in Verdict \cup {NoVerdict}
        BY <4>1 DEF JobRow
      <4> QED BY <4>2, ArgsAreArgs
    <3> HIDE DEF args, v
    <3> QED BY <1>3, <3>1, <3>2
  <2>3. CASE AcceptCheck(p) /\ job' # job
    <3>1. dep' = dep /\ Move(hand[p], "accepted", FALSE, "succeeded", NoArgs)
      BY <2>3 DEF AcceptCheck
    <3> QED BY <1>3, <3>1, ArgsAreArgs
  <2> QED BY <1>6, <2>1, <2>2, <2>3
     DEF LoopStep, SelectChecks, ReadUpstream, ReadStudy, SyncStudy, CrashLoop
<1>7. CASE Human
  <2>1. CASE Cascade
    <3>1. PICK r \in todo : Move(r.id, CascadeTarget, TRUE, r.state, NoArgs)
      BY <2>1 DEF Cascade
    <3>2. dep' = dep /\ CascadeTarget # "approved"
      BY <1>1, <2>1 DEF Cascade, CascadeTarget
    <3> QED BY <1>3, <3>1, <3>2, ArgsAreArgs
  <2>2. ASSUME NEW j \in DOMAIN job, RejectJob(j)
        PROVE  job'[i].state \in {"proposed", "cancelled"}
    <3>1. PICK to \in {"cancelled", "rejected"} : Move(j, to, TRUE, AnyState, NoArgs)
      BY <2>2 DEF RejectJob
    <3>2. dep' = dep /\ to # "approved"
      BY <2>2 DEF RejectJob
    <3> QED BY <1>3, <3>1, <3>2, ArgsAreArgs
  <2>3. ASSUME NEW j \in DOMAIN job, ResolveJob(j)
        PROVE  job'[i].state \in {"proposed", "cancelled"}
    <3>1. PICK to : Move(j, to, TRUE, "escalated", NoArgs)
      BY <2>3 DEF ResolveJob
    <3>2. dep' = dep
      BY <2>3 DEF ResolveJob
    <3> QED BY <1>3, <3>1, <3>2, ArgsAreArgs
  <2>4. CASE ApproveStudy \/ CloseStudy \/ AbortStudy \/ SelectJobs \/ CascadeEnds
    BY <1>1, <2>4
       DEF ApproveStudy, CloseStudy, AbortStudy, SelectJobs, CascadeEnds
  <2> QED BY <1>7, <2>1, <2>2, <2>3, <2>4 DEF Human
<1>8. CASE Submit \/ SubmitDies
  BY <1>1, <1>8
     DEF Submit, PlanAnalysis, PlanCheck, PlanReport, Create, Present, Inserted,
         Propose, SubmitDies
<1> QED BY <1>4, <1>5, <1>6, <1>7, <1>8 DEF NextButApproval, Machine

LEMMA DraftStep ==
    ASSUME StudyInv, DraftAtRest, [OrderlyNext]_vars
    PROVE  DraftAtRest'
<1> SUFFICES ASSUME drafting'
             PROVE  /\ cmd' \notin {"approve", "approving"}
                    /\ \A j \in DOMAIN job' : job'[j].state \in {"proposed", "cancelled"}
  BY DEF DraftAtRest
<1>1. TypeInv /\ TableStep /\ [Next]_vars
  BY StepIsTableStep DEF StudyInv, OrderlyNext, Next
<1>2. drafting
  BY <1>1, StudyStep
<1>3. study # "proposed"
  BY <1>2 DEF StudyInv, PlanIsWhole
<1>4. NextButApproval \/ UNCHANGED vars
  BY <1>2 DEF OrderlyNext
<1>5. cmd' \notin {"approve", "approving"}
  <2>1. cmd \notin {"approve", "approving"}
    BY <1>2 DEF DraftAtRest
  <2>2. ASSUME NEW j,
               \/ JobStep(j) \/ RejectJob(j) \/ ResolveJob(j) \/ LeaseOut(j)
        PROVE  cmd' = cmd
    BY <2>2
       DEF JobStep, Claim, Start, Succeed, Fail, Enqueue, AutoAcceptReport,
           CancelDead, SpawnTriage, RunTriage, RejectJob, ResolveJob, LeaseOut, cli
  <2>3. ASSUME NEW p, LoopStep(p) \/ CrashLoop(p) PROVE cmd' = cmd
    BY <2>3
       DEF LoopStep, SelectChecks, ReadUpstream, Gate, AcceptCheck, ReadStudy,
           SyncStudy, CrashLoop, cli
  <2>4. CASE Submit \/ SubmitDies
    BY <2>1, <2>4
       DEF Submit, PlanAnalysis, PlanCheck, PlanReport, Create, Propose,
           SubmitDies, cli
  <2>5. CASE ApproveStudy \/ CloseStudy \/ AbortStudy \/ SelectJobs
               \/ Cascade \/ CascadeEnds
    BY <1>3, <2>1, <2>5, StudyMoves
       DEF ApproveStudy, CloseStudy, AbortStudy, SelectJobs, Cascade, CascadeEnds,
           StudyMove, cli
  <2>6. CASE UNCHANGED vars
    BY <2>1, <2>6 DEF vars, cli
  <2> QED BY <1>4, <2>1, <2>2, <2>3, <2>4, <2>5, <2>6
     DEF NextButApproval, Machine, Human
<1>6. ASSUME NEW i \in DOMAIN job
      PROVE  job'[i].state \in {"proposed", "cancelled"}
  BY <1>1, <1>2, <1>4, RestIsKept DEF DraftAtRest, vars
<1>7. ASSUME NEW i \in DOMAIN job' \ DOMAIN job
      PROVE  job'[i].state = "proposed"
  <2>1. ASSUME NEW j, Plans(j) PROVE job'[i].state = "proposed"
    BY <2>1 DEF Plans, Inserted, NewJob
  <2>2. ASSUME NEW j, Retries(j) PROVE FALSE
    BY <1>2, <2>2 DEF Retries, DraftAtRest
  <2> QED BY <1>1, <2>1, <2>2 DEF TableStep, Moves
<1> QED BY <1>5, <1>6, <1>7
LEMMA WaitStep == ASSUME WaitInv, [OrderlyNext]_vars PROVE WaitInv'
<1>1. /\ StudyInv /\ TypeInv /\ TableStep /\ [Next]_vars
      /\ ChecksEndJudged /\ NoHuskAhead /\ DraftAtRest
  BY StepIsTableStep DEF WaitInv, StudyInv, OrderlyNext, Next
<1> QED BY <1>1, StudyInvStep, ChecksEndStep, HuskStep, DraftStep DEF WaitInv

LEMMA WaitInit == Init \/ Planned => WaitInv
<1>1. Init \/ Planned =>
         /\ \A j \in DOMAIN job : job[j].state = "proposed"
         /\ cmd = "none"
  BY DEF Init, Planned, Quiet, NewJob
<1>2. Init \/ Planned => StudyInv /\ \A e \in dep : e[2] \in DOMAIN job
  BY StudyInvInit, Dependents DEF StudyInv
<1> QED BY <1>1, <1>2 DEF WaitInv, ChecksEndJudged, NoHuskAhead, DraftAtRest

\* Who waits: a planned CHECK for its ANALYSIS, or the REPORT for its CHECKs.
LEMMA CheckWaits ==
    ASSUME Waiting, NEW k \in Checks \cap DOMAIN job, ~GoesOn(k),
           job[k].state = "queued", NEW u \in HeldBackBy(k)
    PROVE  OnTheMove(u)
<1>1. /\ TypeInv /\ <<k, u>> \in dep /\ u \in DOMAIN job /\ ~Satisfied(k, u)
      /\ k.kind = "CHECK"
  BY DEF Waiting, HeldBackBy, Upstream, Checks
<1>2. u \in Analyses
  BY <1>1, Dependents
<1>3. job[u].state \in JobState /\ job[u].state # "retry_spawned"
  BY <1>1 DEF Waiting, NoHuskAhead, TypeInv, TablesOK, RowsOK, JobRow
<1>4. job[u].state \notin {"rejected", "infeasible", "cancelled"}
  BY <1>1 DEF GoesOn, Dead, HeldBackBy
<1>5. /\ job[u].state # "accepted"
      /\ job[u].state = "succeeded" => ~AutoAccept
  BY <1>1 DEF Satisfied
<1>6. Upstream(u) = {}
  <2>1. ASSUME NEW v \in Upstream(u) PROVE FALSE
    BY <1>1, <1>2, <2>1, Dependents DEF Upstream, Analyses, Checks, Reports, TypeInv, TablesOK, DepsOK
  <2> QED BY <2>1
<1>7. job[u].state = "queued" => GoesOn(u)
  BY <1>6 DEF GoesOn, HeldBackBy
<1>8. job[u].state \in Leased \cup {"approved", "failed", "triage"} => GoesOn(u)
  BY DEF GoesOn
<1> QED BY <1>3, <1>4, <1>5, <1>7, <1>8
   DEF OnTheMove, Inbox, JobState, PreRunning, Leased, TerminalJobState

LEMMA ReportWaits ==
    ASSUME Waiting, NEW r \in Reports \cap DOMAIN job, NEW u \in HeldBackBy(r)
    PROVE  OnTheMove(u) \/ Waits(u)
<1>1. /\ TypeInv /\ <<r, u>> \in dep /\ u \in DOMAIN job /\ ~Satisfied(r, u)
      /\ r.kind = "REPORT"
  BY DEF Waiting, HeldBackBy, Upstream, Reports
<1>2. u \in Checks
  BY <1>1, Dependents
<1>3. job[u].state \in JobState
  BY <1>1 DEF TypeInv, TablesOK, RowsOK, JobRow
<1>4. job[u].state \notin TerminalJobState
  BY <1>1 DEF Satisfied, ReportDepTerminal, TerminalJobState
<1>5. job[u].state = "succeeded" => GoesOn(u)
  BY <1>1, <1>2 DEF Waiting, ChecksEndJudged, GoesOn, Gateable, Checks
<1>6. job[u].state \in Leased \cup {"approved", "failed", "triage"} => GoesOn(u)
  BY DEF GoesOn
<1> QED BY <1>3, <1>4, <1>5, <1>6
   DEF OnTheMove, Waits, Inbox, JobState, PreRunning, Leased

LEMMA WaitersAreRight == ASSUME Waiting PROVE NoStandstill
<1> SUFFICES ASSUME NEW j \in DOMAIN job, Waits(j), NEW u \in HeldBackBy(j)
             PROVE  \/ OnTheMove(u)
                    \/ Waits(u) /\ \A v \in HeldBackBy(u) : OnTheMove(v)
  BY DEF NoStandstill
<1>1. TypeInv /\ <<j, u>> \in dep /\ u \in DOMAIN job
  BY DEF Waiting, HeldBackBy, Upstream
<1>2. \/ j \in Checks \cap DOMAIN job
      \/ j \in Reports \cap DOMAIN job /\ u \in Checks \cap DOMAIN job
  BY <1>1, Dependents DEF TypeInv, TablesOK, DepsOK
<1>3. CASE j \in Checks \cap DOMAIN job
  BY <1>3, CheckWaits DEF Waits
<1>4. CASE j \in Reports \cap DOMAIN job /\ u \in Checks \cap DOMAIN job
  <2>1. OnTheMove(u) \/ Waits(u)
    BY <1>4, ReportWaits
  <2>2. Waits(u) => \A v \in HeldBackBy(u) : OnTheMove(v)
    BY <1>4, CheckWaits DEF Waits
  <2> QED BY <2>1, <2>2
<1> QED BY <1>2, <1>3, <1>4

(***************************************************************************)
(* What holds a queued job back is on the move, or held back by what is:   *)
(* a study never stands still, with any number of cases, while a job of it *)
(* waits.  Only jobs of a draft must not be approved one by one.           *)
(***************************************************************************)
THEOREM NobodyStandsStill == OrderlySpec \/ PlannedSpec => []NoStandstill
<1>1. Planned => ~drafting
  BY DEF Planned
<1>2. ASSUME WaitInv, ~drafting, [Next]_vars
      PROVE  ~drafting' /\ [OrderlyNext]_vars
  BY <1>2, StudyStep DEF WaitInv, StudyInv, Next, OrderlyNext
<1>3. PlannedSpec => []WaitInv
  BY <1>1, <1>2, WaitInit, WaitStep, PTL DEF PlannedSpec
<1>4. OrderlySpec => []WaitInv
  BY WaitInit, WaitStep, PTL DEF OrderlySpec
<1>5. WaitInv => Waiting
  BY DEF WaitInv, StudyInv, Waiting
<1> QED BY <1>3, <1>4, <1>5, WaitersAreRight, PTL
-----------------------------------------------------------------------------
(***************************************************************************)
(* The work of a study is finite.                                          *)
(***************************************************************************)
WithinAttempts == \A j \in DOMAIN job : job[j].attempt <= job[j].max

UsesUp(j) == WorkLeft(job'[j]) \in 0 .. WorkLeft(job[j]) - 1 \/ Requeued(j)

LEMMA StepsAreNumbers == \A state : StepsLeft(state) \in 0..8
BY DEF StepsLeft

\* A move forward, or back to the queue at the price of an attempt.
LEMMA MovesAhead ==
    ASSUME NEW from, NEW to, <<from, to>> \in JobTransition,
           ~(from = "escalated" /\ to = "queued")
    PROVE  <<from, to>> \in LeaseExpiry \/ StepsLeft(to) < StepsLeft(from)
<1>1. CASE <<from, to>> \in LeaseExpiry
  BY <1>1
<1>2. CASE <<from, to>> \in PreRunning \X {"cancelled"}
  BY <1>2 DEF PreRunning, StepsLeft
<1>3. CASE <<from, to>> \notin LeaseExpiry \cup (PreRunning \X {"cancelled"})
  <2>1. \/ from = "proposed" /\ to = "approved"
        \/ from = "approved" /\ to = "queued"
        \/ from = "queued" /\ to = "assigned"
        \/ from = "assigned" /\ to \in {"running", "failed"}
        \/ from = "running" /\ to \in {"succeeded", "failed"}
        \/ from = "succeeded" /\ to \in {"accepted", "review"}
        \/ from = "review" /\ to \in {"accepted", "rejected"}
        \/ from = "failed" /\ to = "triage"
        \/ from = "triage" /\ to \in {"retry_spawned", "infeasible", "escalated"}
        \/ from = "escalated" /\ to \in {"cancelled", "infeasible"}
    BY <1>3 DEF JobTransition
  <2> QED BY <2>1 DEF StepsLeft
<1> QED BY <1>1, <1>2, <1>3

LEMMA MoveUsesUp ==
    ASSUME TypeInv, WithinAttempts, NEW j, Moves(j), Cause(j)
    PROVE  UsesUp(j) /\ job'[j].attempt <= job'[j].max
<1>1. /\ job[j].attempt \in Nat /\ job[j].max \in Nat
      /\ job[j].attempt <= job[j].max
      /\ job'[j].max = job[j].max
      /\ job'[j].attempt = AttemptAfter(job[j], job'[j].state)
      /\ <<job[j].state, job'[j].state>> \in JobTransition
  BY DEF TypeInv, TablesOK, RowsOK, Moves, JobRow, WithinAttempts
<1>2. /\ StepsLeft(job[j].state) \in 0..8 /\ StepsLeft(job'[j].state) \in 0..8
  BY StepsAreNumbers
<1>3. CASE <<job[j].state, job'[j].state>> \in LeaseExpiry
  <2>1. job[j].state \in Leased /\ job'[j].state = "queued"
    BY <1>3 DEF LeaseExpiry
  <2>2. job[j].attempt < job[j].max
    BY <2>1 DEF Cause, Leased
  <2>3. job'[j].attempt = job[j].attempt + 1
    BY <1>1, <1>3 DEF AttemptAfter
  <2>4. StepsLeft(job'[j].state) < StepsLeft(job[j].state) + 9
    BY <1>2
  <2> QED BY <1>1, <1>2, <2>2, <2>3, <2>4 DEF UsesUp, WorkLeft
<1>4. CASE <<job[j].state, job'[j].state>> \notin LeaseExpiry
  <2>1. job'[j].attempt = job[j].attempt
    BY <1>1, <1>4 DEF AttemptAfter
  <2>2. CASE job[j].state = "escalated" /\ job'[j].state = "queued"
    BY <1>1, <2>1, <2>2 DEF UsesUp, Requeued, Cause, Leased
  <2>3. CASE ~(job[j].state = "escalated" /\ job'[j].state = "queued")
    <3>1. StepsLeft(job'[j].state) < StepsLeft(job[j].state)
      BY <1>1, <1>4, <2>3, MovesAhead
    <3> QED BY <1>1, <1>2, <2>1, <3>1 DEF UsesUp, WorkLeft
  <2> QED BY <2>2, <2>3
<1> QED BY <1>3, <1>4

\* A retry has one attempt less before it.
LEMMA RetryUsesUp ==
    ASSUME TypeInv, WithinAttempts, NEW j, Retries(j)
    PROVE  /\ UsesUp(j) /\ Replaces(RetryOf(j), j)
           /\ job'[j].attempt <= job'[j].max
           /\ job'[RetryOf(j)].attempt <= job'[RetryOf(j)].max
<1> DEFINE r == RetryOf(j)
<1>1. /\ j \in DOMAIN job /\ r.kind = j.kind /\ r.of = j.of
      /\ job[j].attempt \in Nat /\ job[j].max \in Nat
  BY DEF Retries, TypeInv, TablesOK, RowsOK, JobRow, RetryOf,
         Job, Analyses, Checks, Reports
<1>2. /\ job[j].state = "triage" /\ job[j].attempt < job[j].max
      /\ job'[j].state = "retry_spawned"
      /\ job'[j].attempt = job[j].attempt /\ job'[j].max = job[j].max
      /\ job'[r].state \in {"proposed", "approved"}
      /\ job'[r].attempt = job[j].attempt + 1 /\ job'[r].max = job[j].max
  BY DEF Retries
<1> HIDE DEF r
<1>3. /\ StepsLeft("triage") = 2 /\ StepsLeft("retry_spawned") = 0
      /\ StepsLeft("proposed") = 8 /\ StepsLeft("approved") = 7
  BY DEF StepsLeft
<1>4. UsesUp(j) /\ job'[j].attempt <= job'[j].max
  BY <1>1, <1>2, <1>3 DEF UsesUp, WorkLeft
<1>5. Replaces(r, j) /\ job'[r].attempt <= job'[r].max
  BY <1>1, <1>2, <1>3 DEF Replaces, WorkLeft
<1> QED BY <1>4, <1>5 DEF r

LEMMA WorkStep ==
    ASSUME TypeInv, WithinAttempts, TableStep
    PROVE  /\ WithinAttempts'
           /\ \A j \in DOMAIN job : job'[j] = job[j] \/ UsesUp(j)
           /\ \A r \in DOMAIN job' \ DOMAIN job :
                 \/ drafting /\ r \in Plan
                 \/ \E j \in DOMAIN job : Replaces(r, j)
<1>1. CASE UNCHANGED job
  BY <1>1 DEF WithinAttempts
<1>2. ASSUME NEW j, Moves(j), Cause(j)
      PROVE  /\ WithinAttempts' /\ DOMAIN job' = DOMAIN job
             /\ \A i \in DOMAIN job : job'[i] = job[i] \/ UsesUp(i)
  BY <1>2, MoveUsesUp DEF Moves, WithinAttempts
<1>3. ASSUME NEW j, Plans(j)
      PROVE  /\ WithinAttempts' /\ drafting /\ j \in Plan
             /\ DOMAIN job' = DOMAIN job \cup {j}
             /\ \A i \in DOMAIN job : job'[i] = job[i]
  <2>1. /\ drafting /\ j \in Plan /\ j \notin DOMAIN job
        /\ job' = [i \in DOMAIN job \cup {j} |->
                      IF i = j THEN NewJob(1, MaxOf(j)) ELSE job[i]]
    BY <1>3 DEF Plans, Inserted
  <2>2. 1 <= MaxOf(j)
    BY ControlAssumption DEF MaxOf
  <2>3. NewJob(1, MaxOf(j)).attempt = 1 /\ NewJob(1, MaxOf(j)).max = MaxOf(j)
    BY DEF NewJob
  <2> QED BY <2>1, <2>2, <2>3 DEF WithinAttempts
<1>4. ASSUME NEW j, Retries(j)
      PROVE  /\ WithinAttempts' /\ j \in DOMAIN job
             /\ DOMAIN job' = DOMAIN job \cup {RetryOf(j)}
             /\ Replaces(RetryOf(j), j)
             /\ \A i \in DOMAIN job : job'[i] = job[i] \/ UsesUp(i)
  <2>1. /\ j \in DOMAIN job /\ DOMAIN job' = DOMAIN job \cup {RetryOf(j)}
        /\ \A i \in DOMAIN job : i # j => job'[i] = job[i]
    BY <1>4 DEF Retries
  <2> QED BY <1>4, <2>1, RetryUsesUp DEF WithinAttempts
<1> QED BY <1>1, <1>2, <1>3, <1>4 DEF TableStep

(***************************************************************************)
(* Everything anybody does uses up some of the work of a study, which only *)
(* the plan and the re-queues of a human add to: with finitely many cases  *)
(* it ends.                                                                *)
(***************************************************************************)
THEOREM WorkIsFinite == Spec \/ PlannedSpec => WorkIsUsedUp
<1>1. Init \/ Planned => WithinAttempts
  <2>1. \A max \in {MaxAttempts, ReportAttempts} :
           NewJob(1, max).attempt <= NewJob(1, max).max
    BY ControlAssumption DEF NewJob
  <2> QED BY <2>1 DEF Init, Planned, WithinAttempts
<1>2. ASSUME TypeInv, WithinAttempts, [Next]_vars
      PROVE  /\ WithinAttempts'
             /\ \A j \in DOMAIN job : job'[j] = job[j] \/ UsesUp(j)
             /\ \A r \in DOMAIN job' \ DOMAIN job :
                   \/ drafting /\ r \in Plan
                   \/ \E j \in DOMAIN job : Replaces(r, j)
  BY <1>2, StepIsTableStep, WorkStep
<1>3. ASSUME TypeInv, WithinAttempts, [Next]_vars
      PROVE  [/\ \A j \in DOMAIN job :
                    \/ job'[j] = job[j]
                    \/ WorkLeft(job'[j]) \in 0 .. WorkLeft(job[j]) - 1
                    \/ Requeued(j)
              /\ \A r \in DOMAIN job' \ DOMAIN job :
                    \/ drafting /\ r \in Plan
                    \/ \E j \in DOMAIN job : Replaces(r, j)]_vars
  BY <1>2, <1>3 DEF UsesUp
<1> QED BY <1>1, <1>2, <1>3, TypeInit, TypeStep, PTL
   DEF Spec, PlannedSpec, WorkIsUsedUp
=============================================================================
