--------------------------- MODULE HandlersProofs ---------------------------
(***************************************************************************)
(* Theorems about Handlers, for any number of workers, cases and control   *)
(* loops, any results and any acceptance block: its workers are workers as *)
(* Control knows them, so that what is proved of Control holds here, too,  *)
(* and what late processes write is about the job they write it to.        *)
(***************************************************************************)
EXTENDS Handlers, ControlProofs

Steps == {"start", "run", "write", "conclude", "announce", "commit", "recover"}

TaskRow ==
    [at : Steps \cup {"idle"}, job : Job \cup {NoCheck}, attempt : Nat,
     run : RunRef \cup {NoRun}, verdict : Verdict \cup {NoVerdict},
     shows : SUBSET [of : Case, run : RunRef \cup {NoRun}]]

OwnTyped ==
    /\ task \in [Worker -> TaskRow]
    /\ \A w \in Worker :
          /\ IF task[w].at = "idle" THEN task[w] = Idle
                                    ELSE task[w].job \in DOMAIN job
          /\ task[w].run \in DOMAIN results \cup {NoRun}
    /\ \A j \in DOMAIN job : job[j].run \in DOMAIN results \cup {NoRun}
    /\ DOMAIN results \subseteq Key /\ results \in [DOMAIN results -> Result]
    /\ briefing \in [written : BOOLEAN, concluded : BOOLEAN, announced : BOOLEAN,
                     shows : SUBSET [of : Case, run : RunRef \cup {NoRun}]]

\* An attempt beyond max does not come about: who requeues has looked, in the
\* same step, and only exhausted jobs wait for a human.
WithinMax ==
    \A j \in DOMAIN job :
        /\ job[j].attempt <= job[j].max
        /\ job[j].state = "escalated" => job[j].attempt = job[j].max

\* What a CHECK has been claimed for has succeeded, and what is about to be
\* recorded is the verdict on the run of it, or on no run.
JudgedInHand ==
    \A w \in Worker : task[w].at # "idle" /\ task[w].job.kind = "CHECK" =>
        /\ \A u \in Upstream(task[w].job) : job[u].state \in Past
        /\ task[w].at = "commit" =>
              /\ task[w].verdict = VerdictOn(task[w].run)
              /\ Upstream(task[w].job) = {} => task[w].run = NoRun
              /\ \A u \in Upstream(task[w].job) : task[w].run = job[u].run

\* A handler is of an attempt that its job was on.
AttemptsOK ==
    \A w \in Worker : task[w].at # "idle" =>
        task[w].attempt \in task[w].job.try..job[task[w].job].attempt

HandInv ==
    /\ CaseInv /\ drafting = FALSE
    /\ OwnTyped /\ WithinMax /\ AttemptsOK /\ JudgedInHand
-----------------------------------------------------------------------------
(***************************************************************************)
(* What a transition() writes, beyond what Control's proofs need.          *)
(***************************************************************************)
LEMMA MoveWrites ==
    ASSUME job \in [DOMAIN job -> JobRow],
           NEW j, NEW to, NEW human, NEW expected, NEW args,
           Move(j, to, human, expected, args)
    PROVE  /\ job'[j] = Moved(job[j], to, args)
           /\ job'[j].state = to
           /\ job'[j].attempt = AttemptAfter(job[j], to)
           /\ expected \in {AnyState, job[j].state}
<1>1. /\ job' = [job EXCEPT ![j] = Moved(job[j], to, args)]
      /\ j \in DOMAIN job /\ CanMove(job[j], to, human, expected, args)
  BY DEF Move, Present
<1>2. job'[j] = Moved(job[j], to, args)
  BY <1>1
<1>3. expected \in {AnyState, job[j].state}
  BY <1>1 DEF CanMove
<1> QED BY <1>2, <1>3 DEF Moved

\* What the calls name.
LEMMA NoArgsFields ==
    /\ NoArgs.run = NoRun /\ NoArgs.verdict = NoVerdict
    /\ \A w : ClaimArgs(w).run = NoRun /\ ClaimArgs(w).verdict = NoVerdict
BY DEF NoArgs, ClaimArgs

LEMMA NullArgs ==
    /\ [NoArgs EXCEPT !.run = NoRun] = NoArgs
    /\ [NoArgs EXCEPT !.verdict = NoVerdict] = NoArgs
<1>1. NoArgs = [i \in DOMAIN NoArgs |-> NoArgs[i]]
  BY DEF NoArgs
<1>2. /\ [NoArgs EXCEPT !.run = NoArgs.run] = NoArgs
      /\ [NoArgs EXCEPT !.verdict = NoArgs.verdict] = NoArgs
  BY <1>1
<1> QED BY <1>2, NoArgsFields

LEMMA RunArgs ==
    ASSUME NEW run
    PROVE  /\ [NoArgs EXCEPT !.run = run].run = run
           /\ [NoArgs EXCEPT !.run = run].verdict = NoVerdict
           /\ [NoArgs EXCEPT !.verdict = NoVerdict, !.run = run]
                 = [NoArgs EXCEPT !.run = run]
<1>1. /\ [NoArgs EXCEPT !.run = run].run = run
      /\ [NoArgs EXCEPT !.run = run].verdict = NoVerdict
  BY DEF NoArgs
<1>2. [NoArgs EXCEPT !.verdict = NoVerdict, !.run = run]
        = [[NoArgs EXCEPT !.verdict = NoVerdict] EXCEPT !.run = run]
  OBVIOUS
<1> QED BY <1>1, <1>2, NullArgs

LEMMA VerdictArgs ==
    ASSUME NEW v, NEW run
    PROVE  /\ [NoArgs EXCEPT !.verdict = v].run = NoRun
           /\ [NoArgs EXCEPT !.verdict = v].verdict = v
           /\ [NoArgs EXCEPT !.run = run, !.verdict = v]
                 = [NoArgs EXCEPT !.verdict = v, !.run = run]
           /\ [NoArgs EXCEPT !.verdict = v, !.run = run].run = run
           /\ [NoArgs EXCEPT !.verdict = v, !.run = run].verdict = v
BY DEF NoArgs

(***************************************************************************)
(* Every step of a worker that touches the tables is one of Control's.     *)
(***************************************************************************)
Unseen == UNCHANGED <<study, job, dep, permanent, drafting, loops, cli, byHuman>>

LEMMA SurroundingsAreControl ==
    ASSUME Surroundings
    PROVE  Next /\ UNCHANGED own
BY DEF Surroundings, Review, Next, NextButApproval, Machine, Human, JobStep,
       LoopStep

LEMMA LevelIsLevel ==
    ASSUME NEW run, NEW acceptance
    PROVE  LevelOf(run, acceptance) \in Level
BY DEF LevelOf, Fold, Level

LEMMA VerdictIsVerdict ==
    ASSUME NEW run \in RunRef \cup {NoRun}
    PROVE  /\ VerdictOn(run) \in Verdict /\ VerdictOn(run) # NoVerdict
           /\ VerdictOn(run).run = run
           /\ VerdictOn(NoRun) \in Unfounded
           /\ VerdictOn(run).level = "pass"
                => run # NoRun /\ LevelOf(results[run].found, Wanted) = "pass"
<1> DEFINE level == IF run = NoRun THEN "error"
                    ELSE LevelOf(results[run].found, Wanted)
<1>1. level \in Level
  BY LevelIsLevel DEF Level
<1>2. VerdictOn(run) = [run |-> run, level |-> level]
  BY DEF VerdictOn
<1>3. VerdictOn(NoRun) = [run |-> NoRun, level |-> "error"]
  BY DEF VerdictOn
<1>4. VerdictOn(run).level = level /\ VerdictOn(run).run = run
  BY <1>2
<1>5. VerdictOn(run) \in Verdict
  <2> HIDE DEF level
  <2> QED BY <1>1, <1>2, HandlersAssumption
<1> QED BY <1>3, <1>4, <1>5, HandlersAssumption, NullsAssumption

\* A CHECK that depends on nothing is given the level of no run.
LEMMA VerdictInHand ==
    ASSUME HandInv, NEW w \in Worker, IsAt(w, "CHECK", "commit")
    PROVE  task[w].verdict \in PossibleVerdicts(task[w].job)
<1>1. /\ task[w].run \in RunRef \cup {NoRun} /\ task[w].job.kind = "CHECK"
      /\ task[w].verdict = VerdictOn(task[w].run)
      /\ Upstream(task[w].job) = {} => task[w].run = NoRun
  BY DEF HandInv, OwnTyped, TaskRow, JudgedInHand, IsAt
<1>2. VerdictOn(task[w].run) \in Verdict /\ VerdictOn(NoRun) \in Unfounded
  BY <1>1, VerdictIsVerdict
<1> QED BY <1>1, <1>2 DEF PossibleVerdicts

LEMMA HandlersAreControl ==
    ASSUME HandInv, NEW w \in Worker, HandlerStep(w)
    PROVE  \/ Next
           \/ Unseen /\ upsets' \in {upsets} \cup {upsets + 1}
                /\ (upsets' # upsets => upsets < MaxUpsets)
<1>1. /\ OwnTyped
      /\ \A j \in DOMAIN job : JobStep(j) => Next
  BY DEF HandInv, Next, NextButApproval, Machine
<1>2. ASSUME NEW j \in DOMAIN job, Take(w, j) PROVE Claim(j)
  BY <1>2 DEF Take, Claim
<1>3. CASE \E j \in DOMAIN job : Take(w, j)
  BY <1>1, <1>2, <1>3 DEF JobStep
<1>4. CASE Begin(w)
  <2>1. task[w].job \in DOMAIN job /\ Start(task[w].job)
    BY <1>4 DEF Begin, Start, Move, Present
  <2> QED BY <1>1, <2>1 DEF JobStep
<1>5. CASE Recover(w)
  <2>1. task[w].job \in DOMAIN job
    BY <1>5 DEF Recover, Move, Present
  <2>2. Fail(task[w].job)
    BY <1>5, NullArgs DEF Recover, Fail
  <2> QED BY <1>1, <2>1, <2>2 DEF JobStep
<1>6. CASE CommitAnalysis(w)
  <2> DEFINE j       == task[w].job
             run     == task[w].run
             outcome == IF run = NoRun THEN "permanent" ELSE results[run].outcome
  <2>1. /\ Move(j, IF outcome = "ok" THEN "succeeded" ELSE "failed",
                FALSE, "running", [NoArgs EXCEPT !.run = run])
        /\ permanent' = CASE outcome = "ok"        -> permanent
                          [] outcome = "transient" -> permanent \ {j}
                          [] outcome = "permanent" -> permanent \cup {j}
        /\ UNCHANGED <<study, dep, drafting, loops, cli, byHuman, upsets>>
        /\ j.kind = "ANALYSIS"
    BY <1>6 DEF CommitAnalysis, IsAt
  <2>2. run \in RunRef \cup {NoRun}
    BY <1>1 DEF OwnTyped, TaskRow
  <2>3. j \in DOMAIN job
    BY <2>1 DEF Move, Present
  <2> HIDE DEF j, run, outcome
  <2>4. CASE outcome = "ok"
    <3>1. Move(j, "succeeded", FALSE, "running",
               [NoArgs EXCEPT !.verdict = NoVerdict, !.run = run])
      BY <2>1, <2>4, RunArgs
    <3>2. NoVerdict \in PossibleVerdicts(j) /\ permanent' = permanent
      BY <2>1, <2>4 DEF PossibleVerdicts
    <3>3. Succeed(j)
      BY <2>1, <2>2, <2>3, <3>1, <3>2 DEF Succeed, Present
    <3> QED BY <1>1, <2>3, <3>3 DEF JobStep
  <2>5. CASE outcome # "ok"
    <3>1. Move(j, "failed", FALSE, "running", [NoArgs EXCEPT !.run = run])
      BY <2>1, <2>5
    <3>2. \/ permanent' = permanent \ {j}
          \/ permanent' = permanent \cup {j}
      <4>1. outcome \in {"ok", "transient", "permanent"}
        <5>1. /\ run \in DOMAIN results \cup {NoRun}
              /\ run \in DOMAIN results => results[run] \in Result
          BY <1>1 DEF OwnTyped, run
        <5> QED BY <1>1, <5>1, HandlersAssumption DEF outcome
      <4> QED BY <2>1, <2>5, <4>1
    <3>3. Fail(j)
      BY <2>1, <2>2, <3>1, <3>2 DEF Fail
    <3> QED BY <1>1, <2>3, <3>3 DEF JobStep
  <2> QED BY <2>4, <2>5
<1>7. CASE CommitCheck(w)
  <2> DEFINE j == task[w].job
  <2>1. /\ Move(j, "succeeded", FALSE, "running",
                [NoArgs EXCEPT !.verdict = task[w].verdict, !.run = task[w].run])
        /\ UNCHANGED <<study, dep, permanent, drafting, loops, cli, byHuman, upsets>>
        /\ IsAt(w, "CHECK", "commit")
    BY <1>7, VerdictArgs DEF CommitCheck
  <2>2. /\ task[w].verdict \in PossibleVerdicts(j)
        /\ task[w].run \in RunRef \cup {NoRun}
    BY <1>1, <2>1, VerdictInHand DEF OwnTyped, TaskRow
  <2>3. j \in DOMAIN job
    BY <2>1 DEF Move, Present
  <2>4. Succeed(j)
    BY <2>1, <2>2, <2>3 DEF Succeed, Present
  <2> QED BY <1>1, <2>3, <2>4 DEF JobStep
<1>8. CASE CommitReport(w)
  <2> DEFINE j == task[w].job
  <2>1. /\ Move(j, "succeeded", FALSE, "running",
                [NoArgs EXCEPT !.verdict = NoVerdict, !.run = NoRun])
        /\ UNCHANGED <<study, dep, permanent, drafting, loops, cli, byHuman, upsets>>
        /\ j.kind = "REPORT"
    BY <1>8, NullArgs, RunArgs DEF CommitReport, IsAt
  <2>2. NoVerdict \in PossibleVerdicts(j)
    BY <2>1 DEF PossibleVerdicts
  <2>3. j \in DOMAIN job
    BY <2>1 DEF Move, Present
  <2>4. Succeed(j)
    BY <2>1, <2>2, <2>3 DEF Succeed, Present
  <2> QED BY <1>1, <2>3, <2>4 DEF JobStep
<1>9. CASE HandlerRaises(w)
  BY <1>9 DEF HandlerRaises, Unseen
<1>10. CASE \/ RaisesOut(w) \/ RunPlan(w) \/ Judge(w) \/ ReadRows(w)
            \/ WriteFile(w) \/ Conclude(w) \/ Announce(w)
  BY <1>10
     DEF RaisesOut, RunPlan, Judge, ReadRows, WriteFile, Conclude, Announce,
         vars, Unseen
<1> QED BY <1>3, <1>4, <1>5, <1>6, <1>7, <1>8, <1>9, <1>10 DEF HandlerStep
-----------------------------------------------------------------------------
(***************************************************************************)
(* What a step does to the job table, as far as attempts, runs and         *)
(* verdicts are concerned.                                                 *)
(***************************************************************************)
Kept(j) == job'[j].run = job[j].run /\ job'[j].verdict = job[j].verdict

\* A transition; who requeues a leased job or gives up on one counts.
Turns(j) ==
    /\ Moves(j)
    /\ job'[j].attempt = AttemptAfter(job[j], job'[j].state)
    /\ <<job[j].state, job'[j].state>> \in LeaseExpiry
         => job[j].attempt < job[j].max
    /\ job'[j].state = "escalated" => job[j].attempt >= job[j].max

\* A success is given the verdict of a CHECK that depends on it.
GatedBy(j) ==
    /\ job'[j].run = job[j].run /\ job[j].state = "succeeded"
    /\ \E k \in Checks \cap DOMAIN job :
          /\ <<k, j>> \in dep /\ job[k].verdict # NoVerdict
          /\ job'[j].verdict = job[k].verdict

Spawns(j) ==
    /\ Retries(j) /\ Kept(j)
    /\ job'[RetryOf(j)].run = NoRun /\ job'[RetryOf(j)].verdict = NoVerdict

SurroundingsEffect ==
    /\ UNCHANGED own /\ drafting' = drafting
    /\ \/ UNCHANGED <<job, dep>>
       \/ \E j : /\ Turns(j) /\ job'[j].state # "succeeded"
                 /\ Kept(j) \/ GatedBy(j)
       \/ \E j : Spawns(j)

\* A transition that says neither run nor verdict.
LEMMA PlainTurn ==
    ASSUME job \in [DOMAIN job -> JobRow], dep' = dep,
           NEW j, NEW to, NEW human, NEW expected, NEW args \in MoveArgs,
           Move(j, to, human, expected, args),
           args.run = NoRun, args.verdict = NoVerdict,
           to # "escalated", to # "queued" \/ job[j].state \notin Leased
    PROVE  /\ Turns(j) /\ Kept(j) /\ job'[j].state = to
           /\ expected \in {AnyState, job[j].state}
<1>1. /\ Moves(j) /\ job'[j].state = to
      /\ expected \in {AnyState, job[j].state}
  BY MoveEffect
<1>2. job'[j] = Moved(job[j], to, args)
  BY MoveWrites
<1>4. /\ job'[j].attempt = AttemptAfter(job[j], to)
      /\ Kept(j)
  BY <1>2 DEF Moved, Kept
<1>3. <<job[j].state, to>> \notin LeaseExpiry
  BY DEF LeaseExpiry
<1> QED BY <1>1, <1>3, <1>4 DEF Turns

LEMMA JobsAround ==
    ASSUME CaseInv, NEW j \in DOMAIN job,
           \/ Enqueue(j) \/ AutoAcceptReport(j) \/ CancelDead(j)
           \/ SpawnTriage(j) \/ Review(j) \/ ResolveJob(j)
    PROVE  /\ drafting' = drafting
           /\ Turns(j) /\ Kept(j) /\ job'[j].state # "succeeded"
<1>1. /\ job \in [DOMAIN job -> JobRow] /\ NoArgs \in MoveArgs
      /\ NoArgs.run = NoRun /\ NoArgs.verdict = NoVerdict
  BY ArgsAreArgs, NoArgsFields DEF CaseInv, TypeInv, TablesOK, RowsOK
<1>2. dep' = dep /\ drafting' = drafting
  BY DEF Enqueue, AutoAcceptReport, CancelDead, SpawnTriage, Review,
         ApproveJob, RejectJob, ResolveJob
<1>3. PICK to \in {"queued", "accepted", "cancelled", "triage", "approved",
                   "rejected", "infeasible"}, human \in BOOLEAN,
           from \in {"approved", "succeeded", "failed", "escalated",
                     job[j].state, AnyState} :
         /\ Move(j, to, human, from, NoArgs)
         /\ to = "queued" => from \in {"approved", "escalated"}
  BY DEF Enqueue, AutoAcceptReport, CancelDead, SpawnTriage, Review,
         ApproveJob, RejectJob, ResolveJob
<1>4. from \in {AnyState, job[j].state}
  BY <1>1, <1>3, MoveWrites
<1>5. to # "queued" \/ job[j].state \notin Leased
  BY <1>1, <1>3, <1>4, NullsAssumption DEF Leased, JobState, PreRunning
<1>6. Turns(j) /\ Kept(j) /\ job'[j].state = to
  BY <1>1, <1>2, <1>3, <1>5, PlainTurn
<1> QED BY <1>2, <1>3, <1>6

LEMMA TriageAround ==
    ASSUME CaseInv, NEW j \in DOMAIN job, RunTriage(j)
    PROVE  /\ drafting' = drafting
           /\ \/ Turns(j) /\ Kept(j) /\ job'[j].state # "succeeded"
              \/ Spawns(j)
<1>1. /\ job \in [DOMAIN job -> JobRow] /\ NoArgs \in MoveArgs
      /\ NoArgs.run = NoRun /\ NoArgs.verdict = NoVerdict
      /\ job[j].state = "triage" /\ drafting' = drafting /\ TypeInv
      /\ job[j] \in JobRow /\ byHuman' = byHuman
  BY ArgsAreArgs, NoArgsFields
     DEF CaseInv, TypeInv, TablesOK, RowsOK, RunTriage
<1>2. CASE j \in permanent
  <2>1. Move(j, "infeasible", FALSE, "triage", NoArgs) /\ dep' = dep
    BY <1>2 DEF RunTriage
  <2>2. Turns(j) /\ Kept(j) /\ job'[j].state = "infeasible"
    BY <1>1, <2>1, PlainTurn
  <2> QED BY <1>1, <2>2
<1>3. CASE j \notin permanent /\ job[j].attempt >= job[j].max
  <2>1. Move(j, "escalated", FALSE, "triage", NoArgs) /\ dep' = dep
    BY <1>3 DEF RunTriage
  <2>2. Moves(j) /\ job'[j].state = "escalated"
    BY <1>1, <2>1, MoveEffect
  <2>3. job'[j] = Moved(job[j], "escalated", NoArgs)
    BY <1>1, <2>1, MoveWrites
  <2>4. job'[j].attempt = AttemptAfter(job[j], "escalated") /\ Kept(j)
    BY <1>1, <2>3 DEF Moved, Kept
  <2> QED BY <1>1, <1>3, <2>2, <2>4 DEF Turns, LeaseExpiry
<1>4. CASE j \notin permanent /\ ~(job[j].attempt >= job[j].max)
  <2>1. Retry(j) /\ job[j].attempt < job[j].max
    BY <1>1, <1>4 DEF RunTriage, JobRow
  <2>2. Retries(j)
    BY <1>1, <2>1, RetryIsTableStep
  <2> DEFINE r     == RetryOf(j)
             fresh == NewJob(job[j].attempt + 1, job[j].max)
             row   == IF job[j].attempt <= AutoRetryMax
                      THEN Moved(fresh, "approved", NoArgs) ELSE fresh
             left  == Moved(job[j], "retry_spawned", NoArgs)
             done  == [job EXCEPT ![j] = left]
  <2>3. /\ row.run = NoRun /\ row.verdict = NoVerdict
        /\ left.run = job[j].run /\ left.verdict = job[j].verdict
    BY <1>1 DEF NewJob, Moved
  <2>4. job' = Inserted(done, r, row)
    BY <2>1 DEF Retry, RetryOf
  <2>5. r \notin DOMAIN job
    BY <2>2 DEF Retries
  <2> HIDE DEF r, row, left
  <2>6. job'[r] = row /\ job'[j] = left
    BY <2>4, <2>5 DEF Inserted
  <2>7. job'[r].run = NoRun /\ job'[r].verdict = NoVerdict /\ Kept(j)
    BY <2>3, <2>6 DEF Kept
  <2> QED BY <1>1, <2>2, <2>7 DEF Spawns, r
<1> QED BY <1>2, <1>3, <1>4

LEMMA LeaseAround ==
    ASSUME CaseInv, NEW j \in DOMAIN job, LeaseOut(j)
    PROVE  /\ drafting' = drafting
           /\ Turns(j) /\ Kept(j) /\ job'[j].state # "succeeded"
<1>1. /\ job \in [DOMAIN job -> JobRow] /\ NoArgs \in MoveArgs
      /\ NoArgs.run = NoRun /\ NoArgs.verdict = NoVerdict
      /\ drafting' = drafting /\ dep' = dep
  BY ArgsAreArgs, NoArgsFields
     DEF CaseInv, TypeInv, TablesOK, RowsOK, LeaseOut
<1>2. PICK to \in {"queued", "failed"} :
         /\ Move(j, to, FALSE, job[j].state, NoArgs)
         /\ to = "queued" => job[j].attempt < job[j].max
  BY DEF LeaseOut
<1>3. Moves(j) /\ job'[j].state = to
  BY <1>1, <1>2, MoveEffect
<1>4. job'[j] = Moved(job[j], to, NoArgs)
  BY <1>1, <1>2, MoveWrites
<1>5. job'[j].attempt = AttemptAfter(job[j], to) /\ Kept(j)
  BY <1>1, <1>4 DEF Moved, Kept
<1> QED BY <1>1, <1>2, <1>3, <1>5 DEF Turns, LeaseExpiry

LEMMA LoopAround ==
    ASSUME CaseInv, NEW p \in Loop,
           SelectChecks(p) \/ ReadUpstream(p) \/ Gate(p) \/ AcceptCheck(p)
    PROVE  /\ drafting' = drafting
           /\ \/ UNCHANGED <<job, dep>>
              \/ \E j : /\ Turns(j) /\ job'[j].state # "succeeded"
                        /\ Kept(j) \/ GatedBy(j)
<1>1. /\ job \in [DOMAIN job -> JobRow] /\ NoArgs \in MoveArgs
      /\ NoArgs.run = NoRun /\ NoArgs.verdict = NoVerdict /\ LoopsOK
      /\ RowsReady
  BY ArgsAreArgs, NoArgsFields DEF CaseInv, TypeInv, TablesOK, RowsOK
<1>2. dep' = dep /\ drafting' = drafting
  BY DEF SelectChecks, ReadUpstream, Gate, AcceptCheck
<1>3. CASE job' = job
  BY <1>2, <1>3
<1>4. CASE job' # job /\ AcceptCheck(p)
  <2>1. Move(hand[p], "accepted", FALSE, "succeeded", NoArgs)
    BY <1>4 DEF AcceptCheck
  <2>2. /\ Turns(hand[p]) /\ Kept(hand[p])
        /\ job'[hand[p]].state = "accepted"
    BY <1>1, <1>2, <2>1, PlainTurn
  <2> QED BY <1>2, <2>2
<1>5. CASE job' # job /\ Gate(p)
  <2> DEFINE k == hand[p]
             v == job[k].verdict
             to == IF v \in Accepting THEN "accepted" ELSE "review"
             args == [NoArgs EXCEPT !.verdict = v]
  <2>1. PICK u \in Upstream(k) : Move(u, to, FALSE, "succeeded", args)
    BY <1>5 DEF Gate
  <2>2. /\ k \in Checks \cap DOMAIN job /\ v # NoVerdict /\ <<k, u>> \in dep
        /\ job[k] \in JobRow
    BY <1>1, <1>5, <2>1 DEF Gate, LoopsOK, RowsReady, Upstream
  <2>3. /\ args \in MoveArgs /\ args.run = NoRun /\ args.verdict = v
        /\ to \in {"accepted", "review"}
    BY <2>2, ArgsAreArgs, VerdictArgs DEF JobRow
  <2> HIDE DEF args, to, k
  <2>4. /\ Moves(u) /\ job'[u].state = to
        /\ "succeeded" \in {AnyState, job[u].state}
        /\ job'[u].verdict = v
        /\ job'[u].attempt = AttemptAfter(job[u], to)
        /\ job'[u].run = job[u].run
    <3> HIDE DEF v
    <3>1. /\ Moves(u) /\ job'[u].state = to
          /\ "succeeded" \in {AnyState, job[u].state}
      BY <1>1, <1>2, <2>1, <2>3, MoveEffect
    <3>2. job'[u] = Moved(job[u], to, args)
      BY <1>1, <2>1, MoveWrites
    <3> QED BY <2>2, <2>3, <3>1, <3>2 DEF Moved
  <2>5. job[u].state = "succeeded"
    BY <2>4, NullsAssumption DEF JobState
  <2>6. GatedBy(u)
    BY <2>2, <2>4, <2>5 DEF GatedBy
  <2> QED BY <1>2, <2>3, <2>4, <2>5, <2>6 DEF Turns, LeaseExpiry
<1>6. SelectChecks(p) \/ ReadUpstream(p) => job' = job
  BY DEF SelectChecks, ReadUpstream
<1> QED BY <1>3, <1>4, <1>5, <1>6

LEMMA WhatSurrounds == ASSUME CaseInv, Surroundings PROVE SurroundingsEffect
<1>1. /\ UNCHANGED own
      /\ \/ \E j \in DOMAIN job :
               \/ Enqueue(j) \/ AutoAcceptReport(j) \/ CancelDead(j)
               \/ SpawnTriage(j) \/ RunTriage(j)
               \/ LeaseOut(j)
               \/ Review(j) \/ ResolveJob(j)
         \/ \E p \in Loop :
               SelectChecks(p) \/ ReadUpstream(p) \/ Gate(p) \/ AcceptCheck(p)
  BY DEF Surroundings
<1> QED BY <1>1, JobsAround, TriageAround, LeaseAround, LoopAround
       DEF SurroundingsEffect

(***************************************************************************)
(* What a step of a worker does to its task, to the job it has in hand and *)
(* to the-hangar's record.                                                 *)
(***************************************************************************)
Same(w) ==
    /\ task'[w].job = task[w].job /\ task'[w].attempt = task[w].attempt
    /\ task'[w].run = task[w].run /\ task'[w].verdict = task[w].verdict

Takes(w) ==
    \E j \in DOMAIN job :
        /\ Turns(j) /\ Kept(j)
        /\ job[j].state = "queued" /\ job'[j].state = "assigned"
        /\ \A u \in Upstream(j) : Satisfied(j, u)
        /\ task'[w].at = "start" /\ task'[w].job = j
        /\ task'[w].attempt = job[j].attempt
        /\ task'[w].run = NoRun
        /\ results' = results

Begins(w) ==
    LET j == task[w].job IN
    /\ task[w].at = "start" /\ task'[w].at = "run" /\ Same(w)
    /\ Turns(j) /\ Kept(j)
    /\ job[j].state = "assigned" /\ job'[j].state = "running"
    /\ results' = results

\* How a handler ends its job, if it still can.
Ends(w) ==
    LET j == task[w].job IN
    /\ Turns(j) /\ job[j].state = "running"
    /\ job'[j].state \in {"succeeded", "failed"}
    /\ \/ Kept(j) /\ (job'[j].state = "failed" \/ j.kind = "REPORT")
       \/ /\ IsAt(w, "ANALYSIS", "commit")
          /\ task[w].run = NoRun => job'[j].run = job[j].run
          /\ task[w].run # NoRun => job'[j].run = task[w].run
          /\ job'[j].verdict = job[j].verdict
          /\ job'[j].state = "succeeded" =>
                task[w].run # NoRun /\ results[task[w].run].outcome = "ok"
       \/ /\ IsAt(w, "CHECK", "commit")
          /\ job'[j].state = "succeeded"
          /\ job'[j].run \in {job[j].run, task[w].run}
          /\ task[w].verdict # NoVerdict => job'[j].verdict = task[w].verdict

Leaves(w) ==
    /\ task[w].at # "idle" /\ task'[w] = Idle /\ results' = results
    /\ job' = job \/ Ends(w)

Goes(w) ==
    /\ job' = job /\ results' = results /\ Same(w)
    /\ task[w].at \notin {"idle", "start"}
    /\ task'[w].at \in Steps \ {"start", "run"}
    /\ task'[w].at = "commit" => task[w].job.kind = "REPORT"

Solves(w) ==
    /\ IsAt(w, "ANALYSIS", "run") /\ job' = job
    /\ task'[w].at = "commit" /\ task'[w].job = task[w].job
    /\ task'[w].attempt = task[w].attempt
    /\ task'[w].run \in {task[w].run, KeyOf(w)}
    /\ task'[w].run \in DOMAIN results' \cup {task[w].run}
    /\ DOMAIN results' \subseteq DOMAIN results \cup {KeyOf(w)}

Judges(w) ==
    /\ IsAt(w, "CHECK", "run") /\ job' = job /\ results' = results
    /\ task'[w].at = "commit" /\ task'[w].job = task[w].job
    /\ task'[w].attempt = task[w].attempt
    /\ task'[w].verdict = VerdictOn(task'[w].run)
    /\ IF Upstream(task[w].job) = {} THEN task'[w].run = NoRun
       ELSE \E u \in Upstream(task[w].job) : task'[w].run = job[u].run

HandlerEffect(w) ==
    /\ \A v \in Worker \ {w} : task'[v] = task[v]
    /\ task' \in [Worker -> TaskRow]
    /\ dep' = dep /\ drafting' = drafting
    /\ DOMAIN results \subseteq DOMAIN results'
    /\ \A k \in DOMAIN results : results'[k] = results[k]
    /\ \/ Takes(w) \/ Begins(w) \/ Leaves(w) \/ Goes(w) \/ Solves(w) \/ Judges(w)

\* The rows a worker's task is given.
LEMMA TaskRows ==
    /\ Idle \in TaskRow
    /\ \A t \in TaskRow, step \in Steps : [t EXCEPT !.at = step] \in TaskRow
    /\ \A j \in Job, n \in Nat :
          [Idle EXCEPT !.at = "start", !.job = j, !.attempt = n] \in TaskRow
BY DEF Idle, TaskRow, Steps

LEMMA TaskFacts ==
    ASSUME HandInv, NEW w \in Worker
    PROVE  /\ TypeInv /\ job \in [DOMAIN job -> JobRow] /\ DOMAIN job \subseteq Job
           /\ task \in [Worker -> TaskRow] /\ task[w] \in TaskRow
           /\ task[w].at # "idle" => task[w].job \in DOMAIN job
           /\ task[w].run \in DOMAIN results \cup {NoRun}
           /\ DOMAIN results \subseteq RunRef
           /\ \A j \in DOMAIN job : job[j].state # AnyState
           /\ NoArgs \in MoveArgs
           /\ NoArgs.run = NoRun /\ NoArgs.verdict = NoVerdict
           /\ ClaimArgs(w) \in MoveArgs
           /\ ClaimArgs(w).run = NoRun /\ ClaimArgs(w).verdict = NoVerdict
<1>1. /\ TypeInv /\ job \in [DOMAIN job -> JobRow] /\ DOMAIN job \subseteq Job
  BY DEF HandInv, CaseInv, TypeInv, TablesOK, RowsOK
<1>2. /\ task \in [Worker -> TaskRow] /\ task[w] \in TaskRow
      /\ task[w].at # "idle" => task[w].job \in DOMAIN job
      /\ task[w].run \in DOMAIN results \cup {NoRun}
      /\ DOMAIN results \subseteq RunRef
  BY HandlersAssumption DEF HandInv, OwnTyped
<1>3. \A j \in DOMAIN job : job[j].state \in JobState
  BY <1>1 DEF JobRow
<1> QED BY <1>1, <1>2, <1>3, NullsAssumption, ArgsAreArgs, NoArgsFields

LEMMA TakeEffect ==
    ASSUME HandInv, NEW w \in Worker, NEW j \in DOMAIN job, Take(w, j)
    PROVE  HandlerEffect(w)
<1> DEFINE new == [Idle EXCEPT !.at = "start", !.job = j, !.attempt = job[j].attempt]
<1>1. /\ Move(j, "assigned", FALSE, "queued", ClaimArgs(w))
      /\ \A u \in Upstream(j) : Satisfied(j, u)
      /\ task' = [task EXCEPT ![w] = new]
      /\ dep' = dep /\ drafting' = drafting /\ results' = results
  BY DEF Take
<1>2. /\ Turns(j) /\ Kept(j) /\ job'[j].state = "assigned"
      /\ "queued" \in {AnyState, job[j].state}
  BY <1>1, TaskFacts, PlainTurn
<1>3. job[j].state = "queued"
  BY <1>2, NullsAssumption DEF JobState, PreRunning
<1>4. new \in TaskRow
  <2>1. j \in Job /\ job[j].attempt \in Nat
    BY TaskFacts DEF JobRow
  <2> QED BY <2>1, TaskRows
<1>5. /\ new.at = "start" /\ new.job = j /\ new.attempt = job[j].attempt
      /\ new.run = NoRun
  BY DEF Idle
<1> HIDE DEF new
<1>6. task'[w] = new /\ \A v \in Worker \ {w} : task'[v] = task[v]
  BY <1>1, TaskFacts
<1>7. task' \in [Worker -> TaskRow]
  BY <1>1, <1>4, TaskFacts
<1>8. Takes(w)
  BY <1>1, <1>2, <1>3, <1>5, <1>6 DEF Takes
<1> QED BY <1>1, <1>6, <1>7, <1>8 DEF HandlerEffect

\* A step that takes w to another place with what it has in hand.
LEMMA Advanced ==
    ASSUME HandInv, NEW w \in Worker, NEW step \in Steps, Advance(w, step)
    PROVE  /\ task'[w].at = step /\ Same(w)
           /\ \A v \in Worker \ {w} : task'[v] = task[v]
           /\ task' \in [Worker -> TaskRow]
<1>1. task' = [task EXCEPT ![w] = [task[w] EXCEPT !.at = step]]
  BY DEF Advance
<1>2. [task[w] EXCEPT !.at = step] \in TaskRow
  BY TaskFacts, TaskRows
<1>3. /\ task'[w] = [task[w] EXCEPT !.at = step]
      /\ \A v \in Worker \ {w} : task'[v] = task[v]
      /\ task' \in [Worker -> TaskRow]
  BY <1>1, <1>2, TaskFacts
<1>4. task'[w].at = step /\ Same(w)
  BY <1>3, TaskFacts DEF TaskRow, Same
<1> QED BY <1>3, <1>4

LEMMA Left ==
    ASSUME HandInv, NEW w \in Worker, Leave(w)
    PROVE  /\ task'[w] = Idle
           /\ \A v \in Worker \ {w} : task'[v] = task[v]
           /\ task' \in [Worker -> TaskRow]
BY TaskFacts, TaskRows DEF Leave

LEMMA BeginEffect ==
    ASSUME HandInv, NEW w \in Worker, Begin(w)
    PROVE  HandlerEffect(w)
<1> DEFINE j == task[w].job
<1>1. /\ task[w].at = "start" /\ Advance(w, "run")
      /\ Move(j, "running", FALSE, "assigned", NoArgs)
      /\ dep' = dep /\ drafting' = drafting /\ results' = results
  BY DEF Begin
<1>2. /\ Turns(j) /\ Kept(j) /\ job'[j].state = "running"
      /\ "assigned" \in {AnyState, job[j].state}
  BY <1>1, TaskFacts, PlainTurn
<1>3. job[j].state = "assigned"
  BY <1>2, NullsAssumption DEF JobState, PreRunning
<1>4. /\ task'[w].at = "run" /\ Same(w)
      /\ \A v \in Worker \ {w} : task'[v] = task[v]
      /\ task' \in [Worker -> TaskRow]
  BY <1>1, Advanced DEF Steps
<1>5. Begins(w)
  BY <1>1, <1>2, <1>3, <1>4 DEF Begins
<1> QED BY <1>1, <1>4, <1>5 DEF HandlerEffect

LEMMA LeaveEffect ==
    ASSUME HandInv, NEW w \in Worker, RaisesOut(w) \/ Recover(w) \/ CommitReport(w)
    PROVE  HandlerEffect(w)
<1> DEFINE j == task[w].job
<1>1. /\ task[w].at # "idle" /\ Leave(w)
      /\ dep' = dep /\ drafting' = drafting /\ results' = results
  BY DEF RaisesOut, Recover, CommitReport, IsAt, vars
<1>2. /\ task'[w] = Idle
      /\ \A v \in Worker \ {w} : task'[v] = task[v]
      /\ task' \in [Worker -> TaskRow]
  BY <1>1, Left
<1>3. ASSUME NEW to \in {"succeeded", "failed"},
             Move(j, to, FALSE, "running", NoArgs),
             to = "failed" \/ j.kind = "REPORT"
      PROVE  Ends(w)
  <2>1. /\ Turns(j) /\ Kept(j) /\ job'[j].state = to
        /\ "running" \in {AnyState, job[j].state}
    BY <1>1, <1>3, TaskFacts, PlainTurn
  <2>2. job[j].state = "running"
    BY <2>1, NullsAssumption DEF JobState
  <2> QED BY <1>3, <2>1, <2>2 DEF Ends
<1>4. job' = job \/ Ends(w)
  BY <1>3 DEF RaisesOut, Recover, CommitReport, IsAt, vars
<1> QED BY <1>1, <1>2, <1>4 DEF HandlerEffect, Leaves

LEMMA CommitAnalysisEffect ==
    ASSUME HandInv, NEW w \in Worker, CommitAnalysis(w)
    PROVE  HandlerEffect(w)
<1> DEFINE j       == task[w].job
           run     == task[w].run
           outcome == IF run = NoRun THEN "permanent" ELSE results[run].outcome
           to      == IF outcome = "ok" THEN "succeeded" ELSE "failed"
           args    == [NoArgs EXCEPT !.run = run]
<1>1. /\ IsAt(w, "ANALYSIS", "commit") /\ Leave(w)
      /\ Move(j, to, FALSE, "running", args)
      /\ dep' = dep /\ drafting' = drafting /\ results' = results
  BY DEF CommitAnalysis
<1>2. /\ task'[w] = Idle
      /\ \A v \in Worker \ {w} : task'[v] = task[v]
      /\ task' \in [Worker -> TaskRow]
  BY <1>1, Left
<1>3. /\ args \in MoveArgs /\ args.run = run /\ args.verdict = NoVerdict
      /\ to \in {"succeeded", "failed"}
      /\ to = "succeeded" => run # NoRun /\ results[run].outcome = "ok"
  <2>1. run \in RunRef \cup {NoRun}
    BY TaskFacts
  <2> QED BY <2>1, ArgsAreArgs, RunArgs
<1> HIDE DEF args, to, run
<1>4. /\ Moves(j) /\ job'[j].state = to
      /\ "running" \in {AnyState, job[j].state}
      /\ job'[j] = Moved(job[j], to, args)
      /\ job'[j].attempt = AttemptAfter(job[j], to)
  <2>1. job \in [DOMAIN job -> JobRow]
    BY TaskFacts
  <2>2. Moves(j) /\ job'[j].state = to
    BY <1>1, <1>3, <2>1, MoveEffect
  <2>3. job'[j] = Moved(job[j], to, args)
    BY <1>1, <2>1, MoveWrites
  <2>4. "running" \in {AnyState, job[j].state}
    BY <1>1, <2>1, MoveWrites
  <2>5. job'[j].attempt = AttemptAfter(job[j], to)
    BY <2>3 DEF Moved
  <2> QED BY <2>2, <2>3, <2>4, <2>5
<1>5. job[j].state = "running"
  BY <1>4, NullsAssumption DEF JobState
<1>6. /\ run = NoRun => job'[j].run = job[j].run
      /\ run # NoRun => job'[j].run = run
      /\ job'[j].verdict = job[j].verdict
  BY <1>3, <1>4 DEF Moved
<1>7. Turns(j)
  BY <1>3, <1>4 DEF Turns, LeaseExpiry
<1>8. Ends(w)
  BY <1>1, <1>3, <1>4, <1>5, <1>6, <1>7 DEF Ends, run
<1>9. task[w].at # "idle"
  BY <1>1 DEF IsAt
<1> QED BY <1>1, <1>2, <1>8, <1>9 DEF HandlerEffect, Leaves

LEMMA CommitCheckEffect ==
    ASSUME HandInv, NEW w \in Worker, CommitCheck(w)
    PROVE  HandlerEffect(w)
<1> DEFINE j       == task[w].job
           run     == task[w].run
           verdict == task[w].verdict
           args    == [NoArgs EXCEPT !.run = run, !.verdict = verdict]
<1>1. /\ IsAt(w, "CHECK", "commit") /\ Leave(w)
      /\ Move(j, "succeeded", FALSE, "running", args)
      /\ dep' = dep /\ drafting' = drafting /\ results' = results
  BY DEF CommitCheck
<1>2. /\ task'[w] = Idle
      /\ \A v \in Worker \ {w} : task'[v] = task[v]
      /\ task' \in [Worker -> TaskRow]
  BY <1>1, Left
<1>3. /\ args \in MoveArgs /\ args.run = run /\ args.verdict = verdict
  <2>1. run \in RunRef \cup {NoRun} /\ verdict \in Verdict \cup {NoVerdict}
    BY TaskFacts DEF TaskRow
  <2>2. /\ args = [NoArgs EXCEPT !.verdict = verdict, !.run = run]
        /\ args.run = run /\ args.verdict = verdict
    <3> HIDE DEF run, verdict
    <3>1. args = [NoArgs EXCEPT !.verdict = verdict, !.run = run]
      BY VerdictArgs
    <3>2. args.run = run /\ args.verdict = verdict
      BY DEF NoArgs
    <3> QED BY <3>1, <3>2
  <2>3. [NoArgs EXCEPT !.verdict = verdict, !.run = run] \in MoveArgs
    <3> HIDE DEF run, verdict
    <3> QED BY <2>1, ArgsAreArgs
  <2> QED BY <2>2, <2>3
<1> HIDE DEF args, run, verdict
<1>4. /\ Moves(j) /\ job'[j].state = "succeeded"
      /\ "running" \in {AnyState, job[j].state}
      /\ job'[j] = Moved(job[j], "succeeded", args)
      /\ job'[j].attempt = AttemptAfter(job[j], "succeeded")
  <2>1. job \in [DOMAIN job -> JobRow]
    BY TaskFacts
  <2>2. Moves(j) /\ job'[j].state = "succeeded"
    BY <1>1, <1>3, <2>1, MoveEffect
  <2>3. job'[j] = Moved(job[j], "succeeded", args)
    BY <1>1, <2>1, MoveWrites
  <2>4. "running" \in {AnyState, job[j].state}
    BY <1>1, <2>1, MoveWrites
  <2>5. job'[j].attempt = AttemptAfter(job[j], "succeeded")
    BY <2>3 DEF Moved
  <2> QED BY <2>2, <2>3, <2>4, <2>5
<1>5. job[j].state = "running"
  BY <1>4, NullsAssumption DEF JobState
<1>6. /\ job'[j].run \in {job[j].run, run}
      /\ verdict # NoVerdict => job'[j].verdict = verdict
  BY <1>3, <1>4 DEF Moved
<1>7. Turns(j)
  BY <1>4 DEF Turns, LeaseExpiry
<1>8. Ends(w)
  BY <1>1, <1>4, <1>5, <1>6, <1>7 DEF Ends, run, verdict
<1>9. task[w].at # "idle"
  BY <1>1 DEF IsAt
<1> QED BY <1>1, <1>2, <1>8, <1>9 DEF HandlerEffect, Leaves

LEMMA GoEffect ==
    ASSUME HandInv, NEW w \in Worker,
           HandlerRaises(w) \/ WriteFile(w) \/ Conclude(w) \/ Announce(w)
    PROVE  HandlerEffect(w)
<1>1. PICK step \in Steps \ {"start", "run"} :
         /\ Advance(w, step)
         /\ step = "commit" => task[w].job.kind = "REPORT"
  BY DEF HandlerRaises, WriteFile, Conclude, Announce, Steps, IsAt
<1>2. /\ job' = job /\ dep' = dep /\ drafting' = drafting /\ results' = results
      /\ task[w].at \notin {"idle", "start"}
  BY DEF HandlerRaises, WriteFile, Conclude, Announce, IsAt, vars
<1>3. /\ task'[w].at = step /\ Same(w)
      /\ \A v \in Worker \ {w} : task'[v] = task[v]
      /\ task' \in [Worker -> TaskRow]
  BY <1>1, Advanced
<1>4. Goes(w)
  BY <1>1, <1>2, <1>3 DEF Goes
<1> QED BY <1>2, <1>3, <1>4 DEF HandlerEffect

LEMMA ReadEffect ==
    ASSUME HandInv, NEW w \in Worker, ReadRows(w)
    PROVE  HandlerEffect(w)
<1> DEFINE seen == {[of |-> a.of, run |-> job[a].run] :
              a \in {i \in Analyses \cap DOMAIN job : job[i].state \in Shown}}
           new == [task[w] EXCEPT !.at = "write", !.shows = seen]
<1>1. /\ IsAt(w, "REPORT", "run")
      /\ task' = [task EXCEPT ![w] = new]
      /\ job' = job /\ dep' = dep /\ drafting' = drafting /\ results' = results
  BY DEF ReadRows, vars
<1>2. seen \in SUBSET [of : Case, run : RunRef \cup {NoRun}]
  <2>1. ASSUME NEW a \in Analyses \cap DOMAIN job
        PROVE  a.of \in Case /\ job[a].run \in RunRef \cup {NoRun}
    BY TaskFacts DEF Analyses, JobRow
  <2> QED BY <2>1
<1> HIDE DEF seen
<1>3. new \in TaskRow
  BY <1>2, TaskFacts DEF TaskRow, Steps
<1>4. /\ new.at = "write" /\ new.job = task[w].job
      /\ new.attempt = task[w].attempt /\ new.run = task[w].run
      /\ new.verdict = task[w].verdict
  BY TaskFacts DEF TaskRow
<1> HIDE DEF new
<1>5. /\ task'[w] = new /\ \A v \in Worker \ {w} : task'[v] = task[v]
      /\ task' \in [Worker -> TaskRow]
  BY <1>1, <1>3, TaskFacts
<1>6. Goes(w)
  BY <1>1, <1>4, <1>5 DEF Goes, Same, Steps, IsAt
<1> QED BY <1>1, <1>5, <1>6 DEF HandlerEffect

LEMMA KeyIsKey ==
    ASSUME HandInv, NEW w \in Worker, task[w].at # "idle",
           task[w].job.kind = "ANALYSIS"
    PROVE  /\ KeyOf(w) \in Key
           /\ KeyOf(w).of = task[w].job.of /\ KeyOf(w).attempt = task[w].attempt
<1> DEFINE j == task[w].job
           n == task[w].attempt
<1>1. /\ j \in DOMAIN job /\ j \in Job /\ job[j] \in JobRow /\ n \in Nat
  BY TaskFacts DEF TaskRow
<1>2. j \in Analyses
  BY <1>1 DEF Job, Analyses, Checks, Reports
<1>3. job[j].max = MaxAttempts
  BY <1>1 DEF HandInv, CaseInv, TypeInv, TablesOK, RowsOK, MaxOf
<1>4. job[j].attempt <= job[j].max /\ n \in j.try..job[j].attempt
  BY <1>1 DEF HandInv, WithinMax, AttemptsOK
<1>5. j.of \in Case /\ j.try \in Nat \ {0}
  BY <1>2 DEF Analyses
<1>6. n \in 1..MaxAttempts
  BY <1>1, <1>3, <1>4, <1>5 DEF JobRow
<1>7. KeyOf(w) = [of |-> j.of, attempt |-> n]
  BY DEF KeyOf
<1> HIDE DEF j, n
<1>8. KeyOf(w) \in Key /\ KeyOf(w).of = j.of /\ KeyOf(w).attempt = n
  BY <1>5, <1>6, <1>7 DEF Key
<1> QED BY <1>8 DEF j, n

LEMMA RunPlanEffect ==
    ASSUME HandInv, NEW w \in Worker, RunPlan(w)
    PROVE  HandlerEffect(w) /\ results' \in [DOMAIN results' -> Result]
<1>1. /\ IsAt(w, "ANALYSIS", "run") /\ task[w].at # "idle"
      /\ job' = job /\ dep' = dep /\ drafting' = drafting
      /\ task[w].job.kind = "ANALYSIS"
  BY DEF RunPlan, IsAt, vars
<1>2. /\ task \in [Worker -> TaskRow] /\ task[w] \in TaskRow
      /\ KeyOf(w) \in RunRef
      /\ results \in [DOMAIN results -> Result]
  BY <1>1, TaskFacts, KeyIsKey, HandlersAssumption DEF HandInv, OwnTyped
<1>3. /\ DOMAIN results \subseteq DOMAIN results'
      /\ \A k \in DOMAIN results : results'[k] = results[k]
      /\ DOMAIN results' \subseteq DOMAIN results \cup {KeyOf(w)}
      /\ results' \in [DOMAIN results' -> Result]
  <2>1. CASE results' = results
    BY <1>2, <2>1
  <2>2. CASE /\ KeyOf(w) \notin DOMAIN results
             /\ \E r \in Result : results' = Inserted(results, KeyOf(w), r)
    <3>1. PICK r \in Result : results' = Inserted(results, KeyOf(w), r)
      BY <2>2
    <3>2. /\ DOMAIN results' = DOMAIN results \cup {KeyOf(w)}
          /\ \A k \in DOMAIN results' :
                results'[k] = IF k = KeyOf(w) THEN r ELSE results[k]
      BY <3>1 DEF Inserted
    <3>3. results' \in [DOMAIN results \cup {KeyOf(w)} -> Result]
      BY <1>2, <3>1 DEF Inserted
    <3> QED BY <2>2, <3>2, <3>3
  <2> QED BY <2>1, <2>2 DEF RunPlan
<1>4. CASE /\ task' = [task EXCEPT ![w].at = "commit", ![w].run = KeyOf(w)]
           /\ KeyOf(w) \in DOMAIN results'
  <2> DEFINE new == [task[w] EXCEPT !.at = "commit", !.run = KeyOf(w)]
  <2>1. new \in TaskRow
    BY <1>2 DEF TaskRow, Steps
  <2>2. /\ new.at = "commit" /\ new.job = task[w].job
        /\ new.attempt = task[w].attempt /\ new.run = KeyOf(w)
    BY <1>2 DEF TaskRow
  <2>3. task' = [task EXCEPT ![w] = new]
    BY <1>4
  <2> HIDE DEF new
  <2>4. /\ task'[w] = new /\ \A v \in Worker \ {w} : task'[v] = task[v]
        /\ task' \in [Worker -> TaskRow]
    BY <1>2, <2>1, <2>3
  <2>5. Solves(w)
    BY <1>1, <1>3, <1>4, <2>2, <2>4 DEF Solves
  <2> QED BY <1>1, <1>3, <2>4, <2>5 DEF HandlerEffect
<1>5. CASE Advance(w, "commit")
  <2>1. /\ task'[w].at = "commit" /\ Same(w)
        /\ \A v \in Worker \ {w} : task'[v] = task[v]
        /\ task' \in [Worker -> TaskRow]
    BY <1>5, Advanced DEF Steps
  <2>2. Solves(w)
    BY <1>1, <1>3, <2>1 DEF Solves, Same
  <2> QED BY <1>1, <1>3, <2>1, <2>2 DEF HandlerEffect
<1> QED BY <1>4, <1>5 DEF RunPlan, Inserted

LEMMA JudgeEffect ==
    ASSUME HandInv, NEW w \in Worker, Judge(w)
    PROVE  HandlerEffect(w)
<1>1. /\ IsAt(w, "CHECK", "run")
      /\ job' = job /\ dep' = dep /\ drafting' = drafting /\ results' = results
      /\ task \in [Worker -> TaskRow] /\ task[w] \in TaskRow
  BY TaskFacts DEF Judge, vars
<1>2. PICK run \in IF Upstream(task[w].job) = {} THEN {NoRun}
                   ELSE {job[u].run : u \in Upstream(task[w].job)} :
         task' = [task EXCEPT ![w].at = "commit", ![w].run = run,
                              ![w].verdict = VerdictOn(run)]
  BY DEF Judge
<1> DEFINE new == [task[w] EXCEPT !.at = "commit", !.run = run,
                                  !.verdict = VerdictOn(run)]
<1>3. /\ run \in RunRef \cup {NoRun}
      /\ IF Upstream(task[w].job) = {} THEN run = NoRun
         ELSE \E u \in Upstream(task[w].job) : run = job[u].run
  <2>1. \A u \in Upstream(task[w].job) : job[u].run \in RunRef \cup {NoRun}
    BY TaskFacts DEF Upstream, JobRow
  <2> QED BY <1>2, <2>1
<1>4. VerdictOn(run) \in Verdict
  BY <1>3, VerdictIsVerdict
<1>5. new \in TaskRow
  BY <1>1, <1>3, <1>4 DEF TaskRow, Steps
<1>6. /\ new.at = "commit" /\ new.job = task[w].job
      /\ new.attempt = task[w].attempt /\ new.run = run
      /\ new.verdict = VerdictOn(run)
  BY <1>1 DEF TaskRow
<1>7. task' = [task EXCEPT ![w] = new]
  BY <1>2
<1> HIDE DEF new
<1>8. /\ task'[w] = new /\ \A v \in Worker \ {w} : task'[v] = task[v]
      /\ task' \in [Worker -> TaskRow]
  BY <1>1, <1>5, <1>7
<1>9. Judges(w)
  BY <1>1, <1>3, <1>6, <1>8 DEF Judges
<1> QED BY <1>1, <1>8, <1>9 DEF HandlerEffect

LEMMA WhatHandlersDo ==
    ASSUME HandInv, NEW w \in Worker, HandlerStep(w)
    PROVE  HandlerEffect(w) /\ results' \in [DOMAIN results' -> Result]
<1>1. results \in [DOMAIN results -> Result]
  BY DEF HandInv, OwnTyped
<1>2. ~RunPlan(w) => results' = results
  BY DEF HandlerStep, Take, Begin, RaisesOut, HandlerRaises, Recover,
         CommitAnalysis, Judge, CommitCheck, ReadRows, WriteFile, Conclude,
         Announce, CommitReport
<1> QED BY <1>1, <1>2, TakeEffect, BeginEffect, LeaveEffect,
           CommitAnalysisEffect, CommitCheckEffect, GoEffect, ReadEffect,
           RunPlanEffect, JudgeEffect
    DEF HandlerStep
-----------------------------------------------------------------------------
(***************************************************************************)
(* What a step does to one row, and to who depends on whom.                *)
(***************************************************************************)
RowChange(i) ==
    \/ job'[i] = job[i]
    \/ Turns(i) /\ job'[i].state # "succeeded" /\ (Kept(i) \/ GatedBy(i))
    \/ \E w \in Worker : task[w].at # "idle" /\ task[w].job = i /\ Ends(w)
    \/ Spawns(i)

TablesGrow ==
    \/ dep' = dep /\ DOMAIN job' = DOMAIN job
    \/ \E j : Spawns(j)

HStep ==
    \/ UNCHANGED hvars
    \/ SurroundingsEffect
    \/ \E w \in Worker : HandlerEffect(w)

LEMMA RowsChange ==
    ASSUME HStep, NEW i \in DOMAIN job
    PROVE  RowChange(i)
<1>1. CASE job' = job
  BY <1>1 DEF RowChange
<1>2. ASSUME NEW j, Turns(j), job'[j].state # "succeeded", Kept(j) \/ GatedBy(j)
      PROVE  RowChange(i)
  BY <1>2 DEF RowChange, Turns, Moves
<1>3. ASSUME NEW j, Spawns(j) PROVE RowChange(i)
  BY <1>3 DEF RowChange, Spawns, Retries
<1>4. ASSUME NEW w \in Worker, HandlerEffect(w) PROVE RowChange(i)
  <2>1. CASE Takes(w) \/ Begins(w)
    BY <1>2, <2>1 DEF Takes, Begins
  <2>2. CASE Leaves(w)
    <3>1. CASE Ends(w)
      <4>1. i # task[w].job => job'[i] = job[i]
        BY <3>1 DEF Ends, Turns, Moves
      <4> QED BY <2>2, <3>1, <4>1 DEF RowChange, Leaves
    <3> QED BY <1>1, <2>2, <3>1 DEF Leaves
  <2>3. CASE Goes(w) \/ Solves(w) \/ Judges(w)
    BY <1>1, <2>3 DEF Goes, Solves, Judges
  <2> QED BY <1>4, <2>1, <2>2, <2>3 DEF HandlerEffect
<1>5. CASE SurroundingsEffect
  BY <1>1, <1>2, <1>3, <1>5 DEF SurroundingsEffect
<1> QED BY <1>1, <1>4, <1>5 DEF HStep, hvars, vars

LEMMA TablesDoGrow ==
    ASSUME HStep
    PROVE  TablesGrow /\ drafting' = drafting
<1>1. CASE UNCHANGED hvars
  BY <1>1 DEF TablesGrow, hvars, vars
<1>2. CASE SurroundingsEffect
  BY <1>2 DEF SurroundingsEffect, TablesGrow, Turns, Moves
<1>3. ASSUME NEW w \in Worker, HandlerEffect(w)
      PROVE  TablesGrow /\ drafting' = drafting
  BY <1>3 DEF HandlerEffect, TablesGrow, Takes, Begins, Leaves, Ends, Goes,
              Solves, Judges, Turns, Moves
<1> QED BY <1>1, <1>2, <1>3 DEF HStep

\* What is recorded stays recorded.
LEMMA ResultsGrow ==
    ASSUME HStep
    PROVE  /\ DOMAIN results \subseteq DOMAIN results'
           /\ \A k \in DOMAIN results : results'[k] = results[k]
<1>1. CASE results' = results
  BY <1>1
<1> QED BY <1>1 DEF HStep, hvars, own, SurroundingsEffect, HandlerEffect

\* A step of the specification, and what is preserved by Control's proofs.
LEMMA StepOfHandlers ==
    ASSUME HandInv, [HNext]_hvars
    PROVE  HStep /\ CaseInv' /\ (tables' # tables => Next)
<1>1. CaseInv
  BY DEF HandInv
<1>2. CASE UNCHANGED hvars
  <2>1. UNCHANGED vars
    BY <1>2 DEF hvars
  <2> QED BY <1>1, <1>2, <2>1, CaseStep DEF HStep, vars, tables
<1>3. CASE Surroundings
  BY <1>1, <1>3, CaseStep, SurroundingsAreControl, WhatSurrounds DEF HStep
<1>4. ASSUME NEW w \in Worker, HandlerStep(w)
      PROVE  HStep /\ CaseInv' /\ (tables' # tables => Next)
  <2>1. HStep
    BY <1>4, WhatHandlersDo DEF HStep
  <2>2. CASE Next
    BY <1>1, <2>1, <2>2, CaseStep
  <2>3. CASE /\ Unseen /\ upsets' \in {upsets} \cup {upsets + 1}
             /\ (upsets' # upsets => upsets < MaxUpsets)
    <3>1. upsets' \in 0..MaxUpsets
      BY <1>1, <2>3, ControlAssumption DEF CaseInv, TypeInv, PeopleOK
    <3>2. TypeInv'
      BY <1>1, <2>3, <3>1
         DEF CaseInv, TypeInv, TablesOK, RowsOK, LinesOK, DepsOK, LoopsOK,
             PeopleOK, Unseen, loops, cli, Present
    <3>3. CaseInv'
      BY <1>1, <2>3, <3>2
         DEF CaseInv, ReportsWait, ChecksFollow, DecisionsOK, RowsReady, HandsOK,
             Settled, Gated, Unseen, loops
    <3> QED BY <2>1, <2>3, <3>3 DEF Unseen, tables
  <2> QED BY <1>4, <2>2, <2>3, HandlersAreControl
<1> QED BY <1>2, <1>3, <1>4 DEF HNext

LEMMA JobsAge ==
    ASSUME HandInv, HStep, NEW i \in DOMAIN job
    PROVE  /\ i \in DOMAIN job' /\ job[i].attempt <= job'[i].attempt
           /\ job'[i].max = job[i].max
<1>1. job[i].attempt \in Nat
  BY TaskFacts DEF HandInv, CaseInv, TypeInv, TablesOK, RowsOK, JobRow
<1>2. i \in DOMAIN job'
  BY TablesDoGrow DEF TablesGrow, Spawns, Retries
<1>3. \/ job'[i] = job[i]
      \/ Moves(i)
      \/ Retries(i)
  BY RowsChange DEF RowChange, Turns, Ends, Spawns
<1> QED BY <1>1, <1>2, <1>3 DEF Moves, Retries

LEMMA WithinMaxStep ==
    ASSUME HandInv, HStep
    PROVE  WithinMax'
<1> SUFFICES ASSUME NEW i \in DOMAIN job'
             PROVE  /\ job'[i].attempt <= job'[i].max
                    /\ job'[i].state = "escalated" => job'[i].attempt = job'[i].max
  BY DEF WithinMax
<1>1. WithinMax /\ job \in [DOMAIN job -> JobRow]
  BY DEF HandInv, CaseInv, TypeInv, TablesOK, RowsOK
<1>2. CASE i \in DOMAIN job
  <2>1. /\ job[i].attempt <= job[i].max
        /\ job[i].state = "escalated" => job[i].attempt = job[i].max
        /\ job[i].attempt \in Nat /\ job[i].max \in Nat
    BY <1>1, <1>2 DEF WithinMax, JobRow
  <2>2. ASSUME Turns(i)
        PROVE  /\ job'[i].attempt <= job'[i].max
               /\ job'[i].state = "escalated" => job'[i].attempt = job'[i].max
    <3>1. /\ job'[i].max = job[i].max
          /\ job'[i].attempt = AttemptAfter(job[i], job'[i].state)
          /\ <<job[i].state, job'[i].state>> \in LeaseExpiry
               => job[i].attempt < job[i].max
          /\ job'[i].state = "escalated" => job[i].attempt >= job[i].max
      BY <2>2 DEF Turns, Moves
    <3>2. job'[i].state = "escalated"
            => <<job[i].state, job'[i].state>> \notin LeaseExpiry
      BY DEF LeaseExpiry
    <3> QED BY <2>1, <3>1, <3>2 DEF AttemptAfter
  <2>3. RowChange(i)
    BY <1>2, RowsChange
  <2> QED BY <2>1, <2>2, <2>3 DEF RowChange, Ends, Spawns, Retries
<1>3. CASE i \notin DOMAIN job
  <2>1. PICK j : Spawns(j)
    BY <1>3, TablesDoGrow DEF TablesGrow
  <2>2. /\ i = RetryOf(j) /\ j \in DOMAIN job
        /\ job[j].attempt < job[j].max
        /\ job'[i].attempt = job[j].attempt + 1 /\ job'[i].max = job[j].max
        /\ job'[i].state # "escalated"
    BY <1>3, <2>1 DEF Spawns, Retries
  <2>3. job[j].attempt \in Nat /\ job[j].max \in Nat
    BY <1>1, <2>2 DEF JobRow
  <2> QED BY <2>2, <2>3
<1> QED BY <1>2, <1>3

LEMMA AttemptsStep ==
    ASSUME HandInv, HStep
    PROVE  AttemptsOK'
<1> SUFFICES ASSUME NEW v \in Worker, task'[v].at # "idle"
             PROVE  task'[v].attempt
                      \in task'[v].job.try..job'[task'[v].job].attempt
  BY DEF AttemptsOK
<1>1. ASSUME task[v].at # "idle", task'[v].job = task[v].job,
             task'[v].attempt = task[v].attempt
      PROVE  task'[v].attempt \in task'[v].job.try..job'[task'[v].job].attempt
  <2> DEFINE j == task[v].job
  <2>1. /\ j \in DOMAIN job /\ j \in Job /\ job[j] \in JobRow
        /\ task[v].attempt \in j.try..job[j].attempt
        /\ job[j].attempt <= job'[j].attempt
    BY <1>1, TaskFacts, JobsAge DEF HandInv, AttemptsOK
  <2>2. j.try \in Nat /\ job[j].attempt \in Nat
    BY <2>1, ControlAssumption DEF JobRow, Job, Analyses, Checks, Reports
  <2>3. job'[j].attempt \in Int
    <3>1. RowChange(j)
      BY <2>1, RowsChange
    <3>2. Moves(j) \/ job'[j] = job[j] \/ job'[j].attempt = job[j].attempt
      BY <3>1 DEF RowChange, Turns, Ends, Spawns, Retries
    <3> QED BY <2>1, <2>2, <3>2 DEF Moves, JobRow
  <2> HIDE DEF j
  <2>4. task[v].attempt \in j.try..job'[j].attempt
    BY <2>1, <2>2, <2>3
  <2> QED BY <1>1, <2>4 DEF j
<1>2. CASE task'[v] = task[v]
  BY <1>1, <1>2
<1>3. ASSUME HandlerEffect(v)
      PROVE  task'[v].attempt \in task'[v].job.try..job'[task'[v].job].attempt
  <2>1. CASE Takes(v)
    <3>1. PICK j \in DOMAIN job :
             /\ Turns(j) /\ job'[j].state = "assigned"
             /\ task'[v].job = j /\ task'[v].attempt = job[j].attempt
      BY <2>1 DEF Takes
    <3>2. /\ j.try <= job[j].attempt /\ job[j].attempt \in Nat /\ j.try \in Nat
      <4>1. j \in Job /\ job[j] \in JobRow /\ j.try <= job[j].attempt
        BY DEF HandInv, CaseInv, TypeInv, TablesOK, RowsOK
      <4>2. j.try \in Nat
        BY <4>1, ControlAssumption DEF Job, Analyses, Checks, Reports
      <4> QED BY <4>1, <4>2 DEF JobRow
    <3>3. job'[j].attempt = job[j].attempt
      BY <3>1 DEF Turns, AttemptAfter, LeaseExpiry
    <3> QED BY <3>1, <3>2, <3>3
  <2>2. CASE Begins(v) \/ Goes(v) \/ Solves(v) \/ Judges(v)
    BY <1>1, <2>2 DEF Begins, Goes, Solves, Judges, Same, IsAt
  <2>3. CASE Leaves(v)
    BY <2>3 DEF Leaves, Idle
  <2> QED BY <1>3, <2>1, <2>2, <2>3 DEF HandlerEffect
<1> QED BY <1>2, <1>3 DEF HStep, hvars, own, SurroundingsEffect, HandlerEffect

LEMMA BriefingStep ==
    ASSUME HandInv, [HNext]_hvars
    PROVE  briefing' \in [written : BOOLEAN, concluded : BOOLEAN,
                          announced : BOOLEAN,
                          shows : SUBSET [of : Case, run : RunRef \cup {NoRun}]]
<1>1. /\ briefing \in [written : BOOLEAN, concluded : BOOLEAN, announced : BOOLEAN,
                        shows : SUBSET [of : Case, run : RunRef \cup {NoRun}]]
      /\ \A w \in Worker :
            task[w].shows \in SUBSET [of : Case, run : RunRef \cup {NoRun}]
  BY DEF HandInv, OwnTyped, TaskRow
<1>2. CASE briefing' = briefing
  BY <1>1, <1>2
<1>3. ASSUME NEW w \in Worker, HandlerStep(w), briefing' # briefing
      PROVE  WriteFile(w) \/ Conclude(w) \/ Announce(w)
  BY <1>3 DEF HandlerStep, Take, Begin, RaisesOut, HandlerRaises, Recover,
       RunPlan, CommitAnalysis, Judge, CommitCheck, ReadRows, CommitReport
<1>4. ASSUME NEW w \in Worker, WriteFile(w) \/ Conclude(w) \/ Announce(w)
      PROVE  briefing' \in [written : BOOLEAN, concluded : BOOLEAN,
                            announced : BOOLEAN,
                            shows : SUBSET [of : Case, run : RunRef \cup {NoRun}]]
  BY <1>1, <1>4 DEF WriteFile, Conclude, Announce
<1> QED BY <1>2, <1>3, <1>4 DEF HNext, Surroundings, own, hvars

\* A retry takes its job's place, and nothing else changes who waits for whom.
LEMMA UpstreamStays ==
    ASSUME HandInv, HStep, NEW k \in DOMAIN job
    PROVE  /\ Upstream(k)' = {} <=> Upstream(k) = {}
           /\ \A u \in Upstream(k)' :
                 \/ u \in Upstream(k)
                 \/ \E i \in Upstream(k) : job[i].state = "triage"
<1>1. CASE dep' = dep /\ DOMAIN job' = DOMAIN job
  BY <1>1 DEF Upstream
<1>2. ASSUME NEW j, Spawns(j)
      PROVE  /\ Upstream(k)' = {} <=> Upstream(k) = {}
             /\ \A u \in Upstream(k)' :
                   \/ u \in Upstream(k)
                   \/ \E i \in Upstream(k) : job[i].state = "triage"
  <2> DEFINE r == RetryOf(j)
             to(u) == IF u = j THEN r ELSE u
  <2>1. /\ dep' = {<<e[1], IF e[2] = j THEN r ELSE e[2]>> : e \in dep}
        /\ DOMAIN job' = DOMAIN job \cup {r}
        /\ job[j].state = "triage"
    BY <1>2 DEF Spawns, Retries
  <2>2. \A e \in dep : e = <<e[1], e[2]>> /\ e[2] \in DOMAIN job
    BY Dependents DEF HandInv, CaseInv
  <2> HIDE DEF r
  <2>3. ASSUME NEW u \in Upstream(k) PROVE to(u) \in Upstream(k)'
    <3>1. <<k, u>> \in dep /\ u \in DOMAIN job
      BY <2>3 DEF Upstream
    <3>2. <<k, to(u)>> \in dep'
      BY <2>1, <3>1
    <3>3. to(u) \in DOMAIN job'
      BY <2>1, <3>1
    <3> QED BY <3>2, <3>3 DEF Upstream
  <2>4. ASSUME NEW v \in Upstream(k)'
        PROVE  \E u \in Upstream(k) : v = to(u)
    <3>1. <<k, v>> \in dep'
      BY <2>4 DEF Upstream
    <3>2. PICK e \in dep : <<k, v>> = <<e[1], IF e[2] = j THEN r ELSE e[2]>>
      BY <2>1, <3>1
    <3>3. k = e[1] /\ v = to(e[2])
      BY <3>2
    <3>4. e[2] \in Upstream(k)
      BY <2>2, <3>3 DEF Upstream
    <3> QED BY <3>3, <3>4
  <2> QED BY <2>1, <2>3, <2>4
<1> QED BY <1>1, <1>2, TablesDoGrow DEF TablesGrow

\* A job that has succeeded keeps its run.
LEMMA PastKeepsRun ==
    ASSUME HandInv, HStep, NEW u \in DOMAIN job, job[u].state \in Past
    PROVE  job'[u].state \in Past /\ job'[u].run = job[u].run
<1>1. RowChange(u)
  BY RowsChange
<1>2. ASSUME Turns(u) PROVE job'[u].state \in Past
  BY <1>2, WaysOfJobs DEF Turns, Moves
<1>3. \A w \in Worker : task[w].job = u => ~Ends(w)
  BY DEF Ends, Past
<1>4. ~Spawns(u)
  BY DEF Spawns, Retries, Past
<1> QED BY <1>1, <1>2, <1>3, <1>4 DEF RowChange, Kept, GatedBy

LEMMA VerdictStays ==
    ASSUME HandInv, HStep, NEW run \in DOMAIN results \cup {NoRun}
    PROVE  VerdictOn(run)' = VerdictOn(run)
<1>1. run = NoRun \/ results'[run] = results[run]
  BY ResultsGrow
<1> QED BY <1>1 DEF VerdictOn

LEMMA JudgedStep ==
    ASSUME HandInv, HStep
    PROVE  JudgedInHand'
<1> SUFFICES ASSUME NEW v \in Worker, NEW k, NEW run,
                    task'[v].at # "idle", k = task'[v].job, run = task'[v].run,
                    k.kind = "CHECK"
             PROVE  /\ \A u \in Upstream(k)' : job'[u].state \in Past
                    /\ task'[v].at = "commit" =>
                          /\ task'[v].verdict = VerdictOn(run)'
                          /\ Upstream(k)' = {} => run = NoRun
                          /\ \A u \in Upstream(k)' : run = job'[u].run
  BY DEF JudgedInHand, Upstream, VerdictOn
<1>1. ASSUME k \in DOMAIN job, \A u \in Upstream(k) : job[u].state \in Past
      PROVE  /\ Upstream(k)' = {} <=> Upstream(k) = {}
             /\ \A u \in Upstream(k)' : /\ u \in Upstream(k)
                                       /\ job'[u].state \in Past
                                       /\ job'[u].run = job[u].run
  <2>1. \A u \in Upstream(k) : /\ u \in DOMAIN job
                               /\ job'[u].state \in Past /\ job'[u].run = job[u].run
    BY <1>1, PastKeepsRun DEF Upstream
  <2> QED BY <1>1, <2>1, UpstreamStays DEF Past
<1>2. ASSUME task[v].at # "idle", k = task[v].job
      PROVE  /\ k \in DOMAIN job
             /\ \A u \in Upstream(k) : job[u].state \in Past
             /\ task[v].at = "commit" =>
                   /\ task[v].verdict = VerdictOn(task[v].run)
                   /\ Upstream(k) = {} => task[v].run = NoRun
                   /\ \A u \in Upstream(k) : task[v].run = job[u].run
             /\ task[v].run \in DOMAIN results \cup {NoRun}
  BY <1>2, TaskFacts DEF HandInv, JudgedInHand
<1>3. CASE task'[v] = task[v]
  <2>1. /\ task[v].at # "idle" /\ k = task[v].job /\ run = task[v].run
    BY <1>3
  <2>2. VerdictOn(run)' = VerdictOn(run)
    BY <1>2, <2>1, VerdictStays
  <2> QED BY <1>1, <1>2, <1>3, <2>1, <2>2
<1>4. ASSUME HandlerEffect(v)
      PROVE  /\ \A u \in Upstream(k)' : job'[u].state \in Past
             /\ task'[v].at = "commit" =>
                   /\ task'[v].verdict = VerdictOn(run)'
                   /\ Upstream(k)' = {} => run = NoRun
                   /\ \A u \in Upstream(k)' : run = job'[u].run
  <2>1. CASE Takes(v)
    <3>1. /\ k \in DOMAIN job /\ \A u \in Upstream(k) : Satisfied(k, u)
          /\ task'[v].at = "start"
      BY <2>1 DEF Takes
    <3>2. \A u \in Upstream(k) : job[u].state \in Past
      BY <3>1 DEF Satisfied, Past
    <3> QED BY <1>1, <3>1, <3>2
  <2>2. CASE Begins(v) \/ Goes(v)
    <3>1. /\ task[v].at # "idle" /\ k = task[v].job
          /\ task'[v].at # "commit"
      BY <2>2 DEF Begins, Goes, Same
    <3> QED BY <1>1, <1>2, <3>1
  <2>3. CASE Leaves(v)
    BY <2>3 DEF Leaves, Idle
  <2>4. CASE Solves(v)
    BY <2>4 DEF Solves, IsAt
  <2>5. CASE Judges(v)
    <3>1. /\ task[v].at # "idle" /\ k = task[v].job
          /\ task'[v].verdict = VerdictOn(run)
          /\ IF Upstream(k) = {} THEN run = NoRun
             ELSE \E u \in Upstream(k) : run = job[u].run
      BY <2>5 DEF Judges, IsAt
    <3>2. k \in DOMAIN job /\ \A u \in Upstream(k) : job[u].state \in Past
      BY <1>2, <3>1
    <3>3. \A u \in Upstream(k) : run = job[u].run
      <4>1. \A u, i \in Upstream(k) : u = i
        <5> SUFFICES ASSUME NEW u \in Upstream(k), NEW i \in Upstream(k)
                     PROVE  u = i
          OBVIOUS
        <5>1. <<k, u>> \in dep
          BY DEF Upstream
        <5>2. k \in Checks
          BY <3>2, TaskFacts DEF Job, Analyses, Reports, Checks
        <5> QED BY <5>1, <5>2, Dependents DEF HandInv, CaseInv
      <4> QED BY <3>1, <4>1
    <3>4. run \in DOMAIN results \cup {NoRun}
      <4>1. \A u \in Upstream(k) : job[u].run \in DOMAIN results \cup {NoRun}
        BY DEF Upstream, HandInv, OwnTyped
      <4> QED BY <3>1, <4>1
    <3>5. VerdictOn(run)' = VerdictOn(run)
      BY <3>4, VerdictStays
    <3> QED BY <1>1, <3>1, <3>2, <3>3, <3>5
  <2> QED BY <1>4, <2>1, <2>2, <2>3, <2>4, <2>5 DEF HandlerEffect
<1> QED BY <1>3, <1>4 DEF HStep, hvars, own, SurroundingsEffect, HandlerEffect

LEMMA RecordStep ==
    ASSUME HandInv, [HNext]_hvars
    PROVE  /\ DOMAIN results' \subseteq Key
           /\ results' \in [DOMAIN results' -> Result]
<1>1. DOMAIN results \subseteq Key /\ results \in [DOMAIN results -> Result]
  BY DEF HandInv, OwnTyped
<1>2. CASE results' = results
  BY <1>1, <1>2
<1>3. ASSUME NEW w \in Worker, HandlerStep(w), results' # results
      PROVE  /\ DOMAIN results' \subseteq Key
             /\ results' \in [DOMAIN results' -> Result]
  <2>1. HandlerEffect(w) /\ results' \in [DOMAIN results' -> Result]
    BY <1>3, WhatHandlersDo
  <2>2. Solves(w)
    BY <1>3, <2>1 DEF HandlerEffect, Takes, Begins, Leaves, Goes, Judges
  <2>3. KeyOf(w) \in Key
    BY <2>2, KeyIsKey DEF Solves, IsAt
  <2> QED BY <1>1, <2>1, <2>2, <2>3 DEF Solves
<1> QED BY <1>2, <1>3 DEF HNext, Surroundings, own, hvars

LEMMA TasksStep ==
    ASSUME HandInv, HStep
    PROVE  /\ task' \in [Worker -> TaskRow]
           /\ \A w \in Worker :
                 /\ IF task'[w].at = "idle" THEN task'[w] = Idle
                                           ELSE task'[w].job \in DOMAIN job'
                 /\ task'[w].run \in DOMAIN results' \cup {NoRun}
<1>1. task \in [Worker -> TaskRow]
  BY DEF HandInv, OwnTyped
<1>2. task' \in [Worker -> TaskRow]
  BY <1>1 DEF HStep, hvars, own, SurroundingsEffect, HandlerEffect
<1>3. ASSUME NEW w \in Worker
      PROVE  /\ IF task'[w].at = "idle" THEN task'[w] = Idle
                                       ELSE task'[w].job \in DOMAIN job'
             /\ task'[w].run \in DOMAIN results' \cup {NoRun}
  <2>1. /\ IF task[w].at = "idle" THEN task[w] = Idle
                                  ELSE task[w].job \in DOMAIN job
        /\ task[w].run \in DOMAIN results \cup {NoRun}
        /\ \A j \in DOMAIN job : job[j].run \in DOMAIN results \cup {NoRun}
    BY DEF HandInv, OwnTyped
  <2>2. DOMAIN job \subseteq DOMAIN job' /\ DOMAIN results \subseteq DOMAIN results'
    BY JobsAge, ResultsGrow
  <2>3. CASE task'[w] = task[w]
    BY <2>1, <2>2, <2>3
  <2>4. ASSUME HandlerEffect(w)
        PROVE  /\ IF task'[w].at = "idle" THEN task'[w] = Idle
                                         ELSE task'[w].job \in DOMAIN job'
               /\ task'[w].run \in DOMAIN results' \cup {NoRun}
    <3>1. CASE Takes(w)
      BY <2>2, <3>1 DEF Takes
    <3>2. CASE Begins(w) \/ Goes(w)
      <4>1. /\ task[w].at # "idle" /\ task'[w].at # "idle" /\ Same(w)
        BY <3>2 DEF Begins, Goes, Steps
      <4> QED BY <2>1, <2>2, <4>1 DEF Same
    <3>3. CASE Leaves(w)
      BY <3>3 DEF Leaves, Idle
    <3>4. CASE Solves(w)
      <4>1. /\ task[w].at # "idle" /\ task'[w].at # "idle"
            /\ task'[w].job = task[w].job
            /\ task'[w].run \in DOMAIN results' \cup {task[w].run}
        BY <3>4 DEF Solves, IsAt
      <4> QED BY <2>1, <2>2, <4>1
    <3>5. CASE Judges(w)
      <4>1. /\ task[w].at # "idle" /\ task'[w].at # "idle"
            /\ task'[w].job = task[w].job
            /\ task'[w].run = NoRun \/ \E u \in DOMAIN job : task'[w].run = job[u].run
        BY <3>5 DEF Judges, IsAt, Upstream
      <4> QED BY <2>1, <2>2, <4>1
    <3> QED BY <2>4, <3>1, <3>2, <3>3, <3>4, <3>5 DEF HandlerEffect
  <2> QED BY <2>3, <2>4 DEF HStep, hvars, own, SurroundingsEffect, HandlerEffect
<1> QED BY <1>2, <1>3

LEMMA RunsStep ==
    ASSUME HandInv, HStep, NEW i \in DOMAIN job'
    PROVE  job'[i].run \in DOMAIN results' \cup {NoRun}
<1>1. DOMAIN results \subseteq DOMAIN results'
  BY ResultsGrow
<1>2. CASE i \in DOMAIN job
  <2>1. job[i].run \in DOMAIN results \cup {NoRun}
    BY <1>2 DEF HandInv, OwnTyped
  <2>2. ASSUME NEW w \in Worker, task[w].job = i, Ends(w)
        PROVE  job'[i].run \in {job[i].run, task[w].run}
    BY <2>2 DEF Ends, Kept
  <2>3. \A w \in Worker : task[w].run \in DOMAIN results \cup {NoRun}
    BY DEF HandInv, OwnTyped
  <2>4. RowChange(i)
    BY <1>2, RowsChange
  <2> QED BY <1>1, <2>1, <2>2, <2>3, <2>4 DEF RowChange, Kept, GatedBy, Spawns
<1>3. CASE i \notin DOMAIN job
  <2>1. PICK j : Spawns(j)
    BY <1>3, TablesDoGrow DEF TablesGrow
  <2> QED BY <1>3, <2>1 DEF Spawns, Retries
<1> QED BY <1>2, <1>3

LEMMA HandStep == ASSUME HandInv, [HNext]_hvars PROVE HandInv'
<1>1. HStep /\ CaseInv'
  BY StepOfHandlers
<1>2. drafting' = FALSE
  BY <1>1, TablesDoGrow DEF HandInv
<1>3. OwnTyped'
  BY <1>1, RecordStep, TasksStep, RunsStep, BriefingStep DEF OwnTyped
<1> QED BY <1>1, <1>2, <1>3, WithinMaxStep, AttemptsStep, JudgedStep DEF HandInv

LEMMA HandInit == HInit => HandInv
<1> SUFFICES ASSUME HInit PROVE HandInv
  OBVIOUS
<1>1. ASSUME NEW j \in Plan
      PROVE  /\ job[j] \in JobRow /\ job[j].state = "queued"
             /\ job[j].max = MaxOf(j) /\ job[j].attempt = 1
             /\ job[j].run = NoRun /\ job[j].verdict = NoVerdict
  <2> DEFINE new == NewJob(1, IF j = Report THEN ReportAttempts ELSE MaxAttempts)
  <2>1. job[j] = [new EXCEPT !.state = "queued"]
    BY DEF HInit
  <2>2. /\ new \in JobRow /\ new.max = MaxOf(j) /\ new.attempt = 1
        /\ new.run = NoRun /\ new.verdict = NoVerdict
    BY PlanRows
  <2> HIDE DEF new
  <2> QED BY <2>1, <2>2 DEF JobRow, JobState, PreRunning
<1>2. DOMAIN job = Plan /\ job \in [DOMAIN job -> JobRow]
  BY <1>1 DEF HInit
<1>3. TypeInv
  <2>1. study \in StudyStatus /\ drafting \in BOOLEAN /\ dep = PlannedDeps /\ Quiet
    BY DEF HInit, StudyStatus, StudyNonTerminal
  <2> QED BY <1>1, <1>2, <2>1, PlanIsTyped
<1>4. CaseInv
  <2>1. "queued" \notin Worked /\ "queued" \notin Past /\ "queued" \notin Leased
    BY DEF Worked, Past, Leased
  <2>2. \A e \in dep : e[1] \in DOMAIN job
    BY <1>3, Dependents
  <2>3. \A p \in Loop : rows[p] = {} /\ at[p] = "idle"
    BY DEF HInit, Quiet
  <2>4. ReportsWait /\ ChecksFollow
    BY <1>1, <1>2, <2>1, <2>2 DEF ReportsWait, ChecksFollow, Worked, Past, Leased
  <2>5. DecisionsOK /\ RowsReady /\ HandsOK
    BY <1>1, <1>2, <2>1, <2>3 DEF DecisionsOK, RowsReady, HandsOK
  <2> QED BY <1>3, <2>4, <2>5 DEF CaseInv
<1>5. \A w \in Worker : task[w] = Idle
  BY DEF HInit
<1>6. OwnTyped
  <2>1. task \in [Worker -> TaskRow]
    BY TaskRows DEF HInit
  <2>2. DOMAIN results = {} /\ results \in [DOMAIN results -> Result]
    BY DEF HInit
  <2> QED BY <1>1, <1>2, <1>5, <2>1, <2>2 DEF HInit, OwnTyped, Idle
<1>7. WithinMax /\ AttemptsOK /\ JudgedInHand
  <2>1. \A j \in Plan : job[j].attempt <= job[j].max /\ job[j].state # "escalated"
    <3> TAKE j \in Plan
    <3>1. job[j].attempt = 1 /\ job[j].max \in Nat \ {0} /\ job[j].state = "queued"
      BY <1>1 DEF JobRow
    <3> QED BY <3>1
  <2> QED BY <1>2, <1>5, <2>1 DEF WithinMax, AttemptsOK, JudgedInHand, Idle
<1> QED BY <1>4, <1>6, <1>7 DEF HandInv, HInit

(***************************************************************************)
(* The workers in detail are workers as Control knows them: whatever late  *)
(* or restarted processes do to the tables is a step of Control, so that   *)
(* Control leaves nothing out.                                             *)
(***************************************************************************)
THEOREM HandlersRefine == HSpec => StepsOfControl
<1>1. HandInv /\ [HNext]_hvars => HandInv' /\ [tables' # tables => Next]_vars
  BY HandStep, StepOfHandlers
<1> QED BY HandInit, <1>1, PTL DEF HSpec, StepsOfControl

(***************************************************************************)
(* What is proved of Control holds of its workers in detail.               *)
(***************************************************************************)
THEOREM HandlersKeepOrder ==
    HSpec => [](ChecksHaveARun /\ VerdictDecides /\ ReportComesLast)
<1>1. HandInv => CaseInv
  BY DEF HandInv
<1>2. HandInv /\ [HNext]_hvars => HandInv'
  BY HandStep
<1> QED BY HandInit, <1>1, <1>2, CasesAreRight, PTL DEF HSpec

\* Who waits for whom, whatever the workers in detail do.
LEMMA HandlersWait ==
    ASSUME HandInv, Waiting, [HNext]_hvars
    PROVE  Waiting'
<1>1. TypeInv /\ TypeInv' /\ (tables' # tables => Next)
  BY StepOfHandlers DEF HandInv, CaseInv
<1>2. ~drafting
  BY DEF HandInv
<1>3. CASE tables' = tables
  BY <1>1, <1>3 DEF tables, Waiting, ChecksEndJudged, NoHuskAhead
<1>4. CASE tables' # tables
  <2>1. TableStep
    BY <1>1, <1>4, StepIsTableStep
  <2> QED
    BY <1>1, <1>2, <2>1, ChecksEndStep, HuskStep DEF Waiting, DraftAtRest
<1> QED BY <1>3, <1>4

LEMMA HandlersUseUp ==
    ASSUME HandInv, [HNext]_hvars
    PROVE  /\ \A j \in DOMAIN job : job'[j] = job[j] \/ UsesUp(j)
           /\ \A r \in DOMAIN job' \ DOMAIN job :
                 \/ drafting /\ r \in Plan
                 \/ \E j \in DOMAIN job : Replaces(r, j)
<1>1. TypeInv /\ WithinAttempts /\ (tables' # tables => Next)
  BY StepOfHandlers DEF HandInv, CaseInv, WithinMax, WithinAttempts
<1>2. CASE tables' = tables
  BY <1>2 DEF tables
<1>3. CASE tables' # tables
  BY <1>1, <1>3, StepIsTableStep, WorkStep
<1> QED BY <1>2, <1>3

(***************************************************************************)
(* So nobody stands still either when processes are overtaken, die between *)
(* their statements or commit late, and what they do uses up the work.     *)
(***************************************************************************)
THEOREM HandlersGoOn == HSpec => []NoStandstill /\ WorkIsUsedUp
<1>1. HInit => Waiting
  <2> SUFFICES ASSUME HInit PROVE Waiting
    OBVIOUS
  <2>1. TypeInv
    BY HandInit DEF HandInv, CaseInv
  <2>2. \A j \in DOMAIN job : job[j].state = "queued"
    BY DEF HInit, NewJob
  <2>3. \A e \in dep : e[2] \in DOMAIN job
    BY <2>1, Dependents
  <2> QED BY <2>1, <2>2, <2>3 DEF Waiting, ChecksEndJudged, NoHuskAhead
<1>2. ASSUME HandInv, [HNext]_hvars
      PROVE  [/\ \A j \in DOMAIN job :
                    \/ job'[j] = job[j]
                    \/ WorkLeft(job'[j]) \in 0 .. WorkLeft(job[j]) - 1
                    \/ Requeued(j)
              /\ \A r \in DOMAIN job' \ DOMAIN job :
                    \/ drafting /\ r \in Plan
                    \/ \E j \in DOMAIN job : Replaces(r, j)]_vars
  BY <1>2, HandlersUseUp DEF UsesUp
<1> QED
  BY HandInit, HandStep, HandlersWait, WaitersAreRight, <1>1, <1>2, PTL
     DEF HSpec, WorkIsUsedUp
-----------------------------------------------------------------------------
(***************************************************************************)
(* Verdicts and runs.                                                      *)
(***************************************************************************)
\* The verdict of a CHECK is on the run of what it depends on, if anything.
ChecksTell ==
    \A k \in Checks \cap DOMAIN job : job[k].verdict # NoVerdict =>
        \E run \in DOMAIN results \cup {NoRun} :
            /\ job[k].verdict = VerdictOn(run)
            /\ \A u \in Upstream(k) : job[u].state \in Past /\ job[u].run = run

\* Only a job that has succeeded is given a verdict, and it has a run.
AnalysesTell ==
    \A a \in Analyses \cap DOMAIN job :
        /\ job[a].verdict # NoVerdict =>
              job[a].state \in Past /\ job[a].verdict = VerdictOn(job[a].run)
        /\ job[a].state \in Past =>
              /\ job[a].run \in DOMAIN results
              /\ results[job[a].run].outcome = "ok"

\* A handler has no run, or that of its own key.
KeysInHand ==
    \A w \in Worker : task[w].at # "idle" /\ task[w].job.kind = "ANALYSIS" =>
        task[w].run \in {NoRun, KeyOf(w)}

RunInv == HandInv /\ ChecksTell /\ AnalysesTell /\ KeysInHand /\ RunOfTheJob

\* A verdict is given to a CHECK by its worker only.
LEMMA ChecksUngated ==
    ASSUME TypeInv, NEW k \in Checks, GatedBy(k)
    PROVE  FALSE
<1>1. PICK c \in Checks : <<c, k>> \in dep
  BY DEF GatedBy
<1>2. k \in Analyses
  BY <1>1, Dependents
<1> QED BY <1>2 DEF Analyses, Checks

LEMMA ChecksTellStep ==
    ASSUME RunInv, HStep
    PROVE  ChecksTell'
<1>1. HandInv /\ ChecksTell /\ TypeInv
  BY TaskFacts DEF RunInv, HandInv, CaseInv
<1> SUFFICES ASSUME NEW k \in Checks \cap DOMAIN job', job'[k].verdict # NoVerdict
             PROVE  \E run \in DOMAIN results' \cup {NoRun} :
                       /\ job'[k].verdict = VerdictOn(run)'
                       /\ \A u \in Upstream(k)' :
                             job'[u].state \in Past /\ job'[u].run = run
  BY DEF ChecksTell, Upstream, VerdictOn
<1>2. k \in DOMAIN job
  <2> SUFFICES ASSUME k \notin DOMAIN job PROVE FALSE
    OBVIOUS
  <2>1. PICK j : Spawns(j)
    BY TablesDoGrow DEF TablesGrow
  <2> QED BY <2>1 DEF Spawns, Retries
<1>3. ASSUME NEW run \in DOMAIN results \cup {NoRun},
             job'[k].verdict = VerdictOn(run),
             \A u \in Upstream(k) : job[u].state \in Past /\ job[u].run = run
      PROVE  \E r \in DOMAIN results' \cup {NoRun} :
                /\ job'[k].verdict = VerdictOn(r)'
                /\ \A u \in Upstream(k)' :
                      job'[u].state \in Past /\ job'[u].run = r
  <2>1. run \in DOMAIN results' \cup {NoRun} /\ VerdictOn(run)' = VerdictOn(run)
    BY <1>1, <1>3, ResultsGrow, VerdictStays
  <2>2. \A u \in Upstream(k) : /\ u \in DOMAIN job
                               /\ job'[u].state \in Past /\ job'[u].run = run
    BY <1>1, <1>3, PastKeepsRun DEF Upstream
  <2>3. \A u \in Upstream(k)' : u \in Upstream(k)
    BY <1>1, <1>2, <1>3, UpstreamStays DEF Past
  <2> QED BY <1>3, <2>1, <2>2, <2>3
<1>4. CASE job'[k].verdict = job[k].verdict
  <2>1. PICK run \in DOMAIN results \cup {NoRun} :
           /\ job[k].verdict = VerdictOn(run)
           /\ \A u \in Upstream(k) : job[u].state \in Past /\ job[u].run = run
    BY <1>1, <1>2, <1>4 DEF ChecksTell
  <2> QED BY <1>3, <1>4, <2>1
<1>5. ASSUME NEW w \in Worker, task[w].at # "idle", task[w].job = k, Ends(w),
             job'[k].verdict # job[k].verdict
      PROVE  \E r \in DOMAIN results' \cup {NoRun} :
                /\ job'[k].verdict = VerdictOn(r)'
                /\ \A u \in Upstream(k)' :
                      job'[u].state \in Past /\ job'[u].run = r
  <2>1. /\ task[w].at = "commit" /\ k.kind = "CHECK"
        /\ task[w].verdict # NoVerdict => job'[k].verdict = task[w].verdict
    BY <1>5 DEF Ends, Kept, IsAt
  <2>2. /\ task[w].verdict = VerdictOn(task[w].run)
        /\ \A u \in Upstream(k) : job[u].state \in Past /\ job[u].run = task[w].run
        /\ task[w].run \in DOMAIN results \cup {NoRun}
    BY <1>1, <1>5, <2>1, TaskFacts DEF HandInv, JudgedInHand
  <2>3. task[w].verdict # NoVerdict
    BY <1>1, <2>2, TaskFacts, VerdictIsVerdict
  <2>4. PICK run : run = task[w].run
    OBVIOUS
  <2> QED BY <1>3, <2>1, <2>2, <2>3, <2>4
<1> QED BY <1>1, <1>2, <1>4, <1>5, RowsChange, ChecksUngated
        DEF RowChange, Kept, Spawns

LEMMA AnalysesTellStep ==
    ASSUME RunInv, HStep
    PROVE  AnalysesTell'
<1>1. HandInv /\ ChecksTell /\ AnalysesTell /\ TypeInv
  BY DEF RunInv, HandInv, CaseInv
<1> SUFFICES ASSUME NEW a \in Analyses \cap DOMAIN job', NEW run,
                    run = job'[a].run
             PROVE  /\ job'[a].verdict # NoVerdict =>
                          /\ job'[a].state \in Past
                          /\ job'[a].verdict = VerdictOn(run)'
                    /\ job'[a].state \in Past =>
                          /\ run \in DOMAIN results'
                          /\ results'[run].outcome = "ok"
  BY DEF AnalysesTell, VerdictOn
<1> DEFINE Goal == /\ job'[a].verdict # NoVerdict =>
                          /\ job'[a].state \in Past
                          /\ job'[a].verdict = VerdictOn(run)'
                   /\ job'[a].state \in Past =>
                          /\ run \in DOMAIN results'
                          /\ results'[run].outcome = "ok"
<1>2. CASE a \notin DOMAIN job
  <2>1. PICK j : Spawns(j)
    BY <1>2, TablesDoGrow DEF TablesGrow
  <2>2. job'[a].verdict = NoVerdict /\ job'[a].state \in {"proposed", "approved"}
    BY <1>2, <2>1 DEF Spawns, Retries
  <2> QED BY <2>2 DEF Past
<1>3. CASE a \in DOMAIN job
  <2>1. /\ job[a].verdict # NoVerdict =>
              job[a].state \in Past /\ job[a].verdict = VerdictOn(job[a].run)
        /\ job[a].state \in Past =>
              /\ job[a].run \in DOMAIN results
              /\ results[job[a].run].outcome = "ok"
    BY <1>1, <1>3 DEF AnalysesTell
  <2>2. \A r \in DOMAIN results : r \in DOMAIN results' /\ results'[r] = results[r]
    BY ResultsGrow
  <2>3. \A r \in DOMAIN results : VerdictOn(r)' = VerdictOn(r)
    BY <1>1, VerdictStays
  <2>4. ASSUME job[a].state \in Past,
               job'[a].verdict \in {NoVerdict, VerdictOn(job[a].run)}
        PROVE  Goal
    <3>1. job'[a].state \in Past /\ run = job[a].run
      BY <1>1, <1>3, <2>4, PastKeepsRun
    <3> QED BY <2>1, <2>2, <2>3, <2>4, <3>1
  <2>5. ASSUME job[a].state \notin Past, job'[a].verdict = job[a].verdict,
               job'[a].state \notin Past
        PROVE  Goal
    BY <2>1, <2>5
  <2>6. CASE job'[a] = job[a]
    BY <2>1, <2>4, <2>5, <2>6
  <2>7. CASE Turns(a) /\ job'[a].state # "succeeded" /\ Kept(a)
    <3>1. job'[a].state \in Past => job[a].state \in Past
      BY <2>7, WaysOfJobs DEF Turns, Moves, Past
    <3> QED BY <2>1, <2>4, <2>5, <2>7, <3>1 DEF Kept
  <2>8. CASE GatedBy(a)
    <3>1. PICK k \in Checks \cap DOMAIN job :
             /\ <<k, a>> \in dep /\ job[k].verdict # NoVerdict
             /\ job'[a].verdict = job[k].verdict
      BY <2>8 DEF GatedBy
    <3>2. a \in Upstream(k)
      BY <1>3, <3>1 DEF Upstream
    <3>3. job[a].state \in Past /\ job[k].verdict = VerdictOn(job[a].run)
      BY <1>1, <3>1, <3>2 DEF ChecksTell
    <3> QED BY <2>4, <3>1, <3>3
  <2>9. ASSUME NEW w \in Worker, task[w].at # "idle", task[w].job = a, Ends(w)
        PROVE  Goal
    <3>1. job[a].state = "running" /\ a.kind = "ANALYSIS"
      BY <2>9 DEF Ends, Analyses
    <3>2. job[a].verdict = NoVerdict
      BY <2>1, <3>1 DEF Past
    <3>3. job'[a].verdict = job[a].verdict
      BY <2>9, <3>1 DEF Ends, Kept, IsAt
    <3>4. ASSUME job'[a].state \in Past
          PROVE  run \in DOMAIN results /\ results[run].outcome = "ok"
      <4>1. job'[a].state = "succeeded"
        BY <2>9, <3>4 DEF Ends, Past
      <4>2. /\ task[w].run # NoRun /\ results[task[w].run].outcome = "ok"
            /\ run = task[w].run
        BY <2>9, <3>1, <4>1 DEF Ends, IsAt
      <4> QED BY <1>1, <4>2, TaskFacts
    <3> QED BY <2>2, <3>2, <3>3, <3>4
  <2>10. CASE Spawns(a)
    BY <2>1, <2>5, <2>10 DEF Spawns, Retries, Kept, Past
  <2> QED BY <1>3, <2>6, <2>7, <2>8, <2>9, <2>10, RowsChange DEF RowChange
<1> QED BY <1>2, <1>3

LEMMA KeysStep ==
    ASSUME RunInv, HStep
    PROVE  KeysInHand'
<1>1. HandInv /\ KeysInHand
  BY DEF RunInv
<1> SUFFICES ASSUME NEW w \in Worker, task'[w].at # "idle",
                    task'[w].job.kind = "ANALYSIS"
             PROVE  task'[w].run \in {NoRun, [of |-> task'[w].job.of,
                                             attempt |-> task'[w].attempt]}
  BY DEF KeysInHand, KeyOf
<1>2. ASSUME task[w].at # "idle", task'[w].job = task[w].job,
             task'[w].attempt = task[w].attempt,
             task'[w].run \in {task[w].run, KeyOf(w)}
      PROVE  task'[w].run \in {NoRun, [of |-> task'[w].job.of,
                                      attempt |-> task'[w].attempt]}
  BY <1>1, <1>2 DEF KeysInHand, KeyOf
<1>3. CASE task'[w] = task[w]
  BY <1>2, <1>3
<1>4. ASSUME HandlerEffect(w)
      PROVE  task'[w].run \in {NoRun, [of |-> task'[w].job.of,
                                      attempt |-> task'[w].attempt]}
  <2>1. CASE Takes(w)
    BY <2>1 DEF Takes
  <2>2. CASE Begins(w) \/ Goes(w) \/ Solves(w)
    BY <1>2, <2>2 DEF Begins, Goes, Solves, Same, IsAt
  <2>3. CASE Leaves(w)
    BY <2>3 DEF Leaves, Idle
  <2>4. CASE Judges(w)
    BY <2>4 DEF Judges, IsAt
  <2> QED BY <1>4, <2>1, <2>2, <2>3, <2>4 DEF HandlerEffect
<1> QED BY <1>3, <1>4 DEF HStep, hvars, own, SurroundingsEffect, HandlerEffect

LEMMA RunOfTheJobStep ==
    ASSUME RunInv, HStep
    PROVE  RunOfTheJob'
<1>1. HandInv /\ KeysInHand /\ RunOfTheJob
  BY DEF RunInv
<1> SUFFICES ASSUME NEW a \in Analyses \cap DOMAIN job', job'[a].run # NoRun
             PROVE  /\ job'[a].run.of = a.of
                    /\ job'[a].run.attempt \in a.try..job'[a].attempt
  BY DEF RunOfTheJob
<1>2. a \in DOMAIN job
  <2> SUFFICES ASSUME a \notin DOMAIN job PROVE FALSE
    OBVIOUS
  <2>1. PICK j : Spawns(j)
    BY TablesDoGrow DEF TablesGrow
  <2> QED BY <2>1 DEF Spawns, Retries
<1>3. ASSUME NEW n, n \in a.try..job[a].attempt
      PROVE  n \in a.try..job'[a].attempt
  <2>1. job[a] \in JobRow /\ job[a].attempt <= job'[a].attempt
    BY <1>1, <1>2, TaskFacts, JobsAge
       DEF HandInv, CaseInv, TypeInv, TablesOK, RowsOK
  <2>2. job'[a].attempt \in Int
    <3>1. RowChange(a)
      BY <1>2, RowsChange
    <3>2. Moves(a) \/ job'[a] = job[a] \/ job'[a].attempt = job[a].attempt
      BY <3>1 DEF RowChange, Turns, Ends, Spawns, Retries
    <3> QED BY <1>2, <2>1, <3>2 DEF Moves, JobRow
  <2>3. a.try \in Nat /\ job[a].attempt \in Nat
    BY <2>1 DEF Analyses, JobRow
  <2> QED BY <1>3, <2>1, <2>2, <2>3
<1>4. CASE job'[a].run = job[a].run
  BY <1>1, <1>2, <1>3, <1>4 DEF RunOfTheJob
<1>5. ASSUME NEW w \in Worker, task[w].at # "idle", task[w].job = a, Ends(w),
             job'[a].run # job[a].run
      PROVE  /\ job'[a].run.of = a.of
             /\ job'[a].run.attempt \in a.try..job'[a].attempt
  <2>1. a.kind = "ANALYSIS"
    BY DEF Analyses
  <2>2. job'[a].run = task[w].run
    BY <1>5, <2>1 DEF Ends, Kept, IsAt
  <2>3. task[w].run = KeyOf(w)
    BY <1>1, <1>5, <2>1, <2>2 DEF KeysInHand
  <2>4. /\ KeyOf(w).of = a.of
        /\ KeyOf(w).attempt = task[w].attempt
        /\ task[w].attempt \in a.try..job[a].attempt
    BY <1>1, <1>5, <2>1, KeyIsKey DEF HandInv, AttemptsOK
  <2> QED BY <1>3, <2>2, <2>3, <2>4
<1> QED BY <1>2, <1>4, <1>5, RowsChange DEF RowChange, Kept, GatedBy, Spawns

LEMMA RunInit == HInit => RunInv
<1> SUFFICES ASSUME HInit PROVE RunInv
  OBVIOUS
<1>1. \A j \in DOMAIN job : /\ job[j].run = NoRun /\ job[j].verdict = NoVerdict
                            /\ job[j].state = "queued"
  <2> SUFFICES ASSUME NEW j \in Plan
               PROVE  /\ job[j].run = NoRun /\ job[j].verdict = NoVerdict
                      /\ job[j].state = "queued"
    BY DEF HInit
  <2> QED BY DEF HInit, NewJob
<1>2. \A w \in Worker : task[w] = Idle
  BY DEF HInit
<1>3. ChecksTell /\ AnalysesTell /\ RunOfTheJob
  BY <1>1 DEF ChecksTell, AnalysesTell, RunOfTheJob, Past
<1>4. KeysInHand
  BY <1>2 DEF KeysInHand, Idle
<1> QED BY <1>3, <1>4, HandInit DEF RunInv

LEMMA RunStep == ASSUME RunInv, [HNext]_hvars PROVE RunInv'
<1>1. HStep /\ HandInv'
  BY StepOfHandlers, HandStep DEF RunInv
<1> QED BY <1>1, ChecksTellStep, AnalysesTellStep, KeysStep, RunOfTheJobStep
        DEF RunInv

(***************************************************************************)
(* The verdict on an ANALYSIS is on the run its row names.                 *)
(***************************************************************************)
THEOREM RunsAreJudged == HSpec => []JudgedRun
<1>1. ASSUME RunInv PROVE JudgedRun
  <2> SUFFICES ASSUME NEW a \in Analyses \cap DOMAIN job,
                      job[a].verdict # NoVerdict
               PROVE  job[a].verdict.run = job[a].run
    BY DEF JudgedRun
  <2>1. job[a].run \in RunRef \cup {NoRun}
    BY <1>1, HandlersAssumption DEF RunInv, HandInv, OwnTyped
  <2> QED BY <1>1, <2>1, VerdictIsVerdict DEF RunInv, AnalysesTell
<1> QED BY RunInit, RunStep, <1>1, PTL DEF HSpec

(***************************************************************************)
(* A run that is accepted on its verdict is one the study would accept,    *)
(* where the policy accepts nothing but "pass".                            *)
(***************************************************************************)
THEOREM AcceptedMeansSound ==
    ASSUME \A v \in Accepting : v.level = "pass"
    PROVE  HSpec => []PassIsEarned
<1>1. ASSUME RunInv PROVE PassIsEarned
  <2> SUFFICES ASSUME NEW a \in Analyses \cap DOMAIN job,
                      job[a].state = "accepted", job[a].verdict \in Accepting
               PROVE  /\ job[a].run \in DOMAIN results
                      /\ results[job[a].run].outcome = "ok"
                      /\ Sound(results[job[a].run].found, Wanted)
    BY DEF PassIsEarned
  <2>1. /\ job[a].run \in DOMAIN results
        /\ results[job[a].run].outcome = "ok"
    BY <1>1 DEF RunInv, AnalysesTell, Past
  <2>2. job[a].verdict # NoVerdict
    BY ControlAssumption, NullsAssumption
  <2>3. job[a].verdict = VerdictOn(job[a].run)
    BY <1>1, <2>2 DEF RunInv, AnalysesTell
  <2>4. job[a].run \in RunRef
    BY <1>1, <2>1, HandlersAssumption DEF RunInv, HandInv, OwnTyped
  <2>5. LevelOf(results[job[a].run].found, Wanted) = "pass"
    BY <2>3, <2>4, VerdictIsVerdict
  <2>6. results[job[a].run].found \in SUBSET Finding
    <3>1. results[job[a].run] \in Result
      BY <1>1, <2>1 DEF RunInv, HandInv, OwnTyped
    <3> QED BY <3>1, HandlersAssumption
  <2>7. Wanted \in Acceptance
    BY HandlersAssumption
  <2> QED BY <2>1, <2>5, <2>6, <2>7, PassMeansSound
<1> QED BY RunInit, RunStep, <1>1, PTL DEF HSpec

(***************************************************************************)
(* Whoever commits an ANALYSIS, overtaken or not, the run is one of it.    *)
(***************************************************************************)
THEOREM RunsAreOwn == HSpec => []RunOfTheJob
<1>1. RunInv => RunOfTheJob
  BY DEF RunInv
<1> QED BY RunInit, RunStep, <1>1, PTL DEF HSpec
-----------------------------------------------------------------------------
(***************************************************************************)
(* What has been solved, and who is still to solve.                        *)
(***************************************************************************)
\* Of the jobs of a case that have not been replaced, none is behind the
\* record, and none that is not under way yet is level with it.
Fresh ==
    \A a \in Analyses \cap DOMAIN job, k \in DOMAIN results :
        job[a].state # "retry_spawned" /\ k.of = a.of =>
            /\ k.attempt <= job[a].attempt
            /\ k.attempt = job[a].attempt /\ job[a].state \in PreRunning
                 => job[a].attempt = job[a].max

Started ==
    \A w \in Worker :
        /\ task[w].at \notin {"idle", "start"}
        /\ task[w].attempt = job[task[w].job].attempt
        /\ job[task[w].job].state \in PreRunning
        => job[task[w].job].attempt = job[task[w].job].max

FreshInv == HandInv /\ Fresh /\ Started

\* Who comes back to the queue is on another attempt, or on the last one.
LEMMA Returns ==
    ASSUME HandInv, HStep, NEW i \in DOMAIN job, job'[i].attempt <= job[i].attempt,
           job'[i].state \in PreRunning
    PROVE  job[i].state \in PreRunning \/ job'[i].attempt = job'[i].max
<1>1. /\ job[i].attempt \in Nat /\ WithinMax
  BY TaskFacts DEF HandInv, CaseInv, TypeInv, TablesOK, RowsOK, JobRow
<1>2. RowChange(i)
  BY RowsChange
<1>3. ASSUME Turns(i)
      PROVE  job[i].state \in PreRunning \/ job'[i].attempt = job'[i].max
  <2>1. /\ <<job[i].state, job'[i].state>> \in JobTransition
        /\ job'[i].max = job[i].max
        /\ job'[i].attempt = AttemptAfter(job[i], job'[i].state)
    BY <1>3 DEF Turns, Moves
  <2>2. <<job[i].state, job'[i].state>> \notin LeaseExpiry
    BY <1>1, <2>1 DEF AttemptAfter
  <2>3. job[i].state \in PreRunning \/ job[i].state = "escalated"
    BY <2>1, <2>2 DEF JobTransition, PreRunning
  <2>4. job'[i].attempt = job[i].attempt
    BY <2>1, <2>2 DEF AttemptAfter
  <2> QED BY <1>1, <2>1, <2>3, <2>4 DEF WithinMax
<1>4. ASSUME NEW w \in Worker, task[w].job = i, Ends(w) PROVE FALSE
  BY <1>4 DEF Ends, PreRunning
<1>5. ASSUME Spawns(i) PROVE FALSE
  BY <1>5 DEF Spawns, Retries, PreRunning
<1> QED BY <1>2, <1>3, <1>4, <1>5 DEF RowChange

\* Only a handler records, and it does nothing else.
LEMMA RecordedBySolving ==
    ASSUME HStep, results' # results
    PROVE  job' = job /\ \E w \in Worker : Solves(w)
<1>1. PICK w \in Worker : HandlerEffect(w)
  BY DEF HStep, hvars, own, SurroundingsEffect
<1>2. Solves(w)
  BY <1>1 DEF HandlerEffect, Takes, Begins, Leaves, Goes, Judges
<1> QED BY <1>2 DEF Solves

LEMMA Attempts ==
    ASSUME HandInv, HStep, NEW i \in DOMAIN job
    PROVE  /\ job[i].attempt \in Nat /\ job'[i].attempt \in Nat
           /\ job[i].attempt <= job'[i].attempt /\ job'[i].max = job[i].max
<1>1. job[i] \in JobRow
  BY DEF HandInv, CaseInv, TypeInv, TablesOK, RowsOK
<1>2. RowChange(i)
  BY RowsChange
<1>3. Moves(i) \/ job'[i] = job[i] \/ job'[i].attempt = job[i].attempt
  BY <1>2 DEF RowChange, Turns, Ends, Spawns, Retries
<1>4. job'[i].attempt \in Nat
  BY <1>1, <1>3 DEF Moves, JobRow
<1> QED BY <1>1, <1>4, JobsAge DEF JobRow

LEMMA FreshStep ==
    ASSUME FreshInv, HStep
    PROVE  Fresh'
<1>1. HandInv /\ Fresh /\ Started /\ LinesOK /\ RowsOK
  BY DEF FreshInv, HandInv, CaseInv, TypeInv, TablesOK
<1> SUFFICES ASSUME NEW a \in Analyses \cap DOMAIN job', NEW k \in DOMAIN results',
                    job'[a].state # "retry_spawned", k.of = a.of
             PROVE  /\ k.attempt <= job'[a].attempt
                    /\ k.attempt = job'[a].attempt /\ job'[a].state \in PreRunning
                         => job'[a].attempt = job'[a].max
  BY DEF Fresh
<1>2. \A r \in DOMAIN results : r.attempt \in Nat
  BY <1>1 DEF HandInv, OwnTyped, Key
<1>3. CASE results' = results /\ a \in DOMAIN job
  <2>1. job[a].state # "retry_spawned"
    <3>1. ~Moves(a) \/ job[a].state # "retry_spawned"
      BY WaysOfJobs DEF Moves, TerminalJobState
    <3>2. Moves(a) \/ job'[a] = job[a] \/ Spawns(a)
      BY <1>3, RowsChange DEF RowChange, Turns, Ends
    <3> QED BY <3>1, <3>2 DEF Spawns, Retries
  <2>2. /\ k.attempt <= job[a].attempt
        /\ k.attempt = job[a].attempt /\ job[a].state \in PreRunning
             => job[a].attempt = job[a].max
    BY <1>1, <1>3, <2>1 DEF Fresh
  <2>3. /\ job[a].attempt \in Nat /\ job'[a].attempt \in Nat
        /\ job[a].attempt <= job'[a].attempt /\ job'[a].max = job[a].max
    BY <1>1, <1>3, Attempts
  <2>4. k.attempt \in Nat
    BY <1>2, <1>3
  <2>5. ASSUME k.attempt = job'[a].attempt, job'[a].state \in PreRunning
        PROVE  job'[a].attempt = job'[a].max
    <3>1. job'[a].attempt <= job[a].attempt /\ job[a].attempt = job'[a].attempt
      BY <2>2, <2>3, <2>4, <2>5
    <3>2. job[a].state \in PreRunning \/ job'[a].attempt = job'[a].max
      BY <1>1, <1>3, <2>5, <3>1, Returns
    <3> QED BY <2>2, <2>3, <2>5, <3>1, <3>2
  <2> QED BY <2>2, <2>3, <2>4, <2>5
<1>4. CASE results' = results /\ a \notin DOMAIN job
  <2>1. PICK j : Spawns(j)
    BY <1>4, TablesDoGrow DEF TablesGrow
  <2>2. /\ j \in DOMAIN job /\ a = RetryOf(j) /\ job[j].state = "triage"
        /\ job'[a].attempt = job[j].attempt + 1
    BY <1>4, <2>1 DEF Spawns, Retries
  <2>3. j \in Job /\ job[j] \in JobRow
    BY <1>1, <2>2 DEF RowsOK
  <2>4. j \in Analyses /\ j.of = a.of
    BY <2>2, <2>3 DEF RetryOf, Job, Analyses, Checks, Reports
  <2>5. k.attempt <= job[j].attempt /\ k.attempt \in Nat /\ job[j].attempt \in Nat
    BY <1>1, <1>2, <1>4, <2>2, <2>3, <2>4 DEF Fresh, JobRow
  <2> QED BY <2>2, <2>5
<1>5. CASE results' # results
  <2>1. job' = job
    BY <1>5, RecordedBySolving
  <2>2. CASE k \in DOMAIN results
    BY <1>1, <2>1, <2>2 DEF Fresh
  <2>3. CASE k \notin DOMAIN results
    <3>1. PICK w \in Worker : Solves(w)
      BY <1>5, RecordedBySolving
    <3> DEFINE j == task[w].job
    <3>2. /\ k = KeyOf(w) /\ task[w].at = "run" /\ j.kind = "ANALYSIS"
      BY <2>3, <3>1 DEF Solves, IsAt
    <3>3. /\ k.of = j.of /\ k.attempt = task[w].attempt
          /\ k.attempt \in j.try..job[j].attempt
          /\ j \in DOMAIN job
      BY <1>1, <3>2, TaskFacts, KeyIsKey DEF HandInv, AttemptsOK
    <3>4. /\ j \in Job /\ job[j] \in JobRow /\ job[a] \in JobRow
          /\ a.try <= job[a].attempt
      BY <1>1, <2>1, <3>3 DEF RowsOK
    <3>5. CASE a = j
      <4>1. /\ k.attempt = job[j].attempt /\ job[j].state \in PreRunning
                 => job[j].attempt = job[j].max
        BY <1>1, <3>2, <3>3 DEF Started
      <4>2. k.attempt <= job[j].attempt
        BY <3>3
      <4> QED BY <2>1, <3>5, <4>1, <4>2
    <3>6. CASE a # j
      <4> HIDE DEF j
      <4>1. j \in Analyses
        BY <3>2, <3>4 DEF Job, Analyses, Checks, Reports
      <4>2. /\ SameLine(a, j) /\ a.try # j.try
            /\ a.try \in Nat /\ j.try \in Nat
        <5>1. a.kind = "ANALYSIS" /\ j.kind = "ANALYSIS" /\ a.of = j.of
          BY <3>3, <4>1 DEF Analyses
        <5>2. a.try \in Nat /\ j.try \in Nat
          BY <4>1 DEF Analyses
        <5>3. a.try # j.try
          <6>1. /\ a = [kind |-> a.kind, of |-> a.of, try |-> a.try]
                /\ j = [kind |-> j.kind, of |-> j.of, try |-> j.try]
            BY <4>1 DEF Analyses
          <6> QED BY <3>6, <5>1, <6>1
        <5> QED BY <5>1, <5>2, <5>3 DEF SameLine
      <4>3. ~(a.try < j.try)
        BY <1>1, <2>1, <3>3, <4>2 DEF LinesOK
      <4>4. job[j].attempt < a.try
        <5>1. j.try < a.try /\ SameLine(j, a)
          BY <4>2, <4>3 DEF SameLine
        <5> QED BY <1>1, <2>1, <3>3, <5>1 DEF LinesOK
      <4> QED BY <2>1, <3>3, <3>4, <4>2, <4>4 DEF JobRow
    <3> QED BY <3>5, <3>6
  <2> QED BY <2>2, <2>3
<1> QED BY <1>3, <1>4, <1>5

LEMMA StartedStep ==
    ASSUME FreshInv, HStep
    PROVE  Started'
<1>1. HandInv /\ Started /\ AttemptsOK
  BY DEF FreshInv, HandInv
<1> SUFFICES ASSUME NEW w \in Worker, NEW j,
                    j = task'[w].job, task'[w].at \notin {"idle", "start"},
                    task'[w].attempt = job'[j].attempt,
                    job'[j].state \in PreRunning
             PROVE  job'[j].attempt = job'[j].max
  BY DEF Started
<1>2. ASSUME task[w].at \notin {"idle", "start"}, task[w].job = j,
             task'[w].attempt = task[w].attempt
      PROVE  job'[j].attempt = job'[j].max
  <2>1. j \in DOMAIN job /\ task[w].attempt \in j.try..job[j].attempt
    BY <1>1, <1>2, TaskFacts DEF AttemptsOK
  <2>2. /\ job[j].attempt \in Nat /\ job'[j].attempt \in Nat
        /\ job[j].attempt <= job'[j].attempt /\ job'[j].max = job[j].max
    BY <1>1, <2>1, Attempts
  <2>3. job'[j].attempt = job[j].attempt
    BY <1>2, <2>1, <2>2
  <2>4. job[j].state \in PreRunning \/ job'[j].attempt = job'[j].max
    BY <1>1, <2>1, <2>2, <2>3, Returns
  <2> QED BY <1>1, <1>2, <2>2, <2>3, <2>4 DEF Started
<1>3. CASE task'[w] = task[w]
  BY <1>2, <1>3
<1>4. ASSUME HandlerEffect(w) PROVE job'[j].attempt = job'[j].max
  <2>1. CASE Takes(w) \/ Leaves(w)
    BY <2>1 DEF Takes, Leaves, Idle
  <2>2. CASE Begins(w)
    BY <2>2 DEF Begins, Same, PreRunning
  <2>3. CASE Goes(w) \/ Solves(w) \/ Judges(w)
    BY <1>2, <2>3 DEF Goes, Solves, Judges, Same, IsAt
  <2> QED BY <1>4, <2>1, <2>2, <2>3 DEF HandlerEffect
<1> QED BY <1>3, <1>4 DEF HStep, hvars, own, SurroundingsEffect, HandlerEffect

(***************************************************************************)
(* The reaper and the retries always ask for an attempt nobody has solved: *)
(* a solve is replayed only where a human re-queued an exhausted job.      *)
(***************************************************************************)
THEOREM ReplaysAreByHand == HSpec => []ReplayIsByHand
<1>1. HInit => FreshInv
  BY HandInit DEF HInit, FreshInv, Fresh, Started, Idle
<1>2. FreshInv /\ [HNext]_hvars => FreshInv'
  BY StepOfHandlers, HandStep, FreshStep, StartedStep DEF FreshInv
<1>3. FreshInv => ReplayIsByHand
  BY DEF FreshInv, Fresh, ReplayIsByHand, PreRunning
<1> QED BY <1>1, <1>2, <1>3, PTL DEF HSpec
-----------------------------------------------------------------------------
(***************************************************************************)
(* The briefing.  A case is over once it is solved or written off; then    *)
(* there is nothing left to happen that it would have to tell of.          *)
(***************************************************************************)
Tried == Worked \cup {"failed", "triage", "escalated", "infeasible",
                      "retry_spawned"}

HasBegun(j) == job[j].state \in Tried \/ j.try > 1

Solved(c) == \E a \in Analyses \cap DOMAIN job :
                a.of = c /\ job[a].state \in Past

WrittenOff(c) == \E k \in Checks \cap DOMAIN job :
                    k.of = c /\ job[k].state = "cancelled"

CasesOver == \A c \in Case : Solved(c) \/ WrittenOff(c)

\* A CHECK is for a run, a REPORT for a study that is over, and so are the
\* retries of it, which depend on nothing.
Begun ==
    /\ \A k \in Checks \cap DOMAIN job : HasBegun(k) => Solved(k.of)
    /\ \A r \in Reports \cap DOMAIN job : HasBegun(r) => CasesOver

\* Each case's CHECK waits for its ANALYSIS, and the REPORT for each case.
Edges ==
    \A c \in Case : /\ \E e \in dep : e[1] = CheckOf(c)
                    /\ \E e \in dep : e[1] = Report /\ e[2].of = c

\* The runs a briefing has to tell of.
Owed ==
    {[of |-> a.of, run |-> job[a].run] :
        a \in {i \in Analyses \cap DOMAIN job :
                 job[i].state \in Shown /\ ~WrittenOff(i.of)}}

\* What holds of w where it is in build_report.
WritesWell(w) ==
    task[w].at # "idle" /\ task[w].job.kind = "REPORT" =>
        /\ CasesOver
        /\ task[w].at = "write" => Owed \subseteq task[w].shows
        /\ task[w].at \in {"conclude", "announce", "commit"} => briefing.written
        /\ task[w].at \in {"announce", "commit"} => briefing.concluded
        /\ task[w].at = "commit" => briefing.announced

Written ==
    /\ briefing.announced => briefing.concluded
    /\ briefing.concluded => briefing.written
    /\ briefing.written => CasesOver /\ Owed \subseteq briefing.shows

Announced ==
    \A r \in Reports \cap DOMAIN job :
        job[r].state \in Past => briefing.announced

BriefInv ==
    /\ HandInv /\ Begun /\ Edges
    /\ (\A w \in Worker : WritesWell(w)) /\ Written /\ Announced

LEMMA WaysOfTried ==
    ASSUME NEW from, NEW to, <<from, to>> \in JobTransition,
           from \notin Tried, to \in Tried
    PROVE  to = "assigned"
BY DEF JobTransition, LeaseExpiry, Leased, PreRunning, Tried, Worked, Past

\* Who begins has just been claimed.
LEMMA JustClaimed ==
    ASSUME HandInv, [HNext]_hvars, NEW i \in DOMAIN job,
           job[i].state \notin Tried, job'[i].state \in Tried
    PROVE  \A u \in Upstream(i) : Satisfied(i, u)
<1>1. tables' # tables
  BY DEF tables
<1>2. TableStep
  BY <1>1, StepOfHandlers, StepIsTableStep DEF HandInv, CaseInv
<1>3. ASSUME NEW j, Moves(j), Cause(j)
      PROVE  \A u \in Upstream(i) : Satisfied(i, u)
  <2>1. j = i
    BY <1>3 DEF Moves
  <2>2. job'[i].state = "assigned"
    BY <1>3, <2>1, WaysOfTried DEF Moves
  <2> QED BY <1>3, <2>1, <2>2 DEF Cause
<1>4. ASSUME NEW j, Retries(j) PROVE FALSE
  BY <1>4 DEF Retries, Tried
<1>5. ASSUME NEW j, Plans(j) PROVE FALSE
  BY <1>5 DEF Plans, HandInv
<1> QED BY <1>2, <1>3, <1>4, <1>5 DEF TableStep

LEMMA SolvedStays ==
    ASSUME HandInv, HStep, NEW c, Solved(c)
    PROVE  Solved(c)'
<1>1. PICK a \in Analyses \cap DOMAIN job : a.of = c /\ job[a].state \in Past
  BY DEF Solved
<1>2. a \in DOMAIN job' /\ job'[a].state \in Past
  BY <1>1, JobsAge, PastKeepsRun
<1> QED BY <1>1, <1>2 DEF Solved

\* What is terminal stays as it is.
LEMMA TerminalStays ==
    ASSUME HandInv, HStep, NEW i \in DOMAIN job, job[i].state \in TerminalJobState
    PROVE  job'[i] = job[i]
<1>1. RowChange(i)
  BY RowsChange
<1>2. ~Turns(i)
  BY NoWayFromTerminal DEF Turns, Moves
<1>3. ~Spawns(i)
  BY DEF Spawns, Retries, TerminalJobState
<1> QED BY <1>1, <1>2, <1>3 DEF RowChange, Ends

LEMMA WrittenOffStays ==
    ASSUME HandInv, HStep, NEW c, WrittenOff(c)
    PROVE  WrittenOff(c)'
<1>1. PICK k \in Checks \cap DOMAIN job : k.of = c /\ job[k].state = "cancelled"
  BY DEF WrittenOff
<1>2. k \in DOMAIN job' /\ job'[k] = job[k]
  BY <1>1, JobsAge, TerminalStays DEF TerminalJobState
<1> QED BY <1>1, <1>2 DEF WrittenOff

LEMMA CasesOverStay ==
    ASSUME HandInv, HStep, CasesOver
    PROVE  CasesOver'
BY SolvedStays, WrittenOffStays DEF CasesOver

LEMMA EdgesStep ==
    ASSUME HandInv, HStep, Edges
    PROVE  Edges'
<1>1. CASE dep' = dep
  BY <1>1 DEF Edges
<1>2. ASSUME NEW j, Spawns(j) PROVE Edges'
  <2> DEFINE to(e) == <<e[1], IF e[2] = j THEN RetryOf(j) ELSE e[2]>>
  <2>1. dep' = {to(e) : e \in dep} /\ j \in DOMAIN job
    BY <1>2 DEF Spawns, Retries
  <2>2. j \in Job
    BY <2>1, TaskFacts DEF HandInv, CaseInv, TypeInv, TablesOK, RowsOK
  <2>3. RetryOf(j).of = j.of
    BY <2>2 DEF RetryOf, Job, Analyses, Checks, Reports
  <2>4. ASSUME NEW e \in dep
        PROVE  to(e) \in dep' /\ to(e)[1] = e[1] /\ to(e)[2].of = e[2].of
    BY <2>1, <2>3
  <2> HIDE DEF to
  <2> QED BY <2>4 DEF Edges
<1> QED BY <1>1, <1>2, TablesDoGrow DEF TablesGrow

LEMMA BegunStep ==
    ASSUME HandInv, [HNext]_hvars, Begun, Edges
    PROVE  Begun'
<1>1. HStep /\ TypeInv /\ DOMAIN job \subseteq Job
  BY StepOfHandlers DEF HandInv, CaseInv, TypeInv, TablesOK, RowsOK
<1>2. ASSUME NEW i \in DOMAIN job, ~HasBegun(i), job'[i].state \in Tried
      PROVE  \A u \in Upstream(i) : Satisfied(i, u)
  BY <1>2, JustClaimed DEF HasBegun
<1>3. ASSUME NEW i \in DOMAIN job', i \notin DOMAIN job
      PROVE  \E j \in DOMAIN job : SameLine(i, j) /\ HasBegun(j)
  <2>1. PICK j : Spawns(j)
    BY <1>1, <1>3, TablesDoGrow DEF TablesGrow
  <2>2. j \in DOMAIN job /\ i = RetryOf(j) /\ job[j].state = "triage"
    BY <1>3, <2>1 DEF Spawns, Retries
  <2>3. SameLine(i, j)
    BY <1>1, <2>2 DEF RetryOf, SameLine, Job, Analyses, Checks, Reports
  <2> QED BY <2>2, <2>3 DEF HasBegun, Tried
<1>4. ASSUME NEW i \in DOMAIN job, ~HasBegun(i)
      PROVE  i.try = 1
  BY <1>1, <1>4, JobFields DEF HasBegun
<1>5. ASSUME NEW k \in Checks \cap DOMAIN job', HasBegun(k)'
      PROVE  Solved(k.of)'
  <2>1. CASE k \notin DOMAIN job
    <3>1. PICK j \in DOMAIN job : SameLine(k, j) /\ HasBegun(j)
      BY <1>3, <2>1
    <3>2. j \in Checks /\ j.of = k.of
      BY <1>1, <1>5, <3>1, JobFields DEF SameLine, Checks
    <3> QED BY <1>1, <3>1, <3>2, SolvedStays DEF Begun
  <2>2. CASE k \in DOMAIN job /\ HasBegun(k)
    BY <1>1, <1>5, <2>2, SolvedStays DEF Begun
  <2>3. CASE k \in DOMAIN job /\ ~HasBegun(k)
    <3>1. k.try = 1 /\ job'[k].state \in Tried
      BY <1>4, <1>5, <2>3 DEF HasBegun
    <3>2. k.of \in Case /\ k = CheckOf(k.of)
      BY <1>5, <3>1 DEF Checks, CheckOf
    <3>3. PICK e \in dep : e[1] = k
      BY <3>2 DEF Edges
    <3>4. /\ e[2] \in Upstream(k) /\ e[2] \in Analyses /\ e[2] \in DOMAIN job
          /\ k = CheckOf(e[2].of)
      BY <1>1, <1>5, <3>3, Dependents
    <3>5. Satisfied(k, e[2])
      BY <1>2, <2>3, <3>1, <3>4
    <3>6. job[e[2]].state \in Past /\ e[2].of = k.of
      BY <1>5, <3>4, <3>5 DEF Satisfied, Past, Checks, CheckOf
    <3>7. Solved(k.of)
      BY <3>4, <3>6 DEF Solved
    <3> QED BY <1>1, <3>7, SolvedStays
  <2> QED BY <2>1, <2>2, <2>3
<1>6. ASSUME NEW r \in Reports \cap DOMAIN job', HasBegun(r)'
      PROVE  CasesOver'
  <2>1. CASE r \notin DOMAIN job
    <3>1. PICK j \in DOMAIN job : SameLine(r, j) /\ HasBegun(j)
      BY <1>3, <2>1
    <3>2. j \in Reports
      BY <1>1, <1>6, <3>1, JobFields DEF SameLine, Reports
    <3> QED BY <1>1, <3>1, <3>2, CasesOverStay DEF Begun
  <2>2. CASE r \in DOMAIN job /\ HasBegun(r)
    BY <1>1, <1>6, <2>2, CasesOverStay DEF Begun
  <2>3. CASE r \in DOMAIN job /\ ~HasBegun(r)
    <3>1. r.try = 1 /\ job'[r].state \in Tried
      BY <1>4, <1>6, <2>3 DEF HasBegun
    <3>2. r = Report /\ r.kind = "REPORT"
      BY <1>6, <3>1 DEF Reports, Report
    <3>3. ASSUME NEW c \in Case PROVE Solved(c) \/ WrittenOff(c)
      <4>1. PICK e \in dep : e[1] = r /\ e[2].of = c
        BY <3>2 DEF Edges
      <4>2. e[2] \in Upstream(r) /\ e[2] \in Checks /\ e[2] \in DOMAIN job
        BY <1>1, <1>6, <4>1, Dependents
      <4>3. Satisfied(r, e[2])
        BY <1>2, <2>3, <3>1, <4>2
      <4>4. job[e[2]].state \in {"accepted", "rejected", "infeasible", "cancelled",
                                 "retry_spawned", "failed"}
        BY <3>2, <4>3 DEF Satisfied, ReportDepTerminal
      <4>5. job[e[2]].state = "cancelled" \/ HasBegun(e[2])
        BY <4>4 DEF HasBegun, Tried, Worked, Past
      <4> QED BY <4>1, <4>2, <4>5 DEF Begun, WrittenOff
    <3> QED BY <1>1, <3>3, CasesOverStay DEF CasesOver
  <2> QED BY <2>1, <2>2, <2>3
<1> QED BY <1>5, <1>6 DEF Begun

\* Of a case that is solved, no other ANALYSIS can be.
LEMMA OneIsSolved ==
    ASSUME HandInv, NEW a \in Analyses \cap DOMAIN job, Solved(a.of),
           job[a].state # "retry_spawned"
    PROVE  job[a].state \in Past
<1>1. LinesOK /\ DOMAIN job \subseteq Job
  BY DEF HandInv, CaseInv, TypeInv, TablesOK, RowsOK
<1>2. PICK b \in Analyses \cap DOMAIN job : b.of = a.of /\ job[b].state \in Past
  BY DEF Solved
<1>3. SameLine(a, b) /\ SameLine(b, a)
  BY <1>2 DEF SameLine, Analyses
<1>4. ~(a.try < b.try)
  BY <1>1, <1>2, <1>3 DEF LinesOK
<1>5. ~(b.try < a.try)
  <2>1. job[b].state # "retry_spawned"
    BY <1>2 DEF Past
  <2> QED BY <1>1, <1>2, <1>3, <2>1 DEF LinesOK
<1>6. a.try \in Nat /\ b.try \in Nat
  BY <1>1, <1>2, JobFields
<1>7. a.try = b.try
  BY <1>4, <1>5, <1>6
<1>8. a = b
  BY <1>1, <1>2, <1>3, <1>7, JobFields
<1> QED BY <1>2, <1>8

\* When all is over there is nothing more to come that would have to be told.
LEMMA OwedStays ==
    ASSUME HandInv, HStep, CasesOver
    PROVE  Owed' \subseteq Owed
<1> SUFFICES ASSUME NEW a \in Analyses \cap DOMAIN job', job'[a].state \in Shown,
                    ~WrittenOff(a.of)'
             PROVE  [of |-> a.of, run |-> job'[a].run] \in Owed
  BY DEF Owed
<1>1. a.of \in Case
  BY DEF Analyses
<1>2. ~WrittenOff(a.of)
  BY WrittenOffStays
<1>3. Solved(a.of)
  BY <1>1, <1>2 DEF CasesOver
<1>4. a \in DOMAIN job
  <2> SUFFICES ASSUME a \notin DOMAIN job PROVE FALSE
    OBVIOUS
  <2>1. PICK j : Spawns(j)
    BY TablesDoGrow DEF TablesGrow
  <2>2. job'[a].state \in {"proposed", "approved"}
    BY <2>1 DEF Spawns, Retries
  <2> QED BY <2>2 DEF Shown
<1>5. job[a].state \notin {"retry_spawned", "rejected"}
  BY <1>4, TerminalStays DEF TerminalJobState, Shown
<1>6. job[a].state \in Past
  BY <1>3, <1>4, <1>5, OneIsSolved
<1>7. job[a].state \in Shown /\ job'[a].run = job[a].run
  BY <1>4, <1>5, <1>6, PastKeepsRun DEF Past, Shown
<1> QED BY <1>2, <1>4, <1>7 DEF Owed

\* A handler that leaves the file alone, as far as the file goes.
Elsewhere(w) ==
    /\ briefing' = briefing
    /\ task'[w].at \in {"idle", "start", "run", "recover", "write", "commit"}
    /\ task'[w].at \notin {"idle", "start"}
         => task'[w].job = task[w].job /\ task[w].at # "idle"
    /\ task'[w].at = "start" => job'[task'[w].job].state \in Tried
    /\ task'[w].at = "commit" => task[w].job.kind # "REPORT"
    /\ task'[w].at = "write" => job' = job /\ Owed \subseteq task'[w].shows

LEMMA WhoWrites ==
    ASSUME HandInv, NEW w \in Worker, HandlerStep(w)
    PROVE  Elsewhere(w) \/ WriteFile(w) \/ Conclude(w) \/ Announce(w)
<1>1. task \in [Worker -> TaskRow] /\ task[w] \in TaskRow
  BY TaskFacts
<1>2. ASSUME NEW j \in DOMAIN job, Take(w, j) PROVE Elsewhere(w)
  <2>1. job'[j].state = "assigned" /\ briefing' = briefing
    BY <1>2, TaskFacts, MoveWrites DEF Take
  <2>2. task'[w].at = "start" /\ task'[w].job = j
    BY <1>1, <1>2 DEF Take, Idle
  <2>3. job'[j].state \in Tried
    BY <2>1 DEF Tried, Worked, Leased
  <2> QED BY <2>1, <2>2, <2>3 DEF Elsewhere
<1>3. CASE Begin(w) \/ HandlerRaises(w)
  <2>1. PICK step \in {"run", "recover"} : Advance(w, step)
    BY <1>3 DEF Begin, HandlerRaises
  <2>2. task'[w].at = step /\ task'[w].job = task[w].job
    BY <2>1, Advanced DEF Steps, Same
  <2> QED BY <1>3, <2>2 DEF Elsewhere, Begin, HandlerRaises
<1>4. CASE RaisesOut(w) \/ Recover(w) \/ CommitAnalysis(w) \/ CommitCheck(w)
             \/ CommitReport(w)
  <2>1. Leave(w) /\ briefing' = briefing
    BY <1>4 DEF RaisesOut, Recover, CommitAnalysis, CommitCheck, CommitReport
  <2>2. task'[w].at = "idle"
    BY <2>1, Left DEF Idle
  <2> QED BY <2>1, <2>2 DEF Elsewhere
<1>5. CASE RunPlan(w) \/ Judge(w)
  <2>1. /\ task[w].at = "run" /\ task[w].job.kind # "REPORT" /\ briefing' = briefing
    BY <1>5 DEF RunPlan, Judge, IsAt
  <2>2. CASE RunPlan(w)
    <3>1. \/ task' = [task EXCEPT ![w].at = "commit", ![w].run = KeyOf(w)]
          \/ task' = [task EXCEPT ![w].at = "commit"]
      BY <2>2 DEF RunPlan, Advance
    <3> QED BY <1>1, <2>1, <3>1 DEF TaskRow, Elsewhere
  <2>3. CASE Judge(w)
    <3>1. PICK run : task' = [task EXCEPT ![w].at = "commit", ![w].run = run,
                                          ![w].verdict = VerdictOn(run)]
      BY <2>3 DEF Judge
    <3> QED BY <1>1, <2>1, <3>1 DEF TaskRow, Elsewhere
  <2> QED BY <1>5, <2>2, <2>3
<1>6. CASE ReadRows(w)
  <2> DEFINE seen == {[of |-> a.of, run |-> job[a].run] :
                 a \in {i \in Analyses \cap DOMAIN job : job[i].state \in Shown}}
             new == [task[w] EXCEPT !.at = "write", !.shows = seen]
  <2>1. /\ task' = [task EXCEPT ![w] = new] /\ task[w].at = "run"
        /\ job' = job /\ briefing' = briefing
    BY <1>6 DEF ReadRows, IsAt, vars
  <2>2. Owed \subseteq seen
    BY DEF Owed
  <2> HIDE DEF seen
  <2>3. new.at = "write" /\ new.job = task[w].job /\ new.shows = seen
    BY <1>1 DEF TaskRow
  <2> HIDE DEF new
  <2>4. task'[w] = new
    BY <1>1, <2>1
  <2> QED BY <2>1, <2>2, <2>3, <2>4 DEF Elsewhere
<1> QED BY <1>2, <1>3, <1>4, <1>5, <1>6 DEF HandlerStep

\* What w is at in build_report, and what its step leaves behind.
LEMMA WhatIsWritten ==
    ASSUME BriefInv, NEW w \in Worker, WriteFile(w) \/ Conclude(w) \/ Announce(w)
    PROVE  /\ job' = job /\ CasesOver /\ Written'
           /\ \A f \in {"written", "concluded", "announced"} :
                 briefing[f] => briefing'[f]
           /\ briefing'.written
           /\ task'[w].at \in {"announce", "commit"} => briefing'.concluded
           /\ task'[w].at = "commit" => briefing'.announced
           /\ task'[w].at \in {"conclude", "announce", "commit"}
<1>1. /\ HandInv /\ WritesWell(w) /\ Written /\ job' = job
      /\ task[w].job.kind = "REPORT" /\ task[w].at # "idle"
  BY DEF BriefInv, WriteFile, Conclude, Announce, vars, IsAt
<1>2. CasesOver
  BY <1>1 DEF WritesWell
<1>3. CasesOver' /\ Owed' = Owed
  BY <1>1, <1>2 DEF CasesOver, Solved, WrittenOff, Owed
<1>4. DOMAIN briefing = {"written", "concluded", "announced", "shows"}
  BY <1>1 DEF HandInv, OwnTyped
<1>5. CASE WriteFile(w)
  <2>1. /\ briefing' = [briefing EXCEPT !.written = TRUE, !.shows = task[w].shows]
        /\ task[w].at = "write" /\ task'[w].at = "conclude"
    BY <1>1, <1>5, Advanced DEF WriteFile, IsAt, Steps
  <2>2. /\ briefing'.written /\ briefing'.shows = task[w].shows
        /\ briefing'.concluded = briefing.concluded
        /\ briefing'.announced = briefing.announced
    BY <1>4, <2>1
  <2>3. Owed \subseteq briefing'.shows
    BY <1>1, <1>3, <2>1, <2>2 DEF WritesWell
  <2> QED BY <1>1, <1>2, <1>3, <2>1, <2>2, <2>3 DEF Written
<1>6. CASE Conclude(w)
  <2>1. /\ briefing' = [briefing EXCEPT !.concluded = TRUE]
        /\ task[w].at = "conclude" /\ task'[w].at = "announce"
    BY <1>1, <1>6, Advanced DEF Conclude, IsAt, Steps
  <2>2. /\ briefing'.concluded /\ briefing'.shows = briefing.shows
        /\ briefing'.written = briefing.written
        /\ briefing'.announced = briefing.announced
    BY <1>4, <2>1
  <2>3. briefing.written
    BY <1>1, <2>1 DEF WritesWell
  <2> QED BY <1>1, <1>2, <1>3, <2>1, <2>2, <2>3 DEF Written
<1>7. CASE Announce(w)
  <2>1. /\ briefing' = [briefing EXCEPT !.announced = TRUE]
        /\ task[w].at = "announce" /\ task'[w].at = "commit"
    BY <1>1, <1>7, Advanced DEF Announce, IsAt, Steps
  <2>2. /\ briefing'.announced /\ briefing'.shows = briefing.shows
        /\ briefing'.written = briefing.written
        /\ briefing'.concluded = briefing.concluded
    BY <1>4, <2>1
  <2>3. briefing.written /\ briefing.concluded
    BY <1>1, <2>1 DEF WritesWell
  <2> QED BY <1>1, <1>2, <1>3, <2>1, <2>2, <2>3 DEF Written
<1> QED BY <1>5, <1>6, <1>7

\* Nothing is taken back.
LEMMA BriefingGrows ==
    ASSUME BriefInv, [HNext]_hvars
    PROVE  /\ Written'
           /\ \A f \in {"written", "concluded", "announced"} :
                 briefing[f] => briefing'[f]
<1>1. HandInv /\ HStep /\ Written
  BY StepOfHandlers DEF BriefInv
<1>2. CASE briefing' = briefing
  BY <1>1, <1>2, CasesOverStay, OwedStays DEF Written
<1>3. ASSUME NEW w \in Worker, WriteFile(w) \/ Conclude(w) \/ Announce(w)
      PROVE  /\ Written'
             /\ \A f \in {"written", "concluded", "announced"} :
                   briefing[f] => briefing'[f]
  BY <1>3, WhatIsWritten
<1>4. ASSUME NEW w \in Worker, HandlerStep(w), briefing' # briefing
      PROVE  WriteFile(w) \/ Conclude(w) \/ Announce(w)
  BY <1>1, <1>4, WhoWrites DEF Elsewhere
<1> QED BY <1>2, <1>3, <1>4 DEF HNext, Surroundings, own, hvars

LEMMA WritersStep ==
    ASSUME BriefInv, [HNext]_hvars, Begun', NEW v \in Worker
    PROVE  WritesWell(v)'
<1>1. HandInv /\ HStep /\ WritesWell(v)
  BY StepOfHandlers DEF BriefInv
<1>2. \A f \in {"written", "concluded", "announced"} : briefing[f] => briefing'[f]
  BY BriefingGrows
<1>3. CASE task'[v] = task[v]
  <2> SUFFICES ASSUME task[v].at # "idle", task[v].job.kind = "REPORT"
               PROVE  WritesWell(v)'
    BY <1>3 DEF WritesWell
  <2>1. CasesOver
    BY <1>1 DEF WritesWell
  <2>2. CasesOver'
    BY <1>1, <2>1, CasesOverStay
  <2>3. task[v].at = "write" => Owed' \subseteq task[v].shows
    BY <1>1, <2>1, OwedStays DEF WritesWell
  <2> QED BY <1>1, <1>2, <1>3, <2>2, <2>3 DEF WritesWell
<1>4. ASSUME HandlerStep(v), Elsewhere(v) PROVE WritesWell(v)'
  <2> SUFFICES ASSUME task'[v].at # "idle", task'[v].job.kind = "REPORT"
               PROVE  /\ CasesOver'
                      /\ task'[v].at = "write" => Owed' \subseteq task'[v].shows
                      /\ task'[v].at \in {"idle", "start", "run", "recover", "write"}
    BY DEF WritesWell
  <2>1. CasesOver'
    <3>1. CASE task'[v].at = "start"
      <4>1. OwnTyped' /\ DOMAIN job' \subseteq Job
        BY HandStep, StepOfHandlers
           DEF BriefInv, HandInv, CaseInv, TypeInv, TablesOK, RowsOK
      <4>2. task'[v].job \in Reports \cap DOMAIN job'
        BY <3>1, <4>1, JobFields DEF OwnTyped
      <4> QED BY <1>4, <3>1, <4>2 DEF Elsewhere, Begun, HasBegun
    <3>2. CASE task'[v].at # "start"
      BY <1>1, <1>4, <3>2, CasesOverStay DEF Elsewhere, WritesWell
    <3> QED BY <3>1, <3>2
  <2>2. task'[v].at = "write" => Owed' \subseteq task'[v].shows
    BY <1>4 DEF Elsewhere, Owed, WrittenOff
  <2> QED BY <1>4, <2>1, <2>2 DEF Elsewhere
<1>5. ASSUME WriteFile(v) \/ Conclude(v) \/ Announce(v) PROVE WritesWell(v)'
  BY <1>1, <1>5, WhatIsWritten, CasesOverStay DEF WritesWell
<1>6. ASSUME NEW w \in Worker, HandlerStep(w), w # v PROVE task'[v] = task[v]
  BY <1>1, <1>6, WhatHandlersDo DEF HandlerEffect
<1> QED BY <1>1, <1>3, <1>4, <1>5, <1>6, WhoWrites
    DEF HNext, Surroundings, own, hvars

LEMMA MovedTo ==
    ASSUME job \in [DOMAIN job -> JobRow],
           NEW r \in DOMAIN job, job'[r].state = "succeeded",
           job[r].state # "succeeded",
           NEW j, NEW to, NEW human, NEW expected, NEW args,
           Move(j, to, human, expected, args)
    PROVE  r = j /\ to = "succeeded"
BY MoveWrites DEF Move

\* Only a worker at the end of its handler makes a REPORT succeed.
LEMMA WhoSucceeds ==
    ASSUME HandInv, [HNext]_hvars, NEW r \in Reports \cap DOMAIN job,
           job[r].state \notin Past, job'[r].state \in Past
    PROVE  \E w \in Worker : IsAt(w, "REPORT", "commit")
<1>1. HStep /\ job \in [DOMAIN job -> JobRow] /\ r.kind = "REPORT"
  BY StepOfHandlers DEF HandInv, CaseInv, TypeInv, TablesOK, RowsOK, Reports
<1>2. job'[r].state = "succeeded"
  <2>1. Turns(r) \/ Spawns(r)
    BY <1>1, RowsChange DEF RowChange, Ends
  <2>2. ~Spawns(r)
    BY DEF Spawns, Retries, Past
  <2> QED BY <2>1, <2>2, WaysOfJobs DEF Turns, Moves, Past
<1>3. job[r].state # "succeeded"
  BY DEF Past
<1>4. ~SurroundingsEffect
  <2>1. ASSUME NEW j, Turns(j), job'[j].state # "succeeded" PROVE FALSE
    BY <1>2, <2>1 DEF Turns, Moves, Past
  <2>2. ASSUME NEW j, Spawns(j) PROVE FALSE
    BY <1>2, <2>2 DEF Spawns, Retries, Past
  <2> QED BY <1>2, <2>1, <2>2 DEF SurroundingsEffect, Past
<1>5. PICK w \in Worker : HandlerStep(w)
  BY <1>2, <1>4, WhatSurrounds DEF HNext, hvars, vars, HandInv, Past
<1>6. ASSUME NEW j, NEW to, NEW human, NEW expected, NEW args,
             Move(j, to, human, expected, args)
      PROVE  r = j /\ to = "succeeded"
  BY <1>1, <1>2, <1>3, <1>6, MovedTo
<1>7. /\ ~(\E j \in DOMAIN job : Take(w, j)) /\ ~Begin(w) /\ ~Recover(w)
      /\ ~CommitAnalysis(w) /\ ~CommitCheck(w)
  <2>1. ASSUME NEW j \in DOMAIN job, Take(w, j) PROVE FALSE
    <3>1. Move(j, "assigned", FALSE, "queued", ClaimArgs(w))
      BY <2>1 DEF Take
    <3>2. job'[j].state = "assigned"
      BY <1>1, <3>1, MoveWrites
    <3>3. r = j
      BY <1>2, <1>3, <3>1 DEF Move
    <3> QED BY <1>2, <3>2, <3>3
  <2>2. ASSUME Begin(w) PROVE FALSE
    <3>1. Move(task[w].job, "running", FALSE, "assigned", NoArgs)
      BY <2>2 DEF Begin
    <3>2. job'[task[w].job].state = "running"
      BY <1>1, <3>1, MoveWrites
    <3>3. r = task[w].job
      BY <1>2, <1>3, <3>1 DEF Move
    <3> QED BY <1>2, <3>2, <3>3
  <2>3. ASSUME Recover(w) PROVE FALSE
    <3>1. Move(task[w].job, "failed", FALSE, "running", NoArgs)
      BY <2>3 DEF Recover
    <3>2. job'[task[w].job].state = "failed"
      BY <1>1, <3>1, MoveWrites
    <3>3. r = task[w].job
      BY <1>2, <1>3, <3>1 DEF Move
    <3> QED BY <1>2, <3>2, <3>3
  <2>4. ~CommitAnalysis(w) /\ ~CommitCheck(w)
    BY <1>1, <1>6 DEF CommitAnalysis, CommitCheck, IsAt
  <2> QED BY <2>1, <2>2, <2>3, <2>4
<1>8. job' # job
  BY <1>2 DEF Past
<1>9. CommitReport(w)
  BY <1>5, <1>7, <1>8
     DEF HandlerStep, RaisesOut, HandlerRaises, RunPlan, Judge, ReadRows,
         WriteFile, Conclude, Announce, vars
<1> QED BY <1>9 DEF CommitReport

LEMMA AnnouncedStep ==
    ASSUME BriefInv, [HNext]_hvars
    PROVE  Announced'
<1>1. HandInv /\ HStep /\ Announced
  BY StepOfHandlers DEF BriefInv
<1> SUFFICES ASSUME NEW r \in Reports \cap DOMAIN job', job'[r].state \in Past
             PROVE  briefing'.announced
  BY DEF Announced
<1>2. briefing.announced => briefing'.announced
  BY BriefingGrows
<1>3. r \in DOMAIN job
  <2> SUFFICES ASSUME r \notin DOMAIN job PROVE FALSE
    OBVIOUS
  <2>1. PICK j : Spawns(j)
    BY <1>1, TablesDoGrow DEF TablesGrow
  <2>2. job'[r].state \in {"proposed", "approved"}
    BY <2>1 DEF Spawns, Retries
  <2> QED BY <2>2 DEF Past
<1>4. CASE job[r].state \in Past
  BY <1>1, <1>2, <1>3, <1>4 DEF Announced
<1>5. CASE job[r].state \notin Past
  <2>1. PICK w \in Worker : IsAt(w, "REPORT", "commit")
    BY <1>1, <1>3, <1>5, WhoSucceeds
  <2> QED BY <1>2, <2>1 DEF BriefInv, WritesWell, IsAt
<1> QED BY <1>4, <1>5

LEMMA BriefStep == ASSUME BriefInv, [HNext]_hvars PROVE BriefInv'
<1>1. HandInv /\ HStep /\ Begun /\ Edges
  BY StepOfHandlers DEF BriefInv
<1>2. HandInv' /\ Begun' /\ Edges'
  BY <1>1, HandStep, BegunStep, EdgesStep
<1> QED BY <1>2, BriefingGrows, WritersStep, AnnouncedStep DEF BriefInv

LEMMA BriefInit == HInit => BriefInv
<1> SUFFICES ASSUME HInit PROVE BriefInv
  OBVIOUS
<1>1. /\ DOMAIN job = Plan /\ dep = PlannedDeps
      /\ \A j \in Plan : job[j].state = "queued" /\ j.try = 1
  <2>1. /\ DOMAIN job = Plan /\ dep = PlannedDeps
        /\ \A j \in Plan : job[j].state = "queued"
    BY DEF HInit, NewJob
  <2> QED BY <2>1, JobFields
<1>2. Begun
  BY <1>1, JobFields DEF Begun, HasBegun, Tried, Worked, Past, Leased
<1>3. Edges
  <2> SUFFICES ASSUME NEW c \in Case
               PROVE  /\ \E e \in dep : e[1] = CheckOf(c)
                      /\ \E e \in dep : e[1] = Report /\ e[2].of = c
    BY DEF Edges
  <2>1. /\ <<CheckOf(c), AnalysisOf(c)>> \in dep /\ <<Report, CheckOf(c)>> \in dep
        /\ CheckOf(c).of = c
    BY <1>1 DEF PlannedDeps, CheckOf
  <2> QED BY <2>1
<1>4. \A w \in Worker : WritesWell(w)
  BY DEF HInit, WritesWell, Idle
<1>5. Written
  BY DEF HInit, Written
<1>6. Announced
  BY <1>1 DEF Announced, Past
<1> QED BY <1>2, <1>3, <1>4, <1>5, <1>6, HandInit DEF BriefInv

(***************************************************************************)
(* Type correctness: the rows in hand exist, the record is well-formed,    *)
(* and the file, its conclusion and its announcement come in this order.   *)
(***************************************************************************)
THEOREM HandlersTyped == HSpec => []HTypeOK
<1>1. BriefInv => HTypeOK
  <2> SUFFICES ASSUME BriefInv PROVE HTypeOK
    OBVIOUS
  <2>1. TypeInv /\ OwnTyped /\ Written
    BY DEF BriefInv, HandInv, CaseInv
  <2>2. TypeOK
    BY <2>1 DEF TypeInv, TablesOK, RowsOK, DepsOK, LoopsOK, PeopleOK, TypeOK, Present
  <2>3. \A w \in Worker :
           /\ task[w].job \in DOMAIN job \cup {NoCheck}
           /\ task[w].run \in DOMAIN results \cup {NoRun}
           /\ task[w].verdict \in Verdict \cup {NoVerdict}
    <3> TAKE w \in Worker
    <3>1. task[w] \in TaskRow /\ (task[w].at = "idle" => task[w].job = NoCheck)
      BY <2>1 DEF OwnTyped, Idle
    <3> QED BY <2>1, <3>1 DEF OwnTyped, TaskRow
  <2> QED BY <2>1, <2>2, <2>3 DEF HTypeOK, OwnTyped, Written
<1> QED BY BriefInit, BriefStep, <1>1, PTL DEF HSpec

(***************************************************************************)
(* A REPORT that has succeeded has its file, concluded and announced, and  *)
(* the file lists every run that is accepted or put before a human, of all *)
(* cases that are not written off, however late it was written.            *)
(***************************************************************************)
THEOREM BriefingIsComplete == HSpec => []BriefingComplete
<1>1. BriefInv => BriefingComplete
  <2> SUFFICES ASSUME BriefInv, NEW r \in Reports \cap DOMAIN job,
                      job[r].state \in {"succeeded", "accepted"}
               PROVE  /\ briefing.announced
                      /\ \A a \in Analyses \cap DOMAIN job :
                            job[a].state \in {"accepted", "review"}
                              /\ (\A k \in Checks \cap DOMAIN job :
                                     k.of = a.of => job[k].state # "cancelled")
                            => \E s \in briefing.shows :
                                  s.of = a.of /\ s.run = job[a].run
    BY DEF BriefingComplete
  <2>1. briefing.announced /\ Owed \subseteq briefing.shows
    BY DEF BriefInv, Announced, Written, Past
  <2>2. ASSUME NEW a \in Analyses \cap DOMAIN job,
               job[a].state \in {"accepted", "review"},
               \A k \in Checks \cap DOMAIN job :
                  k.of = a.of => job[k].state # "cancelled"
        PROVE  [of |-> a.of, run |-> job[a].run] \in briefing.shows
    BY <2>1, <2>2 DEF Owed, WrittenOff, Shown
  <2> QED BY <2>1, <2>2
<1> QED BY BriefInit, BriefStep, <1>1, PTL DEF HSpec
=============================================================================
