------------------------------ MODULE Control ------------------------------
(***************************************************************************)
(* A study and its jobs: how decompose.py plans it (an ANALYSIS and a      *)
(* CHECK per case, one REPORT over all of them), the dependencies that     *)
(* hold jobs back, the control loop's verdict gates and study status       *)
(* (control.py), and the commands of the humans who own it (cli.py).       *)
(*                                                                         *)
(* What Triage and Leases show in detail is coarse here: a failed job is   *)
(* flipped, then triaged in one step, without a row for the TRIAGE job,    *)
(* and a worker is what it does to its job.                                *)
(***************************************************************************)
EXTENDS JobMachine, StudyMachine, FiniteSets

CONSTANTS
    Case,           \* the cases of the sweep
    Loop,           \* control loops
    MaxAttempts,    \* max_attempts of ANALYSIS and CHECK
    ReportAttempts, \* max_attempts of the REPORT: create_job's default, 3
    AutoRetryMax,   \* policy.auto_retry_max
    AutoAccept,     \* the policy has an auto_accept clause
    Accepting,      \* verdicts it accepts: verdict_level, unless in gate_on
    Unfounded,      \* verdicts on no run at all: their level is "error"
    MaxUpsets       \* bound: crashes of loops, commands and workers, and
                    \* escalated jobs that a human re-queues

ASSUME ControlAssumption ==
    /\ {MaxAttempts, ReportAttempts} \subseteq Nat \ {0}
    /\ {AutoRetryMax, MaxUpsets} \subseteq Nat
    /\ AutoAccept \in BOOLEAN
    /\ Accepting \subseteq Verdict
    /\ Unfounded \subseteq Verdict /\ Unfounded # {}
    /\ Worker # {}

\* A job is named by what it is for and the attempt it was created with:
\* two jobs of one line of retries never share it (Triage's LineageAdvances).
Analyses == [kind : {"ANALYSIS"}, of : Case, try : 1..MaxAttempts]
Checks   == [kind : {"CHECK"},    of : Case, try : 1..MaxAttempts]
Reports  == [kind : {"REPORT"},   of : {"study"}, try : 1..ReportAttempts]
Job      == Analyses \cup Checks \cup Reports

AnalysisOf(c) == [kind |-> "ANALYSIS", of |-> c, try |-> 1]
CheckOf(c)    == [kind |-> "CHECK", of |-> c, try |-> 1]
Report        == [kind |-> "REPORT", of |-> "study", try |-> 1]

VARIABLES
    study, job, dep,    \* status, the job table, job_dep as pairs
    permanent,          \* jobs whose last job.failed event says so
    at, rows, hand,     \* each loop: where it is, CHECKs read, the one in hand
    drafting,           \* the submit command is still planning the study
    cmd, todo,          \* a cascade of the CLI: which, and the rows it read
    byHuman,            \* history: cases' jobs that a human decided on
    upsets

loops == <<at, rows, hand>>
cli   == <<cmd, todo>>
vars  == <<study, job, dep, permanent, drafting, loops, cli, byHuman, upsets>>

NoCheck == [kind |-> "none", of |-> "none", try |-> 0]

Present(j) == j \in DOMAIN job

Move(j, to, human, expected, args) ==
    /\ Present(j)
    /\ CanMove(job[j], to, human, expected, args)
    /\ job' = [job EXCEPT ![j] = Moved(@, to, args)]

StudyMove(to, human, expected) ==
    /\ study = expected
    /\ <<study, to>> \in StudyTransition
    /\ StudyActorMay(human, study, to)
    /\ study' = to

Upstream(j) == {u \in DOMAIN job : <<j, u>> \in dep}
-----------------------------------------------------------------------------
Plan == {AnalysisOf(c) : c \in Case} \cup {CheckOf(c) : c \in Case} \cup {Report}

PlannedDeps ==
    {<<CheckOf(c), AnalysisOf(c)>> : c \in Case}
      \cup {<<Report, CheckOf(c)>> : c \in Case}

Quiet ==
    /\ permanent = {} /\ byHuman = {}
    /\ at = [p \in Loop |-> "idle"]
    /\ rows = [p \in Loop |-> {}]
    /\ hand = [p \in Loop |-> NoCheck]
    /\ cmd = "none" /\ todo = {}
    /\ upsets = 0

\* submit_study has created the study.
Init ==
    /\ study = "draft" /\ drafting = TRUE
    /\ job = [j \in {} |-> NoArgs] /\ dep = {}
    /\ Quiet

\* decompose_study has planned it, and nobody has touched it yet.
Planned ==
    /\ study = "proposed" /\ drafting = FALSE
    /\ job = [j \in Plan |->
                NewJob(1, IF j = Report THEN ReportAttempts ELSE MaxAttempts)]
    /\ dep = PlannedDeps
    /\ Quiet

(***************************************************************************)
(* decompose_study: one transaction per job, case after case, each CHECK   *)
(* after its ANALYSIS, then the study itself.                              *)
(***************************************************************************)
Create(j, max, deps) ==
    /\ drafting /\ ~Present(j)
    /\ job' = Inserted(job, j, NewJob(1, max))
    /\ dep' = dep \cup {<<j, u>> : u \in deps}
    /\ UNCHANGED <<study, permanent, drafting, loops, cli, byHuman, upsets>>

PlanAnalysis(c) ==
    /\ \A d \in Case : Present(AnalysisOf(d)) => Present(CheckOf(d))
    /\ Create(AnalysisOf(c), MaxAttempts, {})

PlanCheck(c) ==
    /\ Present(AnalysisOf(c))
    /\ Create(CheckOf(c), MaxAttempts, {AnalysisOf(c)})

PlanReport ==
    /\ \A c \in Case : Present(CheckOf(c))
    /\ Create(Report, ReportAttempts, {CheckOf(c) : c \in Case})

\* Mutant: the study is proposed before its plan is complete.
ProposeEarly ==
    /\ drafting /\ drafting' = FALSE
    /\ \/ StudyMove("proposed", FALSE, "draft")
       \/ study # "draft" /\ UNCHANGED study
    /\ UNCHANGED <<job, dep, permanent, loops, cli, byHuman, upsets>>

\* Stale when somebody aborted the study meanwhile.
Propose ==
    /\ drafting /\ Present(Report) /\ drafting' = FALSE
    /\ \/ StudyMove("proposed", FALSE, "draft")
       \/ study # "draft" /\ UNCHANGED study
    /\ UNCHANGED <<job, dep, permanent, loops, cli, byHuman, upsets>>

SubmitDies ==
    /\ drafting /\ drafting' = FALSE
    /\ UNCHANGED <<study, job, dep, permanent, loops, cli, byHuman, upsets>>

Submit ==
    \/ \E c \in Case : PlanAnalysis(c) \/ PlanCheck(c)
    \/ PlanReport \/ Propose

(***************************************************************************)
(* Workers.                                                                *)
(***************************************************************************)
\* Mutant: nobody thought of cases that are written off.
ReportDepDecided == {"accepted", "rejected", "cancelled"}

ReportDepTerminal ==
    {"accepted", "rejected", "infeasible", "cancelled", "retry_spawned"}

\* Mutant: any failure will do for the report.
SatisfiedByFailure(j, u) ==
    IF j.kind = "REPORT"
    THEN job[u].state \in ReportDepTerminal \cup {"failed"}
    ELSE job[u].state = "accepted" \/ (job[u].state = "succeeded" /\ AutoAccept)

\* Mutant: the report's rule for every kind of job.
SatisfiedByTerminal(j, u) ==
    \/ job[u].state \in ReportDepTerminal
    \/ job[u].state = "failed" /\ job[u].attempt >= job[u].max
    \/ job[u].state = "succeeded" /\ AutoAccept

\* _dep_satisfied: a REPORT covers failures, too; a CHECK runs before its
\* ANALYSIS is accepted.
Satisfied(j, u) ==
    IF j.kind = "REPORT"
    THEN \/ job[u].state \in ReportDepTerminal
         \/ job[u].state = "failed" /\ job[u].attempt >= job[u].max
    ELSE job[u].state = "accepted" \/ (job[u].state = "succeeded" /\ AutoAccept)

\* Nothing is asked of the study.
Claim(j) ==
    /\ \A u \in Upstream(j) : Satisfied(j, u)
    /\ \E w \in Worker : Move(j, "assigned", FALSE, "queued", ClaimArgs(w))
    /\ UNCHANGED <<study, dep, permanent, drafting, loops, cli, byHuman, upsets>>

Start(j) ==
    /\ Move(j, "running", FALSE, "assigned", NoArgs)
    /\ UNCHANGED <<study, dep, permanent, drafting, loops, cli, byHuman, upsets>>

\* A CHECK that depends on nothing has no run to look at.
PossibleVerdicts(j) ==
    CASE j.kind # "CHECK"     -> {NoVerdict}
      [] j.kind = "CHECK" /\ Upstream(j) = {} -> Unfounded
      [] OTHER                -> Verdict

Succeed(j) ==
    /\ Present(j)
    /\ \E verdict \in PossibleVerdicts(j), run \in RunRef \cup {NoRun} :
          Move(j, "succeeded", FALSE, "running",
               [NoArgs EXCEPT !.verdict = verdict, !.run = run])
    /\ UNCHANGED <<study, dep, permanent, drafting, loops, cli, byHuman, upsets>>

\* Only an execution knows of permanent failures.
Fail(j) ==
    /\ \E run \in RunRef \cup {NoRun} :
          Move(j, "failed", FALSE, "running", [NoArgs EXCEPT !.run = run])
    /\ \/ permanent' = permanent \ {j}
       \/ j.kind = "ANALYSIS" /\ permanent' = permanent \cup {j}
    /\ UNCHANGED <<study, dep, drafting, loops, cli, byHuman, upsets>>

\* Mutant: the last attempt may be requeued, too.
LeaseOutOnceMore(j) ==
    /\ Present(j) /\ job[j].state \in Leased /\ upsets < MaxUpsets
    /\ upsets' = upsets + 1
    /\ IF job[j].attempt <= job[j].max
       THEN Move(j, "queued", FALSE, job[j].state, NoArgs) /\ UNCHANGED permanent
       ELSE /\ Move(j, "failed", FALSE, job[j].state, NoArgs)
            /\ permanent' = permanent \ {j}
    /\ UNCHANGED <<study, dep, drafting, loops, cli, byHuman>>

\* The worker dies and the reaper finds its lease expired.
LeaseOut(j) ==
    /\ Present(j) /\ job[j].state \in Leased /\ upsets < MaxUpsets
    /\ upsets' = upsets + 1
    /\ IF job[j].attempt < job[j].max
       THEN Move(j, "queued", FALSE, job[j].state, NoArgs) /\ UNCHANGED permanent
       ELSE /\ Move(j, "failed", FALSE, job[j].state, NoArgs)
            /\ permanent' = permanent \ {j}
    /\ UNCHANGED <<study, dep, drafting, loops, cli, byHuman>>

(***************************************************************************)
(* The control loop, where reading the rows and the compare-and-set on the *)
(* state read make one step: what else the SELECT asked for cannot cease   *)
(* to hold while the state is the same.                                    *)
(***************************************************************************)
Enqueue(j) ==
    /\ Move(j, "queued", FALSE, "approved", NoArgs)
    /\ UNCHANGED <<study, dep, permanent, drafting, loops, cli, byHuman, upsets>>

AutoAcceptReport(j) ==
    /\ j.kind = "REPORT"
    /\ Move(j, "accepted", FALSE, "succeeded", NoArgs)
    /\ UNCHANGED <<study, dep, permanent, drafting, loops, cli, byHuman, upsets>>

\* A dependency can never be satisfied any more.
Dead(j) == \E u \in Upstream(j) :
              job[u].state \in {"rejected", "infeasible", "cancelled"}

CancelDead(j) ==
    /\ j.kind # "REPORT" /\ Present(j) /\ Dead(j)
    /\ job[j].state \in {"proposed", "approved", "queued"}
    /\ Move(j, "cancelled", FALSE, job[j].state, NoArgs)
    /\ UNCHANGED <<study, dep, permanent, drafting, loops, cli, byHuman, upsets>>

SpawnTriage(j) ==
    /\ Move(j, "triage", FALSE, "failed", NoArgs)
    /\ UNCHANGED <<study, dep, permanent, drafting, loops, cli, byHuman, upsets>>

\* Mutant: nobody tells the dependents.
RetryAlone(j) ==
    LET r     == [j EXCEPT !.try = job[j].attempt + 1]
        fresh == NewJob(job[j].attempt + 1, job[j].max)
        done  == [job EXCEPT ![j] = Moved(@, "retry_spawned", NoArgs)]
    IN  job' = Inserted(done, r, Moved(fresh, "approved", NoArgs)) /\ UNCHANGED dep

\* run_triage: the retry takes over the parent's dependents, but depends on
\* nothing itself.
Retry(j) ==
    LET r     == [j EXCEPT !.try = job[j].attempt + 1]
        fresh == NewJob(job[j].attempt + 1, job[j].max)
        auto  == job[j].attempt <= AutoRetryMax
        done  == [job EXCEPT ![j] = Moved(@, "retry_spawned", NoArgs)]
    IN  /\ job' = Inserted(done, r,
                     IF auto THEN Moved(fresh, "approved", NoArgs) ELSE fresh)
        /\ dep' = {<<e[1], IF e[2] = j THEN r ELSE e[2]>> : e \in dep}

\* Mutant: the failed job itself is tried again, as often as it fails.
RunTriageUncounted(j) ==
    /\ Present(j) /\ job[j].state = "triage"
    /\ job' = [job EXCEPT ![j] = Moved(NewJob(@.attempt, @.max), "approved", NoArgs)]
    /\ UNCHANGED <<study, dep, permanent, drafting, loops, cli, byHuman, upsets>>

RunTriage(j) ==
    /\ Present(j) /\ job[j].state = "triage"
    /\ CASE j \in permanent ->
              Move(j, "infeasible", FALSE, "triage", NoArgs) /\ UNCHANGED dep
         [] j \notin permanent /\ job[j].attempt >= job[j].max ->
              Move(j, "escalated", FALSE, "triage", NoArgs) /\ UNCHANGED dep
         [] OTHER -> Retry(j)
    /\ UNCHANGED <<study, permanent, drafting, loops, cli, byHuman, upsets>>

JobStep(j) ==
    \/ Claim(j) \/ Start(j) \/ Succeed(j) \/ Fail(j)
    \/ Enqueue(j) \/ AutoAcceptReport(j) \/ CancelDead(j)
    \/ SpawnTriage(j) \/ RunTriage(j)

(***************************************************************************)
(* apply_verdict_gates, one statement at a time.                           *)
(***************************************************************************)
Gateable == {k \in DOMAIN job : /\ k.kind = "CHECK" /\ job[k].state = "succeeded"
                                /\ job[k].verdict # NoVerdict}

\* A tick that finds no row changes nothing.
SelectChecks(p) ==
    /\ at[p] = "idle" /\ Gateable # {}
    /\ rows' = [rows EXCEPT ![p] = Gateable]
    /\ at' = [at EXCEPT ![p] = "gates"]
    /\ UNCHANGED <<study, job, dep, permanent, drafting, hand, cli, byHuman, upsets>>

\* Mutant: the CHECK is accepted first.
ReadUpstreamLast(p) ==
    /\ at[p] = "gates"
    /\ \E k \in rows[p] :
        /\ \/ Move(k, "accepted", FALSE, "succeeded", NoArgs)
           \/ job[k].state # "succeeded" /\ UNCHANGED job
        /\ hand' = [hand EXCEPT ![p] = k]
        /\ at' = [at EXCEPT ![p] =
              IF \E u \in Upstream(k) : job[u].state = "succeeded"
              THEN "gate" ELSE "accept"]
    /\ UNCHANGED <<study, dep, permanent, drafting, rows, cli, byHuman, upsets>>

ReadUpstream(p) ==
    /\ at[p] = "gates"
    /\ \E k \in rows[p] :
        /\ hand' = [hand EXCEPT ![p] = k]
        /\ at' = [at EXCEPT ![p] =
              IF \E u \in Upstream(k) : job[u].state = "succeeded"
              THEN "gate" ELSE "accept"]
    /\ UNCHANGED <<study, job, dep, permanent, drafting, rows, cli, byHuman, upsets>>

\* The verdict decides the ANALYSIS, unless somebody else was faster.
Gate(p) ==
    LET verdict == job[hand[p]].verdict IN
    /\ at[p] = "gate"
    /\ \E u \in Upstream(hand[p]) :
        \/ Move(u, IF verdict \in Accepting THEN "accepted" ELSE "review",
                FALSE, "succeeded", [NoArgs EXCEPT !.verdict = verdict])
        \/ job[u].state # "succeeded" /\ UNCHANGED job
    /\ at' = [at EXCEPT ![p] = "accept"]
    /\ UNCHANGED <<study, dep, permanent, drafting, rows, hand, cli, byHuman, upsets>>

AcceptCheck(p) ==
    /\ at[p] = "accept"
    /\ \/ Move(hand[p], "accepted", FALSE, "succeeded", NoArgs)
       \/ job[hand[p]].state # "succeeded" /\ UNCHANGED job
    /\ at' = [at EXCEPT ![p] = IF rows[p] = {hand[p]} THEN "idle" ELSE "gates"]
    /\ rows' = [rows EXCEPT ![p] = @ \ {hand[p]}]
    /\ hand' = [hand EXCEPT ![p] = NoCheck]
    /\ UNCHANGED <<study, dep, permanent, drafting, cli, byHuman, upsets>>

(***************************************************************************)
(* sync_study_status: the jobs are read, then the study moves.             *)
(***************************************************************************)
Dispatched ==
    \E j \in DOMAIN job :
        job[j].state \notin {"proposed", "approved", "queued", "cancelled"}

\* Mutant: an escalated job is not waited for.
PendingMachineOnly ==
    \E j \in DOMAIN job :
        job[j].state \notin TerminalJobState \cup {"escalated"}

Pending == \E j \in DOMAIN job : job[j].state \notin TerminalJobState

ReadStudy(p) ==
    /\ at[p] = "idle"
    /\ \/ study = "approved" /\ Dispatched /\ at' = [at EXCEPT ![p] = "run"]
       \/ study = "running" /\ ~Pending /\ at' = [at EXCEPT ![p] = "review"]
    /\ UNCHANGED <<study, job, dep, permanent, drafting, rows, hand, cli, byHuman, upsets>>

SyncStudy(p) ==
    /\ \/ at[p] = "run" /\ StudyMove("running", FALSE, "approved")
       \/ at[p] = "run" /\ study # "approved" /\ UNCHANGED study
       \/ at[p] = "review" /\ StudyMove("review", FALSE, "running")
       \/ at[p] = "review" /\ study # "running" /\ UNCHANGED study
    /\ at' = [at EXCEPT ![p] = "idle"]
    /\ UNCHANGED <<job, dep, permanent, drafting, rows, hand, cli, byHuman, upsets>>

CrashLoop(p) ==
    /\ at[p] # "idle" /\ upsets < MaxUpsets
    /\ upsets' = upsets + 1
    /\ at' = [at EXCEPT ![p] = "idle"]
    /\ rows' = [rows EXCEPT ![p] = {}]
    /\ hand' = [hand EXCEPT ![p] = NoCheck]
    /\ UNCHANGED <<study, job, dep, permanent, drafting, cli, byHuman>>

LoopStep(p) ==
    \/ SelectChecks(p) \/ ReadUpstream(p) \/ Gate(p) \/ AcceptCheck(p)
    \/ ReadStudy(p) \/ SyncStudy(p)

(***************************************************************************)
(* cli.py: approve and abort of a study go through its jobs one by one.    *)
(* A job that has moved since raises StaleState and ends the command.      *)
(***************************************************************************)
ApproveStudy ==
    /\ cmd = "none"
    /\ StudyMove("approved", TRUE, "proposed")
    /\ cmd' = "approve"
    /\ UNCHANGED <<job, dep, permanent, drafting, loops, todo, byHuman, upsets>>

CloseStudy ==
    /\ cmd = "none"
    /\ StudyMove("closed", TRUE, "review")
    /\ UNCHANGED <<job, dep, permanent, drafting, loops, cli, byHuman, upsets>>

AbortStudy ==
    /\ cmd = "none"
    /\ StudyMove("aborted", TRUE, study)
    /\ cmd' = "abort"
    /\ UNCHANGED <<job, dep, permanent, drafting, loops, todo, byHuman, upsets>>

RowsIn(states) == {[id |-> j, state |-> job[j].state] :
                      j \in {i \in DOMAIN job : job[i].state \in states}}

SelectJobs ==
    /\ \/ /\ cmd = "approve" /\ cmd' = "approving"
          /\ todo' = RowsIn({"proposed"})
       \/ /\ cmd = "abort" /\ cmd' = "aborting"
          /\ todo' = RowsIn(PreRunning)
    /\ UNCHANGED <<study, job, dep, permanent, drafting, loops, byHuman, upsets>>

CascadeTarget == IF cmd = "approving" THEN "approved" ELSE "cancelled"

Cascade ==
    /\ cmd \in {"approving", "aborting"}
    /\ \E r \in todo :
        /\ Move(r.id, CascadeTarget, TRUE, r.state, NoArgs)
        /\ todo' = todo \ {r}
    /\ UNCHANGED <<study, dep, permanent, drafting, loops, cmd, byHuman, upsets>>

\* Done, or the next row is stale, or somebody interrupts the command.
CascadeEnds ==
    /\ cmd # "none"
    /\ \/ /\ cmd \in {"approving", "aborting"}
          /\ todo = {} \/ \E r \in todo : job[r.id].state # r.state
          /\ UNCHANGED upsets
       \/ upsets < MaxUpsets /\ upsets' = upsets + 1
    /\ cmd' = "none" /\ todo' = {}
    /\ UNCHANGED <<study, job, dep, permanent, drafting, loops, byHuman>>

Decided(j) ==
    byHuman' = IF j.kind # "REPORT" /\ job[j].state \in {"succeeded", "review"}
               THEN byHuman \cup {j} ELSE byHuman

\* approve and reject of a job pass no expected state: the row they chose the
\* target from may be as old as the job, when it was proposed.
ApproveJob(j) ==
    /\ \E to \in {"approved", "accepted"} : Move(j, to, TRUE, AnyState, NoArgs)
    /\ Decided(j)
    /\ UNCHANGED <<study, dep, permanent, drafting, loops, cli, upsets>>

RejectJob(j) ==
    /\ \E to \in {"cancelled", "rejected"} : Move(j, to, TRUE, AnyState, NoArgs)
    /\ Decided(j)
    /\ UNCHANGED <<study, dep, permanent, drafting, loops, cli, upsets>>

\* The ways out of escalated; no command makes them.
ResolveJob(j) ==
    /\ \/ /\ upsets < MaxUpsets
          /\ Move(j, "queued", TRUE, "escalated", NoArgs)
          /\ upsets' = upsets + 1
       \/ /\ \E to \in {"cancelled", "infeasible"} :
               Move(j, to, TRUE, "escalated", NoArgs)
          /\ UNCHANGED upsets
    /\ UNCHANGED <<study, dep, permanent, drafting, loops, cli, byHuman>>

Human ==
    \/ ApproveStudy \/ CloseStudy \/ AbortStudy
    \/ SelectJobs \/ Cascade \/ CascadeEnds
    \/ \E j \in DOMAIN job : RejectJob(j) \/ ResolveJob(j)
-----------------------------------------------------------------------------
Machine ==
    \/ \E j \in DOMAIN job : JobStep(j)
    \/ \E p \in Loop : LoopStep(p)

\* All but the approval of single jobs.
NextButApproval ==
    \/ Machine
    \/ Human
    \/ Submit \/ SubmitDies
    \/ \E j \in DOMAIN job : LeaseOut(j)
    \/ \E p \in Loop : CrashLoop(p)

Next == NextButApproval \/ \E j \in DOMAIN job : ApproveJob(j)

Spec == Init /\ [][Next]_vars

\* The part of Spec that begins with a study whose submit went through.
PlannedSpec == Planned /\ [][Next]_vars

(***************************************************************************)
(* The part of Spec in which no human approves a job while its study is    *)
(* still being planned.  When somebody does, the job fails and a retry     *)
(* takes over the dependents that are there, a CHECK created later waits   *)
(* for a husk, and its REPORT for ever.                                    *)
(***************************************************************************)
OrderlyNext ==
    \/ NextButApproval
    \/ ~drafting /\ \E j \in DOMAIN job : ApproveJob(j)

OrderlySpec == Init /\ [][OrderlyNext]_vars

(***************************************************************************)
(* Fairness: while submit, a worker or a control loop can go on, one of    *)
(* them does; an execution ends.  People and crashes owe nothing.          *)
(***************************************************************************)
FairSpec == OrderlySpec /\ WF_vars(Submit \/ Machine)
-----------------------------------------------------------------------------
TypeOK ==
    /\ study \in StudyStatus
    /\ DOMAIN job \subseteq Job /\ job \in [DOMAIN job -> JobRow]
    /\ \A e \in dep : Present(e[1]) /\ Present(e[2])
    /\ permanent \subseteq DOMAIN job /\ byHuman \subseteq DOMAIN job
    /\ at \in [Loop -> {"idle", "gates", "gate", "accept", "run", "review"}]
    /\ rows \in [Loop -> SUBSET (Checks \cap DOMAIN job)]
    /\ \A p \in Loop : IF at[p] \in {"gate", "accept"} THEN hand[p] \in rows[p]
                                                      ELSE hand[p] = NoCheck
    /\ cmd \in {"none", "approve", "approving", "abort", "aborting"}
    /\ \A r \in todo : Present(r.id)
    /\ drafting \in BOOLEAN
    /\ upsets \in 0..MaxUpsets

(***************************************************************************)
(* Jobs are created one transaction at a time and the submit command may   *)
(* die in between: still, whoever is asked to approve a study sees all of  *)
(* its plan, and nothing of it is added afterwards.                        *)
(***************************************************************************)
PlanIsWhole ==
    study \notin {"draft", "aborted"} =>
        /\ Plan \subseteq DOMAIN job
        /\ ~drafting

(***************************************************************************)
(* A study is in review, or closed, only when its work is over: no job of  *)
(* it is then under way, waits for anybody, or comes into being later,     *)
(* although the loop looks at the jobs and moves the study in two steps.   *)
(***************************************************************************)
ReviewIsOver ==
    study \in {"review", "closed"} =>
        \A j \in DOMAIN job : job[j].state \in TerminalJobState

(***************************************************************************)
(* apply_verdict_gates gates "upstream first, so a crash in between is     *)
(* healed": once a control loop has accepted a CHECK, the ANALYSIS it      *)
(* depends on carries its verdict and is where the level sends it, unless  *)
(* a human decided.                                                        *)
(***************************************************************************)
AcceptedByMachine(k) == job[k].state = "accepted" /\ k \notin byHuman

VerdictDecides ==
    \A k \in Checks \cap DOMAIN job : AcceptedByMachine(k) =>
        \A u \in Upstream(k) :
            \/ u \in byHuman
            \/ /\ job[u].verdict = job[k].verdict
               /\ job[u].state =
                     IF job[k].verdict \in Accepting THEN "accepted" ELSE "review"

(***************************************************************************)
(* No worker is ever busy with a CHECK whose ANALYSIS has come to nothing, *)
(* or has not succeeded, whatever humans, retries and expired leases do    *)
(* between the claim and the end of the CHECK.                             *)
(***************************************************************************)
ChecksHaveARun ==
    \A k \in Checks \cap DOMAIN job :
        job[k].state \in Leased =>
            \A u \in Upstream(k) : job[u].state \in {"succeeded", "accepted"}

(***************************************************************************)
(* A REPORT is made after its cases: once it has been claimed, every CHECK *)
(* in it is over, or has no attempt left and can only be resolved by a     *)
(* human.  Its dependencies are still the right ones after retries.        *)
(***************************************************************************)
ReportComesLast ==
    \A r \in Reports \cap DOMAIN job :
        job[r].state \in Leased \cup {"succeeded", "accepted"} =>
            \A u \in Upstream(r) : \/ job[u].state \in TerminalJobState
                                   \/ job[u].attempt >= job[u].max
(***************************************************************************)
(* Everyone waits only for somebody.  What holds a queued job back is on   *)
(* the move, or held back by what is: a process has a step to take with    *)
(* it, or the review inbox shows it to a human.  So a job never waits on a *)
(* "retry_spawned husk" (DECISIONS.md #12), nor two jobs on each other.    *)
(* Without auto_accept, an ANALYSIS that has succeeded waits for a human,  *)
(* too, though no inbox shows it.                                          *)
(***************************************************************************)
HeldBackBy(j) == {u \in Upstream(j) : ~Satisfied(j, u)}

\* The guards of the actions of Machine.
GoesOn(j) ==
    \/ job[j].state \in Leased \cup {"approved", "failed", "triage"}
    \/ /\ job[j].state = "queued"
       /\ HeldBackBy(j) = {} \/ (j.kind # "REPORT" /\ Dead(j))
    \/ job[j].state = "succeeded" /\ (j.kind = "REPORT" \/ j \in Gateable)

Inbox == {"proposed", "review", "escalated"}

OnTheMove(j) ==
    \/ GoesOn(j)
    \/ job[j].state \in Inbox
    \/ job[j].state = "succeeded" /\ ~AutoAccept

Waits(j) == job[j].state = "queued" /\ ~GoesOn(j)

NoStandstill ==
    \A j \in DOMAIN job : Waits(j) =>
        \A u \in HeldBackBy(j) :
            \/ OnTheMove(u)
            \/ Waits(u) /\ \A v \in HeldBackBy(u) : OnTheMove(v)

(***************************************************************************)
(* The work of a study is finite, and every step of anybody uses some of   *)
(* it up: a job comes nearer to its end, or spends an attempt, and a retry *)
(* has less before it than the failure it replaces.  What adds to it is    *)
(* bounded: the plan, and a human who re-queues an escalated job.  That is *)
(* all that ends the work of an aborted study: nothing is asked of it.     *)
(***************************************************************************)
StepsLeft(state) ==
    CASE state = "proposed"              -> 8
      [] state = "approved"              -> 7
      [] state = "queued"                -> 6
      [] state = "assigned"              -> 5
      [] state = "running"               -> 4
      [] state \in {"succeeded", "failed"} -> 3
      [] state \in {"review", "triage"}  -> 2
      [] state = "escalated"             -> 1
      [] OTHER                           -> 0

WorkLeft(row) == 9 * (row.max - row.attempt) + StepsLeft(row.state)

Requeued(j) ==
    /\ job[j].state = "escalated" /\ job'[j].state = "queued"
    /\ upsets' = upsets + 1

Replaces(r, j) ==
    /\ r.kind = j.kind /\ r.of = j.of
    /\ job[j].state = "triage" /\ job'[j].state = "retry_spawned"
    /\ WorkLeft(job'[r]) \in 0 .. WorkLeft(job[j]) - 1

WorkIsUsedUp ==
    [][/\ \A j \in DOMAIN job :
             \/ job'[j] = job[j]
             \/ WorkLeft(job'[j]) \in 0 .. WorkLeft(job[j]) - 1
             \/ Requeued(j)
       /\ \A r \in DOMAIN job' \ DOMAIN job :
             \/ drafting /\ r \in Plan
             \/ \E j \in DOMAIN job : Replaces(r, j)]_vars

(***************************************************************************)
(* Where a human has to act, liveness assumes that they do, whatever they  *)
(* decide: their inbox is empty again and again.                           *)
(***************************************************************************)
InboxEmpty == \A j \in DOMAIN job : job[j].state \notin Inbox

Attended == []<>InboxEmpty

(***************************************************************************)
(* "REPORT covers failures too" (its dependencies may end in any way): a   *)
(* planned report gets out of its queue, whatever becomes of the cases,    *)
(* and is made, retried or given up.                                       *)
(***************************************************************************)
Over(j) == Present(j) /\ job[j].state \in TerminalJobState

ReportEnds == Attended => \A r \in Reports : Present(r) ~> Over(r)

(***************************************************************************)
(* The machine stops: retries, triage and gates do not keep each other     *)
(* going.  runnable_jobs asks nothing of the study, so this is all that    *)
(* ends the work of one that was aborted.                                  *)
(***************************************************************************)
WorkEnds == <>[](\A j \in Job : Present(j) => job[j].state \notin Leased)
-----------------------------------------------------------------------------
(***************************************************************************)
(* "After a CHECK succeeds with a verdict: gate its upstream ANALYSIS",    *)
(* and "the lineage continues there": a case whose CHECK was accepted by   *)
(* the control loop has no ANALYSIS left that nobody decided on.           *)
(***************************************************************************)
VerdictGatesItsCase ==
    \A k \in Checks \cap DOMAIN job : AcceptedByMachine(k) =>
        \A a \in Analyses \cap DOMAIN job :
            a.of = k.of => job[a].state # "succeeded"
=============================================================================
