------------------------------- MODULE Triage -------------------------------
(***************************************************************************)
(* What becomes of a failed job: control.py's spawn_triage, run by every   *)
(* control loop, and triage.py's run_triage, run by the worker that        *)
(* executes the TRIAGE job.  Both are sequences of transactions, one per   *)
(* step here, with a crash possible between any two.                       *)
(*                                                                         *)
(* The workers are those of JobLifecycle: a queued job is claimed,         *)
(* started and ends, or its worker dies and the lease runs out.  A TRIAGE  *)
(* job's lease only runs out when its worker is gone (its execution takes  *)
(* no time against a lease of ten minutes; Leases has the slow workers).   *)
(* The study stays running: nobody aborts it here.                         *)
(***************************************************************************)
EXTENDS JobMachine, FiniteSets

CONSTANTS
    MaxJobs,        \* bound: job ids that can be given out
    Loop,           \* control loops
    Dependent,      \* jobs with a job_dep row on it: its CHECK
    MaxAttempts,    \* max_attempts of First
    AutoRetryMax,   \* policy.auto_retry_max
    TriageAttempts, \* max_attempts of a TRIAGE job: create_job's default, 3
    MaxCrashes,     \* bound: crashes of loops and workers
    MaxRequeues     \* bound: how often a human re-queues an escalated job

ASSUME TriageAssumption ==
    /\ MaxJobs \in Nat \ {0}
    /\ {MaxAttempts, TriageAttempts} \subseteq Nat \ {0}
    /\ {AutoRetryMax, MaxCrashes, MaxRequeues} \subseteq Nat
    /\ Worker # {}

\* Ids are ULIDs: each new one is later than all before.
Job   == 1..MaxJobs
NoJob == 0
First == 1      \* the ANALYSIS the study planned

VARIABLES
    job,        \* the job table
    info,       \* what else a row says: type, parent_job_id, failed_job_id,
                \* and whether its last job.failed event said "permanent"
    dep,        \* job_dep: what each dependent depends on
    at,         \* where each loop is in spawn_triage
    rows,       \* the rows its SELECT returned and it has not handled
    cur, child, \* the failed job in hand and the TRIAGE job created for it
    exec,       \* where the worker of a running TRIAGE job is in run_triage
    plan,       \* what it decided, on which attempt of the failed job
    retry,      \* the retry it created
    crashes, requeues

loops == <<at, rows, cur, child>>
runs  == <<exec, plan, retry>>
vars  == <<job, info, dep, loops, runs, crashes, requeues>>

Outcome == {"retry_spawned", "infeasible", "escalated"}

Undecided == [outcome |-> "escalated", attempt |-> 1]

Info(kind, parent, subject) ==
    [kind |-> kind, parent |-> parent, subject |-> subject, permanent |-> FALSE]

Move(j, to, human, expected, args) ==
    /\ j \in DOMAIN job
    /\ CanMove(job[j], to, human, expected, args)
    /\ job' = [job EXCEPT ![j] = Moved(@, to, args)]

NextId == Cardinality(DOMAIN job) + 1

\* create_job: a fresh id, a row in 'proposed'.
Create(j, attempt, max, more) ==
    /\ j = NextId /\ j \in Job
    /\ job' = Inserted(job, j, NewJob(attempt, max))
    /\ info' = [info EXCEPT ![j] = more]

TriageChildren(j) ==
    {t \in DOMAIN job : info[t].kind = "TRIAGE" /\ info[t].parent = j}

\* Mutant: TRIAGE jobs are not themselves triaged.
FailedWork ==
    {j \in DOMAIN job : job[j].state = "failed" /\ info[j].kind # "TRIAGE"}

Failed == {j \in DOMAIN job : job[j].state = "failed"}
Orphans == {j \in DOMAIN job : job[j].state = "triage" /\ TriageChildren(j) = {}}
-----------------------------------------------------------------------------
\* First is in the queue, on any of its attempts.
Init ==
    /\ \E attempt \in 1..MaxAttempts :
          job = [j \in {First} |->
                    [NewJob(attempt, MaxAttempts) EXCEPT !.state = "queued"]]
    /\ info = [j \in Job |-> Info("ANALYSIS", NoJob, NoJob)]
    /\ dep = [d \in Dependent |-> First]
    /\ at = [p \in Loop |-> "idle"]
    /\ rows = [p \in Loop |-> {}]
    /\ cur = [p \in Loop |-> NoJob]
    /\ child = [p \in Loop |-> NoJob]
    /\ exec = [j \in Job |-> "none"]
    /\ plan = [j \in Job |-> Undecided]
    /\ retry = [j \in Job |-> NoJob]
    /\ crashes = 0 /\ requeues = 0

(***************************************************************************)
(* spawn_triage.                                                           *)
(***************************************************************************)
SelectFailed(p) ==
    /\ at[p] = "idle"
    /\ rows' = [rows EXCEPT ![p] = Failed]
    /\ at' = [at EXCEPT ![p] = "failed"]
    /\ UNCHANGED <<job, info, dep, cur, child, runs, crashes, requeues>>

\* The parent flips first; a lost race goes on with the next row.
Flip(p) ==
    /\ at[p] = "failed"
    /\ \E j \in rows[p] :
        /\ Move(j, "triage", FALSE, "failed", NoArgs)
        /\ rows' = [rows EXCEPT ![p] = @ \ {j}]
        /\ cur' = [cur EXCEPT ![p] = j]
    /\ at' = [at EXCEPT ![p] = "spawn"]
    /\ UNCHANGED <<info, dep, child, runs, crashes, requeues>>

FlipLost(p) ==
    /\ at[p] = "failed"
    /\ \E j \in rows[p] :
        /\ job[j].state # "failed"
        /\ rows' = [rows EXCEPT ![p] = @ \ {j}]
    /\ UNCHANGED <<job, info, dep, at, cur, child, runs, crashes, requeues>>

\* Mutant: without the repair arm.
SelectNoOrphans(p) ==
    /\ at[p] = "failed" /\ rows[p] = {}
    /\ at' = [at EXCEPT ![p] = "orphans"]
    /\ UNCHANGED <<job, info, dep, rows, cur, child, runs, crashes, requeues>>

\* The repair arm: triage-state jobs without a TRIAGE child.
SelectOrphans(p) ==
    /\ at[p] = "failed" /\ rows[p] = {}
    /\ rows' = [rows EXCEPT ![p] = Orphans]
    /\ at' = [at EXCEPT ![p] = "orphans"]
    /\ UNCHANGED <<job, info, dep, cur, child, runs, crashes, requeues>>

Repair(p) ==
    /\ at[p] = "orphans"
    /\ \E j \in rows[p] :
        /\ rows' = [rows EXCEPT ![p] = @ \ {j}]
        /\ cur' = [cur EXCEPT ![p] = j]
    /\ at' = [at EXCEPT ![p] = "respawn"]
    /\ UNCHANGED <<job, info, dep, child, runs, crashes, requeues>>

\* _create_triage_job: create, then approve, both arms alike.
SpawnChild(p) ==
    /\ at[p] \in {"spawn", "respawn"}
    /\ Create(NextId, 1, TriageAttempts, Info("TRIAGE", cur[p], cur[p]))
    /\ child' = [child EXCEPT ![p] = NextId]
    /\ at' = [at EXCEPT ![p] = IF @ = "spawn" THEN "approve" ELSE "reapprove"]
    /\ UNCHANGED <<dep, rows, cur, runs, crashes, requeues>>

ApproveChild(p) ==
    /\ at[p] \in {"approve", "reapprove"}
    /\ Move(child[p], "approved", FALSE, AnyState, NoArgs)
    /\ at' = [at EXCEPT ![p] = IF @ = "approve" THEN "failed" ELSE "orphans"]
    /\ cur' = [cur EXCEPT ![p] = NoJob]
    /\ child' = [child EXCEPT ![p] = NoJob]
    /\ UNCHANGED <<info, dep, rows, runs, crashes, requeues>>

\* Outside _try: when somebody else has moved the child, control_tick raises.
ApproveRaises(p) ==
    /\ at[p] \in {"approve", "reapprove"}
    /\ job[child[p]].state # "proposed"
    /\ at' = [at EXCEPT ![p] = "dead"]
    /\ rows' = [rows EXCEPT ![p] = {}]
    /\ cur' = [cur EXCEPT ![p] = NoJob]
    /\ child' = [child EXCEPT ![p] = NoJob]
    /\ UNCHANGED <<job, info, dep, runs, crashes, requeues>>

SpawnDone(p) ==
    /\ at[p] = "orphans" /\ rows[p] = {}
    /\ at' = [at EXCEPT ![p] = "idle"]
    /\ UNCHANGED <<job, info, dep, rows, cur, child, runs, crashes, requeues>>

\* The loop's process dies and is started again.
CrashLoop(p) ==
    /\ at[p] # "idle" /\ crashes < MaxCrashes
    /\ crashes' = crashes + 1
    /\ at' = [at EXCEPT ![p] = "idle"]
    /\ rows' = [rows EXCEPT ![p] = {}]
    /\ cur' = [cur EXCEPT ![p] = NoJob]
    /\ child' = [child EXCEPT ![p] = NoJob]
    /\ UNCHANGED <<job, info, dep, runs, requeues>>

(***************************************************************************)
(* run_triage, by the worker of the running TRIAGE job t.                  *)
(***************************************************************************)
\* Mutant: one retry too many.
DecisionOneMore(j) ==
    CASE info[j].permanent             -> "infeasible"
      [] ~info[j].permanent /\ job[j].attempt > job[j].max  -> "escalated"
      [] OTHER                         -> "retry_spawned"

\* What becomes of the failed job j; "retry" by the name of its outcome.
Decision(j) ==
    CASE info[j].permanent             -> "infeasible"
      [] ~info[j].permanent /\ job[j].attempt >= job[j].max -> "escalated"
      [] OTHER                         -> "retry_spawned"

\* The failed parent's state is not looked at.
Decide(t) ==
    LET j == info[t].subject IN
    /\ exec[t] = "read"
    /\ plan' = [plan EXCEPT ![t] =
                  [outcome |-> Decision(j), attempt |-> job[j].attempt]]
    /\ exec' = [exec EXCEPT ![t] =
          IF plan'[t].outcome = "retry_spawned" THEN "create" ELSE "settle"]
    /\ UNCHANGED <<job, info, dep, loops, retry, crashes, requeues>>

\* Mutant: the retry is created with the attempt of its parent.
CreateRetrySameAttempt(t) ==
    LET j == info[t].subject IN
    /\ exec[t] = "create"
    /\ Create(NextId, plan[t].attempt, job[j].max,
              Info(info[j].kind, j, info[j].subject))
    /\ retry' = [retry EXCEPT ![t] = NextId]
    /\ exec' = [exec EXCEPT ![t] = "repoint"]
    /\ UNCHANGED <<dep, loops, plan, crashes, requeues>>

\* Mutant: attempts count down.
CreateRetryCountdown(t) ==
    LET j == info[t].subject IN
    /\ exec[t] = "create"
    /\ Create(NextId, plan[t].attempt - 1, job[j].max,
              Info(info[j].kind, j, info[j].subject))
    /\ retry' = [retry EXCEPT ![t] = NextId]
    /\ exec' = [exec EXCEPT ![t] = "repoint"]
    /\ UNCHANGED <<dep, loops, plan, crashes, requeues>>

\* The retry has no job_dep rows of its own.
CreateRetry(t) ==
    LET j == info[t].subject IN
    /\ exec[t] = "create"
    /\ Create(NextId, plan[t].attempt + 1, job[j].max,
              Info(info[j].kind, j, info[j].subject))
    /\ retry' = [retry EXCEPT ![t] = NextId]
    /\ exec' = [exec EXCEPT ![t] = "repoint"]
    /\ UNCHANGED <<dep, loops, plan, crashes, requeues>>

\* Mutant: the dependents stay behind.
RepointNothing(t) ==
    /\ exec[t] = "repoint"
    /\ exec' = [exec EXCEPT ![t] =
          IF plan[t].attempt <= AutoRetryMax THEN "approve" ELSE "settle"]
    /\ UNCHANGED <<job, info, dep, loops, plan, retry, crashes, requeues>>

\* UPDATE job_dep by itself; the retry is approved when policy lets it.
Repoint(t) ==
    /\ exec[t] = "repoint"
    /\ dep' = [d \in Dependent |->
                 IF dep[d] = info[t].subject THEN retry[t] ELSE dep[d]]
    /\ exec' = [exec EXCEPT ![t] =
          IF plan[t].attempt <= AutoRetryMax THEN "approve" ELSE "settle"]
    /\ UNCHANGED <<job, info, loops, plan, retry, crashes, requeues>>

ApproveRetry(t) ==
    /\ exec[t] = "approve"
    /\ Move(retry[t], "approved", FALSE, AnyState, NoArgs)
    /\ exec' = [exec EXCEPT ![t] = "settle"]
    /\ UNCHANGED <<info, dep, loops, plan, retry, crashes, requeues>>

Settle(t) ==
    /\ exec[t] = "settle"
    /\ Move(info[t].subject, plan[t].outcome, FALSE, "triage", NoArgs)
    /\ exec' = [exec EXCEPT ![t] = "finish"]
    /\ UNCHANGED <<info, dep, loops, plan, retry, crashes, requeues>>

\* Mutant: run_triage returns quietly when somebody else was there first.
RunGivesWay(t) ==
    /\ \/ exec[t] = "approve" /\ job[retry[t]].state # "proposed"
       \/ exec[t] = "settle" /\ job[info[t].subject].state # "triage"
    /\ exec' = [exec EXCEPT ![t] = "finish"]
    /\ UNCHANGED <<job, info, dep, loops, plan, retry, crashes, requeues>>

\* Either transition raises when somebody else was there first.
RunRaises(t) ==
    /\ \/ exec[t] = "approve" /\ job[retry[t]].state # "proposed"
       \/ exec[t] = "settle" /\ job[info[t].subject].state # "triage"
    /\ exec' = [exec EXCEPT ![t] = "recover"]
    /\ UNCHANGED <<job, info, dep, loops, plan, retry, crashes, requeues>>

\* The worker commits the outcome of the TRIAGE job itself.
Leave(t) ==
    /\ exec' = [exec EXCEPT ![t] = "none"]
    /\ plan' = [plan EXCEPT ![t] = Undecided]
    /\ retry' = [retry EXCEPT ![t] = NoJob]

Finish(t) ==
    /\ exec[t] = "finish"
    /\ Move(t, "succeeded", FALSE, "running", NoArgs)
    /\ Leave(t)
    /\ UNCHANGED <<info, dep, loops, crashes, requeues>>

Recover(t) ==
    /\ exec[t] = "recover"
    /\ Move(t, "failed", FALSE, "running", NoArgs)
    /\ Leave(t)
    /\ UNCHANGED <<info, dep, loops, crashes, requeues>>

CrashRun(t) ==
    /\ exec[t] # "none" /\ crashes < MaxCrashes
    /\ crashes' = crashes + 1
    /\ Leave(t)
    /\ UNCHANGED <<job, info, dep, loops, requeues>>

(***************************************************************************)
(* The workers, the rest of the control loop, and people.                  *)
(***************************************************************************)
Enqueue(j) ==
    /\ Move(j, "queued", FALSE, "approved", NoArgs)
    /\ UNCHANGED <<info, dep, loops, runs, crashes, requeues>>

Claim(j) ==
    /\ Move(j, "assigned", FALSE, "queued",
            ClaimArgs(CHOOSE w \in Worker : TRUE))
    /\ UNCHANGED <<info, dep, loops, runs, crashes, requeues>>

Start(j) ==
    /\ Move(j, "running", FALSE, "assigned", NoArgs)
    /\ exec' = [exec EXCEPT ![j] =
                  IF info[j].kind = "TRIAGE" THEN "read" ELSE "none"]
    /\ UNCHANGED <<info, dep, loops, plan, retry, crashes, requeues>>

\* An ANALYSIS ends; a failure may be permanent.
End(j) ==
    /\ info[j].kind = "ANALYSIS"
    /\ \/ Move(j, "succeeded", FALSE, "running", NoArgs) /\ UNCHANGED info
       \/ /\ Move(j, "failed", FALSE, "running", NoArgs)
          /\ \E p \in BOOLEAN : info' = [info EXCEPT ![j].permanent = p]
    /\ UNCHANGED <<dep, loops, runs, crashes, requeues>>

\* The worker is gone (CrashRun has counted those of running TRIAGE jobs) and
\* the reaper finds the lease expired.
LeaseOut(j) ==
    /\ job[j].state \in Leased /\ exec[j] = "none"
    /\ IF info[j].kind = "TRIAGE" /\ job[j].state = "running"
       THEN UNCHANGED crashes
       ELSE crashes < MaxCrashes /\ crashes' = crashes + 1
    /\ IF job[j].attempt < job[j].max
       THEN Move(j, "queued", FALSE, job[j].state, NoArgs) /\ UNCHANGED info
       ELSE /\ Move(j, "failed", FALSE, job[j].state, NoArgs)
            /\ info' = [info EXCEPT ![j].permanent = FALSE]
    /\ UNCHANGED <<dep, loops, runs, requeues>>

\* auto_accept_support_jobs
AcceptTriage(j) ==
    /\ info[j].kind = "TRIAGE"
    /\ Move(j, "accepted", FALSE, "succeeded", NoArgs)
    /\ UNCHANGED <<info, dep, loops, runs, crashes, requeues>>

HumanApproves(j) ==
    /\ Move(j, "approved", TRUE, "proposed", NoArgs)
    /\ UNCHANGED <<info, dep, loops, runs, crashes, requeues>>

HumanCancels(j) ==
    /\ Move(j, "cancelled", TRUE, "proposed", NoArgs)
    /\ UNCHANGED <<info, dep, loops, runs, crashes, requeues>>

\* The transitions out of escalated; no command of the CLI makes them.
HumanResolves(j) ==
    /\ \/ /\ requeues < MaxRequeues
          /\ Move(j, "queued", TRUE, "escalated", NoArgs)
          /\ requeues' = requeues + 1
       \/ /\ \E to \in {"cancelled", "infeasible"} :
               Move(j, to, TRUE, "escalated", NoArgs)
          /\ UNCHANGED requeues
    /\ UNCHANGED <<info, dep, loops, runs, crashes>>
-----------------------------------------------------------------------------
LoopStep(p) ==
    \/ SelectFailed(p) \/ Flip(p) \/ FlipLost(p)
    \/ SelectOrphans(p) \/ Repair(p)
    \/ SpawnChild(p) \/ ApproveChild(p) \/ ApproveRaises(p)
    \/ SpawnDone(p)

RunStep(t) ==
    \/ Decide(t) \/ CreateRetry(t) \/ Repoint(t) \/ ApproveRetry(t)
    \/ Settle(t) \/ RunRaises(t) \/ Finish(t) \/ Recover(t)

WorkStep(j) == Enqueue(j) \/ Claim(j) \/ Start(j) \/ End(j) \/ AcceptTriage(j)

Human(j) == HumanApproves(j) \/ HumanCancels(j) \/ HumanResolves(j)

Next ==
    \/ \E p \in Loop : LoopStep(p) \/ CrashLoop(p)
    \/ \E j \in DOMAIN job :
          RunStep(j) \/ CrashRun(j) \/ WorkStep(j) \/ LeaseOut(j) \/ Human(j)

Spec == Init /\ [][Next]_vars

(***************************************************************************)
(* The part of Spec in which run_triage, having created a retry, gets to   *)
(* its next statement before the retry is approved, claimed, executed and  *)
(* has failed.  When it does not, the retry may have been replaced by one  *)
(* of its own, and the dependents are pointed at a husk.                   *)
(***************************************************************************)
Prompt ==
    \A t \in DOMAIN job :
        exec[t] = "repoint" =>
            job[retry[t]].state \in PreRunning \cup {"running", "cancelled"}

PromptSpec == Init /\ [][Next /\ Prompt']_vars

(***************************************************************************)
(* Fairness: loops and workers that are alive go on, an ANALYSIS in        *)
(* execution need not end, and the lease of a TRIAGE job whose worker died *)
(* runs out.  People and crashes owe nothing.                              *)
(***************************************************************************)
Fairness ==
    /\ \A p \in Loop : WF_vars(LoopStep(p))
    /\ \A j \in Job :
          /\ WF_vars(j \in DOMAIN job /\ RunStep(j))
          /\ WF_vars(Enqueue(j)) /\ WF_vars(Claim(j)) /\ WF_vars(Start(j))
          /\ WF_vars(/\ j \in DOMAIN job /\ info[j].kind = "TRIAGE"
                     /\ LeaseOut(j))

FairSpec == Spec /\ Fairness
-----------------------------------------------------------------------------
TypeOK ==
    /\ DOMAIN job \subseteq Job /\ job \in [DOMAIN job -> JobRow]
    /\ info \in [Job -> [kind : {"ANALYSIS", "TRIAGE"},
                         parent : Job \cup {NoJob}, subject : Job \cup {NoJob},
                         permanent : BOOLEAN]]
    /\ \A j \in DOMAIN job :
          info[j].kind = "TRIAGE" => info[j].subject \in DOMAIN job
    /\ dep \in [Dependent -> DOMAIN job]
    /\ at \in [Loop -> {"idle", "failed", "spawn", "approve", "orphans",
                       "respawn", "reapprove", "dead"}]
    /\ rows \in [Loop -> SUBSET DOMAIN job]
    /\ cur \in [Loop -> DOMAIN job \cup {NoJob}]
    /\ child \in [Loop -> DOMAIN job \cup {NoJob}]
    /\ exec \in [Job -> {"none", "read", "create", "repoint", "approve",
                         "settle", "finish", "recover"}]
    /\ plan \in [Job -> [outcome : Outcome, attempt : Nat \ {0}]]
    /\ retry \in [Job -> DOMAIN job \cup {NoJob}]
    /\ \A j \in DOMAIN job : exec[j] # "none" => job[j].state = "running"

(***************************************************************************)
(* Retries, lease expiries and re-queues together never take a job beyond  *)
(* its max_attempts, and only an exhausted job is put before a human.      *)
(***************************************************************************)
RetryWithinBudget ==
    \A j \in DOMAIN job :
        /\ job[j].attempt <= job[j].max
        /\ job[j].state = "escalated" => job[j].attempt = job[j].max

(***************************************************************************)
(* Dependents are repointed before the failed job becomes retry_spawned:   *)
(* "REPORT never waits on a retry_spawned husk", whatever crashes between  *)
(* the steps and however many TRIAGE jobs work on the same failure.        *)
(***************************************************************************)
NoHusk == \A d \in Dependent : job[dep[d]].state # "retry_spawned"

(***************************************************************************)
(* The lineage moves forward: a retry is an attempt later than its parent, *)
(* so no two jobs of one line of retries are the same (case, attempt).     *)
(***************************************************************************)
LineageAdvances ==
    \A r \in DOMAIN job :
        LET j == info[r].parent IN
        j # NoJob /\ info[r].kind = info[j].kind /\ info[j].kind = "ANALYSIS"
          => job[r].attempt > job[j].attempt

(***************************************************************************)
(* The repair arm of spawn_triage: a job whose loop died after the flip    *)
(* and before the TRIAGE job was created does not wait for ever without    *)
(* one.  As long as some loop keeps going, ids do not run out (a bound of  *)
(* the model), and nobody cancels or has to resolve a TRIAGE job.          *)
(***************************************************************************)
InTriage(j) == j \in DOMAIN job /\ job[j].state = "triage"

HasTriageJob(j) ==
    \E t \in TriageChildren(j) :
        job[t].state \notin TerminalJobState \cup {"succeeded"}

(***************************************************************************)
(* A failure is not forgotten, whatever crashes or races: where a job has  *)
(* handed over to a retry, the retry is there, and a job in triage is seen *)
(* by the repair arm or has a TRIAGE job that has neither done its work    *)
(* nor handed it on: it is under way, in a human's hands, or a failure     *)
(* that is not forgotten either, and later, so that this comes to an end.  *)
(* After a human's re-queue the old TRIAGE job hides a second failure.     *)
(***************************************************************************)
Responsible(t, j) ==
    /\ info[t].kind = "TRIAGE" /\ info[t].subject = j /\ t > j
    /\ job[t].state \notin {"succeeded", "accepted", "retry_spawned"}

NotForgotten ==
    /\ \A j \in DOMAIN job : job[j].state = "retry_spawned" =>
          \E r \in DOMAIN job : info[r].parent = j /\ info[r].kind = info[j].kind
    /\ requeues = 0 =>
          \A j \in DOMAIN job : InTriage(j) =>
              j \in Orphans \/ \E t \in DOMAIN job : Responsible(t, j)

Undisturbed ==
    /\ DOMAIN job # Job
    /\ \A t \in DOMAIN job :
          info[t].kind = "TRIAGE" => job[t].state \notin {"cancelled", "escalated"}

ControlGoesOn == []<>(\E p \in Loop : at[p] = "idle") /\ []Undisturbed

OrphansRepaired ==
    ControlGoesOn =>
      \A j \in Job : (InTriage(j) /\ ~HasTriageJob(j))
                        ~> (~InTriage(j) \/ HasTriageJob(j))

(***************************************************************************)
(* A failure does not stay undecided: through crashed loops and workers,   *)
(* TRIAGE jobs that run twice, and TRIAGE jobs that fail and are triaged   *)
(* themselves, it is given its outcome, as long as a human approves the    *)
(* TRIAGE jobs that a dead loop left proposed.                             *)
(***************************************************************************)
NoneProposed ==
    \A t \in DOMAIN job : info[t].kind = "TRIAGE" => job[t].state # "proposed"

Unsettled(j) == j \in DOMAIN job /\ job[j].state \in {"failed", "triage"}

FailureSettles ==
    ControlGoesOn /\ []<>NoneProposed
      => \A j \in Job : Unsettled(j) ~> ~Unsettled(j)
-----------------------------------------------------------------------------
(***************************************************************************)
(* "The CAS is the spawn lock across concurrent control loops": a failure  *)
(* has one TRIAGE job at a time.                                           *)
(***************************************************************************)
OneTriageJob ==
    \A j \in DOMAIN job :
        Cardinality({t \in TriageChildren(j) :
                        job[t].state \in PreRunning \cup {"running"}}) <= 1
=============================================================================
