------------------------------- MODULE Leases -------------------------------
(***************************************************************************)
(* Workers, leases and the reaper: scheduler.py's claim_next, heartbeat    *)
(* and reap_expired, driven by the polling loop of worker.py, with one     *)
(* process per worker.  Every SQLite transaction is one step; everything a *)
(* process keeps between two transactions (the reaper's rows, the runnable *)
(* list, the claimed job) is a variable that may have gone stale.          *)
(*                                                                         *)
(* Around the loop: jobs are submitted, approved, enqueued and, before     *)
(* they run, cancelled (cmd_abort); leases lapse when nobody renews them   *)
(* in time; processes crash and are started again under the same id.       *)
(* What becomes of a succeeded or failed job is the control loop's and is  *)
(* not in this module.                                                     *)
(***************************************************************************)
EXTENDS JobMachine, FiniteSets

CONSTANTS
    Job,            \* job ids
    NoJob,          \* no job in hand
    Capacity,       \* --capacity of every worker
    MaxAttempts,    \* max_attempts of every job
    MaxStarts       \* bound: how often one worker process is started

ASSUME LeasesAssumption ==
    /\ Capacity \in Nat \ {0}
    /\ IsFiniteSet(Worker) /\ Worker # {}
    /\ MaxAttempts \in Nat \ {0}
    /\ MaxStarts \in Nat \ {0}
    /\ NoJob \notin Job
    /\ Worker \subseteq RunRef  \* a run is told apart by who executed it

VARIABLES
    job,        \* the job table
    pc,         \* where each worker process is in Worker.run
    task,       \* the job the process has claimed
    snap,       \* the rows reap_expired has selected and not yet handled
    runnable,   \* claim_next's list of runnable jobs
    starts      \* how often the process was started

vars == <<job, pc, task, snap, runnable, starts>>

\* The polling loop proper, between two jobs.
Polling == {"tick", "reap", "heartbeat", "select", "claim"}

\* A claimed job is in hand, or a handler that raised is being cleaned up.
Working == {"start", "execute", "recover"}

\* "down": not started, or crashed; "dead": an exception ended Worker.run.
Gone == {"down", "dead"}

IsHeld(j) == job[j].state \in Leased
IsRunning(j) == j \in DOMAIN job /\ job[j].state = "running"
HeldBy(w) == {j \in DOMAIN job : job[j].worker = w /\ IsHeld(j)}

\* One committed transition() of job j.
Move(j, to, human, expected, args) ==
    /\ CanMove(job[j], to, human, expected, args)
    /\ job' = [job EXCEPT ![j] = Moved(@, to, args)]

\* What reap_expired keeps of a row: its state, and whether it looked
\* exhausted when it was read.
ReapRow == [job : Job, state : Leased, exhausted : BOOLEAN]

\* Mutant: one attempt too many looks affordable.
SeenOffByOne(j) ==
    [job |-> j, state |-> job[j].state,
     exhausted |-> job[j].attempt > job[j].max]

Seen(j) == [job |-> j, state |-> job[j].state,
            exhausted |-> job[j].attempt >= job[j].max]

\* Mutant: reap_expired's query overlooks running jobs.
ExpiredClaims ==
    {j \in DOMAIN job : job[j].state = "assigned" /\ job[j].lease = "expired"}

ExpiredLeases == {j \in DOMAIN job : IsHeld(j) /\ job[j].lease = "expired"}

Goto(w, label) == pc' = [pc EXCEPT ![w] = label]

\* The process lets go of its job.
Drop(w, label) == Goto(w, label) /\ task' = [task EXCEPT ![w] = NoJob]
-----------------------------------------------------------------------------
Init ==
    /\ job = [j \in {} |-> NoArgs]
    /\ pc = [w \in Worker |-> "down"]
    /\ task = [w \in Worker |-> NoJob]
    /\ snap = [w \in Worker |-> {}]
    /\ runnable = [w \in Worker |-> {}]
    /\ starts = [w \in Worker |-> 0]

(***************************************************************************)
(* The world around the workers.                                           *)
(***************************************************************************)
Submit(j) ==
    /\ j \in Job \ DOMAIN job
    /\ job' = Inserted(job, j, NewJob(1, MaxAttempts))
    /\ UNCHANGED <<pc, task, snap, runnable, starts>>

Approve(j) ==
    /\ Move(j, "approved", TRUE, "proposed", NoArgs)
    /\ UNCHANGED <<pc, task, snap, runnable, starts>>

\* enqueue_approved, by whichever control loop comes first
Enqueue(j) ==
    /\ Move(j, "queued", FALSE, "approved", NoArgs)
    /\ UNCHANGED <<pc, task, snap, runnable, starts>>

\* cmd_abort cancels whatever has not started to run.
Abort(j) ==
    /\ Move(j, "cancelled", TRUE, job[j].state, NoArgs)
    /\ UNCHANGED <<pc, task, snap, runnable, starts>>

\* Ten minutes pass without a renewal: lease_expires_at < now.
Lapse(j) ==
    /\ job[j].lease = "live"
    /\ job' = [job EXCEPT ![j].lease = "expired"]
    /\ UNCHANGED <<pc, task, snap, runnable, starts>>

\* The process dies and with it all it had in memory.
Crash(w) ==
    /\ pc[w] \notin Gone
    /\ Drop(w, "down")
    /\ snap' = [snap EXCEPT ![w] = {}]
    /\ runnable' = [runnable EXCEPT ![w] = {}]
    /\ UNCHANGED <<job, starts>>

(***************************************************************************)
(* Worker.run.  register_worker sets the worker row online; nothing ever   *)
(* sets it otherwise, so the row is not modelled.                          *)
(***************************************************************************)
Register(w) ==
    /\ pc[w] \in Gone
    /\ starts[w] < MaxStarts
    /\ starts' = [starts EXCEPT ![w] = @ + 1]
    /\ Goto(w, "tick")
    /\ UNCHANGED <<job, task, snap, runnable>>

\* reap_expired reads the expired leases and decides, row by row, ...
ReapSelect(w) ==
    /\ pc[w] = "tick"
    /\ snap' = [snap EXCEPT ![w] = {Seen(j) : j \in ExpiredLeases}]
    /\ Goto(w, "reap")
    /\ UNCHANGED <<job, task, runnable, starts>>

\* ... and acts on each decision in a transaction of its own, guarded by the
\* state it read; a StaleState is swallowed.
Reap(w) ==
    /\ pc[w] = "reap"
    /\ \E r \in snap[w] :
        /\ \/ Move(r.job, IF r.exhausted THEN "failed" ELSE "queued",
                   FALSE, r.state, NoArgs)
           \/ job[r.job].state # r.state /\ UNCHANGED job
        /\ snap' = [snap EXCEPT ![w] = @ \ {r}]
    /\ UNCHANGED <<pc, task, runnable, starts>>

ReapDone(w) ==
    /\ pc[w] = "reap" /\ snap[w] = {}
    /\ Goto(w, "heartbeat")
    /\ UNCHANGED <<job, task, snap, runnable, starts>>

\* heartbeat: one transaction over all jobs the worker holds.
Heartbeat(w) ==
    /\ pc[w] = "heartbeat"
    /\ job' = [j \in DOMAIN job |-> Renewed(job[j], w)]
    /\ Goto(w, "select")
    /\ UNCHANGED <<task, snap, runnable, starts>>

\* Mutant: claim_next does not count the jobs the worker already holds.
ClaimSelectUncounted(w) ==
    LET queued == {j \in DOMAIN job : job[j].state = "queued"}
    IN  /\ pc[w] = "select"
        /\ runnable' = [runnable EXCEPT ![w] = queued]
        /\ Goto(w, IF queued # {} THEN "claim" ELSE "tick")
        /\ UNCHANGED <<job, task, snap, starts>>

\* claim_next with a free slot reads the runnable jobs; an idle poll
\* otherwise.  Dependencies are the control loop's subject: every queued job
\* is runnable here.
ClaimSelect(w) ==
    LET queued == {j \in DOMAIN job : job[j].state = "queued"}
        free   == Cardinality(HeldBy(w)) < Capacity
    IN  /\ pc[w] = "select"
        /\ runnable' = [runnable EXCEPT ![w] = IF free THEN queued ELSE {}]
        /\ Goto(w, IF free /\ queued # {} THEN "claim" ELSE "tick")
        /\ UNCHANGED <<job, task, snap, starts>>

\* The claim itself is a compare-and-set on the state; the policy's pick is
\* any runnable job.
Claim(w, j) ==
    /\ pc[w] = "claim" /\ j \in runnable[w]
    /\ Move(j, "assigned", FALSE, "queued", ClaimArgs(w))
    /\ task' = [task EXCEPT ![w] = j]
    /\ runnable' = [runnable EXCEPT ![w] = {}]
    /\ Goto(w, "start")
    /\ UNCHANGED <<snap, starts>>

\* A lost race drops the job from the list and selects again.
ClaimLost(w, j) ==
    /\ pc[w] = "claim" /\ j \in runnable[w]
    /\ job[j].state # "queued"
    /\ runnable' = [runnable EXCEPT ![w] = @ \ {j}]
    /\ Goto(w, IF runnable[w] = {j} THEN "tick" ELSE "claim")
    /\ UNCHANGED <<job, task, snap, starts>>

\* _process starts the job; here a StaleState is not caught by anyone.
Start(w) ==
    /\ pc[w] = "start"
    /\ Move(task[w], "running", FALSE, "assigned", [NoArgs EXCEPT !.lease = TRUE])
    /\ Goto(w, "execute")
    /\ UNCHANGED <<task, snap, runnable, starts>>

StartRaises(w) ==
    /\ pc[w] = "start"
    /\ job[task[w]].state # "assigned"
    /\ Drop(w, "dead")
    /\ UNCHANGED <<job, snap, runnable, starts>>

\* The handler commits the outcome, with or without a run_ref.
Finish(w) ==
    /\ pc[w] = "execute"
    /\ \E to \in {"succeeded", "failed"}, run \in {NoRun, w} :
          Move(task[w], to, FALSE, "running", [NoArgs EXCEPT !.run = run])
    /\ Drop(w, "tick")
    /\ UNCHANGED <<snap, runnable, starts>>

\* The handler raises: in the executor, or because its outcome came too late.
HandlerRaises(w) ==
    /\ pc[w] = "execute"
    /\ Goto(w, "recover")
    /\ UNCHANGED <<job, task, snap, runnable, starts>>

\* Mutant: the except branch only logs.
RecoverByLogging(w) ==
    /\ pc[w] = "recover"
    /\ Drop(w, "tick")
    /\ UNCHANGED <<job, snap, runnable, starts>>

\* The except branch records the failure ...
Recover(w) ==
    /\ pc[w] = "recover"
    /\ Move(task[w], "failed", FALSE, "running", NoArgs)
    /\ Drop(w, "tick")
    /\ UNCHANGED <<snap, runnable, starts>>

\* ... unless that, too, is stale: then the exception leaves Worker.run.
RecoverRaises(w) ==
    /\ pc[w] = "recover"
    /\ job[task[w]].state # "running"
    /\ Drop(w, "dead")
    /\ UNCHANGED <<job, snap, runnable, starts>>
-----------------------------------------------------------------------------
\* What a live process does by itself, once scheduled.
WorkerStep(w) ==
    \/ ReapSelect(w) \/ Reap(w) \/ ReapDone(w)
    \/ Heartbeat(w)
    \/ ClaimSelect(w)
    \/ \E j \in Job : Claim(w, j) \/ ClaimLost(w, j)
    \/ Start(w) \/ StartRaises(w)
    \/ Finish(w) \/ HandlerRaises(w)
    \/ Recover(w) \/ RecoverRaises(w)

World ==
    \/ \E j \in Job : Submit(j)
    \/ \E j \in DOMAIN job : Approve(j) \/ Enqueue(j) \/ Abort(j) \/ Lapse(j)
    \/ \E w \in Worker : Crash(w) \/ Register(w)

Next == World \/ \E w \in Worker : WorkerStep(w)

Spec == Init /\ [][Next]_vars

(***************************************************************************)
(* Fairness.  A live process goes on with its loop; an execution itself    *)
(* need not end.  A lease lapses once its holder is not in the polling     *)
(* loop, the only place that renews it: gone, or busy with a job.          *)
(***************************************************************************)
LoopStep(w) == pc[w] # "execute" /\ WorkerStep(w)

LapseUnattended(j) ==
    /\ j \in DOMAIN job
    /\ \A w \in Worker : job[j].worker = w => pc[w] \notin Polling
    /\ Lapse(j)

Fairness ==
    /\ \A w \in Worker : WF_vars(LoopStep(w))
    /\ \A j \in Job : WF_vars(LapseUnattended(j))

FairSpec == Spec /\ Fairness
-----------------------------------------------------------------------------
TypeOK ==
    /\ DOMAIN job \subseteq Job
    /\ job \in [DOMAIN job -> JobRow]
    /\ pc \in [Worker -> Polling \cup Working \cup Gone]
    /\ task \in [Worker -> Job \cup {NoJob}]
    /\ snap \in [Worker -> SUBSET ReapRow]
    /\ runnable \in [Worker -> SUBSET Job]
    /\ starts \in [Worker -> 0..MaxStarts]
    /\ \A w \in Worker :
          /\ pc[w] \in Working => task[w] \in DOMAIN job
          /\ \A r \in snap[w] : r.job \in DOMAIN job
          /\ runnable[w] \subseteq DOMAIN job

(***************************************************************************)
(* The lease columns stay in step with the state through every             *)
(* interleaving of workers, reapers and heartbeats.                        *)
(***************************************************************************)
LeaseIffHeld == \A j \in DOMAIN job : WellLeased(job[j])

(***************************************************************************)
(* A worker back in its polling loop holds no job: whatever path it took   *)
(* out of the job, the job left the leased states.  So a heartbeat of a    *)
(* process started once renews nothing, and a job that runs longer than    *)
(* its lease is reaped.  (A restarted process may find jobs of its         *)
(* predecessor under its id.)                                              *)
(***************************************************************************)
IdleHoldsNothing ==
    \A w \in Worker :
        pc[w] \in Polling /\ starts[w] = 1 => HeldBy(w) = {}

(***************************************************************************)
(* claim_next counts and claims in two transactions, and still no worker   *)
(* ever holds more jobs than its capacity, its predecessors' included.     *)
(***************************************************************************)
CapacityRespected ==
    \A w \in Worker : Cardinality(HeldBy(w)) <= Capacity

(***************************************************************************)
(* Reapers act on attempt counts they read earlier.  Each of the N control *)
(* loops can be wrong once, so attempt can exceed max_attempts, but by     *)
(* less than N.                                                            *)
(***************************************************************************)
AttemptBound ==
    \A j \in DOMAIN job : job[j].attempt < job[j].max + Cardinality(Worker)

(***************************************************************************)
(* Once an outcome is committed, neither a late second outcome, a reaper   *)
(* nor a heartbeat touches the row again.                                  *)
(***************************************************************************)
OutcomeIsFinal ==
    [][\A j \in DOMAIN job : job[j].state \in {"succeeded", "failed"}
                               => job'[j] = job[j]]_vars

(***************************************************************************)
(* Every step on the job table is one the substrate allows: the scheduler  *)
(* and the workers implement JobLifecycle.                                 *)
(***************************************************************************)
Lifecycle == INSTANCE JobLifecycle

ImplementsLifecycle == Lifecycle!Spec

(***************************************************************************)
(* A job that runs finishes or leases out, as long as some process keeps   *)
(* polling, and whichever processes crash, raise, or are started again, as *)
(* long as none of them comes back under the id that a leased job carries. *)
(***************************************************************************)
RunningSettles ==
    []<>(\E w \in Worker : pc[w] = "tick")
      => \A j \in Job : IsRunning(j) ~> ~IsRunning(j)

NoneAdopted == \A w \in Worker : pc[w] \in Polling => HeldBy(w) = {}

UnadoptedSettles == []NoneAdopted => RunningSettles
-----------------------------------------------------------------------------
(***************************************************************************)
(* What comments, docstrings and tests say and the runs refute.            *)
(***************************************************************************)

\* worker.py's except branch: "a crashed handler must not kill the loop".
HandlerCrashKeepsLoop ==
    [][\A w \in Worker : pc[w] = "recover" => pc'[w] # "dead"]_vars

\* reap_expired: "Requeue expired-lease jobs"; a test is named
\* test_reaper_ignores_live_leases.
OnlyExpiredReaped ==
    [][\A j \in DOMAIN job :
          IsHeld(j) /\ job'[j].state = "queued" => job[j].lease = "expired"]_vars
=============================================================================
