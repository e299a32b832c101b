----------------------------- MODULE JobMachine -----------------------------
(***************************************************************************)
(* The job state machine of have_agent/substrate.py: the states, the legal *)
(* transitions and who may make them, and what transition() writes to the  *)
(* row of the job it moves.  The module has no variables; every module     *)
(* that holds a job table moves its rows with the operators below.         *)
(*                                                                         *)
(* A row keeps the columns the rest of the system reads back.  The lease   *)
(* is abstracted to what its readers tell apart: lease_expires_at is NULL  *)
(* ("none"), in the future ("live") or in the past ("expired").            *)
(***************************************************************************)
EXTENDS Integers

CONSTANTS
    Worker,     \* worker ids
    NoWorker,   \* assigned_worker IS NULL
    RunRef,     \* run_ref values: the executions the-hangar recorded
    NoRun,      \* run_ref IS NULL
    Verdict,    \* verdict ids
    NoVerdict,  \* verdict_id IS NULL
    AnyState    \* expected_state=None: the caller expects no state

-----------------------------------------------------------------------------
PreRunning == {"proposed", "approved", "queued", "assigned"}

\* The states in which a worker holds the job under a lease.
Leased == {"assigned", "running"}

TerminalJobState ==
    {"accepted", "rejected", "retry_spawned", "infeasible", "cancelled"}

JobState ==
    PreRunning \cup TerminalJobState
      \cup {"running", "succeeded", "failed", "review", "triage", "escalated"}

ASSUME NullsAssumption ==
    /\ NoWorker \notin Worker
    /\ NoRun \notin RunRef
    /\ NoVerdict \notin Verdict
    /\ AnyState \notin JobState

\* Where the reaper returns a job whose lease ran out.
LeaseExpiry == Leased \X {"queued"}

JobTransition ==
    { <<"proposed", "approved">>,   <<"approved", "queued">>,
      <<"queued", "assigned">>,     <<"assigned", "running">>,
      <<"running", "succeeded">>,   <<"running", "failed">>,
      <<"assigned", "failed">>,     <<"succeeded", "accepted">>,
      <<"succeeded", "review">>,    <<"review", "accepted">>,
      <<"review", "rejected">>,     <<"failed", "triage">>,
      <<"triage", "retry_spawned">>,<<"triage", "infeasible">>,
      <<"triage", "escalated">>,    <<"escalated", "queued">>,
      <<"escalated", "cancelled">>, <<"escalated", "infeasible">> }
    \cup LeaseExpiry
    \cup (PreRunning \X {"cancelled"})

\* Only a human leaves review or escalated.
JobHumanRequired ==
    ({"review"} \X {"accepted", "rejected"})
      \cup ({"escalated"} \X {"queued", "cancelled", "infeasible"})

\* Either side approves, accepts a success, or cancels before the run.
JobHumanOrMachine ==
    {<<"proposed", "approved">>, <<"succeeded", "accepted">>}
      \cup (PreRunning \X {"cancelled"})

\* _check_job_actor: everything not listed above is machine territory.
JobActorMay(human, from, to) ==
    \/ <<from, to>> \in JobHumanOrMachine
    \/ human <=> <<from, to>> \in JobHumanRequired
-----------------------------------------------------------------------------
JobRow ==
    [state   : JobState,
     worker  : Worker \cup {NoWorker},
     lease   : {"none", "live", "expired"},
     attempt : Nat \ {0},
     max     : Nat \ {0},
     run     : RunRef \cup {NoRun},
     verdict : Verdict \cup {NoVerdict}]

\* lease_expires_at is NULL unless assigned/running, and a job under a lease
\* names the worker that holds it.
WellLeased(row) ==
    /\ row.state \in Leased <=> row.lease # "none"
    /\ row.state \in Leased => row.worker # NoWorker

\* The row create_job inserts: always 'proposed', held by nobody.
NewJob(attempt, max) ==
    [state |-> "proposed", worker |-> NoWorker, lease |-> "none",
     attempt |-> attempt, max |-> max, run |-> NoRun, verdict |-> NoVerdict]

\* A table after INSERT of one row.
Inserted(table, id, row) ==
    [i \in DOMAIN table \cup {id} |-> IF i = id THEN row ELSE table[i]]

\* The keyword arguments of transition() that change the row.
MoveArgs ==
    [worker  : Worker \cup {NoWorker},
     lease   : BOOLEAN,                     \* lease_expires_at is given
     run     : RunRef \cup {NoRun},
     verdict : Verdict \cup {NoVerdict}]

NoArgs ==
    [worker |-> NoWorker, lease |-> FALSE, run |-> NoRun, verdict |-> NoVerdict]

ClaimArgs(w) == [NoArgs EXCEPT !.worker = w, !.lease = TRUE]

\* transition() commits exactly when none of its checks raises.
CanMove(row, to, human, expected, args) ==
    /\ expected \in {AnyState, row.state}
    /\ <<row.state, to>> \in JobTransition
    /\ JobActorMay(human, row.state, to)
    /\ to = "assigned" => args.worker # NoWorker /\ args.lease

\* Mutant: the requeue forgets to clear assigned_worker.
HolderAfterKept(row, to, args) ==
    IF to = "assigned" THEN args.worker ELSE row.worker

\* assigned_worker: set by a claim, cleared by lease expiry, kept otherwise.
HolderAfter(row, to, args) ==
    CASE to = "assigned"                       -> args.worker
      [] <<row.state, to>> \in LeaseExpiry    -> NoWorker
      [] OTHER                                 -> row.worker

\* Mutant: only the requeue clears the lease.
LeaseAfterKept(row, to, args) ==
    CASE to = "assigned"                     -> "live"
      [] <<row.state, to>> \in LeaseExpiry  -> "none"
      [] OTHER                               -> row.lease

\* lease_expires_at: a claim sets it, running renews it when one is given,
\* and leaving the leased states clears it.
LeaseAfter(row, to, args) ==
    CASE to = "assigned" \/ (to = "running" /\ args.lease)  -> "live"
      [] to # "running" /\ row.state \in Leased             -> "none"
      [] OTHER                                              -> row.lease

\* Mutant: a requeued job starts counting again.
AttemptAfterReset(row, to) ==
    IF <<row.state, to>> \in LeaseExpiry THEN 0 ELSE row.attempt

\* Mutant: a job that fails under a lease has spent its attempt, too.
AttemptAfterFailure(row, to) ==
    IF row.state \in Leased /\ to \in {"queued", "failed"}
    THEN row.attempt + 1 ELSE row.attempt

\* Mutant: the attempt of a job that lost its worker is repeated.
AttemptAfterKept(row, to) == row.attempt

\* attempt counts the lease expiries.
AttemptAfter(row, to) ==
    IF <<row.state, to>> \in LeaseExpiry THEN row.attempt + 1 ELSE row.attempt

\* The row after transition()'s UPDATE.
Moved(row, to, args) ==
    [state   |-> to,
     worker  |-> HolderAfter(row, to, args),
     lease   |-> LeaseAfter(row, to, args),
     attempt |-> AttemptAfter(row, to),
     max     |-> row.max,
     run     |-> IF args.run = NoRun THEN row.run ELSE args.run,
     verdict |-> IF args.verdict = NoVerdict THEN row.verdict ELSE args.verdict]

\* Mutant: heartbeat without "state IN ('assigned', 'running')".
RenewedWhateverState(row, w) ==
    IF row.worker = w THEN [row EXCEPT !.lease = "live"] ELSE row

\* heartbeat's UPDATE on one row: a fresh lease if the worker holds the job.
Renewed(row, w) ==
    IF row.worker = w /\ row.state \in Leased
    THEN [row EXCEPT !.lease = "live"] ELSE row
=============================================================================
