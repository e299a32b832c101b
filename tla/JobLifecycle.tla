---------------------------- MODULE JobLifecycle ----------------------------
(***************************************************************************)
(* What the substrate promises about the job table, whoever calls it: the  *)
(* abstract specification that Substrate and Leases implement.  It speaks  *)
(* of rows and of how one committed row may follow another, never of       *)
(* transactions, arguments or callers.                                     *)
(***************************************************************************)
EXTENDS JobMachine

CONSTANT Job    \* job ids

VARIABLE job    \* the job table: a function from the ids created so far

IsHeld(j) == job[j].state \in Leased
-----------------------------------------------------------------------------
Init == job = [j \in {} |-> NoArgs]

\* A row replaces that of j: max_attempts stays, run_ref and verdict_id are
\* never erased.
Becomes(j, s) ==
    /\ s \in JobRow
    /\ s.max = job[j].max
    /\ s.run \in RunRef \cup {job[j].run}
    /\ s.verdict \in Verdict \cup {job[j].verdict}
    /\ job' = [job EXCEPT ![j] = s]

\* Created with any attempt and max_attempts from 1 up.
Create(j) ==
    LET s == job'[j] IN
    /\ j \in Job \ DOMAIN job /\ j \in DOMAIN job'
    /\ s \in JobRow
    /\ job' = Inserted(job, j, NewJob(s.attempt, s.max))

Claim(j) ==
    LET r == job[j]  s == job'[j] IN
    /\ r.state = "queued" /\ s.state = "assigned"
    /\ s.worker \in Worker /\ s.lease = "live" /\ s.attempt = r.attempt
    /\ Becomes(j, s)

Start(j) ==
    LET r == job[j]  s == job'[j] IN
    /\ r.state = "assigned" /\ s.state = "running"
    /\ s.worker = r.worker /\ s.lease \in {r.lease, "live"}
    /\ s.attempt = r.attempt
    /\ Becomes(j, s)

\* The lease ran out: back to the queue, one attempt spent.
Requeue(j) ==
    LET r == job[j]  s == job'[j] IN
    /\ IsHeld(j) /\ s.state = "queued"
    /\ s.worker = NoWorker /\ s.lease = "none" /\ s.attempt = r.attempt + 1
    /\ Becomes(j, s)

\* Any other legal move: nobody holds the job afterwards, and the last
\* holder stays on record.
Settle(j) ==
    LET r == job[j]  s == job'[j] IN
    /\ <<r.state, s.state>> \in JobTransition \ LeaseExpiry
    /\ s.state \notin Leased
    /\ s.worker = r.worker /\ s.lease = "none" /\ s.attempt = r.attempt
    /\ Becomes(j, s)

\* A heartbeat renews every lease of one worker.
Renew(w) == job' = [j \in DOMAIN job |-> Renewed(job[j], w)]

\* Nobody renewed the lease in time.
Lapse(j) ==
    /\ job[j].lease = "live"
    /\ job' = [job EXCEPT ![j].lease = "expired"]

Next ==
    \/ \E j \in Job : Create(j)
    \/ \E j \in DOMAIN job :
          Claim(j) \/ Start(j) \/ Requeue(j) \/ Settle(j) \/ Lapse(j)
    \/ \E w \in Worker : Renew(w)

Spec == Init /\ [][Next]_job
-----------------------------------------------------------------------------
TypeOK ==
    /\ DOMAIN job \subseteq Job
    /\ job \in [DOMAIN job -> JobRow]

(***************************************************************************)
(* A job is leased exactly while a worker holds it: lease_expires_at is    *)
(* NULL unless assigned/running, and a held job names its holder.          *)
(***************************************************************************)
LeaseIffHeld == \A j \in DOMAIN job : WellLeased(job[j])

(***************************************************************************)
(* No step, of any actor, changes the row of a job that is over, nor makes *)
(* a job disappear.                                                        *)
(***************************************************************************)
TerminalIsFinal ==
    [][\A j \in DOMAIN job :
          /\ j \in DOMAIN job'
          /\ job[j].state \in TerminalJobState => job'[j] = job[j]]_job
=============================================================================
