------------------------- MODULE JobLifecycleProofs -------------------------
(***************************************************************************)
(* Theorems about JobLifecycle, for any sets of jobs, workers and runs.    *)
(***************************************************************************)
EXTENDS JobLifecycle, JobMachineProofs

\* The moves of one job change no other row and write a row.
OneRow == \E j \in DOMAIN job :
    Claim(j) \/ Start(j) \/ Requeue(j) \/ Settle(j) \/ Lapse(j)

(***************************************************************************)
(* A move of one job writes a well-formed row for it; a job that is over   *)
(* is not moved.                                                           *)
(***************************************************************************)
LEMMA OneRowStep ==
    ASSUME TypeOK, LeaseIffHeld, OneRow
    PROVE  \E j \in DOMAIN job :
              /\ job[j].state \notin TerminalJobState
              /\ job' = [job EXCEPT ![j] = job'[j]]
              /\ job'[j] \in JobRow
              /\ WellLeased(job'[j])
<1>1. PICK j \in DOMAIN job :
         Claim(j) \/ Start(j) \/ Requeue(j) \/ Settle(j) \/ Lapse(j)
  BY DEF OneRow
<1>2. job[j] \in JobRow /\ WellLeased(job[j])
  BY DEF TypeOK, LeaseIffHeld
<1> WITNESS j \in DOMAIN job
<1>3. CASE Claim(j)
  BY <1>2, <1>3, NullsAssumption
     DEF TypeOK, Claim, Becomes, JobRow, JobState, PreRunning, WellLeased,
         Leased, TerminalJobState
<1>4. CASE Start(j)
  BY <1>2, <1>4
     DEF TypeOK, Start, Becomes, JobRow, JobState, PreRunning, WellLeased,
         Leased, TerminalJobState
<1>5. CASE Requeue(j)
  BY <1>2, <1>5
     DEF TypeOK, Requeue, IsHeld, Becomes, JobRow, JobState, PreRunning,
         WellLeased, Leased, TerminalJobState
<1>6. CASE Settle(j)
  <2>1. <<job[j].state, job'[j].state>> \in JobTransition
    BY <1>6 DEF Settle
  <2>2. job'[j].state \in JobState /\ job[j].state \notin TerminalJobState
    BY <2>1 DEF JobTransition, LeaseExpiry, Leased, PreRunning, JobState,
                TerminalJobState
  <2> QED
    BY <1>2, <1>6, <2>2 DEF TypeOK, Settle, Becomes, JobRow, WellLeased
<1>7. CASE Lapse(j)
  <2>1. job' = [job EXCEPT ![j].lease = "expired"] /\ job[j].lease = "live"
    BY <1>7 DEF Lapse
  <2>2. job'[j] = [job[j] EXCEPT !.lease = "expired"]
    BY <2>1 DEF TypeOK
  <2>3. job' = [job EXCEPT ![j] = job'[j]] /\ job'[j] \in JobRow
    BY <1>2, <2>1, <2>2 DEF TypeOK, JobRow
  <2> QED
    BY <1>2, <2>1, <2>2, <2>3
       DEF WellLeased, JobRow, Leased, TerminalJobState
<1> QED BY <1>1, <1>3, <1>4, <1>5, <1>6, <1>7
-----------------------------------------------------------------------------
IInv == TypeOK /\ LeaseIffHeld

(***************************************************************************)
(* Every step keeps the table well-formed and its leases in step.          *)
(***************************************************************************)
LEMMA IInvStep == IInv /\ [Next]_job => IInv'
<1> SUFFICES ASSUME IInv, [Next]_job PROVE IInv'
  OBVIOUS
<1> USE DEF IInv
<1>1. ASSUME NEW j \in Job, Create(j) PROVE IInv'
  <2> DEFINE a == job'[j].attempt
             m == job'[j].max
  <2>1. job' = Inserted(job, j, NewJob(a, m)) /\ job'[j] \in JobRow
    BY <1>1 DEF Create
  <2>2. NewJob(a, m) \in JobRow /\ WellLeased(NewJob(a, m))
    BY <2>1, NewJobIsRow DEF JobRow
  <2> HIDE DEF a, m
  <2>3. DOMAIN job' = DOMAIN job \cup {j}
    BY <2>1 DEF Inserted
  <2> QED
    BY <1>1, <2>1, <2>2, <2>3 DEF Inserted, TypeOK, LeaseIffHeld
<1>2. CASE OneRow
  <2>1. PICK j \in DOMAIN job :
              /\ job' = [job EXCEPT ![j] = job'[j]]
              /\ job'[j] \in JobRow
              /\ WellLeased(job'[j])
    BY <1>2, OneRowStep
  <2>2. TypeOK'
    BY <2>1 DEF TypeOK
  <2>3. \A i \in DOMAIN job : i # j => job'[i] = job[i]
    BY <2>1 DEF TypeOK
  <2> QED
    BY <2>1, <2>2, <2>3 DEF LeaseIffHeld, TypeOK
<1>3. ASSUME NEW w \in Worker, Renew(w) PROVE IInv'
  <2>1. DOMAIN job' = DOMAIN job /\ \A j \in DOMAIN job : job'[j] = Renewed(job[j], w)
    BY <1>3 DEF Renew
  <2>2. \A j \in DOMAIN job :
           job'[j] \in JobRow /\ (WellLeased(job[j]) => WellLeased(job'[j]))
    BY <2>1, RenewedIsRow DEF TypeOK
  <2> QED
    BY <1>3, <2>1, <2>2 DEF Renew, TypeOK, LeaseIffHeld
<1>4. CASE UNCHANGED job
  BY <1>4 DEF TypeOK, LeaseIffHeld, WellLeased
<1> QED BY <1>1, <1>2, <1>3, <1>4 DEF Next, OneRow

(***************************************************************************)
(* The job table is well typed in every reachable state.                   *)
(***************************************************************************)
THEOREM TypeCorrect == Spec => []TypeOK
<1>1. Init => IInv
  BY DEF Init, IInv, TypeOK, LeaseIffHeld
<1> QED BY <1>1, IInvStep, PTL DEF Spec, IInv

(***************************************************************************)
(* lease_expires_at is NULL unless assigned/running, for every behaviour   *)
(* of the lifecycle.                                                       *)
(***************************************************************************)
THEOREM LeaseDiscipline == Spec => []LeaseIffHeld
<1>1. Init => IInv
  BY DEF Init, IInv, TypeOK, LeaseIffHeld
<1> QED BY <1>1, IInvStep, PTL DEF Spec, IInv

(***************************************************************************)
(* A job that is over stays as it is, and no job disappears.               *)
(***************************************************************************)
THEOREM TerminalStays == Spec => TerminalIsFinal
<1> DEFINE Stays == \A j \in DOMAIN job :
              /\ j \in DOMAIN job'
              /\ job[j].state \in TerminalJobState => job'[j] = job[j]
<1>1. IInv /\ [Next]_job => [Stays]_job
  <2> SUFFICES ASSUME IInv, Next PROVE Stays
    OBVIOUS
  <2> USE DEF IInv
  <2>1. ASSUME NEW j \in Job, Create(j) PROVE Stays
    BY <2>1 DEF Create, Inserted
  <2>2. CASE OneRow
    BY <2>2, OneRowStep DEF TypeOK
  <2>3. ASSUME NEW w \in Worker, Renew(w) PROVE Stays
    <3>1. \A j \in DOMAIN job : job[j].state \in TerminalJobState
                                  => job[j].state \notin Leased
      BY DEF TerminalJobState, Leased
    <3> QED
      BY <2>3, <3>1, RenewedIsRow DEF Renew, TypeOK
  <2> QED BY <2>1, <2>2, <2>3 DEF Next, OneRow
<1>2. Init => IInv
  BY DEF Init, IInv, TypeOK, LeaseIffHeld
<1> QED BY <1>1, <1>2, IInvStep, PTL DEF Spec, TerminalIsFinal
=============================================================================
