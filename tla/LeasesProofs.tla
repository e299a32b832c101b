---------------------------- MODULE LeasesProofs ----------------------------
(***************************************************************************)
(* Theorems about Leases, for any number of workers and jobs, any capacity *)
(* and any number of attempts and restarts.                                *)
(***************************************************************************)
EXTENDS Leases, JobMachineProofs, FiniteSetTheorems

(***************************************************************************)
(* A committed transition() writes one well-formed row and no other.       *)
(***************************************************************************)
LEMMA MoveEffect ==
    ASSUME job \in [DOMAIN job -> JobRow], LeaseIffHeld,
           NEW j \in DOMAIN job, NEW to, NEW human, NEW expected,
           NEW args \in MoveArgs, Move(j, to, human, expected, args)
    PROVE  /\ DOMAIN job' = DOMAIN job
           /\ job' \in [DOMAIN job -> JobRow]
           /\ \A i \in DOMAIN job : i # j => job'[i] = job[i]
           /\ job'[j] = Moved(job[j], to, args)
           /\ <<job[j].state, to>> \in JobTransition
           /\ LeaseIffHeld'
<1>1. job' = [job EXCEPT ![j] = Moved(job[j], to, args)]
  BY DEF Move
<1>2. /\ job[j] \in JobRow /\ WellLeased(job[j])
      /\ CanMove(job[j], to, human, expected, args)
  BY DEF Move, LeaseIffHeld
<1>3. Moved(job[j], to, args) \in JobRow /\ WellLeased(Moved(job[j], to, args))
  BY <1>2, MovedIsRow
<1>4. <<job[j].state, to>> \in JobTransition
  BY <1>2 DEF CanMove
<1> HIDE DEF Moved
<1> QED BY <1>1, <1>3, <1>4 DEF LeaseIffHeld

(***************************************************************************)
(* The argument records the callers pass are arguments of transition().    *)
(***************************************************************************)
LEMMA NoArgsIsArgs == NoArgs \in MoveArgs
BY DEF NoArgs, MoveArgs

\* So are those of a claim, a start and a finish.
LEMMA ArgsAreArgs ==
    ASSUME NEW w \in Worker
    PROVE  /\ NoArgs \in MoveArgs
           /\ ClaimArgs(w) \in MoveArgs
           /\ [NoArgs EXCEPT !.lease = TRUE] \in MoveArgs
           /\ \A run \in {NoRun, w} : [NoArgs EXCEPT !.run = run] \in MoveArgs
BY LeasesAssumption DEF NoArgs, ClaimArgs, MoveArgs
-----------------------------------------------------------------------------
(***************************************************************************)
(* What a step does to the job table: a claim, another transition, a new   *)
(* job, a renewal, a lapse, or nothing.                                    *)
(***************************************************************************)
\* Where the steps of this module take a job, other than by a claim.
Destination ==
    {"approved", "queued", "running", "succeeded", "failed", "cancelled"}

Moves(j) ==
    \E to \in Destination, human \in BOOLEAN,
       expected \in JobState, args \in MoveArgs :
          Move(j, to, human, expected, args)

TableStep ==
    \/ \E j \in Job : j \notin DOMAIN job /\ job' = Inserted(job, j, NewJob(1, MaxAttempts))
    \/ \E w \in Worker, j \in DOMAIN job : Claim(w, j)
    \/ \E j \in DOMAIN job : Moves(j)
    \/ \E j \in DOMAIN job : job[j].lease = "live"
                             /\ job' = [job EXCEPT ![j].lease = "expired"]
    \/ \E w \in Worker : job' = [j \in DOMAIN job |-> Renewed(job[j], w)]
    \/ UNCHANGED job

TableOK ==
    /\ DOMAIN job \subseteq Job
    /\ job \in [DOMAIN job -> JobRow]
    /\ LeaseIffHeld

(***************************************************************************)
(* Every step of the specification is one of these.                        *)
(***************************************************************************)
LEMMA StepIsTableStep ==
    ASSUME TypeOK, [Next]_vars PROVE TableStep
<1>1. ASSUME NEW j \in DOMAIN job, Approve(j) \/ Enqueue(j) PROVE Moves(j)
  BY <1>1, ArgsAreArgs
     DEF Approve, Enqueue, Moves, Destination, JobState, PreRunning, NoArgs, MoveArgs
<1>2. ASSUME NEW j \in DOMAIN job, Abort(j) PROVE Moves(j)
  BY <1>2 DEF Abort, Moves, Destination, JobState, TerminalJobState, NoArgs, MoveArgs,
              TypeOK, JobRow
<1>3. ASSUME NEW w \in Worker, Reap(w) PROVE TableStep
  <2>1. PICK r \in snap[w] :
           \/ Move(r.job, IF r.exhausted THEN "failed" ELSE "queued",
                   FALSE, r.state, NoArgs)
           \/ UNCHANGED job
    BY <1>3 DEF Reap
  <2>2. r.job \in DOMAIN job /\ r.state \in JobState
    BY DEF TypeOK, ReapRow, Leased, JobState, PreRunning
  <2>3. (IF r.exhausted THEN "failed" ELSE "queued") \in Destination
    BY DEF Destination
  <2> QED
    BY <2>1, <2>2, <2>3, ArgsAreArgs DEF TableStep, Moves
<1>4. ASSUME NEW w \in Worker, Start(w) PROVE Moves(task[w])
  BY <1>4, ArgsAreArgs DEF Start, Moves, Destination, JobState, PreRunning
<1>5. ASSUME NEW w \in Worker, Finish(w) PROVE Moves(task[w])
  <2>1. PICK to \in {"succeeded", "failed"}, run \in {NoRun, w} :
          Move(task[w], to, FALSE, "running", [NoArgs EXCEPT !.run = run])
    BY <1>5 DEF Finish
  <2>2. to \in Destination /\ "running" \in JobState
    BY DEF Destination, JobState
  <2> QED BY <2>1, <2>2, ArgsAreArgs DEF Moves
<1>6. ASSUME NEW w \in Worker, Recover(w) PROVE Moves(task[w])
  BY <1>6, ArgsAreArgs DEF Recover, Moves, Destination, JobState
<1>7. ASSUME NEW w \in Worker, NEW j \in Job, Claim(w, j) PROVE j \in DOMAIN job
  BY <1>7 DEF Claim, TypeOK
<1>8. ASSUME NEW w \in Worker, Start(w) \/ Finish(w) \/ Recover(w)
      PROVE  task[w] \in DOMAIN job
  BY <1>8 DEF Start, Finish, Recover, Working, TypeOK
<1>9. CASE World
  BY <1>1, <1>2, <1>9
     DEF World, Submit, Lapse, Crash, Register, TableStep
<1>10. ASSUME NEW w \in Worker, WorkerStep(w) PROVE TableStep
  BY <1>3, <1>4, <1>5, <1>6, <1>7, <1>8, <1>10
     DEF WorkerStep, ReapSelect, ReapDone, Heartbeat, ClaimSelect, ClaimLost,
         StartRaises, HandlerRaises, RecoverRaises, TableStep
<1>11. CASE UNCHANGED vars
  BY <1>11 DEF vars, TableStep
<1> QED BY <1>9, <1>10, <1>11 DEF Next

(***************************************************************************)
(* No step shrinks the table or breaks a row.                              *)
(***************************************************************************)
LEMMA TableStepKeepsTable ==
    ASSUME TableOK, TableStep
    PROVE  TableOK' /\ DOMAIN job \subseteq DOMAIN job'
<1> USE DEF TableOK
<1>1. ASSUME NEW j \in Job, j \notin DOMAIN job,
             job' = Inserted(job, j, NewJob(1, MaxAttempts))
      PROVE  TableOK' /\ DOMAIN job \subseteq DOMAIN job'
  <2>1. NewJob(1, MaxAttempts) \in JobRow /\ WellLeased(NewJob(1, MaxAttempts))
    BY NewJobIsRow, LeasesAssumption
  <2> QED BY <1>1, <2>1 DEF Inserted, LeaseIffHeld
<1>2. ASSUME NEW j \in DOMAIN job, Moves(j)
      PROVE  TableOK' /\ DOMAIN job \subseteq DOMAIN job'
  BY <1>2, MoveEffect DEF Moves
<1>3. ASSUME NEW j \in DOMAIN job, job[j].lease = "live",
             job' = [job EXCEPT ![j].lease = "expired"]
      PROVE  TableOK' /\ DOMAIN job \subseteq DOMAIN job'
  <2>1. job' = [job EXCEPT ![j] = [job[j] EXCEPT !.lease = "expired"]]
    BY <1>3
  <2>2. job[j] \in JobRow /\ WellLeased(job[j])
    BY DEF LeaseIffHeld
  <2>3. /\ [job[j] EXCEPT !.lease = "expired"] \in JobRow
        /\ WellLeased([job[j] EXCEPT !.lease = "expired"])
    BY <1>3, <2>2 DEF JobRow, WellLeased
  <2> QED BY <2>1, <2>3 DEF LeaseIffHeld
<1>4. ASSUME NEW w \in Worker, job' = [j \in DOMAIN job |-> Renewed(job[j], w)]
      PROVE  TableOK' /\ DOMAIN job \subseteq DOMAIN job'
  <2>1. \A j \in DOMAIN job :
           Renewed(job[j], w) \in JobRow /\ WellLeased(Renewed(job[j], w))
    BY RenewedIsRow DEF LeaseIffHeld
  <2> QED BY <1>4, <2>1 DEF LeaseIffHeld
<1>5. CASE UNCHANGED job
  BY <1>5 DEF LeaseIffHeld, WellLeased
<1>6. ASSUME NEW w \in Worker, NEW j \in DOMAIN job, Claim(w, j)
      PROVE  TableOK' /\ DOMAIN job \subseteq DOMAIN job'
  BY <1>6, MoveEffect, ArgsAreArgs DEF Claim
<1> QED BY <1>1, <1>2, <1>3, <1>4, <1>5, <1>6 DEF TableStep

(***************************************************************************)
(* What the processes remember stays well typed, too.                      *)
(***************************************************************************)
LEMMA MemoryStep ==
    ASSUME TypeOK, [Next]_vars, DOMAIN job \subseteq DOMAIN job', TableOK'
    PROVE  TypeOK'
<1> USE DEF TypeOK, TableOK
<1>1. CASE World
  <2>1. ASSUME NEW w \in Worker, Crash(w) PROVE TypeOK'
    BY <2>1 DEF Crash, Drop, Goto, Polling, Working, Gone
  <2>2. ASSUME NEW w \in Worker, Register(w) PROVE TypeOK'
    BY <2>2, LeasesAssumption DEF Register, Goto, Polling, Working, Gone
  <2>3. CASE UNCHANGED <<pc, task, snap, runnable, starts>>
    BY <2>3
  <2> QED
    BY <1>1, <2>1, <2>2, <2>3
       DEF World, Submit, Approve, Enqueue, Abort, Lapse
<1>2. ASSUME NEW w \in Worker, WorkerStep(w) PROVE TypeOK'
  <2>1. CASE ReapSelect(w)
    <3>1. snap' = [snap EXCEPT ![w] = {Seen(j) : j \in ExpiredLeases}]
      BY <2>1 DEF ReapSelect
    <3>2. \A j \in ExpiredLeases : Seen(j) \in ReapRow /\ Seen(j).job \in DOMAIN job
      <4> TAKE j \in ExpiredLeases
      <4>1. j \in DOMAIN job /\ job[j].state \in Leased
        BY DEF ExpiredLeases, IsHeld
      <4>2. (job[j].attempt >= job[j].max) \in BOOLEAN
        OBVIOUS
      <4> QED BY <4>1, <4>2 DEF Seen, ReapRow
    <3>3. snap' \in [Worker -> SUBSET ReapRow]
      BY <3>1, <3>2
    <3> QED
      BY <2>1, <3>1, <3>2, <3>3 DEF ReapSelect, Goto, Polling, Working, Gone
  <2>2. CASE Reap(w)
    BY <2>2 DEF Reap
  <2>3. CASE ReapDone(w) \/ Heartbeat(w) \/ ClaimSelect(w)
    BY <2>3 DEF ReapDone, Heartbeat, ClaimSelect, Goto, Polling, Working, Gone
  <2>4. ASSUME NEW j \in Job, Claim(w, j) \/ ClaimLost(w, j) PROVE TypeOK'
    BY <2>4 DEF Claim, ClaimLost, Goto, Polling, Working, Gone
  <2>5. CASE Start(w) \/ HandlerRaises(w)
    BY <2>5 DEF Start, HandlerRaises, Goto, Polling, Working, Gone
  <2>6. CASE Finish(w) \/ Recover(w) \/ StartRaises(w) \/ RecoverRaises(w)
    BY <2>6 DEF Finish, Recover, StartRaises, RecoverRaises, Drop, Goto,
                Polling, Working, Gone
  <2> QED
    BY <1>2, <2>1, <2>2, <2>3, <2>4, <2>5, <2>6 DEF WorkerStep
<1>3. CASE UNCHANGED vars
  BY <1>3 DEF vars
<1> QED BY <1>1, <1>2, <1>3 DEF Next
-----------------------------------------------------------------------------
TypeInv == TypeOK /\ LeaseIffHeld

\* No job, no process: nothing to be ill-typed or held.
LEMMA TypeInit == Init => TypeInv
BY LeasesAssumption
   DEF Init, TypeInv, TypeOK, LeaseIffHeld, Polling, Working, Gone

\* Each step keeps the types and the lease columns.
LEMMA TypeStep == TypeInv /\ [Next]_vars => TypeInv'
<1> SUFFICES ASSUME TypeInv, [Next]_vars PROVE TypeInv'
  OBVIOUS
<1>1. TypeOK /\ TableOK
  BY DEF TypeInv, TypeOK, TableOK
<1>2. TableOK' /\ DOMAIN job \subseteq DOMAIN job'
  BY <1>1, StepIsTableStep, TableStepKeepsTable
<1>3. TypeOK'
  BY <1>1, <1>2, MemoryStep
<1> QED BY <1>2, <1>3 DEF TypeInv, TableOK

(***************************************************************************)
(* Type correctness, whatever the number of workers and jobs.              *)
(***************************************************************************)
THEOREM TypeCorrect == Spec => []TypeOK
<1> QED BY TypeInit, TypeStep, PTL DEF Spec, TypeInv

(***************************************************************************)
(* A job has a lease exactly while it is assigned or running, and then it  *)
(* names its holder, however workers, reapers and heartbeats interleave.   *)
(***************************************************************************)
THEOREM LeaseDiscipline == Spec => []LeaseIffHeld
<1> QED BY TypeInit, TypeStep, PTL DEF Spec, TypeInv
-----------------------------------------------------------------------------
(***************************************************************************)
(* Only a worker's own claim adds to what it holds, and a job that leaves  *)
(* the leased states is held by nobody.                                    *)
(***************************************************************************)
LEMMA HeldByMove ==
    ASSUME TableOK, NEW j \in DOMAIN job, NEW to, NEW human, NEW expected,
           NEW args \in MoveArgs, Move(j, to, human, expected, args),
           NEW w \in Worker
    PROVE  /\ HeldBy(w)' \subseteq HeldBy(w) \cup {j}
           /\ to # "assigned" => HeldBy(w)' \subseteq HeldBy(w)
           /\ to = "assigned" /\ args.worker # w => HeldBy(w)' \subseteq HeldBy(w)
           /\ to \notin Leased => j \notin HeldBy(w)'
<1>1. /\ DOMAIN job' = DOMAIN job
      /\ \A i \in DOMAIN job : i # j => job'[i] = job[i]
      /\ job'[j] = Moved(job[j], to, args)
      /\ <<job[j].state, to>> \in JobTransition
  BY MoveEffect DEF TableOK
<1>2. job'[j].state = to
  BY <1>1 DEF Moved
<1>3. to = "running" => job[j].state = "assigned"
  BY <1>1 DEF JobTransition, LeaseExpiry, PreRunning, Leased
<1>4. job'[j].worker = HolderAfter(job[j], to, args)
  BY <1>1 DEF Moved
<1>5. to # "assigned" => job'[j].worker \in {job[j].worker, NoWorker}
  BY <1>4 DEF HolderAfter
<1>6. to = "assigned" => job'[j].worker = args.worker
  BY <1>4 DEF HolderAfter, LeaseExpiry
<1> QED
  BY <1>1, <1>2, <1>3, <1>5, <1>6, NullsAssumption DEF HeldBy, IsHeld, Leased

\* Without a claim of its own, what a worker holds only shrinks.
LEMMA HeldByStep ==
    ASSUME TableOK, TableStep, NEW w \in Worker,
           ~ \E j \in DOMAIN job : Claim(w, j)
    PROVE  HeldBy(w)' \subseteq HeldBy(w)
<1> USE DEF TableOK
<1>1. ASSUME NEW j \in Job, j \notin DOMAIN job,
             job' = Inserted(job, j, NewJob(1, MaxAttempts))
      PROVE  HeldBy(w)' \subseteq HeldBy(w)
  BY <1>1 DEF Inserted, HeldBy, IsHeld, NewJob, Leased
<1>2. ASSUME NEW j \in DOMAIN job, Moves(j) PROVE HeldBy(w)' \subseteq HeldBy(w)
  BY <1>2, HeldByMove DEF Moves, Destination
<1>3. ASSUME NEW v \in Worker, NEW j \in DOMAIN job, Claim(v, j)
      PROVE  HeldBy(w)' \subseteq HeldBy(w)
  <2>1. v # w
    BY <1>3
  <2>2. ClaimArgs(v) \in MoveArgs /\ ClaimArgs(v).worker = v
    BY ArgsAreArgs DEF ClaimArgs, NoArgs
  <2>3. Move(j, "assigned", FALSE, "queued", ClaimArgs(v))
    BY <1>3 DEF Claim
  <2> QED BY <2>1, <2>2, <2>3, HeldByMove
<1>4. ASSUME NEW j \in DOMAIN job, job' = [job EXCEPT ![j].lease = "expired"]
      PROVE  HeldBy(w)' \subseteq HeldBy(w)
  BY <1>4 DEF HeldBy, IsHeld, JobRow
<1>5. ASSUME NEW v \in Worker, job' = [j \in DOMAIN job |-> Renewed(job[j], v)]
      PROVE  HeldBy(w)' \subseteq HeldBy(w)
  BY <1>5, RenewedIsRow DEF HeldBy, IsHeld
<1>6. CASE UNCHANGED job
  BY <1>6 DEF HeldBy, IsHeld
<1> QED BY <1>1, <1>2, <1>3, <1>4, <1>5, <1>6 DEF TableStep
-----------------------------------------------------------------------------
(***************************************************************************)
(* IdleHoldsNothing is not inductive: it says nothing of a worker that is  *)
(* on its way out of a job.  The strengthening follows a process that was  *)
(* started once through all of its life: what it holds, if anything, is    *)
(* the one job it has in hand, or it is gone.                              *)
(***************************************************************************)
HoldsAtMost(w) ==
    /\ starts[w] = 0 => pc[w] \in Gone /\ HeldBy(w) = {}
    /\ starts[w] = 1 => \/ HeldBy(w) = {}
                        \/ pc[w] \in Gone
                        \/ pc[w] \in Working /\ HeldBy(w) \subseteq {task[w]}

HoldersAtWork == \A w \in Worker : HoldsAtMost(w)

\* The steps of worker w itself, as opposed to those of the others.
OwnStep(w) == Crash(w) \/ Register(w) \/ WorkerStep(w)

\* A worker's program counter, memory and claims are its own.
LEMMA OthersStep ==
    ASSUME TypeOK, [Next]_vars, NEW w \in Worker, ~OwnStep(w)
    PROVE  /\ pc'[w] = pc[w] /\ task'[w] = task[w] /\ starts'[w] = starts[w]
           /\ snap'[w] = snap[w] /\ runnable'[w] = runnable[w]
           /\ ~ \E j \in DOMAIN job : Claim(w, j)
<1>1. ~ \E j \in DOMAIN job : Claim(w, j)
  BY DEF OwnStep, WorkerStep, TypeOK
<1>2. ASSUME NEW v \in Worker, v # w, OwnStep(v)
      PROVE  /\ pc'[w] = pc[w] /\ task'[w] = task[w] /\ starts'[w] = starts[w]
             /\ snap'[w] = snap[w] /\ runnable'[w] = runnable[w]
  BY <1>2 DEF OwnStep, WorkerStep, TypeOK, Goto, Drop, Crash, Register,
              ReapSelect, Reap, ReapDone, Heartbeat, ClaimSelect, Claim,
              ClaimLost, Start, StartRaises, Finish, HandlerRaises, Recover,
              RecoverRaises
<1>3. CASE UNCHANGED <<pc, task, snap, runnable, starts>>
  BY <1>1, <1>3
<1> QED
  BY <1>1, <1>2, <1>3
     DEF Next, World, OwnStep, Submit, Approve, Enqueue, Abort, Lapse, vars

\* Each exit of a worker from its job leaves it holding nothing.
LEMMA HoldersStep ==
    ASSUME TypeInv, HoldersAtWork, [Next]_vars
    PROVE  HoldersAtWork'
<1> SUFFICES ASSUME NEW w \in Worker PROVE HoldsAtMost(w)'
  BY DEF HoldersAtWork
<1>1. TypeOK /\ TableOK /\ HoldsAtMost(w)
  BY DEF TypeInv, TypeOK, TableOK, HoldersAtWork
<1>2. TableStep
  BY <1>1, StepIsTableStep
<1>3. CASE ~OwnStep(w)
  <2>1. /\ pc'[w] = pc[w] /\ task'[w] = task[w] /\ starts'[w] = starts[w]
        /\ ~ \E j \in DOMAIN job : Claim(w, j)
    BY <1>1, <1>3, OthersStep
  <2>2. HeldBy(w)' \subseteq HeldBy(w)
    BY <1>1, <1>2, <2>1, HeldByStep
  <2> QED BY <1>1, <2>1, <2>2 DEF HoldsAtMost
<1>4. CASE OwnStep(w)
  <2>1. ASSUME NEW j \in Job, Claim(w, j) PROVE HoldsAtMost(w)'
    <3>1. /\ Move(j, "assigned", FALSE, "queued", ClaimArgs(w))
          /\ pc[w] = "claim" /\ j \in DOMAIN job
      BY <1>1, <2>1 DEF Claim, TypeOK
    <3>2. HeldBy(w)' \subseteq HeldBy(w) \cup {j}
      BY <1>1, <3>1, ArgsAreArgs, HeldByMove
    <3>3. starts[w] # 0 /\ (starts[w] = 1 => HeldBy(w) = {})
      BY <1>1, <3>1 DEF HoldsAtMost, Gone, Working
    <3>4. pc'[w] \in Working /\ task'[w] = j /\ starts'[w] = starts[w]
      BY <1>1, <2>1 DEF Claim, Goto, TypeOK, Working
    <3> QED BY <3>2, <3>3, <3>4 DEF HoldsAtMost
  <2>2. ASSUME ~ \E j \in Job : Claim(w, j)
        PROVE  HeldBy(w)' \subseteq HeldBy(w)
    BY <1>1, <1>2, <2>2, HeldByStep DEF TypeOK
  <2>3. CASE Crash(w)
    BY <1>1, <2>2, <2>3 DEF HoldsAtMost, Crash, Drop, Goto, TypeOK, Gone, Claim
  <2>4. CASE Register(w)
    <3>1. starts'[w] = starts[w] + 1 /\ starts[w] \in Nat /\ UNCHANGED job
      BY <1>1, <2>4, LeasesAssumption DEF Register, TypeOK
    <3> QED BY <1>1, <3>1 DEF HoldsAtMost, HeldBy, IsHeld
  <2>5. ASSUME NEW to \in {"succeeded", "failed"}, NEW args \in MoveArgs,
               Move(task[w], to, FALSE, "running", args),
               pc[w] \in Working, starts' = starts
        PROVE  HoldsAtMost(w)'
    <3>1. task[w] \in DOMAIN job
      BY <1>1, <2>5 DEF TypeOK
    <3>2. HeldBy(w)' \subseteq HeldBy(w) /\ task[w] \notin HeldBy(w)'
      BY <1>1, <2>5, <3>1, HeldByMove DEF Leased
    <3> QED BY <1>1, <2>5, <3>2 DEF HoldsAtMost, Gone, Working
  <2>6. CASE Finish(w)
    BY <2>5, <2>6, ArgsAreArgs DEF Finish, Working
  <2>7. CASE Recover(w)
    BY <2>5, <2>7, ArgsAreArgs DEF Recover, Working
  <2>8. CASE Start(w) \/ HandlerRaises(w)
    <3>1. /\ pc[w] \in Working /\ pc'[w] \in Working
          /\ UNCHANGED <<task, starts>>
      BY <1>1, <2>8 DEF Start, HandlerRaises, Goto, TypeOK, Working
    <3>2. HeldBy(w)' \subseteq HeldBy(w)
      BY <2>2, <2>8 DEF Start, HandlerRaises, Claim
    <3> QED BY <1>1, <3>1, <3>2 DEF HoldsAtMost, Gone, Working
  <2>9. CASE StartRaises(w) \/ RecoverRaises(w)
    <3>1. /\ pc[w] \in Working /\ pc'[w] \in Gone /\ UNCHANGED <<job, starts>>
      BY <1>1, <2>9 DEF StartRaises, RecoverRaises, Drop, Goto, TypeOK, Working, Gone
    <3> QED BY <1>1, <3>1 DEF HoldsAtMost, HeldBy, IsHeld, Gone, Working
  <2>10. CASE \/ ReapSelect(w) \/ Reap(w) \/ ReapDone(w) \/ Heartbeat(w)
              \/ ClaimSelect(w) \/ \E j \in Job : ClaimLost(w, j)
    <3>1. pc[w] \in Polling /\ UNCHANGED starts
      BY <2>10 DEF ReapSelect, Reap, ReapDone, Heartbeat, ClaimSelect,
                   ClaimLost, Polling
    <3>2. ~ \E j \in Job : Claim(w, j)
      <4> SUFFICES ASSUME NEW j \in Job, Claim(w, j) PROVE FALSE
        OBVIOUS
      <4>1. pc[w] = "claim" /\ pc'[w] = "start"
        BY <1>1 DEF Claim, Goto, TypeOK
      <4> QED
        BY <1>1, <2>10, <4>1 DEF ReapSelect, Reap, ReapDone, Heartbeat,
           ClaimSelect, ClaimLost, Goto, TypeOK
    <3>3. HeldBy(w)' \subseteq HeldBy(w)
      BY <2>2, <3>2
    <3> QED
      BY <1>1, <3>1, <3>3 DEF HoldsAtMost, Gone, Working, Polling
  <2> QED
    BY <1>4, <2>1, <2>3, <2>4, <2>6, <2>7, <2>8, <2>9, <2>10
       DEF OwnStep, WorkerStep
<1> QED BY <1>3, <1>4

(***************************************************************************)
(* A process that was started once and is back in its polling loop holds   *)
(* no job, so its heartbeats renew no lease: the lease of a job is only    *)
(* ever as long as the claim and the start gave it.                        *)
(***************************************************************************)
THEOREM IdleIsFree == Spec => []IdleHoldsNothing
<1>1. Init => HoldersAtWork
  BY DEF Init, HoldersAtWork, HoldsAtMost, HeldBy, Gone
<1>2. TypeInv /\ HoldersAtWork /\ [Next]_vars => HoldersAtWork'
  BY HoldersStep
<1>3. HoldersAtWork => IdleHoldsNothing
  BY DEF HoldersAtWork, HoldsAtMost, IdleHoldsNothing, Polling, Working, Gone
<1> QED BY <1>1, <1>2, <1>3, TypeInit, TypeStep, PTL DEF Spec
-----------------------------------------------------------------------------
(***************************************************************************)
(* A row with an outcome is not moved: no pair of the transition table     *)
(* that this module's steps use leaves succeeded or failed.                *)
(***************************************************************************)
THEOREM OutcomeStays == Spec => OutcomeIsFinal
<1> DEFINE Stays == \A j \in DOMAIN job :
                job[j].state \in {"succeeded", "failed"} => job'[j] = job[j]
<1>1. TypeInv /\ [Next]_vars => [Stays]_vars
  <2> SUFFICES ASSUME TypeInv, Next PROVE Stays
    OBVIOUS
  <2>1. TypeOK /\ TableOK
    BY DEF TypeInv, TypeOK, TableOK
  <2>2. TableStep
    BY <2>1, StepIsTableStep
  <2> SUFFICES ASSUME NEW j \in DOMAIN job, job[j].state \in {"succeeded", "failed"}
               PROVE  job'[j] = job[j]
    OBVIOUS
  <2>3. job[j].lease = "none" /\ job[j].state \notin Leased
    BY <2>1 DEF TableOK, LeaseIffHeld, WellLeased, Leased
  <2>4. ASSUME NEW i \in DOMAIN job, Moves(i) PROVE job'[j] = job[j]
    <3>1. PICK to \in Destination, human \in BOOLEAN,
               expected \in JobState, args \in MoveArgs :
                  Move(i, to, human, expected, args)
      BY <2>4 DEF Moves
    <3>2. /\ i # j => job'[j] = job[j]
          /\ <<job[i].state, to>> \in JobTransition
      BY <2>1, <3>1, MoveEffect DEF TableOK
    <3>3. i # j
      BY <3>2 DEF JobTransition, LeaseExpiry, Leased, PreRunning, Destination
    <3> QED BY <3>2, <3>3
  <2>5. ASSUME NEW w \in Worker, NEW i \in DOMAIN job, Claim(w, i)
        PROVE  job'[j] = job[j]
    <3>1. job[i].state = "queued"
      BY <2>5 DEF Claim, Move, CanMove, JobTransition, LeaseExpiry, PreRunning,
                  Leased
    <3> QED BY <2>1, <2>5, <3>1, MoveEffect, ArgsAreArgs DEF Claim, TableOK
  <2>6. ASSUME NEW w \in Worker, job' = [i \in DOMAIN job |-> Renewed(job[i], w)]
        PROVE  job'[j] = job[j]
    BY <2>1, <2>3, <2>6, RenewedIsRow DEF TableOK
  <2>7. ASSUME NEW i \in DOMAIN job, job[i].lease = "live",
               job' = [job EXCEPT ![i].lease = "expired"]
        PROVE  job'[j] = job[j]
    BY <2>1, <2>3, <2>7 DEF TableOK
  <2> QED
    BY <2>2, <2>4, <2>5, <2>6, <2>7 DEF TableStep, Inserted
<1> QED BY <1>1, TypeInit, TypeStep, PTL DEF Spec, OutcomeIsFinal
-----------------------------------------------------------------------------
(***************************************************************************)
(* The refinement: every row movement is one of the lifecycle's.           *)
(***************************************************************************)
\* The instance brings its own copy of JobMachine; the copies agree.
LEMMA SameMachine ==
    /\ Lifecycle!Leased = Leased
    /\ Lifecycle!LeaseExpiry = LeaseExpiry
    /\ Lifecycle!JobTransition = JobTransition
    /\ Lifecycle!JobRow = JobRow
    /\ \A a, m : Lifecycle!NewJob(a, m) = NewJob(a, m)
    /\ \A row, w : Lifecycle!Renewed(row, w) = Renewed(row, w)
    /\ \A t, id, row : Lifecycle!Inserted(t, id, row) = Inserted(t, id, row)
<1>1. Lifecycle!Leased = Leased /\ Lifecycle!PreRunning = PreRunning
  BY DEF Lifecycle!Leased, Leased, Lifecycle!PreRunning, PreRunning
<1>2. /\ Lifecycle!LeaseExpiry = LeaseExpiry
      /\ Lifecycle!TerminalJobState = TerminalJobState
  BY <1>1 DEF Lifecycle!LeaseExpiry, LeaseExpiry, Lifecycle!TerminalJobState,
              TerminalJobState
<1>3. Lifecycle!JobState = JobState
  BY <1>1, <1>2 DEF Lifecycle!JobState, JobState
<1>4. Lifecycle!JobTransition = JobTransition
  BY <1>1, <1>2 DEF Lifecycle!JobTransition, JobTransition
<1>5. Lifecycle!JobRow = JobRow
  BY <1>3 DEF Lifecycle!JobRow, JobRow
<1>6. /\ \A a, m : Lifecycle!NewJob(a, m) = NewJob(a, m)
      /\ \A row, w : Lifecycle!Renewed(row, w) = Renewed(row, w)
      /\ \A t, id, row : Lifecycle!Inserted(t, id, row) = Inserted(t, id, row)
  BY <1>1 DEF Lifecycle!NewJob, NewJob, Lifecycle!Renewed, Renewed,
              Lifecycle!Inserted, Inserted
<1> QED BY <1>1, <1>2, <1>4, <1>5, <1>6

\* One committed transition() is one step of the lifecycle.
LEMMA MoveRefines ==
    ASSUME TableOK, NEW j \in DOMAIN job, NEW to, NEW human, NEW expected,
           NEW args \in MoveArgs, Move(j, to, human, expected, args)
    PROVE  Lifecycle!Next
<1> DEFINE r == job[j]
           s == job'[j]
<1>1. /\ r \in JobRow /\ WellLeased(r)
      /\ CanMove(r, to, human, expected, args)
      /\ job' = [job EXCEPT ![j] = Moved(r, to, args)]
      /\ s = Moved(r, to, args)
      /\ <<r.state, to>> \in JobTransition
  BY MoveEffect DEF Move, TableOK, LeaseIffHeld
<1>2. s \in JobRow /\ WellLeased(s)
  BY <1>1, MovedIsRow
<1>3. /\ s.state = to /\ s.max = r.max
      /\ s.run \in RunRef \cup {r.run}
      /\ s.verdict \in Verdict \cup {r.verdict}
  BY <1>1 DEF Moved, MoveArgs
<1>4. Lifecycle!Becomes(j, s)
  BY <1>1, <1>2, <1>3, SameMachine DEF Lifecycle!Becomes
<1>5. CASE to = "assigned"
  <2>1. r.state = "queued"
    BY <1>1, <1>5 DEF JobTransition, LeaseExpiry, PreRunning, Leased
  <2>2. s.worker \in Worker /\ s.lease = "live" /\ s.attempt = r.attempt
    BY <1>1, <1>5, <2>1
       DEF Moved, HolderAfter, LeaseAfter, AttemptAfter, CanMove,
           MoveArgs, LeaseExpiry, Leased
  <2>3. Lifecycle!Claim(j)
    BY <1>3, <1>4, <1>5, <2>1, <2>2 DEF Lifecycle!Claim
  <2> QED BY <2>3 DEF Lifecycle!Next
<1>6. CASE to = "running"
  <2>1. r.state = "assigned"
    BY <1>1, <1>6 DEF JobTransition, LeaseExpiry, PreRunning, Leased
  <2>2. /\ s.worker = r.worker /\ s.lease \in {r.lease, "live"}
        /\ s.attempt = r.attempt
    BY <1>1, <1>6, <2>1
       DEF Moved, HolderAfter, LeaseAfter, AttemptAfter, LeaseExpiry,
           Leased
  <2>3. Lifecycle!Start(j)
    BY <1>3, <1>4, <1>6, <2>1, <2>2 DEF Lifecycle!Start
  <2> QED BY <2>3 DEF Lifecycle!Next
<1>7. CASE r.state \in Leased /\ to = "queued"
  <2>1. s.worker = NoWorker /\ s.lease = "none" /\ s.attempt = r.attempt + 1
    BY <1>1, <1>7 DEF Moved, HolderAfter, LeaseAfter, AttemptAfter, LeaseExpiry
  <2>2. Lifecycle!Requeue(j)
    BY <1>3, <1>4, <1>7, <2>1, SameMachine DEF Lifecycle!Requeue, Lifecycle!IsHeld
  <2> QED BY <2>2 DEF Lifecycle!Next
<1>8. CASE to \notin Leased /\ ~(r.state \in Leased /\ to = "queued")
  <2>1. <<r.state, to>> \notin LeaseExpiry
    BY <1>8 DEF LeaseExpiry
  <2>2. s.worker = r.worker /\ s.attempt = r.attempt
    BY <1>1, <1>8, <2>1 DEF Moved, HolderAfter, LeaseAfter, AttemptAfter, Leased
  <2>3. s.lease = "none"
    BY <1>2, <1>3, <1>8 DEF WellLeased
  <2>4. Lifecycle!Settle(j)
    BY <1>1, <1>3, <1>4, <1>8, <2>1, <2>2, <2>3, SameMachine
       DEF Lifecycle!Settle
  <2> QED BY <2>4 DEF Lifecycle!Next
<1> QED BY <1>5, <1>6, <1>7, <1>8 DEF Leased

(***************************************************************************)
(* The workers, the reaper and the heartbeat implement JobLifecycle: every *)
(* step is a step of the lifecycle or leaves the job table alone.          *)
(***************************************************************************)
THEOREM Implementation == Spec => ImplementsLifecycle
<1>1. Init => Lifecycle!Init
  BY DEF Init, Lifecycle!Init
<1>2. TypeInv /\ [Next]_vars => [Lifecycle!Next]_job
  <2> SUFFICES ASSUME TypeInv, [Next]_vars PROVE [Lifecycle!Next]_job
    OBVIOUS
  <2>1. TypeOK /\ TableOK
    BY DEF TypeInv, TypeOK, TableOK
  <2>2. TableStep
    BY <2>1, StepIsTableStep
  <2>3. ASSUME NEW j \in Job, j \notin DOMAIN job,
               job' = Inserted(job, j, NewJob(1, MaxAttempts))
        PROVE  Lifecycle!Next
    <3>1. NewJob(1, MaxAttempts) \in JobRow
      BY NewJobIsRow, LeasesAssumption
    <3>2. j \in DOMAIN job' /\ job'[j] = NewJob(1, MaxAttempts)
      BY <2>3 DEF Inserted
    <3>3. job'[j].attempt = 1 /\ job'[j].max = MaxAttempts
      BY <3>2 DEF NewJob
    <3>4. Lifecycle!Create(j)
      BY <2>3, <3>1, <3>2, <3>3, SameMachine DEF Lifecycle!Create
    <3> QED BY <3>4 DEF Lifecycle!Next
  <2>4. ASSUME NEW w \in Worker, NEW j \in DOMAIN job, Claim(w, j)
        PROVE  Lifecycle!Next
    BY <2>1, <2>4, ArgsAreArgs, MoveRefines DEF Claim
  <2>5. ASSUME NEW j \in DOMAIN job, Moves(j) PROVE Lifecycle!Next
    BY <2>1, <2>5, MoveRefines DEF Moves
  <2>6. ASSUME NEW j \in DOMAIN job, job[j].lease = "live",
               job' = [job EXCEPT ![j].lease = "expired"]
        PROVE  Lifecycle!Next
    BY <2>6 DEF Lifecycle!Next, Lifecycle!Lapse
  <2>7. ASSUME NEW w \in Worker, job' = [j \in DOMAIN job |-> Renewed(job[j], w)]
        PROVE  Lifecycle!Next
    BY <2>7, SameMachine DEF Lifecycle!Next, Lifecycle!Renew
  <2> QED BY <2>2, <2>3, <2>4, <2>5, <2>6, <2>7 DEF TableStep
<1> QED
  BY <1>1, <1>2, TypeInit, TypeStep, PTL
     DEF Spec, ImplementsLifecycle, Lifecycle!Spec
-----------------------------------------------------------------------------
(***************************************************************************)
(* Capacity.  Between the count and the claim, only the worker itself can  *)
(* add to what it holds; so what the count saw is still an upper bound     *)
(* when the claim commits.                                                 *)
(***************************************************************************)
SlotCounted(w) ==
    /\ IsFiniteSet(HeldBy(w))
    /\ Cardinality(HeldBy(w)) <= Capacity
    /\ pc[w] = "claim" => Cardinality(HeldBy(w)) < Capacity

SlotsCounted == \A w \in Worker : SlotCounted(w)

\* A claim follows a count that the steps of others cannot raise.
LEMMA SlotsStep ==
    ASSUME TypeInv, SlotsCounted, [Next]_vars
    PROVE  SlotsCounted'
<1> SUFFICES ASSUME NEW w \in Worker PROVE SlotCounted(w)'
  BY DEF SlotsCounted
<1>1. TypeOK /\ TableOK /\ SlotCounted(w)
  BY DEF TypeInv, TypeOK, TableOK, SlotsCounted
<1>2. Cardinality(HeldBy(w)) \in Nat /\ Capacity \in Nat
  BY <1>1, FS_CardinalityType, LeasesAssumption DEF SlotCounted
<1>3. ASSUME NEW j \in Job, Claim(w, j) PROVE SlotCounted(w)'
  <2>1. /\ Move(j, "assigned", FALSE, "queued", ClaimArgs(w))
        /\ pc[w] = "claim" /\ j \in DOMAIN job
    BY <1>1, <1>3 DEF Claim, TypeOK
  <2>2. HeldBy(w)' \in SUBSET (HeldBy(w) \cup {j})
    BY <1>1, <2>1, ArgsAreArgs, HeldByMove
  <2>3. /\ IsFiniteSet(HeldBy(w) \cup {j})
        /\ Cardinality(HeldBy(w) \cup {j}) <= Cardinality(HeldBy(w)) + 1
    <3> DEFINE S == HeldBy(w)
    <3>1. IsFiniteSet(S)
      BY <1>1 DEF SlotCounted
    <3>2. /\ IsFiniteSet(S \cup {j})
          /\ Cardinality(S \cup {j})
               = IF j \in S THEN Cardinality(S) ELSE Cardinality(S) + 1
      <4> HIDE DEF S
      <4> QED BY <3>1, FS_AddElement
    <3> QED BY <1>2, <3>2
  <2>4. /\ IsFiniteSet(HeldBy(w)')
        /\ Cardinality(HeldBy(w)') <= Cardinality(HeldBy(w) \cup {j})
        /\ Cardinality(HeldBy(w)') \in Nat
        /\ Cardinality(HeldBy(w) \cup {j}) \in Nat
    BY <2>2, <2>3, FS_Subset, FS_CardinalityType
  <2>5. pc'[w] = "start"
    BY <1>1, <1>3 DEF Claim, Goto, TypeOK
  <2> QED BY <1>1, <1>2, <2>1, <2>3, <2>4, <2>5 DEF SlotCounted
<1>4. ASSUME ~ \E j \in Job : Claim(w, j) PROVE SlotCounted(w)'
  <2>1. HeldBy(w)' \in SUBSET HeldBy(w)
    <3>1. ~ \E j \in DOMAIN job : Claim(w, j)
      BY <1>1, <1>4 DEF TypeOK
    <3>2. TableStep
      BY <1>1, StepIsTableStep
    <3>3. HeldBy(w)' \subseteq HeldBy(w)
      BY <1>1, <3>1, <3>2, HeldByStep
    <3> QED BY <3>3
  <2>2. /\ IsFiniteSet(HeldBy(w)')
        /\ Cardinality(HeldBy(w)') <= Cardinality(HeldBy(w))
        /\ Cardinality(HeldBy(w)') \in Nat
    BY <1>1, <2>1, FS_Subset, FS_CardinalityType DEF SlotCounted
  <2>3. pc'[w] = "claim" => Cardinality(HeldBy(w)) < Capacity
    <3>1. CASE ~OwnStep(w)
      BY <1>1, <3>1, OthersStep DEF SlotCounted
    <3>2. CASE ClaimSelect(w)
      BY <1>1, <3>2 DEF ClaimSelect, Goto, TypeOK
    <3>3. CASE \E j \in Job : ClaimLost(w, j)
      BY <1>1, <3>3 DEF ClaimLost, SlotCounted
    <3>4. CASE OwnStep(w) /\ ~ClaimSelect(w) /\ ~ \E j \in Job : ClaimLost(w, j)
      BY <1>1, <1>4, <3>4
         DEF OwnStep, WorkerStep, Crash, Register, ReapSelect, Reap, ReapDone,
             Heartbeat, Start, StartRaises, Finish, HandlerRaises, Recover,
             RecoverRaises, Goto, Drop, TypeOK, SlotCounted
    <3> QED BY <3>1, <3>2, <3>3, <3>4
  <2> QED BY <1>1, <1>2, <2>2, <2>3 DEF SlotCounted
<1> QED BY <1>3, <1>4

(***************************************************************************)
(* No worker ever holds more jobs than its capacity, although claim_next   *)
(* counts in one transaction and claims in another.                        *)
(***************************************************************************)
THEOREM CapacityHolds == Spec => []CapacityRespected
<1>1. Init => SlotsCounted
  <2> SUFFICES ASSUME Init, NEW w \in Worker PROVE SlotCounted(w)
    BY DEF SlotsCounted
  <2>1. HeldBy(w) = {} /\ pc[w] = "down"
    BY DEF Init, HeldBy
  <2> QED BY <2>1, FS_EmptySet, LeasesAssumption DEF SlotCounted
<1>2. TypeInv /\ SlotsCounted /\ [Next]_vars => SlotsCounted'
  BY SlotsStep
<1>3. SlotsCounted => CapacityRespected
  BY DEF SlotsCounted, SlotCounted, CapacityRespected
<1> QED BY <1>1, <1>2, <1>3, TypeInit, TypeStep, PTL DEF Spec
-----------------------------------------------------------------------------
(***************************************************************************)
(* Attempts.  A reaper that read attempt < max_attempts is a licence to    *)
(* requeue the job once, however stale; a reaper that reads an exhausted   *)
(* job holds no licence.  Attempts plus outstanding licences stay below    *)
(* max_attempts plus the number of workers.                                *)
(***************************************************************************)
Licensed(j) == {w \in Worker : \E r \in snap[w] : r.job = j /\ ~r.exhausted}

\* A reaper keeps one row per job, and none once it has left its loop.
SnapshotOK(w) ==
    /\ pc[w] # "reap" => snap[w] = {}
    /\ \A r1, r2 \in snap[w] : r1.job = r2.job => r1 = r2

LicencesCounted ==
    /\ \A w \in Worker : SnapshotOK(w)
    /\ \A j \in DOMAIN job :
          job[j].attempt + Cardinality(Licensed(j)) < job[j].max + Cardinality(Worker)

\* A subset of the workers is finite and its size is a number.
LEMMA WorkerSubset ==
    ASSUME NEW S \in SUBSET Worker
    PROVE  /\ IsFiniteSet(S) /\ Cardinality(S) \in Nat
           /\ Cardinality(Worker) \in Nat /\ Cardinality(Worker) >= 1
           /\ Cardinality(S) <= Cardinality(Worker)
<1>1. IsFiniteSet(Worker) /\ Worker # {}
  BY LeasesAssumption
<1>2. IsFiniteSet(S) /\ Cardinality(S) <= Cardinality(Worker)
  BY <1>1, FS_Subset
<1>3. Cardinality(S) \in Nat /\ Cardinality(Worker) \in Nat
  BY <1>1, <1>2, FS_CardinalityType
<1>4. Cardinality(Worker) # 0
  BY <1>1, FS_EmptySet
<1> QED BY <1>2, <1>3, <1>4

\* Only lease expiry spends an attempt.
LEMMA MoveKeepsAttempt ==
    ASSUME TableOK, NEW i \in DOMAIN job, NEW to, NEW human, NEW expected,
           NEW args \in MoveArgs, Move(i, to, human, expected, args),
           to = "queued" => job[i].state \notin Leased,
           NEW j \in DOMAIN job
    PROVE  job'[j].attempt = job[j].attempt /\ job'[j].max = job[j].max
<1>1. /\ j # i => job'[j] = job[j]
      /\ job'[i] = Moved(job[i], to, args)
  BY MoveEffect DEF TableOK
<1>2. <<job[i].state, to>> \notin LeaseExpiry
  BY DEF LeaseExpiry
<1>3. Moved(job[i], to, args).attempt = job[i].attempt
  BY <1>2 DEF Moved, AttemptAfter
<1>4. Moved(job[i], to, args).max = job[i].max
  BY DEF Moved
<1> QED BY <1>1, <1>3, <1>4

\* Only a requeue by a reaper changes an attempt counter.
LEMMA AttemptKept ==
    ASSUME TypeOK, TableOK, [Next]_vars, ~ \E w \in Worker : Reap(w),
           NEW j \in DOMAIN job
    PROVE  job'[j].attempt = job[j].attempt /\ job'[j].max = job[j].max
<1> DEFINE Kept == job'[j].attempt = job[j].attempt /\ job'[j].max = job[j].max
<1>1. ASSUME NEW i \in DOMAIN job, Approve(i) \/ Enqueue(i) \/ Abort(i)
      PROVE  Kept
  <2>1. CASE Approve(i)
    BY <2>1, MoveKeepsAttempt, NoArgsIsArgs DEF Approve
  <2>2. CASE Enqueue(i)
    <3>1. job[i].state \notin Leased
      BY <2>2, NullsAssumption
         DEF Enqueue, Move, CanMove, JobState, PreRunning, Leased
    <3> QED BY <2>2, <3>1, MoveKeepsAttempt, NoArgsIsArgs DEF Enqueue
  <2>3. CASE Abort(i)
    BY <2>3, MoveKeepsAttempt, NoArgsIsArgs DEF Abort
  <2> QED BY <1>1, <2>1, <2>2, <2>3
<1>2. ASSUME NEW w \in Worker, WorkerStep(w) PROVE Kept
  <2>1. ASSUME NEW i \in Job, Claim(w, i) PROVE Kept
    <3>1. i \in DOMAIN job
      BY <2>1 DEF Claim, TypeOK
    <3> QED BY <2>1, <3>1, MoveKeepsAttempt, ArgsAreArgs DEF Claim
  <2>2. CASE Start(w) \/ Finish(w) \/ Recover(w)
    <3>1. task[w] \in DOMAIN job
      BY <2>2 DEF Start, Finish, Recover, Working, TypeOK
    <3> QED
      BY <2>2, <3>1, MoveKeepsAttempt, ArgsAreArgs DEF Start, Finish, Recover
  <2>3. CASE Heartbeat(w)
    BY <2>3 DEF Heartbeat, Renewed, TypeOK, JobRow
  <2> QED
    BY <1>2, <2>1, <2>2, <2>3
       DEF WorkerStep, ReapSelect, ReapDone, ClaimSelect, ClaimLost,
           StartRaises, HandlerRaises, RecoverRaises
<1>3. ASSUME NEW i \in DOMAIN job, Lapse(i) PROVE Kept
  BY <1>3 DEF Lapse, TypeOK, JobRow
<1>4. ASSUME NEW i \in Job, Submit(i) PROVE Kept
  BY <1>4 DEF Submit, Inserted
<1>5. ASSUME NEW w \in Worker, Crash(w) \/ Register(w) PROVE Kept
  BY <1>5 DEF Crash, Register
<1>6. CASE UNCHANGED vars
  BY <1>6 DEF vars
<1> QED BY <1>1, <1>2, <1>3, <1>4, <1>5, <1>6 DEF Next, World

\* The bound, for one job whose licences did not grow.
LEMMA BoundKept ==
    ASSUME LicencesCounted, TypeOK, NEW j \in DOMAIN job,
           Licensed(j)' \subseteq Licensed(j),
           job'[j].attempt = job[j].attempt, job'[j].max = job[j].max
    PROVE  job'[j].attempt + Cardinality(Licensed(j)')
             < job'[j].max + Cardinality(Worker)
<1>1. Licensed(j) \in SUBSET Worker
  BY DEF Licensed
<1>2. IsFiniteSet(Licensed(j)) /\ Cardinality(Licensed(j)) \in Nat
  BY <1>1, WorkerSubset
<1>3. /\ Cardinality(Licensed(j)') <= Cardinality(Licensed(j))
      /\ Cardinality(Licensed(j)') \in Nat
  BY <1>2, FS_Subset, FS_CardinalityType
<1>4. Cardinality(Worker) \in Nat
  BY WorkerSubset
<1>5. job[j].attempt \in Nat /\ job[j].max \in Nat
  BY DEF TypeOK, JobRow
<1> QED BY <1>2, <1>3, <1>4, <1>5 DEF LicencesCounted

\* A reaper spends its licence to requeue j in the step that uses it.
LEMMA LicencesStep ==
    ASSUME TypeInv, LicencesCounted, [Next]_vars
    PROVE  LicencesCounted'
<1>1. /\ TypeOK /\ TableOK /\ TableOK' /\ TypeOK'
      /\ DOMAIN job \subseteq DOMAIN job'
  <2>1. TypeOK /\ TableOK
    BY DEF TypeInv, TypeOK, TableOK
  <2>2. TableOK' /\ DOMAIN job \subseteq DOMAIN job'
    BY <2>1, StepIsTableStep, TableStepKeepsTable
  <2> QED BY <2>1, <2>2, MemoryStep
<1> DEFINE Bound(j) == job[j].attempt + Cardinality(Licensed(j))
                         < job[j].max + Cardinality(Worker)
\* The snapshots stay in order.
<1>2. ASSUME NEW w \in Worker PROVE SnapshotOK(w)'
  <2>1. SnapshotOK(w)
    BY DEF LicencesCounted
  <2>2. CASE ~OwnStep(w)
    BY <1>1, <2>1, <2>2, OthersStep DEF SnapshotOK
  <2>3. CASE ReapSelect(w)
    BY <1>1, <2>3 DEF ReapSelect, Goto, TypeOK, SnapshotOK, Seen
  <2>4. CASE Reap(w)
    BY <1>1, <2>1, <2>4 DEF Reap, TypeOK, SnapshotOK
  <2>5. CASE ReapDone(w) \/ Crash(w)
    BY <1>1, <2>1, <2>5 DEF ReapDone, Crash, Drop, Goto, TypeOK, SnapshotOK
  <2>6. CASE OwnStep(w) /\ ~ReapSelect(w) /\ ~Reap(w) /\ ~ReapDone(w) /\ ~Crash(w)
    <3>1. pc[w] # "reap" /\ snap'[w] = snap[w]
      BY <2>6 DEF OwnStep, WorkerStep, Register, Heartbeat, ClaimSelect, Claim,
         ClaimLost, Start, StartRaises, Finish, HandlerRaises, Recover,
         RecoverRaises, Gone
    <3> QED BY <2>1, <3>1 DEF SnapshotOK
  <2> QED BY <2>2, <2>3, <2>4, <2>5, <2>6
\* A job created by this step: no reaper knows it.
<1>3. ASSUME NEW j \in DOMAIN job' \ DOMAIN job PROVE Bound(j)'
  <2>1. PICK i \in Job : Submit(i)
    <3>1. ~ UNCHANGED job
      BY <1>3
    <3>2. \A w \in Worker : Heartbeat(w) => DOMAIN job' = DOMAIN job
      BY DEF Heartbeat
    <3> QED
      BY <1>1, <1>3, <3>1, <3>2
         DEF Next, World, vars, Approve, Enqueue, Abort, Lapse, Crash, Register,
             WorkerStep, ReapSelect, Reap, ReapDone, ClaimSelect, Claim,
             ClaimLost, Start, StartRaises, Finish, HandlerRaises, Recover,
             RecoverRaises, Move
  <2>2. job'[j] = NewJob(1, MaxAttempts) /\ snap' = snap
    BY <1>3, <2>1 DEF Submit, Inserted
  <2>3. Licensed(j)' = {}
    BY <1>1, <1>3, <2>2 DEF Licensed, TypeOK
  <2>4. job'[j].attempt = 1 /\ job'[j].max = MaxAttempts
    BY <2>2 DEF NewJob
  <2>5. Cardinality({}) = 0 /\ Cardinality(Worker) \in Nat /\ Cardinality(Worker) >= 1
    BY FS_EmptySet, WorkerSubset
  <2> QED BY <2>3, <2>4, <2>5, LeasesAssumption
\* A job that was there.
<1>4. ASSUME NEW j \in DOMAIN job PROVE Bound(j)'
  <2>1. /\ job[j].attempt \in Nat /\ job[j].max \in Nat
        /\ Licensed(j) \in SUBSET Worker /\ Licensed(j)' \in SUBSET Worker
        /\ Bound(j)
    BY <1>1 DEF TypeOK, JobRow, Licensed, LicencesCounted
  <2>2. CASE ~ \E w \in Worker : Reap(w) \/ ReapSelect(w)
    <3>1. job'[j].attempt = job[j].attempt /\ job'[j].max = job[j].max
      BY <1>1, <2>2, AttemptKept
    <3>2. \A w \in Worker : snap'[w] \subseteq snap[w]
      <4> SUFFICES ASSUME NEW w \in Worker PROVE snap'[w] \subseteq snap[w]
        OBVIOUS
      <4>1. CASE ~OwnStep(w)
        BY <1>1, <4>1, OthersStep
      <4>2. CASE OwnStep(w)
        BY <1>1, <2>2, <4>2 DEF OwnStep, WorkerStep, Crash, Register, ReapDone,
           Heartbeat, ClaimSelect, Claim, ClaimLost, Start, StartRaises, Finish,
           HandlerRaises, Recover, RecoverRaises, TypeOK
      <4> QED BY <4>1, <4>2
    <3>3. Licensed(j)' \subseteq Licensed(j)
      BY <3>2 DEF Licensed
    <3> QED BY <1>1, <3>1, <3>3, BoundKept
  <2>3. ASSUME NEW w \in Worker, ReapSelect(w) PROVE Bound(j)'
    <3>1. /\ UNCHANGED job
          /\ snap' = [snap EXCEPT ![w] = {Seen(i) : i \in ExpiredLeases}]
      BY <2>3 DEF ReapSelect
    <3>2. CASE job[j].attempt < job[j].max
      BY <2>1, <3>1, <3>2, WorkerSubset
    <3>3. CASE ~(job[j].attempt < job[j].max)
      <4>1. w \notin Licensed(j)'
        <5>1. snap'[w] = {Seen(i) : i \in ExpiredLeases}
          BY <1>1, <3>1 DEF TypeOK
        <5>2. \A i \in ExpiredLeases : Seen(i).job = j => Seen(i).exhausted
          <6>1. \A i : Seen(i).job = i
            BY DEF Seen
          <6>2. Seen(j).exhausted = (job[j].attempt >= job[j].max)
            BY Zenon DEF Seen
          <6>3. job[j].attempt >= job[j].max
            BY <2>1, <3>3
          <6> QED BY <6>1, <6>2, <6>3, Zenon
        <5> HIDE DEF Seen
        <5>3. \A r \in snap'[w] : r.job = j => r.exhausted
          BY <5>1, <5>2
        <5> QED BY <5>3 DEF Licensed
      <4>2. Licensed(j)' \subseteq Licensed(j)
        BY <1>1, <3>1, <4>1 DEF Licensed, TypeOK
      <4> QED BY <1>1, <3>1, <4>2, BoundKept
    <3> QED BY <3>2, <3>3
  <2>4. ASSUME NEW w \in Worker, Reap(w) PROVE Bound(j)'
    <3>1. PICK r \in snap[w] :
            /\ \/ Move(r.job, IF r.exhausted THEN "failed" ELSE "queued",
                       FALSE, r.state, NoArgs)
               \/ UNCHANGED job
            /\ snap' = [snap EXCEPT ![w] = @ \ {r}]
      BY <2>4 DEF Reap
    <3>2. r.job \in DOMAIN job /\ r \in ReapRow
      BY <1>1 DEF TypeOK
    <3>3. Licensed(j)' \subseteq Licensed(j)
      BY <1>1, <3>1 DEF Licensed, TypeOK
    <3>4. CASE UNCHANGED job
      BY <1>1, <3>3, <3>4, BoundKept
    <3>5. CASE r.exhausted /\ ~ UNCHANGED job
      <4>1. Move(r.job, "failed", FALSE, r.state, NoArgs)
        BY <3>1, <3>5
      <4>2. job'[j].attempt = job[j].attempt /\ job'[j].max = job[j].max
        BY <1>1, <3>2, <4>1, MoveKeepsAttempt, NoArgsIsArgs
      <4> QED BY <1>1, <3>3, <4>2, BoundKept
    <3>6. CASE ~r.exhausted /\ ~ UNCHANGED job
      <4>1. Move(r.job, "queued", FALSE, r.state, NoArgs)
        BY <3>1, <3>6
      <4>2. CASE j # r.job
        BY <1>1, <3>2, <3>3, <4>1, <4>2, MoveEffect, NoArgsIsArgs, BoundKept
           DEF TableOK
      <4>3. CASE j = r.job
        <5>1. job'[j].max = job[j].max /\ job'[j].attempt <= job[j].attempt + 1
              /\ job'[j].attempt \in Nat
          <6>1. job'[j] = Moved(job[j], "queued", NoArgs)
            <7>1. job' = [job EXCEPT ![r.job] = Moved(@, "queued", NoArgs)]
              BY <4>1 DEF Move
            <7> HIDE DEF Moved
            <7> QED BY <3>2, <4>3, <7>1
          <6> QED BY <2>1, <6>1 DEF Moved, AttemptAfter
        <5>2. w \in Licensed(j) /\ w \notin Licensed(j)'
          <6>1. \A s \in snap'[w] : s.job # j
            BY <1>1, <3>1, <4>3 DEF TypeOK, LicencesCounted, SnapshotOK
          <6> QED BY <3>1, <3>6, <4>3, <6>1 DEF Licensed
        <5> DEFINE before == Licensed(j)
                   after  == Licensed(j)'
        <5>3. IsFiniteSet(before) /\ Cardinality(before) \in Nat
          BY <2>1, WorkerSubset
        <5>4. Cardinality(after) \in Nat /\ Cardinality(after) < Cardinality(before)
          <6>1. after \in SUBSET before /\ after # before
            BY <3>3, <5>2
          <6>2. after \in SUBSET Worker
            BY <2>1
          <6> HIDE DEF before, after
          <6>3. /\ Cardinality(after) <= Cardinality(before)
                /\ Cardinality(before) = Cardinality(after) => before = after
            BY <5>3, <6>1, FS_Subset
          <6>4. Cardinality(after) \in Nat
            BY <6>2, WorkerSubset
          <6> QED BY <5>3, <6>1, <6>3, <6>4
        <5>5. Cardinality(Worker) \in Nat
          BY WorkerSubset
        <5> QED BY <2>1, <5>1, <5>3, <5>4, <5>5
      <4> QED BY <4>2, <4>3
    <3> QED BY <3>4, <3>5, <3>6
  <2> QED BY <2>2, <2>3, <2>4
<1> QED BY <1>1, <1>2, <1>3, <1>4 DEF LicencesCounted

(***************************************************************************)
(* A job is attempted fewer than max_attempts + N times by N workers.  (It *)
(* can be attempted more than max_attempts times: the run live_reap shows  *)
(* how a reaper acts on what it read.)                                     *)
(***************************************************************************)
THEOREM AttemptsBounded == Spec => []AttemptBound
<1>1. Init => LicencesCounted
  BY DEF Init, LicencesCounted, SnapshotOK
<1>2. TypeInv /\ LicencesCounted /\ [Next]_vars => LicencesCounted'
  BY LicencesStep
<1>3. TypeInv /\ LicencesCounted => AttemptBound
  <2> SUFFICES ASSUME TypeInv, LicencesCounted, NEW j \in DOMAIN job
               PROVE  job[j].attempt < job[j].max + Cardinality(Worker)
    BY DEF AttemptBound
  <2>1. Licensed(j) \in SUBSET Worker
    BY DEF Licensed
  <2>2. Cardinality(Licensed(j)) \in Nat /\ Cardinality(Worker) \in Nat
    BY <2>1, WorkerSubset
  <2>3. job[j].attempt \in Nat /\ job[j].max \in Nat
    BY DEF TypeInv, TypeOK, JobRow
  <2> QED BY <2>2, <2>3 DEF LicencesCounted
<1> QED BY <1>1, <1>2, <1>3, TypeInit, TypeStep, PTL DEF Spec
=============================================================================
