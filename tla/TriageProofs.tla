---------------------------- MODULE TriageProofs ----------------------------
(***************************************************************************)
(* Theorems about Triage, for any number of control loops, jobs, attempts, *)
(* dependents, crashes and re-queues: the lineage of retries moves forward *)
(* within its budget, no failure is forgotten, and, where run_triage is    *)
(* prompt, nothing is left waiting for a husk.                             *)
(***************************************************************************)
EXTENDS Triage, JobMachineProofs, FiniteSetTheorems, WellFoundedInduction

(***************************************************************************)
(* What a transition() of job j to a state does to the table.              *)
(***************************************************************************)
Moves(j, to) ==
    /\ j \in DOMAIN job
    /\ DOMAIN job' = DOMAIN job
    /\ job' \in [DOMAIN job -> JobRow]
    /\ \A i \in DOMAIN job : i # j => job'[i] = job[i]
    /\ job'[j].state = to
    /\ job'[j].max = job[j].max
    /\ job'[j].attempt = IF job[j].state \in Leased /\ to = "queued"
                         THEN job[j].attempt + 1 ELSE job[j].attempt
    /\ <<job[j].state, to>> \in JobTransition

LEMMA MoveEffect ==
    ASSUME job \in [DOMAIN job -> JobRow],
           NEW j, NEW to, NEW human, NEW expected, NEW args \in MoveArgs,
           Move(j, to, human, expected, args)
    PROVE  Moves(j, to) /\ expected \in {AnyState, job[j].state}
<1>1. /\ j \in DOMAIN job
      /\ job' = [job EXCEPT ![j] = Moved(job[j], to, args)]
      /\ CanMove(job[j], to, human, expected, args)
  BY DEF Move
<1>2. job[j] \in JobRow
  BY <1>1
<1>3. Moved(job[j], to, args) \in JobRow
  BY <1>1, <1>2, MovedIsRow
<1>4. /\ Moved(job[j], to, args).state = to
      /\ Moved(job[j], to, args).max = job[j].max
      /\ Moved(job[j], to, args).attempt =
           IF job[j].state \in Leased /\ to = "queued"
           THEN job[j].attempt + 1 ELSE job[j].attempt
  BY DEF Moved, AttemptAfter, LeaseExpiry
<1>5. <<job[j].state, to>> \in JobTransition /\ expected \in {AnyState, job[j].state}
  BY <1>1 DEF CanMove
<1> HIDE DEF Moved
<1> QED BY <1>1, <1>3, <1>4, <1>5 DEF Moves

\* The argument records the callers pass.
LEMMA ArgsAreArgs ==
    /\ NoArgs \in MoveArgs
    /\ ClaimArgs(CHOOSE w \in Worker : TRUE) \in MoveArgs
<1>1. (CHOOSE w \in Worker : TRUE) \in Worker
  BY TriageAssumption
<1> QED BY <1>1 DEF NoArgs, ClaimArgs, MoveArgs

(***************************************************************************)
(* Ids are given out one after the other, so create_job's is a new one.    *)
(***************************************************************************)
Dense == \E n \in Nat : DOMAIN job = 1..n

LEMMA NextIdIsNew ==
    ASSUME Dense
    PROVE  NextId \notin DOMAIN job /\ DOMAIN job \cup {NextId} = 1..NextId
<1>1. PICK n \in Nat : DOMAIN job = 1..n
  BY DEF Dense
<1>2. Cardinality(1..n) = n
  BY <1>1, FS_Interval
<1> QED BY <1>1, <1>2 DEF NextId

LEMMA CreateEffect ==
    ASSUME job \in [DOMAIN job -> JobRow], Dense,
           NEW j, NEW attempt \in Nat \ {0}, NEW max \in Nat \ {0}, NEW more,
           Create(j, attempt, max, more)
    PROVE  /\ j \in Job /\ j \notin DOMAIN job /\ Dense'
           /\ DOMAIN job' = DOMAIN job \cup {j}
           /\ job' \in [DOMAIN job \cup {j} -> JobRow]
           /\ job'[j] = NewJob(attempt, max)
           /\ \A i \in DOMAIN job : job'[i] = job[i]
           /\ info' = [info EXCEPT ![j] = more]
<1>1. /\ j = NextId /\ j \in Job
      /\ job' = Inserted(job, j, NewJob(attempt, max))
      /\ info' = [info EXCEPT ![j] = more]
  BY DEF Create
<1>2. j \notin DOMAIN job /\ DOMAIN job \cup {j} = 1..j /\ j \in Nat
  BY <1>1, NextIdIsNew DEF Job
<1>3. NewJob(attempt, max) \in JobRow
  BY NewJobIsRow
<1>4. /\ job' \in [DOMAIN job \cup {j} -> JobRow]
      /\ job'[j] = NewJob(attempt, max)
      /\ \A i \in DOMAIN job \ {j} : job'[i] = job[i]
  BY <1>1, <1>3 DEF Inserted
<1>5. DOMAIN job' = 1..j
  BY <1>2, <1>4
<1> QED BY <1>1, <1>2, <1>4, <1>5 DEF Dense
-----------------------------------------------------------------------------
\* Whoever remembers a job remembers one that exists, and only TRIAGE jobs
\* run run_triage.
References ==
    /\ \A r \in DOMAIN job : info[r].parent \in DOMAIN job \cup {NoJob}
    /\ \A p \in Loop :
          /\ at[p] \in {"spawn", "respawn", "approve", "reapprove"}
               => cur[p] \in DOMAIN job
          /\ at[p] \in {"approve", "reapprove"} => child[p] \in DOMAIN job
    /\ \A t \in Job : exec[t] # "none" => t \in DOMAIN job /\ info[t].kind = "TRIAGE"
    /\ \A t \in Job : exec[t] \in {"repoint", "approve"} => retry[t] \in DOMAIN job

TypeInv == TypeOK /\ Dense /\ References

InfoRow == [kind : {"ANALYSIS", "TRIAGE"},
            parent : Job \cup {NoJob}, subject : Job \cup {NoJob},
            permanent : BOOLEAN]

\* Of what a row says besides its state, only "permanent" ever changes.
InfoKept ==
    /\ info' \in [Job -> InfoRow]
    /\ \A j \in DOMAIN job : /\ info'[j].kind = info[j].kind
                             /\ info'[j].parent = info[j].parent
                             /\ info'[j].subject = info[j].subject

(***************************************************************************)
(* What a step does to the job table: nothing, one transition, or one new  *)
(* row.  Attempts are only spent within the budget, and only run_triage    *)
(* hands a job on to its retry or to a human.                              *)
(***************************************************************************)
MoveStep(j, to) ==
    /\ Moves(j, to)
    /\ InfoKept
    /\ to = "queued" /\ job[j].state \in Leased => job[j].attempt < job[j].max
    /\ to \in {"retry_spawned", "escalated"} =>
         \E t \in DOMAIN job : /\ exec[t] = "settle"
                              /\ info[t].subject = j /\ plan[t].outcome = to
    /\ exec[j] # "none" /\ job[j].state = "running" => exec'[j] = "none"

CreateStep(j, attempt, max, more) ==
    /\ attempt \in Nat \ {0} /\ max \in Nat \ {0} /\ more \in InfoRow
    /\ more.parent \in DOMAIN job
    /\ more.kind = "TRIAGE" => more.subject \in DOMAIN job
    /\ j \in Job /\ j \notin DOMAIN job /\ Dense'
    /\ DOMAIN job' = DOMAIN job \cup {j}
    /\ job' \in [DOMAIN job \cup {j} -> JobRow]
    /\ job'[j] = NewJob(attempt, max)
    /\ \A i \in DOMAIN job : job'[i] = job[i]
    /\ info' = [info EXCEPT ![j] = more]

TableStep ==
    \/ UNCHANGED <<job, info>>
    \/ \E j \in DOMAIN job, to \in JobState : MoveStep(j, to)
    \/ \E p \in Loop : SpawnChild(p) /\
          CreateStep(NextId, 1, TriageAttempts, Info("TRIAGE", cur[p], cur[p]))
    \/ \E t \in DOMAIN job : CreateRetry(t) /\
          LET j == info[t].subject
          IN  CreateStep(NextId, plan[t].attempt + 1, job[j].max,
                         Info(info[j].kind, j, info[j].subject))

LEMMA StepIsTableStep ==
    ASSUME TypeInv, [Next]_vars PROVE TableStep
<1> USE DEF TypeInv
<1>0. /\ job \in [DOMAIN job -> JobRow] /\ DOMAIN job \subseteq Job
      /\ info \in [Job -> InfoRow]
      /\ NoArgs \in MoveArgs /\ ClaimArgs(CHOOSE w \in Worker : TRUE) \in MoveArgs
      /\ \A j \in DOMAIN job : exec[j] # "none" => job[j].state = "running"
  BY ArgsAreArgs DEF TypeOK, InfoRow
<1>1. ASSUME UNCHANGED info PROVE InfoKept
  BY <1>0, <1>1 DEF InfoKept
<1>1a. ASSUME NEW j \in DOMAIN job, NEW p \in BOOLEAN,
              info' = [info EXCEPT ![j].permanent = p]
       PROVE  InfoKept
  <2>1. info' = [info EXCEPT ![j] = [info[j] EXCEPT !.permanent = p]]
    BY <1>1a
  <2>2. [info[j] EXCEPT !.permanent = p] \in InfoRow
    BY <1>0 DEF InfoRow
  <2> QED BY <1>0, <2>1, <2>2 DEF InfoKept, InfoRow
<1>2. \A j, to : Moves(j, to) => j \in DOMAIN job /\ to \in JobState
  BY DEF Moves, JobTransition, JobState, PreRunning, Leased, LeaseExpiry,
         TerminalJobState
<1>3. ASSUME NEW p \in Loop, LoopStep(p) \/ CrashLoop(p) PROVE TableStep
  <2>1. CASE Flip(p)
    <3>1. PICK j \in rows[p] : Move(j, "triage", FALSE, "failed", NoArgs)
      BY <2>1 DEF Flip
    <3>2. Moves(j, "triage") /\ job[j].state = "failed"
      BY <1>0, <3>1, MoveEffect, NullsAssumption DEF JobState
    <3> QED BY <1>1, <1>2, <2>1, <3>2 DEF Flip, TableStep, MoveStep
  <2>2. CASE ApproveChild(p)
    <3>1. Moves(child[p], "approved")
      BY <1>0, <2>2, MoveEffect DEF ApproveChild
    <3>2. job[child[p]].state = "proposed"
      BY <3>1 DEF Moves, JobTransition, LeaseExpiry, Leased, PreRunning
    <3> QED BY <1>1, <1>2, <2>2, <3>1, <3>2 DEF ApproveChild, TableStep, MoveStep
  <2>3. CASE SpawnChild(p)
    <3>1. cur[p] \in DOMAIN job
      BY <2>3 DEF SpawnChild, References
    <3>2. Info("TRIAGE", cur[p], cur[p]) \in InfoRow
      BY <1>0, <3>1 DEF Info, InfoRow
    <3>3. Create(NextId, 1, TriageAttempts, Info("TRIAGE", cur[p], cur[p]))
      BY <2>3 DEF SpawnChild
    <3>4. 1 \in Nat \ {0} /\ TriageAttempts \in Nat \ {0}
      BY TriageAssumption
    <3>5. CreateStep(NextId, 1, TriageAttempts, Info("TRIAGE", cur[p], cur[p]))
      BY <1>0, <3>1, <3>2, <3>3, <3>4, CreateEffect DEF CreateStep, Info
    <3> QED BY <2>3, <3>5 DEF TableStep
  <2> QED
    BY <1>3, <2>1, <2>2, <2>3
       DEF LoopStep, SelectFailed, FlipLost, SelectOrphans, Repair, ApproveRaises,
           SpawnDone, CrashLoop, TableStep
<1>4. ASSUME NEW t \in DOMAIN job, RunStep(t) \/ CrashRun(t) PROVE TableStep
  <2>1. CASE CreateRetry(t)
    <3> DEFINE j    == info[t].subject
               more == Info(info[j].kind, j, info[j].subject)
    <3>1. t \in Job /\ info[t].kind = "TRIAGE"
      BY <1>0, <2>1 DEF CreateRetry, References
    <3>2. j \in DOMAIN job
      BY <3>1 DEF TypeOK
    <3>3. more \in InfoRow /\ (more.kind = "TRIAGE" => more.subject \in DOMAIN job)
      BY <1>0, <3>2 DEF Info, InfoRow, TypeOK
    <3>4. plan[t].attempt + 1 \in Nat \ {0} /\ job[j].max \in Nat \ {0}
      BY <1>0, <3>1, <3>2 DEF TypeOK, JobRow
    <3>5. Create(NextId, plan[t].attempt + 1, job[j].max, more)
      BY <2>1 DEF CreateRetry
    <3>6. CreateStep(NextId, plan[t].attempt + 1, job[j].max, more)
      <4> HIDE DEF j
      <4> QED BY <1>0, <3>2, <3>3, <3>4, <3>5, CreateEffect DEF CreateStep, Info
    <3> QED BY <2>1, <3>6 DEF TableStep
  <2>2. CASE ApproveRetry(t)
    <3>1. Moves(retry[t], "approved")
      BY <1>0, <2>2, MoveEffect DEF ApproveRetry
    <3>2. job[retry[t]].state = "proposed"
      BY <3>1 DEF Moves, JobTransition, LeaseExpiry, Leased, PreRunning
    <3> QED BY <1>1, <1>2, <2>2, <3>1, <3>2 DEF ApproveRetry, TableStep, MoveStep
  <2>3. CASE Settle(t)
    <3> DEFINE j == info[t].subject
    <3>1. Moves(j, plan[t].outcome) /\ job[j].state = "triage"
      BY <1>0, <2>3, MoveEffect, NullsAssumption DEF Settle, JobState
    <3> QED
      BY <1>1, <1>2, <2>3, <3>1 DEF Settle, TableStep, MoveStep, Leased
  <2>4. CASE Finish(t)
    <3>1. Moves(t, "succeeded")
      BY <1>0, <2>4, MoveEffect DEF Finish
    <3>2. exec'[t] = "none"
      BY <1>0, <2>4 DEF Finish, Leave, TypeOK
    <3> QED BY <1>1, <1>2, <2>4, <3>1, <3>2 DEF Finish, TableStep, MoveStep
  <2>5. CASE Recover(t)
    <3>1. Moves(t, "failed")
      BY <1>0, <2>5, MoveEffect DEF Recover
    <3>2. exec'[t] = "none"
      BY <1>0, <2>5 DEF Recover, Leave, TypeOK
    <3> QED BY <1>1, <1>2, <2>5, <3>1, <3>2 DEF Recover, TableStep, MoveStep
  <2> QED
    BY <1>4, <2>1, <2>2, <2>3, <2>4, <2>5
       DEF RunStep, Decide, Repoint, RunRaises, CrashRun, TableStep
<1>5. ASSUME NEW j \in DOMAIN job, WorkStep(j) PROVE TableStep
  <2>1. CASE Enqueue(j)
    <3>1. Moves(j, "queued") /\ job[j].state = "approved"
      BY <1>0, <2>1, MoveEffect, NullsAssumption DEF Enqueue, JobState, PreRunning
    <3> QED BY <1>1, <1>2, <2>1, <3>1 DEF Enqueue, TableStep, MoveStep, Leased
  <2>2. CASE Claim(j)
    <3>1. Moves(j, "assigned") /\ job[j].state = "queued"
      BY <1>0, <2>2, MoveEffect, NullsAssumption DEF Claim, JobState, PreRunning
    <3> QED BY <1>1, <1>2, <2>2, <3>1 DEF Claim, TableStep, MoveStep
  <2>3. CASE Start(j)
    <3>1. Moves(j, "running") /\ job[j].state = "assigned"
      BY <1>0, <2>3, MoveEffect, NullsAssumption DEF Start, JobState, PreRunning
    <3> QED BY <1>1, <1>2, <2>3, <3>1 DEF Start, TableStep, MoveStep
  <2>4. CASE End(j)
    <3>1. PICK to \in {"succeeded", "failed"} :
             Move(j, to, FALSE, "running", NoArgs)
      BY <2>4 DEF End
    <3>2. Moves(j, to)
      BY <1>0, <3>1, MoveEffect
    <3>3. InfoKept
      BY <1>1, <1>1a, <2>4 DEF End
    <3>4. exec[j] = "none"
      BY <1>0, <2>4 DEF End, References
    <3> QED BY <1>2, <3>2, <3>3, <3>4 DEF TableStep, MoveStep
  <2>5. CASE AcceptTriage(j)
    <3>1. Moves(j, "accepted") /\ job[j].state = "succeeded"
      BY <1>0, <2>5, MoveEffect, NullsAssumption DEF AcceptTriage, JobState
    <3> QED BY <1>1, <1>2, <2>5, <3>1 DEF AcceptTriage, TableStep, MoveStep
  <2> QED BY <1>5, <2>1, <2>2, <2>3, <2>4, <2>5 DEF WorkStep
<1>6. ASSUME NEW j \in DOMAIN job, LeaseOut(j) PROVE TableStep
  <2>1. PICK to \in {"queued", "failed"} :
           /\ Move(j, to, FALSE, job[j].state, NoArgs)
           /\ to = "queued" => job[j].attempt < job[j].max
    BY <1>6 DEF LeaseOut
  <2>2. Moves(j, to)
    BY <1>0, <2>1, MoveEffect
  <2>3. InfoKept
    BY <1>1, <1>1a, <1>6 DEF LeaseOut
  <2>4. exec[j] = "none"
    BY <1>6 DEF LeaseOut
  <2> QED BY <1>2, <2>1, <2>2, <2>3, <2>4 DEF TableStep, MoveStep
<1>7. ASSUME NEW j \in DOMAIN job, Human(j) PROVE TableStep
  <2>1. PICK to \in {"approved", "cancelled", "queued", "infeasible"},
             from \in {"proposed", "escalated"} :
           Move(j, to, TRUE, from, NoArgs)
    BY <1>7 DEF Human, HumanApproves, HumanCancels, HumanResolves
  <2>2. Moves(j, to) /\ job[j].state = from
    BY <1>0, <2>1, MoveEffect, NullsAssumption DEF JobState, PreRunning
  <2>3. InfoKept
    BY <1>1, <1>7 DEF Human, HumanApproves, HumanCancels, HumanResolves
  <2> QED BY <1>2, <2>2, <2>3 DEF TableStep, MoveStep, Leased
<1>8. CASE UNCHANGED vars
  BY <1>8 DEF vars, TableStep
<1> QED BY <1>3, <1>4, <1>5, <1>6, <1>7, <1>8 DEF Next

(***************************************************************************)
(* So the tables stay typed, and what a row refers to stays there.         *)
(***************************************************************************)
TablesKept ==
    /\ DOMAIN job \subseteq DOMAIN job' /\ DOMAIN job' \subseteq Job
    /\ job' \in [DOMAIN job' -> JobRow]
    /\ Dense'
    /\ InfoKept
    /\ \A r \in DOMAIN job' :
          /\ info'[r].parent \in DOMAIN job' \cup {NoJob}
          /\ info'[r].kind = "TRIAGE" => info'[r].subject \in DOMAIN job'

LEMMA TableStepKeepsTables ==
    ASSUME TypeInv, TableStep PROVE TablesKept
<1>0. /\ job \in [DOMAIN job -> JobRow] /\ DOMAIN job \subseteq Job /\ Dense
      /\ info \in [Job -> InfoRow]
      /\ \A r \in DOMAIN job :
            /\ info[r].parent \in DOMAIN job \cup {NoJob}
            /\ info[r].kind = "TRIAGE" => info[r].subject \in DOMAIN job
  BY DEF TypeInv, TypeOK, InfoRow, References
<1>1. CASE UNCHANGED <<job, info>>
  BY <1>0, <1>1 DEF TablesKept, InfoKept, Dense
<1>2. ASSUME NEW j \in DOMAIN job, NEW to, MoveStep(j, to) PROVE TablesKept
  BY <1>0, <1>2 DEF MoveStep, Moves, InfoKept, TablesKept, Dense
<1>3. ASSUME NEW j, NEW attempt, NEW max, NEW more,
             CreateStep(j, attempt, max, more)
      PROVE  TablesKept
  BY <1>0, <1>3 DEF CreateStep, InfoKept, TablesKept
<1> QED BY <1>1, <1>2, <1>3 DEF TableStep

\* run_triage only starts on a TRIAGE job that has just started to run.
LEMMA ExecStep ==
    ASSUME TypeInv, [Next]_vars, NEW t \in Job, exec'[t] # "none"
    PROVE  \/ exec[t] # "none"
           \/ /\ t \in DOMAIN job /\ info[t].kind = "TRIAGE"
              /\ job'[t].state = "running" /\ exec'[t] = "read"
<1>0. exec \in [Job -> {"none", "read", "create", "repoint", "approve",
                        "settle", "finish", "recover"}]
      /\ job \in [DOMAIN job -> JobRow]
  BY DEF TypeInv, TypeOK
<1>1. ASSUME NEW p \in Loop, LoopStep(p) \/ CrashLoop(p) PROVE exec' = exec
  BY <1>1 DEF LoopStep, SelectFailed, Flip, FlipLost, SelectOrphans, Repair,
              SpawnChild, ApproveChild, ApproveRaises, SpawnDone, CrashLoop, runs
<1>2. ASSUME NEW u \in DOMAIN job, RunStep(u) \/ CrashRun(u)
      PROVE  exec[t] # "none"
  <2>1. exec[u] # "none"
    BY <1>2 DEF RunStep, CrashRun, Decide, CreateRetry, Repoint, ApproveRetry,
                Settle, RunRaises, Finish, Recover
  <2>2. u # t => exec'[t] = exec[t]
    BY <1>0, <1>2 DEF RunStep, CrashRun, Decide, CreateRetry, Repoint, ApproveRetry,
                Settle, RunRaises, Finish, Recover, Leave
  <2> QED BY <2>1, <2>2
<1>3. ASSUME NEW j \in DOMAIN job, Start(j)
      PROVE  \/ exec'[t] = exec[t]
             \/ /\ t \in DOMAIN job /\ info[t].kind = "TRIAGE"
                /\ job'[t].state = "running" /\ exec'[t] = "read"
  <2>1. Moves(j, "running")
    BY <1>0, <1>3, MoveEffect, ArgsAreArgs DEF Start
  <2> QED BY <1>0, <1>3, <2>1 DEF Start, Moves
<1>4. ASSUME NEW j \in DOMAIN job,
             Enqueue(j) \/ Claim(j) \/ End(j) \/ AcceptTriage(j) \/ LeaseOut(j) \/ Human(j)
      PROVE  exec' = exec
  BY <1>4 DEF Enqueue, Claim, End, AcceptTriage, LeaseOut, Human,
              HumanApproves, HumanCancels, HumanResolves, runs
<1>5. CASE UNCHANGED vars
  BY <1>5 DEF vars, runs
<1> QED BY <1>1, <1>2, <1>3, <1>4, <1>5 DEF Next, WorkStep

\* A job that leaves "running" has left run_triage.
LEMMA ExecRuns ==
    ASSUME TypeInv, [Next]_vars, NEW t \in DOMAIN job', exec'[t] # "none"
    PROVE  job'[t].state = "running" /\ t \in DOMAIN job
<1>1. TableStep /\ TablesKept
  BY StepIsTableStep, TableStepKeepsTables
<1>2. t \in Job
  BY <1>1 DEF TablesKept
<1>3. CASE exec[t] # "none"
  <2>1. t \in DOMAIN job /\ job[t].state = "running"
    BY <1>2, <1>3 DEF TypeInv, References, TypeOK
  <2>2. CASE UNCHANGED <<job, info>>
    BY <2>1, <2>2
  <2>3. ASSUME NEW j \in DOMAIN job, NEW to, MoveStep(j, to)
        PROVE  job'[t].state = "running"
    BY <1>3, <2>1, <2>3 DEF MoveStep, Moves
  <2>4. ASSUME NEW j, NEW attempt, NEW max, NEW more,
               CreateStep(j, attempt, max, more)
        PROVE  job'[t].state = "running"
    BY <2>1, <2>4 DEF CreateStep
  <2> QED BY <1>1, <2>1, <2>2, <2>3, <2>4 DEF TableStep
<1>4. CASE exec[t] = "none"
  BY <1>2, <1>4, ExecStep
<1> QED BY <1>3, <1>4

(***************************************************************************)
(* What loops and workers remember stays well typed, too, and refers to    *)
(* jobs that exist.                                                        *)
(***************************************************************************)
LoopsTyped ==
    /\ at \in [Loop -> {"idle", "failed", "spawn", "approve", "orphans",
                       "respawn", "reapprove", "dead"}]
    /\ rows \in [Loop -> SUBSET DOMAIN job]
    /\ cur \in [Loop -> DOMAIN job \cup {NoJob}]
    /\ child \in [Loop -> DOMAIN job \cup {NoJob}]
    /\ \A p \in Loop :
          /\ at[p] \in {"spawn", "respawn", "approve", "reapprove"}
               => cur[p] \in DOMAIN job
          /\ at[p] \in {"approve", "reapprove"} => child[p] \in DOMAIN job

LEMMA LoopMemory ==
    ASSUME TypeInv, [Next]_vars PROVE LoopsTyped'
<1> DEFINE Known == DOMAIN job'
<1>0. LoopsTyped /\ DOMAIN job \subseteq Known
  BY StepIsTableStep, TableStepKeepsTables
     DEF TypeInv, TypeOK, References, LoopsTyped, TablesKept
<1>1. ASSUME NEW p \in Loop, LoopStep(p) \/ CrashLoop(p) PROVE LoopsTyped'
  <2>1. CASE SelectFailed(p)
    BY <1>0, <2>1 DEF SelectFailed, LoopsTyped, Failed
  <2>2. CASE Flip(p)
    BY <1>0, <2>2 DEF Flip, LoopsTyped
  <2>3. CASE FlipLost(p)
    BY <1>0, <2>3 DEF FlipLost, LoopsTyped
  <2>4. CASE SelectOrphans(p)
    BY <1>0, <2>4 DEF SelectOrphans, LoopsTyped, Orphans
  <2>5. CASE Repair(p)
    BY <1>0, <2>5 DEF Repair, LoopsTyped
  <2>6. CASE SpawnChild(p)
    <3>1. NextId \in Known
      BY <2>6 DEF SpawnChild, Create, Inserted
    <3> QED BY <1>0, <2>6, <3>1 DEF SpawnChild, LoopsTyped
  <2>7. CASE ApproveChild(p) \/ ApproveRaises(p) \/ SpawnDone(p) \/ CrashLoop(p)
    BY <1>0, <2>7 DEF ApproveChild, ApproveRaises, SpawnDone, CrashLoop, LoopsTyped
  <2> QED
    BY <1>1, <2>1, <2>2, <2>3, <2>4, <2>5, <2>6, <2>7 DEF LoopStep
<1>2. CASE UNCHANGED loops
  BY <1>0, <1>2 DEF loops, LoopsTyped
<1>3. ASSUME NEW j \in DOMAIN job,
             \/ RunStep(j) \/ CrashRun(j) \/ WorkStep(j)
             \/ LeaseOut(j) \/ Human(j)
      PROVE  UNCHANGED loops
  BY <1>3 DEF RunStep, Decide, CreateRetry, Repoint, ApproveRetry, Settle, RunRaises,
              Finish, Recover, CrashRun, WorkStep, Enqueue, Claim, Start, End,
              AcceptTriage, LeaseOut, Human, HumanApproves, HumanCancels, HumanResolves
<1>4. CASE UNCHANGED vars
  BY <1>2, <1>4 DEF vars
<1> QED BY <1>1, <1>2, <1>3, <1>4 DEF Next

RunsTyped ==
    /\ dep \in [Dependent -> DOMAIN job]
    /\ exec \in [Job -> {"none", "read", "create", "repoint", "approve",
                         "settle", "finish", "recover"}]
    /\ plan \in [Job -> [outcome : Outcome, attempt : Nat \ {0}]]
    /\ retry \in [Job -> DOMAIN job \cup {NoJob}]
    /\ \A t \in Job : exec[t] \in {"repoint", "approve"} => retry[t] \in DOMAIN job

LEMMA RunMemory ==
    ASSUME TypeInv, [Next]_vars PROVE RunsTyped'
<1> DEFINE Known == DOMAIN job'
<1>0. /\ RunsTyped /\ DOMAIN job \subseteq Known
      /\ DOMAIN job \subseteq Job /\ job \in [DOMAIN job -> JobRow]
      /\ \A t \in Job : exec[t] # "none" => info[t].subject \in DOMAIN job
  BY StepIsTableStep, TableStepKeepsTables
     DEF TypeInv, TypeOK, References, RunsTyped, TablesKept
<1>1. ASSUME NEW t \in DOMAIN job, RunStep(t) \/ CrashRun(t) PROVE RunsTyped'
  <2>0. t \in Job
    BY <1>0
  <2>1. CASE Decide(t)
    <3> DEFINE j == info[t].subject
    <3>1. job[j].attempt \in Nat \ {0}
      BY <1>0, <2>0, <2>1 DEF Decide, JobRow
    <3>2. Decision(j) \in Outcome
      BY DEF Decision, Outcome
    <3>3. [outcome |-> Decision(j), attempt |-> job[j].attempt]
             \in [outcome : Outcome, attempt : Nat \ {0}]
      BY <3>1, <3>2
    <3> HIDE DEF j
    <3>4. plan' \in [Job -> [outcome : Outcome, attempt : Nat \ {0}]]
      BY <1>0, <2>0, <2>1, <3>3 DEF Decide, RunsTyped, j
    <3> QED BY <1>0, <2>0, <2>1, <3>4 DEF Decide, RunsTyped
  <2>2. CASE CreateRetry(t)
    <3>1. NextId \in Known
      BY <2>2 DEF CreateRetry, Create, Inserted
    <3>2. /\ retry' = [retry EXCEPT ![t] = NextId]
          /\ exec' = [exec EXCEPT ![t] = "repoint"]
          /\ UNCHANGED <<dep, plan>>
      BY <2>2 DEF CreateRetry
    <3> HIDE DEF Known
    <3>3. /\ retry' \in [Job -> Known \cup {NoJob}]
          /\ dep' \in [Dependent -> Known]
          /\ plan' \in [Job -> [outcome : Outcome, attempt : Nat \ {0}]]
          /\ exec' \in [Job -> {"none", "read", "create", "repoint", "approve",
                               "settle", "finish", "recover"}]
          /\ \A u \in Job : exec'[u] \in {"repoint", "approve"} => retry'[u] \in Known
      BY <1>0, <2>0, <3>1, <3>2 DEF RunsTyped
    <3> QED BY <3>3 DEF RunsTyped, Known
  <2>3. CASE Repoint(t)
    BY <1>0, <2>0, <2>3 DEF Repoint, RunsTyped
  <2>4. CASE ApproveRetry(t) \/ Settle(t) \/ RunRaises(t)
    BY <1>0, <2>0, <2>4 DEF ApproveRetry, Settle, RunRaises, RunsTyped
  <2>5. CASE Finish(t) \/ Recover(t) \/ CrashRun(t)
    <3>1. Undecided \in [outcome : Outcome, attempt : Nat \ {0}]
      BY DEF Undecided, Outcome
    <3>2. Leave(t) /\ UNCHANGED dep
      BY <2>5 DEF Finish, Recover, CrashRun
    <3> HIDE DEF Known
    <3>3. /\ dep' \in [Dependent -> Known]
          /\ exec' \in [Job -> {"none", "read", "create", "repoint", "approve",
                               "settle", "finish", "recover"}]
          /\ plan' \in [Job -> [outcome : Outcome, attempt : Nat \ {0}]]
          /\ retry' \in [Job -> Known \cup {NoJob}]
          /\ \A u \in Job : exec'[u] \in {"repoint", "approve"} => retry'[u] \in Known
      BY <1>0, <2>0, <3>1, <3>2 DEF Leave, RunsTyped
    <3> QED BY <3>3 DEF RunsTyped, Known
  <2> QED BY <1>1, <2>1, <2>2, <2>3, <2>4, <2>5 DEF RunStep
<1>2. CASE UNCHANGED <<dep, runs>>
  BY <1>0, <1>2 DEF runs, RunsTyped
<1>3. ASSUME NEW j \in DOMAIN job, Start(j) PROVE RunsTyped'
  BY <1>0, <1>3 DEF Start, RunsTyped
<1>4. ASSUME NEW j \in DOMAIN job,
             \/ Enqueue(j) \/ Claim(j) \/ End(j) \/ AcceptTriage(j)
             \/ LeaseOut(j) \/ Human(j)
      PROVE  UNCHANGED <<dep, runs>>
  BY <1>4 DEF Enqueue, Claim, End, AcceptTriage, LeaseOut, Human,
              HumanApproves, HumanCancels, HumanResolves
<1>5. ASSUME NEW p \in Loop, LoopStep(p) \/ CrashLoop(p)
      PROVE  UNCHANGED <<dep, runs>>
  BY <1>5 DEF LoopStep, SelectFailed, Flip, FlipLost, SelectOrphans, Repair,
              SpawnChild, ApproveChild, ApproveRaises, SpawnDone, CrashLoop
<1>6. CASE UNCHANGED vars
  BY <1>2, <1>6 DEF vars
<1> QED BY <1>1, <1>2, <1>3, <1>4, <1>5, <1>6 DEF Next, WorkStep

LEMMA TypeInit == Init => TypeInv
<1> SUFFICES ASSUME Init PROVE TypeInv
  OBVIOUS
<1>1. PICK attempt \in 1..MaxAttempts :
         job = [j \in {First} |->
                  [NewJob(attempt, MaxAttempts) EXCEPT !.state = "queued"]]
  BY DEF Init
<1>2. attempt \in Nat \ {0} /\ MaxAttempts \in Nat \ {0}
  BY <1>1, TriageAssumption
<1>3. [NewJob(attempt, MaxAttempts) EXCEPT !.state = "queued"] \in JobRow
  BY <1>2, NewJobIsRow DEF JobRow, JobState, PreRunning
<1>4. /\ DOMAIN job = {First} /\ job \in [DOMAIN job -> JobRow]
      /\ job[First].state = "queued"
  BY <1>1, <1>3 DEF NewJob
<1>5. DOMAIN job = 1..1 /\ First \in Job /\ 1 \in Nat
  BY <1>4, TriageAssumption DEF First, Job
<1>6. Undecided \in [outcome : Outcome, attempt : Nat \ {0}]
  BY DEF Undecided, Outcome
<1>7. Info("ANALYSIS", NoJob, NoJob) \in InfoRow
  BY DEF Info, InfoRow
<1>8. Dense
  BY <1>5 DEF Dense
<1>9. TypeOK
  BY <1>4, <1>5, <1>6, <1>7 DEF Init, TypeOK, InfoRow, Info
<1>10. References
  BY <1>4, <1>5 DEF Init, References, Info
<1> QED BY <1>8, <1>9, <1>10 DEF TypeInv

LEMMA TypeStep == TypeInv /\ [Next]_vars => TypeInv'
<1> SUFFICES ASSUME TypeInv, [Next]_vars PROVE TypeInv'
  OBVIOUS
<1>1. TablesKept
  BY StepIsTableStep, TableStepKeepsTables
<1>2. LoopsTyped' /\ RunsTyped'
  BY LoopMemory, RunMemory
<1>3. \A t \in DOMAIN job' : exec'[t] # "none" => job'[t].state = "running"
  BY ExecRuns
<1>4. \A t \in Job : exec'[t] # "none" =>
         t \in DOMAIN job' /\ info'[t].kind = "TRIAGE"
  BY <1>1, ExecStep DEF TypeInv, References, TablesKept, InfoKept
<1>5. TypeOK'
  BY <1>1, <1>2, <1>3
     DEF TypeOK, TablesKept, InfoKept, InfoRow, LoopsTyped, RunsTyped
<1>6. References'
  BY <1>1, <1>2, <1>4 DEF References, TablesKept, LoopsTyped, RunsTyped
<1> QED BY <1>1, <1>5, <1>6 DEF TypeInv, TablesKept

(***************************************************************************)
(* Type correctness, whatever the number of loops, jobs and dependents.    *)
(***************************************************************************)
THEOREM TypeCorrect == Spec => []TypeOK
<1> QED BY TypeInit, TypeStep, PTL DEF Spec, TypeInv
-----------------------------------------------------------------------------
(***************************************************************************)
(* The strengthening.  Once a job has been triaged, it is referred to: a   *)
(* TRIAGE job has it as its subject, a retry as its parent, a loop has it  *)
(* in hand.                                                                *)
(***************************************************************************)
Repairing == {"orphans", "respawn", "reapprove"}

Touched(j) ==
    \/ \E t \in DOMAIN job : info[t].kind = "TRIAGE" /\ info[t].subject = j
    \/ \E r \in DOMAIN job : info[r].parent = j
    \/ \E p \in Loop : cur[p] = j
    \/ \E p \in Loop : at[p] \in Repairing /\ j \in rows[p]

\* From then on it is tried again only when its attempts are used up.
Stays ==
    \A j \in DOMAIN job : Touched(j) =>
        \/ job[j].attempt >= job[j].max
        \/ job[j].state \in {"triage", "retry_spawned", "infeasible"}

\* What run_triage has decided is still right when it is carried out.
Plans ==
    \A t \in Job :
       /\ exec[t] \in {"create", "repoint", "approve"}
            => plan[t].outcome = "retry_spawned"
       /\ exec[t] = "create" =>
            /\ plan[t].attempt = job[info[t].subject].attempt
            /\ plan[t].attempt < job[info[t].subject].max
       /\ exec[t] = "settle" /\ plan[t].outcome = "escalated"
            => job[info[t].subject].attempt >= job[info[t].subject].max

LEMMA TouchedStep ==
    ASSUME TypeInv, [Next]_vars, NEW j \in DOMAIN job', Touched(j)'
    PROVE  j \in DOMAIN job /\ (Touched(j) \/ job'[j].state = "triage")
<1>0. /\ TableStep /\ TablesKept /\ TypeInv' /\ LoopsTyped
      /\ job \in [DOMAIN job -> JobRow] /\ DOMAIN job \subseteq Job
      /\ info \in [Job -> InfoRow]
  BY StepIsTableStep, TableStepKeepsTables, TypeStep
     DEF TypeInv, TypeOK, References, LoopsTyped, InfoRow
<1>1. j \in Job /\ j # NoJob
  BY <1>0 DEF TablesKept, Job, NoJob
<1>2. ASSUME NEW t \in DOMAIN job', info'[t].kind = "TRIAGE", info'[t].subject = j
      PROVE  j \in DOMAIN job /\ Touched(j)
  <2>1. CASE t \in DOMAIN job
    BY <1>0, <1>2, <2>1 DEF TablesKept, InfoKept, Touched, TypeInv, TypeOK
  <2>2. CASE t \notin DOMAIN job
    <3>1. ASSUME NEW p \in Loop, SpawnChild(p),
                 CreateStep(NextId, 1, TriageAttempts, Info("TRIAGE", cur[p], cur[p]))
          PROVE  j \in DOMAIN job /\ Touched(j)
      <4>1. t = NextId /\ info'[t] = Info("TRIAGE", cur[p], cur[p])
        BY <1>0, <2>2, <3>1 DEF CreateStep
      <4>2. cur[p] = j
        BY <1>2, <4>1 DEF Info
      <4> QED BY <3>1, <4>2 DEF Touched, CreateStep, Info
    <3>2. ASSUME NEW u \in DOMAIN job, CreateRetry(u),
                 CreateStep(NextId, plan[u].attempt + 1, job[info[u].subject].max,
                   Info(info[info[u].subject].kind, info[u].subject,
                        info[info[u].subject].subject))
          PROVE  j \in DOMAIN job /\ Touched(j)
      <4> DEFINE i == info[u].subject
      <4>1. t = NextId /\ info'[t] = Info(info[i].kind, i, info[i].subject)
        BY <1>0, <2>2, <3>2 DEF CreateStep
      <4>2. info[i].kind = "TRIAGE" /\ info[i].subject = j
        BY <1>2, <4>1 DEF Info
      <4>3. i \in DOMAIN job
        BY <3>2 DEF CreateStep, Info
      <4> QED BY <4>2, <4>3 DEF Touched, TypeInv, TypeOK
    <3>3. ASSUME UNCHANGED <<job, info>> PROVE FALSE
      BY <2>2, <3>3
    <3>4. ASSUME NEW i \in DOMAIN job, NEW to, MoveStep(i, to) PROVE FALSE
      BY <2>2, <3>4 DEF MoveStep, Moves
    <3> QED BY <1>0, <3>1, <3>2, <3>3, <3>4 DEF TableStep
  <2> QED BY <2>1, <2>2
<1>3. ASSUME NEW r \in DOMAIN job', info'[r].parent = j
      PROVE  j \in DOMAIN job /\ Touched(j)
  <2>1. CASE r \in DOMAIN job
    BY <1>0, <1>1, <1>3, <2>1 DEF TablesKept, InfoKept, Touched, TypeInv, References
  <2>2. CASE r \notin DOMAIN job
    <3>1. ASSUME NEW p \in Loop, SpawnChild(p),
                 CreateStep(NextId, 1, TriageAttempts, Info("TRIAGE", cur[p], cur[p]))
          PROVE  j \in DOMAIN job /\ Touched(j)
      <4>1. r = NextId /\ info'[r] = Info("TRIAGE", cur[p], cur[p])
        BY <1>0, <2>2, <3>1 DEF CreateStep
      <4>2. cur[p] = j
        BY <1>3, <4>1 DEF Info
      <4> QED BY <3>1, <4>2 DEF Touched, CreateStep, Info
    <3>2. ASSUME NEW u \in DOMAIN job, CreateRetry(u),
                 CreateStep(NextId, plan[u].attempt + 1, job[info[u].subject].max,
                   Info(info[info[u].subject].kind, info[u].subject,
                        info[info[u].subject].subject))
          PROVE  j \in DOMAIN job /\ Touched(j)
      <4> DEFINE i == info[u].subject
      <4>1. r = NextId /\ info'[r] = Info(info[i].kind, i, info[i].subject)
        BY <1>0, <2>2, <3>2 DEF CreateStep
      <4>2. i = j
        BY <1>3, <4>1 DEF Info
      <4>3. i \in DOMAIN job /\ info[u].kind = "TRIAGE"
        BY <1>0, <3>2 DEF CreateRetry, CreateStep, Info, TypeInv, References
      <4> QED BY <4>2, <4>3 DEF Touched
    <3>3. ASSUME UNCHANGED <<job, info>> PROVE FALSE
      BY <2>2, <3>3
    <3>4. ASSUME NEW i \in DOMAIN job, NEW to, MoveStep(i, to) PROVE FALSE
      BY <2>2, <3>4 DEF MoveStep, Moves
    <3> QED BY <1>0, <3>1, <3>2, <3>3, <3>4 DEF TableStep
  <2> QED BY <2>1, <2>2
<1>4. ASSUME NEW p \in Loop, cur'[p] = j \/ (at'[p] \in Repairing /\ j \in rows'[p])
      PROVE  j \in DOMAIN job /\ (Touched(j) \/ job'[j].state = "triage")
  <2>1. CASE /\ cur'[p] = cur[p] /\ rows'[p] \subseteq rows[p]
             /\ at'[p] \in Repairing => at[p] \in Repairing
    BY <1>0, <1>1, <1>4, <2>1 DEF Touched, LoopsTyped
  <2>2. CASE Flip(p)
    <3>1. at'[p] = "spawn"
      BY <1>0, <2>2 DEF Flip, LoopsTyped
    <3>2. cur'[p] = j
      BY <1>4, <3>1 DEF Repairing
    <3>3. Move(j, "triage", FALSE, "failed", NoArgs)
      BY <1>0, <2>2, <3>2 DEF Flip, LoopsTyped
    <3> QED BY <1>0, <3>3, MoveEffect, ArgsAreArgs DEF Moves
  <2>3. CASE SelectOrphans(p)
    BY <1>0, <1>1, <1>4, <2>3 DEF SelectOrphans, Orphans, LoopsTyped, Touched
  <2>4. CASE Repair(p)
    BY <1>0, <1>1, <1>4, <2>4 DEF Repair, LoopsTyped, Touched, Repairing
  <2>5. CASE ApproveChild(p)
    <3>1. /\ at[p] \in {"approve", "reapprove"} /\ rows' = rows
          /\ at'[p] = IF at[p] = "approve" THEN "failed" ELSE "orphans"
          /\ cur'[p] = NoJob
      BY <1>0, <2>5 DEF ApproveChild, LoopsTyped
    <3>2. at[p] = "reapprove" /\ j \in rows[p]
      BY <1>1, <1>4, <3>1 DEF Repairing
    <3> QED BY <1>0, <3>2 DEF Touched, Repairing, LoopsTyped
  <2>6. CASE ApproveRaises(p)
    BY <1>0, <1>1, <1>4, <2>6 DEF ApproveRaises, LoopsTyped, Repairing
  <2>9. CASE CrashLoop(p)
    BY <1>0, <1>1, <1>4, <2>9 DEF CrashLoop, LoopsTyped, Repairing
  <2>10. CASE SelectFailed(p)
    <3>1. at'[p] = "failed" /\ cur' = cur
      BY <1>0, <2>10 DEF SelectFailed, LoopsTyped
    <3>2. cur[p] = j
      BY <1>4, <3>1 DEF Repairing
    <3> QED BY <1>0, <1>1, <3>2 DEF Touched, LoopsTyped
  <2>11. CASE FlipLost(p)
    <3>1. cur' = cur /\ at' = at /\ rows'[p] \subseteq rows[p]
      BY <1>0, <2>11 DEF FlipLost, LoopsTyped
    <3> QED BY <2>1, <3>1
  <2>12. CASE SpawnChild(p)
    <3>1. /\ cur' = cur /\ rows' = rows /\ at[p] \in {"spawn", "respawn"}
          /\ at'[p] = IF at[p] = "spawn" THEN "approve" ELSE "reapprove"
      BY <1>0, <2>12 DEF SpawnChild, LoopsTyped
    <3> QED BY <2>1, <3>1 DEF Repairing
  <2>13. CASE SpawnDone(p)
    <3>1. /\ cur' = cur /\ rows' = rows /\ at'[p] = "idle"
      BY <1>0, <2>13 DEF SpawnDone, LoopsTyped
    <3> QED BY <2>1, <3>1 DEF Repairing
  <2>14. ASSUME NEW q \in Loop, LoopStep(q) \/ CrashLoop(q), p # q
         PROVE  /\ cur'[p] = cur[p] /\ rows'[p] \subseteq rows[p]
                /\ at'[p] \in Repairing => at[p] \in Repairing
    BY <1>0, <2>14
       DEF LoopStep, SelectFailed, Flip, FlipLost, SelectOrphans, Repair, SpawnChild,
           ApproveChild, ApproveRaises, SpawnDone, CrashLoop, LoopsTyped
  <2>7. ASSUME NEW i \in DOMAIN job,
               \/ RunStep(i) \/ CrashRun(i) \/ WorkStep(i)
               \/ LeaseOut(i) \/ Human(i)
        PROVE  UNCHANGED loops
    BY <2>7 DEF RunStep, Decide, CreateRetry, Repoint, ApproveRetry, Settle, RunRaises,
                Finish, Recover, CrashRun, WorkStep, Enqueue, Claim, Start, End,
                AcceptTriage, LeaseOut, Human, HumanApproves, HumanCancels, HumanResolves
  <2>8. CASE UNCHANGED loops
    BY <2>1, <2>8 DEF loops
  <2> QED
    BY <2>1, <2>2, <2>3, <2>4, <2>5, <2>6, <2>7, <2>8, <2>9, <2>10, <2>11, <2>12,
       <2>13, <2>14 DEF Next, LoopStep, vars
<1> QED BY <1>2, <1>3, <1>4 DEF Touched

\* A job that has been triaged keeps its attempt.
LEMMA TouchedKeepsAttempt ==
    ASSUME TypeInv, Stays, [Next]_vars, NEW j \in DOMAIN job, Touched(j)
    PROVE  job'[j].attempt = job[j].attempt /\ job'[j].max = job[j].max
<1>0. TableStep /\ job \in [DOMAIN job -> JobRow]
  BY StepIsTableStep DEF TypeInv, TypeOK
<1>1. ASSUME NEW i \in DOMAIN job, NEW to, MoveStep(i, to)
      PROVE  job'[j].attempt = job[j].attempt /\ job'[j].max = job[j].max
  <2>1. CASE i # j
    BY <1>1, <2>1 DEF MoveStep, Moves
  <2>2. CASE i = j /\ to = "queued" /\ job[j].state \in Leased
    <3>1. job[j].attempt < job[j].max
      BY <1>1, <2>2 DEF MoveStep
    <3>2. ~(job[j].attempt >= job[j].max)
      BY <1>0, <3>1 DEF JobRow
    <3> QED BY <2>2, <3>2 DEF Stays, Leased
  <2>3. CASE i = j /\ ~(to = "queued" /\ job[j].state \in Leased)
    BY <1>1, <2>3 DEF MoveStep, Moves
  <2> QED BY <2>1, <2>2, <2>3
<1>2. ASSUME NEW i, NEW attempt, NEW max, NEW more, CreateStep(i, attempt, max, more)
      PROVE  job'[j].attempt = job[j].attempt /\ job'[j].max = job[j].max
  BY <1>2 DEF CreateStep
<1> QED BY <1>0, <1>1, <1>2 DEF TableStep

\* What run_triage decides is what it goes on with.
LEMMA PlanStep ==
    ASSUME TypeInv, [Next]_vars, NEW t \in Job, exec'[t] # "none"
    PROVE  \/ Decide(t)
           \/ exec'[t] \in {"read", "finish", "recover"}
           \/ /\ plan'[t] = plan[t]
              /\ \/ exec'[t] = exec[t]
                 \/ exec[t] = "create" /\ exec'[t] = "repoint"
                 \/ exec[t] = "repoint" /\ exec'[t] \in {"approve", "settle"}
                 \/ exec[t] = "approve" /\ exec'[t] = "settle"
<1>0. exec \in [Job -> {"none", "read", "create", "repoint", "approve",
                        "settle", "finish", "recover"}]
      /\ plan \in [Job -> [outcome : Outcome, attempt : Nat \ {0}]]
      /\ DOMAIN job \subseteq Job
  BY DEF TypeInv, TypeOK
<1>1. ASSUME NEW p \in Loop, LoopStep(p) \/ CrashLoop(p) PROVE UNCHANGED <<exec, plan>>
  BY <1>1 DEF LoopStep, SelectFailed, Flip, FlipLost, SelectOrphans, Repair,
              SpawnChild, ApproveChild, ApproveRaises, SpawnDone, CrashLoop, runs
<1>2. ASSUME NEW u \in DOMAIN job, RunStep(u) \/ CrashRun(u), u # t
      PROVE  exec'[t] = exec[t] /\ plan'[t] = plan[t]
  BY <1>0, <1>2 DEF RunStep, CrashRun, Decide, CreateRetry, Repoint, ApproveRetry,
                Settle, RunRaises, Finish, Recover, Leave
<1>3. ASSUME RunStep(t) \/ CrashRun(t), ~Decide(t)
      PROVE  \/ exec'[t] \in {"none", "finish", "recover"}
             \/ /\ plan'[t] = plan[t]
                /\ \/ exec[t] = "create" /\ exec'[t] = "repoint"
                   \/ exec[t] = "repoint" /\ exec'[t] \in {"approve", "settle"}
                   \/ exec[t] = "approve" /\ exec'[t] = "settle"
  BY <1>0, <1>3 DEF RunStep, CrashRun, CreateRetry, Repoint, ApproveRetry,
                Settle, RunRaises, Finish, Recover, Leave
<1>4. ASSUME NEW j \in DOMAIN job, Start(j)
      PROVE  plan'[t] = plan[t] /\ exec'[t] \in {exec[t], "read", "none"}
  BY <1>0, <1>4 DEF Start
<1>5. ASSUME NEW j \in DOMAIN job,
             Enqueue(j) \/ Claim(j) \/ End(j) \/ AcceptTriage(j) \/ LeaseOut(j) \/ Human(j)
      PROVE  UNCHANGED <<exec, plan>>
  BY <1>5 DEF Enqueue, Claim, End, AcceptTriage, LeaseOut, Human,
              HumanApproves, HumanCancels, HumanResolves, runs
<1>6. CASE UNCHANGED vars
  BY <1>6 DEF vars, runs
<1> QED BY <1>1, <1>2, <1>3, <1>4, <1>5, <1>6 DEF Next, WorkStep

(***************************************************************************)
(* The invariant of Spec: a job that has been triaged is tried again by    *)
(* nobody, so that the decisions of several TRIAGE jobs about it agree.    *)
(***************************************************************************)
LineInv == TypeInv /\ Stays /\ Plans /\ RetryWithinBudget /\ LineageAdvances

LEMMA LineInit == ASSUME Init PROVE LineInv
<1>1. TypeInv /\ DOMAIN job = {First}
  BY TypeInit DEF Init
<1>2. \A j \in DOMAIN job : ~Touched(j)
  <2>1. First \in Job /\ First # NoJob
    BY TriageAssumption DEF First, Job, NoJob
  <2>2. info[First] = Info("ANALYSIS", NoJob, NoJob)
    BY <2>1 DEF Init
  <2>3. \A p \in Loop : cur[p] = NoJob /\ at[p] \notin Repairing
    BY DEF Init, Repairing
  <2> QED BY <1>1, <2>1, <2>2, <2>3 DEF Touched, Info
<1>3. RetryWithinBudget
  BY <1>1, TriageAssumption DEF Init, RetryWithinBudget, NewJob
<1>4. LineageAdvances
  BY <1>1 DEF Init, LineageAdvances, Info, First, Job, TypeInv, TypeOK
<1>5. Plans
  BY DEF Init, Plans
<1> QED BY <1>1, <1>2, <1>3, <1>4, <1>5 DEF LineInv, Stays

LEMMA StaysStep == ASSUME LineInv, [Next]_vars PROVE Stays'
<1> SUFFICES ASSUME NEW j \in DOMAIN job', Touched(j)', job'[j].state # "triage"
             PROVE  \/ job'[j].attempt >= job'[j].max
                    \/ job'[j].state \in {"triage", "retry_spawned", "infeasible"}
  BY DEF Stays
<1>1. j \in DOMAIN job /\ Touched(j)
  BY TouchedStep DEF LineInv
<1>2. TableStep /\ job \in [DOMAIN job -> JobRow] /\ DOMAIN job \subseteq Job
      /\ job'[j].attempt = job[j].attempt /\ job'[j].max = job[j].max
  BY <1>1, StepIsTableStep, TouchedKeepsAttempt DEF LineInv, TypeInv, TypeOK
<1>3. CASE job[j].attempt >= job[j].max
  BY <1>2, <1>3
<1>4. CASE job[j].state \in {"triage", "retry_spawned", "infeasible"}
  <2>1. CASE job'[j].state = job[j].state
    BY <1>4, <2>1
  <2>2. ASSUME NEW to, MoveStep(j, to)
        PROVE  \/ job[j].attempt >= job[j].max
               \/ job'[j].state \in {"retry_spawned", "infeasible"}
    <3>1. to \in {"retry_spawned", "infeasible", "escalated"} /\ job'[j].state = to
      BY <1>4, <2>2 DEF MoveStep, Moves, JobTransition, LeaseExpiry, Leased, PreRunning
    <3>2. CASE to = "escalated"
      BY <1>2, <2>2, <3>2 DEF MoveStep, LineInv, Plans
    <3> QED BY <3>1, <3>2
  <2>3. ASSUME NEW i \in DOMAIN job, NEW to, MoveStep(i, to), i # j
        PROVE  job'[j].state = job[j].state
    BY <1>1, <2>3 DEF MoveStep, Moves
  <2>4. ASSUME NEW i, NEW attempt, NEW max, NEW more, CreateStep(i, attempt, max, more)
        PROVE  job'[j].state = job[j].state
    BY <1>1, <2>4 DEF CreateStep
  <2> QED BY <1>2, <2>1, <2>2, <2>3, <2>4 DEF TableStep
<1> QED BY <1>1, <1>3, <1>4 DEF LineInv, Stays

LEMMA PlansStep == ASSUME LineInv, [Next]_vars PROVE Plans'
<1> SUFFICES ASSUME NEW t \in Job,
                    exec'[t] \in {"create", "repoint", "approve", "settle"}
             PROVE  /\ exec'[t] \in {"create", "repoint", "approve"}
                         => plan'[t].outcome = "retry_spawned"
                    /\ exec'[t] = "create" =>
                         /\ plan'[t].attempt = job'[info'[t].subject].attempt
                         /\ plan'[t].attempt < job'[info'[t].subject].max
                    /\ exec'[t] = "settle" /\ plan'[t].outcome = "escalated"
                         => job'[info'[t].subject].attempt >= job'[info'[t].subject].max
  BY DEF Plans
<1> DEFINE j == info[t].subject
<1>0. /\ job \in [DOMAIN job -> JobRow]
      /\ exec \in [Job -> {"none", "read", "create", "repoint", "approve",
                        "settle", "finish", "recover"}]
      /\ plan \in [Job -> [outcome : Outcome, attempt : Nat \ {0}]]
  BY DEF LineInv, TypeInv, TypeOK
<1>1. exec[t] # "none"
  BY ExecStep DEF LineInv
<1>2. /\ t \in DOMAIN job /\ info[t].kind = "TRIAGE"
      /\ j \in DOMAIN job /\ Touched(j)
  BY <1>1 DEF LineInv, TypeInv, TypeOK, References, Touched
<1>3. info'[t].subject = j
  BY <1>2, StepIsTableStep, TableStepKeepsTables DEF LineInv, TablesKept, InfoKept
<1>4. job'[j].attempt = job[j].attempt /\ job'[j].max = job[j].max
  BY <1>2, TouchedKeepsAttempt DEF LineInv
<1>5. CASE Decide(t)
  <2>1. /\ job' = job
        /\ plan'[t] = [outcome |-> Decision(j), attempt |-> job[j].attempt]
        /\ exec'[t] = IF Decision(j) = "retry_spawned" THEN "create" ELSE "settle"
    BY <1>0, <1>5 DEF Decide
  <2>2. job[j].attempt \in Nat /\ job[j].max \in Nat
    BY <1>0, <1>2 DEF JobRow
  <2>3. Decision(j) = "escalated" => job[j].attempt >= job[j].max
    BY DEF Decision
  <2>4. Decision(j) = "retry_spawned" => job[j].attempt < job[j].max
    BY <2>2 DEF Decision
  <2> QED BY <1>3, <2>1, <2>3, <2>4
<1>6. CASE /\ plan'[t] = plan[t]
           /\ \/ exec'[t] = exec[t]
              \/ exec[t] = "create" /\ exec'[t] = "repoint"
              \/ exec[t] = "repoint" /\ exec'[t] \in {"approve", "settle"}
              \/ exec[t] = "approve" /\ exec'[t] = "settle"
  BY <1>3, <1>4, <1>6 DEF LineInv, Plans
<1> QED BY <1>5, <1>6, PlanStep DEF LineInv

LEMMA BudgetStep == ASSUME LineInv, [Next]_vars PROVE RetryWithinBudget'
<1>0. /\ TableStep /\ job \in [DOMAIN job -> JobRow] /\ DOMAIN job \subseteq Job
      /\ plan \in [Job -> [outcome : Outcome, attempt : Nat \ {0}]]
  BY StepIsTableStep DEF LineInv, TypeInv, TypeOK
<1>1. CASE UNCHANGED <<job, info>>
  BY <1>1 DEF LineInv, RetryWithinBudget
<1>2. ASSUME NEW j \in DOMAIN job, NEW to, MoveStep(j, to) PROVE RetryWithinBudget'
  <2>1. job[j].attempt \in Nat /\ job[j].max \in Nat /\ job[j].attempt <= job[j].max
    BY <1>0 DEF JobRow, LineInv, RetryWithinBudget
  <2>2. job'[j].attempt <= job'[j].max
    BY <1>2, <2>1 DEF MoveStep, Moves
  <2>3. to = "escalated" => job[j].attempt >= job[j].max
    BY <1>0, <1>2 DEF MoveStep, LineInv, Plans
  <2>4. to = "escalated" => job'[j].attempt = job'[j].max
    BY <1>2, <2>1, <2>3 DEF MoveStep, Moves
  <2> QED BY <1>2, <2>2, <2>4 DEF MoveStep, Moves, LineInv, RetryWithinBudget
<1>3. ASSUME NEW p \in Loop,
             CreateStep(NextId, 1, TriageAttempts, Info("TRIAGE", cur[p], cur[p]))
      PROVE  RetryWithinBudget'
  BY <1>3, TriageAssumption
     DEF CreateStep, NewJob, LineInv, RetryWithinBudget
<1>4. ASSUME NEW t \in DOMAIN job, CreateRetry(t),
             CreateStep(NextId, plan[t].attempt + 1, job[info[t].subject].max,
                        Info(info[info[t].subject].kind, info[t].subject,
                             info[info[t].subject].subject))
      PROVE  RetryWithinBudget'
  <2> DEFINE j == info[t].subject
  <2>1. exec[t] = "create" /\ plan[t].attempt \in Nat /\ plan[t].attempt < job[j].max
    BY <1>0, <1>4 DEF CreateRetry, LineInv, Plans
  <2>2. plan[t].attempt + 1 <= job[j].max
    BY <1>4, <2>1 DEF CreateStep
  <2> QED BY <1>4, <2>2 DEF CreateStep, NewJob, LineInv, RetryWithinBudget
<1> QED BY <1>0, <1>1, <1>2, <1>3, <1>4 DEF TableStep

LEMMA LineageStep == ASSUME LineInv, [Next]_vars PROVE LineageAdvances'
<1> SUFFICES ASSUME NEW r \in DOMAIN job', info'[r].parent # NoJob,
                    info'[r].kind = info'[info'[r].parent].kind,
                    info'[info'[r].parent].kind = "ANALYSIS"
             PROVE  job'[r].attempt > job'[info'[r].parent].attempt
  BY DEF LineageAdvances
<1>0. /\ TableStep /\ TablesKept /\ DOMAIN job \subseteq Job
      /\ job \in [DOMAIN job -> JobRow] /\ job' \in [DOMAIN job' -> JobRow]
      /\ info \in [Job -> InfoRow]
      /\ plan \in [Job -> [outcome : Outcome, attempt : Nat \ {0}]]
  BY StepIsTableStep, TableStepKeepsTables
     DEF LineInv, TypeInv, TypeOK, TablesKept, InfoRow
<1>1. CASE r \in DOMAIN job
  <2> DEFINE j == info[r].parent
  <2>1. info'[r].parent = j /\ j \in DOMAIN job /\ Touched(j)
    BY <1>0, <1>1 DEF TablesKept, InfoKept, LineInv, TypeInv, References, Touched
  <2>2. job[r].attempt > job[j].attempt
    BY <1>0, <1>1, <2>1 DEF TablesKept, InfoKept, LineInv, LineageAdvances
  <2>3. job'[j].attempt = job[j].attempt
    BY <2>1, TouchedKeepsAttempt DEF LineInv
  <2>4. job'[r].attempt \in {job[r].attempt, job[r].attempt + 1}
    BY <1>0, <1>1 DEF TableStep, MoveStep, Moves, CreateStep
  <2> QED
    <3>1. job[r].attempt \in Nat /\ job[j].attempt \in Nat
      BY <1>0, <1>1, <2>1 DEF JobRow
    <3> QED BY <2>1, <2>2, <2>3, <2>4, <3>1
<1>2. CASE r \notin DOMAIN job
  <2>1. ASSUME NEW p \in Loop,
               CreateStep(NextId, 1, TriageAttempts, Info("TRIAGE", cur[p], cur[p]))
        PROVE  FALSE
    BY <1>0, <1>2, <2>1 DEF CreateStep, Info
  <2>2. ASSUME NEW t \in DOMAIN job, CreateRetry(t),
               CreateStep(NextId, plan[t].attempt + 1, job[info[t].subject].max,
                          Info(info[info[t].subject].kind, info[t].subject,
                               info[info[t].subject].subject))
        PROVE  job'[r].attempt > job'[info'[r].parent].attempt
    <3> DEFINE j == info[t].subject
    <3>1. exec[t] = "create" /\ plan[t].attempt = job[j].attempt
      BY <1>0, <2>2 DEF CreateRetry, LineInv, Plans
    <3>2. j \in DOMAIN job /\ info'[r].parent = j
      BY <1>0, <1>2, <2>2 DEF CreateStep, Info
    <3>3. job'[r].attempt = plan[t].attempt + 1 /\ job'[j] = job[j]
      BY <1>2, <2>2, <3>2 DEF CreateStep, NewJob
    <3>4. plan[t].attempt \in Nat
      BY <1>0
    <3> QED BY <3>1, <3>2, <3>3, <3>4
  <2> QED BY <1>0, <1>2, <2>1, <2>2 DEF TableStep, MoveStep, Moves
<1> QED BY <1>1, <1>2

LEMMA LineStep == ASSUME LineInv, [Next]_vars PROVE LineInv'
<1> QED
  BY TypeStep, StaysStep, PlansStep, BudgetStep, LineageStep DEF LineInv

(***************************************************************************)
(* Retries, lease expiries and re-queues together stay within the budget.  *)
(***************************************************************************)
THEOREM WithinBudget == Spec => []RetryWithinBudget
<1> QED BY LineInit, LineStep, PTL DEF Spec, LineInv

(***************************************************************************)
(* A retry is an attempt later than its parent, for ever.                  *)
(***************************************************************************)
THEOREM LineAdvances == Spec => []LineageAdvances
<1> QED BY LineInit, LineStep, PTL DEF Spec, LineInv
-----------------------------------------------------------------------------
(***************************************************************************)
(* Where run_triage is prompt, a retry is nobody's subject when the        *)
(* dependents are pointed at it, and none is left with a job that is about *)
(* to become retry_spawned.                                                *)
(***************************************************************************)
FreshRetry == \A t \in Job : exec[t] = "repoint" => ~Touched(retry[t])

Repointed ==
    \A t \in Job :
        exec[t] \in {"approve", "settle"} /\ plan[t].outcome = "retry_spawned"
          => \A d \in Dependent : dep[d] # info[t].subject

PromptInv == LineInv /\ Prompt /\ FreshRetry /\ Repointed /\ NoHusk

\* Dependents are only repointed by run_triage, from the subject to the retry.
LEMMA DepStep ==
    ASSUME TypeInv, [Next]_vars
    PROVE  \/ dep' = dep
           \/ \E t \in DOMAIN job :
                /\ exec[t] = "repoint" /\ job' = job
                /\ \A d \in Dependent :
                      \/ dep'[d] = retry[t]
                      \/ dep'[d] = dep[d] /\ dep[d] # info[t].subject
                /\ \A u \in Job : u # t => exec'[u] = exec[u]
<1>0. exec \in [Job -> {"none", "read", "create", "repoint", "approve",
                        "settle", "finish", "recover"}]
      /\ DOMAIN job \subseteq Job
  BY DEF TypeInv, TypeOK
<1>1. ASSUME NEW p \in Loop, LoopStep(p) \/ CrashLoop(p) PROVE dep' = dep
  BY <1>1 DEF LoopStep, SelectFailed, Flip, FlipLost, SelectOrphans, Repair,
              SpawnChild, ApproveChild, ApproveRaises, SpawnDone, CrashLoop
<1>2. ASSUME NEW t \in DOMAIN job, Repoint(t)
      PROVE  /\ exec[t] = "repoint" /\ job' = job
             /\ \A d \in Dependent :
                      \/ dep'[d] = retry[t]
                      \/ dep'[d] = dep[d] /\ dep[d] # info[t].subject
             /\ \A u \in Job : u # t => exec'[u] = exec[u]
  BY <1>0, <1>2 DEF Repoint
<1>3. ASSUME NEW t \in DOMAIN job, RunStep(t) \/ CrashRun(t), ~Repoint(t)
      PROVE  dep' = dep
  BY <1>3 DEF RunStep, CrashRun, Decide, CreateRetry, ApproveRetry, Settle,
              RunRaises, Finish, Recover
<1>4. ASSUME NEW j \in DOMAIN job, WorkStep(j) \/ LeaseOut(j) \/ Human(j)
      PROVE  dep' = dep
  BY <1>4 DEF WorkStep, Enqueue, Claim, Start, End, AcceptTriage, LeaseOut, Human,
              HumanApproves, HumanCancels, HumanResolves
<1>5. CASE UNCHANGED vars
  BY <1>5 DEF vars
<1> QED BY <1>1, <1>2, <1>3, <1>4, <1>5 DEF Next

\* A worker about to repoint has just created its retry.
LEMMA RetryStep ==
    ASSUME TypeInv, [Next]_vars, NEW t \in Job, exec'[t] = "repoint"
    PROVE  \/ exec[t] = "repoint" /\ retry'[t] = retry[t]
           \/ t \in DOMAIN job /\ CreateRetry(t)
<1>0. exec \in [Job -> {"none", "read", "create", "repoint", "approve",
                        "settle", "finish", "recover"}]
      /\ retry \in [Job -> DOMAIN job \cup {NoJob}] /\ DOMAIN job \subseteq Job
  BY DEF TypeInv, TypeOK
<1>1. ASSUME NEW p \in Loop, LoopStep(p) \/ CrashLoop(p) PROVE UNCHANGED <<exec, retry>>
  BY <1>1 DEF LoopStep, SelectFailed, Flip, FlipLost, SelectOrphans, Repair,
              SpawnChild, ApproveChild, ApproveRaises, SpawnDone, CrashLoop, runs
<1>2. ASSUME NEW u \in DOMAIN job, RunStep(u) \/ CrashRun(u), u # t
      PROVE  exec'[t] = exec[t] /\ retry'[t] = retry[t]
  BY <1>0, <1>2 DEF RunStep, CrashRun, Decide, CreateRetry, Repoint, ApproveRetry,
                Settle, RunRaises, Finish, Recover, Leave
<1>3. ASSUME RunStep(t) \/ CrashRun(t) PROVE CreateRetry(t)
  BY <1>0, <1>3 DEF RunStep, CrashRun, Decide, Repoint, ApproveRetry,
                Settle, RunRaises, Finish, Recover, Leave
<1>4. ASSUME NEW j \in DOMAIN job, Start(j)
      PROVE  exec[t] = "repoint" /\ retry'[t] = retry[t]
  BY <1>0, <1>4 DEF Start
<1>5. ASSUME NEW j \in DOMAIN job,
             Enqueue(j) \/ Claim(j) \/ End(j) \/ AcceptTriage(j) \/ LeaseOut(j) \/ Human(j)
      PROVE  UNCHANGED <<exec, retry>>
  BY <1>5 DEF Enqueue, Claim, End, AcceptTriage, LeaseOut, Human,
              HumanApproves, HumanCancels, HumanResolves, runs
<1>6. CASE UNCHANGED vars
  BY <1>6 DEF vars, runs
<1> QED BY <1>1, <1>2, <1>3, <1>4, <1>5, <1>6 DEF Next, WorkStep

\* It leaves that step by repointing.
LEMMA RepointLeaves ==
    ASSUME TypeInv, [Next]_vars, NEW t \in Job, exec[t] = "repoint",
           exec'[t] \in {"approve", "settle"}
    PROVE  Repoint(t)
<1>0. exec \in [Job -> {"none", "read", "create", "repoint", "approve",
                        "settle", "finish", "recover"}]
      /\ DOMAIN job \subseteq Job
  BY DEF TypeInv, TypeOK
<1>1. ASSUME NEW p \in Loop, LoopStep(p) \/ CrashLoop(p) PROVE exec' = exec
  BY <1>1 DEF LoopStep, SelectFailed, Flip, FlipLost, SelectOrphans, Repair,
              SpawnChild, ApproveChild, ApproveRaises, SpawnDone, CrashLoop, runs
<1>2. ASSUME NEW u \in DOMAIN job, RunStep(u) \/ CrashRun(u), u # t
      PROVE  exec'[t] = exec[t]
  BY <1>0, <1>2 DEF RunStep, CrashRun, Decide, CreateRetry, Repoint, ApproveRetry,
                Settle, RunRaises, Finish, Recover, Leave
<1>3. ASSUME RunStep(t) \/ CrashRun(t) PROVE Repoint(t)
  BY <1>0, <1>3 DEF RunStep, CrashRun, Decide, CreateRetry, ApproveRetry,
                Settle, RunRaises, Finish, Recover, Leave
<1>4. ASSUME NEW j \in DOMAIN job, Start(j)
      PROVE  exec'[t] \in {exec[t], "read", "none"}
  BY <1>0, <1>4 DEF Start
<1>5. ASSUME NEW j \in DOMAIN job,
             Enqueue(j) \/ Claim(j) \/ End(j) \/ AcceptTriage(j) \/ LeaseOut(j) \/ Human(j)
      PROVE  exec' = exec
  BY <1>5 DEF Enqueue, Claim, End, AcceptTriage, LeaseOut, Human,
              HumanApproves, HumanCancels, HumanResolves, runs
<1>6. CASE UNCHANGED vars
  BY <1>6 DEF vars, runs
<1> QED BY <1>1, <1>2, <1>3, <1>4, <1>5, <1>6 DEF Next, WorkStep

LEMMA PromptInit == ASSUME Init PROVE PromptInv
<1>1. LineInv
  BY LineInit
<1>2. \A t \in Job : exec[t] = "none"
  BY DEF Init
<1>3. DOMAIN job \subseteq Job
  BY <1>1 DEF LineInv, TypeInv, TypeOK
<1>4. Prompt /\ FreshRetry /\ Repointed
  BY <1>2, <1>3 DEF Prompt, FreshRetry, Repointed
<1>5. NoHusk
  BY DEF Init, NoHusk, NewJob
<1> QED BY <1>1, <1>4, <1>5 DEF PromptInv

LEMMA FreshRetryStep ==
    ASSUME PromptInv, [Next /\ Prompt']_vars PROVE FreshRetry'
<1> SUFFICES ASSUME NEW t \in Job, exec'[t] = "repoint",
                    NEW r, r = retry'[t], Touched(r)'
             PROVE  FALSE
  BY DEF FreshRetry, Touched
<1>1. TypeInv /\ TypeInv' /\ [Next]_vars /\ Prompt'
  <2>1. CASE UNCHANGED vars
    BY <2>1, TypeStep DEF PromptInv, LineInv, vars, runs, Prompt
  <2>2. CASE Next /\ Prompt'
    BY <2>2, TypeStep DEF PromptInv, LineInv
  <2> QED BY <2>1, <2>2
<1>2. t \in DOMAIN job' /\ r \in DOMAIN job'
  BY <1>1 DEF TypeInv, References
<1>3. job'[r].state # "triage"
  BY <1>1, <1>2 DEF Prompt, PreRunning
<1>4. r \in DOMAIN job /\ Touched(r)
  BY <1>1, <1>2, <1>3, TouchedStep
<1>5. CASE exec[t] = "repoint" /\ retry'[t] = retry[t]
  BY <1>4, <1>5 DEF PromptInv, FreshRetry
<1>6. CASE t \in DOMAIN job /\ CreateRetry(t)
  <2>1. r = NextId
    BY <1>1, <1>6 DEF CreateRetry, TypeInv, TypeOK
  <2> QED BY <1>1, <1>4, <2>1, NextIdIsNew DEF TypeInv
<1> QED BY <1>1, <1>5, <1>6, RetryStep

LEMMA RepointedStep ==
    ASSUME PromptInv, [Next]_vars PROVE Repointed'
<1> SUFFICES ASSUME NEW t \in Job, exec'[t] \in {"approve", "settle"},
                    plan'[t].outcome = "retry_spawned", NEW d \in Dependent
             PROVE  dep'[d] # info'[t].subject
  BY DEF Repointed
<1> DEFINE j == info[t].subject
<1>0. TypeInv /\ DOMAIN job \subseteq Job
      /\ plan \in [Job -> [outcome : Outcome, attempt : Nat \ {0}]]
      /\ exec \in [Job -> {"none", "read", "create", "repoint", "approve",
                        "settle", "finish", "recover"}]
  BY DEF PromptInv, LineInv, TypeInv, TypeOK
<1>1. exec[t] # "none"
  BY <1>0, ExecStep
<1>2. t \in DOMAIN job /\ Touched(j)
  BY <1>0, <1>1 DEF TypeInv, References, Touched
<1>3. info'[t].subject = j
  BY <1>0, <1>2, StepIsTableStep, TableStepKeepsTables DEF TablesKept, InfoKept
<1>4. ~Decide(t)
  BY <1>0 DEF Decide
<1>5. /\ plan'[t] = plan[t]
      /\ exec[t] \in {"approve", "settle"} \/ exec[t] = "repoint"
  BY <1>0, <1>4, PlanStep
<1>6. CASE exec[t] \in {"approve", "settle"}
  <2>1. dep[d] # j
    BY <1>5, <1>6 DEF PromptInv, Repointed
  <2>2. ASSUME NEW u \in DOMAIN job, exec[u] = "repoint" PROVE retry[u] # j
    BY <1>0, <1>2, <2>2 DEF PromptInv, FreshRetry
  <2> QED BY <1>0, <1>3, <2>1, <2>2, DepStep
<1>7. CASE exec[t] = "repoint"
  <2>1. Repoint(t)
    BY <1>0, <1>4, <1>7, RepointLeaves
  <2>2. dep'[d] = retry[t] \/ dep'[d] # j
    BY <2>1 DEF Repoint
  <2>3. retry[t] # j
    BY <1>2, <1>7 DEF PromptInv, FreshRetry
  <2> QED BY <1>3, <2>2, <2>3
<1> QED BY <1>5, <1>6, <1>7

LEMMA NoHuskStep ==
    ASSUME PromptInv, [Next]_vars PROVE NoHusk'
<1> SUFFICES ASSUME NEW d \in Dependent, job'[dep'[d]].state = "retry_spawned"
             PROVE  FALSE
  BY DEF NoHusk
<1>0. /\ TypeInv /\ TableStep /\ DOMAIN job \subseteq Job
      /\ dep \in [Dependent -> DOMAIN job]
      /\ job[dep[d]].state # "retry_spawned"
  BY StepIsTableStep DEF PromptInv, LineInv, TypeInv, TypeOK, NoHusk
<1>1. CASE dep' = dep
  <2>1. ASSUME NEW i \in DOMAIN job, NEW to, MoveStep(i, to) PROVE FALSE
    <3>1. i = dep[d] /\ to = "retry_spawned"
      BY <1>0, <1>1, <2>1 DEF MoveStep, Moves
    <3>2. PICK t \in DOMAIN job : /\ exec[t] = "settle" /\ info[t].subject = i
                                  /\ plan[t].outcome = "retry_spawned"
      BY <2>1, <3>1 DEF MoveStep
    <3> QED BY <1>0, <3>1, <3>2 DEF PromptInv, Repointed
  <2>2. ASSUME NEW i, NEW attempt, NEW max, NEW more, CreateStep(i, attempt, max, more)
        PROVE  FALSE
    BY <1>0, <1>1, <2>2 DEF CreateStep
  <2> QED BY <1>0, <1>1, <2>1, <2>2 DEF TableStep
<1>2. ASSUME NEW t \in DOMAIN job, exec[t] = "repoint", job' = job,
             dep'[d] = retry[t] \/ dep'[d] = dep[d]
      PROVE  FALSE
  BY <1>0, <1>2 DEF PromptInv, Prompt, PreRunning
<1> QED BY <1>0, <1>1, <1>2, DepStep

LEMMA PromptStep ==
    ASSUME PromptInv, [Next /\ Prompt']_vars PROVE PromptInv'
<1>1. [Next]_vars
  OBVIOUS
<1>2. Prompt'
  BY DEF PromptInv, vars, runs, Prompt
<1> QED
  BY <1>1, <1>2, LineStep, FreshRetryStep, RepointedStep, NoHuskStep DEF PromptInv

(***************************************************************************)
(* No dependent is ever left waiting for a retry_spawned husk, as long as  *)
(* run_triage gets from create_job to UPDATE job_dep before the retry has  *)
(* failed.                                                                 *)
(***************************************************************************)
THEOREM NobodyWaitsForAHusk == PromptSpec => []NoHusk
<1> QED BY PromptInit, PromptStep, PTL DEF PromptSpec, PromptInv
-----------------------------------------------------------------------------
(***************************************************************************)
(* No failure is forgotten.  The strengthening: a job about to be handed   *)
(* over has its heir, a TRIAGE job that is done has given its subject an   *)
(* outcome, and whoever has a child is the subject of a TRIAGE job.        *)
(***************************************************************************)
Heir(r, j) ==
    /\ r \in DOMAIN job /\ r > j
    /\ info[r].parent = j /\ info[r].kind = info[j].kind
    /\ info[r].subject = info[j].subject

HasHeir(j) == \E r \in Job : Heir(r, j)

HeirsExist ==
    /\ \A j \in DOMAIN job : job[j].state = "retry_spawned" => HasHeir(j)
    /\ \A t \in Job :
          /\ exec[t] \in {"repoint", "approve"} => HasHeir(info[t].subject)
          /\ exec[t] = "settle" /\ plan[t].outcome = "retry_spawned"
               => HasHeir(info[t].subject)

Concerns(t, j) == info[t].kind = "TRIAGE" /\ info[t].subject = j

Given == Outcome \cup {"cancelled"}

Done(t) ==
    /\ info[t].kind = "TRIAGE"
    /\ exec[t] = "finish" \/ job[t].state \in {"succeeded", "accepted"}

DoneIsDone ==
    requeues = 0 =>
        \A t \in DOMAIN job : Done(t) => job[info[t].subject].state \in Given

Looked ==
    /\ \A t \in DOMAIN job : info[t].kind = "TRIAGE" => t > info[t].subject
    /\ \A r \in DOMAIN job : info[r].parent # NoJob =>
          \E t \in DOMAIN job : Concerns(t, info[r].parent)

CareInv ==
    LineInv /\ requeues \in Nat /\ HeirsExist /\ DoneIsDone /\ Looked

\* Ids grow.
LEMMA IdsGrow ==
    ASSUME TypeInv, NEW j \in Job, j \notin DOMAIN job, NEW i \in DOMAIN job
    PROVE  j > i
  BY DEF TypeInv, Dense, Job

\* Of a set of ids that is not empty, one is the last.
LEMMA LastOne ==
    ASSUME NEW T, T \subseteq Job, T # {}
    PROVE  \E t \in T : \A u \in T : u <= t
<1> DEFINE Away == {MaxJobs - t : t \in T}
           Less == OpToRel(<, Nat)
<1>1. MaxJobs \in Nat /\ \A t \in T : t \in Nat /\ MaxJobs - t \in Nat
  BY TriageAssumption DEF Job
<1>2. Away \subseteq Nat /\ Away # {}
  BY <1>1
<1>3. IsWellFoundedOn(Less, Nat)
  BY NatLessThanWellFounded
<1>4. PICK x \in Away : \A y \in Away : <<y, x>> \notin Less
  <2> HIDE DEF Away, Less
  <2> QED BY <1>2, <1>3, WFMin
<1>5. PICK t \in T : x = MaxJobs - t
  BY <1>4
<1>6. ASSUME NEW u \in T PROVE u <= t
  <2>1. MaxJobs - u \in Away
    OBVIOUS
  <2>2. <<MaxJobs - u, x>> \notin Less /\ x \in Nat /\ MaxJobs - u \in Nat
    BY <1>2, <1>4, <2>1
  <2>3. ~(MaxJobs - u < x)
    BY <2>2 DEF OpToRel
  <2> QED BY <1>1, <1>5, <2>3
<1> QED BY <1>6

\* A job that was put before a human is only queued again by one.
LEMMA RequeueStep ==
    ASSUME TypeInv, [Next]_vars, requeues \in Nat
    PROVE  /\ requeues' \in Nat /\ requeues' >= requeues
           /\ \A j \in DOMAIN job :
                 job[j].state = "escalated" /\ job'[j].state = "queued"
                   => requeues' > requeues
<1>0. /\ job \in [DOMAIN job -> JobRow] /\ DOMAIN job \subseteq Job
      /\ NoArgs \in MoveArgs /\ ClaimArgs(CHOOSE w \in Worker : TRUE) \in MoveArgs
  BY ArgsAreArgs DEF TypeInv, TypeOK
<1> DEFINE Quiet == /\ requeues' = requeues
                    /\ \A j \in DOMAIN job : job[j].state = "escalated"
                                               => job'[j].state # "queued"
<1>1. ASSUME NEW i, NEW to, Moves(i, to), requeues' = requeues,
             to = "queued" => job[i].state # "escalated"
      PROVE  Quiet
  BY <1>1 DEF Moves
<1>2. ASSUME NEW i, NEW attempt \in Nat \ {0}, NEW max \in Nat \ {0}, NEW more,
             Create(i, attempt, max, more), requeues' = requeues
      PROVE  Quiet
  BY <1>0, <1>2, CreateEffect DEF TypeInv
<1>3. ASSUME job' = job, requeues' = requeues PROVE Quiet
  BY <1>3
<1> HIDE DEF Quiet
<1>4. ASSUME NEW p \in Loop, LoopStep(p) \/ CrashLoop(p) PROVE Quiet
  <2>1. CASE Flip(p)
    <3>1. PICK j \in rows[p] : Move(j, "triage", FALSE, "failed", NoArgs)
      BY <2>1 DEF Flip
    <3> QED BY <1>0, <1>1, <2>1, <3>1, MoveEffect DEF Flip
  <2>2. CASE ApproveChild(p)
    BY <1>0, <1>1, <2>2, MoveEffect DEF ApproveChild
  <2>3. CASE SpawnChild(p)
    <3>1. TriageAttempts \in Nat \ {0}
      BY TriageAssumption
    <3> QED BY <1>2, <2>3, <3>1 DEF SpawnChild
  <2> QED
    BY <1>3, <1>4, <2>1, <2>2, <2>3
       DEF LoopStep, SelectFailed, FlipLost, SelectOrphans, Repair, ApproveRaises,
           SpawnDone, CrashLoop
<1>5. ASSUME NEW t \in DOMAIN job, RunStep(t) \/ CrashRun(t) PROVE Quiet
  <2>1. CASE CreateRetry(t)
    <3> DEFINE j == info[t].subject
    <3>1. t \in Job /\ j \in DOMAIN job
      BY <1>0, <2>1 DEF CreateRetry, TypeInv, TypeOK, References
    <3>2. plan[t].attempt + 1 \in Nat \ {0} /\ job[j].max \in Nat \ {0}
      BY <1>0, <3>1 DEF TypeInv, TypeOK, JobRow
    <3>3. Create(NextId, plan[t].attempt + 1, job[j].max,
                 Info(info[j].kind, j, info[j].subject))
      BY <2>1 DEF CreateRetry
    <3> HIDE DEF j
    <3> QED BY <1>2, <2>1, <3>2, <3>3 DEF CreateRetry
  <2>2. CASE ApproveRetry(t)
    BY <1>0, <1>1, <2>2, MoveEffect DEF ApproveRetry
  <2>3. CASE Settle(t)
    <3>1. plan[t].outcome # "queued"
      BY <1>0 DEF TypeInv, TypeOK, Outcome
    <3> QED BY <1>0, <1>1, <2>3, <3>1, MoveEffect DEF Settle
  <2>4. CASE Finish(t) \/ Recover(t)
    BY <1>0, <1>1, <2>4, MoveEffect DEF Finish, Recover
  <2> QED
    BY <1>3, <1>5, <2>1, <2>2, <2>3, <2>4
       DEF RunStep, Decide, Repoint, RunRaises, CrashRun
<1>6. ASSUME NEW j \in DOMAIN job, WorkStep(j) \/ LeaseOut(j) PROVE Quiet
  <2>1. PICK to \in {"queued", "assigned", "running", "succeeded", "failed", "accepted"},
             from \in {"approved", "queued", "assigned", "running", "succeeded"},
             args \in MoveArgs :
           Move(j, to, FALSE, from, args)
    BY <1>0, <1>6 DEF WorkStep, Enqueue, Claim, Start, End, AcceptTriage, LeaseOut, Leased
  <2>2. Moves(j, to) /\ job[j].state = from
    BY <1>0, <2>1, MoveEffect, NullsAssumption DEF JobState, PreRunning
  <2>3. requeues' = requeues
    BY <1>6 DEF WorkStep, Enqueue, Claim, Start, End, AcceptTriage, LeaseOut
  <2> QED BY <1>1, <2>2, <2>3
<1>7. ASSUME NEW j \in DOMAIN job, Human(j)
      PROVE  Quiet \/ requeues' = requeues + 1
  <2>1. CASE HumanApproves(j) \/ HumanCancels(j)
    BY <1>0, <1>1, <2>1, MoveEffect DEF HumanApproves, HumanCancels
  <2>2. CASE HumanResolves(j)
    <3>1. ASSUME NEW to \in {"cancelled", "infeasible"}, requeues' = requeues,
                 Move(j, to, TRUE, "escalated", NoArgs)
          PROVE  Quiet
      BY <1>0, <1>1, <3>1, MoveEffect
    <3> QED BY <2>2, <3>1 DEF HumanResolves
  <2> QED BY <1>7, <2>1, <2>2 DEF Human
<1>8. CASE UNCHANGED vars
  BY <1>3, <1>8 DEF vars
<1> QED BY <1>4, <1>5, <1>6, <1>7, <1>8 DEF Next, Quiet
\* Heirs stay, and a new row is the heir its creator means it to be.
LEMMA HeirStays ==
    ASSUME TypeInv, [Next]_vars, NEW j \in DOMAIN job, HasHeir(j)
    PROVE  HasHeir(j)'
<1>1. TablesKept
  BY StepIsTableStep, TableStepKeepsTables
<1>2. PICK r \in Job : Heir(r, j)
  BY DEF HasHeir
<1>3. r \in DOMAIN job' /\ j \in DOMAIN job'
  BY <1>1, <1>2 DEF Heir, TablesKept
<1>4. Heir(r, j)'
  BY <1>1, <1>2, <1>3 DEF Heir, TablesKept, InfoKept
<1> QED BY <1>4 DEF HasHeir

LEMMA RetryIsHeir ==
    ASSUME LineInv, [Next]_vars, NEW t \in DOMAIN job, CreateRetry(t),
           NEW j, j = info[t].subject
    PROVE  HasHeir(j)'
<1> DEFINE max == job[j].max
           more == Info(info[j].kind, j, info[j].subject)
<1>1. /\ TypeInv /\ TablesKept /\ DOMAIN job \subseteq Job
      /\ info \in [Job -> InfoRow]
      /\ job \in [DOMAIN job -> JobRow]
      /\ plan \in [Job -> [outcome : Outcome, attempt : Nat \ {0}]]
  BY StepIsTableStep, TableStepKeepsTables DEF LineInv, TypeInv, TypeOK, InfoRow
<1>2. j \in DOMAIN job
  BY <1>1 DEF CreateRetry, References, TypeInv, TypeOK
<1>3. plan[t].attempt + 1 \in Nat \ {0} /\ max \in Nat \ {0}
  BY <1>1, <1>2 DEF JobRow
<1>4. Create(NextId, plan[t].attempt + 1, max, more)
  BY DEF CreateRetry
<1>5. more.parent = j /\ more.kind = info[j].kind /\ more.subject = info[j].subject
  BY DEF Info
<1> HIDE DEF max, more
<1>6. /\ NextId \in Job /\ NextId \notin DOMAIN job
      /\ DOMAIN job' = DOMAIN job \cup {NextId}
      /\ info' = [info EXCEPT ![NextId] = more]
  BY <1>1, <1>3, <1>4, CreateEffect DEF TypeInv
<1>7. PICK r \in Job : r = NextId
  BY <1>6
<1>8. /\ r \in DOMAIN job' /\ r > j /\ info'[r].parent = j
      /\ info'[r].kind = info'[j].kind /\ info'[r].subject = info'[j].subject
  BY <1>1, <1>2, <1>5, <1>6, <1>7, IdsGrow
<1>9. Heir(r, j)'
  BY <1>8 DEF Heir
<1> QED BY <1>9 DEF HasHeir

LEMMA HeirsStep == ASSUME CareInv, [Next]_vars PROVE HeirsExist'
<1>0. /\ LineInv /\ TypeInv /\ TableStep /\ TablesKept /\ DOMAIN job \subseteq Job
      /\ exec \in [Job -> {"none", "read", "create", "repoint", "approve",
                        "settle", "finish", "recover"}]
      /\ plan \in [Job -> [outcome : Outcome, attempt : Nat \ {0}]]
  BY StepIsTableStep, TableStepKeepsTables DEF CareInv, LineInv, TypeInv, TypeOK
<1>1. ASSUME NEW t \in Job, exec'[t] \in {"repoint", "approve", "settle"},
             exec'[t] = "settle" => plan'[t].outcome = "retry_spawned"
      PROVE  \E j \in DOMAIN job : info'[t].subject = j /\ HasHeir(j)'
  <2>1. exec[t] # "none"
    BY <1>0, <1>1, ExecStep
  <2>2. t \in DOMAIN job /\ info[t].kind = "TRIAGE" /\ info[t].subject \in DOMAIN job
    BY <1>0, <2>1 DEF TypeInv, TypeOK, References
  <2>3. PICK j \in DOMAIN job : j = info[t].subject /\ info'[t].subject = j
    BY <1>0, <2>2 DEF TablesKept, InfoKept
  <2>4. CASE Decide(t)
    <3>1. exec'[t] = IF plan'[t].outcome = "retry_spawned" THEN "create" ELSE "settle"
      BY <1>0, <2>4 DEF Decide
    <3> QED BY <1>1, <3>1
  <2>5. CASE /\ plan'[t] = plan[t]
             /\ \/ exec'[t] = exec[t]
                \/ exec[t] = "create" /\ exec'[t] = "repoint"
                \/ exec[t] = "repoint" /\ exec'[t] \in {"approve", "settle"}
                \/ exec[t] = "approve" /\ exec'[t] = "settle"
    <3>1. CASE exec[t] = "create"
      <4>1. exec'[t] = "repoint"
        BY <1>1, <2>5, <3>1
      <4>2. CreateRetry(t)
        BY <1>0, <3>1, <4>1, RetryStep
      <4> QED BY <1>0, <2>2, <2>3, <4>2, RetryIsHeir
    <3>2. CASE exec[t] # "create"
      <4>1. HasHeir(j)
        BY <1>1, <2>3, <2>5, <3>2 DEF CareInv, HeirsExist
      <4> QED BY <1>0, <2>3, <4>1, HeirStays
    <3> QED BY <3>1, <3>2
  <2> QED BY <1>0, <1>1, <2>4, <2>5, PlanStep
<1>2. ASSUME NEW j \in DOMAIN job', job'[j].state = "retry_spawned"
      PROVE  HasHeir(j)'
  <2>1. j \in DOMAIN job /\ HasHeir(j)
    <3>1. CASE UNCHANGED <<job, info>>
      BY <1>2, <3>1 DEF CareInv, HeirsExist
    <3>2. ASSUME NEW i \in DOMAIN job, NEW to, MoveStep(i, to)
          PROVE  j \in DOMAIN job /\ HasHeir(j)
      <4>1. j \in DOMAIN job
        BY <1>2, <3>2 DEF MoveStep, Moves
      <4>2. CASE i # j
        BY <1>2, <3>2, <4>1, <4>2 DEF MoveStep, Moves, CareInv, HeirsExist
      <4>3. CASE i = j
        <5>1. to = "retry_spawned"
          BY <1>2, <3>2, <4>3 DEF MoveStep, Moves
        <5>2. PICK t \in DOMAIN job : /\ exec[t] = "settle" /\ info[t].subject = j
                                      /\ plan[t].outcome = "retry_spawned"
          BY <3>2, <4>3, <5>1 DEF MoveStep
        <5> QED BY <1>0, <4>1, <5>2 DEF CareInv, HeirsExist
      <4> QED BY <4>2, <4>3
    <3>3. ASSUME NEW i, NEW attempt, NEW max, NEW more, CreateStep(i, attempt, max, more)
          PROVE  j \in DOMAIN job /\ HasHeir(j)
      BY <1>2, <3>3 DEF CreateStep, NewJob, CareInv, HeirsExist
    <3> QED BY <1>0, <3>1, <3>2, <3>3 DEF TableStep
  <2> QED BY <1>0, <2>1, HeirStays
<1>3. ASSUME NEW t \in Job, exec'[t] \in {"repoint", "approve", "settle"},
             exec'[t] = "settle" => plan'[t].outcome = "retry_spawned"
      PROVE  HasHeir(info[t].subject)'
  <2>1. PICK j \in DOMAIN job : info'[t].subject = j /\ HasHeir(j)'
    BY <1>1, <1>3
  <2> QED BY <2>1 DEF HasHeir, Heir
<1> QED BY <1>2, <1>3 DEF HeirsExist

\* A TRIAGE job is done by settling its subject.
LEMMA DoneStep ==
    ASSUME TypeInv, [Next]_vars, NEW t \in DOMAIN job', Done(t)'
    PROVE  t \in DOMAIN job /\ (Done(t) \/ job'[info[t].subject].state \in Given)
<1>0. /\ TableStep /\ TablesKept /\ DOMAIN job \subseteq Job
      /\ job \in [DOMAIN job -> JobRow]
      /\ NoArgs \in MoveArgs
      /\ exec \in [Job -> {"none", "read", "create", "repoint", "approve",
                        "settle", "finish", "recover"}]
      /\ plan \in [Job -> [outcome : Outcome, attempt : Nat \ {0}]]
  BY StepIsTableStep, TableStepKeepsTables, ArgsAreArgs DEF TypeInv, TypeOK
<1> DEFINE Ended == {"succeeded", "accepted"}
<1>1. t \in Job
  BY <1>0 DEF TablesKept
<1>2. t \in DOMAIN job
  <2>1. CASE exec'[t] = "finish"
    BY <2>1, ExecRuns
  <2>2. CASE job'[t].state \in Ended
    <3>1. ASSUME NEW i, NEW attempt, NEW max, NEW more, CreateStep(i, attempt, max, more)
          PROVE  t \in DOMAIN job
      BY <2>2, <3>1 DEF CreateStep, NewJob
    <3>2. ASSUME NEW i \in DOMAIN job, NEW to, MoveStep(i, to) PROVE t \in DOMAIN job
      BY <3>2 DEF MoveStep, Moves
    <3> QED BY <1>0, <3>1, <3>2 DEF TableStep
  <2> QED BY <2>1, <2>2 DEF Done
<1>3. info[t].kind = "TRIAGE" /\ info[t].subject \in DOMAIN job
  BY <1>0, <1>2 DEF Done, TablesKept, InfoKept, TypeInv, TypeOK
<1>4. SUFFICES ASSUME ~Done(t) PROVE job'[info[t].subject].state \in Given
  BY <1>2
<1>5. exec[t] # "finish" /\ job[t].state \notin Ended
  BY <1>3, <1>4 DEF Done
<1>6. ASSUME NEW i \in DOMAIN job, RunStep(i) \/ CrashRun(i)
      PROVE  job'[info[t].subject].state \in Given
  <2>1. CASE i = t /\ Settle(t)
    <3>1. Moves(info[t].subject, plan[t].outcome) /\ plan[t].outcome \in Outcome
      BY <1>0, <1>1, <2>1, MoveEffect DEF Settle
    <3> QED BY <3>1 DEF Moves, Given
  <2>2. CASE ~(i = t /\ Settle(t))
    <3>1. exec'[t] # "finish"
      <4>1. CASE i = t
        BY <1>0, <1>1, <1>5, <1>6, <2>2, <4>1
           DEF RunStep, CrashRun, Decide, CreateRetry, Repoint, ApproveRetry,
               RunRaises, Finish, Recover, Leave
      <4>2. CASE i # t
        BY <1>0, <1>1, <1>5, <1>6, <4>2
           DEF RunStep, CrashRun, Decide, CreateRetry, Repoint, ApproveRetry,
               Settle, RunRaises, Finish, Recover, Leave
      <4> QED BY <4>1, <4>2
    <3>2. job'[t].state \notin Ended
      <4>1. CASE Finish(i)
        <5>1. i # t /\ Moves(i, "succeeded")
          BY <1>0, <1>5, <4>1, MoveEffect DEF Finish
        <5> QED BY <1>2, <1>5, <5>1 DEF Moves
      <4>2. CASE Recover(i)
        <5>1. Moves(i, "failed")
          BY <1>0, <4>2, MoveEffect DEF Recover
        <5> QED BY <1>2, <1>5, <5>1 DEF Moves
      <4>3. CASE Settle(i)
        <5>1. Moves(info[i].subject, plan[i].outcome) /\ plan[i].outcome \in Outcome
          BY <1>0, <4>3, MoveEffect DEF Settle
        <5> QED BY <1>2, <1>5, <5>1 DEF Moves, Outcome
      <4>4. CASE ApproveRetry(i)
        <5>1. Moves(retry[i], "approved")
          BY <1>0, <4>4, MoveEffect DEF ApproveRetry
        <5> QED BY <1>2, <1>5, <5>1 DEF Moves
      <4>5. CASE CreateRetry(i)
        BY <1>2, <1>5, <4>5, NextIdIsNew DEF CreateRetry, Create, Inserted, TypeInv
      <4> QED
        BY <1>5, <1>6, <4>1, <4>2, <4>3, <4>4, <4>5
           DEF RunStep, Decide, Repoint, RunRaises, CrashRun
    <3> QED BY <1>5, <3>1, <3>2 DEF Done
  <2> QED BY <2>1, <2>2
<1>7. ASSUME NEW i \in DOMAIN job, NEW to, NEW from, NEW human, NEW args \in MoveArgs,
             Move(i, to, human, from, args), to \in Ended => info[i].kind # "TRIAGE"
      PROVE  job'[t].state \notin Ended
  <2>1. Moves(i, to)
    BY <1>0, <1>7, MoveEffect
  <2> QED BY <1>2, <1>3, <1>5, <1>7, <2>1 DEF Moves
<1>8. ASSUME NEW i \in DOMAIN job, WorkStep(i) \/ LeaseOut(i) \/ Human(i),
             ~AcceptTriage(i)
      PROVE  FALSE
  <2>1. exec'[t] # "finish"
    BY <1>0, <1>1, <1>5, <1>8
       DEF WorkStep, Enqueue, Claim, Start, End, LeaseOut, Human, HumanApproves,
           HumanCancels, HumanResolves, runs
  <2>2. ClaimArgs(CHOOSE w \in Worker : TRUE) \in MoveArgs
    BY ArgsAreArgs
  <2>3. PICK to \in JobState, from \in JobState, human \in BOOLEAN, args \in MoveArgs :
           /\ Move(i, to, human, from, args)
           /\ to \in Ended => info[i].kind # "TRIAGE"
    <3>1. \A s \in {"queued", "assigned", "running", "succeeded", "failed", "approved",
                    "cancelled", "infeasible", "proposed", "escalated"} : s \in JobState
      BY DEF JobState, PreRunning, TerminalJobState
    <3>2. CASE Enqueue(i)
      BY <1>0, <3>1, <3>2 DEF Enqueue
    <3>3. CASE Claim(i)
      BY <2>2, <3>1, <3>3 DEF Claim
    <3>4. CASE Start(i)
      BY <1>0, <3>1, <3>4 DEF Start
    <3>5. CASE End(i)
      BY <1>0, <3>1, <3>5 DEF End
    <3>6. CASE LeaseOut(i)
      BY <1>0, <3>1, <3>6 DEF LeaseOut, Leased
    <3>7. CASE Human(i)
      BY <1>0, <3>1, <3>7 DEF Human, HumanApproves, HumanCancels, HumanResolves
    <3> QED BY <1>8, <3>2, <3>3, <3>4, <3>5, <3>6, <3>7 DEF WorkStep
  <2>4. job'[t].state \notin Ended
    BY <1>7, <2>3
  <2> QED BY <2>1, <2>4 DEF Done
<1>8a. ASSUME NEW i \in DOMAIN job, AcceptTriage(i) PROVE FALSE
  <2>1. Moves(i, "accepted") /\ job[i].state = "succeeded" /\ exec' = exec
    BY <1>0, <1>8a, MoveEffect, NullsAssumption DEF AcceptTriage, JobState, runs
  <2>2. i # t
    BY <1>5, <2>1
  <2> QED BY <1>2, <1>5, <2>1, <2>2 DEF Moves, Done
<1>9. ASSUME NEW p \in Loop, LoopStep(p) \/ CrashLoop(p) PROVE FALSE
  <2>1. exec' = exec
    BY <1>9 DEF LoopStep, SelectFailed, Flip, FlipLost, SelectOrphans, Repair,
              SpawnChild, ApproveChild, ApproveRaises, SpawnDone, CrashLoop, runs
  <2>2. job'[t].state \notin Ended
    <3>1. CASE Flip(p)
      BY <1>0, <1>7, <3>1 DEF Flip, TypeInv, TypeOK
    <3>2. CASE ApproveChild(p)
      BY <1>0, <1>7, <3>2 DEF ApproveChild, TypeInv, References
    <3>3. CASE SpawnChild(p)
      BY <1>2, <1>5, <3>3, NextIdIsNew DEF SpawnChild, Create, Inserted, TypeInv
    <3> QED
      BY <1>5, <1>9, <3>1, <3>2, <3>3
         DEF LoopStep, SelectFailed, FlipLost, SelectOrphans, Repair, ApproveRaises,
             SpawnDone, CrashLoop
  <2> QED BY <1>5, <2>1, <2>2 DEF Done
<1>10. CASE UNCHANGED vars
  BY <1>5, <1>10 DEF vars, runs, Done
<1> QED BY <1>6, <1>8, <1>8a, <1>9, <1>10 DEF Next

LEMMA DoneIsDoneStep == ASSUME CareInv, [Next]_vars PROVE DoneIsDone'
<1> SUFFICES ASSUME requeues' = 0, NEW t \in DOMAIN job', Done(t)'
             PROVE  job'[info'[t].subject].state \in Given
  BY DEF DoneIsDone
<1>0. TypeInv /\ TableStep /\ TablesKept /\ requeues \in Nat
  BY StepIsTableStep, TableStepKeepsTables DEF CareInv, LineInv
<1>1. t \in DOMAIN job /\ (Done(t) \/ job'[info[t].subject].state \in Given)
  BY <1>0, DoneStep
<1>2. info'[t].kind = "TRIAGE"
  BY DEF Done
<1>3. info'[t].subject = info[t].subject /\ info[t].subject \in DOMAIN job
  BY <1>0, <1>1, <1>2 DEF TablesKept, InfoKept, TypeInv, TypeOK
<1>4. CASE Done(t)
  <2> DEFINE j == info[t].subject
  <2>1. requeues = 0 /\ ~(job[j].state = "escalated" /\ job'[j].state = "queued")
    BY <1>0, <1>3, RequeueStep
  <2>2. j \in DOMAIN job /\ job[j].state \in Given
    BY <1>1, <1>3, <1>4, <2>1 DEF CareInv, DoneIsDone
  <2> HIDE DEF j
  <2>3. ASSUME NEW i \in DOMAIN job, NEW to, MoveStep(i, to)
        PROVE  job'[j].state \in Given
    BY <2>1, <2>2, <2>3
       DEF MoveStep, Moves, Given, Outcome, JobTransition, LeaseExpiry, Leased, PreRunning
  <2>4. ASSUME NEW i, NEW attempt, NEW max, NEW more, CreateStep(i, attempt, max, more)
        PROVE  job'[j].state \in Given
    BY <2>2, <2>4 DEF CreateStep
  <2>5. job'[j].state \in Given
    BY <1>0, <2>2, <2>3, <2>4 DEF TableStep
  <2> QED BY <1>3, <2>5 DEF j
<1> QED BY <1>1, <1>3, <1>4

LEMMA LookedStep == ASSUME CareInv, [Next]_vars PROVE Looked'
<1>0. /\ TypeInv /\ TableStep /\ TablesKept /\ DOMAIN job \subseteq Job
      /\ info \in [Job -> InfoRow] /\ Looked
  BY StepIsTableStep, TableStepKeepsTables
     DEF CareInv, LineInv, TypeInv, TypeOK, InfoRow
<1>1. ASSUME NEW j, \E t \in DOMAIN job : Concerns(t, j)
      PROVE  \E t \in DOMAIN job' : info'[t].kind = "TRIAGE" /\ info'[t].subject = j
  BY <1>0, <1>1 DEF Concerns, TablesKept, InfoKept
<1>2. ASSUME NEW t \in DOMAIN job', info'[t].kind = "TRIAGE"
      PROVE  t > info'[t].subject
  <2>1. CASE t \in DOMAIN job
    BY <1>0, <1>2, <2>1 DEF Looked, TablesKept, InfoKept
  <2>2. CASE t \notin DOMAIN job
    <3>1. t \in Job /\ info'[t].subject \in DOMAIN job'
      BY <1>0, <1>2 DEF TablesKept
    <3>2. info'[t].subject \in DOMAIN job
      BY <1>0, <1>2, <2>2
         DEF TableStep, MoveStep, Moves, CreateStep
    <3> QED BY <1>0, <2>2, <3>1, <3>2, IdsGrow
  <2> QED BY <2>1, <2>2
<1>3. ASSUME NEW r \in DOMAIN job', info'[r].parent # NoJob
      PROVE  \E t \in DOMAIN job' :
                info'[t].kind = "TRIAGE" /\ info'[t].subject = info'[r].parent
  <2>1. CASE r \in DOMAIN job
    <3>1. info'[r].parent = info[r].parent
      BY <1>0, <2>1 DEF TablesKept, InfoKept
    <3>2. \E t \in DOMAIN job : Concerns(t, info[r].parent)
      BY <1>0, <1>3, <2>1, <3>1 DEF Looked
    <3> QED BY <1>1, <3>1, <3>2
  <2>2. CASE r \notin DOMAIN job
    <3>1. ASSUME NEW p \in Loop, SpawnChild(p),
                 CreateStep(NextId, 1, TriageAttempts, Info("TRIAGE", cur[p], cur[p]))
          PROVE  info'[r].kind = "TRIAGE" /\ info'[r].subject = info'[r].parent
      BY <1>0, <2>2, <3>1 DEF CreateStep, Info
    <3>2. ASSUME NEW u \in DOMAIN job, CreateRetry(u),
                 CreateStep(NextId, plan[u].attempt + 1, job[info[u].subject].max,
                   Info(info[info[u].subject].kind, info[u].subject,
                        info[info[u].subject].subject))
          PROVE  \E t \in DOMAIN job : Concerns(t, info'[r].parent)
      <4> DEFINE i == info[u].subject
      <4>1. info'[r] = Info(info[i].kind, i, info[i].subject)
        BY <1>0, <2>2, <3>2 DEF CreateStep
      <4>2. info[u].kind = "TRIAGE"
        BY <1>0, <3>2 DEF CreateRetry, TypeInv, References
      <4> QED BY <4>1, <4>2 DEF Info, Concerns
    <3>3. ASSUME UNCHANGED <<job, info>> PROVE FALSE
      BY <2>2, <3>3
    <3>4. ASSUME NEW i \in DOMAIN job, NEW to, MoveStep(i, to) PROVE FALSE
      BY <2>2, <3>4 DEF MoveStep, Moves
    <3> QED BY <1>0, <1>1, <3>1, <3>2, <3>3, <3>4 DEF TableStep
  <2> QED BY <2>1, <2>2
<1> QED BY <1>2, <1>3 DEF Looked, Concerns

LEMMA CareInit == ASSUME Init PROVE CareInv
<1>1. LineInv /\ DOMAIN job = {First} /\ First \in Job
  BY LineInit, TriageAssumption DEF Init, First, Job
<1>2. /\ job[First].state = "queued" /\ requeues = 0
      /\ \A t \in Job : exec[t] = "none"
      /\ info[First].kind = "ANALYSIS" /\ info[First].parent = NoJob
  BY <1>1 DEF Init, NewJob, Info
<1> QED BY <1>1, <1>2 DEF CareInv, HeirsExist, DoneIsDone, Done, Looked

LEMMA CareStep == ASSUME CareInv, [Next]_vars PROVE CareInv'
<1>1. TypeInv /\ LineInv /\ requeues \in Nat
  BY DEF CareInv, LineInv
<1> QED
  BY <1>1, LineStep, RequeueStep, HeirsStep, DoneIsDoneStep, LookedStep DEF CareInv

\* The last TRIAGE job about a failure has neither handed on nor done its work.
LEMMA CareTakes == ASSUME CareInv PROVE NotForgotten
<1>0. /\ DOMAIN job \subseteq Job /\ TypeInv
  BY DEF CareInv, LineInv, TypeInv, TypeOK
<1>1. ASSUME NEW j \in DOMAIN job, job[j].state = "retry_spawned"
      PROVE  \E r \in DOMAIN job : info[r].parent = j /\ info[r].kind = info[j].kind
  BY <1>1 DEF CareInv, HeirsExist, HasHeir, Heir
<1>2. ASSUME requeues = 0, NEW j \in DOMAIN job, InTriage(j), j \notin Orphans
      PROVE  \E t \in DOMAIN job : Responsible(t, j)
  <2> DEFINE T == {t \in DOMAIN job : Concerns(t, j)}
  <2>1. j # NoJob
    BY <1>0 DEF Job, NoJob
  <2>2. PICK c \in DOMAIN job : info[c].parent = j
    BY <1>2 DEF Orphans, TriageChildren, InTriage
  <2>3. T # {} /\ T \subseteq Job
    BY <1>0, <2>1, <2>2 DEF CareInv, Looked
  <2>4. PICK t \in T : \A u \in T : u <= t
    <3> HIDE DEF T
    <3> QED BY <2>3, LastOne
  <2>5. t > j /\ Concerns(t, j) /\ t \in Job
    BY <1>0 DEF CareInv, Looked, Concerns
  <2>6. job[t].state \notin {"succeeded", "accepted"}
    BY <1>2, <2>5 DEF CareInv, DoneIsDone, Done, Concerns, InTriage, Given, Outcome
  <2>7. job[t].state # "retry_spawned"
    <3>1. SUFFICES ASSUME NEW r \in Job, Heir(r, t) PROVE FALSE
      BY DEF CareInv, HeirsExist, HasHeir
    <3>2. r \in T /\ r > t
      BY <2>5, <3>1 DEF Heir, Concerns
    <3> QED BY <2>4, <2>5, <3>2 DEF Job
  <2> QED BY <2>5, <2>6, <2>7 DEF Responsible, Concerns
<1> QED BY <1>1, <1>2 DEF NotForgotten

(***************************************************************************)
(* However many loops and workers crash, race and repeat each other's      *)
(* work: a failure is given an outcome, or somebody is still responsible   *)
(* for giving it one.                                                      *)
(***************************************************************************)
THEOREM NoFailureForgotten == Spec => []NotForgotten
<1> QED BY CareInit, CareStep, CareTakes, PTL DEF Spec
=============================================================================
