------------------------------ MODULE Handlers ------------------------------
(***************************************************************************)
(* What a worker does with a job between its start and its outcome: the    *)
(* handlers of worker.py with run_plan behind the executor, the check      *)
(* suite, and build_report.  This is Control with its workers opened up:   *)
(* a process that was overtaken by its lease goes on all the same, beside  *)
(* the one that claimed the job after it.                                  *)
(***************************************************************************)
EXTENDS Control, CheckSuite

CONSTANTS
    Result,     \* what run_plan can record of a solve
    Wanted      \* the study's acceptance block, on its cases

\* run_plan's idempotency key, and the run_ref it is recorded under.
Key == [of : Case, attempt : 1..MaxAttempts]

ASSUME HandlersAssumption ==
    /\ RunRef = Key
    /\ Verdict = [run : RunRef \cup {NoRun}, level : Level]
    /\ Unfounded = {[run |-> NoRun, level |-> "error"]}
    /\ Result \subseteq [outcome : {"ok", "transient", "permanent"},
                         found : SUBSET Finding]
    /\ Wanted \in Acceptance

VARIABLES
    task,       \* what each worker is at, and what it has in hand
    results,    \* the-hangar's record: run_ref -> result
    briefing    \* the report's file, and what the substrate says of it

own   == <<task, results, briefing>>
hvars == <<vars, own>>

Idle == [at |-> "idle", job |-> NoCheck, attempt |-> 0,
         run |-> NoRun, verdict |-> NoVerdict, shows |-> {}]

\* w is at this step of the handler for this kind of job.
IsAt(w, kind, step) == task[w].at = step /\ task[w].job.kind = kind

Advance(w, step) == task' = [task EXCEPT ![w].at = step]

Leave(w) == task' = [task EXCEPT ![w] = Idle]
-----------------------------------------------------------------------------
\* The study is approved and its jobs are queued.
HInit ==
    /\ study = "approved" /\ drafting = FALSE
    /\ job = [j \in Plan |->
                [NewJob(1, IF j = Report THEN ReportAttempts ELSE MaxAttempts)
                   EXCEPT !.state = "queued"]]
    /\ dep = PlannedDeps
    /\ Quiet
    /\ task = [w \in Worker |-> Idle]
    /\ results = [k \in {} |-> NoArgs]
    /\ briefing = [written |-> FALSE, shows |-> {},
                   concluded |-> FALSE, announced |-> FALSE]

(***************************************************************************)
(* claim_next and the start of the job.  The handler works on the row the  *)
(* claim returned, attempt included.                                       *)
(***************************************************************************)
Take(w, j) ==
    /\ task[w] = Idle
    /\ \A i \in DOMAIN job : job[i].state \in Leased => job[i].worker # w
    /\ \A u \in Upstream(j) : Satisfied(j, u)
    /\ Move(j, "assigned", FALSE, "queued", ClaimArgs(w))
    /\ task' = [task EXCEPT ![w] =
          [Idle EXCEPT !.at = "start", !.job = j, !.attempt = job[j].attempt]]
    /\ UNCHANGED <<study, dep, permanent, drafting, loops, cli, byHuman, upsets>>
    /\ UNCHANGED <<results, briefing>>

Begin(w) ==
    /\ task[w].at = "start"
    /\ Move(task[w].job, "running", FALSE, "assigned", NoArgs)
    /\ Advance(w, "run")
    /\ UNCHANGED <<study, dep, permanent, drafting, loops, cli, byHuman, upsets>>
    /\ UNCHANGED <<results, briefing>>

\* The start, or what the except branch does, is stale and ends the process:
\* nobody catches that, and another process takes its place.  (A process that
\* dies otherwise is one that takes no further step.)
RaisesOut(w) ==
    /\ \/ task[w].at = "start" /\ job[task[w].job].state # "assigned"
       \/ task[w].at = "recover" /\ job[task[w].job].state # "running"
    /\ Leave(w)
    /\ UNCHANGED <<vars, results, briefing>>

\* A step of the handler raises: its last transition on a stale job, or, a
\* bounded number of times, any other one.
HandlerRaises(w) ==
    /\ task[w].at \notin {"idle", "start", "recover"}
    /\ \/ /\ task[w].at = "commit" /\ job[task[w].job].state # "running"
          /\ UNCHANGED upsets
       \/ upsets < MaxUpsets /\ upsets' = upsets + 1
    /\ Advance(w, "recover")
    /\ UNCHANGED <<study, job, dep, permanent, drafting, loops, cli, byHuman>>
    /\ UNCHANGED <<results, briefing>>

\* Mutant: the except branch expects no state.
RecoverBlindly(w) ==
    /\ task[w].at = "recover"
    /\ Move(task[w].job, "failed", FALSE, AnyState, NoArgs)
    /\ permanent' = permanent \ {task[w].job}
    /\ Leave(w)
    /\ UNCHANGED <<study, dep, drafting, loops, cli, byHuman, upsets>>
    /\ UNCHANGED <<results, briefing>>

Recover(w) ==
    /\ task[w].at = "recover"
    /\ Move(task[w].job, "failed", FALSE, "running", NoArgs)
    /\ permanent' = permanent \ {task[w].job}
    /\ Leave(w)
    /\ UNCHANGED <<study, dep, drafting, loops, cli, byHuman, upsets>>
    /\ UNCHANGED <<results, briefing>>

(***************************************************************************)
(* _run_analysis.  What run_plan has recorded under its key it replays;    *)
(* otherwise it solves and records, or no run comes into being at all.     *)
(***************************************************************************)
\* Mutant: the key is the case.
KeyOfCase(w) == [of |-> task[w].job.of, attempt |-> 1]

KeyOf(w) == [of |-> task[w].job.of, attempt |-> task[w].attempt]

RunPlan(w) ==
    /\ IsAt(w, "ANALYSIS", "run")
    /\ \/ /\ \/ KeyOf(w) \in DOMAIN results /\ UNCHANGED results
             \/ /\ KeyOf(w) \notin DOMAIN results
                /\ \E r \in Result : results' = Inserted(results, KeyOf(w), r)
          /\ task' = [task EXCEPT ![w].at = "commit", ![w].run = KeyOf(w)]
       \/ /\ KeyOf(w) \notin DOMAIN results
          /\ Advance(w, "commit")
          /\ UNCHANGED results
    /\ UNCHANGED <<vars, briefing>>

\* Without a run_id the failure is permanent.
CommitAnalysis(w) ==
    LET j       == task[w].job
        run     == task[w].run
        outcome == IF run = NoRun THEN "permanent" ELSE results[run].outcome
    IN  /\ IsAt(w, "ANALYSIS", "commit")
        /\ Move(j, IF outcome = "ok" THEN "succeeded" ELSE "failed",
                FALSE, "running", [NoArgs EXCEPT !.run = run])
        /\ permanent' = CASE outcome = "ok"        -> permanent
                          [] outcome = "transient" -> permanent \ {j}
                          [] outcome = "permanent" -> permanent \cup {j}
        /\ Leave(w)
        /\ UNCHANGED <<study, dep, drafting, loops, cli, byHuman, upsets>>
        /\ UNCHANGED <<results, briefing>>

(***************************************************************************)
(* _run_check: the run is read first, judged, and the verdict recorded in  *)
(* a transaction of its own before the CHECK succeeds with it.             *)
(***************************************************************************)
\* LevelOf a run that _run_check was given, or of none.
VerdictOn(run) ==
    [run |-> run, level |-> IF run = NoRun THEN "error"
                            ELSE LevelOf(results[run].found, Wanted)]

\* Mutant: the run is looked up by the key of the CHECK itself.
JudgeByKey(w) ==
    LET run == IF KeyOf(w) \in DOMAIN results THEN KeyOf(w) ELSE NoRun IN
    /\ IsAt(w, "CHECK", "run")
    /\ task' = [task EXCEPT ![w].at = "commit", ![w].run = run,
                            ![w].verdict = VerdictOn(run)]
    /\ UNCHANGED <<vars, results, briefing>>

Judge(w) ==
    /\ IsAt(w, "CHECK", "run")
    /\ \E run \in IF Upstream(task[w].job) = {} THEN {NoRun}
                  ELSE {job[u].run : u \in Upstream(task[w].job)} :
          task' = [task EXCEPT ![w].at = "commit", ![w].run = run,
                               ![w].verdict = VerdictOn(run)]
    /\ UNCHANGED <<vars, results, briefing>>

CommitCheck(w) ==
    /\ IsAt(w, "CHECK", "commit")
    /\ Move(task[w].job, "succeeded", FALSE, "running",
            [NoArgs EXCEPT !.run = task[w].run, !.verdict = task[w].verdict])
    /\ Leave(w)
    /\ UNCHANGED <<study, dep, permanent, drafting, loops, cli, byHuman, upsets>>
    /\ UNCHANGED <<results, briefing>>

(***************************************************************************)
(* _run_report and build_report: the rows are read, the file written, the  *)
(* study's conclusion_ref set, report.published emitted, the job ended.    *)
(***************************************************************************)
\* Mutant: what waits for a human is left out.
ShownAccepted == {"accepted", "succeeded"}

Shown == {"accepted", "succeeded", "review"}

ReadRows(w) ==
    /\ IsAt(w, "REPORT", "run")
    /\ task' = [task EXCEPT ![w].at = "write",
          ![w].shows = {[of |-> a.of, run |-> job[a].run] :
              a \in {i \in Analyses \cap DOMAIN job : job[i].state \in Shown}}]
    /\ UNCHANGED <<vars, results, briefing>>

WriteFile(w) ==
    /\ IsAt(w, "REPORT", "write")
    /\ briefing' = [briefing EXCEPT !.written = TRUE, !.shows = task[w].shows]
    /\ Advance(w, "conclude")
    /\ UNCHANGED <<vars, results>>

Conclude(w) ==
    /\ IsAt(w, "REPORT", "conclude")
    /\ briefing' = [briefing EXCEPT !.concluded = TRUE]
    /\ Advance(w, "announce")
    /\ UNCHANGED <<vars, results>>

Announce(w) ==
    /\ IsAt(w, "REPORT", "announce")
    /\ briefing' = [briefing EXCEPT !.announced = TRUE]
    /\ Advance(w, "commit")
    /\ UNCHANGED <<vars, results>>

CommitReport(w) ==
    /\ IsAt(w, "REPORT", "commit")
    /\ Move(task[w].job, "succeeded", FALSE, "running", NoArgs)
    /\ Leave(w)
    /\ UNCHANGED <<study, dep, permanent, drafting, loops, cli, byHuman, upsets>>
    /\ UNCHANGED <<results, briefing>>
-----------------------------------------------------------------------------
HandlerStep(w) ==
    \/ \E j \in DOMAIN job : Take(w, j)
    \/ Begin(w) \/ RaisesOut(w) \/ HandlerRaises(w) \/ Recover(w)
    \/ RunPlan(w) \/ CommitAnalysis(w)
    \/ Judge(w) \/ CommitCheck(w)
    \/ ReadRows(w) \/ WriteFile(w) \/ Conclude(w) \/ Announce(w) \/ CommitReport(w)

\* Humans decide here on what is put before them only.
Review(j) == job[j].state = "review" /\ (ApproveJob(j) \/ RejectJob(j))

\* The rest of the system, as in Control: the loop, the reaper, the humans.
Surroundings ==
    /\ \/ \E j \in DOMAIN job :
             \/ Enqueue(j) \/ AutoAcceptReport(j) \/ CancelDead(j)
             \/ SpawnTriage(j) \/ RunTriage(j)
             \/ LeaseOut(j)
             \/ Review(j) \/ ResolveJob(j)
       \/ \E p \in Loop :
             SelectChecks(p) \/ ReadUpstream(p) \/ Gate(p) \/ AcceptCheck(p)
    /\ UNCHANGED own

HNext == Surroundings \/ \E w \in Worker : HandlerStep(w)

HSpec == HInit /\ [][HNext]_hvars
-----------------------------------------------------------------------------
HTypeOK ==
    /\ TypeOK
    /\ DOMAIN results \subseteq Key /\ results \in [DOMAIN results -> Result]
    /\ \A w \in Worker :
          /\ task[w].job \in DOMAIN job \cup {NoCheck}
          /\ task[w].run \in DOMAIN results \cup {NoRun}
          /\ task[w].verdict \in Verdict \cup {NoVerdict}
    /\ briefing.announced => briefing.concluded
    /\ briefing.concluded => briefing.written

tables == <<study, job, dep, permanent>>

(***************************************************************************)
(* The workers in detail are workers as Control knows them: nothing a late *)
(* or restarted process does to the tables is a step Control leaves out.   *)
(***************************************************************************)
StepsOfControl == [][tables' # tables => Next]_vars

(***************************************************************************)
(* The verdict on an ANALYSIS is on the run its row names, although the    *)
(* CHECK reads the run, judges it, and is gated in separate transactions   *)
(* and jobs change hands in between.                                       *)
(***************************************************************************)
JudgedRun ==
    \A a \in Analyses \cap DOMAIN job :
        job[a].verdict # NoVerdict => job[a].verdict.run = job[a].run

(***************************************************************************)
(* A run that is accepted on its verdict is one the study would accept.    *)
(***************************************************************************)
PassIsEarned ==
    \A a \in Analyses \cap DOMAIN job :
        job[a].state = "accepted" /\ job[a].verdict \in Accepting
          => /\ job[a].run \in DOMAIN results
             /\ results[job[a].run].outcome = "ok"
             /\ Sound(results[job[a].run].found, Wanted)

(***************************************************************************)
(* Whoever commits an ANALYSIS, overtaken or not, the run is one of this   *)
(* job: of its case, of an attempt the job was on, and not of the job it   *)
(* retries.                                                                *)
(***************************************************************************)
RunOfTheJob ==
    \A a \in Analyses \cap DOMAIN job : job[a].run # NoRun =>
        /\ job[a].run.of = a.of
        /\ job[a].run.attempt \in a.try..job[a].attempt

(***************************************************************************)
(* A solve is replayed only where a human re-queued an exhausted job: the  *)
(* reaper and the retries always ask for an attempt nobody has solved, so  *)
(* what a dead worker has recorded is lost on them.                        *)
(***************************************************************************)
ReplayIsByHand ==
    \A a \in Analyses \cap DOMAIN job :
        job[a].state \in {"approved", "queued", "assigned"}
          /\ [of |-> a.of, attempt |-> job[a].attempt] \in DOMAIN results
          => job[a].attempt = job[a].max

(***************************************************************************)
(* When a REPORT has succeeded its file is there, concluded and announced, *)
(* and lists every accepted ANALYSIS with its run, although a process that *)
(* read the rows earlier may write the file later.  (A case whose CHECK a  *)
(* human cancelled is not waited for.)                                     *)
(***************************************************************************)
BriefingComplete ==
    \A r \in Reports \cap DOMAIN job : job[r].state \in {"succeeded", "accepted"} =>
        /\ briefing.announced
        /\ \A a \in Analyses \cap DOMAIN job :
              job[a].state \in {"accepted", "review"}
                /\ (\A k \in Checks \cap DOMAIN job :
                       k.of = a.of => job[k].state # "cancelled")
              => \E s \in briefing.shows : s.of = a.of /\ s.run = job[a].run
=============================================================================
