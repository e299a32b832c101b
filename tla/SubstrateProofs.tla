-------------------------- MODULE SubstrateProofs --------------------------
(***************************************************************************)
(* Theorems about Substrate, for any clients, jobs, studies and calls, and *)
(* a log of any length: a transaction looks like one step, writes one row  *)
(* and one event, and the log says all there is to say about the rows.     *)
(*                                                                         *)
(* The first part is about one set of tables and one call; the second      *)
(* about the clients and the lock.                                         *)
(***************************************************************************)
EXTENDS Substrate, JobMachineProofs, FiniteSetTheorems

\* The states an event can speak of.
Said == JobState \cup StudyStatus \cup {NoState}

Entry ==
    [obj : Job \cup Study,
     says : [kind : {"move", "remark"}, from : Said, to : Said]]

IsTables(t) ==
    /\ t = [job |-> t.job, study |-> t.study, event |-> t.event]
    /\ DOMAIN t.job \subseteq Job /\ t.job \in [DOMAIN t.job -> JobRow]
    /\ \A j \in DOMAIN t.job : WellLeased(t.job[j])
    /\ DOMAIN t.study \subseteq Study
    /\ t.study \in [DOMAIN t.study -> StudyStatus]
    /\ t.event \in Seq(Entry)
    /\ \A i \in DOMAIN t.event : t.event[i].obj \in Objects(t)

Creates(k) == k.op \in {"create_job", "create_study"}

\* A call names an object that is there, or one that is not there yet.
Aims(k, t) ==
    IF Creates(k) THEN k.obj \notin Objects(t) ELSE k.obj \in Objects(t)

Applies(k, t) == Passes(k, t) /\ Aims(k, t)

\* What the SELECT returns, and the tables the COMMIT leaves.
Before(k, t) ==
    IF k.op \in {"transition", "study_transition"}
    THEN StateOf(t, k.obj) ELSE NoState

Logged(k, t) == Append(t.event, Event(k, Before(k, t)))

After(k, t) == [Written(k, t) EXCEPT !.event = Logged(k, t)]

-----------------------------------------------------------------------------
(***************************************************************************)
(* What each of the five calls does to the rows.                           *)
(***************************************************************************)
MovesJob(k, t, n) ==
    /\ k \in TransitionCall /\ k.obj \in DOMAIN t.job
    /\ CanMove(t.job[k.obj], k.to, k.human, k.expected, k.args)
    /\ n.job = [t.job EXCEPT ![k.obj] = Moved(t.job[k.obj], k.to, k.args)]
    /\ n.study = t.study

MovesStudy(k, t, n) ==
    /\ k \in StudyCall /\ k.obj \in DOMAIN t.study
    /\ <<t.study[k.obj], k.to>> \in StudyTransition
    /\ n.job = t.job
    /\ n.study = [t.study EXCEPT ![k.obj] = k.to]

CreatesJob(k, t, n) ==
    /\ k \in CreateJobCall /\ k.obj \notin Objects(t)
    /\ n.job = Inserted(t.job, k.obj, NewJob(k.attempt, k.max))
    /\ n.study = t.study

CreatesStudy(k, t, n) ==
    /\ k \in CreateStudyCall /\ k.obj \notin Objects(t)
    /\ n.job = t.job
    /\ n.study = Inserted(t.study, k.obj, "draft")

Remarks(k, t, n) ==
    /\ k \in EmitCall /\ k.obj \in Objects(t)
    /\ n.job = t.job /\ n.study = t.study

Effect(k, t, n) ==
    \/ MovesJob(k, t, n) \/ MovesStudy(k, t, n)
    \/ CreatesJob(k, t, n) \/ CreatesStudy(k, t, n)
    \/ Remarks(k, t, n)

LEMMA WrittenIs ==
    ASSUME NEW t, IsTables(t), NEW k \in Calls, Applies(k, t)
    PROVE  /\ Effect(k, t, Written(k, t))
           /\ Written(k, t) = [job |-> Written(k, t).job,
                               study |-> Written(k, t).study,
                               event |-> t.event]
<1> DEFINE n == Written(k, t)
<1>1. t = [job |-> t.job, study |-> t.study, event |-> t.event]
  BY DEF IsTables
<1>2. Passes(k, t) /\ Aims(k, t)
  BY DEF Applies
<1>3. CASE k \in TransitionCall
  <2>1. k.op = "transition"
    BY <1>3 DEF TransitionCall
  <2> DEFINE row == Moved(t.job[k.obj], k.to, k.args)
  <2>2. n = [t EXCEPT !.job[k.obj] = row]
    BY <2>1 DEF Written
  <2> HIDE DEF n, row
  <2>5. n = [job |-> [t.job EXCEPT ![k.obj] = row],
             study |-> t.study, event |-> t.event]
    BY <1>1, <2>2
  <2>3. n = [job |-> [t.job EXCEPT ![k.obj] = Moved(t.job[k.obj], k.to, k.args)],
             study |-> t.study, event |-> t.event]
    BY <2>5 DEF row
  <2>4. MovesJob(k, t, n)
    BY <1>2, <1>3, <2>1, <2>3 DEF MovesJob, Passes
  <2> QED BY <2>3, <2>4 DEF n, Effect
<1>4. CASE k \in StudyCall
  <2>1. k.op = "study_transition"
    BY <1>4 DEF StudyCall
  <2>2. n = [t EXCEPT !.study = [@ EXCEPT ![k.obj] = k.to]]
    BY <2>1 DEF Written
  <2> HIDE DEF n
  <2>3. n = [job |-> t.job, study |-> [t.study EXCEPT ![k.obj] = k.to],
             event |-> t.event]
    BY <1>1, <2>2
  <2>4. MovesStudy(k, t, n)
    BY <1>2, <1>4, <2>1, <2>3 DEF MovesStudy, Passes
  <2> QED BY <2>3, <2>4 DEF n, Effect
<1>5. CASE k \in CreateJobCall
  <2>1. k.op = "create_job"
    BY <1>5 DEF CreateJobCall
  <2>2. n = [t EXCEPT !.job = Inserted(@, k.obj, NewJob(k.attempt, k.max))]
    BY <2>1 DEF Written
  <2> HIDE DEF n
  <2>3. n = [job |-> Inserted(t.job, k.obj, NewJob(k.attempt, k.max)),
             study |-> t.study, event |-> t.event]
    BY <1>1, <2>2
  <2>4. CreatesJob(k, t, n)
    BY <1>2, <1>5, <2>1, <2>3 DEF CreatesJob, Aims, Creates
  <2> QED BY <2>3, <2>4 DEF n, Effect
<1>6. CASE k \in CreateStudyCall
  <2>1. k.op = "create_study"
    BY <1>6 DEF CreateStudyCall
  <2>2. n = [t EXCEPT !.study = Inserted(@, k.obj, "draft")]
    BY <2>1 DEF Written
  <2> HIDE DEF n
  <2>3. n = [job |-> t.job, study |-> Inserted(t.study, k.obj, "draft"),
             event |-> t.event]
    BY <1>1, <2>2
  <2>4. CreatesStudy(k, t, n)
    BY <1>2, <1>6, <2>1, <2>3 DEF CreatesStudy, Aims, Creates
  <2> QED BY <2>3, <2>4 DEF n, Effect
<1>7. CASE k \in EmitCall
  <2>1. k.op = "emit_event"
    BY <1>7 DEF EmitCall
  <2>2. n = t
    BY <2>1 DEF Written
  <2>3. Remarks(k, t, n)
    BY <1>2, <1>7, <2>1, <2>2 DEF Remarks, Aims, Creates
  <2> QED BY <1>1, <2>2, <2>3 DEF Effect
<1> QED BY <1>3, <1>4, <1>5, <1>6, <1>7, SubstrateAssumption

\* The event is what an Entry is, and moves what the call moves.
LEMMA EventIs ==
    ASSUME NEW t, IsTables(t), NEW k \in Calls, Applies(k, t)
    PROVE  /\ Before(k, t) \in Said
           /\ Event(k, Before(k, t)) \in Entry
           /\ Event(k, Before(k, t)).obj = k.obj
<1> DEFINE b == Before(k, t)
<1>1. Effect(k, t, Written(k, t))
  BY WrittenIs
<1>2. /\ \A j \in DOMAIN t.job : t.job[j].state \in JobState
      /\ \A s \in DOMAIN t.study : t.study[s] \in StudyStatus
  BY DEF IsTables, JobRow
<1>3. b \in Said
  BY <1>1, <1>2
     DEF Before, StateOf, Said, Effect, MovesJob, MovesStudy, CreatesJob,
         CreatesStudy, Remarks, TransitionCall, StudyCall, CreateJobCall,
         CreateStudyCall, EmitCall
<1>4. {"proposed", "draft", NoState} \subseteq Said
  BY DEF Said, JobState, PreRunning, StudyStatus, StudyNonTerminal
<1>5. k.op \in {"transition", "study_transition"} => k.to \in Said
  BY <1>1
     DEF Said, Effect, MovesJob, MovesStudy, CreatesJob,
         CreatesStudy, Remarks, TransitionCall, StudyCall, CreateJobCall,
         CreateStudyCall, EmitCall
<1>6. Payload(k, b) \in [kind : {"move", "remark"}, from : Said, to : Said]
  <2> HIDE DEF b
  <2> QED BY <1>3, <1>4, <1>5 DEF Payload
<1>7. k.obj \in Job \cup Study
  BY SubstrateAssumption
     DEF TransitionCall, StudyCall, CreateJobCall, CreateStudyCall, EmitCall
<1> QED BY <1>3, <1>6, <1>7 DEF Event, Entry

\* What is appended is last, and nothing else changes.
LEMMA Appended ==
    ASSUME NEW S, NEW s \in Seq(S), NEW e \in S
    PROVE  /\ Append(s, e) \in Seq(S)
           /\ Len(s) \in Nat /\ DOMAIN s = 1..Len(s)
           /\ DOMAIN Append(s, e) = 1..(Len(s) + 1)
           /\ \A i \in DOMAIN s : Append(s, e)[i] = s[i]
           /\ Append(s, e)[Len(s) + 1] = e
OBVIOUS

LEMMA RowsAreRows ==
    ASSUME NEW t, IsTables(t), NEW k, NEW n, Effect(k, t, n)
    PROVE  /\ DOMAIN n.job \subseteq Job /\ n.job \in [DOMAIN n.job -> JobRow]
           /\ \A j \in DOMAIN n.job : WellLeased(n.job[j])
           /\ DOMAIN n.study \subseteq Study
           /\ n.study \in [DOMAIN n.study -> StudyStatus]
           /\ Objects(n) = Objects(t) \cup {k.obj}
<1>1. CASE MovesJob(k, t, n)
  <2>1. /\ k.obj \in DOMAIN t.job /\ k.args \in MoveArgs
        /\ t.job[k.obj] \in JobRow /\ WellLeased(t.job[k.obj])
        /\ CanMove(t.job[k.obj], k.to, k.human, k.expected, k.args)
    BY <1>1 DEF MovesJob, TransitionCall, IsTables
  <2>2. /\ Moved(t.job[k.obj], k.to, k.args) \in JobRow
        /\ WellLeased(Moved(t.job[k.obj], k.to, k.args))
    BY <2>1, MovedIsRow
  <2>3. /\ n.job = [t.job EXCEPT ![k.obj] = Moved(t.job[k.obj], k.to, k.args)]
        /\ n.study = t.study
    BY <1>1 DEF MovesJob
  <2> HIDE DEF Moved
  <2> QED BY <2>1, <2>2, <2>3 DEF IsTables, Objects
<1>2. CASE MovesStudy(k, t, n)
  BY <1>2 DEF MovesStudy, StudyCall, IsTables, Objects
<1>3. CASE CreatesJob(k, t, n)
  <2>1. /\ k.obj \in Job /\ k.obj \notin DOMAIN t.job
        /\ NewJob(k.attempt, k.max) \in JobRow
        /\ WellLeased(NewJob(k.attempt, k.max))
    BY <1>3, NewJobIsRow DEF CreatesJob, CreateJobCall, Objects
  <2>2. /\ n.job = Inserted(t.job, k.obj, NewJob(k.attempt, k.max))
        /\ n.study = t.study
    BY <1>3 DEF CreatesJob
  <2> HIDE DEF NewJob
  <2> QED BY <2>1, <2>2 DEF IsTables, Objects, Inserted
<1>4. CASE CreatesStudy(k, t, n)
  <2>1. k.obj \in Study /\ "draft" \in StudyStatus
    BY <1>4 DEF CreatesStudy, CreateStudyCall, StudyStatus, StudyNonTerminal
  <2>2. n.job = t.job /\ n.study = Inserted(t.study, k.obj, "draft")
    BY <1>4 DEF CreatesStudy
  <2> QED BY <2>1, <2>2 DEF IsTables, Objects, Inserted
<1>5. CASE Remarks(k, t, n)
  BY <1>5 DEF Remarks, IsTables, Objects
<1> QED BY <1>1, <1>2, <1>3, <1>4, <1>5 DEF Effect

(***************************************************************************)
(* Before the event is inserted and after, the tables are tables.          *)
(***************************************************************************)
LEMMA WrittenIsTables ==
    ASSUME NEW t, IsTables(t), NEW k \in Calls, Applies(k, t)
    PROVE  IsTables(Written(k, t))
<1> DEFINE n == Written(k, t)
<1>1. /\ Effect(k, t, n)
      /\ n = [job |-> n.job, study |-> n.study, event |-> t.event]
  BY WrittenIs
<1> HIDE DEF n
<1>2. n.event = t.event /\ Objects(n) = Objects(t) \cup {k.obj}
  BY <1>1, RowsAreRows
<1>3. IsTables(n)
  BY <1>1, <1>2, RowsAreRows DEF IsTables
<1> QED BY <1>3 DEF n

LEMMA AfterIs ==
    ASSUME NEW t, IsTables(t), NEW k \in Calls, Applies(k, t)
    PROVE  /\ IsTables(After(k, t))
           /\ Effect(k, t, After(k, t))
           /\ After(k, t).event = Append(t.event, Event(k, Before(k, t)))
           /\ Objects(After(k, t)) = Objects(t) \cup {k.obj}
<1> DEFINE n == Written(k, t)
           a == After(k, t)
           e == Event(k, Before(k, t))
<1>1. /\ Effect(k, t, n)
      /\ n = [job |-> n.job, study |-> n.study, event |-> t.event]
  BY WrittenIs
<1>2. e \in Entry /\ e.obj = k.obj
  BY EventIs
<1>3. a = [n EXCEPT !.event = Append(t.event, e)]
  BY DEF After, Logged
<1> HIDE DEF n, a, e
<1>4. a = [job |-> n.job, study |-> n.study, event |-> Append(t.event, e)]
  BY <1>1, <1>3
<1>5. Effect(k, t, a)
  BY <1>1, <1>4
     DEF Effect, MovesJob, MovesStudy, CreatesJob, CreatesStudy, Remarks
<1>6. /\ Objects(a) = Objects(t) \cup {k.obj}
      /\ t.event \in Seq(Entry)
      /\ \A i \in DOMAIN t.event : t.event[i].obj \in Objects(t)
  BY <1>5, RowsAreRows DEF IsTables
<1>7. /\ a.event \in Seq(Entry)
      /\ \A i \in DOMAIN a.event : a.event[i].obj \in Objects(a)
  <2>1. a.event = Append(t.event, e)
    BY <1>4
  <2>2. /\ Append(t.event, e) \in Seq(Entry)
        /\ DOMAIN Append(t.event, e) = 1..(Len(t.event) + 1)
        /\ DOMAIN t.event = 1..Len(t.event) /\ Len(t.event) \in Nat
        /\ \A i \in DOMAIN t.event : Append(t.event, e)[i] = t.event[i]
        /\ Append(t.event, e)[Len(t.event) + 1] = e
    BY <1>2, <1>6, Appended
  <2>3. \A i \in DOMAIN Append(t.event, e) :
            i \in DOMAIN t.event \/ i = Len(t.event) + 1
    BY <2>2
  <2> QED BY <1>2, <1>6, <2>1, <2>2, <2>3
<1>8. a = [job |-> a.job, study |-> a.study, event |-> a.event]
  BY <1>4
<1>9. IsTables(a)
  BY <1>5, <1>7, <1>8, RowsAreRows DEF IsTables
<1>10. a.event = Append(t.event, e)
  BY <1>4
<1> QED BY <1>5, <1>6, <1>9, <1>10 DEF a, e
-----------------------------------------------------------------------------
(***************************************************************************)
(* The event says what became of the row, and no other row changes.        *)
(***************************************************************************)
LEMMA EventTells ==
    ASSUME NEW t, IsTables(t), NEW k \in Calls, Applies(k, t)
    PROVE  LET a == After(k, t)
               e == Event(k, Before(k, t))
           IN  /\ \/ /\ e.says.kind = "move" /\ k.obj \in Objects(t)
                     /\ e.says.from = StateOf(t, k.obj)
                     /\ e.says.to = StateOf(a, k.obj)
                  \/ /\ e.says.kind = "move" /\ k.obj \notin Objects(t)
                     /\ e.says.from = NoState
                     /\ e.says.to = StateOf(a, k.obj)
                  \/ /\ e.says.kind = "remark" /\ k.obj \in Objects(t)
                     /\ StateOf(a, k.obj) = StateOf(t, k.obj)
               /\ \A o \in Objects(t) \ {k.obj} : StateOf(a, o) = StateOf(t, o)
<1> DEFINE a == After(k, t)
           e == Event(k, Before(k, t))
<1>1. /\ IsTables(t) /\ IsTables(a) /\ Effect(k, t, a)
  BY AfterIs
<1>2. e.says = Payload(k, Before(k, t))
  BY DEF Event
<1>3. /\ DOMAIN t.job \subseteq Job /\ DOMAIN t.study \subseteq Study
      /\ Job \cap Study = {}
  BY <1>1, SubstrateAssumption DEF IsTables
<1> HIDE DEF a, e
<1>4. CASE MovesJob(k, t, a)
  <2>1. /\ k.op = "transition" /\ k.obj \in DOMAIN t.job
        /\ a.job = [t.job EXCEPT ![k.obj] = Moved(t.job[k.obj], k.to, k.args)]
        /\ a.study = t.study
    BY <1>4 DEF MovesJob, TransitionCall
  <2>2. Moved(t.job[k.obj], k.to, k.args).state = k.to
    BY DEF Moved
  <2>3. /\ StateOf(a, k.obj) = k.to
        /\ \A o \in Objects(t) \ {k.obj} : StateOf(a, o) = StateOf(t, o)
    <3> HIDE DEF Moved
    <3> QED BY <2>1, <2>2 DEF StateOf, Objects
  <2>4. e.says = [kind |-> "move", from |-> StateOf(t, k.obj), to |-> k.to]
    BY <1>2, <2>1 DEF Payload, Before
  <2> QED BY <2>1, <2>3, <2>4 DEF a, e, Objects
<1>5. CASE MovesStudy(k, t, a)
  <2>1. /\ k.op = "study_transition" /\ k.obj \in DOMAIN t.study
        /\ a.job = t.job /\ a.study = [t.study EXCEPT ![k.obj] = k.to]
    BY <1>5 DEF MovesStudy, StudyCall
  <2>2. /\ StateOf(a, k.obj) = k.to
        /\ \A o \in Objects(t) \ {k.obj} : StateOf(a, o) = StateOf(t, o)
    BY <1>3, <2>1 DEF StateOf, Objects
  <2>3. e.says = [kind |-> "move", from |-> StateOf(t, k.obj), to |-> k.to]
    BY <1>2, <2>1 DEF Payload, Before
  <2> QED BY <2>1, <2>2, <2>3 DEF a, e, Objects
<1>6. CASE CreatesJob(k, t, a)
  <2>1. /\ k.op = "create_job" /\ k.obj \notin Objects(t)
        /\ a.job = Inserted(t.job, k.obj, NewJob(k.attempt, k.max))
        /\ a.study = t.study
    BY <1>6 DEF CreatesJob, CreateJobCall
  <2>2. NewJob(k.attempt, k.max).state = "proposed"
    BY DEF NewJob
  <2>3. /\ StateOf(a, k.obj) = "proposed"
        /\ \A o \in Objects(t) \ {k.obj} : StateOf(a, o) = StateOf(t, o)
    <3> HIDE DEF NewJob
    <3> QED BY <2>1, <2>2 DEF StateOf, Objects, Inserted
  <2>4. e.says = [kind |-> "move", from |-> NoState, to |-> "proposed"]
    BY <1>2, <2>1 DEF Payload, Before
  <2> QED BY <2>1, <2>3, <2>4 DEF a, e
<1>7. CASE CreatesStudy(k, t, a)
  <2>1. /\ k.op = "create_study" /\ k.obj \notin Objects(t) /\ k.obj \in Study
        /\ a.job = t.job /\ a.study = Inserted(t.study, k.obj, "draft")
    BY <1>7 DEF CreatesStudy, CreateStudyCall
  <2>2. /\ StateOf(a, k.obj) = "draft"
        /\ \A o \in Objects(t) \ {k.obj} : StateOf(a, o) = StateOf(t, o)
    BY <1>3, <2>1 DEF StateOf, Objects, Inserted
  <2>3. e.says = [kind |-> "move", from |-> NoState, to |-> "draft"]
    BY <1>2, <2>1 DEF Payload, Before
  <2> QED BY <2>1, <2>2, <2>3 DEF a, e
<1>8. CASE Remarks(k, t, a)
  <2>1. /\ k.op = "emit_event" /\ k.obj \in Objects(t)
        /\ a.job = t.job /\ a.study = t.study
    BY <1>8 DEF Remarks, EmitCall
  <2>2. e.says.kind = "remark"
    BY <1>2, <2>1 DEF Payload
  <2> QED BY <2>1, <2>2 DEF a, e, StateOf
<1> QED BY <1>1, <1>4, <1>5, <1>6, <1>7, <1>8 DEF Effect

(***************************************************************************)
(* The moves of every object but the one called upon stay what they are;   *)
(* that one gets the last place in the log, unless it was a remark.        *)
(***************************************************************************)
LEMMA MovesAfter ==
    ASSUME NEW t, IsTables(t), NEW k \in Calls, Applies(k, t)
    PROVE  LET a == After(k, t)
               e == Event(k, Before(k, t))
               n == Len(t.event)
           IN  /\ n \in Nat /\ DOMAIN t.event = 1..n
               /\ DOMAIN a.event = 1..(n + 1)
               /\ \A i \in 1..n : a.event[i] = t.event[i]
               /\ a.event[n + 1] = e
               /\ \A o : Moves(a, o) =
                    IF o = k.obj /\ e.says.kind = "move"
                    THEN Moves(t, o) \cup {n + 1} ELSE Moves(t, o)
               /\ \A o : Moves(t, o) \subseteq 1..n
               /\ \A o : o \notin Objects(t) => Moves(t, o) = {}
<1> DEFINE a == After(k, t)
           e == Event(k, Before(k, t))
           n == Len(t.event)
<1>1. /\ a.event = Append(t.event, e) /\ e \in Entry /\ e.obj = k.obj
      /\ t.event \in Seq(Entry)
      /\ \A i \in DOMAIN t.event : t.event[i].obj \in Objects(t)
  BY AfterIs, EventIs DEF IsTables
<1> HIDE DEF a, e
<1>2. /\ n \in Nat /\ DOMAIN t.event = 1..n
      /\ DOMAIN a.event = 1..(n + 1)
      /\ \A i \in 1..n : a.event[i] = t.event[i]
      /\ a.event[n + 1] = e
  BY <1>1, Appended
<1> HIDE DEF n
<1>3. /\ n \in Nat => n + 1 \notin 1..n
      /\ n \in Nat => 1..(n + 1) = (1..n) \cup {n + 1}
  OBVIOUS
<1>4. \A o : Moves(a, o) = IF o = k.obj /\ e.says.kind = "move"
                           THEN Moves(t, o) \cup {n + 1} ELSE Moves(t, o)
  BY <1>1, <1>2, <1>3 DEF Moves
<1>5. /\ \A o : Moves(t, o) \subseteq 1..n
      /\ \A o : o \notin Objects(t) => Moves(t, o) = {}
  BY <1>1, <1>2 DEF Moves
<1> QED BY <1>2, <1>4, <1>5 DEF a, e, n

(***************************************************************************)
(* A call that goes through keeps the log in step with the tables.         *)
(***************************************************************************)
LEMMA AfterReplays ==
    ASSUME NEW t, IsTables(t), NEW k \in Calls, Applies(k, t), Replays(t)
    PROVE  Replays(After(k, t))
<1> DEFINE a == After(k, t)
           e == Event(k, Before(k, t))
           n == Len(t.event)
<1>1. /\ n \in Nat /\ DOMAIN t.event = 1..n
      /\ DOMAIN a.event = 1..(n + 1)
      /\ \A i \in 1..n : a.event[i] = t.event[i]
      /\ a.event[n + 1] = e
      /\ \A o : Moves(a, o) = IF o = k.obj /\ e.says.kind = "move"
                              THEN Moves(t, o) \cup {n + 1} ELSE Moves(t, o)
      /\ \A o : Moves(t, o) \subseteq 1..n
      /\ \A o : o \notin Objects(t) => Moves(t, o) = {}
  BY MovesAfter
<1>2. /\ \/ /\ e.says.kind = "move" /\ k.obj \in Objects(t)
            /\ e.says.from = StateOf(t, k.obj)
            /\ e.says.to = StateOf(a, k.obj)
         \/ /\ e.says.kind = "move" /\ k.obj \notin Objects(t)
            /\ e.says.from = NoState
            /\ e.says.to = StateOf(a, k.obj)
         \/ /\ e.says.kind = "remark" /\ k.obj \in Objects(t)
            /\ StateOf(a, k.obj) = StateOf(t, k.obj)
      /\ \A o \in Objects(t) \ {k.obj} : StateOf(a, o) = StateOf(t, o)
  BY EventTells
<1>3. Objects(a) = Objects(t) \cup {k.obj}
  BY AfterIs
<1> HIDE DEF a, e, n
<1> SUFFICES ASSUME NEW o \in Objects(a)
             PROVE  /\ \E i \in Moves(a, o) : a.event[i].says.from = NoState
                    /\ \A i, m \in DOMAIN a.event :
                          Follows(a, o, i, m)
                            => a.event[m].says.from = a.event[i].says.to
                    /\ \A i \in Moves(a, o) :
                          (\A m \in Moves(a, o) : m <= i)
                            => a.event[i].says.to = StateOf(a, o)
  BY DEF a, Replays
<1>4. ASSUME o \in Objects(t)
      PROVE  /\ \E i \in Moves(t, o) : t.event[i].says.from = NoState
             /\ \A i, m \in DOMAIN t.event :
                   Follows(t, o, i, m)
                     => t.event[m].says.from = t.event[i].says.to
             /\ \A i \in Moves(t, o) :
                   (\A m \in Moves(t, o) : m <= i)
                     => t.event[i].says.to = StateOf(t, o)
  BY <1>4 DEF Replays
<1>5. CASE o # k.obj \/ e.says.kind # "move"
  <2>1. o \in Objects(t) /\ StateOf(a, o) = StateOf(t, o)
    BY <1>2, <1>3, <1>5
  <2>2. Moves(a, o) = Moves(t, o) /\ Moves(t, o) \subseteq 1..n
    BY <1>1, <1>5
  <2>3. \A i \in Moves(t, o) : a.event[i] = t.event[i]
    BY <1>1, <2>2
  <2>4. \A i, m : Follows(a, o, i, m) => /\ Follows(t, o, i, m)
                                         /\ i \in Moves(t, o) /\ m \in Moves(t, o)
    BY <2>2 DEF Follows
  <2> QED BY <1>1, <1>4, <2>1, <2>2, <2>3, <2>4
<1>6. CASE o = k.obj /\ e.says.kind = "move" /\ o \notin Objects(t)
  <2>1. Moves(a, o) = {n + 1}
    BY <1>1, <1>6
  <2>2. a.event[n + 1].says.from = NoState /\ a.event[n + 1].says.to = StateOf(a, o)
    BY <1>1, <1>2, <1>6
  <2>3. \A i, m : ~Follows(a, o, i, m)
    BY <1>1, <2>1 DEF Follows
  <2> QED BY <2>1, <2>2, <2>3
<1>7. CASE o = k.obj /\ e.says.kind = "move" /\ o \in Objects(t)
  <2>1. /\ Moves(a, o) = Moves(t, o) \cup {n + 1}
        /\ Moves(t, o) \subseteq 1..n
        /\ \A i \in Moves(t, o) : a.event[i] = t.event[i]
    BY <1>1, <1>7
  <2>2. /\ a.event[n + 1].says.from = StateOf(t, o)
        /\ a.event[n + 1].says.to = StateOf(a, o)
    BY <1>1, <1>2, <1>7
  <2>3. \E i \in Moves(a, o) : a.event[i].says.from = NoState
    BY <1>4, <1>7, <2>1
  <2>4. ASSUME NEW i \in DOMAIN a.event, NEW m \in DOMAIN a.event,
               Follows(a, o, i, m)
        PROVE  a.event[m].says.from = a.event[i].says.to
    <3>1. /\ i \in Moves(a, o) /\ m \in Moves(a, o) /\ i < m
          /\ \A x \in Moves(a, o) : ~(i < x /\ x < m)
      BY <2>4 DEF Follows
    <3>2. i \in Moves(t, o) /\ i \in 1..n
      BY <1>1, <2>1, <3>1
    <3>3. CASE m = n + 1
      <4>1. \A x \in Moves(t, o) : x <= i
        BY <1>1, <2>1, <3>1, <3>2, <3>3
      <4> QED BY <1>4, <1>7, <2>1, <2>2, <3>2, <3>3, <4>1
    <3>4. CASE m # n + 1
      <4>1. m \in Moves(t, o) /\ m \in 1..n
        BY <2>1, <3>1, <3>4
      <4>2. Follows(t, o, i, m)
        BY <2>1, <3>1, <3>2, <4>1 DEF Follows
      <4> QED BY <1>1, <1>4, <1>7, <2>1, <3>2, <4>1, <4>2
    <3> QED BY <3>3, <3>4
  <2>5. ASSUME NEW i \in Moves(a, o), \A m \in Moves(a, o) : m <= i
        PROVE  a.event[i].says.to = StateOf(a, o)
    <3>1. n + 1 <= i
      BY <2>1, <2>5
    <3>2. i = n + 1
      BY <1>1, <2>1, <3>1
    <3> QED BY <2>2, <3>2
  <2> QED BY <2>3, <2>4, <2>5
<1> QED BY <1>5, <1>6, <1>7

(***************************************************************************)
(* So does the attempt counter: it moves with the lease expiries in the    *)
(* log.                                                                    *)
(***************************************************************************)
Expiries(t, j) ==
    {i \in Moves(t, j) :
        <<t.event[i].says.from, t.event[i].says.to>> \in LeaseExpiry}

Counted(t) ==
    \A j \in DOMAIN t.job :
        \E k \in Calls :
            /\ k.op = "create_job" /\ k.obj = j
            /\ t.job[j].attempt = k.attempt + Cardinality(Expiries(t, j))

LEMMA AfterCounts ==
    ASSUME NEW t, IsTables(t), NEW k \in Calls, Applies(k, t), Counted(t)
    PROVE  Counted(After(k, t))
<1> DEFINE a == After(k, t)
           e == Event(k, Before(k, t))
           n == Len(t.event)
<1>1. /\ n \in Nat /\ DOMAIN t.event = 1..n
      /\ \A i \in 1..n : a.event[i] = t.event[i]
      /\ a.event[n + 1] = e
      /\ \A o : Moves(a, o) = IF o = k.obj /\ e.says.kind = "move"
                              THEN Moves(t, o) \cup {n + 1} ELSE Moves(t, o)
      /\ \A o : Moves(t, o) \subseteq 1..n
      /\ \A o : o \notin Objects(t) => Moves(t, o) = {}
  BY MovesAfter
<1>2. Effect(k, t, a)
  BY AfterIs
<1>3. e.says = Payload(k, Before(k, t))
  BY DEF Event
<1> HIDE DEF a, e, n
<1>4. \A j : IsFiniteSet(Expiries(t, j)) /\ Cardinality(Expiries(t, j)) \in Nat
  <2> SUFFICES ASSUME NEW j
               PROVE  /\ IsFiniteSet(Expiries(t, j))
                      /\ Cardinality(Expiries(t, j)) \in Nat
    OBVIOUS
  <2>1. Expiries(t, j) \subseteq 1..n
    BY <1>1 DEF Expiries
  <2>2. IsFiniteSet(1..n)
    BY <1>1, FS_Interval
  <2>3. IsFiniteSet(Expiries(t, j))
    BY <2>1, <2>2, FS_Subset
  <2> QED BY <2>3, FS_CardinalityType
<1>5. \A j : j # k.obj => Expiries(a, j) = Expiries(t, j)
  BY <1>1 DEF Expiries
<1> SUFFICES ASSUME NEW j \in DOMAIN a.job
             PROVE  \E c \in Calls :
                      /\ c.op = "create_job" /\ c.obj = j
                      /\ a.job[j].attempt
                           = c.attempt + Cardinality(Expiries(a, j))
  BY DEF Counted, a
<1>6. CASE j \in DOMAIN t.job /\ a.job[j] = t.job[j] /\ Expiries(a, j) = Expiries(t, j)
  BY <1>6 DEF Counted
<1>7. CASE MovesJob(k, t, a) /\ j = k.obj
  <2>1. /\ k.op = "transition" /\ j \in DOMAIN t.job
        /\ a.job[j] = Moved(t.job[j], k.to, k.args)
    BY <1>7 DEF MovesJob, TransitionCall
  <2>2. e.says = [kind |-> "move", from |-> t.job[j].state, to |-> k.to]
    BY <1>3, <1>7, <2>1 DEF Payload, Before, StateOf
  <2>3. a.job[j].attempt = IF <<t.job[j].state, k.to>> \in LeaseExpiry
                           THEN t.job[j].attempt + 1 ELSE t.job[j].attempt
    BY <2>1 DEF Moved, AttemptAfter
  <2>4. PICK c \in Calls :
           /\ c.op = "create_job" /\ c.obj = j
           /\ t.job[j].attempt = c.attempt + Cardinality(Expiries(t, j))
    BY <2>1 DEF Counted
  <2>5. c.attempt \in Nat
    BY <2>4, SubstrateAssumption
       DEF TransitionCall, StudyCall, CreateJobCall, CreateStudyCall, EmitCall
  <2>6. CASE <<t.job[j].state, k.to>> \in LeaseExpiry
    <3>1. Expiries(a, j) = Expiries(t, j) \cup {n + 1}
      BY <1>1, <1>7, <2>2, <2>6 DEF Expiries
    <3>2. n + 1 \notin Expiries(t, j)
      BY <1>1 DEF Expiries
    <3>3. Cardinality(Expiries(a, j)) = Cardinality(Expiries(t, j)) + 1
      BY <1>4, <3>1, <3>2, FS_AddElement
    <3> QED BY <1>4, <2>3, <2>4, <2>5, <2>6, <3>3
  <2>7. CASE <<t.job[j].state, k.to>> \notin LeaseExpiry
    <3>1. Expiries(a, j) = Expiries(t, j)
      BY <1>1, <1>7, <2>2, <2>7 DEF Expiries
    <3> QED BY <2>3, <2>4, <2>7, <3>1
  <2> QED BY <2>6, <2>7
<1>8. CASE CreatesJob(k, t, a) /\ j = k.obj
  <2>1. /\ k.op = "create_job" /\ j \notin Objects(t)
        /\ k.attempt \in Nat
        /\ a.job[j] = NewJob(k.attempt, k.max)
    BY <1>8 DEF CreatesJob, CreateJobCall, Inserted
  <2>2. e.says.from = NoState
    BY <1>3, <2>1 DEF Payload, Before
  <2>3. Expiries(a, j) = {}
    BY <1>1, <1>8, <2>1, <2>2 DEF Expiries, LeaseExpiry, Leased, NoState
  <2>4. a.job[j].attempt = k.attempt + Cardinality(Expiries(a, j))
    BY <2>1, <2>3, FS_EmptySet DEF NewJob
  <2> QED BY <1>8, <2>1, <2>4
<1>9. CASE MovesStudy(k, t, a) \/ CreatesStudy(k, t, a)
  <2>1. a.job = t.job /\ k.obj \in Study
    BY <1>9 DEF MovesStudy, StudyCall, CreatesStudy, CreateStudyCall
  <2>2. j # k.obj
    BY <2>1, SubstrateAssumption DEF IsTables
  <2> QED BY <1>5, <1>6, <2>1, <2>2
<1>10. CASE Remarks(k, t, a)
  <2>1. a.job = t.job /\ k.op = "emit_event"
    BY <1>10 DEF Remarks, EmitCall
  <2>2. e.says.kind = "remark"
    BY <1>3, <2>1 DEF Payload
  <2>3. Expiries(a, j) = Expiries(t, j)
    BY <1>1, <2>2 DEF Expiries
  <2> QED BY <1>6, <2>1, <2>3
<1>11. CASE j # k.obj /\ (MovesJob(k, t, a) \/ CreatesJob(k, t, a))
  <2>1. j \in DOMAIN t.job /\ a.job[j] = t.job[j]
    BY <1>11 DEF MovesJob, CreatesJob, Inserted
  <2> QED BY <1>5, <1>6, <1>11, <2>1
<1> QED BY <1>2, <1>7, <1>8, <1>9, <1>10, <1>11 DEF Effect
-----------------------------------------------------------------------------
(***************************************************************************)
(* The clients.  The lock is held by the one whose transaction is open;    *)
(* how the tables it sees differ from the committed ones depends on where  *)
(* it is; and a call still aims at what it was meant for.                  *)
(***************************************************************************)
ClientsOK ==
    /\ lock \in Client \cup {NoClient}
    /\ pc \in [Client -> {"idle", "begin"} \cup Inside]
    /\ call \in [Client -> Calls \cup {NoCall}]
    /\ read \in [Client -> JobState \cup StudyStatus \cup {NoState}]
    /\ \A c \in Client : pc[c] = "idle" <=> call[c] = NoCall

LockExclusive ==
    /\ \A c \in Client : pc[c] \in Inside <=> lock = c
    /\ lock = NoClient => draft = db

CallsAim ==
    /\ \A c \in Client : pc[c] # "idle" => Aims(call[c], db)
    /\ \A c, d \in Client :
          c # d /\ pc[c] # "idle" /\ pc[d] # "idle" /\ Creates(call[c])
            => call[c].obj # call[d].obj

Progress(c) ==
    /\ pc[c] \in {"select", "write"} => draft = db
    /\ pc[c] \in {"write", "log", "commit"} =>
          Applies(call[c], db) /\ read[c] = Before(call[c], db)
    /\ pc[c] = "log" => draft = Written(call[c], db)
    /\ pc[c] = "commit" => draft = After(call[c], db)

Isolated == \A c \in Client : Progress(c)

LockInv ==
    IsTables(db) /\ ClientsOK /\ LockExclusive /\ CallsAim /\ Isolated

LEMMA LockInit == ASSUME Init PROVE LockInv
<1>1. /\ db = Empty /\ draft = db /\ lock = NoClient
      /\ \A c \in Client : pc[c] = "idle" /\ call[c] = NoCall
  BY DEF Init
<1>2. /\ DOMAIN <<>> = {} /\ <<>> \in Seq(Entry)
      /\ \A S : <<>> \in [{} -> S]
  OBVIOUS
<1>3. IsTables(db)
  BY <1>1, <1>2 DEF IsTables, Empty, Objects
<1>4. ClientsOK
  BY SubstrateAssumption DEF ClientsOK, Init
<1>5. LockExclusive /\ CallsAim /\ Isolated
  BY <1>1, SubstrateAssumption
     DEF LockExclusive, CallsAim, Isolated, Progress, Inside
<1> QED BY <1>3, <1>4, <1>5 DEF LockInv

\* What an open transaction sees is tables, too.
LEMMA DraftIsTables == ASSUME LockInv PROVE IsTables(draft)
<1>1. CASE lock = NoClient
  BY <1>1 DEF LockInv, LockExclusive
<1>2. CASE lock \in Client
  <2>1. /\ pc[lock] \in Inside /\ Progress(lock)
        /\ call[lock] \in Calls
    BY <1>2 DEF LockInv, LockExclusive, Isolated, ClientsOK, Inside
  <2>2. CASE pc[lock] \in {"select", "write"}
    BY <2>1, <2>2 DEF Progress, LockInv
  <2>3. CASE pc[lock] = "log"
    BY <2>1, <2>3, WrittenIsTables DEF Progress, LockInv
  <2>4. CASE pc[lock] = "commit"
    BY <2>1, <2>4, AfterIs DEF Progress, LockInv
  <2> QED BY <2>1, <2>2, <2>3, <2>4 DEF Inside
<1> QED BY <1>1, <1>2 DEF LockInv, ClientsOK

(***************************************************************************)
(* The only step that changes the committed tables is a COMMIT, and it     *)
(* makes of them what the whole call makes of them.                        *)
(***************************************************************************)
LEMMA CommitIsCall ==
    ASSUME LockInv, NEW c \in Client, Commit(c)
    PROVE  /\ call[c] \in Calls /\ Applies(call[c], db)
           /\ db' = After(call[c], db)
BY DEF Commit, LockInv, Isolated, Progress, ClientsOK

LEMMA OnlyCommit ==
    ASSUME LockInv, [Next]_vars
    PROVE  db' = db \/ \E c \in Client : Commit(c)
BY DEF Next, vars, Call, Begin, Busy, Select, SelectRaises, Write, Log, Crash,
       Rollback, Return

\* The clients' own variables.
LEMMA ClientsStep == ASSUME LockInv, [Next]_vars PROVE ClientsOK'
<1>1. ClientsOK
  BY DEF LockInv
<1>2. CASE UNCHANGED vars
  BY <1>1, <1>2 DEF ClientsOK, vars
<1>3. ASSUME NEW c \in Client, Return(c), lock' \in {lock, NoClient}
      PROVE  ClientsOK'
  BY <1>1, <1>3, SubstrateAssumption DEF ClientsOK, Return, Goto, NoState
<1>4. ASSUME NEW c \in Client, NEW k \in Calls, Call(c, k) PROVE ClientsOK'
  BY <1>1, <1>4, SubstrateAssumption DEF ClientsOK, Call, Goto, Inside
<1>5. ASSUME NEW c \in Client, Begin(c) PROVE ClientsOK'
  BY <1>1, <1>5 DEF ClientsOK, Begin, Goto, Inside
<1>6. ASSUME NEW c \in Client, Select(c) PROVE ClientsOK'
  <2>1. /\ draft = db /\ call[c] \in Calls /\ Applies(call[c], db)
    BY <1>6 DEF LockInv, ClientsOK, Isolated, Progress, Select, Applies,
                CallsAim
  <2>2. read' = [read EXCEPT ![c] = Before(call[c], db)]
    BY <1>6, <2>1 DEF Select, Before
  <2>3. Before(call[c], db) \in JobState \cup StudyStatus \cup {NoState}
    BY <2>1, EventIs DEF LockInv, Said
  <2> QED BY <1>1, <1>6, <2>2, <2>3 DEF ClientsOK, Select, Goto, Inside
<1>7. ASSUME NEW c \in Client, Write(c) \/ Log(c) PROVE ClientsOK'
  BY <1>1, <1>7 DEF ClientsOK, Write, Log, Goto, Inside
<1>8. CASE Next
  BY <1>3, <1>4, <1>5, <1>6, <1>7, <1>8
     DEF Next, Busy, SelectRaises, Rollback, Commit, Crash
<1> QED BY <1>2, <1>8

\* Who is inside, and what the tables look like when nobody is.
LEMMA ExclusiveStep == ASSUME LockInv, [Next]_vars PROVE LockExclusive'
<1>1. LockExclusive /\ ClientsOK /\ NoClient \notin Client
  BY SubstrateAssumption DEF LockInv
<1>2. CASE UNCHANGED vars
  BY <1>1, <1>2 DEF LockExclusive, vars
<1>3. ASSUME NEW c \in Client, NEW k \in Calls, Call(c, k)
      PROVE  LockExclusive'
  BY <1>1, <1>3 DEF LockExclusive, ClientsOK, Call, Goto, Inside
<1>4. ASSUME NEW c \in Client, Begin(c) PROVE LockExclusive'
  BY <1>1, <1>4 DEF LockExclusive, ClientsOK, Begin, Goto, Inside
<1>5. ASSUME NEW c \in Client, Rollback(c) PROVE LockExclusive'
  BY <1>1, <1>5
     DEF LockExclusive, ClientsOK, Rollback, Return, Goto, Inside
<1>6. ASSUME NEW c \in Client, pc[c] = "begin", Return(c),
             UNCHANGED <<db, draft, lock>>
      PROVE  LockExclusive'
  BY <1>1, <1>6 DEF LockExclusive, ClientsOK, Return, Goto, Inside
<1>7. ASSUME NEW c \in Client, Commit(c) PROVE LockExclusive'
  BY <1>1, <1>7 DEF LockExclusive, ClientsOK, Commit, Return, Goto, Inside
<1>8. ASSUME NEW c \in Client, Select(c) \/ Write(c) \/ Log(c)
      PROVE  LockExclusive'
  <2>1. lock = c /\ lock' = lock
    BY <1>1, <1>8 DEF LockExclusive, Select, Write, Log, Inside
  <2>2. pc[c] \in Inside /\ \E l \in Inside : pc' = [pc EXCEPT ![c] = l]
    BY <1>8 DEF Select, Write, Log, Goto, Inside
  <2> QED BY <1>1, <2>1, <2>2 DEF LockExclusive, ClientsOK
<1>9. CASE Next
  BY <1>3, <1>4, <1>5, <1>6, <1>7, <1>8, <1>9
     DEF Next, Busy, SelectRaises, Crash
<1> QED BY <1>2, <1>9

\* Objects do not go away, and only the commit of a creation adds one.
LEMMA AimsStep == ASSUME LockInv, [Next]_vars PROVE CallsAim'
<1>1. CallsAim /\ ClientsOK /\ IsTables(db)
  BY DEF LockInv
<1>2. ASSUME UNCHANGED db, NEW c \in Client, Return(c) PROVE CallsAim'
  BY <1>1, <1>2 DEF CallsAim, ClientsOK, Return, Goto, Aims, Objects
<1>3. CASE UNCHANGED <<db, call, pc>>
  BY <1>1, <1>3 DEF CallsAim, Aims, Objects
<1>4. ASSUME NEW c \in Client, NEW k \in Calls, Call(c, k) PROVE CallsAim'
  <2>1. /\ db' = db /\ pc[c] = "idle"
        /\ call' = [call EXCEPT ![c] = k] /\ pc' = [pc EXCEPT ![c] = "begin"]
        /\ Fresh(k) /\ Known(k)
    BY <1>4 DEF Call, Goto
  <2>2. Creates(k) \/ k.op \in {"transition", "study_transition", "emit_event"}
    BY SubstrateAssumption
       DEF Creates, TransitionCall, StudyCall, CreateJobCall, CreateStudyCall,
           EmitCall
  <2>3. /\ Aims(k, db)
        /\ Creates(k) => \A d \in Client : pc[d] # "idle" => call[d].obj # k.obj
    BY <2>1, <2>2 DEF Fresh, Known, Aims, Creates
  <2>4. \A d \in Client : d # c => call'[d] = call[d] /\ pc'[d] = pc[d]
    BY <1>1, <2>1 DEF ClientsOK
  <2>5. call'[c] = k
    BY <1>1, <2>1 DEF ClientsOK
  <2>6. ASSUME NEW d \in Client, pc'[d] # "idle" PROVE Aims(call'[d], db)
    BY <1>1, <2>3, <2>4, <2>5, <2>6 DEF CallsAim
  <2>7. ASSUME NEW d \in Client, NEW b \in Client, d # b,
               pc'[d] # "idle", pc'[b] # "idle", Creates(call'[d])
        PROVE  call'[d].obj # call'[b].obj
    <3>1. CASE d # c /\ b # c
      BY <1>1, <2>4, <2>7, <3>1 DEF CallsAim
    <3>2. CASE d = c
      BY <2>3, <2>4, <2>5, <2>7, <3>2
    <3>3. CASE b = c /\ d # c
      <4>1. call[d].obj \notin Objects(db) /\ pc[d] # "idle"
        BY <1>1, <2>4, <2>7, <3>3 DEF CallsAim, Aims
      <4> QED BY <2>3, <2>4, <2>5, <3>3, <4>1 DEF Aims
    <3> QED BY <3>1, <3>2, <3>3
  <2> QED BY <2>1, <2>6, <2>7 DEF CallsAim
<1>5. ASSUME NEW c \in Client, Commit(c) PROVE CallsAim'
  <2>1. /\ Applies(call[c], db) /\ db' = After(call[c], db)
        /\ call[c] \in Calls
    BY <1>5, CommitIsCall
  <2>2. Objects(db') = Objects(db) \cup {call[c].obj}
    BY <1>1, <2>1, AfterIs
  <2>3. /\ pc[c] # "idle" /\ pc'[c] = "idle"
        /\ \A d \in Client : d # c => call'[d] = call[d] /\ pc'[d] = pc[d]
    BY <1>1, <1>5 DEF ClientsOK, Commit, Return, Goto
  <2>4. ASSUME NEW d \in Client, pc'[d] # "idle" PROVE Aims(call'[d], db')
    <3>1. d # c /\ pc[d] # "idle" /\ call'[d] = call[d]
      BY <2>3, <2>4
    <3>2. Aims(call[d], db)
      BY <1>1, <3>1 DEF CallsAim
    <3>3. Creates(call[d]) => call[d].obj # call[c].obj
      BY <1>1, <2>3, <3>1 DEF CallsAim
    <3> QED BY <2>2, <3>1, <3>2, <3>3 DEF Aims
  <2> QED BY <1>1, <2>3, <2>4 DEF CallsAim
<1>6. ASSUME NEW c \in Client,
             Begin(c) \/ Select(c) \/ Write(c) \/ Log(c)
      PROVE  CallsAim'
  <2>1. db' = db /\ call' = call /\ pc[c] # "idle"
        /\ \E l \in Inside : pc' = [pc EXCEPT ![c] = l]
    BY <1>6 DEF Begin, Select, Write, Log, Goto, Inside
  <2>2. \A d \in Client : pc'[d] # "idle" => pc[d] # "idle"
    BY <1>1, <2>1 DEF ClientsOK
  <2> QED BY <1>1, <2>1, <2>2 DEF CallsAim
<1>7. CASE Next
  BY <1>2, <1>4, <1>5, <1>6, <1>7
     DEF Next, Busy, SelectRaises, Rollback, Crash
<1> QED BY <1>3, <1>7 DEF vars

\* Where the client that moves is, and that nobody else is inside.
LEMMA IsolatedStep == ASSUME LockInv, [Next]_vars PROVE Isolated'
<1>1. /\ ClientsOK /\ LockExclusive /\ Isolated /\ CallsAim
      /\ NoClient \notin Client
  BY SubstrateAssumption DEF LockInv
<1>2. CASE UNCHANGED vars
  BY <1>1, <1>2 DEF Isolated, Progress, vars
<1>3. ASSUME NEW c \in Client, UNCHANGED <<db, draft>>,
             \A d \in Client : d # c =>
                 pc'[d] = pc[d] /\ call'[d] = call[d] /\ read'[d] = read[d],
             Progress(c)'
      PROVE  Isolated'
  BY <1>1, <1>3 DEF Isolated, Progress
<1>4. ASSUME NEW c \in Client, lock = c,
             \A d \in Client : d # c => pc'[d] = pc[d],
             Progress(c)'
      PROVE  Isolated'
  <2>1. \A d \in Client : d # c => pc'[d] \notin Inside
    BY <1>1, <1>4 DEF LockExclusive
  <2> QED BY <1>4, <2>1 DEF Isolated, Progress, Inside
<1>5. ASSUME NEW c \in Client, NEW k \in Calls, Call(c, k) PROVE Isolated'
  BY <1>1, <1>3, <1>5 DEF Call, Goto, ClientsOK, Progress
<1>6. ASSUME NEW c \in Client, Begin(c) PROVE Isolated'
  <2>1. draft = db
    BY <1>1, <1>6 DEF Begin, LockExclusive
  <2> QED BY <1>1, <1>3, <1>6, <2>1 DEF Begin, Goto, ClientsOK, Progress
<1>7. ASSUME NEW c \in Client, Return(c), UNCHANGED <<db, draft>>
      PROVE  Isolated'
  BY <1>1, <1>3, <1>7 DEF Return, Goto, ClientsOK, Progress
<1>8. ASSUME NEW c \in Client, Rollback(c) \/ Commit(c) PROVE Isolated'
  <2>1. /\ lock = c /\ pc'[c] = "idle"
        /\ \A d \in Client : d # c => pc'[d] = pc[d]
    BY <1>1, <1>8
       DEF Rollback, Commit, Return, Goto, ClientsOK, LockExclusive, Inside
  <2>2. Progress(c)'
    BY <2>1 DEF Progress
  <2> QED BY <1>4, <2>1, <2>2
<1>9. ASSUME NEW c \in Client, Select(c) PROVE Isolated'
  <2>1. /\ draft = db /\ Applies(call[c], db)
    BY <1>1, <1>9 DEF Isolated, Progress, Select, Applies, CallsAim
  <2>2. /\ db' = db /\ draft' = draft /\ call' = call
        /\ pc' = [pc EXCEPT ![c] = "write"]
        /\ read' = [read EXCEPT ![c] = Before(call[c], db)]
    BY <1>9, <2>1 DEF Select, Before, Goto
  <2>3. Progress(c)'
    BY <1>1, <2>1, <2>2 DEF Progress, ClientsOK
  <2> QED BY <1>1, <1>3, <2>2, <2>3 DEF ClientsOK
<1>10. ASSUME NEW c \in Client, Write(c) PROVE Isolated'
  <2>1. /\ draft = db /\ Applies(call[c], db) /\ read[c] = Before(call[c], db)
        /\ lock = c
    BY <1>1, <1>10 DEF Isolated, Progress, Write, LockExclusive, Inside
  <2>2. /\ db' = db /\ call' = call /\ read' = read
        /\ pc' = [pc EXCEPT ![c] = "log"]
        /\ draft' = Written(call[c], db)
    BY <1>10, <2>1 DEF Write, Goto
  <2>3. Progress(c)'
    BY <1>1, <2>1, <2>2 DEF Progress, ClientsOK
  <2> QED BY <1>1, <1>4, <2>1, <2>2, <2>3 DEF ClientsOK
<1>11. ASSUME NEW c \in Client, Log(c) PROVE Isolated'
  <2>1. /\ draft = Written(call[c], db)
        /\ Applies(call[c], db) /\ read[c] = Before(call[c], db)
        /\ lock = c /\ call[c] \in Calls /\ IsTables(db)
    BY <1>1, <1>11
       DEF Isolated, Progress, Log, LockExclusive, Inside, ClientsOK, LockInv
  <2>2. draft.event = db.event
    BY <2>1, WrittenIs
  <2>3. /\ db' = db /\ call' = call /\ read' = read
        /\ pc' = [pc EXCEPT ![c] = "commit"]
        /\ draft' = [draft EXCEPT !.event =
                        Append(draft.event, Event(call[c], read[c]))]
    BY <1>11 DEF Log, Goto
  <2>4. draft' = After(call[c], db)
    BY <2>1, <2>2, <2>3 DEF After, Logged
  <2>5. Progress(c)'
    BY <1>1, <2>1, <2>3, <2>4 DEF Progress, ClientsOK
  <2> QED BY <1>1, <1>4, <2>1, <2>3, <2>5 DEF ClientsOK
<1>12. CASE Next
  BY <1>5, <1>6, <1>7, <1>8, <1>9, <1>10, <1>11, <1>12
     DEF Next, Busy, SelectRaises, Crash
<1> QED BY <1>2, <1>12

LEMMA LockStep == ASSUME LockInv, [Next]_vars PROVE LockInv'
<1>1. IsTables(db)'
  <2>1. CASE db' = db
    BY <2>1 DEF LockInv, IsTables, Objects
  <2>2. ASSUME NEW c \in Client, Commit(c) PROVE IsTables(db')
    BY <2>2, CommitIsCall, AfterIs DEF LockInv
  <2> QED BY <2>1, <2>2, OnlyCommit
<1> QED BY <1>1, ClientsStep, ExclusiveStep, AimsStep, IsolatedStep DEF LockInv

LEMMA LockAlways == Spec => []LockInv
<1> QED BY LockInit, LockStep, PTL DEF Spec
-----------------------------------------------------------------------------
(***************************************************************************)
(* The tables hold rows, the log speaks of what is in them, and the        *)
(* clients are somewhere in a call of theirs.                              *)
(***************************************************************************)
THEOREM TypeCorrect == Spec => []TypeOK
<1>1. LockInv => TypeOK
  <2> SUFFICES ASSUME LockInv PROVE TypeOK
    OBVIOUS
  <2>1. IsTables(db) /\ IsTables(draft) /\ ClientsOK
    BY DraftIsTables DEF LockInv
  <2>2. ASSUME NEW t \in {db, draft} PROVE DOMAIN t = {"job", "study", "event"}
    <3>1. t = [job |-> t.job, study |-> t.study, event |-> t.event]
      BY <2>1 DEF IsTables
    <3> QED BY <3>1
  <2> QED BY <2>1, <2>2 DEF TypeOK, IsTables, ClientsOK
<1> QED BY <1>1, LockAlways, PTL

(***************************************************************************)
(* Between SELECT and UPDATE the state of the row does not change: the     *)
(* guard of the UPDATE holds, whoever else is at work.                     *)
(***************************************************************************)
THEOREM UpdatesHit == Spec => []UpdateHits
<1>1. LockInv => UpdateHits
  BY DEF LockInv, Isolated, Progress, Before, UpdateHits
<1> QED BY <1>1, LockAlways, PTL

(***************************************************************************)
(* The event log replays the tables.                                       *)
(***************************************************************************)
THEOREM LogReplays == Spec => []LogReplaysTables
<1>1. Init => LogReplaysTables
  BY DEF Init, Empty, LogReplaysTables, Replays, Objects
<1>2. LockInv /\ LogReplaysTables /\ [Next]_vars => LogReplaysTables'
  <2> SUFFICES ASSUME LockInv, LogReplaysTables, [Next]_vars
               PROVE  LogReplaysTables'
    OBVIOUS
  <2>1. CASE db' = db
    BY <2>1 DEF LogReplaysTables, Replays, Objects, Moves, Follows, StateOf
  <2>2. ASSUME NEW c \in Client, Commit(c) PROVE Replays(db')
    BY <2>2, CommitIsCall, AfterReplays DEF LockInv, LogReplaysTables
  <2> QED BY <2>1, <2>2, OnlyCommit DEF LogReplaysTables
<1> QED BY <1>1, <1>2, LockAlways, PTL DEF Spec

(***************************************************************************)
(* A job's attempt is the one it was created with plus its lease expiries. *)
(***************************************************************************)
THEOREM AttemptsLogged == Spec => []AttemptsAreLogged
<1>1. Init => Counted(db)
  BY DEF Init, Empty, Counted
<1>2. LockInv /\ Counted(db) /\ [Next]_vars => Counted(db)'
  <2> SUFFICES ASSUME LockInv, Counted(db), [Next]_vars PROVE Counted(db')
    BY DEF Counted, Expiries, Moves
  <2>1. CASE db' = db
    BY <2>1
  <2>2. ASSUME NEW c \in Client, Commit(c) PROVE Counted(db')
    BY <2>2, CommitIsCall, AfterCounts DEF LockInv
  <2> QED BY <2>1, <2>2, OnlyCommit
<1>3. Counted(db) => AttemptsAreLogged
  BY DEF Counted, Expiries, AttemptsAreLogged
<1> QED BY <1>1, <1>2, <1>3, LockAlways, PTL DEF Spec

\* What one commit does to the log and to the rows of others.
LEMMA CommitIsOneRow ==
    ASSUME LockInv, NEW c \in Client, Commit(c)
    PROVE  LET n == Len(db'.event) IN
             /\ n = Len(db.event) + 1 /\ SubSeq(db'.event, 1, n - 1) = db.event
             /\ \A o \in Objects(db') \ {db'.event[n].obj} :
                   /\ o \in Objects(db)
                   /\ o \in Job => db'.job[o] = db.job[o]
                   /\ o \in Study => db'.study[o] = db.study[o]
<1> DEFINE k == call[c]
           e == Event(k, Before(k, db))
           n == Len(db.event)
<1>1. /\ IsTables(db) /\ k \in Calls /\ Applies(k, db)
      /\ db' = After(k, db)
  BY CommitIsCall DEF LockInv
<1>2. /\ db'.event = Append(db.event, e)
      /\ e \in Entry /\ e.obj = k.obj /\ db.event \in Seq(Entry)
      /\ Objects(db') = Objects(db) \cup {k.obj}
      /\ Effect(k, db, db')
  BY <1>1, AfterIs, EventIs DEF IsTables
<1> HIDE DEF k, e
<1>3. /\ Len(db'.event) = n + 1 /\ n \in Nat
      /\ db'.event[n + 1] = e
      /\ SubSeq(db'.event, 1, n) = db.event
  BY <1>2
<1>4. ASSUME NEW o \in Objects(db), o # k.obj
      PROVE  /\ o \in Job => db'.job[o] = db.job[o]
             /\ o \in Study => db'.study[o] = db.study[o]
  <2>1. /\ o \in Job => o \in DOMAIN db.job
        /\ o \in Study => o \in DOMAIN db.study
    BY <1>1, SubstrateAssumption DEF IsTables, Objects
  <2> HIDE DEF Moved, NewJob
  <2> QED BY <1>2, <1>4, <2>1
     DEF Effect, MovesJob, MovesStudy, CreatesJob, CreatesStudy, Remarks,
         Inserted
<1> QED BY <1>2, <1>3, <1>4

(***************************************************************************)
(* Every commit is one event and, at most, the row of its object.          *)
(***************************************************************************)
THEOREM OneWrite == Spec => OneRowOneEvent
<1>1. LockInv /\ [Next]_vars =>
        [LET n == Len(db'.event) IN
          db' # db =>
            /\ n = Len(db.event) + 1 /\ SubSeq(db'.event, 1, n - 1) = db.event
            /\ \A o \in Objects(db') \ {db'.event[n].obj} :
                  /\ o \in Objects(db)
                  /\ o \in Job => db'.job[o] = db.job[o]
                  /\ o \in Study => db'.study[o] = db.study[o]]_vars
  BY OnlyCommit, CommitIsOneRow
<1> QED BY <1>1, LockAlways, PTL DEF Spec, OneRowOneEvent
-----------------------------------------------------------------------------
(***************************************************************************)
(* The refinement: a commit is one step of the lifecycle, and all other    *)
(* statements are none.                                                    *)
(***************************************************************************)
\* The instance brings its own copy of JobMachine; the copies agree.
LEMMA SameMachine ==
    /\ Lifecycle!Leased = Leased
    /\ Lifecycle!LeaseExpiry = LeaseExpiry
    /\ Lifecycle!JobTransition = JobTransition
    /\ Lifecycle!JobRow = JobRow
    /\ \A a, m : Lifecycle!NewJob(a, m) = NewJob(a, m)
    /\ \A row, w : Lifecycle!Renewed(row, w) = Renewed(row, w)
    /\ \A t, id, row : Lifecycle!Inserted(t, id, row) = Inserted(t, id, row)
<1>1. Lifecycle!Leased = Leased /\ Lifecycle!PreRunning = PreRunning
  BY DEF Lifecycle!Leased, Leased, Lifecycle!PreRunning, PreRunning
<1>2. /\ Lifecycle!LeaseExpiry = LeaseExpiry
      /\ Lifecycle!TerminalJobState = TerminalJobState
  BY <1>1 DEF Lifecycle!LeaseExpiry, LeaseExpiry, Lifecycle!TerminalJobState,
              TerminalJobState
<1>3. Lifecycle!JobState = JobState
  BY <1>1, <1>2 DEF Lifecycle!JobState, JobState
<1>4. Lifecycle!JobTransition = JobTransition
  BY <1>1, <1>2 DEF Lifecycle!JobTransition, JobTransition
<1>5. Lifecycle!JobRow = JobRow
  BY <1>3 DEF Lifecycle!JobRow, JobRow
<1>6. /\ \A a, m : Lifecycle!NewJob(a, m) = NewJob(a, m)
      /\ \A row, w : Lifecycle!Renewed(row, w) = Renewed(row, w)
      /\ \A t, id, row : Lifecycle!Inserted(t, id, row) = Inserted(t, id, row)
  BY <1>1 DEF Lifecycle!NewJob, NewJob, Lifecycle!Renewed, Renewed,
              Lifecycle!Inserted, Inserted
<1> QED BY <1>1, <1>2, <1>4, <1>5, <1>6

\* What a transition makes of a row is what the lifecycle lets become of it.
LEMMA MoveRefines ==
    ASSUME IsTables(db), NEW k, MovesJob(k, db, db')
    PROVE  Lifecycle!Next
<1> DEFINE j == k.obj
           r == db.job[j]
           s == db'.job[j]
           new == Moved(r, k.to, k.args)
<1>1. /\ j \in DOMAIN db.job /\ k.args \in MoveArgs
      /\ r \in JobRow /\ WellLeased(r)
      /\ CanMove(r, k.to, k.human, k.expected, k.args)
      /\ <<r.state, k.to>> \in JobTransition
      /\ db'.job = [db.job EXCEPT ![j] = new]
  BY DEF MovesJob, TransitionCall, IsTables, CanMove
<1>2. new \in JobRow /\ WellLeased(new)
  BY <1>1, MovedIsRow
<1>3. s = new
  BY <1>1
<1>4. /\ s.state = k.to /\ s.max = r.max
      /\ s.run \in RunRef \cup {r.run}
      /\ s.verdict \in Verdict \cup {r.verdict}
  BY <1>1, <1>3 DEF Moved, MoveArgs
<1>5. Lifecycle!Becomes(j, s)
  BY <1>1, <1>2, <1>3, <1>4, SameMachine DEF Lifecycle!Becomes
<1>6. CASE k.to = "assigned"
  <2>1. r.state = "queued"
    BY <1>1, <1>6 DEF JobTransition, LeaseExpiry, PreRunning, Leased
  <2>2. s.worker \in Worker /\ s.lease = "live" /\ s.attempt = r.attempt
    BY <1>1, <1>3, <1>6, <2>1
       DEF Moved, HolderAfter, LeaseAfter, AttemptAfter, CanMove, MoveArgs,
           LeaseExpiry, Leased
  <2>3. Lifecycle!Claim(j)
    BY <1>4, <1>5, <1>6, <2>1, <2>2 DEF Lifecycle!Claim
  <2> QED BY <1>1, <2>3 DEF Lifecycle!Next
<1>7. CASE k.to = "running"
  <2>1. r.state = "assigned"
    BY <1>1, <1>7 DEF JobTransition, LeaseExpiry, PreRunning, Leased
  <2>2. /\ s.worker = r.worker /\ s.lease \in {r.lease, "live"}
        /\ s.attempt = r.attempt
    BY <1>1, <1>3, <1>7, <2>1
       DEF Moved, HolderAfter, LeaseAfter, AttemptAfter, LeaseExpiry, Leased
  <2>3. Lifecycle!Start(j)
    BY <1>4, <1>5, <1>7, <2>1, <2>2 DEF Lifecycle!Start
  <2> QED BY <1>1, <2>3 DEF Lifecycle!Next
<1>8. CASE r.state \in Leased /\ k.to = "queued"
  <2>1. s.worker = NoWorker /\ s.lease = "none" /\ s.attempt = r.attempt + 1
    BY <1>1, <1>3, <1>8
       DEF Moved, HolderAfter, LeaseAfter, AttemptAfter, LeaseExpiry
  <2>2. Lifecycle!Requeue(j)
    BY <1>4, <1>5, <1>8, <2>1, SameMachine
       DEF Lifecycle!Requeue, Lifecycle!IsHeld
  <2> QED BY <1>1, <2>2 DEF Lifecycle!Next
<1>9. CASE k.to \notin Leased /\ ~(r.state \in Leased /\ k.to = "queued")
  <2>1. <<r.state, k.to>> \notin LeaseExpiry
    BY <1>9 DEF LeaseExpiry
  <2>2. s.worker = r.worker /\ s.attempt = r.attempt
    BY <1>1, <1>3, <1>9, <2>1
       DEF Moved, HolderAfter, LeaseAfter, AttemptAfter, Leased
  <2>3. s.lease = "none"
    BY <1>2, <1>3, <1>4, <1>9 DEF WellLeased
  <2>4. Lifecycle!Settle(j)
    BY <1>1, <1>4, <1>5, <1>9, <2>1, <2>2, <2>3, SameMachine
       DEF Lifecycle!Settle
  <2> QED BY <1>1, <2>4 DEF Lifecycle!Next
<1> QED BY <1>6, <1>7, <1>8, <1>9 DEF Leased

\* And what create_job inserts is what the lifecycle lets be created.
LEMMA CreateRefines ==
    ASSUME NEW k, CreatesJob(k, db, db') PROVE Lifecycle!Next
<1> DEFINE row == NewJob(k.attempt, k.max)
<1>1. /\ k.obj \in Job /\ k.obj \notin DOMAIN db.job
      /\ db'.job = Inserted(db.job, k.obj, row)
      /\ row \in JobRow
  BY NewJobIsRow DEF CreatesJob, CreateJobCall, Objects
<1>2. row.attempt = k.attempt /\ row.max = k.max
  BY DEF NewJob
<1> HIDE DEF row
<1>3. db'.job[k.obj] = row /\ k.obj \in DOMAIN db'.job
  BY <1>1 DEF Inserted
<1>4. row = NewJob(row.attempt, row.max)
  BY <1>2 DEF row
<1>5. Lifecycle!Create(k.obj)
  BY <1>1, <1>3, <1>4, SameMachine DEF Lifecycle!Create
<1> QED BY <1>1, <1>5 DEF Lifecycle!Next

(***************************************************************************)
(* The committed job table is a JobLifecycle, whatever transactions are    *)
(* open, rolled back, refused or cut short by a crash.                     *)
(***************************************************************************)
THEOREM Implementation == Spec => ImplementsLifecycle
<1>1. Init => Lifecycle!Init
  BY DEF Init, Empty, Lifecycle!Init
<1>2. LockInv /\ [Next]_vars => [Lifecycle!Next]_(db.job)
  <2> SUFFICES ASSUME LockInv, [Next]_vars PROVE [Lifecycle!Next]_(db.job)
    OBVIOUS
  <2>1. CASE db' = db
    BY <2>1
  <2>2. ASSUME NEW c \in Client, Commit(c) PROVE [Lifecycle!Next]_(db.job)
    <3>1. IsTables(db) /\ Effect(call[c], db, db')
      BY <2>2, CommitIsCall, AfterIs DEF LockInv
    <3> QED BY <3>1, MoveRefines, CreateRefines
       DEF Effect, MovesStudy, CreatesStudy, Remarks
  <2> QED BY <2>1, <2>2, OnlyCommit
<1> QED BY <1>1, <1>2, LockAlways, PTL
     DEF Spec, ImplementsLifecycle, Lifecycle!Spec
=============================================================================
