------------------------------ MODULE Substrate ------------------------------
(***************************************************************************)
(* The transactions of have_agent/substrate.py over one SQLite file: any   *)
(* number of clients (workers, control loops, the CLI) call transition,    *)
(* study_transition, create_study, create_job and emit_event.  Each call   *)
(* runs                                                                    *)
(*                                                                         *)
(*    BEGIN IMMEDIATE;  SELECT and checks;  UPDATE or INSERT of the row;   *)
(*    INSERT of the event;  COMMIT                                         *)
(*                                                                         *)
(* one statement per step, with a ROLLBACK where a check raises and a      *)
(* crash anywhere.  What other clients read is the committed tables.       *)
(***************************************************************************)
EXTENDS JobMachine, StudyMachine, FiniteSets, Sequences

CONSTANTS
    Client, NoClient,   \* the processes with a connection
    Job, Study,         \* ids
    Calls,              \* the calls the clients make
    NoCall,             \* between two calls
    MaxEvents           \* bound: no new call once the log is this long

NoState == "none"       \* an event payload without "from"

\* The argument lists of the five functions.
TransitionCall ==
    [op : {"transition"}, obj : Job, to : JobState, human : BOOLEAN,
     expected : JobState \cup {AnyState}, args : MoveArgs]

StudyCall ==
    [op : {"study_transition"}, obj : Study, to : StudyStatus,
     human : BOOLEAN, expected : StudyStatus \cup {AnyState}]

CreateJobCall ==
    [op : {"create_job"}, obj : Job, attempt : Nat \ {0}, max : Nat \ {0}]

CreateStudyCall == [op : {"create_study"}, obj : Study]

EmitCall == [op : {"emit_event"}, obj : Job \cup Study]

ASSUME SubstrateAssumption ==
    /\ NoClient \notin Client /\ NoCall \notin Calls
    /\ Job \cap Study = {}
    /\ AnyState \notin StudyStatus
    /\ \A k \in Calls :
          k \in TransitionCall \cup StudyCall \cup CreateJobCall
                  \cup CreateStudyCall \cup EmitCall
    /\ MaxEvents \in Nat

VARIABLES
    db,     \* the committed tables: job, study and the event log
    draft,  \* the tables as the open transaction sees them
    lock,   \* the client inside BEGIN IMMEDIATE ... COMMIT
    pc,     \* where each client is in its call
    call,   \* the arguments of that call
    read    \* the state it has SELECTed

vars == <<db, draft, lock, pc, call, read>>

Empty == [job |-> <<>>, study |-> <<>>, event |-> <<>>]

Objects(t) == DOMAIN t.job \cup DOMAIN t.study

StateOf(t, o) == IF o \in DOMAIN t.job THEN t.job[o].state ELSE t.study[o]

\* None of the checks between the SELECT and the UPDATE raises.
Passes(k, t) ==
    CASE k.op = "transition" ->
           /\ k.obj \in DOMAIN t.job
           /\ CanMove(t.job[k.obj], k.to, k.human, k.expected, k.args)
      [] k.op = "study_transition" ->
           /\ k.obj \in DOMAIN t.study
           /\ k.expected \in {AnyState, t.study[k.obj]}
           /\ <<t.study[k.obj], k.to>> \in StudyTransition
           /\ StudyActorMay(k.human, t.study[k.obj], k.to)
      [] OTHER -> TRUE

\* The tables after the UPDATE (or INSERT) of the row.
Written(k, t) ==
    CASE k.op = "transition" ->
           [t EXCEPT !.job[k.obj] = Moved(@, k.to, k.args)]
      [] k.op = "study_transition" ->
           [t EXCEPT !.study[k.obj] = k.to]
      [] k.op = "create_job" ->
           [t EXCEPT !.job = Inserted(@, k.obj, NewJob(k.attempt, k.max))]
      [] k.op = "create_study" ->
           [t EXCEPT !.study = Inserted(@, k.obj, "draft")]
      [] OTHER -> t

\* What the event says of the object: the move, the creation, or a remark.
Payload(k, from) ==
    CASE k.op \in {"transition", "study_transition"} ->
           [kind |-> "move", from |-> from, to |-> k.to]
      [] k.op = "create_job" ->
           [kind |-> "move", from |-> NoState, to |-> "proposed"]
      [] k.op = "create_study" ->
           [kind |-> "move", from |-> NoState, to |-> "draft"]
      [] OTHER ->
           [kind |-> "remark", from |-> NoState, to |-> NoState]

\* Mutant: the event reports the caller's expected_state, not the row's.
EventAsExpected(k, from) ==
    [obj |-> k.obj,
     says |-> Payload(k, IF k.op = "transition" THEN k.expected ELSE from)]

Event(k, from) == [obj |-> k.obj, says |-> Payload(k, from)]
-----------------------------------------------------------------------------
Init ==
    /\ db = Empty /\ draft = Empty /\ lock = NoClient
    /\ pc = [c \in Client |-> "idle"]
    /\ call = [c \in Client |-> NoCall]
    /\ read = [c \in Client |-> NoState]

Goto(c, label) == pc' = [pc EXCEPT ![c] = label]

\* The call is over, or its process is gone: nothing of it is remembered.
Return(c) ==
    /\ Goto(c, "idle")
    /\ call' = [call EXCEPT ![c] = NoCall]
    /\ read' = [read EXCEPT ![c] = NoState]

\* Ids are ULIDs: a creating call brings an id that nobody else has.
Fresh(k) ==
    k.op \in {"create_job", "create_study"} =>
        /\ k.obj \notin Objects(db)
        /\ \A c \in Client : pc[c] # "idle" => call[c].obj # k.obj

\* Callers name objects they have read from the tables.
Known(k) ==
    k.op \in {"transition", "study_transition", "emit_event"} =>
        k.obj \in Objects(db)

Call(c, k) ==
    /\ pc[c] = "idle" /\ Len(db.event) < MaxEvents
    /\ Fresh(k) /\ Known(k)
    /\ call' = [call EXCEPT ![c] = k]
    /\ Goto(c, "begin")
    /\ UNCHANGED <<db, draft, lock, read>>

\* Mutant: BEGIN, which takes no lock before the first write.
BeginDeferred(c) ==
    /\ pc[c] = "begin"
    /\ lock' = c
    /\ Goto(c, "select")
    /\ UNCHANGED <<db, draft, call, read>>

\* BEGIN IMMEDIATE takes SQLite's one write lock ...
Begin(c) ==
    /\ pc[c] = "begin" /\ lock = NoClient
    /\ lock' = c
    /\ Goto(c, "select")
    /\ UNCHANGED <<db, draft, call, read>>

\* ... or fails after busy_timeout, outside the try block.
Busy(c) ==
    /\ pc[c] = "begin" /\ lock # NoClient
    /\ Return(c)
    /\ UNCHANGED <<db, draft, lock>>

Rollback(c) ==
    /\ lock = c
    /\ draft' = db /\ lock' = NoClient
    /\ Return(c)
    /\ UNCHANGED <<db>>

Select(c) ==
    /\ pc[c] = "select" /\ Passes(call[c], draft)
    /\ read' = [read EXCEPT ![c] =
                  IF call[c].op \in {"transition", "study_transition"}
                  THEN StateOf(draft, call[c].obj) ELSE NoState]
    /\ Goto(c, "write")
    /\ UNCHANGED <<db, draft, lock, call>>

SelectRaises(c) ==
    /\ pc[c] = "select" /\ ~Passes(call[c], draft)
    /\ Rollback(c)

\* Mutant: the UPDATE is committed by itself.
WriteAutocommitted(c) ==
    /\ pc[c] = "write"
    /\ draft' = Written(call[c], draft) /\ db' = draft'
    /\ Goto(c, "log")
    /\ UNCHANGED <<lock, call, read>>

\* UPDATE ... WHERE id = ? AND state = current.  That it hits one row is
\* the invariant UpdateHits; the code's branch for rowcount # 1 is never
\* taken, so it has no action here.
Write(c) ==
    /\ pc[c] = "write"
    /\ draft' = Written(call[c], draft)
    /\ Goto(c, "log")
    /\ UNCHANGED <<db, lock, call, read>>

Log(c) ==
    /\ pc[c] = "log"
    /\ draft' = [draft EXCEPT !.event = Append(@, Event(call[c], read[c]))]
    /\ Goto(c, "commit")
    /\ UNCHANGED <<db, lock, call, read>>

Commit(c) ==
    /\ pc[c] = "commit"
    /\ db' = draft /\ lock' = NoClient
    /\ Return(c)
    /\ UNCHANGED <<draft>>

\* The process dies; SQLite forgets its open transaction.
Crash(c) ==
    \/ pc[c] = "begin" /\ Return(c) /\ UNCHANGED <<db, draft, lock>>
    \/ pc[c] # "begin" /\ Rollback(c)

Next ==
    \E c \in Client :
        \/ \E k \in Calls : Call(c, k)
        \/ Begin(c) \/ Busy(c)
        \/ Select(c) \/ SelectRaises(c)
        \/ Write(c) \/ Log(c) \/ Commit(c)
        \/ Crash(c)

Spec == Init /\ [][Next]_vars
-----------------------------------------------------------------------------
Moves(t, o) ==
    {i \in DOMAIN t.event : t.event[i].obj = o /\ t.event[i].says.kind = "move"}

Inside == {"select", "write", "log", "commit"}

TypeOK ==
    /\ \A t \in {db, draft} :
          /\ DOMAIN t = {"job", "study", "event"}
          /\ DOMAIN t.job \subseteq Job /\ t.job \in [DOMAIN t.job -> JobRow]
          /\ DOMAIN t.study \subseteq Study
          /\ t.study \in [DOMAIN t.study -> StudyStatus]
          /\ \A i \in DOMAIN t.event : t.event[i].obj \in Objects(t)
    /\ lock \in Client \cup {NoClient}
    /\ pc \in [Client -> {"idle", "begin"} \cup Inside]
    /\ call \in [Client -> Calls \cup {NoCall}]
    /\ read \in [Client -> JobState \cup StudyStatus \cup {NoState}]

(***************************************************************************)
(* The guard of the UPDATE on the state it read never fails: BEGIN         *)
(* IMMEDIATE keeps every other writer out between SELECT and UPDATE.       *)
(***************************************************************************)
UpdateHits ==
    \A c \in Client :
        pc[c] = "write" /\ read[c] # NoState
          => StateOf(draft, call[c].obj) = read[c]

(***************************************************************************)
(* The log replays the tables: the committed moves of every object start   *)
(* with its creation, each starts where the one before ended, and the last *)
(* one ends in the object's state; whatever raised or crashed in between.  *)
(***************************************************************************)
Follows(t, o, i, k) ==
    /\ i \in Moves(t, o) /\ k \in Moves(t, o) /\ i < k
    /\ \A m \in Moves(t, o) : ~(i < m /\ m < k)

Replays(t) ==
    \A o \in Objects(t) :
        /\ \E i \in Moves(t, o) : t.event[i].says.from = NoState
        /\ \A i, k \in DOMAIN t.event :
              Follows(t, o, i, k) => t.event[k].says.from = t.event[i].says.to
        /\ \A i \in Moves(t, o) :
              (\A k \in Moves(t, o) : k <= i)
                => t.event[i].says.to = StateOf(t, o)

LogReplaysTables == Replays(db)

(***************************************************************************)
(* A job's attempt counter is what it was created with plus the lease      *)
(* expiries in the log.                                                    *)
(***************************************************************************)
AttemptsAreLogged ==
    \A j \in DOMAIN db.job :
        LET expiries == {i \in Moves(db, j) :
                <<db.event[i].says.from, db.event[i].says.to>> \in LeaseExpiry}
        IN  \E k \in Calls :
                /\ k.op = "create_job" /\ k.obj = j
                /\ db.job[j].attempt = k.attempt + Cardinality(expiries)

(***************************************************************************)
(* Nothing is written without its event, and nothing else with it: a       *)
(* commit appends one event and touches no row but that event's object.    *)
(***************************************************************************)
OneRowOneEvent ==
    [][LET n == Len(db'.event) IN
        db' # db =>
          /\ n = Len(db.event) + 1 /\ SubSeq(db'.event, 1, n - 1) = db.event
          /\ \A o \in Objects(db') \ {db'.event[n].obj} :
                /\ o \in Objects(db)
                /\ o \in Job => db'.job[o] = db.job[o]
                /\ o \in Study => db'.study[o] = db.study[o]]_vars

(***************************************************************************)
(* What the clients see of the job table is JobLifecycle, one committed    *)
(* row at a time: the five statements of a transaction look like one step. *)
(***************************************************************************)
Lifecycle == INSTANCE JobLifecycle WITH job <- db.job

ImplementsLifecycle == Lifecycle!Spec
=============================================================================
