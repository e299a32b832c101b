-------------------------- MODULE JobMachineProofs --------------------------
(***************************************************************************)
(* What the row operators of JobMachine return, for every row a job table  *)
(* can hold.  The modules that prove something about a job table cite      *)
(* these facts instead of expanding the operators.                         *)
(***************************************************************************)
EXTENDS JobMachine, TLAPS

(***************************************************************************)
(* What create_job inserts is a row, and nobody holds it.                  *)
(***************************************************************************)
LEMMA NewJobIsRow ==
    ASSUME NEW a \in Nat \ {0}, NEW m \in Nat \ {0}
    PROVE  /\ NewJob(a, m) \in JobRow
           /\ WellLeased(NewJob(a, m))
BY NullsAssumption
   DEF NewJob, JobRow, JobState, PreRunning, WellLeased, Leased

(***************************************************************************)
(* transition() writes rows, and keeps the lease columns in step with the  *)
(* state.                                                                  *)
(***************************************************************************)
LEMMA MovedIsRow ==
    ASSUME NEW row \in JobRow, NEW to, NEW human, NEW expected,
           NEW args \in MoveArgs,
           CanMove(row, to, human, expected, args)
    PROVE  /\ Moved(row, to, args) \in JobRow
           /\ WellLeased(row) => WellLeased(Moved(row, to, args))
<1> DEFINE new == Moved(row, to, args)
<1>1. <<row.state, to>> \in JobTransition /\ row.state \in JobState
  BY DEF CanMove, JobRow
<1>2. to \in JobState
  BY <1>1 DEF JobTransition, JobState, PreRunning, Leased, LeaseExpiry,
              TerminalJobState
<1>3. to = "assigned" => args.worker \in Worker /\ args.worker # NoWorker
  BY NullsAssumption DEF CanMove, MoveArgs
<1>4. new \in JobRow
  BY <1>2 DEF Moved, HolderAfter, LeaseAfter, AttemptAfter, JobRow, MoveArgs
<1>5. ASSUME WellLeased(row) PROVE WellLeased(new)
  BY <1>1, <1>3, <1>5
     DEF Moved, HolderAfter, LeaseAfter, AttemptAfter, WellLeased,
         JobTransition, Leased, LeaseExpiry, PreRunning,
         JobRow
<1> QED BY <1>4, <1>5

(***************************************************************************)
(* A heartbeat keeps rows rows and leases in step with the state, and      *)
(* leaves alone whatever is not held.                                      *)
(***************************************************************************)
LEMMA RenewedIsRow ==
    ASSUME NEW row \in JobRow, NEW w
    PROVE  /\ Renewed(row, w) \in JobRow
           /\ Renewed(row, w).state = row.state
           /\ Renewed(row, w).worker = row.worker
           /\ row.state \notin Leased => Renewed(row, w) = row
           /\ WellLeased(row) => WellLeased(Renewed(row, w))
BY DEF Renewed, JobRow, WellLeased, Leased

(***************************************************************************)
(* Inserting a row changes no other row.                                   *)
(***************************************************************************)
LEMMA InsertedIsTable ==
    ASSUME NEW Row, NEW table, table \in [DOMAIN table -> Row],
           NEW id, NEW row \in Row
    PROVE  /\ Inserted(table, id, row) \in [DOMAIN table \cup {id} -> Row]
           /\ Inserted(table, id, row)[id] = row
           /\ \A i \in DOMAIN table \ {id} : Inserted(table, id, row)[i] = table[i]
BY DEF Inserted
=============================================================================
