------------------------------ MODULE MCLeases ------------------------------
(***************************************************************************)
(* Instances of Leases for TLC.                                            *)
(***************************************************************************)
EXTENDS Leases

\* A run is told apart by who executed it.
MCRunRef == Worker
=============================================================================
