----------------------------- MODULE MCControl -----------------------------
(***************************************************************************)
(* A study of one case, so that REPORT, CHECK and ANALYSIS are a chain.    *)
(* Any one worker will do: nothing here depends on which it is.            *)
(***************************************************************************)
EXTENDS Control
=============================================================================
