----------------------------- MODULE MCExecution ------------------------------
(***************************************************************************)
(* Execution with the requests and hosts of MCRequests.                     *)
(***************************************************************************)
EXTENDS Execution, MCRequests
==============================================================================
