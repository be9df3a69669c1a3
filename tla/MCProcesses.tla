---------------------------- MODULE MCProcesses ----------------------------
(* Instances of Processes for TLC.                                          *)
EXTENDS Processes
=============================================================================
