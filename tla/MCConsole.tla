------------------------------- MODULE MCConsole -------------------------------
(* The console with named processes. *)
EXTENDS Console
================================================================================
