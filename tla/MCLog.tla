------------------------------- MODULE MCLog -------------------------------
(* An instance of Log for TLC: the values are in MCLog.cfg. *)
EXTENDS Log
============================================================================
