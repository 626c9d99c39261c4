------------------------------ MODULE MCRunLog -------------------------------
(* Small instances of RunLog: one client, and a queue and a log of a few      *)
(* events, so that every run fills and evicts them.                           *)
EXTENDS RunLog
=============================================================================
