----------------------------- MODULE MCMySQLPool -----------------------------
(* MySQLPool on small instances. *)
EXTENDS MySQLPool
=============================================================================
