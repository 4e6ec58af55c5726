----------------------------- MODULE MCWsSender -----------------------------
(* WsSender on small instances. *)
EXTENDS WsSender
=============================================================================
