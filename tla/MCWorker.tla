------------------------------ MODULE MCWorker ------------------------------
(* Worker on small instances. *)
EXTENDS Worker, TLC

Symmetry == Permutations(Conn) \cup Permutations(Fd) \cup Permutations(WriteLoop)
=============================================================================
