---------------------------- MODULE MCSessionManager ----------------------------
(* SessionManager on a small instance: sessions and tasks are interchangeable.   *)
EXTENDS SessionManager, TLC

Symmetry == Permutations(Sessions) \cup Permutations(Tasks)
==================================================================================
