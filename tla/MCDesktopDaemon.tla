----------------------------- MODULE MCDesktopDaemon -----------------------------
(* DesktopDaemon on a small instance; launches and shutdowns alike.                 *)
EXTENDS DesktopDaemon, TLC

Symmetry == Permutations(Sessions) \cup Permutations(Stoppers)
==================================================================================
