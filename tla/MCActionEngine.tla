----------------------------- MODULE MCActionEngine -----------------------------
(* ActionEngine on small instances: an action, its retry, and another action.     *)
EXTENDS ActionEngine

CONSTANTS c1, c2, c3, click, other

RetryIds == [c \in Calls |-> IF c = c3 THEN other ELSE click]
================================================================================
