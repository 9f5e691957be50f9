---------------------------- MODULE ExperienceFile -----------------------------
(***************************************************************************)
(* What runtime/experience/store.py promises of itself: a "Durable,        *)
(* transactional, local SQLite store".  No processes, locks, snapshots or  *)
(* open transactions: one file, and records that are added to it one at a  *)
(* time, each as a whole and none at the cost of another.                  *)
(***************************************************************************)
CONSTANT Nothing       \* a NULL column

VARIABLES
  file,      \* the rows
  answered   \* <<table, key>> of each record a call has answered as recorded

Key(r) == <<r.table, r.key>>

\* inserted and never updated: what was verified, diagnosed and tried
Kept == {"outcomes", "failures", "recoveries"}

Init == file = {} /\ answered = {}

(***************************************************************************)
(* A call answers that it has recorded r.  The rows of other keys stay;    *)
(* besides r only projects named on the way get in; r's session is in the  *)
(* file.                                                                   *)
(***************************************************************************)
Record(r) ==
  /\ r.session = Nothing \/ \E s \in file' : Key(s) = <<"sessions", r.session>>
  /\ r.table \in Kept => \A q \in file : Key(q) # Key(r)
  /\ \A q \in file : Key(q) # Key(r) => q \in file'
  /\ \A q \in file' : q = r \/ (Key(q) # Key(r) /\ (q \in file \/ q.table = "projects"))
  /\ answered' = answered \cup {Key(r)}

Next == \E r \in file' : Record(r)

Spec == Init /\ [][Next]_<<file, answered>>
=============================================================================
