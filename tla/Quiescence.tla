----------------------------- MODULE Quiescence -----------------------------
(***************************************************************************)
(* What termination detection promises: a process learns that all work is  *)
(* done only when it is, and work that is done never comes back before the *)
(* next collective reset.                                                  *)
(***************************************************************************)
CONSTANT Procs

VARIABLES work,     \* is there a task anywhere, queued or running?
          detected  \* the processes that have been told there is none

vars == <<work, detected>>

TypeOK == work \in BOOLEAN /\ detected \subseteq Procs

Init == work \in BOOLEAN /\ detected = {}

\* Tasks run, spawn others and move; eventually the last one completes.
Complete == work /\ work' = FALSE /\ UNCHANGED detected

Detect(p) == ~work /\ p \notin detected /\ detected' = detected \cup {p}
             /\ UNCHANGED work

\* Everybody has been told: a new phase may begin.
Restart == detected = Procs /\ detected' = {} /\ work' \in BOOLEAN

Next == Complete \/ Restart \/ \E p \in Procs : Detect(p)

Spec == Init /\ [][Next]_vars
=============================================================================
