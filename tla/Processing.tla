----------------------------- MODULE Processing -----------------------------
(***************************************************************************)
(* What gtc_process promises the program.  The processes enter together;   *)
(* every task that is added is completed once, by its owner or, when the   *)
(* load is balanced, by whoever took it over; nobody returns while a task  *)
(* he might still be given is pending; and nobody prepares the next phase  *)
(* before everyone has returned from this one.                             *)
(***************************************************************************)
EXTENDS Integers

CONSTANT Procs

VARIABLES balancing,  \* do processes take over tasks from one another?
          where,      \* "out", "in" or "done": where each process is in a phase
          pending     \* tasks in each process's keeping that are not completed

vars == <<balancing, where, pending>>

TypeOK == /\ balancing \in BOOLEAN
          /\ where \in [Procs -> {"out", "in", "done"}]
          /\ pending \in [Procs -> Nat]

Init == /\ balancing \in BOOLEAN
        /\ where = [p \in Procs |-> "out"] /\ pending = [p \in Procs |-> 0]

Add(p) == /\ \/ where[p] = "out"
             \/ where[p] = "in" /\ pending[p] > 0   \* a task adds another one
          /\ pending' = [pending EXCEPT ![p] = @ + 1]
          /\ UNCHANGED <<balancing, where>>

Enter == /\ \A p \in Procs : where[p] = "out"
         /\ where' = [p \in Procs |-> "in"]
         /\ UNCHANGED <<balancing, pending>>

Complete(p) == /\ where[p] = "in" /\ pending[p] > 0
               /\ pending' = [pending EXCEPT ![p] = @ - 1]
               /\ UNCHANGED <<balancing, where>>

TakeOver(p, v) == /\ balancing /\ where[p] = "in" /\ p # v
                  /\ \E n \in 1..pending[v] :
                       pending' = [pending EXCEPT ![p] = @ + n, ![v] = @ - n]
                  /\ UNCHANGED <<balancing, where>>

Return(p) == /\ where[p] = "in"
             /\ \A q \in IF balancing THEN Procs ELSE {p} : pending[q] = 0
             /\ where' = [where EXCEPT ![p] = "done"]
             /\ UNCHANGED <<balancing, pending>>

Prepare(p) == /\ where[p] = "done" /\ \A q \in Procs : where[q] # "in"
              /\ where' = [where EXCEPT ![p] = "out"]
              /\ UNCHANGED <<balancing, pending>>

Next == \/ Enter
        \/ \E p \in Procs : Add(p) \/ Complete(p) \/ Return(p) \/ Prepare(p)
        \/ \E p, v \in Procs : TakeOver(p, v)

Spec == Init /\ [][Next]_vars
=============================================================================
