------------------------------- MODULE Tasks -------------------------------
(***************************************************************************)
(* tests/test-task: independent tasks, in a program that leaves            *)
(* initialising and finalising the library to gtc_create and gtc_destroy.  *)
(***************************************************************************)
EXTENDS Library

TasksSeed(a) == FlattenSeq([i \in 1..a.tasks |-> <<Create(1), Add(1, i), Destroy(1)>>])

TasksBody == <<[op |-> "sleep"]>>

TasksExpected(a) == [sleep_time |-> a.tasks]

TasksMain(a, n, p) ==
  GtcCreate(CfgInit) \o <<Class("task_fcn")>>
  \o (IF p = 0 THEN TasksSeed(a) ELSE <<>>) \o GtcProcess
  \o <<Barrier>> \o GtcPrintStats(n, p, TRUE) \o <<Barrier>>
  \o <<Reduce("sum", <<"sleep_time">>)>> \o GtcDestroy
=============================================================================
