---------------------------- MODULE MCScheduler ----------------------------
EXTENDS Scheduler

Conf(k, st, sel) == [kind |-> k, stealing |-> st, selection |-> sel]

\* Both queues with either selection of targets; without stealing the selection is
\* never used.
MCConfs == {Conf("SAWS", TRUE, "RANDOM"), Conf("SAWS", TRUE, "ROUND_ROBIN"),
            Conf("SDC",  TRUE, "RANDOM"), Conf("SDC",  TRUE, "ROUND_ROBIN"),
            Conf("SAWS", FALSE, "RANDOM"), Conf("SDC", FALSE, "RANDOM")}

\* Two tasks where one may be stolen behind a wave while the other runs (the SAWS
\* queue shares a task only when it has two); fewer where runs are longer.
MCTaskBound(c) == CASE c.selection = "RANDOM" -> IF c.stealing THEN 2 ELSE 1
                    [] c.kind = "SAWS" -> 1
                    [] OTHER -> 0

\* External work in one configuration of each queue.
MCExternals(c) == IF (c.kind = "SAWS") = (c.selection = "RANDOM") THEN {1} ELSE {}
=============================================================================
