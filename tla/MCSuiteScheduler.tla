-------------------------- MODULE MCSuiteScheduler --------------------------
(* Schedules of every minute and of some, one of them new, and a push trigger. *)
EXTENDS SuiteScheduler

CONSTANTS s1, s2

Always == {0, 1, 2}
MCCrons == {Always, {0, 2}, {}}

Sched(cron, on, hears, last) == [cron |-> cron, enabled |-> on, hears |-> hears, last |-> last]
Rows(a, b) == [r \in Schedules |-> IF r = s1 THEN a ELSE b]

MCSessions ==
    {[rows |-> Rows(Sched(Always, TRUE, TRUE, 0), Absent), edits |-> 1, deaths |-> 0],
     [rows |-> Rows(Sched(Always, TRUE, FALSE, 0), Absent), edits |-> 0, deaths |-> 2],
     [rows |-> Rows(Sched({0, 2}, TRUE, FALSE, Absent), Sched({}, TRUE, TRUE, Absent)),
      edits |-> 0, deaths |-> 1],
     [rows |-> Rows(Sched(Always, TRUE, FALSE, 0), Sched({0, 2}, TRUE, FALSE, 0)),
      edits |-> 0, deaths |-> 1]}
=============================================================================
