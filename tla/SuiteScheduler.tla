--------------------------- MODULE SuiteScheduler ---------------------------
(***************************************************************************)
(* The schedules of suites and the Celery task that fires them.  Beat      *)
(* sends tick_schedules every minute, and any worker that is free executes *)
(* it: it reads the clock, then the enabled schedules, and for each that   *)
(* is due starts the runs of its suite, then records the time it had read. *)
(* A tick that takes long meets the next one, and one that dies is sent    *)
(* again.  Meanwhile the routes change the schedules, and a push to a      *)
(* branch stamps those of the branch without starting anything.            *)
(*                                                                         *)
(* A minute is a number; a cron expression is the set of the minutes it    *)
(* names, the last before the model starts among them as 0.  It is empty   *)
(* for a date that never comes ("0 0 31 2 *") and for text that is no      *)
(* expression, which set_suite_schedule stores unchecked.  The runs of a   *)
(* suite are started together, and names of branches are left out.         *)
(***************************************************************************)
EXTENDS Integers

CONSTANTS
    Schedules,  \* ids of rows of suite_schedules
    Crons,      \* cron expressions
    Sessions,   \* rows at the start, last triggered in minute 0, and how often
                \* they are changed or stamped and ticks die (bounds)
    Ticks,      \* tick_schedules tasks under way at once (bound)
    End,        \* the last minute (bound)
    Absent      \* no such row, never triggered

ASSUME EndAssumption == End \in Nat
ASSUME CronAssumption == Crons \subseteq SUBSET (0..End)

Row == [cron: Crons, enabled: BOOLEAN, hears: BOOLEAN, last: (0..End) \cup {Absent}]
Table == [Schedules -> Row \cup {Absent}]

ASSUME AbsentAssumption == Absent \notin Schedules /\ Absent \notin 0..End /\ Absent \notin Row
ASSUME SessionAssumption == \A s \in Sessions :
    /\ s.rows \in Table /\ {s.edits, s.deaths} \subseteq Nat
    /\ \A r \in Schedules : s.rows[r] # Absent => s.rows[r].last \in {0, Absent}

VARIABLES
    clock,      \* the minute
    rows,       \* table suite_schedules
    used,       \* history: ids that were given to a row
    ticks,      \* the progress of each tick
    edits, deaths,  \* how much may still happen
    fired,      \* history: the minutes a schedule was fired for
    twice,      \* history: schedules that were fired twice for a minute
    excused     \* history: what happened to a schedule (see the properties)

vars == <<clock, rows, used, ticks, edits, deaths, fired, twice, excused>>

Minutes == 0..End
Nothing == [r \in Schedules |-> Absent]
Live == {r \in Schedules : rows[r] # Absent}
Steps == {"idle", "began", "loop", "fired"}

\* The latest minute of a cron expression, get_prev of croniter.
Past(cron, now) == {s \in cron : s <= now}
Prev(cron, now) == CHOOSE s \in Past(cron, now) : \A x \in Past(cron, now) : x <= s

\* _is_due: a schedule created today is due for a minute of last week.
Due(row, now) ==
    /\ Past(row.cron, now) # {}
    /\ row.last # Absent => Prev(row.cron, now) > row.last

Idle == [step |-> "idle", now |-> 0, list |-> Nothing, at |-> Absent]

\* Schedules of the list of a tick, and those it has not yet finished with.
Listed(t) == {r \in Schedules : ticks[t].list[r] # Absent}
Holds(t) == Listed(t) \cup ({ticks[t].at} \ {Absent})
Handled(t, r) == [ticks[t].list EXCEPT ![r] = Absent]

Mark(set, what) == excused' = [r \in Schedules |->
    IF r \in set THEN excused[r] \cup {what} ELSE excused[r]]

Init ==
    /\ clock = 0
    /\ \E s \in Sessions : rows = s.rows /\ edits = s.edits /\ deaths = s.deaths
    /\ used = Live
    /\ ticks = [t \in Ticks |-> Idle]
    /\ fired = [r \in Schedules |-> IF r \in Live /\ rows[r].last = 0 THEN {0} ELSE {}]
    /\ twice = {}
    /\ excused = [r \in Schedules |-> {}]

-----------------------------------------------------------------------------
(* tick_schedules *)

Begin(t) ==
    /\ ticks[t].step = "idle"
    /\ ticks' = [ticks EXCEPT ![t] = [Idle EXCEPT !.step = "began", !.now = clock]]
    /\ UNCHANGED <<clock, rows, used, edits, deaths, fired, twice, excused>>

\* The schedules that are enabled.  History: those another tick has read as well.
ReadSchedules(t) ==
    /\ ticks[t].step = "began"
    /\ LET enabled == {r \in Live : rows[r].enabled}
       IN  /\ ticks' = [ticks EXCEPT ![t] = [@ EXCEPT !.step = "loop",
                 !.list = [r \in Schedules |-> IF r \in enabled THEN rows[r] ELSE Absent]]]
           /\ Mark({r \in enabled : \E u \in Ticks : u # t /\ r \in Holds(u)}, "overlap")
    /\ UNCHANGED <<clock, rows, used, edits, deaths, fired, twice>>

\* The whole tick is over with a schedule that is not due.
Skip_Break(t, r) ==
    /\ ticks[t].step = "loop" /\ r \in Listed(t)
    /\ ~Due(ticks[t].list[r], ticks[t].now)
    /\ ticks' = [ticks EXCEPT ![t] = [@ EXCEPT !.list = Nothing]]
    /\ UNCHANGED <<clock, rows, used, edits, deaths, fired, twice, excused>>

Skip(t, r) ==
    /\ ticks[t].step = "loop" /\ r \in Listed(t)
    /\ ~Due(ticks[t].list[r], ticks[t].now)
    /\ ticks' = [ticks EXCEPT ![t] = [@ EXCEPT !.list = Handled(t, r)]]
    /\ UNCHANGED <<clock, rows, used, edits, deaths, fired, twice, excused>>

\* History of a schedule that starts its runs.
Started(r, minute) ==
    /\ twice' = IF minute \in fired[r] THEN twice \cup {r} ELSE twice
    /\ fired' = [fired EXCEPT ![r] = @ \cup {minute}]

\* _fire_suite, by what the tick read of the schedule.
Fire(t, r) ==
    /\ ticks[t].step = "loop" /\ r \in Listed(t)
    /\ Due(ticks[t].list[r], ticks[t].now)
    /\ Started(r, Prev(ticks[t].list[r].cron, ticks[t].now))
    /\ ticks' = [ticks EXCEPT ![t] = [@ EXCEPT !.step = "fired", !.list = Handled(t, r), !.at = r]]
    /\ UNCHANGED <<clock, rows, used, edits, deaths, excused>>

\* The row gets the time of the tick, if it is still there.
Stamp(r, minute) == IF rows[r] = Absent THEN rows ELSE [rows EXCEPT ![r] = [@ EXCEPT !.last = minute]]

\* The time of the writing instead.
Save_Late(t) ==
    /\ ticks[t].step = "fired"
    /\ rows' = Stamp(ticks[t].at, clock)
    /\ ticks' = [ticks EXCEPT ![t] = [@ EXCEPT !.step = "loop", !.at = Absent]]
    /\ UNCHANGED <<clock, used, edits, deaths, fired, twice, excused>>

Save(t) ==
    /\ ticks[t].step = "fired"
    /\ rows' = Stamp(ticks[t].at, ticks[t].now)
    /\ ticks' = [ticks EXCEPT ![t] = [@ EXCEPT !.step = "loop", !.at = Absent]]
    /\ UNCHANGED <<clock, used, edits, deaths, fired, twice, excused>>

Return(t) ==
    /\ ticks[t].step = "loop" /\ Listed(t) = {}
    /\ ticks' = [ticks EXCEPT ![t] = Idle]
    /\ UNCHANGED <<clock, rows, used, edits, deaths, fired, twice, excused>>

\* The worker is killed, or a statement or the broker fails, which ends the whole
\* tick: what was fired last may not be recorded.
Die(t) ==
    /\ ticks[t].step # "idle" /\ deaths > 0
    /\ deaths' = deaths - 1
    /\ Mark({ticks[t].at}, "cut")
    /\ ticks' = [ticks EXCEPT ![t] = Idle]
    /\ UNCHANGED <<clock, rows, used, edits, fired, twice>>

-----------------------------------------------------------------------------
(* The routes *)

Edit == edits > 0 /\ edits' = edits - 1

Create(r, cron, on, hears) ==
    /\ r \notin used /\ Edit
    /\ rows' = [rows EXCEPT ![r] = [cron |-> cron, enabled |-> on, hears |-> hears, last |-> Absent]]
    /\ used' = used \cup {r}
    /\ UNCHANGED <<clock, ticks, deaths, fired, twice, excused>>

\* A changed schedule starts anew.
Update_Reset(r, cron, on, hears) ==
    /\ r \in Live /\ Edit
    /\ rows' = [rows EXCEPT ![r] = [cron |-> cron, enabled |-> on, hears |-> hears, last |-> Absent]]
    /\ Mark(IF cron = rows[r].cron THEN {} ELSE {r}, "cron")
    /\ UNCHANGED <<clock, used, ticks, deaths, fired, twice>>

\* What was triggered stays recorded, whatever the new expression is; also
\* set_suite_schedule, which keeps the branch.
Update(r, cron, on, hears) ==
    /\ r \in Live /\ Edit
    /\ rows' = [rows EXCEPT ![r] = [cron |-> cron, enabled |-> on, hears |-> hears, last |-> @.last]]
    /\ Mark(IF cron = rows[r].cron THEN {} ELSE {r}, "cron")
    /\ UNCHANGED <<clock, used, ticks, deaths, fired, twice>>

Delete(r) ==
    /\ r \in Live /\ Edit
    /\ rows' = [rows EXCEPT ![r] = Absent]
    /\ UNCHANGED <<clock, used, ticks, deaths, fired, twice, excused>>

\* github_webhook: the enabled schedules of the branch are stamped.
Push ==
    LET heard == {r \in Live : rows[r].enabled /\ rows[r].hears}
    IN  /\ heard # {} /\ Edit
        /\ rows' = [r \in Schedules |->
                      IF r \in heard THEN [rows[r] EXCEPT !.last = clock] ELSE rows[r]]
        /\ Mark(heard, "push")
        /\ UNCHANGED <<clock, used, ticks, deaths, fired, twice>>

Minute ==
    /\ clock < End
    /\ clock' = clock + 1
    /\ UNCHANGED <<rows, used, ticks, edits, deaths, fired, twice, excused>>

-----------------------------------------------------------------------------
Work(t) == ReadSchedules(t) \/ Save(t) \/ Return(t) \/ \E r \in Schedules : Skip(t, r) \/ Fire(t, r)

Next ==
    \/ \E t \in Ticks : Begin(t) \/ Work(t) \/ Die(t)
    \/ \E r \in Schedules :
          \/ \E cron \in Crons, on, hears \in BOOLEAN :
                Create(r, cron, on, hears) \/ Update(r, cron, on, hears)
          \/ Delete(r)
    \/ Push \/ Minute

Spec == Init /\ [][Next]_vars

\* Beat sends a tick every minute, and workers execute what they have begun.
FairSpec == Spec /\ WF_vars(Minute) /\ \A t \in Ticks : WF_vars(Begin(t)) /\ WF_vars(Work(t))

-----------------------------------------------------------------------------
(* Properties *)

TypeOK ==
    /\ clock \in Minutes
    /\ rows \in Table
    /\ Live \subseteq used /\ used \subseteq Schedules
    /\ ticks \in [Ticks -> [step: Steps, now: Minutes, list: Table,
                            at: Schedules \cup {Absent}]]
    /\ edits \in Nat /\ deaths \in Nat
    /\ fired \in [Schedules -> SUBSET Minutes]
    /\ twice \subseteq Schedules
    /\ excused \in [Schedules -> SUBSET {"overlap", "cut", "cron", "push"}]

\* A schedule is not fired twice for one minute, whatever is changed or pushed
\* meanwhile and however old the time is that a tick works with, unless two ticks
\* had both read it or one died before it could record that it fired it
\* (_check_and_fire: fire, then last_triggered_at, then the next schedule).
FiresOnce == \A r \in twice : excused[r] \cap {"overlap", "cut"} # {}

\* The latest minute of a schedule was fired, or its expression was changed or a
\* push stamped it.
Served(r, now) ==
    \/ Past(rows[r].cron, now) = {}
    \/ Prev(rows[r].cron, now) \in fired[r]
    \/ excused[r] \cap {"push", "cron"} # {}

\* last_triggered_at never runs ahead of the runs: the latest minute of the
\* schedule before it was fired, also when ticks overlap or die, unless a push
\* set it or the expression was changed.
NothingSkipped == \A r \in Live :
    \/ rows[r].last = Absent
    \/ Served(r, rows[r].last)

\* The tables and ticks are well formed, and what _check_and_fire records of a
\* schedule has its reason.
RecordedIsFired == TypeOK /\ NothingSkipped

\* As long as ticks are sent, every enabled schedule is fired for its latest
\* minute in the end, with the same exceptions: neither a tick that dies, nor one
\* that records an older time after a newer one, nor the schedules before it in a
\* list lose it for good.
EventuallyFired == <>[](\A r \in Live : rows[r].enabled => Served(r, clock))
=============================================================================
