------------------------ MODULE SuiteSchedulerProofs ------------------------
(***************************************************************************)
(* For any number of schedules, ticks and minutes: a schedule is not fired *)
(* twice for one minute, unless two ticks had both read it or one died     *)
(* before it recorded what it fired; and what is recorded was fired.  The  *)
(* invariants say what the last time of a schedule, in the table and in    *)
(* what a tick has read, tells of the minutes it was fired for.            *)
(***************************************************************************)
EXTENDS SuiteScheduler, WellFoundedInduction, TLAPS

\* Nothing happened to a schedule that would excuse a second run.
Safe(r) == excused[r] \cap {"overlap", "cut"} = {}

\* The minutes of a set are no later than a recorded time, if there are any.
Covers(last, set) == set = {} \/ (last # Absent /\ \A s \in set : s <= last)

\* A tick has a list only while it goes through it, and a schedule that it has
\* fired only until it is recorded.
TickInv ==
    /\ \A t \in Ticks : ticks[t].step \in {"idle", "began"} => ticks[t].list = Nothing
    /\ \A t \in Ticks : ticks[t].step # "fired" => ticks[t].at = Absent
    /\ \A t \in Ticks : ticks[t].step = "fired" => ticks[t].at \in Schedules
    /\ \A t \in Ticks : ticks[t].at \notin Listed(t)
    /\ \A t \in Ticks : ticks[t].now <= clock

\* Only ids that were given to a row are read or fired.
UsedInv ==
    /\ \A t \in Ticks : Holds(t) \subseteq used
    /\ \A r \in Schedules \ used : fired[r] = {}
    /\ \A r \in Schedules : \A s \in fired[r] : s <= clock

\* Two ticks never hold one schedule; what was fired is covered by what is
\* recorded, by what the tick that holds the schedule has read, and by the time
\* that is about to be recorded.
FireInv == \A r \in Schedules : Safe(r) =>
    /\ r \notin twice
    /\ \A t, u \in Ticks : r \in Holds(t) /\ r \in Holds(u) => t = u
    /\ rows[r] # Absent /\ (\A t \in Ticks : ticks[t].at # r) => Covers(rows[r].last, fired[r])
    /\ \A t \in Ticks : r \in Listed(t) => Covers(ticks[t].list[r].last, fired[r])
    /\ \A t \in Ticks : ticks[t].at = r => \A s \in fired[r] : s <= ticks[t].now

IInv == TypeOK /\ TickInv /\ UsedInv /\ FireInv

-----------------------------------------------------------------------------
\* A set of minutes that is not empty has a latest one: the distances to the last
\* minute have a least.
LEMMA LatestExists ==
  ASSUME NEW S \in SUBSET Minutes, S # {}
  PROVE  \E x \in S : \A y \in S : y <= x
  <1> DEFINE T == {End - s : s \in S}
  <1> DEFINE R == OpToRel(<, Nat)
  <1>1. T \subseteq Nat /\ T # {}
    <2>1. \A s \in S : End - s \in Nat
      BY EndAssumption DEF Minutes
    <2>2. T \subseteq Nat
      BY <2>1
    <2>3. PICK s \in S : TRUE
      OBVIOUS
    <2>4. End - s \in T
      BY <2>3
    <2> QED BY <2>2, <2>4
  <1>2. IsWellFoundedOn(R, Nat)
    BY NatLessThanWellFounded
  <1>3. PICK d \in T : \A e \in T : ~ (<<e, d>> \in R)
    <2> HIDE DEF T, R
    <2> QED BY <1>1, <1>2, WFMin
  <1>4. PICK x \in S : d = End - x
    OBVIOUS
  <1>5. \A y \in S : ~ (End - y < End - x)
    <2> TAKE y \in S
    <2>1. End - y \in T /\ End - y \in Nat /\ End - x \in Nat
      BY <1>1, <1>4
    <2> QED BY <2>1, <1>3, <1>4 DEF OpToRel
  <1> QED BY <1>5, EndAssumption DEF Minutes

\* get_prev answers a minute of the expression that is not after the given one.
LEMMA PrevIsPast ==
  ASSUME NEW cron \in Crons, NEW now \in Minutes, Past(cron, now) # {}
  PROVE  Prev(cron, now) \in cron /\ Prev(cron, now) \in Minutes /\ Prev(cron, now) <= now
  <1>1. Past(cron, now) \subseteq Minutes
    BY CronAssumption DEF Past, Minutes
  <1>2. \E x \in Past(cron, now) : \A y \in Past(cron, now) : y <= x
    BY <1>1, LatestExists
  <1>3. Prev(cron, now) \in Past(cron, now)
    BY <1>2 DEF Prev
  <1> QED BY <1>1, <1>3 DEF Past

-----------------------------------------------------------------------------
LEMMA IdleIsQuiet ==
    /\ Nothing \in Table /\ \A r \in Schedules : Nothing[r] = Absent
    /\ Idle \in [step: Steps, now: Minutes, list: Table, at: Schedules \cup {Absent}]
    /\ Idle.list = Nothing /\ Idle.at = Absent /\ Idle.step = "idle" /\ Idle.now = 0
  <1>1. Nothing \in Table
    BY DEF Nothing, Table
  <1> QED BY <1>1, EndAssumption DEF Nothing, Idle, Steps, Minutes

LEMMA InitHolds == Init => IInv
  <1> SUFFICES ASSUME Init PROVE IInv
    OBVIOUS
  <1>1. /\ \A t \in Ticks : ticks[t] = Idle
        /\ \A t \in Ticks : Holds(t) = {} /\ Listed(t) = {}
    BY IdleIsQuiet DEF Init, Holds, Listed
  <1>2. rows \in Table /\ edits \in Nat /\ deaths \in Nat
        /\ \A r \in Schedules : rows[r] # Absent => rows[r].last \in {0, Absent}
    BY SessionAssumption DEF Init
  <1>3. TypeOK
    BY <1>2, IdleIsQuiet, EndAssumption DEF Init, TypeOK, Live, Minutes
  <1>4. TickInv
    BY <1>1, IdleIsQuiet, AbsentAssumption DEF Init, TickInv
  <1>5. \A r \in Schedules : fired[r] \in {{}, {0}} /\ (fired[r] # {} => r \in Live /\ rows[r].last = 0)
    BY DEF Init
  <1>6. UsedInv
    BY <1>1, <1>5 DEF Init, UsedInv
  <1>7. 0 # Absent
    BY AbsentAssumption, EndAssumption
  <1>8. FireInv
    BY <1>1, <1>5, <1>7, IdleIsQuiet, AbsentAssumption DEF Init, FireInv, Covers
  <1> QED BY <1>3, <1>4, <1>6, <1>8 DEF IInv

-----------------------------------------------------------------------------
LEMMA BeginStep == ASSUME IInv, NEW t \in Ticks, Begin(t) PROVE IInv'
  <1> DEFINE x == [Idle EXCEPT !.step = "began", !.now = clock]
  <1>1. /\ x \in [step: Steps, now: Minutes, list: Table, at: Schedules \cup {Absent}]
        /\ x.step = "began" /\ x.now = clock /\ x.list = Nothing /\ x.at = Absent
    BY IdleIsQuiet DEF Idle, Steps, IInv, TypeOK
  <1>2. ticks' = [ticks EXCEPT ![t] = x] /\ UNCHANGED <<clock, rows, used, edits, deaths, fired, twice, excused>>
    BY DEF Begin
  <1> HIDE DEF x
  <1>3. TypeOK'
    BY <1>1, <1>2 DEF IInv, TypeOK, Live
  <1>4. \A u \in Ticks : ticks'[u] = IF u = t THEN x ELSE ticks[u]
    BY <1>2 DEF IInv, TypeOK
  <1>5. Listed(t) = {} /\ Holds(t) = {} /\ ticks[t].at = Absent
    BY IdleIsQuiet DEF IInv, TickInv, Begin, Listed, Holds
  <1>6. \A u \in Ticks : Listed(u)' = Listed(u) /\ Holds(u)' = Holds(u) /\ ticks'[u].at = ticks[u].at
    BY <1>1, <1>4, <1>5, IdleIsQuiet DEF Listed, Holds
  <1>7. TickInv'
    BY <1>1, <1>2, <1>4, <1>6, AbsentAssumption DEF IInv, TickInv, TypeOK, Minutes
  <1>8. UsedInv'
    BY <1>2, <1>6 DEF IInv, UsedInv
  <1>9. FireInv'
    BY <1>1, <1>2, <1>4, <1>5, <1>6, AbsentAssumption DEF IInv, FireInv, Covers, Safe
  <1> QED BY <1>3, <1>7, <1>8, <1>9 DEF IInv

LEMMA ReadSchedulesStep == ASSUME IInv, NEW t \in Ticks, ReadSchedules(t) PROVE IInv'
  <1> DEFINE enabled == {r \in Live : rows[r].enabled}
  <1> DEFINE list == [r \in Schedules |-> IF r \in enabled THEN rows[r] ELSE Absent]
  <1> DEFINE x == [ticks[t] EXCEPT !.step = "loop", !.list = list]
  <1>1. rows \in Table /\ ticks[t] \in [step: Steps, now: Minutes, list: Table, at: Schedules \cup {Absent}]
    BY DEF IInv, TypeOK
  <1>2. list \in Table
    BY <1>1 DEF Table, Live
  <1>3. /\ x \in [step: Steps, now: Minutes, list: Table, at: Schedules \cup {Absent}]
        /\ x.step = "loop" /\ x.now = ticks[t].now /\ x.list = list /\ x.at = ticks[t].at
    BY <1>1, <1>2 DEF Steps
  <1>4. ticks' = [ticks EXCEPT ![t] = x] /\ UNCHANGED <<clock, rows, used, edits, deaths, fired, twice>>
    BY DEF ReadSchedules
  <1>5. excused' = [r \in Schedules |->
          IF r \in {q \in enabled : \E u \in Ticks : u # t /\ q \in Holds(u)}
          THEN excused[r] \cup {"overlap"} ELSE excused[r]]
    BY DEF ReadSchedules, Mark
  <1>6. enabled \subseteq Live /\ enabled \subseteq Schedules
        /\ \A r \in Schedules : list[r] = IF r \in enabled THEN rows[r] ELSE Absent
    BY DEF Live
  <1>7. \A r \in Schedules : list[r] # Absent <=> r \in enabled
    BY <1>6 DEF Live
  <1> HIDE DEF x, list, enabled
  <1>8. TypeOK'
    BY <1>3, <1>4, <1>5 DEF IInv, TypeOK, Live
  <1>9. \A u \in Ticks : ticks'[u] = IF u = t THEN x ELSE ticks[u]
    BY <1>4 DEF IInv, TypeOK
  <1>10. Listed(t) = {} /\ Holds(t) = {} /\ ticks[t].at = Absent
    BY IdleIsQuiet DEF IInv, TickInv, ReadSchedules, Listed, Holds
  <1>11. \A u \in Ticks : ticks'[u].at = ticks[u].at /\ ticks'[u].now = ticks[u].now
    BY <1>3, <1>9
  <1>12. \A u \in Ticks : u # t => Listed(u)' = Listed(u) /\ Holds(u)' = Holds(u)
    BY <1>9 DEF Listed, Holds
  <1>13. Listed(t)' = enabled /\ Holds(t)' = enabled
    BY <1>3, <1>6, <1>7, <1>9, <1>10 DEF Listed, Holds
  <1>14. TickInv'
    BY <1>3, <1>4, <1>9, <1>10, <1>11, <1>12, <1>13, <1>6, AbsentAssumption DEF IInv, TickInv
  <1>15. UsedInv'
    <2>1. enabled \subseteq used
      BY <1>6 DEF IInv, TypeOK
    <2> QED BY <2>1, <1>4, <1>12, <1>13 DEF IInv, UsedInv
  <1>16. FireInv'
    <2> SUFFICES ASSUME NEW r \in Schedules, Safe(r)'
                 PROVE  /\ r \notin twice
                        /\ \A v, u \in Ticks : r \in Holds(v)' /\ r \in Holds(u)' => v = u
                        /\ rows[r] # Absent /\ (\A u \in Ticks : ticks'[u].at # r)
                             => Covers(rows[r].last, fired[r])
                        /\ \A u \in Ticks : r \in Listed(u)' => Covers(ticks'[u].list[r].last, fired[r])
                        /\ \A u \in Ticks : ticks'[u].at = r => \A s \in fired[r] : s <= ticks'[u].now
      BY <1>4 DEF FireInv, Covers
    <2>1. Safe(r) /\ (r \in enabled => \A u \in Ticks : u # t => r \notin Holds(u))
      <3>1. \/ excused'[r] = excused[r] /\ ~(r \in enabled /\ \E u \in Ticks : u # t /\ r \in Holds(u))
            \/ excused'[r] = excused[r] \cup {"overlap"}
        BY <1>5
      <3> QED BY <3>1 DEF Safe
    <2>2. \A v, u \in Ticks : r \in Holds(v)' /\ r \in Holds(u)' => v = u
      BY <2>1, <1>12, <1>13 DEF IInv, FireInv
    <2>3. rows[r] # Absent /\ (\A u \in Ticks : ticks'[u].at # r) => Covers(rows[r].last, fired[r])
      BY <2>1, <1>11 DEF IInv, FireInv
    <2>4. r \in enabled => Covers(rows[r].last, fired[r])
      <3>1. r \in enabled => rows[r] # Absent
        BY <1>6 DEF Live
      <3>2. r \in enabled => \A u \in Ticks : ticks[u].at # r
        BY <2>1, <1>10, AbsentAssumption DEF Holds
      <3> QED BY <3>1, <3>2, <2>1 DEF IInv, FireInv
    <2>5. \A u \in Ticks : r \in Listed(u)' => Covers(ticks'[u].list[r].last, fired[r])
      BY <2>1, <2>4, <1>3, <1>6, <1>9, <1>12, <1>13 DEF IInv, FireInv
    <2> QED BY <2>1, <2>2, <2>3, <2>5, <1>11 DEF IInv, FireInv
  <1> QED BY <1>8, <1>14, <1>15, <1>16 DEF IInv

LEMMA SkipStep == ASSUME IInv, NEW t \in Ticks, NEW q \in Schedules, Skip(t, q) PROVE IInv'
  <1> DEFINE x == [ticks[t] EXCEPT !.list = Handled(t, q)]
  <1>1. ticks[t] \in [step: Steps, now: Minutes, list: Table, at: Schedules \cup {Absent}]
    BY DEF IInv, TypeOK
  <1>2. Handled(t, q) \in Table
        /\ \A r \in Schedules : Handled(t, q)[r] = IF r = q THEN Absent ELSE ticks[t].list[r]
    BY <1>1 DEF Table, Handled
  <1>3. /\ x \in [step: Steps, now: Minutes, list: Table, at: Schedules \cup {Absent}]
        /\ x.step = "loop" /\ x.now = ticks[t].now /\ x.list = Handled(t, q) /\ x.at = ticks[t].at
    BY <1>1, <1>2 DEF Skip
  <1>4. ticks' = [ticks EXCEPT ![t] = x]
        /\ UNCHANGED <<clock, rows, used, edits, deaths, fired, twice, excused>>
    BY DEF Skip
  <1> HIDE DEF x
  <1>5. TypeOK'
    BY <1>3, <1>4 DEF IInv, TypeOK, Live
  <1>6. \A u \in Ticks : ticks'[u] = IF u = t THEN x ELSE ticks[u]
    BY <1>4 DEF IInv, TypeOK
  <1>7. \A u \in Ticks : ticks'[u].at = ticks[u].at /\ ticks'[u].now = ticks[u].now
                         /\ ticks'[u].step = ticks[u].step
    BY <1>3, <1>6 DEF Skip
  <1>8. \A u \in Ticks : \A r \in Listed(u)' : r \in Listed(u) /\ ticks'[u].list[r] = ticks[u].list[r]
    BY <1>2, <1>3, <1>6 DEF Listed
  <1>9. \A u \in Ticks : Listed(u)' \subseteq Listed(u) /\ Holds(u)' \subseteq Holds(u)
    BY <1>7, <1>8 DEF Holds
  <1>10. \A u \in Ticks : u # t => ticks'[u] = ticks[u]
    BY <1>6
  <1>11. TickInv'
    BY <1>3, <1>4, <1>6, <1>7, <1>9 DEF IInv, TickInv
  <1>12. UsedInv'
    BY <1>4, <1>9 DEF IInv, UsedInv
  <1>13. FireInv'
    BY <1>4, <1>7, <1>8, <1>9 DEF IInv, FireInv, Covers, Safe
  <1> QED BY <1>5, <1>11, <1>12, <1>13 DEF IInv

LEMMA FireStep == ASSUME IInv, NEW t \in Ticks, NEW q \in Schedules, Fire(t, q) PROVE IInv'
  <1> DEFINE x == [ticks[t] EXCEPT !.step = "fired", !.list = Handled(t, q), !.at = q]
  <1> DEFINE m == Prev(ticks[t].list[q].cron, ticks[t].now)
  <1>1. ticks[t] \in [step: Steps, now: Minutes, list: Table, at: Schedules \cup {Absent}]
    BY DEF IInv, TypeOK
  <1>2. Handled(t, q) \in Table
        /\ \A r \in Schedules : Handled(t, q)[r] = IF r = q THEN Absent ELSE ticks[t].list[r]
    BY <1>1 DEF Table, Handled
  <1>3. /\ x \in [step: Steps, now: Minutes, list: Table, at: Schedules \cup {Absent}]
        /\ x.step = "fired" /\ x.now = ticks[t].now /\ x.list = Handled(t, q) /\ x.at = q
    BY <1>1, <1>2 DEF Steps
  <1>4. /\ ticks' = [ticks EXCEPT ![t] = x] /\ UNCHANGED <<clock, rows, used, edits, deaths, excused>>
        /\ twice' = IF m \in fired[q] THEN twice \cup {q} ELSE twice
        /\ fired' = [fired EXCEPT ![q] = @ \cup {m}]
        /\ q \in Listed(t)
        /\ Past(ticks[t].list[q].cron, ticks[t].now) # {}
        /\ ticks[t].list[q].last # Absent => m > ticks[t].list[q].last
    BY DEF Fire, Started, Due
  <1>5. ticks[t].list[q] \in Row
    BY <1>1, <1>4 DEF Listed, Table
  <1>6. m \in Minutes /\ m <= ticks[t].now
    BY <1>1, <1>4, <1>5, PrevIsPast DEF Row
  <1> HIDE DEF x, m
  <1>7. TypeOK'
    BY <1>3, <1>4, <1>6 DEF IInv, TypeOK, Live
  <1>8. \A u \in Ticks : ticks'[u] = IF u = t THEN x ELSE ticks[u]
    BY <1>4 DEF IInv, TypeOK
  <1>9. ticks[t].at = Absent /\ ticks[t].step = "loop"
    BY DEF Fire, IInv, TickInv
  <1>10. \A u \in Ticks : \A r \in Listed(u)' :
           r \in Listed(u) /\ ticks'[u].list[r] = ticks[u].list[r] /\ ~(u = t /\ r = q)
    BY <1>2, <1>3, <1>8 DEF Listed
  <1>11. \A u \in Ticks : Holds(u)' \subseteq Holds(u)
    BY <1>3, <1>4, <1>8, <1>10 DEF Holds
  <1>12. \A u \in Ticks : ticks'[u].now = ticks[u].now
                          /\ ticks'[u].at = IF u = t THEN q ELSE ticks[u].at
    BY <1>3, <1>8
  <1>13. \A r \in Schedules : fired'[r] = IF r = q THEN fired[q] \cup {m} ELSE fired[r]
    BY <1>4 DEF IInv, TypeOK
  <1>14. TickInv'
    <2>1. \A u \in Ticks : ticks'[u].at \notin Listed(u)'
      BY <1>10, <1>12 DEF IInv, TickInv
    <2> QED BY <2>1, <1>3, <1>4, <1>8, <1>12 DEF IInv, TickInv
  <1>15. q \in used /\ ticks[t].now <= clock /\ ticks[t].now \in Minutes /\ clock \in Minutes
    BY <1>1, <1>4 DEF IInv, TickInv, UsedInv, Holds, TypeOK
  <1>16. m <= clock
    BY <1>6, <1>15, EndAssumption DEF Minutes
  <1>17. UsedInv'
    BY <1>4, <1>11, <1>13, <1>15, <1>16 DEF IInv, UsedInv
  <1>18. FireInv'
    <2> SUFFICES ASSUME NEW r \in Schedules, Safe(r)
                 PROVE  /\ r \notin twice'
                        /\ \A v, u \in Ticks : r \in Holds(v)' /\ r \in Holds(u)' => v = u
                        /\ rows[r] # Absent /\ (\A u \in Ticks : ticks'[u].at # r)
                             => Covers(rows[r].last, fired'[r])
                        /\ \A u \in Ticks : r \in Listed(u)' => Covers(ticks'[u].list[r].last, fired'[r])
                        /\ \A u \in Ticks : ticks'[u].at = r => \A s \in fired'[r] : s <= ticks'[u].now
      BY <1>4 DEF FireInv, Covers, Safe
    <2>1. \A v, u \in Ticks : r \in Holds(v)' /\ r \in Holds(u)' => v = u
      BY <1>11 DEF IInv, FireInv
    <2>2. CASE r # q
      <3>1. \A u \in Ticks : ticks'[u].at = r <=> ticks[u].at = r
        BY <2>2, <1>9, <1>12, AbsentAssumption
      <3>2. fired'[r] = fired[r] /\ (r \in twice' => r \in twice)
        BY <2>2, <1>4, <1>13
      <3> QED BY <2>1, <3>1, <3>2, <1>10, <1>12 DEF IInv, FireInv
    <2>3. CASE r = q
      <3>1. Covers(ticks[t].list[q].last, fired[q]) /\ q \notin twice
        BY <2>3, <1>4 DEF IInv, FireInv
      <3>2. fired[q] \subseteq Minutes /\ ticks[t].list[q].last \in Minutes \cup {Absent}
        BY <1>5 DEF IInv, TypeOK, Row, Minutes
      <3>3. \A s \in fired[q] : s < m
        BY <3>1, <3>2, <1>4, <1>6, EndAssumption DEF Covers, Minutes
      <3>4. m \notin fired[q]
        BY <3>2, <3>3, EndAssumption DEF Minutes
      <3>5. \A s \in fired'[q] : s <= ticks[t].now
        BY <3>2, <3>3, <1>6, <1>13, <1>15, EndAssumption DEF Minutes
      <3>6. \A u \in Ticks : q \in Holds(u) => u = t
        BY <2>3, <1>4 DEF IInv, FireInv, Holds
      <3>7. \A u \in Ticks : q \notin Listed(u)'
        BY <3>6, <1>10 DEF Holds
      <3>8. \A u \in Ticks : ticks'[u].at = q => u = t
        BY <3>6, <1>12, AbsentAssumption DEF Holds
      <3> QED BY <2>1, <2>3, <3>1, <3>4, <3>5, <3>7, <3>8, <1>4, <1>12
    <2> QED BY <2>2, <2>3
  <1> QED BY <1>7, <1>14, <1>17, <1>18 DEF IInv

LEMMA SaveStep == ASSUME IInv, NEW t \in Ticks, Save(t) PROVE IInv'
  <1> DEFINE x == [ticks[t] EXCEPT !.step = "loop", !.at = Absent]
  <1> DEFINE q == ticks[t].at
  <1>1. ticks[t] \in [step: Steps, now: Minutes, list: Table, at: Schedules \cup {Absent}]
        /\ rows \in Table
    BY DEF IInv, TypeOK
  <1>2. /\ x \in [step: Steps, now: Minutes, list: Table, at: Schedules \cup {Absent}]
        /\ x.step = "loop" /\ x.now = ticks[t].now /\ x.list = ticks[t].list /\ x.at = Absent
    BY <1>1 DEF Steps
  <1>3. /\ ticks' = [ticks EXCEPT ![t] = x] /\ UNCHANGED <<clock, used, edits, deaths, fired, twice, excused>>
        /\ rows' = Stamp(q, ticks[t].now)
    BY DEF Save
  <1>4. q \in Schedules
    BY DEF IInv, TickInv, Save
  <1> HIDE DEF x, q
  <1>5. rows' \in Table
    BY <1>1, <1>3, <1>4 DEF Stamp, Table, Row, Minutes
  <1>6. \A r \in Schedules :
          /\ r # q => rows'[r] = rows[r]
          /\ rows'[r] = Absent <=> rows[r] = Absent
          /\ r = q /\ rows[r] # Absent => rows'[r].last = ticks[t].now
    BY <1>1, <1>3, <1>4, AbsentAssumption DEF Stamp, Table, Row, Minutes
  <1>7. Live' = Live
    BY <1>6 DEF Live
  <1>8. TypeOK'
    BY <1>2, <1>3, <1>5, <1>7 DEF IInv, TypeOK
  <1>9. \A u \in Ticks : ticks'[u] = IF u = t THEN x ELSE ticks[u]
    BY <1>3 DEF IInv, TypeOK
  <1>10. \A u \in Ticks : /\ Listed(u)' = Listed(u) /\ ticks'[u].now = ticks[u].now
                          /\ ticks'[u].list = ticks[u].list
                          /\ ticks'[u].at = IF u = t THEN Absent ELSE ticks[u].at
    BY <1>2, <1>9 DEF Listed
  <1>11. \A u \in Ticks : Holds(u)' \subseteq Holds(u)
    BY <1>10 DEF Holds
  <1>12. TickInv'
    <2>1. \A u \in Ticks : ticks'[u].at \notin Listed(u)'
      BY <1>10, AbsentAssumption DEF IInv, TickInv, Listed
    <2> QED BY <2>1, <1>2, <1>3, <1>9, <1>10 DEF IInv, TickInv
  <1>13. UsedInv'
    BY <1>3, <1>11 DEF IInv, UsedInv
  <1>14. FireInv'
    <2> SUFFICES ASSUME NEW r \in Schedules, Safe(r)
                 PROVE  /\ r \notin twice
                        /\ \A v, u \in Ticks : r \in Holds(v)' /\ r \in Holds(u)' => v = u
                        /\ rows'[r] # Absent /\ (\A u \in Ticks : ticks'[u].at # r)
                             => Covers(rows'[r].last, fired[r])
                        /\ \A u \in Ticks : r \in Listed(u)' => Covers(ticks'[u].list[r].last, fired[r])
                        /\ \A u \in Ticks : ticks'[u].at = r => \A s \in fired[r] : s <= ticks'[u].now
      BY <1>3 DEF FireInv, Covers, Safe
    <2>1. rows'[r] # Absent /\ (\A u \in Ticks : ticks'[u].at # r) => Covers(rows'[r].last, fired[r])
      <3>1. CASE r = q
        <4>1. \A s \in fired[r] : s <= ticks[t].now
          BY <3>1 DEF q, IInv, FireInv
        <4>2. ticks[t].now # Absent
          BY <1>1, AbsentAssumption DEF Minutes
        <4> QED BY <3>1, <4>1, <4>2, <1>6 DEF Covers
      <3>2. CASE r # q
        BY <3>2, <1>6, <1>10 DEF q, IInv, FireInv
      <3> QED BY <3>1, <3>2
    <2>2. \A u \in Ticks : ticks'[u].at = r => ticks[u].at = r
      BY <1>10, AbsentAssumption
    <2> QED BY <2>1, <2>2, <1>10, <1>11 DEF IInv, FireInv
  <1> QED BY <1>8, <1>12, <1>13, <1>14 DEF IInv

\* A tick that is over holds nothing; one that dies excuses what it held.
LEMMA OverStep ==
  ASSUME IInv, NEW t \in Ticks, ticks' = [ticks EXCEPT ![t] = Idle],
         UNCHANGED <<clock, rows, used, edits, fired, twice>>,
         deaths' \in Nat, Mark({ticks[t].at}, "cut")
  PROVE  IInv'
  <1>1. \A u \in Ticks : ticks'[u] = IF u = t THEN Idle ELSE ticks[u]
    BY DEF IInv, TypeOK
  <1>2. \A r \in Schedules :
          excused'[r] = IF r = ticks[t].at THEN excused[r] \cup {"cut"} ELSE excused[r]
    BY DEF Mark
  <1>3. excused' \in [Schedules -> SUBSET {"overlap", "cut", "cron", "push"}]
    BY DEF Mark, IInv, TypeOK
  <1>4. TypeOK'
    BY <1>3, IdleIsQuiet DEF IInv, TypeOK, Live
  <1>5. Listed(t)' = {} /\ Holds(t)' = {}
    BY <1>1, IdleIsQuiet DEF Listed, Holds
  <1>6. \A u \in Ticks : u # t => Listed(u)' = Listed(u) /\ Holds(u)' = Holds(u)
    BY <1>1 DEF Listed, Holds
  <1>7. TickInv'
    <2>1. 0 <= clock
      BY EndAssumption DEF IInv, TypeOK, Minutes
    <2> QED BY <2>1, <1>1, <1>5, <1>6, IdleIsQuiet, AbsentAssumption DEF IInv, TickInv
  <1>8. UsedInv'
    BY <1>5, <1>6 DEF IInv, UsedInv
  <1>9. FireInv'
    <2> SUFFICES ASSUME NEW r \in Schedules, Safe(r)'
                 PROVE  /\ r \notin twice
                        /\ \A v, u \in Ticks : r \in Holds(v)' /\ r \in Holds(u)' => v = u
                        /\ rows[r] # Absent /\ (\A u \in Ticks : ticks'[u].at # r)
                             => Covers(rows[r].last, fired[r])
                        /\ \A u \in Ticks : r \in Listed(u)' => Covers(ticks'[u].list[r].last, fired[r])
                        /\ \A u \in Ticks : ticks'[u].at = r => \A s \in fired[r] : s <= ticks'[u].now
      BY DEF FireInv, Covers
    <2>1. Safe(r) /\ r # ticks[t].at
      BY <1>2 DEF Safe
    <2>2. \A u \in Ticks : ticks'[u].at = r <=> ticks[u].at = r
      BY <2>1, <1>1, IdleIsQuiet, AbsentAssumption
    <2>3. \A u \in Ticks : r \in Holds(u)' => u # t /\ r \in Holds(u)
      BY <1>5, <1>6
    <2>4. \A u \in Ticks : r \in Listed(u)' => u # t /\ r \in Listed(u)
      BY <1>5, <1>6
    <2>5. \A u \in Ticks : ticks'[u].at = r => ticks'[u] = ticks[u]
      BY <1>1, IdleIsQuiet, AbsentAssumption
    <2> QED BY <2>1, <2>2, <2>3, <2>4, <2>5, <1>1 DEF IInv, FireInv
  <1> QED BY <1>4, <1>7, <1>8, <1>9 DEF IInv

LEMMA DieStep == ASSUME IInv, NEW t \in Ticks, Die(t) PROVE IInv'
  <1>1. deaths' \in Nat
    BY DEF Die, IInv, TypeOK
  <1> QED BY <1>1, OverStep DEF Die

LEMMA ReturnStep == ASSUME IInv, NEW t \in Ticks, Return(t) PROVE IInv'
  <1>1. ticks[t].at = Absent /\ \A r \in Schedules : r # Absent
    BY AbsentAssumption DEF Return, IInv, TickInv
  <1>2. excused = [r \in Schedules |->
          IF r \in {ticks[t].at} THEN excused[r] \cup {"cut"} ELSE excused[r]]
    BY <1>1 DEF IInv, TypeOK
  <1>3. Mark({ticks[t].at}, "cut")
    BY <1>2 DEF Return, Mark
  <1>4. deaths' \in Nat
    BY DEF Return, IInv, TypeOK
  <1> QED BY <1>3, <1>4, OverStep DEF Return

-----------------------------------------------------------------------------
\* Marking a schedule only adds to what excuses it.
LEMMA MarkAdds ==
  ASSUME IInv, NEW set \in SUBSET Schedules, NEW what \in {"overlap", "cut", "cron", "push"},
         Mark(set, what)
  PROVE  /\ excused' \in [Schedules -> SUBSET {"overlap", "cut", "cron", "push"}]
         /\ \A r \in Schedules : excused[r] \subseteq excused'[r]
  BY DEF Mark, IInv, TypeOK

\* A route creates rows with ids that are new, or deletes rows, or keeps their
\* last time or sets it to the present.
LEMMA RouteStep ==
  ASSUME IInv, UNCHANGED <<clock, ticks, deaths, fired, twice>>, edits' \in Nat,
         rows' \in Table, used' \subseteq Schedules, used \subseteq used',
         \A r \in Schedules : rows'[r] # Absent =>
           /\ r \in used'
           /\ r \in used => rows[r] # Absent /\ rows'[r].last \in {rows[r].last, clock},
         excused' \in [Schedules -> SUBSET {"overlap", "cut", "cron", "push"}],
         \A r \in Schedules : excused[r] \subseteq excused'[r]
  PROVE  IInv'
  <1>1. TypeOK'
    BY DEF IInv, TypeOK, Live
  <1>2. \A t \in Ticks : Listed(t)' = Listed(t) /\ Holds(t)' = Holds(t)
    BY DEF Listed, Holds
  <1>3. TickInv'
    BY <1>2 DEF IInv, TickInv
  <1>4. UsedInv'
    BY <1>2 DEF IInv, UsedInv
  <1>5. \A r \in Schedules : Safe(r)' => Safe(r)
    BY DEF Safe
  <1>6. \A r \in Schedules :
          Safe(r) /\ rows'[r] # Absent /\ (\A t \in Ticks : ticks[t].at # r)
            => Covers(rows'[r].last, fired[r])
    <2> SUFFICES ASSUME NEW r \in Schedules, Safe(r), rows'[r] # Absent,
                        \A t \in Ticks : ticks[t].at # r
                 PROVE  Covers(rows'[r].last, fired[r])
      OBVIOUS
    <2>1. CASE r \notin used
      BY <2>1 DEF IInv, UsedInv, Covers
    <2>2. CASE r \in used /\ rows'[r].last = rows[r].last
      BY <2>2 DEF IInv, FireInv
    <2>3. CASE r \in used /\ rows'[r].last = clock
      <3>1. clock # Absent
        BY AbsentAssumption DEF IInv, TypeOK, Minutes
      <3> QED BY <3>1, <2>3 DEF IInv, UsedInv, Covers
    <2> QED BY <2>1, <2>2, <2>3
  <1>7. FireInv'
    BY <1>2, <1>5, <1>6 DEF IInv, FireInv, Covers
  <1> QED BY <1>1, <1>3, <1>4, <1>7 DEF IInv

LEMMA CreateStep ==
  ASSUME IInv, NEW q \in Schedules, NEW cron \in Crons, NEW on \in BOOLEAN, NEW hears \in BOOLEAN,
         Create(q, cron, on, hears)
  PROVE  IInv'
  <1> DEFINE x == [cron |-> cron, enabled |-> on, hears |-> hears, last |-> Absent]
  <1>1. x \in Row
    BY DEF Row
  <1>2. rows' = [rows EXCEPT ![q] = x] /\ UNCHANGED <<clock, ticks, deaths, fired, twice, excused>>
        /\ used' = used \cup {q} /\ q \notin used
    BY DEF Create
  <1> HIDE DEF x
  <1>3. rows' \in Table
    BY <1>1, <1>2 DEF IInv, TypeOK, Table
  <1>4. \A r \in Schedules : rows'[r] # Absent =>
           r \in used' /\ (r \in used => rows[r] # Absent /\ rows'[r].last = rows[r].last)
    BY <1>2 DEF IInv, TypeOK, Live, Table
  <1>5. edits' \in Nat
    BY DEF Create, Edit, IInv, TypeOK
  <1>6. used' \subseteq Schedules /\ used \subseteq used'
    BY <1>2 DEF IInv, TypeOK
  <1>7. excused' \in [Schedules -> SUBSET {"overlap", "cut", "cron", "push"}]
    BY <1>2 DEF IInv, TypeOK
  <1> QED BY <1>2, <1>3, <1>4, <1>5, <1>6, <1>7, RouteStep

LEMMA UpdateStep ==
  ASSUME IInv, NEW q \in Schedules, NEW cron \in Crons, NEW on \in BOOLEAN, NEW hears \in BOOLEAN,
         Update(q, cron, on, hears)
  PROVE  IInv'
  <1> DEFINE x == [cron |-> cron, enabled |-> on, hears |-> hears, last |-> rows[q].last]
  <1>1. rows[q] \in Row /\ rows \in Table
    BY DEF Update, Live, IInv, TypeOK, Table
  <1>2. x \in Row /\ x.last = rows[q].last
    BY <1>1 DEF Row
  <1>3. rows' = [rows EXCEPT ![q] = x] /\ UNCHANGED <<clock, used, ticks, deaths, fired, twice>>
    BY DEF Update
  <1>4. q \in Live
    BY DEF Update
  <1> HIDE DEF x
  <1>5. rows' \in Table
    BY <1>1, <1>2, <1>3 DEF Table
  <1>6. \A r \in Schedules : rows'[r] # Absent =>
           r \in used /\ rows[r] # Absent /\ rows'[r].last = rows[r].last
    BY <1>1, <1>2, <1>3, <1>4 DEF IInv, TypeOK, Live, Table
  <1>7. edits' \in Nat
    BY DEF Update, Edit, IInv, TypeOK
  <1>8. Mark(IF cron = rows[q].cron THEN {} ELSE {q}, "cron")
    BY DEF Update
  <1>9. used \subseteq Schedules
    BY DEF IInv, TypeOK
  <1> QED BY <1>3, <1>5, <1>6, <1>7, <1>8, <1>9, MarkAdds, RouteStep

LEMMA DeleteStep == ASSUME IInv, NEW q \in Schedules, Delete(q) PROVE IInv'
  <1>1. rows' = [rows EXCEPT ![q] = Absent]
        /\ UNCHANGED <<clock, used, ticks, deaths, fired, twice, excused>>
    BY DEF Delete
  <1>2. rows' \in Table
    BY <1>1 DEF IInv, TypeOK, Table
  <1>3. \A r \in Schedules : rows'[r] # Absent =>
           r \in used /\ rows[r] # Absent /\ rows'[r].last = rows[r].last
    BY <1>1 DEF IInv, TypeOK, Live, Table
  <1>4. edits' \in Nat
    BY DEF Delete, Edit, IInv, TypeOK
  <1>5. used \subseteq Schedules /\ excused' \in [Schedules -> SUBSET {"overlap", "cut", "cron", "push"}]
    BY <1>1 DEF IInv, TypeOK
  <1> QED BY <1>1, <1>2, <1>3, <1>4, <1>5, RouteStep

LEMMA PushStep == ASSUME IInv, Push PROVE IInv'
  <1> DEFINE heard == {r \in Live : rows[r].enabled /\ rows[r].hears}
  <1>1. heard \in SUBSET Schedules /\ heard \subseteq Live
    BY DEF Live
  <1>2. /\ rows' = [r \in Schedules |->
             IF r \in heard THEN [rows[r] EXCEPT !.last = clock] ELSE rows[r]]
        /\ UNCHANGED <<clock, used, ticks, deaths, fired, twice>> /\ Mark(heard, "push")
    BY DEF Push
  <1> HIDE DEF heard
  <1>3. rows \in Table /\ clock \in 0..End
    BY DEF IInv, TypeOK, Minutes
  <1>4. \A r \in heard : rows[r] \in Row
    BY <1>1, <1>3 DEF Live, Table
  <1>5. \A r \in heard : [rows[r] EXCEPT !.last = clock] \in Row
    BY <1>3, <1>4 DEF Row
  <1>6. rows' \in Table
    BY <1>2, <1>3, <1>5 DEF Table
  <1>7. \A r \in heard : rows'[r].last = clock
    BY <1>1, <1>2, <1>4 DEF Row
  <1>8. \A r \in Schedules : rows'[r] # Absent =>
           r \in used /\ rows[r] # Absent /\ rows'[r].last \in {rows[r].last, clock}
    BY <1>1, <1>2, <1>7 DEF IInv, TypeOK, Live
  <1>9. edits' \in Nat
    BY DEF Push, Edit, IInv, TypeOK
  <1>10. used \subseteq Schedules
    BY DEF IInv, TypeOK
  <1> QED BY <1>1, <1>2, <1>6, <1>8, <1>9, <1>10, MarkAdds, RouteStep

LEMMA MinuteStep == ASSUME IInv, Minute PROVE IInv'
  <1>1. UNCHANGED <<rows, used, ticks, edits, deaths, fired, twice, excused>>
    BY DEF Minute
  <1>2. clock \in Minutes /\ clock' \in Minutes /\ clock < clock'
    BY EndAssumption DEF Minute, IInv, TypeOK, Minutes
  <1>3. TypeOK'
    BY <1>1, <1>2 DEF IInv, TypeOK, Live
  <1>4. \A t \in Ticks : Listed(t)' = Listed(t) /\ Holds(t)' = Holds(t)
    BY <1>1 DEF Listed, Holds
  <1>5. \A m \in Minutes : m <= clock => m <= clock'
    BY <1>2, EndAssumption DEF Minutes
  <1>6. TickInv'
    BY <1>1, <1>4, <1>5 DEF IInv, TickInv, TypeOK
  <1>7. UsedInv'
    <2>1. \A r \in Schedules : fired[r] \subseteq Minutes
      BY DEF IInv, TypeOK
    <2> QED BY <2>1, <1>1, <1>4, <1>5 DEF IInv, UsedInv
  <1>8. FireInv'
    BY <1>1, <1>4 DEF IInv, FireInv, Safe
  <1> QED BY <1>3, <1>6, <1>7, <1>8 DEF IInv

-----------------------------------------------------------------------------
\* What is recorded was fired.  A tick works with the expression of the row, and
\* what it is about to record was fired, unless the row is gone or was changed.
Noted(r) == rows[r] # Absent /\ rows[r].last # Absent => Served(r, rows[r].last)
SameCron(t, r) == \/ rows[r] = Absent \/ "cron" \in excused[r]
                  \/ ticks[t].list[r].cron = rows[r].cron
RecordInv ==
    /\ \A r \in Schedules : Noted(r)
    /\ \A t \in Ticks : \A r \in Listed(t) : SameCron(t, r)
    /\ \A t \in Ticks : ticks[t].at # Absent /\ rows[ticks[t].at] # Absent
                          => Served(ticks[t].at, ticks[t].now)

\* A tick that leaves the rows as they are.
LEMMA TickKeepsRecord ==
  ASSUME IInv, RecordInv, UNCHANGED rows,
         \A r \in Schedules : fired[r] \subseteq fired'[r] /\ excused[r] \subseteq excused'[r],
         \A t \in Ticks : \A r \in Listed(t)' :
           \/ r \in Listed(t) /\ ticks'[t].list[r] = ticks[t].list[r]
           \/ ticks'[t].list[r] = rows[r],
         \A t \in Ticks :
           \/ ticks'[t].at = Absent
           \/ ticks'[t].at = ticks[t].at /\ ticks'[t].now = ticks[t].now
           \/ Served(ticks[t].at, ticks[t].now)'
  PROVE  RecordInv'
  <1>1. \A r \in Schedules : Noted(r)'
    BY DEF RecordInv, Noted, Served
  <1>2. \A t \in Ticks : \A r \in Listed(t)' : SameCron(t, r)'
    <2> SUFFICES ASSUME NEW t \in Ticks, NEW r \in Listed(t)' PROVE SameCron(t, r)'
      OBVIOUS
    <2>1. r \in Schedules
      BY DEF Listed
    <2> QED BY <2>1 DEF RecordInv, SameCron
  <1>3. \A t \in Ticks : ticks'[t].at # Absent /\ rows'[ticks'[t].at] # Absent
                           => Served(ticks[t].at, ticks[t].now)'
    <2> SUFFICES ASSUME NEW t \in Ticks, ticks'[t].at # Absent, rows[ticks'[t].at] # Absent,
                        ticks'[t].at = ticks[t].at, ticks'[t].now = ticks[t].now
                 PROVE  Served(ticks[t].at, ticks[t].now)'
      OBVIOUS
    <2>1. Served(ticks[t].at, ticks[t].now)
      BY DEF RecordInv
    <2>2. ticks[t].at \in Schedules
      BY DEF IInv, TypeOK
    <2> QED BY <2>1, <2>2 DEF Served
  <1> QED BY <1>1, <1>2, <1>3 DEF RecordInv

\* A route that keeps the expression and the last time of a row, or excuses it.
LEMMA RouteKeepsRecord ==
  ASSUME IInv, RecordInv, UNCHANGED <<ticks, fired>>,
         \A r \in Schedules : excused[r] \subseteq excused'[r],
         \A r \in Schedules : rows'[r] # Absent =>
           \/ "cron" \in excused'[r]
           \/ r \notin used /\ rows'[r].last = Absent
           \/ /\ rows[r] # Absent /\ rows'[r].cron = rows[r].cron
              /\ rows'[r].last = rows[r].last \/ "push" \in excused'[r]
  PROVE  RecordInv'
  <1>1. \A r \in Schedules : Noted(r)'
    BY DEF RecordInv, Noted, Served
  <1>2. \A t \in Ticks : Listed(t)' = Listed(t)
    BY DEF Listed
  <1>3. \A t \in Ticks : \A r \in Listed(t) : r \in used /\ r \in Schedules
    BY DEF IInv, UsedInv, Holds, Listed
  <1>4. \A t \in Ticks : \A r \in Listed(t) : SameCron(t, r)'
    BY <1>3 DEF RecordInv, SameCron
  <1>5. \A t \in Ticks : ticks[t].at # Absent => ticks[t].at \in used /\ ticks[t].at \in Schedules
    BY DEF IInv, TypeOK, UsedInv, Holds
  <1>6. \A t \in Ticks : ticks'[t].at # Absent /\ rows'[ticks'[t].at] # Absent
                           => Served(ticks[t].at, ticks[t].now)'
    BY <1>5 DEF RecordInv, Served
  <1> QED BY <1>1, <1>2, <1>4, <1>6 DEF RecordInv

LEMMA InitRecord == Init => RecordInv
  <1> SUFFICES ASSUME Init PROVE RecordInv
    OBVIOUS
  <1>1. \A t \in Ticks : ticks[t].at = Absent /\ Listed(t) = {}
    BY IdleIsQuiet DEF Init, Listed
  <1>2. rows \in Table /\ \A r \in Schedules : rows[r] # Absent => rows[r].last \in {0, Absent}
    BY SessionAssumption DEF Init
  <1>3. \A r \in Schedules : Noted(r)
    <2> SUFFICES ASSUME NEW r \in Schedules, rows[r] # Absent, rows[r].last = 0,
                        Past(rows[r].cron, 0) # {}
                 PROVE  Prev(rows[r].cron, 0) \in fired[r]
      BY <1>2 DEF Noted, Served
    <2>1. rows[r].cron \in Crons /\ 0 \in Minutes
      BY <1>2, EndAssumption DEF Table, Row, Minutes
    <2>2. Prev(rows[r].cron, 0) \in Minutes /\ Prev(rows[r].cron, 0) <= 0
      BY <2>1, PrevIsPast
    <2>3. Prev(rows[r].cron, 0) = 0
      BY <2>2, EndAssumption DEF Minutes
    <2> QED BY <2>3 DEF Init, Live
  <1> QED BY <1>1, <1>3 DEF RecordInv

LEMMA FireKeepsRecord ==
  ASSUME IInv, RecordInv, NEW t \in Ticks, NEW q \in Schedules, Fire(t, q)
  PROVE  RecordInv'
  <1> DEFINE m == Prev(ticks[t].list[q].cron, ticks[t].now)
  <1>1. /\ q \in Listed(t) /\ UNCHANGED <<rows, excused>>
        /\ fired' = [fired EXCEPT ![q] = @ \cup {m}]
        /\ ticks' = [ticks EXCEPT ![t] =
             [@ EXCEPT !.step = "fired", !.list = Handled(t, q), !.at = q]]
    BY DEF Fire, Started
  <1>2. ticks[t] \in [step: Steps, now: Minutes, list: Table, at: Schedules \cup {Absent}]
    BY DEF IInv, TypeOK
  <1>3. \A r \in Schedules : Handled(t, q)[r] = IF r = q THEN Absent ELSE ticks[t].list[r]
    BY <1>2 DEF Handled, Table
  <1>4. /\ ticks'[t].at = q /\ ticks'[t].now = ticks[t].now /\ ticks'[t].list = Handled(t, q)
        /\ \A u \in Ticks : u # t => ticks'[u] = ticks[u]
    BY <1>1, <1>2 DEF IInv, TypeOK
  <1>5. m \in fired'[q] /\ \A r \in Schedules : fired[r] \subseteq fired'[r]
    BY <1>1 DEF IInv, TypeOK
  <1>6. \A u \in Ticks : \A r \in Listed(u)' :
          r \in Listed(u) /\ ticks'[u].list[r] = ticks[u].list[r]
    BY <1>3, <1>4 DEF Listed
  <1>7. SameCron(t, q)
    BY <1>1 DEF RecordInv
  <1>8. rows[q] # Absent => Served(q, ticks[t].now)'
    BY <1>1, <1>4, <1>5, <1>7 DEF SameCron, Served
  <1> HIDE DEF m
  <1>9. CASE rows[q] # Absent
    <2>1. Served(ticks[t].at, ticks[t].now)'
      BY <1>4, <1>8, <1>9
    <2> QED BY <2>1, <1>1, <1>4, <1>5, <1>6, TickKeepsRecord
  <1>10. CASE rows[q] = Absent
    <2>1. \A r \in Schedules : Noted(r)'
      BY <1>1, <1>5 DEF RecordInv, Noted, Served
    <2>2. \A u \in Ticks : \A r \in Listed(u)' : SameCron(u, r)'
      BY <1>1, <1>6 DEF RecordInv, SameCron
    <2>3. \A u \in Ticks : ticks'[u].at # Absent /\ rows'[ticks'[u].at] # Absent
                             => Served(ticks[u].at, ticks[u].now)'
      <3>1. \A u \in Ticks : ticks[u].at \in Schedules \cup {Absent}
        BY DEF IInv, TypeOK
      <3> QED BY <3>1, <1>1, <1>4, <1>5, <1>10 DEF RecordInv, Served
    <2> QED BY <2>1, <2>2, <2>3 DEF RecordInv
  <1> QED BY <1>9, <1>10

LEMMA SaveKeepsRecord ==
  ASSUME IInv, RecordInv, NEW t \in Ticks, Save(t) PROVE RecordInv'
  <1> DEFINE q == ticks[t].at
  <1>1. UNCHANGED <<fired, excused>> /\ rows' = Stamp(q, ticks[t].now)
        /\ ticks' = [ticks EXCEPT ![t] = [@ EXCEPT !.step = "loop", !.at = Absent]]
    BY DEF Save
  <1>2. ticks[t] \in [step: Steps, now: Minutes, list: Table, at: Schedules \cup {Absent}]
        /\ rows \in Table
    BY DEF IInv, TypeOK
  <1>3. q \in Schedules
    BY DEF IInv, TickInv, Save
  <1>4. rows[q] # Absent => Served(q, ticks[t].now)
    BY <1>3, AbsentAssumption DEF RecordInv
  <1>5. /\ ticks'[t].at = Absent /\ ticks'[t].list = ticks[t].list
        /\ \A u \in Ticks : u # t => ticks'[u] = ticks[u]
    BY <1>1, <1>2 DEF IInv, TypeOK
  <1> HIDE DEF q
  <1>6. \A r \in Schedules :
          /\ rows'[r] # Absent => rows[r] # Absent /\ rows'[r].cron = rows[r].cron
          /\ r # q => rows'[r] = rows[r]
          /\ r = q /\ rows[r] # Absent => rows'[r].last = ticks[t].now
    BY <1>1, <1>2, <1>3, AbsentAssumption DEF Stamp, Table, Row
  <1>7. \A r \in Schedules : Noted(r)'
    BY <1>1, <1>4, <1>6 DEF RecordInv, Noted, Served
  <1>8. \A u \in Ticks : Listed(u)' = Listed(u) /\ ticks'[u].list = ticks[u].list
    BY <1>5 DEF Listed
  <1>9. \A u \in Ticks : \A r \in Listed(u)' : SameCron(u, r)'
    <2>1. \A u \in Ticks : Listed(u) \subseteq Schedules
      BY DEF Listed
    <2> QED BY <2>1, <1>1, <1>6, <1>8 DEF RecordInv, SameCron
  <1>10. \A u \in Ticks : ticks'[u].at # Absent /\ rows'[ticks'[u].at] # Absent
                            => Served(ticks[u].at, ticks[u].now)'
    <2>1. \A u \in Ticks : ticks[u].at \in Schedules \cup {Absent}
      BY DEF IInv, TypeOK
    <2> QED BY <2>1, <1>1, <1>5, <1>6 DEF RecordInv, Served
  <1> QED BY <1>7, <1>9, <1>10 DEF RecordInv

LEMMA TickWorkKeepsRecord ==
  ASSUME IInv, RecordInv, NEW t \in Ticks,
         Begin(t) \/ ReadSchedules(t) \/ Return(t) \/ Die(t) \/ \E r \in Schedules : Skip(t, r)
  PROVE  RecordInv'
  <1>1. /\ ticks[t] \in [step: Steps, now: Minutes, list: Table, at: Schedules \cup {Absent}]
        /\ rows \in Table
    BY DEF IInv, TypeOK
  <1>2. CASE Begin(t)
    <2>1. /\ ticks'[t].at = Absent /\ ticks'[t].list = Nothing /\ UNCHANGED <<rows, fired, excused>>
          /\ \A u \in Ticks : u # t => ticks'[u] = ticks[u]
      BY <1>2, IdleIsQuiet DEF Begin, IInv, TypeOK, Idle
    <2>2. \A u \in Ticks : \A r \in Listed(u)' :
            r \in Listed(u) /\ ticks'[u].list[r] = ticks[u].list[r]
      BY <2>1, IdleIsQuiet DEF Listed
    <2> QED BY <2>1, <2>2, TickKeepsRecord
  <1>3. CASE ReadSchedules(t)
    <2> DEFINE enabled == {r \in Live : rows[r].enabled}
    <2>1. /\ ticks' = [ticks EXCEPT ![t] = [@ EXCEPT !.step = "loop",
                 !.list = [r \in Schedules |-> IF r \in enabled THEN rows[r] ELSE Absent]]]
          /\ UNCHANGED <<rows, fired>>
      BY <1>3 DEF ReadSchedules
    <2>2. \A r \in Schedules : excused[r] \subseteq excused'[r]
      BY <1>3 DEF ReadSchedules, Mark
    <2>3. /\ ticks'[t].at = ticks[t].at /\ ticks'[t].now = ticks[t].now
          /\ \A r \in Schedules : ticks'[t].list[r] = IF r \in enabled THEN rows[r] ELSE Absent
          /\ \A u \in Ticks : u # t => ticks'[u] = ticks[u]
      BY <2>1, <1>1 DEF IInv, TypeOK
    <2> HIDE DEF enabled
    <2>4. \A u \in Ticks : \A r \in Listed(u)' :
            \/ r \in Listed(u) /\ ticks'[u].list[r] = ticks[u].list[r]
            \/ ticks'[u].list[r] = rows[r]
      BY <2>3 DEF Listed
    <2> QED BY <2>1, <2>2, <2>3, <2>4, TickKeepsRecord
  <1>4. CASE Return(t) \/ Die(t)
    <2>1. /\ ticks'[t].at = Absent /\ ticks'[t].list = Nothing /\ UNCHANGED <<rows, fired>>
          /\ \A u \in Ticks : u # t => ticks'[u] = ticks[u]
      BY <1>4, IdleIsQuiet DEF Return, Die, IInv, TypeOK
    <2>2. \A r \in Schedules : excused[r] \subseteq excused'[r]
      BY <1>4 DEF Return, Die, Mark
    <2>3. \A u \in Ticks : \A r \in Listed(u)' :
            r \in Listed(u) /\ ticks'[u].list[r] = ticks[u].list[r]
      BY <2>1, IdleIsQuiet DEF Listed
    <2> QED BY <2>1, <2>2, <2>3, TickKeepsRecord
  <1>5. ASSUME NEW q \in Schedules, Skip(t, q) PROVE RecordInv'
    <2>1. /\ ticks'[t].at = ticks[t].at /\ ticks'[t].now = ticks[t].now
          /\ ticks'[t].list = Handled(t, q) /\ UNCHANGED <<rows, fired, excused>>
          /\ \A u \in Ticks : u # t => ticks'[u] = ticks[u]
      BY <1>1, <1>5 DEF Skip, IInv, TypeOK
    <2>2. \A r \in Schedules : Handled(t, q)[r] = IF r = q THEN Absent ELSE ticks[t].list[r]
      BY <1>1 DEF Handled, Table
    <2>3. \A u \in Ticks : \A r \in Listed(u)' :
            r \in Listed(u) /\ ticks'[u].list[r] = ticks[u].list[r]
      BY <2>1, <2>2 DEF Listed
    <2> QED BY <2>1, <2>3, TickKeepsRecord
  <1> QED BY <1>2, <1>3, <1>4, <1>5

LEMMA RouteWorkKeepsRecord ==
  ASSUME IInv, RecordInv,
         \/ Push
         \/ \E r \in Schedules : Delete(r)
         \/ \E r \in Schedules, cron \in Crons, on, hears \in BOOLEAN :
              Create(r, cron, on, hears) \/ Update(r, cron, on, hears)
  PROVE  RecordInv'
  <1>1. rows \in Table /\ Live \subseteq used
    BY DEF IInv, TypeOK
  <1>2. CASE Push
    <2> DEFINE heard == {r \in Live : rows[r].enabled /\ rows[r].hears}
    <2>1. /\ UNCHANGED <<ticks, fired>>
          /\ rows' = [r \in Schedules |->
               IF r \in heard THEN [rows[r] EXCEPT !.last = clock] ELSE rows[r]]
          /\ excused' = [r \in Schedules |->
               IF r \in heard THEN excused[r] \cup {"push"} ELSE excused[r]]
      BY <1>2 DEF Push, Mark
    <2>2. \A r \in heard : rows[r] # Absent /\ rows[r] \in Row
      BY <1>1 DEF Live, Table
    <2>3. \A r \in Schedules : excused[r] \subseteq excused'[r]
      BY <2>1
    <2>4. \A r \in heard : [rows[r] EXCEPT !.last = clock].cron = rows[r].cron
      BY <2>2 DEF Row
    <2> HIDE DEF heard
    <2>5. \A r \in Schedules : rows'[r] # Absent =>
            /\ rows[r] # Absent /\ rows'[r].cron = rows[r].cron
            /\ rows'[r].last = rows[r].last \/ "push" \in excused'[r]
      BY <2>1, <2>2, <2>4
    <2> QED BY <2>1, <2>3, <2>5, RouteKeepsRecord
  <1>3. ASSUME NEW q \in Schedules, NEW cron \in Crons, NEW on \in BOOLEAN, NEW hears \in BOOLEAN,
               Create(q, cron, on, hears)
        PROVE  RecordInv'
    <2>1. /\ UNCHANGED <<ticks, fired, excused>> /\ q \notin used
          /\ rows'[q].last = Absent /\ \A r \in Schedules : r # q => rows'[r] = rows[r]
      BY <1>1, <1>3 DEF Create, Table
    <2> QED BY <2>1, RouteKeepsRecord
  <1>4. ASSUME NEW q \in Schedules, NEW cron \in Crons, NEW on \in BOOLEAN, NEW hears \in BOOLEAN,
               Update(q, cron, on, hears)
        PROVE  RecordInv'
    <2>1. /\ UNCHANGED <<ticks, fired>> /\ rows[q] # Absent
          /\ rows'[q].last = rows[q].last /\ rows'[q].cron = cron
          /\ \A r \in Schedules : r # q => rows'[r] = rows[r]
      BY <1>1, <1>4 DEF Update, Table, Live
    <2>2. excused' = [r \in Schedules |->
            IF r \in (IF cron = rows[q].cron THEN {} ELSE {q})
            THEN excused[r] \cup {"cron"} ELSE excused[r]]
      BY <1>4 DEF Update, Mark
    <2>3. /\ \A r \in Schedules : excused[r] \subseteq excused'[r]
          /\ cron # rows[q].cron => "cron" \in excused'[q]
      BY <2>2
    <2> QED BY <2>1, <2>3, RouteKeepsRecord
  <1>5. ASSUME NEW q \in Schedules, Delete(q) PROVE RecordInv'
    <2>1. /\ UNCHANGED <<ticks, fired, excused>> /\ rows'[q] = Absent
          /\ \A r \in Schedules : r # q => rows'[r] = rows[r]
      BY <1>1, <1>5 DEF Delete, Table
    <2> QED BY <2>1, RouteKeepsRecord
  <1> QED BY <1>2, <1>3, <1>4, <1>5

LEMMA StepKeepsRecord == IInv /\ RecordInv /\ [Next]_vars => RecordInv'
  <1> SUFFICES ASSUME IInv, RecordInv, [Next]_vars PROVE RecordInv'
    OBVIOUS
  <1>1. ASSUME UNCHANGED <<rows, ticks, fired, excused>> PROVE RecordInv'
    BY <1>1 DEF RecordInv, Noted, SameCron, Served, Listed
  <1>2. CASE UNCHANGED vars \/ Minute
    BY <1>1, <1>2 DEF vars, Minute
  <1>3. ASSUME NEW t \in Ticks, Begin(t) \/ Work(t) \/ Die(t) PROVE RecordInv'
    BY <1>3, TickWorkKeepsRecord, FireKeepsRecord, SaveKeepsRecord DEF Work
  <1>4. ASSUME NEW r \in Schedules, NEW cron \in Crons, NEW on \in BOOLEAN, NEW hears \in BOOLEAN,
               Create(r, cron, on, hears) \/ Update(r, cron, on, hears)
        PROVE  RecordInv'
    BY <1>4, RouteWorkKeepsRecord
  <1>5. ASSUME NEW r \in Schedules, Delete(r) PROVE RecordInv'
    BY <1>5, RouteWorkKeepsRecord
  <1>6. CASE Push
    BY <1>6, RouteWorkKeepsRecord
  <1> QED BY <1>2, <1>3, <1>4, <1>5, <1>6 DEF Next

-----------------------------------------------------------------------------
LEMMA StepKeeps == IInv /\ [Next]_vars => IInv'
  <1> SUFFICES ASSUME IInv, [Next]_vars PROVE IInv'
    OBVIOUS
  <1>1. CASE UNCHANGED vars
    BY <1>1 DEF vars, IInv, TypeOK, TickInv, UsedInv, FireInv, Live, Listed, Holds, Safe
  <1>2. ASSUME NEW t \in Ticks, Begin(t) \/ Work(t) \/ Die(t) PROVE IInv'
    BY <1>2, BeginStep, ReadSchedulesStep, SaveStep, ReturnStep, SkipStep, FireStep, DieStep DEF Work
  <1>3. ASSUME NEW r \in Schedules, NEW cron \in Crons, NEW on \in BOOLEAN, NEW hears \in BOOLEAN,
               Create(r, cron, on, hears) \/ Update(r, cron, on, hears)
        PROVE  IInv'
    BY <1>3, CreateStep, UpdateStep
  <1>4. ASSUME NEW r \in Schedules, Delete(r) PROVE IInv'
    BY <1>4, DeleteStep
  <1>5. CASE Push \/ Minute
    BY <1>5, PushStep, MinuteStep
  <1> QED BY <1>1, <1>2, <1>3, <1>4, <1>5 DEF Next

\* The scheduler keeps its rows, its ticks and its history well formed: the types,
\* that an id in use is one that was given to a row, and what a tick holds.
THEOREM SchedulerIsSound == Spec => [](TypeOK /\ TickInv /\ UsedInv)
  <1>1. IInv => TypeOK /\ TickInv /\ UsedInv
    BY DEF IInv
  <1> QED BY <1>1, InitHolds, StepKeeps, PTL DEF Spec

\* For any schedules, expressions and number of overlapping ticks: the runs of a
\* suite are started once for a minute, whatever is edited or pushed meanwhile,
\* unless two ticks had both read the schedule or one died with it in hand.
THEOREM FiresOnceAlways == Spec => []FiresOnce
  <1>1. IInv => FiresOnce
    BY DEF IInv, FireInv, FiresOnce, Safe, TypeOK
  <1> QED BY <1>1, InitHolds, StepKeeps, PTL DEF Spec

\* For any schedules, expressions and number of overlapping or dying ticks:
\* last_triggered_at never runs ahead of the runs, so that no minute is taken for
\* done that was not fired, except by a push or a changed expression.
THEOREM RecordedAlwaysFired == Spec => []RecordedIsFired
  <1>1. IInv /\ RecordInv => RecordedIsFired
    BY DEF IInv, RecordInv, RecordedIsFired, NothingSkipped, Noted, Live
  <1> QED BY <1>1, InitHolds, StepKeeps, InitRecord, StepKeepsRecord, PTL DEF Spec
=============================================================================
