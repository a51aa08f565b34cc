SPECIFICATION FairSpec
CONSTANTS
    s1 = s1
    s2 = s2
    Schedules = {s1, s2}
    Crons <- MCCrons
    Sessions <- MCSessions
    Ticks = {t1, t2}
    End = 2
    Absent = Absent
INVARIANTS RecordedIsFired FiresOnce
PROPERTY EventuallyFired
