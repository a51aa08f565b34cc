----------------------------- MODULE RunConsole -----------------------------
(***************************************************************************)
(* What one browser tab shows of the runs: the pages of a project that     *)
(* list them (dashboard, artifacts, live), those that start them, and the  *)
(* bell of the topbar, which every page mounts anew.  All lists come from  *)
(* one hook, useProjectRuns, whose instances share requests and a short    *)
(* cache.  The page goes by the project of its URL; the bell, the          *)
(* dashboard and the starting of runs go by currentProject of a persisted  *)
(* store, which the layout of a project sets when its request is answered. *)
(*                                                                         *)
(* A test case has one run at most, "none" before it is started; errored,  *)
(* timed out and blocked runs are among the "failed", also for the filters *)
(* of the tables, which differ in which of them they show.                 *)
(*                                                                         *)
(* The user is signed in and the session known throughout; TabSession has  *)
(* what comes before, so mounting the sidebar again leaves the store alone.*)
(***************************************************************************)
EXTENDS Integers, Sequences, FiniteSets, SequencesExt

CONSTANTS
    Runs, Projects,
    Home,       \* the project of a run's test case
    Sessions,   \* where the tab starts, what its user does and how often (bound)
    NotesKept,  \* 100 notifications
    PageSize,   \* 15 rows of a table
    Absent

Active == {"active"}
TERMINAL == {"passed", "failed", "cancelled"}
RunStates == {"none", "deleted"} \cup Active \cup TERMINAL

ASSUME ConsoleAssumption ==
    /\ IsFiniteSet(Runs)
    /\ Home \in [Runs -> Projects]
    /\ {NotesKept, PageSize} \subseteq Nat \ {0}
ASSUME SessionsAssumption ==
    \A s \in Sessions: s.runs \in [Runs -> RunStates] /\ s.store \in Projects /\ s.visits \in Nat

VARIABLES
    runs,       \* the server: the status of each run
    archived,   \* runs whose test case is archived
    page,       \* the page that is shown
    store,      \* currentProject of the project store
    layout,     \* getProject requests of layouts
    hook,       \* useProjectRuns: _runsCache and the state of its instances
    notified,   \* notifiedRef of the bell: runs it has notified of
    notes,      \* notifications, newest first
    prefs,      \* alert preferences, by project
    launch,     \* a POST /api/runs, one at a time (bound)
    dels,       \* DELETE requests
    uses, visits, fails     \* what the session does, and may still do (bounds)

world  == <<runs, archived>>
server == <<world, layout, launch>>
shown  == <<page, hook, notified, notes, dels>>
user   == <<uses, visits, fails>>
consoleVars == <<server, shown, store, prefs, user>>

Watchers == {"bell", "page"}
Tables == {"board", "list"}                 \* dashboard, artifacts
Kinds == Tables \cup {"live", "new", "cases", "settings", "report", "hub", "lost"}

\* A page when it is mounted.  `offers` is currentProject at that time; `selected`
\* is the run of the live page, as polled in `seen`; `goes` is the page it has begun
\* to navigate to.
Opened(kind, p, r, st) ==
    [kind |-> kind, project |-> p, selected |-> r, seen |-> "none", goes |-> "none",
     offers |-> st, filter |-> "all", at |-> 1]

\* The project whose runs an instance lists.
Watched(w) == IF w = "bell" \/ page.kind = "board" THEN store ELSE page.project
Mounted(pg) == IF pg.kind = "lost" THEN {}
               ELSE IF pg.kind \in Tables \cup {"live"} THEN Watchers ELSE {"bell"}

-----------------------------------------------------------------------------
(* useProjectRuns *)

\* GET .../projects/{id}/runs: not those of archived test cases.
List(p) == LET ids == {r \in Runs \ archived : Home[r] = p /\ runs[r] \in Active \cup TERMINAL} IN
           [r \in ids |-> runs[r]]

\* refetch: share a pending request, or take the list while it is fresh, or send
\* a request.  A list that is not fresh is never read: lists[p] is Absent then.
Ask(h, ws, p) ==
    IF h.req[p] # Absent THEN [h EXCEPT !.req[p].to = @ \cup ws]
    ELSE IF h.lists[p] # Absent
    THEN [h EXCEPT !.shown = [w \in Watchers |-> IF w \in ws THEN h.lists[p] ELSE @[w]],
                   !.late = @ \ ws]
    ELSE [h EXCEPT !.req[p] = [got |-> Absent, to |-> ws]]

\* The effect for another project, with the state of the last one.
Restart_Keep(h, ws, p) == Ask(h, ws, p)

\* The effect for another project; requests for the last one are not given up.
Restart(h, ws, p) ==
    Ask([h EXCEPT !.shown = [w \in Watchers |-> IF w \in ws THEN Absent ELSE @[w]],
                  !.late = @ \ ws], ws, p)

\* Another page: the answers to the instances of the last one go nowhere.
Remount(pg) ==
    LET gone == [lists |-> hook.lists, shown |-> [w \in Watchers |-> Absent], late |-> {},
                 req |-> [p \in Projects |-> IF hook.req[p] = Absent THEN Absent
                                             ELSE [hook.req[p] EXCEPT !.to = {}]]]
        bell == Ask(gone, {"bell"}, store) IN
    IF pg.kind = "lost" THEN gone
    ELSE IF "page" \notin Mounted(pg) THEN bell
    ELSE Ask(bell, {"page"}, IF pg.kind = "board" THEN store ELSE pg.project)

Ended(list) == IF list = Absent THEN {} ELSE {r \in DOMAIN list : list[r] \in TERMINAL}

\* add without its slice.
Added_All(done, list, p, old) ==
    LET wanted == {r \in Ended(list) \ done : \/ list[r] = "failed" /\ prefs[p].onFailure
                                              \/ list[r] = "passed" /\ prefs[p].onSuccess} IN
    SetToSeq({[run |-> r, project |-> p, read |-> FALSE, here |-> TRUE] : r \in wanted}) \o old

\* What the bell's feeder adds, newest first: a notification of every ended run of
\* its list that is not among those `done`, if the preferences ask for one.
Added(done, list, p, old) ==
    LET wanted == {r \in Ended(list) \ done : \/ list[r] = "failed" /\ prefs[p].onFailure
                                              \/ list[r] = "passed" /\ prefs[p].onSuccess}
        all == SetToSeq({[run |-> r, project |-> p, read |-> FALSE, here |-> TRUE] : r \in wanted})
               \o old IN
    SubSeq(all, 1, IF Len(all) < NotesKept THEN Len(all) ELSE NotesKept)

\* The feeder notifies of what its list shows, known or not.
Notify_Again(h, p) ==
    /\ notified' = notified \cup Ended(h.shown["bell"])
    /\ notes' = Added({}, h.shown["bell"], p, notes)

\* The feeder, after its list or project changed.
Notify(h, p) ==
    /\ notified' = notified \cup Ended(h.shown["bell"])
    /\ notes' = Added(notified, h.shown["bell"], p, notes)

ActiveRuns(list) == IF list = Absent THEN {} ELSE {r \in DOMAIN list : list[r] \in Active}

\* selectRun: the path it navigates to, /app/runs/live, is no page.
SelectRun(pg, r) ==
    [pg EXCEPT !.selected = r, !.seen = IF r = pg.selected THEN @ ELSE "none", !.goes = "lost"]

\* The live page selects an active run itself when its list has one.
SelfSelected(pg, h) ==
    LET active == ActiveRuns(h.shown["page"]) IN
    IF pg.kind = "live" /\ pg.selected = Absent /\ active # {}
    THEN {SelectRun(pg, r) : r \in active}
    ELSE {pg}

\* A state of the hook, and what follows from it in the same page.
Show(h, p) ==
    /\ hook' = h
    /\ Notify(h, p)
    /\ page' \in SelfSelected(page, h)
    /\ UNCHANGED dels

\* A navigation to a page: a new bell, which has notified of nothing, and for
\* another project a layout, which asks for it.
Goto(pg, asked) ==
    LET h == Remount(pg)
        old == [i \in DOMAIN notes |-> [notes[i] EXCEPT !.here = FALSE]] IN
    /\ hook' = h
    /\ notified' = Ended(h.shown["bell"])
    /\ notes' = Added({}, h.shown["bell"], store, old)
    /\ page' \in SelfSelected(pg, h)
    /\ dels' = {[d EXCEPT !.here = FALSE] : d \in dels}
    /\ layout' = asked \cup ({pg.project} \ {Absent, page.project, store})

ConsoleInit ==
    /\ \E s \in Sessions:
         /\ runs = s.runs
         /\ store = s.store
         /\ uses = s.does
         /\ visits = s.visits
         /\ fails = s.fails
    /\ page = Opened("hub", Absent, Absent, store)
    /\ layout = {}
    /\ hook = Ask([lists |-> [p \in Projects |-> Absent], req |-> [p \in Projects |-> Absent],
                   shown |-> [w \in Watchers |-> Absent], late |-> {}], {"bell"}, store)
    /\ notified = {}
    /\ notes = << >>
    /\ prefs = [p \in Projects |-> [onFailure |-> TRUE, onSuccess |-> FALSE]]
    /\ archived = {}
    /\ launch = Absent
    /\ dels = {}

-----------------------------------------------------------------------------
(* The server *)

\* A worker ends a run.
Finish(r, s) ==
    /\ runs[r] \in Active
    /\ runs' = [runs EXCEPT ![r] = s]
    /\ UNCHANGED <<archived, shown, store, layout, launch, prefs, user>>

ListRead(p) ==
    /\ hook.req[p] # Absent
    /\ hook.req[p].got = Absent
    /\ hook' = [hook EXCEPT !.req[p].got = List(p)]
    /\ UNCHANGED <<server, page, store, notified, notes, dels, prefs, user>>

\* DELETE /api/runs/{id}: a run that has ended is deleted, another one cancelled.
\* The dashboard then refetches the project it showed at the click, also when it
\* was left and when it failed.  The DELETE of a test case archives it.
Deleted(d) ==
    /\ d \in dels
    /\ \/ /\ d.from = "cases"
          /\ archived' = archived \cup {d.run}
          /\ UNCHANGED <<runs, fails>>
       \/ /\ d.from # "cases"
          /\ runs' = [runs EXCEPT ![d.run] = CASE @ \in TERMINAL -> "deleted"
                                               [] @ \in Active -> "cancelled"
                                               [] OTHER -> @]
          /\ UNCHANGED <<archived, fails>>
       \/ /\ fails > 0
          /\ fails' = fails - 1
          /\ UNCHANGED world
    /\ LET ws == IF d.here THEN {"page"} ELSE {}
           h == Ask(hook, ws, d.project) IN
         IF d.from = "board"
         THEN /\ hook' = IF d.project = store THEN h ELSE [h EXCEPT !.late = @ \cup ws]
              /\ Notify(hook', store)
         ELSE UNCHANGED <<hook, notified, notes>>
    /\ dels' = dels \ {d}
    /\ UNCHANGED <<page, store, layout, launch, prefs, uses, visits>>

-----------------------------------------------------------------------------
(* Answers and timers *)

\* The list is cached and shown by all that wait for it, also by those whose
\* project is another one by now.
Answer(p) ==
    /\ hook.req[p] # Absent
    /\ hook.req[p].got # Absent
    /\ LET to == hook.req[p].to
           got == hook.req[p].got IN
         Show([lists |-> [hook.lists EXCEPT ![p] = got],
               req   |-> [hook.req EXCEPT ![p] = Absent],
               shown |-> [w \in Watchers |-> IF w \in to THEN got ELSE hook.shown[w]],
               late  |-> (hook.late \ to) \cup {w \in to : Watched(w) # p}], store)
    /\ UNCHANGED <<server, store, prefs, user>>

\* A failure deletes the entry of the cache; what is shown stays.
AnswerFails(p) ==
    /\ hook.req[p] # Absent
    /\ fails > 0
    /\ fails' = fails - 1
    /\ hook' = [hook EXCEPT !.lists[p] = Absent, !.req[p] = Absent]
    /\ UNCHANGED <<server, page, store, notified, notes, dels, prefs, uses, visits>>

\* setInterval(refetch, 5_000).
Tick(w) ==
    /\ w \in Mounted(page)
    /\ Show(Ask(hook, {w}, Watched(w)), store)
    /\ UNCHANGED <<server, store, prefs, user>>

\* The age of an entry counts from its last use.
Expire_Idle(p) ==
    /\ hook.lists[p] # Absent
    /\ \A w \in Mounted(page): Watched(w) # p
    /\ hook' = [hook EXCEPT !.lists[p] = Absent]
    /\ UNCHANGED <<server, page, store, notified, notes, dels, prefs, user>>

\* _RUNS_CACHE_TTL_MS have passed.
Expire(p) ==
    /\ hook.lists[p] # Absent
    /\ hook' = [hook EXCEPT !.lists[p] = Absent]
    /\ UNCHANGED <<server, page, store, notified, notes, dels, prefs, user>>

\* setCurrentProject: the bell and the dashboard change to the project.
Use(p) ==
    /\ store' = p
    /\ LET ws == IF page.kind = "board" THEN Watchers ELSE Mounted(page) \cap {"bell"} IN
         IF p = store THEN UNCHANGED <<hook, notified, notes>>
         ELSE LET h == Restart(hook, ws, p) IN hook' = h /\ Notify(h, p)

\* The layout's request is answered, perhaps after its project was left.
LayoutArrives(p) ==
    /\ p \in layout
    /\ layout' = layout \ {p}
    /\ Use(p)
    /\ UNCHANGED <<world, page, launch, dels, prefs, user>>

\* ... or fails, and leads to the hub, whatever page is shown.
LayoutFails(p) ==
    /\ p \in layout
    /\ fails > 0
    /\ fails' = fails - 1
    /\ Goto(Opened("hub", Absent, Absent, store), layout \ {p})
    /\ UNCHANGED <<world, store, launch, prefs, uses, visits>>

\* useRun polls the selected run until it has ended; one that is gone is an error.
Poll ==
    /\ page.kind = "live"
    /\ page.selected # Absent
    /\ page.seen \notin TERMINAL
    /\ runs[page.selected] \in Active \cup TERMINAL
    /\ page' = [page EXCEPT !.seen = runs[page.selected]]
    /\ UNCHANGED <<server, store, hook, notified, notes, dels, prefs, user>>

-----------------------------------------------------------------------------
(* Navigation *)

Does(use) == use \in uses /\ visits > 0 /\ visits' = visits - 1

\* A link or the history: any page of any project.
Visit(kind, p) ==
    /\ Does(kind)
    /\ Goto(Opened(kind, p, Absent, store), layout)
    /\ UNCHANGED <<world, store, launch, prefs, uses, fails>>

\* A card of the hub sets the store and goes to the dashboard (enterProject), its
\* gear to the settings.
Enter(p, kind) ==
    /\ page.kind = "hub"
    /\ Does("enter")
    /\ Use(p)
    /\ page' = [page EXCEPT !.goes = kind, !.offers = p]
    /\ UNCHANGED <<server, dels, prefs, uses, fails>>

\* A run of the live page's list.
Select(r) ==
    /\ page.kind = "live"
    /\ r \in ActiveRuns(hook.shown["page"])
    /\ Does("select")
    /\ page' = SelectRun(page, r)
    /\ UNCHANGED <<server, store, hook, notified, notes, dels, prefs, uses, fails>>

\* The navigation begun by the hub or the live page.
Leave ==
    /\ page.goes # "none"
    /\ Goto(Opened(page.goes, IF page.kind = "hub" THEN page.offers ELSE Absent, Absent, store),
            layout)
    /\ UNCHANGED <<world, store, launch, prefs, user>>

-----------------------------------------------------------------------------
(* Tables *)

\* Artifacts lists only runs that have ended.
Completed(list) == {r \in DOMAIN list : list[r] \in TERMINAL}

\* The rows that pass the filter.
Filtered ==
    LET list == hook.shown["page"]
        base == IF list = Absent THEN {}
                ELSE IF page.kind = "board" THEN DOMAIN list ELSE Completed(list) IN
    {r \in base : \/ page.filter = "all"
                  \/ page.filter = "active" /\ list[r] \in Active
                  \/ page.filter = list[r]}

TotalPages == LET n == (Cardinality(Filtered) + PageSize - 1) \div PageSize IN
              IF n < 1 THEN 1 ELSE n

\* The page that was asked for, whatever the rows are now.
SafePage_Raw == page.at

SafePage == IF page.at < TotalPages THEN page.at ELSE TotalPages

\* slice((safePage - 1) * PAGE_SIZE, safePage * PAGE_SIZE).
PageRows == LET rows == SetToSeq(Filtered)
                upto == SafePage * PageSize IN
            SubSeq(rows, (SafePage - 1) * PageSize + 1, IF upto < Len(rows) THEN upto ELSE Len(rows))

Turned(n) ==
    /\ page' = [page EXCEPT !.at = n]
    /\ UNCHANGED <<server, store, hook, notified, notes, dels, prefs, user>>

\* The filter of a table begins at its first page (handleStatus, handleFilter).
Filters(kind, fs) ==
    /\ page.kind = kind
    /\ "filter" \in uses
    /\ \E f \in fs: page' = [page EXCEPT !.filter = f, !.at = 1]
    /\ UNCHANGED <<server, store, hook, notified, notes, dels, prefs, user>>
FilterBoard == Filters("board", {"all", "active", "passed", "failed"})
FilterList == Filters("list", {"all", "passed", "failed"})

\* The pages a pager offers, counted from the one shown; the arrows of the
\* dashboard are among them.
Offers(n) == 1 <= n /\ n <= TotalPages /\ n \in {1, TotalPages} \cup SafePage - 1 .. SafePage + 1

Turn(n) ==
    /\ page.kind = "board"
    /\ "turn" \in uses
    /\ TotalPages > 1 /\ Offers(n)
    /\ Turned(n)

\* The arrows of the artifacts count from the page asked for.
StepList(n) ==
    /\ page.kind = "list"
    /\ "turn" \in uses
    /\ TotalPages > 1
    /\ \/ Offers(n)
       \/ SafePage # TotalPages /\ n = IF page.at + 1 < TotalPages THEN page.at + 1 ELSE TotalPages
       \/ SafePage # 1 /\ n = IF page.at > 1 THEN page.at - 1 ELSE 1
    /\ Turned(n)

\* A row of the dashboard: an active run's leads to the live page, another one's
\* to its report.
OpenRow(r) ==
    /\ page.kind = "board"
    /\ r \in ToSet(PageRows)
    /\ Does("row")
    /\ Goto(IF hook.shown["page"][r] \in Active THEN Opened("live", page.project, r, store)
            ELSE Opened("report", page.project, r, store), layout)
    /\ UNCHANGED <<world, store, launch, prefs, uses, fails>>

\* A row of the artifacts: its report.
OpenReport(r) ==
    /\ page.kind = "list"
    /\ r \in ToSet(PageRows)
    /\ Does("row")
    /\ Goto(Opened("report", page.project, r, store), layout)
    /\ UNCHANGED <<world, store, launch, prefs, uses, fails>>

\* handleDelete, for a row of any status.  A click is told from others by the
\* number of visits left.
DeleteRow(r) ==
    /\ page.kind = "board"
    /\ r \in ToSet(PageRows)
    /\ Does("delete")
    /\ dels' = dels \cup {[run |-> r, from |-> "board", project |-> store, here |-> TRUE, n |-> visits]}
    /\ UNCHANGED <<server, page, store, hook, notified, notes, prefs, uses, fails>>

\* The detail panel leads to the report of a run that is seen to have ended ...
ViewReport ==
    /\ page.kind = "live"
    /\ page.selected # Absent
    /\ page.seen \in TERMINAL
    /\ Does("row")
    /\ Goto(Opened("report", page.project, page.selected, store), layout)
    /\ UNCHANGED <<world, store, launch, prefs, uses, fails>>

\* ... and offers to abort another one.
Abort ==
    /\ page.kind = "live"
    /\ page.selected # Absent
    /\ page.seen \notin TERMINAL
    /\ Does("abort")
    /\ dels' = dels \cup {[run |-> page.selected, from |-> "live", project |-> store,
                           here |-> TRUE, n |-> visits]}
    /\ UNCHANGED <<server, page, store, hook, notified, notes, prefs, uses, fails>>

\* confirmArchive of the test cases page; its dialog may be closed meanwhile.
ArchiveCase(r) ==
    /\ page.kind = "cases"
    /\ Home[r] = page.project /\ r \notin archived
    /\ Does("archive")
    /\ dels' = dels \cup {[run |-> r, from |-> "cases", project |-> store, here |-> TRUE, n |-> visits]}
    /\ UNCHANGED <<server, page, store, hook, notified, notes, prefs, uses, fails>>

-----------------------------------------------------------------------------
(* Notifications *)

\* markRead and the notification's link: the report of its run.
OpenNote(i) ==
    /\ Mounted(page) # {}
    /\ i \in DOMAIN notes
    /\ Does("notes")
    /\ LET pg == Opened("report", notes[i].project, notes[i].run, store)
           h == Remount(pg)
           old == [j \in DOMAIN notes |-> [notes[j] EXCEPT !.here = FALSE, !.read = @ \/ j = i]] IN
         /\ hook' = h
         /\ notified' = Ended(h.shown["bell"])
         /\ notes' = Added({}, h.shown["bell"], store, old)
         /\ page' = pg
         /\ dels' = {[d EXCEPT !.here = FALSE] : d \in dels}
         /\ layout' = layout \cup ({pg.project} \ {page.project, store})
    /\ UNCHANGED <<world, store, launch, prefs, uses, fails>>

MarkAllRead ==
    /\ Mounted(page) # {}
    /\ Does("notes")
    /\ notes' = [i \in DOMAIN notes |-> [notes[i] EXCEPT !.read = TRUE]]
    /\ UNCHANGED <<server, page, store, hook, notified, dels, prefs, uses, fails>>

RemoveNote(i) ==
    /\ Mounted(page) # {}
    /\ i \in DOMAIN notes
    /\ Does("notes")
    /\ notes' = RemoveAt(notes, i)
    /\ UNCHANGED <<server, page, store, hook, notified, dels, prefs, uses, fails>>

\* updatePref, for the project of the store; it notifies of nothing by itself.
SetPref(pref) ==
    /\ page.kind = "settings"
    /\ Does("prefs")
    /\ prefs' = [prefs EXCEPT ![store] = pref]
    /\ UNCHANGED <<server, shown, store, uses, fails>>

-----------------------------------------------------------------------------
(* Starting runs *)

\* POST /api/runs for a test case of project p that is offered; the answer leads to
\* project `to`.  `stray` is history: the store and the page are not of one project.
Launch(r, p, to) ==
    /\ launch = Absent
    /\ runs[r] = "none" /\ r \notin archived
    /\ Home[r] = p
    /\ Does("launch")
    /\ launch' = [run |-> r, to |-> to, stray |-> {store, page.offers} # {page.project}]
    /\ UNCHANGED <<world, layout, shown, store, prefs, uses, fails>>

\* The form of the new run page offers the test cases of the page's project; the
\* project that is opened is the store's from when it was mounted (useCreateRun).
LaunchForm(r) == page.kind = "new" /\ Launch(r, page.project, page.offers)

\* The card of a test case opens NewRunModal, which takes the project at the click.
LaunchCard(r) == page.kind = "cases" /\ Launch(r, page.project, store)

\* On the live page the modal offers the test cases of the store's project from
\* when it was mounted.
LaunchPicked(r) == page.kind = "live" /\ Launch(r, page.offers, store)

\* POST /api/runs.
Started ==
    /\ launch # Absent
    /\ runs[launch.run] = "none"
    /\ runs' = [runs EXCEPT ![launch.run] = "active"]
    /\ UNCHANGED <<archived, shown, store, layout, launch, prefs, user>>

\* The answer leads to the project that is current by then.
LaunchOpens_Now ==
    /\ launch # Absent
    /\ runs[launch.run] # "none"
    /\ launch' = Absent
    /\ IF page.kind = "live" /\ page.project = store THEN UNCHANGED <<shown, layout>>
       ELSE Goto(Opened("live", store, launch.run, store), layout)
    /\ UNCHANGED <<world, store, prefs, user>>

\* The answer leads to the live page, whatever page is shown; a live page of the
\* same project stays as it is, with the run it has selected.
LaunchOpens ==
    /\ launch # Absent
    /\ runs[launch.run] # "none"
    /\ launch' = Absent
    /\ IF page.kind = "live" /\ page.project = launch.to THEN UNCHANGED <<shown, layout>>
       ELSE Goto(Opened("live", launch.to, launch.run, store), layout)
    /\ UNCHANGED <<world, store, prefs, user>>

LaunchFails ==
    /\ launch # Absent
    /\ fails > 0
    /\ fails' = fails - 1
    /\ launch' = Absent
    /\ UNCHANGED <<world, layout, shown, store, prefs, uses, visits>>

-----------------------------------------------------------------------------
Pages == Kinds \ {"hub", "lost", "report"}
Prefs == [onFailure : BOOLEAN, onSuccess : BOOLEAN]

ConsoleNext ==
    \/ \E r \in Runs: \/ \E s \in TERMINAL \ {"cancelled"}: Finish(r, s)
                      \/ Select(r) \/ OpenRow(r) \/ OpenReport(r) \/ DeleteRow(r) \/ ArchiveCase(r)
                      \/ LaunchForm(r) \/ LaunchCard(r) \/ LaunchPicked(r)
    \/ \E p \in Projects: \/ ListRead(p) \/ Answer(p) \/ AnswerFails(p) \/ Expire(p)
                          \/ LayoutArrives(p) \/ LayoutFails(p)
                          \/ Enter(p, "board") \/ Enter(p, "settings")
                          \/ \E kind \in Pages: Visit(kind, p)
    \/ \E w \in Watchers: Tick(w)
    \/ \E d \in dels: Deleted(d)
    \/ Poll \/ Leave \/ ViewReport \/ Abort
    \/ FilterBoard \/ FilterList
    \/ \E n \in 1..Cardinality(Runs): Turn(n) \/ StepList(n)
    \/ \E i \in 1..NotesKept: OpenNote(i) \/ RemoveNote(i)
    \/ MarkAllRead
    \/ \E pref \in Prefs: SetPref(pref)
    \/ Started \/ LaunchOpens \/ LaunchFails

\* Intervals fire, time passes, and the server answers.
Fairness ==
    /\ \A p \in Projects:
      WF_consoleVars(ListRead(p)) /\ WF_consoleVars(Answer(p)) /\ WF_consoleVars(Expire(p))
    /\ \A w \in Watchers: WF_consoleVars(Tick(w))

ConsoleSpec == ConsoleInit /\ [][ConsoleNext]_consoleVars /\ Fairness

-----------------------------------------------------------------------------
(* Properties *)

Shows(r) == [r -> Active \cup TERMINAL]
AnyList == {Absent} \cup UNION {Shows(rs) : rs \in SUBSET Runs}

\* Types: every list is one of runs the server has kept, an instance waits for
\* one project's answer or another's, and there are never more notifications than
\* are kept.
ConsoleTypeOK ==
    /\ runs \in [Runs -> RunStates]
    /\ page.kind \in Kinds
    /\ archived \subseteq Runs
    /\ page.project \in Projects \cup {Absent}
    /\ page.selected \in Runs \cup {Absent}
    /\ store \in Projects
    /\ layout \subseteq Projects
    /\ \A p \in Projects: hook.lists[p] \in AnyList
    /\ \A p \in Projects: hook.req[p] # Absent => hook.req[p].to \subseteq Watchers
    /\ \A w \in Watchers: hook.shown[w] \in AnyList
    /\ notified \subseteq Runs
    /\ Len(notes) <= NotesKept
    /\ prefs \in [Projects -> Prefs]

\* A page never shows the runs of one project under the name of another, however
\* its project, the store's and the shared cache change, unless the answer to a
\* request for the project before came late (useProjectRuns).
ListIsOfProject ==
    \A w \in Mounted(page) \ hook.late:
        hook.shown[w] # Absent => \A r \in DOMAIN hook.shown[w]: Home[r] = Watched(w)

\* As long as a page is shown its bell notifies of a run once, although its list
\* is fetched again and again and its project changes (useNotificationFeeder).
NotedOncePerVisit ==
    \A i, j \in DOMAIN notes:
        notes[i].here /\ notes[j].here /\ notes[i].run = notes[j].run => i = j

\* A table that has rows shows some, although rows vanish under the page that was
\* turned to (dashboard, artifacts).
RowsShown ==
    page.kind \in Tables /\ Filtered # {} => Len(PageRows) > 0

\* The live page that a start leads to is of the project of the test case, although
\* the store may change before the answer; unless the page and the store were not
\* of one project at the click (useCreateRun, NewRunModal).
LaunchOpensItsProject ==
    [][launch # Absent /\ launch' = Absent /\ page'.kind = "live" /\ page # page' /\ ~launch.stray
       => page'.project = Home[launch.run]]_consoleVars

\* What a page lists is in the end what the server has (polling through a cache
\* that other instances share).
EventuallyShown ==
    <>[](\A w \in Watchers: w \in Mounted(page) => hook.shown[w] = List(Watched(w)))

=============================================================================
