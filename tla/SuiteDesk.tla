------------------------------ MODULE SuiteDesk ------------------------------
(***************************************************************************)
(* The suites page of the front end, the tests tab of the suite page in a  *)
(* second tab, and the suite and schedule routes of the API behind them.   *)
(* The page works on the list it last loaded; dialogs send their writes    *)
(* together and may be dismissed while the writes are under way.           *)
(*                                                                         *)
(* A write is answered in the step that executes it; a failed one may or   *)
(* may not have been executed.  Names, models and cron texts are left out. *)
(***************************************************************************)
EXTENDS Integers, FiniteSets

CONSTANTS
    Suites,     \* ids of suites, used and unused
    Cases,      \* test cases of the project
    Triggers,   \* ids of rows of suite_schedules, all of suite Scheduled
    Scheduled,  \* the suite whose run dialog is modelled
    Sessions,   \* suites at the start, what a user does and how often (bound)
    Ops,        \* operations of the page under way at once (bound)
    Loads,      \* loads of the list under way at once (bound)
    Asked,      \* a read that the API has not executed yet
    Absent      \* not in the list, nothing under way

ASSUME SessionsAssumption == \A i \in Sessions:
    Scheduled \in i.has /\ i.has \subseteq Suites /\ i.often \in Nat

VARIABLES
    rows,       \* table test_suites
    triggers,   \* table suite_schedules: kind of each row
    view,       \* suites: the test_case_ids the page shows
    loads,      \* loadData calls: asked, then the answer on its way
    dialog,     \* the open dialog and its component state
    creating,   \* saving of CreateSuiteModal, which stays mounted
    ops,        \* handlers of the page that wait for their requests
    member,     \* POST and DELETE .../members requests of the other tab
    shown,      \* suite and test_case_ids in the other tab
    uses,       \* what the user of the session does
    budget,     \* operations still to be started
    asked,      \* history: triggers the user agreed to delete
    causes      \* history: what may leave list and tables apart

vars == <<rows, triggers, view, loads, dialog, creating, ops, member, shown,
          uses, budget, asked, causes>>

Kinds == {"cron", "push"}                    \* isGitPushSchedule
Modes == Kinds \cup {"instant"}              \* RunMode
Schedules == SUBSET (Triggers \X Kinds)      \* rows as a dialog knows them
Rows == [state: {"none", "live", "gone"}, ids: SUBSET Cases]
Views == [Suites -> (SUBSET Cases) \cup {Absent}]
NoDialog == [kind |-> "none"]
NoOp == [kind |-> "none"]
Put(s, ids) == [suite |-> s, ids |-> ids]
Puts == [suite: Suites, ids: SUBSET Cases]
Members == [op: {"add", "remove"}, step: {"read", "write", "answer"}, ids: SUBSET Cases]

ASSUME TriggersAssumption == IsFiniteSet(Triggers)
ASSUME AbsentAssumption ==
    /\ Absent \notin Suites \cup {Asked}
    /\ \A ids \in SUBSET Cases: Absent # ids
    /\ \A list \in Views: Absent # list
    /\ \A list \in Schedules: Absent # list
    /\ \A request \in Members: Absent # request

\* The rows of a kind.
Live(k) == {t \in Triggers : triggers[t] = k}

\* What GET .../suites answers.
Listed == [s \in Suites |-> IF rows[s].state = "live" THEN rows[s].ids ELSE Absent]
Nobody == [s \in Suites |-> Absent]

Quiet == /\ dialog.kind = "run" => dialog.list = Absent
         /\ \A l \in Loads: loads[l] = Absent
         /\ \A o \in Ops: ops[o] = NoOp
         /\ \A c \in Cases: member[c] = Absent

\* Something was under way when the user opened or confirmed a dialog.
Hurried == IF Quiet THEN causes ELSE causes \cup {"overlap"}
Wrote(who) == Hurried \cup {who}

\* A request fails; one failure to a session (bound).
Failure == "failure" \notin causes /\ causes' = causes \cup {"failure"}

-----------------------------------------------------------------------------
(* Loading *)

\* loadData() with nothing to wait for: at most one more load than before.
AskLoad(old) == \E l \in Loads:
    /\ old[l] = Absent
    /\ loads' = [old EXCEPT ![l] = Asked]

Init ==
    /\ \E i \in Sessions:
         /\ uses = i.does
         /\ budget = i.often
         /\ \E home \in [Cases -> i.has \cup {Absent}]: rows = [s \in Suites |->
               [state |-> IF s \in i.has THEN "live" ELSE "none",
                ids |-> {c \in Cases : home[c] = s}]]
         /\ shown = [suite |-> Scheduled, ids |-> rows[Scheduled].ids]
    /\ triggers \in [Triggers -> Kinds \cup {"none"}]
    /\ \A k \in Kinds: Cardinality(Live(k)) <= 1
    /\ "run" \in uses \/ Live("none") = Triggers          \* bound
    /\ view = Nobody
    /\ \E l \in Loads: loads = [k \in Loads |-> IF k = l THEN Asked ELSE Absent]
    /\ dialog = NoDialog
    /\ creating = FALSE
    /\ ops = [o \in Ops |-> NoOp]
    /\ member = [c \in Cases |-> Absent]
    /\ asked = {}
    /\ causes = {}

\* The API reads the list.
LoadRead(l) ==
    /\ loads[l] = Asked
    /\ loads' = [loads EXCEPT ![l] = Listed]
    /\ UNCHANGED <<rows, triggers, view, dialog, creating, ops, member, shown, uses, budget, asked, causes>>

\* The answer arrives and replaces the list, whatever it was.
LoadArrives(l) ==
    /\ loads[l] \notin {Asked, Absent}
    /\ view' = loads[l]
    /\ loads' = [loads EXCEPT ![l] = Absent]
    /\ UNCHANGED <<rows, triggers, dialog, creating, ops, member, shown, uses, budget, asked, causes>>

\* The load fails: a banner, and the list as it was.
LoadFails(l) ==
    /\ loads[l] # Absent
    /\ loads' = [loads EXCEPT ![l] = Absent]
    /\ Failure
    /\ UNCHANGED <<rows, triggers, view, dialog, creating, ops, member, shown, uses, budget, asked>>

-----------------------------------------------------------------------------
(* Dialogs *)

\* useMemo ownedByOther: test cases the list shows in another suite.
OwnedByOther(s) == UNION {view[t] : t \in {u \in Suites \ {s} : view[u] # Absent}}

Unassigned == Cases \ UNION {view[t] : t \in {u \in Suites : view[u] # Absent}}

\* MoveSuiteModal: the suite the list shows the test case in.
CurrentSuite(c) == {s \in Suites : view[s] # Absent /\ c \in view[s]}

Opened(kind) ==
    CASE kind = "create" -> {[kind |-> "create"]}
      [] kind = "manage" -> {[kind |-> "manage", suite |-> s, chosen |-> view[s],
                              op |-> Absent] : s \in {u \in Suites : view[u] # Absent}}
      [] kind = "move"   -> {[kind |-> "move", case |-> c, target |-> Absent,
                              op |-> Absent] : c \in Unassigned}
      [] kind = "run"    -> IF view[Scheduled] \in {Absent, {}} THEN {} ELSE
                            {[kind |-> "run", mode |-> "instant", list |-> Asked,
                              schedules |-> {}, confirm |-> FALSE, drops |-> {},
                              op |-> Absent]}

Open(kind) ==
    /\ dialog = NoDialog
    /\ kind \in uses
    /\ dialog' \in Opened(kind)
    /\ causes' = Hurried
    /\ UNCHANGED <<rows, triggers, view, loads, creating, ops, member, shown, uses, budget, asked>>

\* Cancel is disabled while saving; Escape and a click outside are not.
Dismiss ==
    /\ dialog # NoDialog
    /\ dialog' = NoDialog
    /\ UNCHANGED <<rows, triggers, view, loads, creating, ops, member, shown, uses, budget, asked, causes>>

\* A test case is ticked or unticked unless the list shows it elsewhere.
Toggle(c) ==
    /\ dialog.kind = "manage"
    /\ c \notin OwnedByOther(dialog.suite)
    /\ dialog' = [dialog EXCEPT !.chosen = IF c \in @ THEN @ \ {c} ELSE @ \cup {c}]
    /\ UNCHANGED <<rows, triggers, view, loads, creating, ops, member, shown, uses, budget, asked, causes>>

Aim(s) ==
    /\ dialog.kind = "move"
    /\ view[s] # Absent
    /\ dialog' = [dialog EXCEPT !.target = IF s = @ THEN Absent ELSE s]
    /\ UNCHANGED <<rows, triggers, view, loads, creating, ops, member, shown, uses, budget, asked, causes>>

\* handleSaveTestCases: the suite's new list, and the lists of the suites that
\* are shown to own a chosen test case.
ManagePuts(s, chosen) ==
    {Put(s, chosen)} \cup
    {Put(t, view[t] \ chosen) : t \in {u \in Suites \ {s} :
        view[u] # Absent /\ view[u] \cap chosen # {}}}

\* handleMoveTc: out of the suite it is shown in, into the target.
MovePuts(c, target) ==
    {Put(s, view[s] \ {c}) : s \in CurrentSuite(c)} \cup {Put(target, view[target] \cup {c})}

\* A handler starts: a free slot takes it.
Start(o, op) ==
    /\ budget > 0
    /\ budget' = budget - 1
    /\ ops[o] = NoOp
    /\ ops' = [ops EXCEPT ![o] = op]
    /\ causes' = Wrote("page")

SaveManage(o) ==
    /\ dialog.kind = "manage"
    /\ dialog.op = Absent
    /\ Start(o, [kind |-> "manage", puts |-> ManagePuts(dialog.suite, dialog.chosen), bad |-> FALSE])
    /\ dialog' = [dialog EXCEPT !.op = o]
    /\ UNCHANGED <<rows, triggers, view, loads, creating, member, shown, uses, asked>>

SaveMove(o) ==
    /\ dialog.kind = "move"
    /\ dialog.op = Absent
    /\ dialog.target # Absent
    /\ view[dialog.target] # Absent
    /\ dialog.target \notin CurrentSuite(dialog.case)
    /\ Start(o, [kind |-> "move", puts |-> MovePuts(dialog.case, dialog.target), bad |-> FALSE])
    /\ dialog' = [dialog EXCEPT !.op = o]
    /\ UNCHANGED <<rows, triggers, view, loads, creating, member, shown, uses, asked>>

\* The button is disabled while creating, the Enter key is not.
SubmitCreate(o) ==
    /\ dialog.kind = "create"
    /\ Start(o, [kind |-> "create"])
    /\ creating' = TRUE
    /\ UNCHANGED <<rows, triggers, view, loads, dialog, member, shown, uses, asked>>

\* The bin of a row: no dialog, no confirmation.
ClickDelete(o, s) ==
    /\ dialog = NoDialog
    /\ "delete" \in uses
    /\ view[s] # Absent
    /\ Start(o, [kind |-> "delete", suite |-> s])
    /\ UNCHANGED <<rows, triggers, view, loads, dialog, creating, member, shown, uses, asked>>

-----------------------------------------------------------------------------
(* Requests of the dialogs, in any order *)

\* onClose of a kind of dialog: the page knows only whether one is open.
Closed(kind) == IF dialog.kind = kind THEN NoDialog ELSE dialog

\* setSaving(false) reaches the dialog only if it is still the same one.
Released(o) == IF dialog.kind \in {"manage", "move", "run"} /\ dialog.op = o
               THEN [dialog EXCEPT !.op = Absent] ELSE dialog

Written(p) == [rows EXCEPT ![p.suite].ids = p.ids]

\* PUT .../suites/{id}: the last one ends the handler, which loads the list again.
PutDone(o, p) ==
    /\ ops[o].kind \in {"manage", "move"}
    /\ p \in ops[o].puts
    /\ rows' = Written(p)
    /\ IF ops[o].puts # {p}
       THEN /\ ops' = [ops EXCEPT ![o].puts = @ \ {p}]
            /\ UNCHANGED <<dialog, loads>>
       ELSE /\ ops' = [ops EXCEPT ![o] = NoOp]
            /\ IF ops[o].bad THEN UNCHANGED <<dialog, loads>>
               ELSE dialog' = Closed(ops[o].kind) /\ AskLoad(loads)
    /\ UNCHANGED <<triggers, view, creating, member, shown, uses, budget, asked, causes>>

\* One of the requests fails: the handler ends, the others go on.
PutFails(o, p) ==
    /\ ops[o].kind \in {"manage", "move"}
    /\ p \in ops[o].puts
    /\ rows' \in {rows, Written(p)}
    /\ ops' = [ops EXCEPT ![o] = IF @.puts = {p} THEN NoOp
                                 ELSE [ops[o] EXCEPT !.puts = @ \ {p}, !.bad = TRUE]]
    /\ dialog' = Released(o)
    /\ Failure
    /\ UNCHANGED <<triggers, view, loads, creating, member, shown, uses, budget, asked>>

\* POST .../suites: a new suite without test cases, added to the list.
CreateDone(o, s) ==
    /\ ops[o].kind = "create"
    /\ rows[s].state = "none"
    /\ rows' = [rows EXCEPT ![s].state = "live"]
    /\ view' = [view EXCEPT ![s] = {}]
    /\ ops' = [ops EXCEPT ![o] = NoOp]
    /\ creating' = FALSE
    /\ dialog' = Closed("create")
    /\ UNCHANGED <<triggers, loads, member, shown, uses, budget, asked, causes>>

\* The suite is archived but stays in the list.
DeleteDone_NoFilter(o) ==
    /\ ops[o].kind = "delete"
    /\ rows' = [rows EXCEPT ![ops[o].suite].state = "gone"]
    /\ ops' = [ops EXCEPT ![o] = NoOp]
    /\ UNCHANGED <<triggers, view, loads, dialog, creating, member, shown, uses, budget, asked, causes>>

\* DELETE .../suites/{id}: archived, and taken off the list.
DeleteDone(o) ==
    /\ ops[o].kind = "delete"
    /\ rows' = [rows EXCEPT ![ops[o].suite].state = "gone"]
    /\ view' = [view EXCEPT ![ops[o].suite] = Absent]
    /\ ops' = [ops EXCEPT ![o] = NoOp]
    /\ UNCHANGED <<triggers, loads, dialog, creating, member, shown, uses, budget, asked, causes>>

\* Either of the two fails, executed or not; the list stays as it was.
CreateOrDeleteFails(o) ==
    /\ \/ /\ ops[o].kind = "create"
          /\ creating' = FALSE
          /\ rows' \in {rows} \cup {[rows EXCEPT ![s].state = "live"] :
                                      s \in {t \in Suites : rows[t].state = "none"}}
       \/ /\ ops[o].kind = "delete"
          /\ creating' = creating
          /\ rows' \in {rows, [rows EXCEPT ![ops[o].suite].state = "gone"]}
    /\ ops' = [ops EXCEPT ![o] = NoOp]
    /\ Failure
    /\ UNCHANGED <<triggers, view, loads, dialog, member, shown, uses, budget, asked>>

-----------------------------------------------------------------------------
(* RunSuiteModal: a run, a schedule or a push trigger *)

Rest == <<rows, view, loads, creating, member, shown, uses>>
Calls == <<Rest, budget>>

\* GET .../schedules of the open dialog: read, then delivered or lost.
ListRead ==
    /\ dialog.kind = "run"
    /\ dialog.list = Asked
    /\ dialog' = [dialog EXCEPT !.list =
                     {<<t, triggers[t]>> : t \in UNION {Live(k) : k \in Kinds}}]
    /\ UNCHANGED <<Calls, triggers, ops, asked, causes>>

ListArrives ==
    /\ dialog.kind = "run"
    /\ dialog.list \notin {Asked, Absent}
    /\ \/ /\ dialog' = [dialog EXCEPT !.list = Absent, !.schedules = dialog.list]
          /\ UNCHANGED causes
       \/ /\ dialog' = [dialog EXCEPT !.list = Absent]
          /\ Failure
    /\ UNCHANGED <<Calls, triggers, ops, asked>>

SetMode(m) ==
    /\ dialog.kind = "run"
    /\ ~dialog.confirm
    /\ dialog' = [dialog EXCEPT !.mode = m]
    /\ UNCHANGED <<Calls, triggers, ops, asked, causes>>

\* existingForMode: any mode but "schedule" is about the push triggers.
ExistingForMode ==
    {p[1] : p \in {q \in dialog.schedules :
                     q[2] = IF dialog.mode = "cron" THEN "cron" ELSE "push"}}

\* doSave: first the deletes, together, then the run or the new row.
DoSave(o) ==
    /\ dialog.op = Absent
    /\ Start(o, [kind |-> "run", mode |-> dialog.mode, drops |-> ExistingForMode, bad |-> FALSE])
    /\ dialog' = [dialog EXCEPT !.op = o]

\* The second question is forgotten.
Confirm_Unasked(o) ==
    /\ dialog.kind = "run"
    /\ ~dialog.confirm
    /\ DoSave(o)
    /\ UNCHANGED <<Rest, triggers, asked>>

\* handleConfirm: rows of the kind are replaced after a second question only.
Confirm(o) ==
    /\ dialog.kind = "run"
    /\ ~dialog.confirm
    /\ dialog.op = Absent
    /\ IF dialog.mode # "instant" /\ ExistingForMode # {}
       THEN /\ dialog' = [dialog EXCEPT !.confirm = TRUE]
            /\ UNCHANGED <<ops, budget, causes>>
       ELSE DoSave(o)
    /\ UNCHANGED <<Rest, triggers, asked>>

Back ==
    /\ dialog.kind = "run"
    /\ dialog.confirm
    /\ dialog.op = Absent
    /\ dialog' = [dialog EXCEPT !.confirm = FALSE]
    /\ UNCHANGED <<Calls, triggers, ops, asked, causes>>

Override(o) ==
    /\ dialog.kind = "run"
    /\ dialog.confirm
    /\ DoSave(o)
    /\ asked' = asked \cup ExistingForMode
    /\ UNCHANGED <<Rest, triggers>>

\* The cross of a row, which no flag disables: deleteSchedule.
Drop(o, t) ==
    /\ dialog.kind = "run"
    /\ ~dialog.confirm
    /\ dialog.mode # "instant"
    /\ t \in ExistingForMode
    /\ Start(o, [kind |-> "drop", row |-> t])
    /\ dialog' = [dialog EXCEPT !.drops = @ \cup {o}]
    /\ asked' = asked \cup {t}
    /\ UNCHANGED <<Rest, triggers>>

\* finally of doSave.
Freed(o) == IF dialog.kind = "run" /\ dialog.op = o
            THEN [dialog EXCEPT !.op = Absent, !.confirm = FALSE] ELSE dialog

\* DELETE .../schedules/{id}: 404 for a row that is gone.
Deleted(t) == [triggers EXCEPT ![t] = "gone"]

\* The cross's request is done: the row leaves the list if the dialog is open.
DropDone(o) ==
    /\ ops[o].kind = "drop"
    /\ triggers[ops[o].row] \in Kinds
    /\ triggers' = Deleted(ops[o].row)
    /\ dialog' = IF dialog.kind = "run" /\ o \in dialog.drops
                 THEN [dialog EXCEPT !.drops = @ \ {o},
                                     !.schedules = {p \in @ : p[1] # ops[o].row}]
                 ELSE dialog
    /\ ops' = [ops EXCEPT ![o] = NoOp]
    /\ UNCHANGED <<Calls, asked, causes>>

DropFails(o) ==
    /\ ops[o].kind = "drop"
    /\ \/ triggers[ops[o].row] = "gone" /\ UNCHANGED <<triggers, causes>>
       \/ triggers' \in {triggers, Deleted(ops[o].row)} /\ Failure
    /\ dialog' = IF dialog.kind = "run" THEN [dialog EXCEPT !.drops = @ \ {o}] ELSE dialog
    /\ ops' = [ops EXCEPT ![o] = NoOp]
    /\ UNCHANGED <<Calls, asked>>

\* The last delete of a failed save leaves the handler waiting.
ReplaceDone_Waits(o, t) ==
    /\ ops[o].kind = "run"
    /\ t \in ops[o].drops
    /\ triggers[t] \in Kinds
    /\ triggers' = Deleted(t)
    /\ ops' = [ops EXCEPT ![o].drops = @ \ {t}]
    /\ UNCHANGED <<Calls, dialog, asked, causes>>

\* One of the deletes of doSave; the save follows the last one.
ReplaceDone(o, t) ==
    /\ ops[o].kind = "run"
    /\ t \in ops[o].drops
    /\ triggers[t] \in Kinds
    /\ triggers' = Deleted(t)
    /\ ops' = [ops EXCEPT ![o] = IF @.bad /\ @.drops = {t} THEN NoOp
                                 ELSE [ops[o] EXCEPT !.drops = @ \ {t}]]
    /\ UNCHANGED <<Calls, dialog, asked, causes>>

\* It fails, or answers 404: no save; the dialog stays open with its old list.
ReplaceFails(o, t) ==
    /\ ops[o].kind = "run"
    /\ t \in ops[o].drops
    /\ \/ triggers[t] = "gone" /\ UNCHANGED <<triggers, causes>>
       \/ triggers' \in {triggers, Deleted(t)} /\ Failure
    /\ ops' = [ops EXCEPT ![o] = IF @.drops = {t} THEN NoOp
                                 ELSE [ops[o] EXCEPT !.drops = @ \ {t}, !.bad = TRUE]]
    /\ dialog' = Freed(o)
    /\ UNCHANGED <<Calls, asked>>

\* POST .../schedules.
Created(k) == {[triggers EXCEPT ![t] = k] : t \in Live("none")}

\* The create does not wait for the deletes, and their answers are not awaited.
Saving_AtOnce(o) == ops[o].kind = "run" /\ ~ops[o].bad

Saving(o) == ops[o].kind = "run" /\ ops[o].drops = {} /\ ~ops[o].bad

SaveDone(o) ==
    /\ Saving(o)
    /\ ops[o].mode \in Kinds
    /\ triggers' \in Created(ops[o].mode)
    /\ ops' = [ops EXCEPT ![o] = NoOp]
    /\ dialog' = Closed("run")
    /\ UNCHANGED <<Calls, asked, causes>>

\* POST .../run queued the test cases: the user is taken to the page of runs.
RunDone(o) ==
    /\ Saving(o)
    /\ ops[o].mode = "instant"
    /\ rows[Scheduled].ids # {}
    /\ ops' = [ops EXCEPT ![o] = NoOp]
    /\ dialog' = NoDialog
    /\ uses' = uses \ {"run"}
    /\ UNCHANGED <<rows, triggers, view, loads, creating, member, shown, budget, asked, causes>>

\* The suite is empty by now (422), or the request fails, executed or not.
SaveFails(o) ==
    /\ Saving(o)
    /\ \/ /\ ops[o].mode = "instant"
          /\ rows[Scheduled].ids = {}
          /\ UNCHANGED <<triggers, causes>>
       \/ /\ Failure
          /\ triggers' \in {triggers} \cup
               (IF ops[o].mode \in Kinds THEN Created(ops[o].mode) ELSE {})
    /\ ops' = [ops EXCEPT ![o] = NoOp]
    /\ dialog' = Freed(o)
    /\ UNCHANGED <<Calls, asked>>

-----------------------------------------------------------------------------
(* The page of one suite, open in another tab *)

Page == <<view, loads, dialog, creating, ops, uses, asked>>
Tab == budget > 0 /\ budget' = budget - 1

\* The tab is loaded again.
TabLoad ==
    /\ "tab" \in uses
    /\ \A c \in Cases: member[c] = Absent
    /\ shown' = [shown EXCEPT !.ids = rows[shown.suite].ids]
    /\ UNCHANGED <<Page, budget, rows, triggers, member, causes>>

\* memberCases can be removed, availableCases added.
Offered(c) == IF c \in shown.ids THEN "remove" ELSE "add"

\* One request for a test case at a time (bound; its button is disabled).
AskMember(c) ==
    /\ "tab" \in uses
    /\ Tab
    /\ member[c] = Absent
    /\ member' = [member EXCEPT ![c] =
                    [op |-> Offered(c), step |-> "read", ids |-> {}]]
    /\ causes' = causes \cup {"tab"} \cup
          (IF \A d \in Cases: member[d] = Absent THEN {} ELSE {"overlap"})
    /\ UNCHANGED <<Page, rows, triggers, shown>>

\* add_suite_member, remove_suite_member: the list is read ...
MemberRead(c) ==
    /\ member[c] # Absent
    /\ member[c].step = "read"
    /\ member' = [member EXCEPT ![c] =
          IF @.op = "remove"
          THEN [@ EXCEPT !.step = "write", !.ids = rows[shown.suite].ids \ {c}]
          ELSE IF c \in rows[shown.suite].ids THEN Absent   \* 409
          ELSE [@ EXCEPT !.step = "write", !.ids = rows[shown.suite].ids \cup {c}]]
    /\ UNCHANGED <<Page, budget, rows, triggers, shown, causes>>

\* The list is changed in place, which the session does not notice.
MemberWrite_InPlace(c) ==
    /\ member[c] # Absent
    /\ member[c].step = "write"
    /\ member' = [member EXCEPT ![c].step = "answer"]
    /\ UNCHANGED <<Page, budget, rows, triggers, shown, causes>>

\* ... and written, with an await between the two, ...
MemberWrite(c) ==
    /\ member[c] # Absent
    /\ member[c].step = "write"
    /\ rows' = [rows EXCEPT ![shown.suite].ids = member[c].ids]
    /\ member' = [member EXCEPT ![c].step = "answer"]
    /\ UNCHANGED <<Page, budget, triggers, shown, causes>>

\* ... and the answer is what the tab shows from then on.
MemberAnswer(c) ==
    /\ member[c] # Absent
    /\ member[c].step = "answer"
    /\ shown' = [shown EXCEPT !.ids = member[c].ids]
    /\ member' = [member EXCEPT ![c] = Absent]
    /\ UNCHANGED <<Page, budget, rows, triggers, causes>>

MemberFails(c) ==
    /\ member[c] # Absent
    /\ member' = [member EXCEPT ![c] = Absent]
    /\ Failure
    /\ UNCHANGED <<Page, budget, rows, triggers, shown>>

\* set_suite_schedule: the only row becomes a cron row, whatever it was; with
\* more than one the query fails and nothing is saved.
SetSchedule ==
    LET all == UNION {Live(k) : k \in Kinds} IN
      \/ \E t \in all: all = {t} /\ triggers' = [triggers EXCEPT ![t] = "cron"]
      \/ all = {} /\ triggers' \in Created("cron")

\* handleSaveSchedule of the schedule tab.
TabSchedule ==
    /\ "trigger" \in uses
    /\ Tab
    /\ SetSchedule
    /\ causes' = Wrote("tab")
    /\ UNCHANGED <<Page, rows, member, shown>>

-----------------------------------------------------------------------------
Next ==
    \/ \E l \in Loads: LoadRead(l) \/ LoadArrives(l) \/ LoadFails(l)
    \/ \E kind \in {"create", "manage", "move", "run"}: Open(kind)
    \/ Dismiss
    \/ \E c \in Cases: Toggle(c)
    \/ \E s \in Suites: Aim(s)
    \/ \E o \in Ops:
         \/ SaveManage(o) \/ SaveMove(o) \/ SubmitCreate(o)
         \/ \E s \in Suites: ClickDelete(o, s) \/ CreateDone(o, s)
         \/ \E p \in Puts: PutDone(o, p) \/ PutFails(o, p)
         \/ DeleteDone(o) \/ CreateOrDeleteFails(o)
         \/ Confirm(o) \/ Override(o)
         \/ \E t \in Triggers: Drop(o, t) \/ ReplaceDone(o, t) \/ ReplaceFails(o, t)
         \/ DropDone(o) \/ DropFails(o)
         \/ SaveDone(o) \/ RunDone(o) \/ SaveFails(o)
    \/ ListRead \/ ListArrives \/ Back
    \/ \E m \in Modes: SetMode(m)
    \/ \E c \in Cases: \/ AskMember(c) \/ MemberRead(c) \/ MemberWrite(c)
                       \/ MemberAnswer(c) \/ MemberFails(c)
    \/ TabLoad \/ TabSchedule

Spec == Init /\ [][Next]_vars

-----------------------------------------------------------------------------
(* Properties *)

Dialogs ==
    {NoDialog, [kind |-> "create"]}
    \cup [kind: {"manage"}, suite: Suites, chosen: SUBSET Cases, op: Ops \cup {Absent}]
    \cup [kind: {"move"}, case: Cases, target: Suites \cup {Absent}, op: Ops \cup {Absent}]
    \cup [kind: {"run"}, mode: Modes, list: Schedules \cup {Asked, Absent},
          schedules: Schedules, confirm: BOOLEAN, drops: SUBSET Ops, op: Ops \cup {Absent}]

OpRecords ==
    {NoOp, [kind |-> "create"]}
    \cup [kind: {"delete"}, suite: Suites]
    \cup [kind: {"manage", "move"}, puts: (SUBSET Puts) \ {{}}, bad: BOOLEAN]
    \cup [kind: {"run"}, mode: Modes, drops: SUBSET Triggers, bad: BOOLEAN]
    \cup [kind: {"drop"}, row: Triggers]

\* Types of the variables; a handler of the page that had a failed request and
\* waits for no other is over (ops[o] then is NoOp), so that its slot is free
\* again and the page never counts a request it no longer waits for.
TypeOK ==
    /\ rows \in [Suites -> Rows]
    /\ triggers \in [Triggers -> Kinds \cup {"none", "gone"}]
    /\ view \in Views
    /\ loads \in [Loads -> Views \cup {Asked, Absent}]
    /\ dialog \in Dialogs
    /\ creating \in BOOLEAN
    /\ budget \in Nat
    /\ \A o \in Ops: ops[o] \in OpRecords
    /\ \A o \in Ops: ops[o].kind = "run" => ~(ops[o].bad /\ ops[o].drops = {})
    /\ member \in [Cases -> {Absent} \cup Members]
    /\ shown \in [suite: Suites, ids: SUBSET Cases]
    /\ asked \subseteq Triggers
    /\ causes \subseteq {"failure", "overlap", "page", "tab"}

\* handleSaveTestCases and handleMoveTc change two suites by two independent
\* requests computed from the page's own list.  As long as no request failed,
\* nothing was started while something else was under way, and no other tab
\* wrote, a page at rest shows exactly what is stored and no test case is in
\* two suites.
OneHome ==
    Quiet /\ causes \subseteq {"page"} =>
      /\ view = Listed
      /\ \A s, t \in Suites: s # t /\ view[s] # Absent /\ view[t] # Absent
           => view[s] \cap view[t] = {}

\* The same of the other tab, whose list is only ever an answer to one of its
\* own requests: alone, it shows what is stored.
TabIsExact ==
    Quiet /\ causes \subseteq {"tab"} => shown.ids = rows[shown.suite].ids

\* A dialog of RunSuiteModal replaces the rows of its kind, by deletes followed
\* by a create: without failures, overlaps and other tabs a suite never gets
\* two rows of one kind, which GET .../schedule of the suite could not read.
OneTriggerPerKind ==
    Quiet /\ causes \subseteq {"page"} => \A k \in Kinds: Cardinality(Live(k)) <= 1

\* A cron schedule is lost only if the user struck that row or agreed to have
\* it replaced, in any interleaving of dialogs, failures and retries (unless
\* the other tab changes what kind of row it is).
CronKeptUnlessAsked ==
    [][\A t \in Triggers: triggers[t] = "cron" /\ triggers'[t] = "gone"
         => t \in asked \/ "tab" \in causes]_vars

=============================================================================
