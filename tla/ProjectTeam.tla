----------------------------- MODULE ProjectTeam -----------------------------
(***************************************************************************)
(* The settings page of a project in the windows of several users, the     *)
(* project routes of the API behind it, and the project a window has in    *)
(* its store.  Every handler of the API reads, checks and then writes in   *)
(* two statements, so that requests of two users may interleave.           *)
(*                                                                         *)
(* Handlers of the page go on after their page was left.  Descriptions,    *)
(* display names, statistics and alert preferences are left out (the last  *)
(* are in RunConsole); the project has test cases.                         *)
(***************************************************************************)
EXTENDS Integers, FiniteSets

CONSTANTS
    Windows,    \* browsers, each of another user
    Users,      \* e-mail addresses
    Ids,        \* ids of rows of project_members
    Names,      \* names of the project
    Runs,       \* runs of the project
    Calls,      \* requests under way at once (bound)
    Sessions,   \* members at the start, what users do and how often (bound)
    Other,      \* currentProject is another project
    Absent      \* no such row, no project, nothing

VARIABLES
    name,       \* column projects.name
    archived,   \* projects.archived_at is set
    members,    \* table project_members
    active,     \* runs that are queued or running
    page,       \* state of the page of a window
    store,      \* a window's currentProject, and the one saved for its user
    calls,      \* requests of the pages, until they are answered
    uses,       \* what the users do
    budget,     \* operations still to be started
    raced,      \* history: two checks that protect the last admin overlapped
    apart       \* history: windows whose rows may rightly be old

vars == <<name, archived, members, active, page, store, calls, uses, budget, raced, apart>>
api == <<name, archived, members, active>>

Roles == {"admin", "developer"}          \* a viewer is like a developer
Member == [user: Users, role: Roles]
Table == [Ids -> Member \cup {Absent}]
NoCall == [kind |-> "none"]
Nobody == [i \in Ids |-> Absent]

ASSUME AbsentAssumption == Absent \notin Member /\ Absent \notin Roles
ASSUME IdAssumption == IsFiniteSet(Ids)
ASSUME SessionAssumption == \A s \in Sessions :
    /\ s.members \in Table
    /\ \E i \in Ids : s.members[i] # Absent /\ s.members[i].role = "admin"
    /\ \A i, j \in Ids : s.members[i] # Absent /\ s.members[j] # Absent /\ i # j
                            => s.members[i].user # s.members[j].user
ASSUME NameAssumption == Other \notin Names /\ Absent \notin Names

Admins == {i \in Ids : members[i] # Absent /\ members[i].role = "admin"}
Known(rows) == {i \in Ids : rows[i] # Absent}
Emails == {members[i].user : i \in Known(members)}

\* The requests of a window whose page is still there.
Live(w) == {c \in Calls : calls[c] # NoCall /\ calls[c].win = w /\ calls[c].live}

\* The page before its project arrives.  Elsewhere edit is the project's name
\* in the list of projects; a window that is leaving is on its way there.
Blank == [at |-> "settings", shown |-> FALSE, rows |-> Nobody, edit |-> Absent,
          saving |-> FALSE, adding |-> FALSE, dialog |-> FALSE]
Away(where) == [Blank EXCEPT !.at = where]

Call(kind, w, id, to) == [kind |-> kind, win |-> w, id |-> id, to |-> to,
                          phase |-> "sent", live |-> TRUE, saw |-> Absent]

\* A request is sent from a given table of requests.
SendFrom(old, call) == \E c \in Calls: old[c] = NoCall /\ calls' = [old EXCEPT ![c] = call]
Send(call) == SendFrom(calls, call)

\* The page of a window is left: what its requests still change is not seen.
\* What they put in the store is.
Left(w) == [c \in Calls |-> IF calls[c] # NoCall /\ calls[c].win = w
                            THEN [calls[c] EXCEPT !.live = FALSE] ELSE calls[c]]

\* Project p, with the name the window knows, becomes current and is saved.
Both(w, p) == store' = [store EXCEPT ![w] = [current |-> p, saved |-> p]]

\* The sidebar was mounted: the saved project is current.
Mounted(w) == [store EXCEPT ![w].current = store[w].saved]

\* A push to the list of projects, wherever the window is.
ToHub(w) == page' = IF page[w].at = "hub" THEN page ELSE [page EXCEPT ![w] = Away("leaving")]

Does(what) == what \in uses /\ budget > 0 /\ budget' = budget - 1

Init ==
    /\ \E i \in Sessions: uses = i.does /\ budget = i.often /\ members = i.members
    /\ name \in Names
    /\ archived = FALSE
    /\ active = {}
    /\ page = [w \in Windows |-> Away("hub")]
    /\ store = [w \in Windows |-> [current |-> Other, saved |-> Other]]
    /\ calls = [c \in Calls |-> NoCall]
    /\ raced = FALSE
    /\ apart = {}

-----------------------------------------------------------------------------
(* The page *)

\* The list of projects, without those archived.  The sidebar is mounted on the
\* way from a page of a project.
List(w) ==
    /\ IF page[w].at \in {"hub", "leaving"} THEN UNCHANGED budget ELSE Does("leave")
    /\ page' = [page EXCEPT ![w] = [Away("hub") EXCEPT !.edit = IF archived THEN Absent ELSE name]]
    /\ store' = IF page[w].at = "hub" THEN store ELSE Mounted(w)
    /\ calls' = Left(w)
    /\ UNCHANGED <<api, uses, raced, apart>>

\* A user opens the settings of the project from the list, which may be old.
Enter(w) ==
    /\ page[w].at = "hub" /\ page[w].edit # Absent
    /\ page' = [page EXCEPT ![w] = Blank]
    /\ Both(w, page[w].edit)
    /\ Send(Call("load", w, Absent, Absent))
    /\ UNCHANGED <<api, uses, budget, raced, apart>>

Leave_Unsaved(w) ==
    /\ page[w].at # "other" /\ Does("leave")
    /\ page' = [page EXCEPT ![w] = Away("other")]
    /\ store' = [store EXCEPT ![w].current = Other]
    /\ calls' = Left(w)
    /\ UNCHANGED <<api, uses, raced, apart>>

\* A user enters another project, from the list.
Leave(w) ==
    /\ page[w].at # "other" /\ Does("leave")
    /\ page' = [page EXCEPT ![w] = Away("other")]
    /\ Both(w, Other)
    /\ calls' = Left(w)
    /\ UNCHANGED <<api, uses, raced, apart>>

\* A link, or the browser's history, leads to a page of the project, archived or
\* not: unless it is the current one, the layout asks for it.
Follow(w) ==
    /\ page[w].at \in {"hub", "other"} /\ Does("link")
    /\ page' = [page EXCEPT ![w] = Away("project")]
    /\ store' = IF page[w].at = "hub" THEN Mounted(w) ELSE store
    /\ IF store[w].current \in Names THEN UNCHANGED calls ELSE Send(Call("open", w, Absent, Absent))
    /\ UNCHANGED <<api, uses, raced, apart>>

OpenSettings(w) ==
    /\ page[w].at = "project"
    /\ page' = [page EXCEPT ![w] = Blank]
    /\ Send(Call("load", w, Absent, Absent))
    /\ UNCHANGED <<api, store, uses, budget, raced, apart>>

\* The menu of a narrow window, on any page, has a sidebar of its own.
OpenMenu(w) ==
    /\ store[w].current # store[w].saved
    /\ store' = Mounted(w)
    /\ UNCHANGED <<api, page, calls, uses, budget, raced, apart>>

Type(w, n) ==
    /\ page[w].shown /\ "save" \in uses
    /\ n # page[w].edit
    /\ page' = [page EXCEPT ![w].edit = n]
    /\ UNCHANGED <<api, store, calls, uses, budget, raced, apart>>

\* handleSave(): the name, and the current project of this moment.
ClickSave(w) ==
    /\ page[w].shown /\ ~page[w].saving /\ Does("save")
    /\ page' = [page EXCEPT ![w].saving = TRUE]
    /\ Send([Call("save", w, Absent, page[w].edit) EXCEPT !.saw = store[w].current])
    /\ UNCHANGED <<api, store, uses, raced, apart>>

\* handleArchive(): the button is never disabled.
ClickArchive(w) ==
    /\ page[w].shown /\ Does("archive")
    /\ Send(Call("archive", w, Absent, Absent))
    /\ UNCHANGED <<api, page, store, uses, raced, apart>>

OpenAdd(w) ==
    /\ page[w].shown /\ ~page[w].dialog /\ "add" \in uses
    /\ page' = [page EXCEPT ![w].dialog = TRUE]
    /\ UNCHANGED <<api, store, calls, uses, budget, raced, apart>>

\* Cancel works while the request is under way.
DismissAdd(w) ==
    /\ page[w].dialog
    /\ page' = [page EXCEPT ![w].dialog = FALSE]
    /\ UNCHANGED <<api, store, calls, uses, budget, raced, apart>>

ClickAdd(w, u, r) ==
    /\ page[w].dialog /\ ~page[w].adding /\ Does("add")
    /\ page' = [page EXCEPT ![w].adding = TRUE]
    /\ Send(Call("add", w, Absent, [user |-> u, role |-> r]))
    /\ UNCHANGED <<api, store, uses, raced, apart>>

\* A role chosen in the list, which is never disabled: two requests for one
\* member may be under way.
ClickRole(w, i, r) ==
    /\ page[w].shown /\ page[w].rows[i] # Absent /\ page[w].rows[i].role # r /\ Does("role")
    /\ Send(Call("role", w, i, r))
    /\ apart' = IF \E c \in Live(w): calls[c].kind = "role" /\ calls[c].id = i
                THEN apart \cup {w} ELSE apart
    /\ UNCHANGED <<api, page, store, uses, raced>>

ClickRemove(w, i) ==
    /\ page[w].shown /\ page[w].rows[i] # Absent /\ Does("remove")
    /\ Send(Call("remove", w, i, Absent))
    /\ UNCHANGED <<api, page, store, uses, raced, apart>>

-----------------------------------------------------------------------------
(* The API *)

Is(c, kind, phase) == calls[c] # NoCall /\ calls[c].kind = kind /\ calls[c].phase = phase

Becomes(c, phase) == calls' = [calls EXCEPT ![c].phase = phase]

\* A check passed after the handler saw a value, or the request is refused.
Check(c, passes, value) ==
    calls' = [calls EXCEPT ![c] = [@ EXCEPT !.phase = IF passes THEN "checked" ELSE "refused",
                                            !.saw = IF passes THEN value ELSE calls[c].saw]]

\* The members changed: other windows, and a page opened since, have old rows.
Stale(c) == apart' = apart \cup {w \in Windows : w # calls[c].win \/ ~calls[c].live}

\* What a handler that may take an admin away has checked.
Strips(c) == calls[c] # NoCall /\ calls[c].kind \in {"role", "remove"}
Taking == {c \in Calls : Strips(c) /\ calls[c].phase = "checked" /\ calls[c].to # "admin"}

\* The check of the last admin.
LastAdmin(i) == members[i].role = "admin" /\ Cardinality(Admins) <= 1

\* Project and members, for a page that was opened.
ReadLoad(c) ==
    /\ Is(c, "load", "sent")
    /\ calls' = [calls EXCEPT ![c] = [@ EXCEPT !.phase = "done", !.saw = members, !.to = name]]
    /\ apart' = IF calls[c].live THEN apart \ {calls[c].win} ELSE apart
    /\ UNCHANGED <<api, page, store, uses, budget, raced>>

\* The project for the layout of its pages.
ReadOpen(c) ==
    /\ Is(c, "open", "sent")
    /\ calls' = [calls EXCEPT ![c] = [@ EXCEPT !.phase = "done", !.to = name]]
    /\ UNCHANGED <<api, page, store, uses, budget, raced, apart>>

WriteSave(c) ==
    /\ Is(c, "save", "sent")
    /\ name' = calls[c].to
    /\ Becomes(c, "done")
    /\ UNCHANGED <<archived, members, active, page, store, uses, budget, raced, apart>>

\* Active runs are not looked for.
CheckArchive_Blind(c) ==
    /\ Is(c, "archive", "sent")
    /\ Check(c, TRUE, {})
    /\ UNCHANGED <<api, page, store, uses, budget, raced, apart>>

\* Active runs of the test cases refuse the archive; what was checked is kept
\* for the property: the runs started since.
CheckArchive(c) ==
    /\ Is(c, "archive", "sent")
    /\ Check(c, active = {}, {})
    /\ UNCHANGED <<api, page, store, uses, budget, raced, apart>>

WriteArchive(c) ==
    /\ Is(c, "archive", "checked")
    /\ archived' = TRUE
    /\ Becomes(c, "done")
    /\ UNCHANGED <<name, members, active, page, store, uses, budget, raced, apart>>

CheckAdd(c) ==
    /\ Is(c, "add", "sent")
    /\ Check(c, calls[c].to.user \notin Emails, Absent)
    /\ UNCHANGED <<api, page, store, uses, budget, raced, apart>>

\* No unique constraint.
WriteAdd_Unchecked(c) ==
    /\ Is(c, "add", "checked")
    /\ \E i \in Ids \ Known(members):
          /\ \A d \in Calls: calls[d] # NoCall => calls[d].id # i
          /\ \A w \in Windows: page[w].rows[i] = Absent
          /\ members' = [members EXCEPT ![i] = calls[c].to]
          /\ calls' = [calls EXCEPT ![c] = [@ EXCEPT !.phase = "done", !.id = i]]
          /\ Stale(c)
    /\ UNCHANGED <<name, archived, active, page, store, uses, budget, raced>>

\* The insert: the unique constraint refuses a second row of a user.
WriteAdd(c) ==
    /\ Is(c, "add", "checked")
    /\ IF calls[c].to.user \in Emails
       THEN Becomes(c, "refused") /\ UNCHANGED <<members, apart>>
       ELSE \E i \in Ids \ Known(members):
              /\ \A d \in Calls: calls[d] # NoCall => calls[d].id # i
              /\ \A w \in Windows: page[w].rows[i] = Absent
              /\ members' = [members EXCEPT ![i] = calls[c].to]
              /\ calls' = [calls EXCEPT ![c] = [@ EXCEPT !.phase = "done", !.id = i]]
              /\ Stale(c)
    /\ UNCHANGED <<name, archived, active, page, store, uses, budget, raced>>

Passed(c, passes) == raced' = (raced \/ (passes /\ calls[c].to # "admin" /\ Taking # {}))

CheckRole(c) ==
    LET i == calls[c].id
        passes == members[i] # Absent /\ (calls[c].to = "admin" \/ ~LastAdmin(i))
    IN  /\ Is(c, "role", "sent")
        /\ Check(c, passes, members[i])
        /\ Passed(c, passes)
        /\ UNCHANGED <<api, page, store, uses, budget, apart>>

\* The update: nothing is written for the role that was seen, and a row that
\* was deleted since is an error.
WriteRole(c) ==
    LET i == calls[c].id
    IN  /\ Is(c, "role", "checked")
        /\ IF members[i] = Absent
           THEN Becomes(c, "refused") /\ UNCHANGED <<members, apart>>
           ELSE /\ members' = [members EXCEPT ![i].role =
                                   IF calls[c].saw.role = calls[c].to THEN @ ELSE calls[c].to]
                /\ calls' = [calls EXCEPT ![c] = [@ EXCEPT !.phase = "done", !.saw = members'[i]]]
                /\ Stale(c)
        /\ UNCHANGED <<name, archived, active, page, store, uses, budget, raced>>

\* The last admin may leave.
CheckRemove_Anyone(c) ==
    /\ Is(c, "remove", "sent")
    /\ Check(c, members[calls[c].id] # Absent, Absent)
    /\ Passed(c, members[calls[c].id] # Absent)
    /\ UNCHANGED <<api, page, store, uses, budget, apart>>

CheckRemove(c) ==
    LET i == calls[c].id
        passes == members[i] # Absent /\ ~LastAdmin(i)
    IN  /\ Is(c, "remove", "sent")
        /\ Check(c, passes, Absent)
        /\ Passed(c, passes)
        /\ UNCHANGED <<api, page, store, uses, budget, apart>>

WriteRemove(c) ==
    /\ Is(c, "remove", "checked")
    /\ members' = [members EXCEPT ![calls[c].id] = Absent]
    /\ Becomes(c, "done")
    /\ Stale(c)
    /\ UNCHANGED <<name, archived, active, page, store, uses, budget, raced>>

\* Runs are started by others, whatever happens here, and end.
StartRun(r) ==
    /\ "archive" \in uses /\ r \notin active
    /\ active' = active \cup {r}
    /\ calls' = [c \in Calls |-> IF Is(c, "archive", "checked")
                                 THEN [calls[c] EXCEPT !.saw = @ \cup {r}] ELSE calls[c]]
    /\ UNCHANGED <<name, archived, members, page, store, uses, budget, raced, apart>>

EndRun(r) ==
    /\ r \in active
    /\ active' = active \ {r}
    /\ UNCHANGED <<name, archived, members, page, store, calls, uses, budget, raced, apart>>

-----------------------------------------------------------------------------
(* Answers *)

Answered(c) == calls' = [calls EXCEPT ![c] = NoCall]

\* A page that is still there takes the answer.
Takes(c, new) == page' = IF calls[c].live THEN [page EXCEPT ![calls[c].win] = new] ELSE page

LoadArrives(c) ==
    /\ Is(c, "load", "done")
    /\ Takes(c, [page[calls[c].win] EXCEPT !.shown = TRUE, !.rows = calls[c].saw, !.edit = calls[c].to])
    /\ Answered(c)
    /\ UNCHANGED <<api, store, uses, budget, raced, apart>>

\* The project becomes current, whatever page the window is on.
OpenArrives(c) ==
    /\ Is(c, "open", "done")
    /\ Both(calls[c].win, calls[c].to)
    /\ Answered(c)
    /\ UNCHANGED <<api, page, uses, budget, raced, apart>>

\* The window is sent to the list of projects from wherever it is.
OpenFails(c) ==
    LET w == calls[c].win
    IN  /\ "failure" \in uses
        /\ calls[c] # NoCall /\ calls[c].kind = "open"
        /\ ToHub(w)
        /\ calls' = [Left(w) EXCEPT ![c] = NoCall]
        /\ UNCHANGED <<api, store, uses, budget, raced, apart>>

\* The project that was current at the click is current again, with the saved
\* name, also when it is another one.
SaveArrives(c) ==
    LET w == calls[c].win
    IN  /\ Is(c, "save", "done")
        /\ Takes(c, [page[w] EXCEPT !.saving = FALSE])
        /\ store' = CASE calls[c].saw = Absent -> store
                      [] calls[c].saw = Other  -> [store EXCEPT ![w].current = Other]
                      [] OTHER                 -> [store EXCEPT ![w].current = calls[c].to]
        /\ Answered(c)
        /\ UNCHANGED <<api, uses, budget, raced, apart>>

\* No project is current; the one saved stays.  The window is sent to the list
\* of projects from wherever it is.
ArchiveArrives(c) ==
    LET w == calls[c].win
    IN  /\ Is(c, "archive", "done")
        /\ store' = [store EXCEPT ![w].current = Absent]
        /\ ToHub(w)
        /\ calls' = [Left(w) EXCEPT ![c] = NoCall]
        /\ UNCHANGED <<api, uses, budget, raced, apart>>

\* The dialog is closed, the row not appended.
AddArrives_Unseen(c) ==
    /\ Is(c, "add", "done")
    /\ Takes(c, [page[calls[c].win] EXCEPT !.adding = FALSE, !.dialog = FALSE])
    /\ Answered(c)
    /\ UNCHANGED <<api, store, uses, budget, raced, apart>>

\* The new row is appended; the dialog is closed, even if opened again since.
AddArrives(c) ==
    /\ Is(c, "add", "done")
    /\ Takes(c, [page[calls[c].win] EXCEPT !.rows[calls[c].id] = calls[c].to,
                                           !.adding = FALSE, !.dialog = FALSE])
    /\ Answered(c)
    /\ UNCHANGED <<api, store, uses, budget, raced, apart>>

\* A row that is still in the list is replaced.
RoleArrives(c) ==
    /\ Is(c, "role", "done")
    /\ Takes(c, [page[calls[c].win] EXCEPT !.rows[calls[c].id] =
                    IF @ = Absent THEN @ ELSE calls[c].saw])
    /\ Answered(c)
    /\ UNCHANGED <<api, store, uses, budget, raced, apart>>

RemoveArrives(c) ==
    /\ Is(c, "remove", "done")
    /\ Takes(c, [page[calls[c].win] EXCEPT !.rows[calls[c].id] = Absent])
    /\ Answered(c)
    /\ UNCHANGED <<api, store, uses, budget, raced, apart>>

\* A message, and the buttons of the request again.
Told(c) ==
    /\ Takes(c, [page[calls[c].win] EXCEPT
                    !.saving = IF calls[c].kind = "save" THEN FALSE ELSE @,
                    !.adding = IF calls[c].kind = "add" THEN FALSE ELSE @])
    /\ Answered(c)
    /\ UNCHANGED <<api, store, uses, budget, raced>>

Refused(c) ==
    /\ calls[c] # NoCall /\ calls[c].phase = "refused"
    /\ Told(c)
    /\ UNCHANGED apart

\* The connection fails: what was written stays.  A page that could not load
\* stays empty.
Fails(c) ==
    /\ "failure" \in uses
    /\ calls[c] # NoCall /\ calls[c].kind # "open" /\ calls[c].phase \in {"sent", "done"}
    /\ Told(c)
    /\ apart' = apart \cup {calls[c].win}

Next ==
    \/ \E w \in Windows:
         \/ List(w) \/ Enter(w) \/ Leave(w) \/ Follow(w) \/ OpenSettings(w) \/ OpenMenu(w)
         \/ ClickSave(w) \/ ClickArchive(w) \/ OpenAdd(w) \/ DismissAdd(w)
         \/ \E n \in Names: Type(w, n)
         \/ \E u \in Users, r \in Roles: ClickAdd(w, u, r)
         \/ \E i \in Ids: ClickRemove(w, i) \/ \E r \in Roles: ClickRole(w, i, r)
    \/ \E c \in Calls:
         \/ ReadLoad(c) \/ ReadOpen(c) \/ WriteSave(c) \/ CheckArchive(c) \/ WriteArchive(c) \/ CheckAdd(c)
         \/ WriteAdd(c) \/ CheckRole(c) \/ WriteRole(c) \/ CheckRemove(c) \/ WriteRemove(c)
         \/ LoadArrives(c) \/ OpenArrives(c) \/ OpenFails(c) \/ SaveArrives(c) \/ ArchiveArrives(c) \/ AddArrives(c)
         \/ RoleArrives(c) \/ RemoveArrives(c) \/ Refused(c) \/ Fails(c)
    \/ \E r \in Runs: StartRun(r) \/ EndRun(r)

Spec == Init /\ [][Next]_vars

-----------------------------------------------------------------------------
(* Properties *)

\* Tables, pages and requests are well formed; no user has two rows in the
\* table (add_project_member), and in a page only until the answer to the
\* removal of one of them arrives: a removed user who was added again may be
\* appended before (handleAddMember, handleRemoveMember).
TypeOK ==
    /\ name \in Names /\ archived \in BOOLEAN /\ active \subseteq Runs
    /\ members \in Table
    /\ Cardinality(Emails) = Cardinality(Known(members))
    /\ \A w \in Windows:
         /\ page[w].at \in {"settings", "project", "leaving", "hub", "other"} /\ page[w].rows \in Table
         /\ page[w].saving \in BOOLEAN /\ page[w].adding \in BOOLEAN /\ page[w].dialog \in BOOLEAN
         /\ page[w].edit \in Names \cup {Absent}
         /\ \A i, j \in Known(page[w].rows):
              \/ i = j \/ page[w].rows[i].user # page[w].rows[j].user \/ w \in apart
              \/ \E c \in Live(w): Is(c, "remove", "done") /\ calls[c].id \in {i, j}
         /\ store[w].current \in Names \cup {Other, Absent}
         /\ store[w].saved \in Names \cup {Other}
    /\ \A c \in Calls: calls[c] # NoCall =>
         calls[c].win \in Windows /\ calls[c].phase \in {"sent", "checked", "done", "refused"}
    /\ raced \in BOOLEAN /\ apart \subseteq Windows

\* A project keeps an admin, through every mixture of role changes, removals
\* and additions, unless two handlers passed the check of the last admin before
\* either wrote (update_project_member, remove_project_member).
AdminKept == Admins # {} \/ raced

\* A page at rest whose user alone changed members, with no failure and no two
\* roles asked for one member, shows the members of the table: the answers are
\* applied one by one to the rows and nothing is loaded again.
RowsAreStored == \A w \in Windows:
    (page[w].shown /\ Live(w) = {} /\ w \notin apart) => page[w].rows = members

\* When archive_project archives, the active runs are all started after it
\* looked for them.
ArchivedIsIdle == [][(archived' /\ ~archived) =>
    \E c \in Calls: Is(c, "archive", "checked") /\ active \subseteq calls[c].saw]_vars

\* A window whose user went on to another project, and that has this one in its
\* store.
Ghost(w) == page[w].at = "other" /\ {store[w].current, store[w].saved} \cap Names # {}

\* A window that went on to another project (enterProject) has this one, archived
\* or not, in its store again, for the next sidebar to make it current, only by
\* the late answer of a request of a page it left: of getProject
\* (ProjectLayout) or of a save (handleSave).  A window that archived the project
\* still has it saved, and it is current again from the next sidebar on
\* (handleArchive, UnifiedSidebar).
GhostIsLate == [][\A w \in Windows: (Ghost(w)' /\ ~Ghost(w)) =>
    \E c \in Calls:
        /\ Is(c, "open", "done") \/ Is(c, "save", "done")
        /\ calls[c].win = w /\ calls'[c] = NoCall]_vars

\* The table has one row for a user, and a page at rest the same rows, through
\* add_project_member and the handlers that apply its answers.
TeamIsShown == TypeOK /\ RowsAreStored

\* A project is idle when archive_project archives it, and is left by whoever
\* enters another one (enterProject).
ProjectIsLeft == ArchivedIsIdle /\ GhostIsLate
=============================================================================
