---------------------------- MODULE SettingsLists ----------------------------
(***************************************************************************)
(* The pages that keep a list beside a table of the API: members and       *)
(* invitations of the organisation (settings and account page), the vault, *)
(* the environments and the visual baselines of a project.  A page loads   *)
(* its list once and then edits it by the answers to its own requests;     *)
(* only the vault loads again after an addition, and only the baselines    *)
(* load again for another tab.                                             *)
(*                                                                         *)
(* Environments are those of the database, where a default is set by two   *)
(* statements.  The values of secrets, addresses, and the fields of a      *)
(* dialog are left out; a page opened later forgets the requests of the    *)
(* page before it.                                                         *)
(***************************************************************************)
EXTENDS Integers, FiniteSets

CONSTANTS
    Windows,    \* browser windows
    Ids,        \* ids of rows, in every table
    Keys,       \* names of secrets
    Calls,      \* requests under way at once (bound)
    Sessions,   \* tables at the start, the pages opened and how much is done (bound)
    Absent      \* no such row, nothing

VARIABLES
    table,      \* the tables of the API
    page,       \* state of the page a window shows
    calls,      \* requests of the pages, until they are answered
    uses,       \* pages that are opened, and whether requests fail
    budget,     \* operations still to be started
    crossed,    \* history: two requests for a default environment overlapped
    apart       \* history: windows whose list may rightly be old

vars == <<table, page, calls, uses, budget, crossed, apart>>

Tables == {"people", "invites", "secrets", "envs", "shots"}
Roles == {"owner", "admin", "developer"}
Tabs == {"pending_review", "approved", "rejected"}
Decisions == {"approved", "rejected"}
Values(t) == CASE t = "people"  -> Roles
               [] t = "invites" -> {"pending", "accepted", "revoked"}
               [] t = "secrets" -> Keys
               [] t = "envs"    -> {"plain", "default"}
               [] t = "shots"   -> Tabs
Rows(t) == [Ids -> Values(t) \cup {Absent}]
None == [t \in Tables |-> [i \in Ids |-> Absent]]

ASSUME AbsentAssumption == Absent \notin Ids /\ \A t \in Tables : Absent \notin Values(t)
ASSUME SessionAssumption == \A s \in Sessions :
    /\ s.tables = [t \in Tables |-> s.tables[t]]
    /\ \A t \in Tables : s.tables[t] \in Rows(t)
    /\ \A i, j \in Ids : s.tables["envs"][i] = "default" /\ s.tables["envs"][j] = "default" => i = j
    /\ \A i, j \in Ids : i # j => \/ s.tables["secrets"][i] # s.tables["secrets"][j]
                                  \/ s.tables["secrets"][i] = Absent

\* The tables a page shows.
Pages == {"org", "account", "vault", "envs", "baselines"}
Shows(p) == CASE p = "org"       -> {"people", "invites"}
              [] p = "account"   -> {"people"}
              [] p = "vault"     -> {"secrets"}
              [] p = "envs"      -> {"envs"}
              [] p = "baselines" -> {"shots"}
              [] OTHER           -> {}

\* What the API lists: pending invitations, baselines of the tab.
Listed(t, tab) == [i \in Ids |->
    IF (t = "invites" /\ table[t][i] # "pending") \/ (t = "shots" /\ table[t][i] # tab)
    THEN Absent ELSE table[t][i]]

NoCall == [kind |-> "none"]
Call(kind, w, t, id, to) == [kind |-> kind, win |-> w, in |-> t, id |-> id, to |-> to,
                             phase |-> "sent", live |-> TRUE, rows |-> None]
Live(w) == {c \in Calls : calls[c] # NoCall /\ calls[c].win = w /\ calls[c].live}

Fresh(p) == [kind |-> p, shown |-> FALSE, rows |-> None, tab |-> "pending_review",
             busy |-> FALSE, acting |-> Absent]

Init ==
    /\ \E s \in Sessions: uses = s.does /\ budget = s.often /\ table = s.tables
    /\ page = [w \in Windows |-> Fresh("none")]
    /\ calls = [c \in Calls |-> NoCall]
    /\ crossed = FALSE
    /\ apart = {}

-----------------------------------------------------------------------------
(* Requests *)

Default(call) == call.kind \in {"default", "create"} /\ call.to = "default"

\* Two requests of a window whose answers may come in the wrong order for its
\* list: beside a load, two defaults, two values of one row.
Cross(a, b) ==
    \/ "load" \in {a.kind, b.kind}
    \/ Default(a) /\ Default(b)
    \/ a.kind = b.kind /\ a.kind \in {"role", "decide"} /\ a.id = b.id

Hurried(call, others) ==
    apart' = IF \E c \in others: Cross(calls[c], call) THEN apart \cup {call.win} ELSE apart

Does == budget > 0 /\ budget' = budget - 1

\* A request of the page a window shows.
Send(call) ==
    /\ Does
    /\ \E c \in Calls: calls[c] = NoCall /\ calls' = [calls EXCEPT ![c] = call]
    /\ Hurried(call, Live(call.win))
    /\ UNCHANGED <<table, uses, crossed>>

\* A page is opened; the requests of the page before change no list any more.
Visit(w, p) ==
    LET left == [c \in Calls |-> IF calls[c] # NoCall /\ calls[c].win = w
                                 THEN [calls[c] EXCEPT !.live = FALSE] ELSE calls[c]]
    IN  /\ p \in uses /\ Does
        /\ page' = [page EXCEPT ![w] = Fresh(p)]
        /\ \E c \in Calls: left[c] = NoCall /\
              calls' = [left EXCEPT ![c] = Call("load", w, Absent, Absent, "pending_review")]
        /\ UNCHANGED <<table, uses, crossed, apart>>

\* Another tab of the baselines: a load that does not cancel the one before.
SelectTab(w, tab) ==
    /\ page[w].kind = "baselines" /\ page[w].tab # tab
    /\ page' = [page EXCEPT ![w].tab = tab, ![w].shown = FALSE]
    /\ Send(Call("load", w, Absent, Absent, tab))

Sees(w, p, t, i) == page[w].kind = p /\ page[w].shown /\ page[w].rows[t][i] # Absent

\* The organisation page offers neither roles nor removal for an owner.
ChangeRole(w, i, r) ==
    /\ Sees(w, "org", "people", i) /\ page[w].rows["people"][i] \notin {"owner", r}
    /\ Send(Call("role", w, "people", i, r))
    /\ UNCHANGED page

RemoveMember(w, i) ==
    /\ Sees(w, "org", "people", i) /\ page[w].rows["people"][i] # "owner"
    /\ Send(Call("delete", w, "people", i, Absent))
    /\ UNCHANGED page

\* The account page offers removal for everybody.
RemoveFromTeam(w, i) ==
    /\ Sees(w, "account", "people", i)
    /\ Send(Call("delete", w, "people", i, Absent))
    /\ UNCHANGED page

Invite(w) ==
    /\ page[w].kind = "org" /\ page[w].shown /\ ~page[w].busy
    /\ page' = [page EXCEPT ![w].busy = TRUE]
    /\ Send(Call("invite", w, "invites", Absent, "pending"))

\* The account page does not wait for the answer: two clicks invite twice.
InviteToTeam(w) ==
    /\ page[w].kind = "account"
    /\ Send(Call("invite", w, "invites", Absent, "pending"))
    /\ UNCHANGED page

Revoke(w, i) ==
    /\ Sees(w, "org", "invites", i)
    /\ Send(Call("revoke", w, "invites", i, Absent))
    /\ UNCHANGED page

AddSecret(w, k) ==
    /\ page[w].kind = "vault" /\ ~page[w].busy
    /\ page' = [page EXCEPT ![w].busy = TRUE]
    /\ Send(Call("add", w, "secrets", Absent, k))

DeleteSecret(w, i) ==
    /\ Sees(w, "vault", "secrets", i)
    /\ Send(Call("delete", w, "secrets", i, Absent))
    /\ UNCHANGED page

CreateEnvironment(w, d) ==
    /\ page[w].kind = "envs" /\ ~page[w].busy
    /\ page' = [page EXCEPT ![w].busy = TRUE]
    /\ Send(Call("create", w, "envs", Absent, d))

SetDefault(w, i) ==
    /\ Sees(w, "envs", "envs", i) /\ page[w].rows["envs"][i] = "plain"
    /\ Send(Call("default", w, "envs", i, "default"))
    /\ UNCHANGED page

DeleteEnvironment(w, i) ==
    /\ Sees(w, "envs", "envs", i)
    /\ Send(Call("delete", w, "envs", i, Absent))
    /\ UNCHANGED page

\* Approve or reject: the buttons of one baseline at a time are disabled, so
\* that deciding a second one enables those of the first again.
Decide(w, i, d) ==
    /\ Sees(w, "baselines", "shots", i)
    /\ page[w].rows["shots"][i] = "pending_review" /\ page[w].acting # i
    /\ page' = [page EXCEPT ![w].acting = i]
    /\ Send(Call("decide", w, "shots", i, d))

-----------------------------------------------------------------------------
(* The API *)

Is(c, kind, phase) == calls[c] # NoCall /\ calls[c].kind = kind /\ calls[c].phase = phase
Becomes(c, phase) == calls' = [calls EXCEPT ![c].phase = phase]

\* A write: other windows, and a page opened since, have an old list.
Writes(c, rows) ==
    /\ table' = [table EXCEPT ![calls[c].in] = rows]
    /\ apart' = apart \cup {w \in Windows : w # calls[c].win \/ ~calls[c].live}
Row(c) == table[calls[c].in][calls[c].id]
Put(c, value) == [table[calls[c].in] EXCEPT ![calls[c].id] = value]

\* An id that was never used.
New(t) == {i \in Ids : /\ table[t][i] = Absent
                       /\ \A w \in Windows: page[w].rows[t][i] = Absent
                       /\ \A c \in Calls: calls[c] # NoCall =>
                            calls[c].id # i /\ calls[c].rows[t][i] = Absent}

\* The lists of a page, or of the tab that was asked for.
ReadLoad(c) ==
    LET w == calls[c].win
    IN  /\ Is(c, "load", "sent")
        /\ calls' = [calls EXCEPT ![c] = [@ EXCEPT !.phase = "done", !.rows =
                       [t \in Tables |-> IF calls[c].live /\ t \in Shows(page[w].kind)
                                         THEN Listed(t, calls[c].to) ELSE None[t]]]]
        /\ apart' = IF Live(w) = {c} /\ calls[c].to = page[w].tab THEN apart \ {w} ELSE apart
        /\ UNCHANGED <<table, page, uses, budget, crossed>>

\* PATCH of a member and POST of a decision: any row that is still there.
Update(c) ==
    /\ Is(c, "role", "sent") \/ Is(c, "decide", "sent")
    /\ IF Row(c) = Absent THEN Becomes(c, "refused") /\ UNCHANGED <<table, apart>>
       ELSE Writes(c, Put(c, calls[c].to)) /\ Becomes(c, "done")
    /\ UNCHANGED <<page, uses, budget, crossed>>

\* DELETE of a member, a secret or an environment.
Delete(c) ==
    /\ Is(c, "delete", "sent")
    /\ IF Row(c) = Absent THEN Becomes(c, "refused") /\ UNCHANGED <<table, apart>>
       ELSE Writes(c, Put(c, Absent)) /\ Becomes(c, "done")
    /\ UNCHANGED <<page, uses, budget, crossed>>

Insert(c, i) ==
    /\ Writes(c, [table[calls[c].in] EXCEPT ![i] = calls[c].to])
    /\ calls' = [calls EXCEPT ![c] = [@ EXCEPT !.phase = "done", !.id = i]]

CreateInvitation(c) ==
    /\ Is(c, "invite", "sent")
    /\ \E i \in New("invites"): Insert(c, i)
    /\ UNCHANGED <<page, uses, budget, crossed>>

\* Whatever the invitation is by now.
RevokeInvitation(c) ==
    /\ Is(c, "revoke", "sent")
    /\ Writes(c, Put(c, "revoked"))
    /\ Becomes(c, "done")
    /\ UNCHANGED <<page, uses, budget, crossed>>

\* The invited person follows the link.
Accept(i) ==
    /\ "org" \in uses /\ table["invites"][i] = "pending"
    /\ table' = [table EXCEPT !["invites"][i] = "accepted"]
    /\ apart' = Windows
    /\ UNCHANGED <<page, calls, uses, budget, crossed>>

Taken(k) == \E i \in Ids: table["secrets"][i] = k

CheckSecret(c) ==
    /\ Is(c, "add", "sent")
    /\ Becomes(c, IF Taken(calls[c].to) THEN "refused" ELSE "checked")
    /\ UNCHANGED <<table, page, uses, budget, crossed, apart>>

\* No unique constraint.
InsertSecret_Twice(c) ==
    /\ Is(c, "add", "checked")
    /\ \E i \in New("secrets"): Insert(c, i)
    /\ UNCHANGED <<page, uses, budget, crossed>>

\* The unique constraint refuses what another request inserted meanwhile.
InsertSecret(c) ==
    /\ Is(c, "add", "checked")
    /\ IF Taken(calls[c].to) THEN Becomes(c, "refused") /\ UNCHANGED <<table, apart>>
       ELSE \E i \in New("secrets"): Insert(c, i)
    /\ UNCHANGED <<page, uses, budget, crossed>>

\* Requests for a default environment that have begun to write.
Midway == {c \in Calls : calls[c] # NoCall /\ Default(calls[c]) /\ calls[c].phase \in {"read", "cleared"}}
NoDefault(keep) == [i \in Ids |-> IF i # keep /\ table["envs"][i] = "default"
                                  THEN "plain" ELSE table["envs"][i]]

\* The default is not taken from the other rows.
ReadEnvironment_Straight(c) ==
    /\ Is(c, "default", "sent")
    /\ Becomes(c, IF Row(c) = Absent THEN "refused" ELSE "cleared")
    /\ crossed' = (crossed \/ Midway # {})
    /\ UNCHANGED <<table, page, uses, budget, apart>>

\* update_environment reads the row ...
ReadEnvironment(c) ==
    /\ Is(c, "default", "sent")
    /\ Becomes(c, IF Row(c) = Absent THEN "refused" ELSE "read")
    /\ crossed' = (crossed \/ Midway # {})
    /\ UNCHANGED <<table, page, uses, budget, apart>>

\* ... takes the default from every other row; create_environment begins here.
ClearDefault(c) ==
    /\ Is(c, "default", "read") \/ (Is(c, "create", "sent") /\ Default(calls[c]))
    /\ Writes(c, NoDefault(calls[c].id))
    /\ Becomes(c, "cleared")
    /\ crossed' = (crossed \/ Midway \ {c} # {})
    /\ UNCHANGED <<page, uses, budget>>

\* ... and gives it to the row, an error when that was deleted meanwhile: then
\* no environment is the default.
GiveDefault(c) ==
    /\ Is(c, "default", "cleared")
    /\ IF Row(c) = Absent
       THEN Becomes(c, "refused") /\ apart' = Windows /\ UNCHANGED table
       ELSE Writes(c, Put(c, "default")) /\ Becomes(c, "done")
    /\ UNCHANGED <<page, uses, budget, crossed>>

InsertEnvironment(c) ==
    /\ Is(c, "create", "cleared") \/ (Is(c, "create", "sent") /\ ~Default(calls[c]))
    /\ \E i \in New("envs"): Insert(c, i)
    /\ UNCHANGED <<page, uses, budget, crossed>>

-----------------------------------------------------------------------------
(* Answers *)

Answered(c) == calls' = [calls EXCEPT ![c] = NoCall]
Takes(c, new) == page' = IF calls[c].live THEN [page EXCEPT ![calls[c].win] = new] ELSE page
Mine(c) == page[calls[c].win]

\* Lists are replaced and shown, of whatever tab they are.
LoadArrives(c) ==
    /\ Is(c, "load", "done")
    /\ Takes(c, [Mine(c) EXCEPT !.rows = calls[c].rows, !.shown = TRUE])
    /\ Answered(c)
    /\ UNCHANGED <<table, uses, budget, crossed, apart>>

\* The role that was asked for, if the member is still in the list.
RoleArrives(c) ==
    /\ Is(c, "role", "done")
    /\ Takes(c, [Mine(c) EXCEPT !.rows["people"][calls[c].id] =
                    IF @ = Absent THEN @ ELSE calls[c].to])
    /\ Answered(c)
    /\ UNCHANGED <<table, uses, budget, crossed, apart>>

\* A row that was deleted or revoked leaves the list.
DropArrives(c) ==
    /\ Is(c, "delete", "done") \/ Is(c, "revoke", "done")
    /\ Takes(c, [Mine(c) EXCEPT !.rows[calls[c].in][calls[c].id] = Absent])
    /\ Answered(c)
    /\ UNCHANGED <<table, uses, budget, crossed, apart>>

\* A decided baseline stays in the list as it was.
DecideArrives_Stays(c) ==
    /\ Is(c, "decide", "done")
    /\ Takes(c, [Mine(c) EXCEPT !.acting = Absent])
    /\ Answered(c)
    /\ UNCHANGED <<table, uses, budget, crossed, apart>>

\* A decided baseline leaves the tab; no button is disabled any more.
DecideArrives(c) ==
    /\ Is(c, "decide", "done")
    /\ Takes(c, [Mine(c) EXCEPT !.rows["shots"][calls[c].id] = Absent, !.acting = Absent])
    /\ Answered(c)
    /\ UNCHANGED <<table, uses, budget, crossed, apart>>

\* The organisation page appends the invitation, the account page has no list.
InviteArrives(c) ==
    /\ Is(c, "invite", "done")
    /\ Takes(c, IF Mine(c).kind = "org"
                THEN [Mine(c) EXCEPT !.rows["invites"][calls[c].id] = "pending", !.busy = FALSE]
                ELSE Mine(c))
    /\ Answered(c)
    /\ UNCHANGED <<table, uses, budget, crossed, apart>>

\* The new secret is not appended: the vault loads its list again.
AddArrives(c) ==
    /\ Is(c, "add", "done")
    /\ Takes(c, [Mine(c) EXCEPT !.busy = FALSE])
    /\ IF calls[c].live
       THEN LET reload == Call("load", calls[c].win, Absent, Absent, Mine(c).tab)
            IN  calls' = [calls EXCEPT ![c] = reload] /\ Hurried(reload, Live(calls[c].win) \ {c})
       ELSE Answered(c) /\ UNCHANGED apart
    /\ UNCHANGED <<table, uses, budget, crossed>>

\* The new environment is appended only.
CreateArrives_Beside(c) ==
    /\ Is(c, "create", "done")
    /\ Takes(c, [Mine(c) EXCEPT !.busy = FALSE, !.rows["envs"][calls[c].id] = calls[c].to])
    /\ Answered(c)
    /\ UNCHANGED <<table, uses, budget, crossed, apart>>

\* The new environment is appended, and takes the default from those shown.
CreateArrives(c) ==
    /\ Is(c, "create", "done")
    /\ Takes(c, [Mine(c) EXCEPT !.busy = FALSE, !.rows["envs"] = [i \in Ids |->
                    CASE i = calls[c].id -> calls[c].to
                      [] i # calls[c].id /\ Default(calls[c]) /\ @[i] = "default" -> "plain"
                      [] OTHER -> @[i]]])
    /\ Answered(c)
    /\ UNCHANGED <<table, uses, budget, crossed, apart>>

\* One of the environments shown is the default, the others are not.
DefaultArrives(c) ==
    /\ Is(c, "default", "done")
    /\ Takes(c, [Mine(c) EXCEPT !.rows["envs"] = [i \in Ids |->
                    CASE @[i] = Absent -> Absent
                      [] @[i] # Absent /\ i = calls[c].id -> "default"
                      [] OTHER -> "plain"]])
    /\ Answered(c)
    /\ UNCHANGED <<table, uses, budget, crossed, apart>>

\* A message, and the buttons of the request again.
Told(c) ==
    /\ Takes(c, [Mine(c) EXCEPT
                    !.shown = @ \/ calls[c].kind = "load",
                    !.busy = @ /\ calls[c].kind \notin {"invite", "add", "create"},
                    !.acting = IF calls[c].kind = "decide" THEN Absent ELSE @])
    /\ Answered(c)
    /\ UNCHANGED <<table, uses, budget, crossed>>

Refused(c) ==
    /\ calls[c] # NoCall /\ calls[c].phase = "refused"
    /\ Told(c)
    /\ UNCHANGED apart

\* The connection fails: what was written stays.
Fails(c) ==
    /\ "failure" \in uses
    /\ calls[c] # NoCall /\ calls[c].phase \in {"sent", "done"}
    /\ Told(c)
    /\ apart' = apart \cup {calls[c].win}

Next ==
    \/ \E w \in Windows:
         \/ \E p \in Pages: Visit(w, p)
         \/ \E tab \in Tabs: SelectTab(w, tab)
         \/ Invite(w) \/ InviteToTeam(w)
         \/ \E k \in Keys: AddSecret(w, k)
         \/ \E d \in Values("envs"): CreateEnvironment(w, d)
         \/ \E i \in Ids:
              \/ \E r \in Roles: ChangeRole(w, i, r)
              \/ RemoveMember(w, i) \/ RemoveFromTeam(w, i) \/ Revoke(w, i) \/ DeleteSecret(w, i)
              \/ SetDefault(w, i) \/ DeleteEnvironment(w, i)
              \/ \E d \in Decisions: Decide(w, i, d)
    \/ \E c \in Calls:
         \/ ReadLoad(c) \/ Update(c) \/ Delete(c) \/ CreateInvitation(c) \/ RevokeInvitation(c)
         \/ CheckSecret(c) \/ InsertSecret(c) \/ ReadEnvironment(c) \/ ClearDefault(c)
         \/ GiveDefault(c) \/ InsertEnvironment(c)
         \/ LoadArrives(c) \/ RoleArrives(c) \/ DropArrives(c) \/ DecideArrives(c) \/ InviteArrives(c)
         \/ AddArrives(c) \/ CreateArrives(c) \/ DefaultArrives(c) \/ Refused(c) \/ Fails(c)
    \/ \E i \in Ids: Accept(i)

Spec == Init /\ [][Next]_vars

-----------------------------------------------------------------------------
(* Properties *)

\* Tables, pages and requests are well formed; no name has two secrets, though
\* create_secret checks the name and inserts in two statements.
TypeOK ==
    /\ \A t \in Tables: table[t] \in Rows(t)
    /\ \A i, j \in Ids: i # j => table["secrets"][i] # table["secrets"][j] \/ table["secrets"][i] = Absent
    /\ \A w \in Windows:
         /\ page[w].kind \in Pages \cup {"none"} /\ page[w].tab \in Tabs
         /\ page[w].shown \in BOOLEAN /\ page[w].busy \in BOOLEAN
         /\ page[w].acting \in Ids \cup {Absent}
         /\ \A t \in Tables: page[w].rows[t] \in Rows(t)
    /\ \A c \in Calls: calls[c] # NoCall =>
         /\ calls[c].win \in Windows /\ calls[c].id \in Ids \cup {Absent}
         /\ calls[c].phase \in {"sent", "read", "checked", "cleared", "done", "refused"}
    /\ crossed \in BOOLEAN /\ apart \subseteq Windows

\* A page at rest shows the rows of the API, when its user alone changed them,
\* nothing failed and no two requests crossed: the answers are applied to the
\* list one by one, in whatever order they come.
RowsAreStored == \A w \in Windows:
    (page[w].shown /\ Live(w) = {} /\ w \notin apart) =>
        \A t \in Shows(page[w].kind): page[w].rows[t] = Listed(t, page[w].tab)

\* The tables of the routes are well formed, and what the pages' handlers make of
\* the answers is what they hold.
ListsAreShown == TypeOK /\ RowsAreStored

\* A project has one default environment at most, unless two requests that set
\* it overlapped: each takes it from the others before it gives it to its own.
OneDefault == crossed \/ Cardinality({i \in Ids : table["envs"][i] = "default"}) <= 1

\* A decision on a baseline is overturned only from a window that could not
\* know it: approve_baseline and reject_baseline take any baseline.
DecisionStands == [][\A i \in Ids:
    (table["shots"][i] \in Decisions /\ table'["shots"][i] # table["shots"][i]) =>
        \E c \in Calls: /\ Is(c, "decide", "sent") /\ calls[c].id = i
                        /\ calls[c].win \in apart \/ ~calls[c].live]_vars

=============================================================================
