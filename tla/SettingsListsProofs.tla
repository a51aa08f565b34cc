------------------------- MODULE SettingsListsProofs -------------------------
(***************************************************************************)
(* For every number of windows, rows and requests: a project has one       *)
(* default environment at most; a page at rest shows the rows of its       *)
(* tables; a decision on a baseline is overturned only from a window that  *)
(* could not know it.                                                      *)
(*                                                                         *)
(* IInv says what the two statements of a request that sets the default    *)
(* may rely on between them.  TInv says, row by row, by which answers still *)
(* to come a list differs from its table.                                  *)
(***************************************************************************)
EXTENDS SettingsLists, FiniteSetTheorems, TLAPS

\* A request: the fields it has, and the table that its handler writes.
Shaped(x) == x = [kind |-> x.kind, win |-> x.win, in |-> x.in, id |-> x.id, to |-> x.to,
                  phase |-> x.phase, live |-> x.live, rows |-> x.rows]

Writing(kind, t, to, id, phase) ==
    /\ kind \in {"load", "role", "delete", "invite", "revoke", "add", "create", "default", "decide"}
    /\ kind = "role" => t = "people"
    /\ kind \in {"invite", "revoke"} => t = "invites"
    /\ kind = "add" => t = "secrets"
    /\ kind = "decide" => t = "shots"
    /\ kind = "delete" => t \in Tables
    /\ kind \in {"create", "default"} => t = "envs"
    /\ kind = "default" => to = "default"
    /\ kind = "create" /\ phase # "done" => id = Absent

IsCall(x) == Shaped(x) /\ Writing(x.kind, x.in, x.to, x.id, x.phase)

\* Whether the page of a request is there.
Flagged(x) == x.live \in BOOLEAN
Seen(x) == x.live = TRUE
Parted(x) == x.live = FALSE

\* What a request keeps while its page is there.
Same(x, y) == y.kind = x.kind /\ y.win = x.win /\ y.in = x.in /\ y.to = x.to /\ y.live = x.live

\* A request for a default environment that is between its statements.
Mid(x) == x # NoCall /\ Default(x) /\ x.phase \in {"read", "cleared"}

CallsOK == /\ calls = [c \in Calls |-> calls[c]]
           /\ \A c \in Calls : calls[c] = NoCall \/ IsCall(calls[c])

TablesOK == /\ table = [t \in Tables |-> table[t]]
            /\ table["envs"] = [i \in Ids |-> table["envs"][i]]
            /\ crossed \in BOOLEAN

\* Unless two of them overlapped, there is one at most, and when it has taken
\* the default from the other rows no other row is the default.
EnvInv == crossed = FALSE =>
    /\ \A i, j \in Ids : table["envs"][i] = "default" /\ table["envs"][j] = "default" => i = j
    /\ \A c, d \in Calls : Mid(calls[c]) /\ Mid(calls[d]) => c = d
    /\ \A c \in Calls, i \in Ids :
          Mid(calls[c]) /\ calls[c].phase = "cleared" /\ table["envs"][i] = "default" =>
              i = calls[c].id

IInv == CallsOK /\ TablesOK /\ EnvInv

-----------------------------------------------------------------------------
(* Requests *)

LEMMA CallIsThere == \A x : IsCall(x) => x # NoCall
  <1> TAKE x
  <1> HAVE IsCall(x)
  <1>1. x.kind # "none"
    BY DEF IsCall, Writing
  <1>2. NoCall.kind = "none"
    BY DEF NoCall
  <1> QED BY <1>1, <1>2

LEMMA NoneIsMid == ~Mid(NoCall)
  BY DEF Mid

\* What changes in a request while it is under way.
LEMMA CallMoves ==
  ASSUME NEW x, Shaped(x), NEW p, NEW y, y = [x EXCEPT !.phase = p]
  PROVE  /\ Shaped(y) /\ y.phase = p /\ y.id = x.id /\ y.rows = x.rows /\ Same(x, y)
         /\ y.kind = x.kind /\ y.in = x.in /\ y.to = x.to
  <1>1. Shaped(y)
    BY DEF Shaped
  <1>2. y.phase = p /\ y.id = x.id /\ y.rows = x.rows
    BY DEF Shaped
  <1>3. y.kind = x.kind /\ y.in = x.in /\ y.to = x.to
    BY DEF Shaped
  <1>4. Same(x, y)
    BY DEF Shaped, Same
  <1> QED BY <1>1, <1>2, <1>3, <1>4

LEMMA CallIsLeft ==
  ASSUME NEW x, Shaped(x), NEW l, NEW y, y = [x EXCEPT !.live = l]
  PROVE  /\ Shaped(y) /\ y.phase = x.phase /\ y.id = x.id /\ y.rows = x.rows
         /\ y.kind = x.kind /\ y.in = x.in /\ y.to = x.to /\ y.win = x.win /\ y.live = l
  <1>1. Shaped(y)
    BY DEF Shaped
  <1>2. y.phase = x.phase /\ y.id = x.id /\ y.rows = x.rows
    BY DEF Shaped
  <1>3. y.kind = x.kind /\ y.in = x.in /\ y.to = x.to
    BY DEF Shaped
  <1>4. y.win = x.win /\ y.live = l
    BY DEF Shaped
  <1> QED BY <1>1, <1>2, <1>3, <1>4

LEMMA CallLists ==
  ASSUME NEW x, Shaped(x), NEW r, NEW y, y = [x EXCEPT !.rows = r]
  PROVE  /\ Shaped(y) /\ y.phase = x.phase /\ y.id = x.id /\ y.rows = r /\ Same(x, y)
         /\ y.kind = x.kind /\ y.in = x.in /\ y.to = x.to
  <1>1. Shaped(y)
    BY DEF Shaped
  <1>2. y.phase = x.phase /\ y.id = x.id /\ y.rows = r
    BY DEF Shaped
  <1>3. y.kind = x.kind /\ y.in = x.in /\ y.to = x.to
    BY DEF Shaped
  <1>4. Same(x, y)
    BY DEF Shaped, Same
  <1> QED BY <1>1, <1>2, <1>3, <1>4

LEMMA CallGets ==
  ASSUME NEW x, Shaped(x), NEW i, NEW y, y = [x EXCEPT !.id = i]
  PROVE  /\ Shaped(y) /\ y.phase = x.phase /\ y.id = i /\ y.rows = x.rows /\ Same(x, y)
         /\ y.kind = x.kind /\ y.in = x.in /\ y.to = x.to
  <1>1. Shaped(y)
    BY DEF Shaped
  <1>2. y.phase = x.phase /\ y.id = i /\ y.rows = x.rows
    BY DEF Shaped
  <1>3. y.kind = x.kind /\ y.in = x.in /\ y.to = x.to
    BY DEF Shaped
  <1>4. Same(x, y)
    BY DEF Shaped, Same
  <1> QED BY <1>1, <1>2, <1>3, <1>4

LEMMA PartedIs == \A x : Parted(x) => Flagged(x) /\ ~Seen(x)
  BY DEF Parted, Flagged, Seen

LEMMA SameFlag == \A x, y : Same(x, y) => (Flagged(x) <=> Flagged(y)) /\ (Seen(x) <=> Seen(y))
  BY DEF Same, Flagged, Seen

\* A step that gives no default and lets no request begin to.
LEMMA Quiet ==
  ASSUME IInv, CallsOK', TablesOK', crossed' = FALSE => crossed = FALSE,
         \A i \in Ids : table'["envs"][i] = "default" => table["envs"][i] = "default",
         \A c \in Calls : Mid(calls'[c]) => /\ Mid(calls[c]) /\ calls'[c].id = calls[c].id
                                           /\ calls'[c].phase = calls[c].phase
  PROVE  IInv'
  <1>1. EnvInv'
    BY DEF IInv, EnvInv
  <1> QED BY <1>1 DEF IInv

\* One request changes.
LEMMA OneChanges ==
  ASSUME CallsOK, NEW c \in Calls, NEW x, x = NoCall \/ IsCall(x),
         calls' = [calls EXCEPT ![c] = x]
  PROVE  CallsOK' /\ calls'[c] = x /\ \A d \in Calls : d # c => calls'[d] = calls[d]
  <1>1. calls' = [d \in Calls |-> IF d = c THEN x ELSE calls[d]]
    BY DEF CallsOK
  <1>2. \A d \in Calls : calls'[d] = IF d = c THEN x ELSE calls[d]
    BY <1>1
  <1>3. calls' = [d \in Calls |-> calls'[d]]
    BY <1>1
  <1>4. \A d \in Calls : calls'[d] = NoCall \/ IsCall(calls'[d])
    BY <1>2 DEF CallsOK
  <1> QED BY <1>2, <1>3, <1>4 DEF CallsOK

LEMMA OneQuiet ==
  ASSUME IInv, NEW c \in Calls, NEW x, x = NoCall \/ IsCall(x), ~Mid(x),
         calls' = [calls EXCEPT ![c] = x], TablesOK', crossed' = FALSE => crossed = FALSE,
         \A i \in Ids : table'["envs"][i] = "default" => table["envs"][i] = "default"
  PROVE  IInv'
  <1>1. CallsOK' /\ calls'[c] = x /\ \A d \in Calls : d # c => calls'[d] = calls[d]
    BY OneChanges DEF IInv
  <1>2. \A d \in Calls : Mid(calls'[d]) => /\ Mid(calls[d]) /\ calls'[d].id = calls[d].id
                                           /\ calls'[d].phase = calls[d].phase
    BY <1>1
  <1> QED BY <1>1, <1>2, Quiet

\* The tables are left alone.
LEMMA TablesStay == ASSUME IInv, UNCHANGED <<table, crossed>>
  PROVE  /\ TablesOK' /\ (crossed' = FALSE => crossed = FALSE)
         /\ \A i \in Ids : table'["envs"][i] = "default" => table["envs"][i] = "default"
  BY DEF IInv, TablesOK

\* Another table than that of the environments is written.
LEMMA OtherTable ==
  ASSUME IInv, NEW t \in Tables, t # "envs", NEW rows, table' = [table EXCEPT ![t] = rows],
         UNCHANGED crossed
  PROVE  /\ TablesOK' /\ (crossed' = FALSE => crossed = FALSE)
         /\ \A i \in Ids : table'["envs"][i] = "default" => table["envs"][i] = "default"
  <1>1. table' = [u \in Tables |-> IF u = t THEN rows ELSE table[u]]
    BY DEF IInv, TablesOK
  <1>2. table'["envs"] = table["envs"]
    BY <1>1 DEF Tables
  <1>3. table' = [u \in Tables |-> table'[u]]
    BY <1>1
  <1> QED BY <1>2, <1>3 DEF IInv, TablesOK

\* The table of the environments is written.
LEMMA EnvTable ==
  ASSUME IInv, NEW rows, rows = [i \in Ids |-> rows[i]], table' = [table EXCEPT !["envs"] = rows],
         crossed' \in BOOLEAN
  PROVE  TablesOK' /\ table'["envs"] = rows
  <1>1. table' = [u \in Tables |-> IF u = "envs" THEN rows ELSE table[u]]
    BY DEF IInv, TablesOK
  <1>2. table'["envs"] = rows
    BY <1>1 DEF Tables
  <1>3. table' = [u \in Tables |-> table'[u]]
    BY <1>1
  <1>4. table'["envs"] = [i \in Ids |-> table'["envs"][i]]
    BY <1>2
  <1> QED BY <1>2, <1>3, <1>4 DEF TablesOK

LEMMA InitHolds == Init => IInv
  <1> SUFFICES ASSUME Init PROVE IInv
    OBVIOUS
  <1>1. PICK s \in Sessions : table = s.tables
    BY DEF Init
  <1>2. "envs" \in Tables
    BY DEF Tables
  <1>3. TablesOK
    BY <1>1, <1>2, SessionAssumption DEF Init, TablesOK, Rows
  <1>4. CallsOK
    BY DEF Init, CallsOK
  <1>5. \A c \in Calls : ~Mid(calls[c])
    BY NoneIsMid DEF Init
  <1>6. EnvInv
    BY <1>1, <1>5, SessionAssumption DEF EnvInv
  <1> QED BY <1>3, <1>4, <1>6 DEF IInv

-----------------------------------------------------------------------------
(* The pages *)

LEMMA NewCall ==
  ASSUME NEW kind, NEW w, NEW t, NEW i, NEW to, Writing(kind, t, to, i, "sent")
  PROVE  IsCall(Call(kind, w, t, i, to)) /\ ~Mid(Call(kind, w, t, i, to))
  <1> DEFINE x == Call(kind, w, t, i, to)
  <1>1. x.phase = "sent" /\ IsCall(x)
    BY DEF Call, IsCall, Shaped
  <1> QED BY <1>1 DEF Mid

LEMMA SendKeeps ==
  ASSUME IInv, NEW x, IsCall(x), ~Mid(x), Send(x)
  PROVE  IInv'
  <1>1. PICK c \in Calls : calls' = [calls EXCEPT ![c] = x]
    BY DEF Send
  <1>2. UNCHANGED <<table, crossed>>
    BY DEF Send
  <1> QED BY <1>1, <1>2, TablesStay, OneQuiet

\* A page is opened: the requests of the one before are left, a load is sent.
LEMMA VisitStep == ASSUME IInv, NEW w \in Windows, NEW p \in Pages, Visit(w, p) PROVE IInv'
  <1> DEFINE left == [c \in Calls |-> IF calls[c] # NoCall /\ calls[c].win = w
                                       THEN [calls[c] EXCEPT !.live = FALSE] ELSE calls[c]]
             load == Call("load", w, Absent, Absent, "pending_review")
  <1>1. PICK b \in Calls : calls' = [left EXCEPT ![b] = load]
    BY DEF Visit
  <1>2. IsCall(load) /\ ~Mid(load)
    BY NewCall DEF Writing
  <1>3. \A c \in Calls : /\ left[c] = NoCall \/ IsCall(left[c])
                         /\ Mid(left[c]) => /\ Mid(calls[c]) /\ left[c].id = calls[c].id
                                            /\ left[c].phase = calls[c].phase
    <2> TAKE c \in Calls
    <2>1. CASE calls[c] # NoCall /\ calls[c].win = w
      <3>1. PICK old : old = calls[c]
        OBVIOUS
      <3>2. IsCall(old) /\ Shaped(old)
        BY <2>1, <3>1 DEF IInv, CallsOK, IsCall
      <3>3. PICK new : new = [old EXCEPT !.live = FALSE]
        OBVIOUS
      <3>4. /\ Shaped(new) /\ new.phase = old.phase /\ new.id = old.id
            /\ new.kind = old.kind /\ new.in = old.in /\ new.to = old.to
        BY <3>2, <3>3, CallIsLeft
      <3>5. left[c] = new
        BY <2>1, <3>1, <3>3, Zenon
      <3>6. IsCall(new)
        BY <3>2, <3>4 DEF IsCall
      <3>7. Mid(new) => Mid(old)
        BY <2>1, <3>1, <3>4 DEF Mid, Default
      <3> HIDE DEF left
      <3> QED BY <3>1, <3>4, <3>5, <3>6, <3>7
    <2>2. CASE ~(calls[c] # NoCall /\ calls[c].win = w)
      <3>1. left[c] = calls[c]
        BY <2>2
      <3> HIDE DEF left
      <3> QED BY <3>1 DEF IInv, CallsOK
    <2> QED BY <2>1, <2>2
  <1>4. left = [c \in Calls |-> left[c]]
    OBVIOUS
  <1> HIDE DEF left, load
  <1>5. calls' = [c \in Calls |-> IF c = b THEN load ELSE left[c]]
    BY <1>1, <1>4
  <1>6. \A c \in Calls : calls'[c] = IF c = b THEN load ELSE left[c]
    BY <1>5
  <1>7. calls' = [c \in Calls |-> calls'[c]]
    BY <1>5
  <1>8. \A c \in Calls : calls'[c] = NoCall \/ IsCall(calls'[c])
    BY <1>2, <1>3, <1>6
  <1>9. CallsOK'
    BY <1>7, <1>8 DEF CallsOK
  <1>10. \A c \in Calls : Mid(calls'[c]) => /\ Mid(calls[c]) /\ calls'[c].id = calls[c].id
                                            /\ calls'[c].phase = calls[c].phase
    BY <1>2, <1>3, <1>6
  <1>11. UNCHANGED <<table, crossed>>
    BY DEF Visit
  <1> QED BY <1>9, <1>10, <1>11, TablesStay, Quiet

\* Every other request of a page.
LEMMA ClickStep ==
  ASSUME IInv, NEW w, NEW i, NEW tab, NEW k, NEW r, NEW e, NEW d,
         \/ SelectTab(w, tab) \/ Invite(w) \/ InviteToTeam(w) \/ AddSecret(w, k)
         \/ CreateEnvironment(w, e) \/ ChangeRole(w, i, r) \/ RemoveMember(w, i)
         \/ RemoveFromTeam(w, i) \/ Revoke(w, i) \/ DeleteSecret(w, i) \/ SetDefault(w, i)
         \/ DeleteEnvironment(w, i) \/ Decide(w, i, d)
  PROVE  IInv'
  <1>1. CASE SelectTab(w, tab)
    <2>1. Writing("load", Absent, tab, Absent, "sent")
      BY DEF Writing
    <2> QED BY <1>1, <2>1, NewCall, SendKeeps DEF SelectTab
  <1>2. CASE Invite(w) \/ InviteToTeam(w)
    <2>1. Writing("invite", "invites", "pending", Absent, "sent")
      BY DEF Writing
    <2> QED BY <1>2, <2>1, NewCall, SendKeeps DEF Invite, InviteToTeam
  <1>3. CASE AddSecret(w, k)
    <2>1. Writing("add", "secrets", k, Absent, "sent")
      BY DEF Writing
    <2> QED BY <1>3, <2>1, NewCall, SendKeeps DEF AddSecret
  <1>4. CASE CreateEnvironment(w, e)
    <2>1. Writing("create", "envs", e, Absent, "sent")
      BY DEF Writing
    <2> QED BY <1>4, <2>1, NewCall, SendKeeps DEF CreateEnvironment
  <1>5. CASE ChangeRole(w, i, r)
    <2>1. Writing("role", "people", r, i, "sent")
      BY DEF Writing
    <2> QED BY <1>5, <2>1, NewCall, SendKeeps DEF ChangeRole
  <1>6. CASE \/ RemoveMember(w, i) \/ RemoveFromTeam(w, i) \/ DeleteSecret(w, i)
             \/ DeleteEnvironment(w, i)
    <2>1. \A t \in {"people", "secrets", "envs"} : Writing("delete", t, Absent, i, "sent")
      BY DEF Writing, Tables
    <2> QED BY <1>6, <2>1, NewCall, SendKeeps
            DEF RemoveMember, RemoveFromTeam, DeleteSecret, DeleteEnvironment
  <1>7. CASE Revoke(w, i)
    <2>1. Writing("revoke", "invites", Absent, i, "sent")
      BY DEF Writing
    <2> QED BY <1>7, <2>1, NewCall, SendKeeps DEF Revoke
  <1>8. CASE SetDefault(w, i)
    <2>1. Writing("default", "envs", "default", i, "sent")
      BY DEF Writing
    <2> QED BY <1>8, <2>1, NewCall, SendKeeps DEF SetDefault
  <1>9. CASE Decide(w, i, d)
    <2>1. Writing("decide", "shots", d, i, "sent")
      BY DEF Writing
    <2> QED BY <1>9, <2>1, NewCall, SendKeeps DEF Decide
  <1> QED BY <1>1, <1>2, <1>3, <1>4, <1>5, <1>6, <1>7, <1>8, <1>9

-----------------------------------------------------------------------------
(* The API and the answers *)

\* A request moves to a phase in which it is not between two statements.
LEMMA Becoming ==
  ASSUME IInv, NEW c \in Calls, calls[c] # NoCall, NEW p, Becomes(c, p),
         calls[c].phase # "done"
  PROVE  \E x : /\ IsCall(x) /\ x.phase = p /\ x.kind = calls[c].kind /\ x.in = calls[c].in
                /\ x.id = calls[c].id /\ x.to = calls[c].to
                /\ Same(calls[c], x) /\ x.rows = calls[c].rows
                /\ calls' = [calls EXCEPT ![c] = x]
  <1>1. PICK old : old = calls[c]
    OBVIOUS
  <1>2. IsCall(old) /\ Shaped(old)
    BY <1>1 DEF IInv, CallsOK, IsCall
  <1>3. PICK x : x = [old EXCEPT !.phase = p]
    OBVIOUS
  <1>4. /\ Shaped(x) /\ x.phase = p /\ x.id = old.id /\ x.rows = old.rows /\ Same(old, x)
        /\ x.kind = old.kind /\ x.in = old.in /\ x.to = old.to
    BY <1>2, <1>3, CallMoves
  <1>5. Writing(old.kind, old.in, old.to, old.id, p)
    BY <1>1, <1>2 DEF IsCall, Writing
  <1>6. IsCall(x)
    BY <1>4, <1>5 DEF IsCall
  <1>7. calls' = [calls EXCEPT ![c] = x]
    BY <1>1, <1>3, Zenon DEF Becomes
  <1> QED BY <1>1, <1>4, <1>6, <1>7

\* A request that was answered is forgotten.
LEMMA AnsweredKeeps == ASSUME IInv, NEW c \in Calls, Answered(c), UNCHANGED <<table, crossed>>
  PROVE IInv'
  BY NoneIsMid, TablesStay, OneQuiet DEF Answered

LEMMA AnswerStep ==
  ASSUME IInv, NEW c \in Calls,
         \/ LoadArrives(c) \/ RoleArrives(c) \/ DropArrives(c) \/ DecideArrives(c)
         \/ InviteArrives(c) \/ CreateArrives(c) \/ DefaultArrives(c) \/ Refused(c) \/ Fails(c)
  PROVE  IInv'
  <1>1. Answered(c) /\ UNCHANGED <<table, crossed>>
    BY DEF LoadArrives, RoleArrives, DropArrives, DecideArrives, InviteArrives, CreateArrives,
           DefaultArrives, Refused, Fails, Told
  <1> QED BY <1>1, AnsweredKeeps

LEMMA AddArrivesStep == ASSUME IInv, NEW c \in Calls, AddArrives(c) PROVE IInv'
  <1>1. CASE calls[c].live
    <2> DEFINE load == Call("load", calls[c].win, Absent, Absent, Mine(c).tab)
    <2>1. IsCall(load) /\ ~Mid(load)
      BY NewCall DEF Writing
    <2>2. calls' = [calls EXCEPT ![c] = load] /\ UNCHANGED <<table, crossed>>
      BY <1>1 DEF AddArrives
    <2> QED BY <2>1, <2>2, TablesStay, OneQuiet
  <1>2. CASE ~calls[c].live
    BY <1>2, AnsweredKeeps DEF AddArrives
  <1> QED BY <1>1, <1>2

\* The lists that a load reads.
Reads(c) == [t \in Tables |-> IF calls[c].live /\ t \in Shows(page[calls[c].win].kind)
                              THEN Listed(t, calls[c].to) ELSE None[t]]

LEMMA ReadLoadDoes ==
  ASSUME CallsOK, NEW c \in Calls, ReadLoad(c)
  PROVE  \E y : /\ IsCall(y) /\ ~Mid(y) /\ Same(calls[c], y) /\ y.phase = "done"
                /\ y.id = calls[c].id /\ y.rows = Reads(c) /\ calls' = [calls EXCEPT ![c] = y]
  <1>1. PICK old : old = calls[c]
    OBVIOUS
  <1>2. IsCall(old) /\ Shaped(old) /\ old.kind = "load"
    BY <1>1 DEF ReadLoad, Is, CallsOK, IsCall
  <1>3. PICK x : x = [old EXCEPT !.phase = "done"]
    OBVIOUS
  <1>4. /\ Shaped(x) /\ x.phase = "done" /\ x.id = old.id /\ Same(old, x)
        /\ x.kind = "load" /\ x.in = old.in /\ x.to = old.to
    BY <1>2, <1>3, CallMoves
  <1>5. PICK lists : lists = Reads(c)
    OBVIOUS
  <1>6. calls' = [calls EXCEPT ![c] = [x EXCEPT !.rows = lists]]
    BY <1>1, <1>3, <1>5, Zenon DEF ReadLoad, Reads
  <1>7. PICK y : y = [x EXCEPT !.rows = lists]
    OBVIOUS
  <1>8. /\ Shaped(y) /\ y.kind = "load" /\ y.phase = "done" /\ y.id = old.id /\ y.rows = lists
        /\ Same(x, y) /\ y.in = x.in /\ y.to = x.to
    BY <1>4, <1>7, CallLists
  <1>9. IsCall(y) /\ ~Mid(y)
    BY <1>8 DEF IsCall, Writing, Mid, Default
  <1>10. calls' = [calls EXCEPT ![c] = y] /\ Same(old, y)
    BY <1>4, <1>6, <1>7, <1>8 DEF Same
  <1> QED BY <1>1, <1>5, <1>8, <1>9, <1>10

LEMMA ReadLoadStep == ASSUME IInv, NEW c \in Calls, ReadLoad(c) PROVE IInv'
  <1>1. UNCHANGED <<table, crossed>>
    BY DEF ReadLoad
  <1> QED BY <1>1, ReadLoadDoes, TablesStay, OneQuiet DEF IInv

\* A handler that writes another table is done, or was refused.
LEMMA OtherWritten ==
  ASSUME IInv, NEW c \in Calls, calls[c] # NoCall, calls[c].phase # "done", NEW p,
         p \in {"done", "refused", "checked"}, Becomes(c, p), UNCHANGED crossed,
         \/ UNCHANGED table
         \/ \E t \in Tables \ {"envs"} : \E rows : table' = [table EXCEPT ![t] = rows]
  PROVE  IInv'
  <1>1. PICK x : IsCall(x) /\ x.phase = p /\ calls' = [calls EXCEPT ![c] = x]
    BY Becoming
  <1>2. ~Mid(x)
    BY <1>1 DEF Mid
  <1>3. /\ TablesOK' /\ (crossed' = FALSE => crossed = FALSE)
        /\ \A i \in Ids : table'["envs"][i] = "default" => table["envs"][i] = "default"
    BY OtherTable, TablesStay
  <1> QED BY <1>1, <1>2, <1>3, OneQuiet

LEMMA UpdateStep == ASSUME IInv, NEW c \in Calls, Update(c) PROVE IInv'
  <1>1. /\ calls[c] # NoCall /\ calls[c].phase # "done" /\ crossed' = crossed
        /\ calls[c].in \in Tables \ {"envs"}
    BY DEF Update, Is, IInv, CallsOK, IsCall, Writing, Tables
  <1>2. CASE Row(c) = Absent
    BY <1>1, <1>2, OtherWritten DEF Update
  <1>3. CASE Row(c) # Absent
    <2>1. Becomes(c, "done") /\ \E rows : table' = [table EXCEPT ![calls[c].in] = rows]
      BY <1>3 DEF Update, Writes
    <2> QED BY <1>1, <2>1, OtherWritten
  <1> QED BY <1>2, <1>3

LEMMA RevokeStep == ASSUME IInv, NEW c \in Calls, RevokeInvitation(c) PROVE IInv'
  <1>1. /\ calls[c] # NoCall /\ calls[c].phase # "done" /\ crossed' = crossed
        /\ calls[c].in \in Tables \ {"envs"}
    BY DEF RevokeInvitation, Is, IInv, CallsOK, IsCall, Writing, Tables
  <1>2. Becomes(c, "done") /\ \E rows : table' = [table EXCEPT ![calls[c].in] = rows]
    BY DEF RevokeInvitation, Writes
  <1> QED BY <1>1, <1>2, OtherWritten

LEMMA CheckSecretStep == ASSUME IInv, NEW c \in Calls, CheckSecret(c) PROVE IInv'
  <1>1. calls[c] # NoCall /\ calls[c].phase # "done" /\ UNCHANGED <<table, crossed>>
    BY DEF CheckSecret, Is
  <1>2. Becomes(c, "refused") \/ Becomes(c, "checked")
    BY DEF CheckSecret
  <1> QED BY <1>1, <1>2, OtherWritten

LEMMA DeleteStep == ASSUME IInv, NEW c \in Calls, Delete(c) PROVE IInv'
  <1>1. /\ calls[c] # NoCall /\ calls[c].phase # "done" /\ crossed' = crossed
        /\ calls[c].in \in Tables
    BY DEF Delete, Is, IInv, CallsOK, IsCall, Writing
  <1>2. CASE Row(c) = Absent
    BY <1>1, <1>2, OtherWritten DEF Delete
  <1>3. CASE Row(c) # Absent /\ calls[c].in # "envs"
    <2>1. Becomes(c, "done") /\ \E rows : table' = [table EXCEPT ![calls[c].in] = rows]
      BY <1>3 DEF Delete, Writes
    <2> QED BY <1>1, <1>3, <2>1, OtherWritten
  <1>4. CASE Row(c) # Absent /\ calls[c].in = "envs"
    <2> DEFINE rows == [table["envs"] EXCEPT ![calls[c].id] = Absent]
    <2>1. Becomes(c, "done") /\ table' = [table EXCEPT !["envs"] = rows]
      BY <1>4 DEF Delete, Writes, Put
    <2>2. /\ rows = [i \in Ids |-> rows[i]]
          /\ \A i \in Ids : rows[i] = IF i = calls[c].id THEN Absent ELSE table["envs"][i]
      BY DEF IInv, TablesOK
    <2> HIDE DEF rows
    <2>3. TablesOK' /\ table'["envs"] = rows
      BY <1>1, <2>1, <2>2, EnvTable DEF IInv, TablesOK
    <2>4. Absent # "default"
      BY AbsentAssumption DEF Tables, Values
    <2>5. PICK x : IsCall(x) /\ x.phase = "done" /\ calls' = [calls EXCEPT ![c] = x]
      BY <1>1, <2>1, Becoming
    <2>6. ~Mid(x)
      BY <2>5 DEF Mid
    <2> QED BY <1>1, <2>2, <2>3, <2>4, <2>5, <2>6, OneQuiet
  <1> QED BY <1>2, <1>3, <1>4

\* A row is inserted.
LEMMA Inserting ==
  ASSUME IInv, NEW c \in Calls, calls[c] # NoCall, NEW i, Insert(c, i)
  PROVE  \E x : /\ IsCall(x) /\ ~Mid(x) /\ Same(calls[c], x) /\ x.rows = calls[c].rows
                /\ x.phase = "done" /\ x.id = i /\ calls' = [calls EXCEPT ![c] = x]
  <1>1. PICK old : old = calls[c]
    OBVIOUS
  <1>2. IsCall(old) /\ Shaped(old)
    BY <1>1 DEF IInv, CallsOK, IsCall
  <1>3. PICK x : x = [old EXCEPT !.phase = "done"]
    OBVIOUS
  <1>4. /\ Shaped(x) /\ x.phase = "done" /\ x.rows = old.rows /\ Same(old, x)
        /\ x.kind = old.kind /\ x.in = old.in /\ x.to = old.to
    BY <1>2, <1>3, CallMoves
  <1>5. PICK y : y = [x EXCEPT !.id = i]
    OBVIOUS
  <1>6. /\ Shaped(y) /\ y.phase = x.phase /\ y.id = i /\ y.rows = x.rows /\ Same(x, y)
        /\ y.kind = x.kind /\ y.in = x.in /\ y.to = x.to
    BY <1>4, <1>5, CallGets
  <1>7. IsCall(y) /\ ~Mid(y)
    BY <1>2, <1>4, <1>6 DEF IsCall, Writing, Mid
  <1>8. Same(old, y)
    BY <1>4, <1>6 DEF Same
  <1>9. calls' = [calls EXCEPT ![c] = y]
    BY <1>1, <1>3, <1>5, Zenon DEF Insert
  <1> QED BY <1>1, <1>4, <1>6, <1>7, <1>8, <1>9

LEMMA OtherInserted ==
  ASSUME IInv, NEW c \in Calls, calls[c] # NoCall, calls[c].in \in Tables \ {"envs"},
         NEW i, Insert(c, i), UNCHANGED crossed
  PROVE  IInv'
  <1>1. \E rows : table' = [table EXCEPT ![calls[c].in] = rows]
    BY DEF Insert, Writes
  <1> QED BY <1>1, Inserting, OtherTable, OneQuiet

LEMMA CreateInvitationStep == ASSUME IInv, NEW c \in Calls, CreateInvitation(c) PROVE IInv'
  <1>1. calls[c] # NoCall /\ calls[c].in \in Tables \ {"envs"} /\ crossed' = crossed
    BY DEF CreateInvitation, Is, IInv, CallsOK, IsCall, Writing, Tables
  <1> QED BY <1>1, OtherInserted DEF CreateInvitation

LEMMA InsertSecretStep == ASSUME IInv, NEW c \in Calls, InsertSecret(c) PROVE IInv'
  <1>1. /\ calls[c] # NoCall /\ calls[c].in \in Tables \ {"envs"} /\ crossed' = crossed
        /\ calls[c].phase # "done"
    BY DEF InsertSecret, Is, IInv, CallsOK, IsCall, Writing, Tables
  <1>2. CASE Taken(calls[c].to)
    BY <1>1, <1>2, OtherWritten DEF InsertSecret
  <1>3. CASE ~Taken(calls[c].to)
    BY <1>1, <1>3, OtherInserted DEF InsertSecret
  <1> QED BY <1>2, <1>3

LEMMA AcceptStep == ASSUME IInv, NEW i \in Ids, Accept(i) PROVE IInv'
  <1>1. \E rows : table' = [table EXCEPT !["invites"] = rows]
    BY DEF Accept
  <1>2. "invites" \in Tables /\ UNCHANGED <<calls, crossed>>
    BY DEF Accept, Tables
  <1>3. CallsOK'
    BY <1>2 DEF IInv, CallsOK
  <1> QED BY <1>1, <1>2, <1>3, OtherTable, Quiet

\* A request that begins is alone, or it is noted.
LEMMA ReadEnvironmentStep == ASSUME IInv, NEW c \in Calls, ReadEnvironment(c) PROVE IInv'
  <1>1. calls[c] # NoCall /\ calls[c].phase = "sent" /\ UNCHANGED table
    BY DEF ReadEnvironment, Is
  <1>2. PICK p \in {"refused", "read"} : Becomes(c, p)
    BY DEF ReadEnvironment
  <1>3. PICK x : IsCall(x) /\ x.phase = p /\ calls' = [calls EXCEPT ![c] = x]
    BY <1>1, <1>2, Becoming
  <1>4. CallsOK' /\ calls'[c] = x /\ \A d \in Calls : d # c => calls'[d] = calls[d]
    BY <1>3, OneChanges DEF IInv
  <1>5. TablesOK'
    BY <1>1 DEF ReadEnvironment, IInv, TablesOK
  <1>6. crossed' = FALSE => crossed = FALSE /\ \A d \in Calls : ~Mid(calls[d])
    BY DEF ReadEnvironment, IInv, TablesOK, Midway, Mid
  <1>7. crossed' = FALSE => \A d \in Calls : Mid(calls'[d]) => d = c /\ calls'[d].phase # "cleared"
    BY <1>3, <1>4, <1>6
  <1>8. EnvInv'
    BY <1>1, <1>6, <1>7 DEF IInv, EnvInv
  <1> QED BY <1>4, <1>5, <1>8 DEF IInv

LEMMA ClearDefaultStep == ASSUME IInv, NEW c \in Calls, ClearDefault(c) PROVE IInv'
  <1>1. /\ calls[c] # NoCall /\ calls[c].phase # "done" /\ calls[c].in = "envs"
        /\ Becomes(c, "cleared") /\ table' = [table EXCEPT !["envs"] = NoDefault(calls[c].id)]
        /\ crossed' = (crossed \/ Midway \ {c} # {})
    BY DEF ClearDefault, Is, Writes, IInv, CallsOK, IsCall, Writing
  <1>2. PICK x : /\ IsCall(x) /\ x.phase = "cleared" /\ x.id = calls[c].id
                 /\ calls' = [calls EXCEPT ![c] = x]
    BY <1>1, Becoming
  <1>3. CallsOK' /\ calls'[c] = x /\ \A d \in Calls : d # c => calls'[d] = calls[d]
    BY <1>2, OneChanges DEF IInv
  <1>4. NoDefault(calls[c].id) = [i \in Ids |-> NoDefault(calls[c].id)[i]]
    BY DEF NoDefault
  <1>5. TablesOK' /\ table'["envs"] = NoDefault(calls[c].id)
    BY <1>1, <1>4, EnvTable DEF IInv, TablesOK
  <1>6. \A i \in Ids : table'["envs"][i] = "default" => i = calls[c].id
    BY <1>5 DEF NoDefault
  <1>7. crossed' = FALSE => \A d \in Calls : Mid(calls'[d]) => d = c
    BY <1>1, <1>3 DEF IInv, TablesOK, Midway, Mid
  <1>8. EnvInv'
    BY <1>2, <1>3, <1>6, <1>7 DEF EnvInv
  <1> QED BY <1>3, <1>5, <1>8 DEF IInv

\* The second statement: what this request took from the others it gives to one.
LEMMA GiveDefaultStep == ASSUME IInv, NEW c \in Calls, GiveDefault(c) PROVE IInv'
  <1>1. /\ calls[c] # NoCall /\ calls[c].phase = "cleared" /\ calls[c].kind = "default"
        /\ calls[c].in = "envs" /\ crossed' = crossed
    BY DEF GiveDefault, Is, IInv, CallsOK, IsCall, Writing
  <1>2. CASE Row(c) = Absent
    BY <1>1, <1>2, OtherWritten DEF GiveDefault
  <1>3. CASE Row(c) # Absent
    <2> DEFINE rows == [table["envs"] EXCEPT ![calls[c].id] = "default"]
    <2>1. Becomes(c, "done") /\ table' = [table EXCEPT !["envs"] = rows]
      BY <1>1, <1>3 DEF GiveDefault, Writes, Put
    <2>2. /\ rows = [i \in Ids |-> rows[i]]
          /\ \A i \in Ids : rows[i] = IF i = calls[c].id THEN "default" ELSE table["envs"][i]
      BY DEF IInv, TablesOK
    <2> HIDE DEF rows
    <2>3. TablesOK' /\ table'["envs"] = rows
      BY <1>1, <2>1, <2>2, EnvTable DEF IInv, TablesOK
    <2>4. PICK x : IsCall(x) /\ x.phase = "done" /\ calls' = [calls EXCEPT ![c] = x]
      BY <1>1, <2>1, Becoming
    <2>5. CallsOK' /\ calls'[c] = x /\ \A d \in Calls : d # c => calls'[d] = calls[d]
      BY <2>4, OneChanges DEF IInv
    <2>6. \A d \in Calls : Mid(calls'[d]) => d # c /\ Mid(calls[d])
      BY <2>4, <2>5 DEF Mid
    <2>7. Mid(calls[c])
      BY <1>1 DEF Mid, Default, IInv, CallsOK, IsCall, Writing
    <2>8. crossed = FALSE => /\ \A i \in Ids : table["envs"][i] = "default" => i = calls[c].id
                             /\ \A d \in Calls : ~Mid(calls'[d])
      BY <1>1, <2>6, <2>7 DEF IInv, EnvInv
    <2>9. EnvInv'
      BY <1>1, <2>2, <2>3, <2>8 DEF EnvInv
    <2> QED BY <2>3, <2>5, <2>9 DEF IInv
  <1> QED BY <1>2, <1>3

LEMMA InsertEnvironmentStep == ASSUME IInv, NEW c \in Calls, InsertEnvironment(c) PROVE IInv'
  <1>1. /\ calls[c] # NoCall /\ calls[c].kind = "create" /\ calls[c].phase \in {"sent", "cleared"}
        /\ calls[c].phase = "sent" => calls[c].to # "default"
        /\ calls[c].in = "envs" /\ calls[c].id = Absent /\ crossed' = crossed
    BY DEF InsertEnvironment, Is, Default, IInv, CallsOK, IsCall, Writing
  <1>2. PICK i \in Ids : Insert(c, i)
    BY DEF InsertEnvironment, New
  <1> DEFINE rows == [table["envs"] EXCEPT ![i] = calls[c].to]
  <1>3. table' = [table EXCEPT !["envs"] = rows]
    BY <1>1, <1>2 DEF Insert, Writes
  <1>4. /\ rows = [j \in Ids |-> rows[j]]
        /\ \A j \in Ids : rows[j] = IF j = i THEN calls[c].to ELSE table["envs"][j]
    BY DEF IInv, TablesOK
  <1> HIDE DEF rows
  <1>5. TablesOK' /\ table'["envs"] = rows
    BY <1>1, <1>3, <1>4, EnvTable DEF IInv, TablesOK
  <1>6. PICK x : IsCall(x) /\ ~Mid(x) /\ calls' = [calls EXCEPT ![c] = x]
    BY <1>1, <1>2, Inserting
  <1>7. CASE calls[c].to # "default"
    <2>1. \A j \in Ids : table'["envs"][j] = "default" => table["envs"][j] = "default"
      BY <1>4, <1>5, <1>7
    <2> QED BY <1>1, <1>5, <1>6, <2>1, OneQuiet
  <1>8. CASE calls[c].to = "default"
    <2>1. Mid(calls[c]) /\ calls[c].phase = "cleared"
      BY <1>1, <1>8 DEF Mid, Default
    <2>2. CallsOK' /\ calls'[c] = x /\ \A d \in Calls : d # c => calls'[d] = calls[d]
      BY <1>6, OneChanges DEF IInv
    <2>3. crossed = FALSE => \A j \in Ids : table["envs"][j] # "default"
      BY <1>1, <2>1, AbsentAssumption DEF IInv, EnvInv
    <2>4. crossed = FALSE => \A d \in Calls : ~Mid(calls'[d])
      BY <1>6, <2>1, <2>2 DEF IInv, EnvInv
    <2>5. EnvInv'
      BY <1>1, <1>4, <1>5, <2>3, <2>4 DEF EnvInv
    <2> QED BY <1>5, <2>2, <2>5 DEF IInv
  <1> QED BY <1>7, <1>8

LEMMA StepKeeps == ASSUME IInv, [Next]_vars PROVE IInv'
  <1>1. CASE UNCHANGED vars
    <2>1. CallsOK' /\ UNCHANGED <<table, calls, crossed>>
      BY <1>1 DEF vars, IInv, CallsOK
    <2> QED BY <2>1, TablesStay, Quiet
  <1>2. ASSUME NEW w \in Windows, NEW p \in Pages, Visit(w, p) PROVE IInv'
    BY <1>2, VisitStep
  <1>3. ASSUME NEW w \in Windows,
               \/ \E tab \in Tabs : SelectTab(w, tab)
               \/ Invite(w) \/ InviteToTeam(w)
               \/ \E k \in Keys : AddSecret(w, k)
               \/ \E d \in Values("envs") : CreateEnvironment(w, d)
        PROVE  IInv'
    BY <1>3, ClickStep
  <1>4. ASSUME NEW w \in Windows, NEW i \in Ids,
               \/ \E r \in Roles : ChangeRole(w, i, r)
               \/ RemoveMember(w, i) \/ RemoveFromTeam(w, i) \/ Revoke(w, i) \/ DeleteSecret(w, i)
               \/ SetDefault(w, i) \/ DeleteEnvironment(w, i)
               \/ \E d \in Decisions : Decide(w, i, d)
        PROVE  IInv'
    BY <1>4, ClickStep
  <1>5. ASSUME NEW c \in Calls,
               \/ ReadLoad(c) \/ Update(c) \/ Delete(c) \/ CreateInvitation(c)
               \/ RevokeInvitation(c) \/ CheckSecret(c) \/ InsertSecret(c) \/ ReadEnvironment(c)
               \/ ClearDefault(c) \/ GiveDefault(c) \/ InsertEnvironment(c)
        PROVE  IInv'
    BY <1>5, ReadLoadStep, UpdateStep, DeleteStep, CreateInvitationStep, RevokeStep,
       CheckSecretStep, InsertSecretStep, ReadEnvironmentStep, ClearDefaultStep,
       GiveDefaultStep, InsertEnvironmentStep
  <1>6. ASSUME NEW c \in Calls,
               \/ LoadArrives(c) \/ RoleArrives(c) \/ DropArrives(c) \/ DecideArrives(c)
               \/ InviteArrives(c) \/ AddArrives(c) \/ CreateArrives(c) \/ DefaultArrives(c)
               \/ Refused(c) \/ Fails(c)
        PROVE  IInv'
    BY <1>6, AddArrivesStep, AnswerStep
  <1>7. ASSUME NEW i \in Ids, Accept(i) PROVE IInv'
    BY <1>7, AcceptStep
  <1> QED BY <1>1, <1>2, <1>3, <1>4, <1>5, <1>6, <1>7 DEF Next

\* A set without two members has one at most.
LEMMA OneAtMost == ASSUME NEW S, \A i, j \in S : i = j PROVE Cardinality(S) <= 1
  <1>1. CASE S = {}
    BY <1>1, FS_EmptySet
  <1>2. CASE S # {}
    <2>1. PICK i \in S : TRUE
      BY <1>2
    <2>2. \A j \in S : j = i
      BY <2>1
    <2>3. S = {i}
      BY <2>1, <2>2, Zenon
    <2>4. Cardinality({i}) = 1
      BY FS_Singleton
    <2> QED BY <2>3, <2>4
  <1> QED BY <1>1, <1>2

\* A project has one default environment at most, through every mixture of
\* creations, deletions and changes of the default in which no two requests
\* were between their two statements at once: environments.py.
THEOREM DefaultStaysOne == Spec => []OneDefault
  <1>1. Init => IInv
    BY InitHolds
  <1>2. IInv /\ [Next]_vars => IInv'
    BY StepKeeps
  <1>3. IInv => OneDefault
    <2> SUFFICES ASSUME IInv, crossed = FALSE
                 PROVE  Cardinality({i \in Ids : table["envs"][i] = "default"}) <= 1
      BY DEF IInv, TablesOK, OneDefault
    <2> QED BY OneAtMost DEF IInv, EnvInv
  <1> QED BY <1>1, <1>2, <1>3, PTL DEF Spec

-----------------------------------------------------------------------------
(* What the pages show *)

Adds == {"invite", "add", "create"}
Drops == {"delete", "revoke", "decide"}
Phases == {"sent", "read", "checked", "cleared", "done", "refused"}

Cells == {Absent} \cup UNION {Values(t) : t \in Tables}
Lists == {r \in [Tables -> [Ids -> Cells]] : \A t \in Tables : r[t] \in Rows(t)}
PageType == [kind: Pages \cup {"none"}, shown: BOOLEAN, rows: Lists, tab: Tabs,
             busy: BOOLEAN, acting: Ids \cup {Absent}]

OneSecretEach == \A i, j \in Ids :
    i # j => table["secrets"][i] # table["secrets"][j] \/ table["secrets"][i] = Absent
PlainOK == table \in Lists /\ OneSecretEach /\ apart \subseteq Windows
PagesOK == page \in [Windows -> PageType]

\* What a request carries, and its answer.
Carries(x) ==
    /\ x.win \in Windows /\ Flagged(x) /\ x.rows \in Lists /\ x.phase \in Phases
    /\ x.id \in Ids \cup {Absent}
    /\ x.kind \in {"role", "delete", "revoke", "default", "decide"} => x.id \in Ids
    /\ x.kind \in Adds /\ x.phase = "done" => x.id \in Ids
    /\ x.kind \in Adds /\ x.phase # "done" => x.id = Absent
    /\ x.kind = "load" => x.phase \in {"sent", "done"} /\ x.to \in Tabs
    /\ x.kind = "role" => x.to \in Roles
    /\ x.kind = "decide" => x.to \in Decisions
    /\ x.kind = "invite" => x.to = "pending"
    /\ x.kind = "add" => x.to \in Keys
    /\ x.kind = "create" => x.to \in Values("envs")
    /\ x.kind = "delete" => x.in \in {"people", "secrets", "envs"}
CarryOK == \A c \in Calls : calls[c] # NoCall => Carries(calls[c])

TypesOK == PlainOK /\ PagesOK /\ CarryOK

\* A request of the page a window shows, and one whose write was done.
Of(c, w) == calls[c] # NoCall /\ calls[c].win = w /\ Seen(calls[c])
Did(c, w, kind, t, i) ==
    /\ Of(c, w) /\ calls[c].kind = kind /\ calls[c].phase = "done"
    /\ calls[c].in = t /\ calls[c].id = i
DidOne(c, w, kinds, t, i) == \E k \in kinds : Did(c, w, k, t, i)

\* One that has taken the default from the other environments.
Moving(c, w) == Of(c, w) /\ Default(calls[c]) /\ calls[c].phase \in {"cleared", "done"}

\* What a page shows of a row, and what it should show.
Shown(w, t, i) == page[w].rows[t][i]
Due(w, t, i) == Listed(t, page[w].tab)[i]

\* They differ by the answers still to come.
RowOK(w, t, i) ==
    /\ \A c \in Calls : DidOne(c, w, Adds, t, i) =>
          /\ table[t][i] = calls[c].to /\ Shown(w, t, i) = Absent
          /\ \A d \in Calls : Of(d, w) /\ calls[d].in = t /\ calls[d].id = i => d = c
    /\ Shown(w, t, i) = Absent /\ Due(w, t, i) # Absent =>
          \E c \in Calls : DidOne(c, w, Adds, t, i)
    /\ Shown(w, t, i) # Absent /\ Due(w, t, i) = Absent =>
          \E c \in Calls : DidOne(c, w, Drops, t, i)
    /\ \A c \in Calls : DidOne(c, w, Drops, t, i) => Due(w, t, i) = Absent
    /\ Shown(w, t, i) # Absent /\ Due(w, t, i) # Absent =>
          \/ Shown(w, t, i) = Due(w, t, i)
          \/ \E c \in Calls : Did(c, w, "role", t, i)
          \/ t = "envs" /\ \E c \in Calls : Moving(c, w)
    /\ \A c \in Calls : Did(c, w, "role", t, i) => table[t][i] \in {calls[c].to, Absent}
    /\ t = "envs" => \A c \in Calls : Moving(c, w) =>
          /\ i # calls[c].id => table[t][i] # "default"
          /\ i = calls[c].id /\ calls[c].phase = "done" => table[t][i] \in {"default", Absent}

Single(w) == \A c, d \in Calls : Of(c, w) /\ Of(d, w) /\ c # d => ~Cross(calls[c], calls[d])
LoadOK(w) == \A c \in Calls : Of(c, w) /\ calls[c].kind = "load" =>
    /\ calls[c].to = page[w].tab
    /\ calls[c].phase = "done" =>
          \A t \in Shows(page[w].kind), i \in Ids : calls[c].rows[t][i] = Due(w, t, i)
DecideOK(w) == \A c \in Calls : Of(c, w) /\ calls[c].kind = "decide" =>
    /\ page[w].tab = "pending_review"
    /\ calls[c].phase = "sent" => table["shots"][calls[c].id] = "pending_review"
ListOK(w) == (page[w].shown /\ \A c \in Calls : Of(c, w) => calls[c].kind # "load") =>
    \A t \in Shows(page[w].kind), i \in Ids : RowOK(w, t, i)

Calm(w) == Single(w) /\ LoadOK(w) /\ DecideOK(w) /\ ListOK(w)
WindowOK(w) == w \in apart \/ Calm(w)

TInv == TypesOK /\ \A w \in Windows : WindowOK(w)

LEMMA ValuesAre ==
  /\ Values("people") = Roles /\ Values("invites") = {"pending", "accepted", "revoked"}
  /\ Values("secrets") = Keys /\ Values("envs") = {"plain", "default"} /\ Values("shots") = Tabs
  BY DEF Values

LEMMA ShowsAre ==
  /\ Shows("org") = {"people", "invites"} /\ Shows("account") = {"people"}
  /\ Shows("vault") = {"secrets"} /\ Shows("envs") = {"envs"}
  /\ Shows("baselines") = {"shots"} /\ Shows("none") = {}
  BY DEF Shows

LEMMA ShowsTables == \A k \in Pages \cup {"none"} : Shows(k) \subseteq Tables
  BY ShowsAre DEF Pages, Tables

\* One row, and one table, of a set of lists.
LEMMA RowIs ==
  ASSUME NEW r \in Lists, NEW t \in Tables, NEW i \in Ids
  PROVE  r[t][i] \in Values(t) \cup {Absent}
  BY DEF Lists, Rows

LEMMA NoneIsLists == None \in Lists
  BY DEF None, Lists, Rows, Cells

LEMMA ListedIs ==
  ASSUME table \in Lists, NEW t \in Tables, NEW tab
  PROVE  Listed(t, tab) \in Rows(t)
  BY RowIs DEF Listed, Rows

LEMMA DueIs ==
  ASSUME NEW w, NEW t, NEW i \in Ids
  PROVE  Due(w, t, i) = IF \/ t = "invites" /\ table[t][i] # "pending"
                           \/ t = "shots" /\ table[t][i] # page[w].tab
                        THEN Absent ELSE table[t][i]
  BY DEF Due, Listed

LEMMA CrossBoth == \A a, b : Cross(a, b) => Cross(b, a)
  BY DEF Cross

-----------------------------------------------------------------------------
(* One row of a list *)

\* The requests that the statement about a row speaks of.
Tells(c, w, t, i) ==
    /\ Of(c, w) /\ calls[c].phase \in {"cleared", "done"}
    /\ \/ calls[c].in = t /\ calls[c].id = i
       \/ t = "envs" /\ Moving(c, w)

LEMMA TellsOf ==
  ASSUME NEW c, NEW w, NEW t, NEW i
  PROVE  /\ DidOne(c, w, Adds, t, i) \/ DidOne(c, w, Drops, t, i) => Tells(c, w, t, i)
         /\ Did(c, w, "role", t, i) => Tells(c, w, t, i)
         /\ t = "envs" /\ Moving(c, w) => Tells(c, w, t, i)
         /\ DidOne(c, w, Adds, t, i)' \/ DidOne(c, w, Drops, t, i)' => Tells(c, w, t, i)'
         /\ Did(c, w, "role", t, i)' => Tells(c, w, t, i)'
         /\ t = "envs" /\ Moving(c, w)' => Tells(c, w, t, i)'
  BY DEF Tells, Did, DidOne, Moving

\* What is said by a request that did not change, or says nothing.
Repeats(d, w, t, i) ==
    /\ DidOne(d, w, Adds, t, i)' <=> DidOne(d, w, Adds, t, i)
    /\ DidOne(d, w, Drops, t, i)' <=> DidOne(d, w, Drops, t, i)
    /\ Did(d, w, "role", t, i)' <=> Did(d, w, "role", t, i)
    /\ t = "envs" => (Moving(d, w)' <=> Moving(d, w))
    /\ Tells(d, w, t, i) => calls'[d] = calls[d]

LEMMA RepeatsIf ==
  ASSUME NEW w, NEW t, NEW i, NEW d,
         \/ calls'[d] = calls[d]
         \/ ~Tells(d, w, t, i) /\ ~Tells(d, w, t, i)'
  PROVE  Repeats(d, w, t, i)
  <1>1. CASE calls'[d] = calls[d]
    BY <1>1 DEF Repeats, DidOne, Did, Of, Moving
  <1>2. CASE ~Tells(d, w, t, i) /\ ~Tells(d, w, t, i)'
    BY <1>2, TellsOf DEF Repeats
  <1> QED BY <1>1, <1>2

\* Nothing that is said of the row changes.
LEMMA StillRow ==
  ASSUME NEW w, NEW t, NEW i, RowOK(w, t, i),
         table'[t][i] = table[t][i], Due(w, t, i)' = Due(w, t, i), Shown(w, t, i)' = Shown(w, t, i),
         \A d \in Calls : \/ calls'[d] = calls[d]
                          \/ ~Tells(d, w, t, i) /\ ~Tells(d, w, t, i)',
         \A d \in Calls : Of(d, w)' /\ calls'[d].in = t /\ calls'[d].id = i =>
            \/ Of(d, w) /\ calls[d].in = t /\ calls[d].id = i
            \/ Shown(w, t, i) # Absent
  PROVE  RowOK(w, t, i)'
  <1>1. \A d \in Calls : Repeats(d, w, t, i)
    BY RepeatsIf
  <1>2. \A d \in Calls : DidOne(d, w, Adds, t, i)' =>
           /\ table'[t][i] = calls'[d].to /\ Shown(w, t, i)' = Absent
           /\ \A e \in Calls : Of(e, w)' /\ calls'[e].in = t /\ calls'[e].id = i => e = d
    BY <1>1, TellsOf DEF RowOK, Repeats
  <1>3. t = "envs" => \A d \in Calls : Moving(d, w)' =>
           /\ i # calls'[d].id => table'[t][i] # "default"
           /\ i = calls'[d].id /\ calls'[d].phase = "done" => table'[t][i] \in {"default", Absent}
    BY <1>1, TellsOf DEF RowOK, Repeats
  <1>4. \A d \in Calls : Did(d, w, "role", t, i)' => table'[t][i] \in {calls'[d].to, Absent}
    BY <1>1, TellsOf DEF RowOK, Repeats
  <1>5. /\ Shown(w, t, i)' = Absent /\ Due(w, t, i)' # Absent =>
              \E d \in Calls : DidOne(d, w, Adds, t, i)'
        /\ Shown(w, t, i)' # Absent /\ Due(w, t, i)' = Absent =>
              \E d \in Calls : DidOne(d, w, Drops, t, i)'
        /\ \A d \in Calls : DidOne(d, w, Drops, t, i)' => Due(w, t, i)' = Absent
    BY <1>1 DEF RowOK, Repeats
  <1>6. Shown(w, t, i)' # Absent /\ Due(w, t, i)' # Absent =>
           \/ Shown(w, t, i)' = Due(w, t, i)'
           \/ \E d \in Calls : Did(d, w, "role", t, i)'
           \/ t = "envs" /\ \E d \in Calls : Moving(d, w)'
    BY <1>1 DEF RowOK, Repeats
  <1> QED BY <1>2, <1>3, <1>4, <1>5, <1>6 DEF RowOK

\* A step of one request.
Only(c) == \A d \in Calls : d # c => calls'[d] = calls[d]

LEMMA OnlyRepeats ==
  ASSUME NEW c \in Calls, Only(c), NEW w, NEW t, NEW i
  PROVE  \A d \in Calls : d # c => Repeats(d, w, t, i)
  BY RepeatsIf DEF Only

LEMMA GoneSays ==
  ASSUME NEW c \in Calls, calls'[c] = NoCall, NEW w, NEW t, NEW i
  PROVE  ~Of(c, w)' /\ ~DidOne(c, w, Adds, t, i)' /\ ~DidOne(c, w, Drops, t, i)'
         /\ ~Did(c, w, "role", t, i)' /\ ~Moving(c, w)'
  BY DEF Of, DidOne, Did, Moving

\* A request is answered: what it was the reason for is made good.
LEMMA AnsweredRow ==
  ASSUME NEW c \in Calls, Only(c), calls'[c] = NoCall,
         NEW w, NEW t, NEW i, RowOK(w, t, i),
         table'[t][i] = table[t][i], Due(w, t, i)' = Due(w, t, i),
         \/ Shown(w, t, i)' # Absent
         \/ Due(w, t, i) = Absent
         \/ Shown(w, t, i) = Absent /\ ~DidOne(c, w, Adds, t, i),
         \/ Shown(w, t, i)' = Absent
         \/ Due(w, t, i) # Absent
         \/ Shown(w, t, i) # Absent /\ ~DidOne(c, w, Drops, t, i),
         \/ Shown(w, t, i)' = Absent
         \/ Due(w, t, i) = Absent
         \/ Shown(w, t, i)' = Due(w, t, i)
         \/ /\ Shown(w, t, i)' = Shown(w, t, i) /\ ~Did(c, w, "role", t, i)
            /\ t = "envs" => ~Moving(c, w),
         \/ Shown(w, t, i)' = Absent
         \/ \A d \in Calls : d # c => ~DidOne(d, w, Adds, t, i)
  PROVE  RowOK(w, t, i)'
  <1>1. \A d \in Calls : d # c => Repeats(d, w, t, i)
    BY OnlyRepeats
  <1>g. ~Of(c, w)' /\ ~DidOne(c, w, Adds, t, i)' /\ ~DidOne(c, w, Drops, t, i)'
        /\ ~Did(c, w, "role", t, i)' /\ ~Moving(c, w)'
    BY GoneSays
  <1>o. \A d \in Calls : Of(d, w)' => d # c /\ calls'[d] = calls[d] /\ Of(d, w)
    BY <1>g DEF Only, Of
  <1>2. \A d \in Calls : DidOne(d, w, Adds, t, i)' =>
           /\ table'[t][i] = calls'[d].to /\ Shown(w, t, i)' = Absent
           /\ \A e \in Calls : Of(e, w)' /\ calls'[e].in = t /\ calls'[e].id = i => e = d
    BY <1>1, <1>g, <1>o, TellsOf DEF RowOK, Repeats
  <1>3. t = "envs" => \A d \in Calls : Moving(d, w)' =>
           /\ i # calls'[d].id => table'[t][i] # "default"
           /\ i = calls'[d].id /\ calls'[d].phase = "done" => table'[t][i] \in {"default", Absent}
    BY <1>1, <1>g, TellsOf DEF RowOK, Repeats
  <1>4. \A d \in Calls : Did(d, w, "role", t, i)' => table'[t][i] \in {calls'[d].to, Absent}
    BY <1>1, <1>g, TellsOf DEF RowOK, Repeats
  <1>5. Shown(w, t, i)' = Absent /\ Due(w, t, i)' # Absent =>
              \E d \in Calls : DidOne(d, w, Adds, t, i)'
    BY <1>1 DEF RowOK, Repeats
  <1>6. Shown(w, t, i)' # Absent /\ Due(w, t, i)' = Absent =>
              \E d \in Calls : DidOne(d, w, Drops, t, i)'
    BY <1>1 DEF RowOK, Repeats
  <1>7. \A d \in Calls : DidOne(d, w, Drops, t, i)' => Due(w, t, i)' = Absent
    BY <1>1, <1>g DEF RowOK, Repeats
  <1>8. Shown(w, t, i)' # Absent /\ Due(w, t, i)' # Absent =>
           \/ Shown(w, t, i)' = Due(w, t, i)'
           \/ \E d \in Calls : Did(d, w, "role", t, i)'
           \/ t = "envs" /\ \E d \in Calls : Moving(d, w)'
    BY <1>1 DEF RowOK, Repeats
  <1> QED BY <1>2, <1>3, <1>4, <1>5, <1>6, <1>7, <1>8 DEF RowOK

\* A page without requests shows what it should.
LEMMA RestRow ==
  ASSUME NEW w, NEW t, NEW i, \A d \in Calls : ~Of(d, w)', Shown(w, t, i)' = Due(w, t, i)'
  PROVE  RowOK(w, t, i)'
  <1>1. \A d \in Calls : /\ \A K : ~DidOne(d, w, K, t, i)'
                         /\ \A k : ~Did(d, w, k, t, i)'
                         /\ ~Moving(d, w)'
    BY DEF DidOne, Did, Moving
  <1> QED BY <1>1 DEF RowOK

\* Which requests speak of which table.
LEMMA KindsIn ==
  ASSUME CallsOK, NEW c \in Calls, NEW w, NEW t, NEW i
  PROVE  /\ DidOne(c, w, Adds, t, i) => t # "people" /\ t # "shots"
         /\ Did(c, w, "role", t, i) => t = "people"
         /\ Moving(c, w) => calls[c].in = "envs"
  BY DEF CallsOK, IsCall, Writing, DidOne, Did, Adds, Moving, Of, Default

\* A request of the page does its write; nothing is shown before the answer.
Wrote(c, w) ==
    /\ Only(c) /\ Of(c, w) /\ Of(c, w)' /\ Same(calls[c], calls'[c])
    /\ calls[c].phase # "done" /\ calls'[c].phase \in {"cleared", "done"}

LEMMA WroteSays ==
  ASSUME NEW c \in Calls, NEW w, Wrote(c, w), NEW t, NEW i
  PROVE  /\ ~DidOne(c, w, Adds, t, i) /\ ~DidOne(c, w, Drops, t, i) /\ ~Did(c, w, "role", t, i)
         /\ \A k : Did(c, w, k, t, i)' <=> /\ calls'[c].phase = "done" /\ calls[c].kind = k
                                           /\ calls[c].in = t /\ calls'[c].id = i
         /\ DidOne(c, w, Adds, t, i)' => calls[c].kind \in Adds
         /\ DidOne(c, w, Drops, t, i)' => calls[c].kind \in Drops
         /\ Did(c, w, "role", t, i)' => calls[c].kind = "role"
         /\ Moving(c, w)' <=> Default(calls[c])
         /\ \A d \in Calls : Of(d, w)' <=> Of(d, w)
         /\ \A d \in Calls : d # c => calls'[d] = calls[d] /\ Repeats(d, w, t, i)
  <1>1. \A d \in Calls : d # c => calls'[d] = calls[d] /\ Repeats(d, w, t, i)
    BY OnlyRepeats DEF Wrote, Only
  <1>2. \A d \in Calls : Of(d, w)' <=> Of(d, w)
    BY <1>1 DEF Wrote, Of
  <1>3. \A k : Did(c, w, k, t, i)' <=> /\ calls'[c].phase = "done" /\ calls[c].kind = k
                                       /\ calls[c].in = t /\ calls'[c].id = i
    BY DEF Wrote, Did, Same
  <1>4. Moving(c, w)' <=> Default(calls[c])
    BY DEF Wrote, Moving, Default, Same
  <1>5. ~DidOne(c, w, Adds, t, i) /\ ~DidOne(c, w, Drops, t, i) /\ ~Did(c, w, "role", t, i)
    BY DEF Wrote, DidOne, Did
  <1>6. /\ DidOne(c, w, Adds, t, i)' => calls[c].kind \in Adds
        /\ DidOne(c, w, Drops, t, i)' => calls[c].kind \in Drops
    BY <1>3 DEF DidOne, Did, Wrote, Same
  <1> QED BY <1>1, <1>2, <1>3, <1>4, <1>5, <1>6

\* A role is changed.
LEMMA RoleRow ==
  ASSUME CallsOK, NEW c \in Calls, NEW w, Wrote(c, w), Single(w),
         NEW t, t = "people", NEW i, RowOK(w, t, i),
         calls[c].kind = "role", calls[c].in = t, calls[c].id = i, calls'[c].id = i,
         calls'[c].phase = "done", Shown(w, t, i)' = Shown(w, t, i),
         Due(w, t, i) # Absent, Due(w, t, i)' # Absent, table'[t][i] = calls[c].to
  PROVE  RowOK(w, t, i)'
  <1>1. /\ \A d \in Calls : d # c => calls'[d] = calls[d] /\ Repeats(d, w, t, i)
        /\ Did(c, w, "role", t, i)' /\ ~DidOne(c, w, Adds, t, i)' /\ ~DidOne(c, w, Drops, t, i)'
    BY WroteSays DEF Adds, Drops
  <1>2. \A d \in Calls : d # c => ~Did(d, w, "role", t, i)
    BY DEF Single, Did, Cross, Wrote
  <1>3. \A d \in Calls : ~DidOne(d, w, Adds, t, i) /\ ~DidOne(d, w, Drops, t, i)
    BY KindsIn DEF RowOK
  <1>4. Shown(w, t, i) # Absent
    BY <1>3 DEF RowOK
  <1>5. \A d \in Calls : ~DidOne(d, w, Adds, t, i)' /\ ~DidOne(d, w, Drops, t, i)'
    BY <1>1, <1>3 DEF Repeats
  <1>6. \A d \in Calls : Did(d, w, "role", t, i)' => table'[t][i] = calls'[d].to
    BY <1>1, <1>2 DEF Repeats, Wrote, Same
  <1> QED BY <1>1, <1>4, <1>5, <1>6 DEF RowOK

\* A row is deleted, an invitation revoked, a baseline leaves the tab.
LEMMA DropRow ==
  ASSUME CallsOK, NEW c \in Calls, NEW w, Wrote(c, w),
         NEW t, NEW i, RowOK(w, t, i),
         calls[c].kind \in Drops, calls[c].in = t, calls[c].id = i, calls'[c].id = i,
         calls'[c].phase = "done", Shown(w, t, i)' = Shown(w, t, i), Due(w, t, i)' = Absent,
         t = "people" => table'[t][i] = Absent, t = "envs" => table'[t][i] = Absent
  PROVE  RowOK(w, t, i)'
  <1>1. /\ \A d \in Calls : d # c => calls'[d] = calls[d] /\ Repeats(d, w, t, i)
        /\ DidOne(c, w, Drops, t, i)'
    BY WroteSays DEF DidOne
  <1>2. ~DidOne(c, w, Adds, t, i)' /\ ~Did(c, w, "role", t, i)' /\ ~Moving(c, w)'
    <2>1. /\ calls[c].kind \notin Adds /\ calls[c].kind # "role" /\ ~Default(calls[c])
      BY DEF Adds, Drops, Default
    <2>2. ~DidOne(c, w, Adds, t, i)'
      BY <2>1, WroteSays
    <2>3. ~Did(c, w, "role", t, i)'
      BY <2>1, WroteSays
    <2>4. ~Moving(c, w)'
      BY <2>1, WroteSays
    <2> QED BY <2>2, <2>3, <2>4
  <1>3. \A d \in Calls : ~DidOne(d, w, Adds, t, i)
    BY DEF RowOK, DidOne, Did, Wrote, Adds, Drops
  <1>4. \A d \in Calls : ~DidOne(d, w, Adds, t, i)'
    BY <1>1, <1>2, <1>3 DEF Repeats
  <1>5. \A d \in Calls : Did(d, w, "role", t, i)' => table'[t][i] = Absent
    BY <1>1, <1>2, KindsIn DEF Repeats
  <1>6. Absent # "default"
    BY AbsentAssumption DEF Tables, Values
  <1> QED BY <1>1, <1>4, <1>5, <1>6 DEF RowOK

\* A row is inserted under an id that no request and no page knows.
LEMMA AddRow ==
  ASSUME CallsOK, NEW c \in Calls, NEW w, Wrote(c, w), Single(w),
         NEW t, NEW i, RowOK(w, t, i),
         calls[c].kind \in Adds, calls[c].in = t, calls'[c].id = i, calls'[c].phase = "done",
         \A d \in Calls : Of(d, w) => calls[d].id # i,
         Shown(w, t, i)' = Absent, table'[t][i] = calls[c].to
  PROVE  RowOK(w, t, i)'
  <1>1. \A d \in Calls : d # c => calls'[d] = calls[d] /\ Repeats(d, w, t, i)
    BY WroteSays
  <1>2. PICK k \in Adds : k = calls[c].kind
    OBVIOUS
  <1>3. DidOne(c, w, Adds, t, i)'
    <2>1. Did(c, w, k, t, i)'
      BY <1>2 DEF Did, Wrote, Same
    <2> QED BY <2>1 DEF DidOne
  <1>4. ~DidOne(c, w, Drops, t, i)' /\ ~Did(c, w, "role", t, i)'
    BY WroteSays DEF Adds, Drops
  <1>5. \A d \in Calls : /\ ~DidOne(d, w, Adds, t, i) /\ ~DidOne(d, w, Drops, t, i)
                         /\ ~Did(d, w, "role", t, i)
    BY DEF DidOne, Did
  <1>6. \A d \in Calls : /\ DidOne(d, w, Adds, t, i)' => d = c
                         /\ ~DidOne(d, w, Drops, t, i)' /\ ~Did(d, w, "role", t, i)'
    BY <1>1, <1>4, <1>5 DEF Repeats
  <1>7. \A d \in Calls : Of(d, w)' /\ calls'[d].id = i => d = c
    BY <1>1 DEF Of
  <1>8. t = "envs" => \A d \in Calls : Moving(d, w)' =>
           /\ i # calls'[d].id => table'[t][i] # "default"
           /\ i = calls'[d].id /\ calls'[d].phase = "done" => table'[t][i] \in {"default", Absent}
    <2> SUFFICES ASSUME t = "envs", NEW d \in Calls, Moving(d, w)'
                 PROVE  /\ i # calls'[d].id => table'[t][i] # "default"
                        /\ i = calls'[d].id /\ calls'[d].phase = "done" =>
                              table'[t][i] \in {"default", Absent}
      OBVIOUS
    <2>1. CASE d = c
      <3>1. Default(calls[c])
        BY <2>1, WroteSays
      <3> QED BY <2>1, <3>1 DEF Default
    <2>2. CASE d # c
      <3>1. Moving(d, w) /\ Of(d, w) /\ Default(calls[d])
        BY <1>1, <2>2 DEF Repeats, Moving
      <3>2. ~Cross(calls[c], calls[d]) /\ Of(c, w)
        BY <2>2, <3>1 DEF Single, Wrote
      <3>3. ~Default(calls[c])
        BY <3>1, <3>2 DEF Cross
      <3>4. calls[c].kind = "create"
        BY DEF CallsOK, Of, Wrote, IsCall, Writing, Adds
      <3>5. calls[c].to # "default"
        BY <3>3, <3>4 DEF Default
      <3>6. calls'[d].id # i
        BY <1>1, <2>2, <3>1
      <3> QED BY <3>5, <3>6
    <2> QED BY <2>1, <2>2
  <1>9. \A d \in Calls : DidOne(d, w, Adds, t, i)' =>
           /\ table'[t][i] = calls'[d].to /\ Shown(w, t, i)' = Absent
           /\ \A e \in Calls : Of(e, w)' /\ calls'[e].in = t /\ calls'[e].id = i => e = d
    BY <1>6, <1>7 DEF Wrote, Same
  <1> QED BY <1>3, <1>6, <1>8, <1>9 DEF RowOK

\* No other request of the page is about the default environment.
LEMMA AloneMoving ==
  ASSUME NEW c \in Calls, NEW w, Of(c, w), Default(calls[c]), Single(w)
  PROVE  \A d \in Calls : Of(d, w) /\ d # c => ~Default(calls[d]) /\ ~Moving(d, w)
  BY DEF Single, Cross, Moving

\* The default is taken from the rows.
LEMMA ClearRow ==
  ASSUME CallsOK, NEW c \in Calls, NEW w, Wrote(c, w), Single(w),
         NEW i, RowOK(w, "envs", i), Default(calls[c]),
         calls'[c].id = calls[c].id, calls'[c].phase = "cleared",
         Shown(w, "envs", i)' = Shown(w, "envs", i),
         Due(w, "envs", i) = table["envs"][i], Due(w, "envs", i)' = table'["envs"][i],
         table'["envs"][i] = IF i # calls[c].id /\ table["envs"][i] = "default"
                             THEN "plain" ELSE table["envs"][i]
  PROVE  RowOK(w, "envs", i)'
  <1> DEFINE t == "envs"
  <1>1. \A d \in Calls : d # c => calls'[d] = calls[d] /\ Repeats(d, w, t, i)
    BY WroteSays
  <1>2. ~DidOne(c, w, Adds, t, i)' /\ ~DidOne(c, w, Drops, t, i)' /\ ~Did(c, w, "role", t, i)'
    BY DEF DidOne, Did
  <1>3. Moving(c, w)'
    BY WroteSays
  <1>4. \A d \in Calls : Of(d, w) /\ d # c => ~Default(calls[d]) /\ ~Moving(d, w)
    BY AloneMoving DEF Wrote
  <1>5. \A d \in Calls : d # c => ~Moving(d, w)'
    BY <1>1, <1>4 DEF Repeats, Moving
  <1>6. \A d \in Calls : ~Did(d, w, "role", t, i)'
    BY <1>1, <1>2, KindsIn DEF Repeats
  <1>7. "plain" # Absent /\ "default" # Absent
    BY AbsentAssumption, ValuesAre DEF Tables
  <1>8. \A d \in Calls : DidOne(d, w, Adds, t, i)' =>
           /\ table'[t][i] = calls'[d].to /\ Shown(w, t, i)' = Absent
           /\ \A e \in Calls : Of(e, w)' /\ calls'[e].in = t /\ calls'[e].id = i => e = d
    <2> SUFFICES ASSUME NEW d \in Calls, DidOne(d, w, Adds, t, i)'
                 PROVE  /\ table'[t][i] = calls'[d].to /\ Shown(w, t, i)' = Absent
                        /\ \A e \in Calls : Of(e, w)' /\ calls'[e].in = t /\ calls'[e].id = i => e = d
      OBVIOUS
    <2>1. d # c /\ calls'[d] = calls[d] /\ DidOne(d, w, Adds, t, i)
      BY <1>1, <1>2 DEF Repeats
    <2>2. /\ table[t][i] = calls[d].to /\ Shown(w, t, i) = Absent
          /\ \A e \in Calls : Of(e, w) /\ calls[e].in = t /\ calls[e].id = i => e = d
      BY <2>1 DEF RowOK
    <2>3. Of(d, w) /\ calls[d].kind = "create"
      BY <2>1 DEF DidOne, Did, Of, Adds, CallsOK, IsCall, Writing
    <2>4. calls[d].to # "default"
      BY <1>4, <2>1, <2>3 DEF Default
    <2>5. \A e \in Calls : Of(e, w)' /\ calls'[e].in = t /\ calls'[e].id = i => e = d
      BY <1>1, <2>2, WroteSays DEF Wrote, Same
    <2> QED BY <2>1, <2>2, <2>4, <2>5
  <1>9. \A d \in Calls : DidOne(d, w, Drops, t, i)' => Due(w, t, i)' = Absent
    BY <1>1, <1>2, <1>7 DEF Repeats, RowOK
  <1>10. Shown(w, t, i)' = Absent /\ Due(w, t, i)' # Absent =>
              \E d \in Calls : DidOne(d, w, Adds, t, i)'
    BY <1>1, <1>7, WroteSays DEF RowOK, Repeats
  <1>11. Shown(w, t, i)' # Absent /\ Due(w, t, i)' = Absent =>
              \E d \in Calls : DidOne(d, w, Drops, t, i)'
    BY <1>1, <1>7, WroteSays DEF RowOK, Repeats
  <1> QED BY <1>2, <1>3, <1>5, <1>6, <1>8, <1>9, <1>10, <1>11 DEF RowOK

\* The default is given to a row.
LEMMA GiveRow ==
  ASSUME CallsOK, NEW c \in Calls, NEW w, Wrote(c, w), Single(w),
         NEW i, RowOK(w, "envs", i), calls[c].kind = "default", Default(calls[c]),
         calls[c].in = "envs", calls[c].id = i, calls'[c].id = i,
         Shown(w, "envs", i)' = Shown(w, "envs", i),
         Due(w, "envs", i) # Absent, Due(w, "envs", i)' # Absent,
         table'["envs"][i] = "default"
  PROVE  RowOK(w, "envs", i)'
  <1> DEFINE t == "envs"
  <1>1. \A d \in Calls : d # c => calls'[d] = calls[d] /\ Repeats(d, w, t, i)
    BY WroteSays
  <1>2. ~DidOne(c, w, Adds, t, i)'
    BY WroteSays DEF Adds
  <1>3. ~DidOne(c, w, Drops, t, i)'
    BY WroteSays DEF Drops
  <1>4. Moving(c, w)'
    BY WroteSays
  <1>5. \A d \in Calls : ~DidOne(d, w, Adds, t, i)
    BY DEF RowOK, DidOne, Did, Wrote, Adds
  <1>6. \A d \in Calls : ~DidOne(d, w, Drops, t, i)
    BY DEF RowOK
  <1>7. \A d \in Calls : ~DidOne(d, w, Adds, t, i)' /\ ~DidOne(d, w, Drops, t, i)'
    BY <1>1, <1>2, <1>3, <1>5, <1>6 DEF Repeats
  <1>8. \A d \in Calls : ~Did(d, w, "role", t, i)'
    BY <1>1, KindsIn, WroteSays DEF Repeats
  <1>9. \A d \in Calls : Of(d, w) /\ d # c => ~Default(calls[d]) /\ ~Moving(d, w)
    BY AloneMoving DEF Wrote
  <1>10. \A d \in Calls : d # c => ~Moving(d, w)'
    BY <1>1, <1>9 DEF Repeats, Moving
  <1>11. Shown(w, t, i) # Absent
    BY <1>5 DEF RowOK
  <1> QED BY <1>4, <1>7, <1>8, <1>10, <1>11 DEF RowOK

\* The other rows, when the default is given to one.
LEMMA MovingRow ==
  ASSUME CallsOK, NEW c \in Calls, NEW w, Wrote(c, w), Single(w),
         NEW i, RowOK(w, "envs", i), Default(calls[c]), calls[c].phase = "cleared",
         i # calls[c].id, i # calls'[c].id, Due(w, "envs", i)' = Due(w, "envs", i),
         Shown(w, "envs", i)' = Shown(w, "envs", i), table'["envs"][i] = table["envs"][i]
  PROVE  RowOK(w, "envs", i)'
  <1> DEFINE t == "envs"
  <1>1. \A d \in Calls : d # c => calls'[d] = calls[d] /\ Repeats(d, w, t, i)
    BY WroteSays
  <1>2. ~DidOne(c, w, Adds, t, i)' /\ ~DidOne(c, w, Drops, t, i)' /\ ~Did(c, w, "role", t, i)'
    BY DEF DidOne, Did
  <1>3. Moving(c, w)' /\ Moving(c, w)
    BY WroteSays DEF Moving, Wrote
  <1>4. \A d \in Calls : Of(d, w) /\ d # c => ~Default(calls[d]) /\ ~Moving(d, w)
    BY AloneMoving DEF Wrote
  <1>5. \A d \in Calls : d # c => ~Moving(d, w)'
    BY <1>1, <1>4 DEF Repeats, Moving
  <1>6. \A d \in Calls : ~Did(d, w, "role", t, i)'
    BY <1>1, <1>2, KindsIn DEF Repeats
  <1>7. \A d \in Calls : DidOne(d, w, Adds, t, i)' =>
           /\ table'[t][i] = calls'[d].to /\ Shown(w, t, i)' = Absent
           /\ \A e \in Calls : Of(e, w)' /\ calls'[e].in = t /\ calls'[e].id = i => e = d
    BY <1>1, <1>2, WroteSays DEF RowOK, Repeats
  <1>8. \A d \in Calls : DidOne(d, w, Drops, t, i)' => Due(w, t, i)' = Absent
    BY <1>1, <1>2 DEF Repeats, RowOK
  <1>9. Shown(w, t, i)' = Absent /\ Due(w, t, i)' # Absent =>
              \E d \in Calls : DidOne(d, w, Adds, t, i)'
    BY <1>1, WroteSays DEF RowOK, Repeats
  <1>10. Shown(w, t, i)' # Absent /\ Due(w, t, i)' = Absent =>
              \E d \in Calls : DidOne(d, w, Drops, t, i)'
    BY <1>1, WroteSays DEF RowOK, Repeats
  <1>11. \A d \in Calls : Moving(d, w)' => d = c
    BY <1>5
  <1>12. i # calls'[c].id => table'[t][i] # "default"
    BY <1>3 DEF RowOK
  <1> QED BY <1>3, <1>6, <1>7, <1>8, <1>9, <1>10, <1>11, <1>12 DEF RowOK

-----------------------------------------------------------------------------
(* One window *)

LEMMA DueStays ==
  ASSUME NEW w, page'[w].tab = page[w].tab, NEW t, NEW i \in Ids, table'[t][i] = table[t][i]
  PROVE  Due(w, t, i)' = Due(w, t, i)
  BY DEF Due, Listed

\* What Due is after a step.
LEMMA DueIsNow ==
  ASSUME NEW w, NEW t, NEW i \in Ids
  PROVE  Due(w, t, i)' = IF \/ t = "invites" /\ table'[t][i] # "pending"
                            \/ t = "shots" /\ table'[t][i] # page'[w].tab
                         THEN Absent ELSE table'[t][i]
  BY DEF Due, Listed

SamePage(w) == /\ page'[w].rows = page[w].rows /\ page'[w].shown = page[w].shown
               /\ page'[w].kind = page[w].kind /\ page'[w].tab = page[w].tab

\* A step that is not about the window.
LEMMA ElseCalm ==
  ASSUME NEW w, Calm(w), table' = table, SamePage(w),
         \A d \in Calls : calls'[d] = calls[d] \/ (~Of(d, w) /\ ~Of(d, w)')
  PROVE  Calm(w)'
  <1>1. \A d \in Calls : Of(d, w)' => Of(d, w) /\ calls'[d] = calls[d]
    BY DEF Of
  <1>2. Single(w)'
    BY <1>1 DEF Calm, Single
  <1>3. \A t \in Shows(page[w].kind), i \in Ids : Due(w, t, i)' = Due(w, t, i)
    BY DueStays DEF SamePage
  <1>4. LoadOK(w)'
    BY <1>1, <1>3 DEF Calm, LoadOK, SamePage
  <1>5. DecideOK(w)'
    BY <1>1 DEF Calm, DecideOK, SamePage
  <1>6. ListOK(w)'
    <2> SUFFICES ASSUME page[w].shown, \A d \in Calls : Of(d, w)' => calls'[d].kind # "load",
                        NEW t \in Shows(page[w].kind), NEW i \in Ids
                 PROVE  RowOK(w, t, i)'
      BY DEF ListOK, SamePage
    <2>1. \A d \in Calls : Of(d, w) => calls[d].kind # "load"
      BY DEF Of
    <2>2. RowOK(w, t, i)
      BY <2>1 DEF Calm, ListOK
    <2>3. Shown(w, t, i)' = Shown(w, t, i)
      BY DEF Shown, SamePage
    <2>4. \A d \in Calls : calls'[d] = calls[d] \/ (~Tells(d, w, t, i) /\ ~Tells(d, w, t, i)')
      BY DEF Tells
    <2>5. \A d \in Calls : Of(d, w)' /\ calls'[d].in = t /\ calls'[d].id = i =>
             Of(d, w) /\ calls[d].in = t /\ calls[d].id = i
      BY <1>1
    <2> QED BY <1>3, <2>2, <2>3, <2>4, <2>5, StillRow
  <1> QED BY <1>2, <1>4, <1>5, <1>6 DEF Calm

\* A request of the page that is not a load moves on, or is answered.
LEMMA CalmFrom ==
  ASSUME NEW w, NEW c \in Calls, Calm(w), Of(c, w), calls[c].kind # "load", Only(c),
         \/ ~Of(c, w)'
         \/ /\ Same(calls[c], calls'[c]) /\ calls'[c].phase # "sent"
            /\ calls[c].kind \in {"role", "decide"} => calls'[c].id = calls[c].id,
         page'[w].kind = page[w].kind, page'[w].tab = page[w].tab, page'[w].shown = page[w].shown,
         \A d \in Calls : d # c /\ Of(d, w) /\ calls[d].kind = "decide" =>
            table'["shots"][calls[d].id] = table["shots"][calls[d].id],
         \A t \in Shows(page[w].kind), i \in Ids :
            page[w].shown /\ RowOK(w, t, i) => RowOK(w, t, i)'
  PROVE  Calm(w)'
  <1>1. \A d \in Calls : Of(d, w)' =>
           /\ Of(d, w) /\ Same(calls[d], calls'[d])
           /\ d # c => calls'[d] = calls[d]
    BY DEF Only, Of, Same
  <1>2. \A d, e \in Calls : Of(d, w)' /\ Of(e, w)' /\ d # e =>
           (Cross(calls'[d], calls'[e]) => Cross(calls[d], calls[e]))
    BY <1>1 DEF Cross, Same, Default
  <1>3. Single(w)'
    BY <1>1, <1>2 DEF Calm, Single
  <1>4. \A d \in Calls : Of(d, w) => calls[d].kind # "load"
    BY DEF Calm, Single, Cross
  <1>5. LoadOK(w)'
    BY <1>1, <1>4 DEF LoadOK, Same
  <1>6. DecideOK(w)'
    BY <1>1 DEF Calm, DecideOK, Same
  <1>7. ListOK(w)'
    BY <1>4 DEF Calm, ListOK
  <1> QED BY <1>3, <1>5, <1>6, <1>7 DEF Calm

\* A list that is loaded again, beside nothing else.
LEMMA AloneCalm ==
  ASSUME NEW w, NEW c \in Calls, \A d \in Calls : Of(d, w)' => d = c,
         Of(c, w)', calls'[c].kind = "load", calls'[c].to = page'[w].tab,
         calls'[c].phase = "done" =>
            \A t \in Shows(page'[w].kind), i \in Ids : calls'[c].rows[t][i] = Due(w, t, i)'
  PROVE  Calm(w)'
  <1>1. Single(w)' /\ LoadOK(w)' /\ DecideOK(w)' /\ ListOK(w)'
    BY DEF Single, LoadOK, DecideOK, ListOK
  <1> QED BY <1>1 DEF Calm

\* A baseline that a page shows as pending is so, when nothing crossed.
LEMMA ShownPending ==
  ASSUME CallsOK, CarryOK, NEW w, Calm(w), page[w].shown, "shots" \in Shows(page[w].kind),
         NEW i \in Ids, Shown(w, "shots", i) = "pending_review",
         \A d \in Calls : Of(d, w) =>
            calls[d].kind # "load" /\ ~(calls[d].kind = "decide" /\ calls[d].id = i)
  PROVE  page[w].tab = "pending_review" /\ table["shots"][i] = "pending_review"
  <1>1. RowOK(w, "shots", i)
    BY DEF Calm, ListOK
  <1>2. \A d \in Calls : ~DidOne(d, w, Drops, "shots", i)
    <2> SUFFICES ASSUME NEW d \in Calls, DidOne(d, w, Drops, "shots", i) PROVE FALSE
      OBVIOUS
    <2>1. Of(d, w) /\ calls[d].kind \in Drops /\ calls[d].in = "shots" /\ calls[d].id = i
      BY DEF DidOne, Did
    <2>2. calls[d].kind # "decide"
      BY <2>1
    <2> QED BY <2>1, <2>2 DEF Of, CallsOK, IsCall, Writing, Drops, CarryOK, Carries
  <1>3. "pending_review" # Absent
    BY AbsentAssumption, ValuesAre DEF Tables, Tabs
  <1>4. Due(w, "shots", i) = IF table["shots"][i] # page[w].tab THEN Absent ELSE table["shots"][i]
    BY DueIs
  <1>5. \A d \in Calls : ~Did(d, w, "role", "shots", i)
    BY KindsIn
  <1>6. Due(w, "shots", i) # Absent
    BY <1>1, <1>2, <1>3 DEF RowOK
  <1>7. Due(w, "shots", i) = "pending_review"
    BY <1>1, <1>3, <1>5, <1>6 DEF RowOK
  <1> QED BY <1>3, <1>4, <1>7

\* A request is sent that crosses no other.
LEMMA SendCalm ==
  ASSUME CallsOK, CarryOK, NEW w, NEW c \in Calls, Calm(w), calls[c] = NoCall, Only(c),
         Of(c, w)', calls'[c].phase = "sent", calls'[c].kind # "load",
         \A d \in Calls : Of(d, w) => ~Cross(calls[d], calls'[c]),
         table' = table, SamePage(w),
         \A i \in Ids : calls'[c].id = i => Shown(w, calls'[c].in, i) # Absent,
         calls'[c].kind = "decide" =>
            /\ page[w].shown /\ "shots" \in Shows(page[w].kind) /\ calls'[c].id \in Ids
            /\ Shown(w, "shots", calls'[c].id) = "pending_review"
  PROVE  Calm(w)'
  <1>1. \A d \in Calls : d # c => calls'[d] = calls[d] /\ (Of(d, w)' <=> Of(d, w))
    BY DEF Only, Of
  <1>2. ~Of(c, w)
    BY DEF Of
  <1>3. Single(w)'
    BY <1>1, CrossBoth DEF Calm, Single
  <1>4. \A d \in Calls : Of(d, w) => calls[d].kind # "load"
    BY DEF Cross
  <1>5. LoadOK(w)'
    BY <1>1, <1>4 DEF LoadOK
  <1>6. calls'[c].kind = "decide" =>
           page[w].tab = "pending_review" /\ table["shots"][calls'[c].id] = "pending_review"
    <2> SUFFICES ASSUME calls'[c].kind = "decide"
                 PROVE  page[w].tab = "pending_review" /\ table["shots"][calls'[c].id] = "pending_review"
      OBVIOUS
    <2>1. PICK i \in Ids : i = calls'[c].id
      OBVIOUS
    <2>2. \A d \in Calls : Of(d, w) => ~(calls[d].kind = "decide" /\ calls[d].id = i)
      BY <2>1 DEF Cross
    <2> QED BY <1>4, <2>1, <2>2, ShownPending
  <1>7. DecideOK(w)'
    BY <1>1, <1>6 DEF Calm, DecideOK, SamePage
  <1>8. ListOK(w)'
    <2> SUFFICES ASSUME page[w].shown, NEW t \in Shows(page[w].kind), NEW i \in Ids
                 PROVE  RowOK(w, t, i)'
      BY DEF ListOK, SamePage
    <2>1. RowOK(w, t, i)
      BY <1>4 DEF Calm, ListOK
    <2>2. Due(w, t, i)' = Due(w, t, i)
      BY DueStays DEF SamePage
    <2>3. Shown(w, t, i)' = Shown(w, t, i)
      BY DEF Shown, SamePage
    <2>4. \A d \in Calls : calls'[d] = calls[d] \/ (~Tells(d, w, t, i) /\ ~Tells(d, w, t, i)')
      BY <1>1, <1>2 DEF Tells
    <2>5. \A d \in Calls : Of(d, w)' /\ calls'[d].in = t /\ calls'[d].id = i =>
             \/ Of(d, w) /\ calls[d].in = t /\ calls[d].id = i
             \/ Shown(w, t, i) # Absent
      BY <1>1
    <2> QED BY <2>1, <2>2, <2>3, <2>4, <2>5, StillRow
  <1> QED BY <1>3, <1>5, <1>7, <1>8 DEF Calm

-----------------------------------------------------------------------------
(* Clicks *)

LEMMA CallHas ==
  ASSUME NEW kind, NEW w, NEW t, NEW i, NEW to, NEW x, x = Call(kind, w, t, i, to)
  PROVE  /\ x.kind = kind /\ x.win = w /\ x.in = t /\ x.id = i /\ x.to = to
         /\ x.phase = "sent" /\ x.rows = None
         /\ Seen(x) /\ Flagged(x)
  <1>1. x.kind = kind /\ x.win = w /\ x.in = t /\ x.id = i /\ x.to = to
    BY DEF Call
  <1>2. x.phase = "sent" /\ x.rows = None
    BY DEF Call
  <1>3. Seen(x) /\ Flagged(x)
    BY DEF Call, Seen, Flagged
  <1> QED BY <1>1, <1>2, <1>3

LEMMA LiveIsOf == ASSUME CarryOK, NEW w PROVE \A c \in Calls : c \in Live(w) <=> Of(c, w)
  BY DEF CarryOK, Carries, Flagged, Seen, Live, Of

LEMMA OneCarries ==
  ASSUME CarryOK, NEW c \in Calls, Only(c), calls'[c] = NoCall \/ Carries(calls'[c])
  PROVE  CarryOK'
  BY DEF CarryOK, Only, Carries

LEMMA PagePut ==
  ASSUME PagesOK, NEW w \in Windows, NEW p \in PageType, page' = [page EXCEPT ![w] = p]
  PROVE  PagesOK' /\ page'[w] = p /\ \A v \in Windows : v # w => page'[v] = page[v]
  BY DEF PagesOK

\* A button is disabled.
LEMMA PageEdits ==
  ASSUME PagesOK, NEW w \in Windows,
         \/ page' = page
         \/ page' = [page EXCEPT ![w].busy = TRUE]
         \/ \E i \in Ids : page' = [page EXCEPT ![w].acting = i]
  PROVE  PagesOK' /\ \A v \in Windows : SamePage(v)
  <1>1. CASE page' = page
    BY <1>1 DEF PagesOK, SamePage
  <1>2. CASE page' = [page EXCEPT ![w].busy = TRUE]
    <2>1. PagesOK'
      BY <1>2 DEF PagesOK, PageType
    <2>2. \A v \in Windows : SamePage(v)
      BY <1>2 DEF PagesOK, PageType, SamePage
    <2> QED BY <2>1, <2>2
  <1>3. ASSUME NEW i \in Ids, page' = [page EXCEPT ![w].acting = i]
        PROVE  PagesOK' /\ \A v \in Windows : SamePage(v)
    <2>1. PagesOK'
      BY <1>3 DEF PagesOK, PageType
    <2>2. \A v \in Windows : SamePage(v)
      BY <1>3 DEF PagesOK, PageType, SamePage
    <2> QED BY <2>1, <2>2
  <1> QED BY <1>1, <1>2, <1>3

\* The other windows, when the tables stay.
LEMMA OthersCalm ==
  ASSUME TInv, NEW w \in Windows, table' = table, apart \ {w} \subseteq apart',
         \A v \in Windows : v # w => SamePage(v),
         \A v \in Windows, d \in Calls : v # w => calls'[d] = calls[d] \/ (~Of(d, v) /\ ~Of(d, v)')
  PROVE  \A v \in Windows : v # w => WindowOK(v)'
  BY ElseCalm DEF TInv, WindowOK

LEMMA SendShows ==
  ASSUME IInv, TInv, NEW x, IsCall(x), Carries(x), Seen(x), x.phase = "sent", x.kind # "load",
         NEW w \in Windows, x.win = w, Send(x), PagesOK', \A v \in Windows : SamePage(v),
         \A i \in Ids : x.id = i => Shown(w, x.in, i) # Absent,
         x.kind = "decide" =>
            /\ page[w].shown /\ "shots" \in Shows(page[w].kind) /\ x.id \in Ids
            /\ Shown(w, "shots", x.id) = "pending_review"
  PROVE  TInv'
  <1>1. PICK c \in Calls : calls[c] = NoCall /\ calls' = [calls EXCEPT ![c] = x]
    BY DEF Send
  <1>2. calls'[c] = x /\ Only(c)
    BY <1>1, OneChanges DEF IInv, Only
  <1>3. table' = table /\ Hurried(x, Live(w))
    BY DEF Send
  <1>4. TypesOK'
    <2>1. CarryOK'
      BY <1>2, OneCarries DEF TInv, TypesOK
    <2>2. PlainOK'
      BY <1>3 DEF Hurried, TInv, TypesOK, PlainOK, OneSecretEach
    <2> QED BY <2>1, <2>2 DEF TypesOK
  <1>5. Of(c, w)' /\ \A v \in Windows : v # w => ~Of(c, v)'
    BY <1>2, CallIsThere DEF Of
  <1>6. \A v \in Windows : v # w => WindowOK(v)'
    <2>1. apart \ {w} \subseteq apart'
      BY <1>3 DEF Hurried
    <2>2. \A v \in Windows, d \in Calls : v # w => calls'[d] = calls[d] \/ (~Of(d, v) /\ ~Of(d, v)')
      BY <1>1, <1>2, <1>5 DEF Only, Of
    <2> QED BY <1>3, <2>1, <2>2, OthersCalm
  <1>7. WindowOK(w)'
    <2> SUFFICES ASSUME w \notin apart' PROVE Calm(w)'
      BY DEF WindowOK
    <2>1. w \notin apart /\ \A d \in Calls : Of(d, w) => ~Cross(calls[d], x)
      BY <1>3, LiveIsOf DEF Hurried, TInv, TypesOK
    <2>2. Calm(w)
      BY <2>1 DEF TInv, WindowOK
    <2>3. CallsOK /\ CarryOK
      BY DEF IInv, TInv, TypesOK
    <2> QED BY <1>1, <1>2, <1>3, <1>5, <2>1, <2>2, <2>3, SendCalm
  <1> QED BY <1>4, <1>6, <1>7 DEF TInv

\* A click of the user who looks at window w.
LEMMA Asking ==
  ASSUME IInv, TInv, NEW w \in Windows, NEW kind, NEW t, NEW i, NEW to, kind # "load",
         Writing(kind, t, to, i, "sent"), Carries(Call(kind, w, t, i, to)),
         Send(Call(kind, w, t, i, to)),
         \/ page' = page
         \/ page' = [page EXCEPT ![w].busy = TRUE]
         \/ \E j \in Ids : page' = [page EXCEPT ![w].acting = j],
         i = Absent \/ Shown(w, t, i) # Absent,
         kind = "decide" =>
            /\ page[w].shown /\ page[w].kind = "baselines" /\ i \in Ids /\ t = "shots"
            /\ Shown(w, "shots", i) = "pending_review"
  PROVE  TInv'
  <1>1. PICK x : x = Call(kind, w, t, i, to)
    OBVIOUS
  <1>2. /\ x.kind = kind /\ x.win = w /\ x.in = t /\ x.id = i /\ x.to = to
        /\ x.phase = "sent" /\ Seen(x)
    BY <1>1, CallHas
  <1>3. IsCall(x) /\ Carries(x) /\ Send(x)
    BY <1>1, NewCall
  <1>4. PagesOK' /\ \A v \in Windows : SamePage(v)
    BY PageEdits DEF TInv, TypesOK
  <1>5. \A j \in Ids : x.id = j => Shown(w, x.in, j) # Absent
    BY <1>2, AbsentAssumption
  <1>6. x.kind = "decide" =>
            /\ page[w].shown /\ "shots" \in Shows(page[w].kind) /\ x.id \in Ids
            /\ Shown(w, "shots", x.id) = "pending_review"
    BY <1>2, ShowsAre
  <1> QED BY <1>2, <1>3, <1>4, <1>5, <1>6, SendShows

LEMMA Asked ==
  ASSUME NEW w \in Windows, NEW kind, NEW t, NEW i \in Ids \cup {Absent}, NEW to,
         kind \in {"role", "delete", "revoke", "default", "decide"} => i \in Ids,
         kind \in Adds => i = Absent, kind # "load", kind = "role" => to \in Roles, kind = "decide" => to \in Decisions,
         kind = "invite" => to = "pending", kind = "add" => to \in Keys,
         kind = "create" => to \in Values("envs"),
         kind = "delete" => t \in {"people", "secrets", "envs"}
  PROVE  Carries(Call(kind, w, t, i, to))
  <1>1. PICK x : x = Call(kind, w, t, i, to)
    OBVIOUS
  <1>2. /\ x.kind = kind /\ x.win = w /\ x.in = t /\ x.id = i /\ x.to = to
        /\ x.phase = "sent" /\ x.rows \in Lists /\ Flagged(x)
    BY <1>1, CallHas, NoneIsLists
  <1>3. Carries(x)
    BY <1>2 DEF Carries, Phases
  <1> QED BY <1>1, <1>3

LEMMA ClickShows ==
  ASSUME IInv, TInv, NEW w \in Windows,
         \/ Invite(w) \/ InviteToTeam(w)
         \/ \E k \in Keys : AddSecret(w, k)
         \/ \E e \in Values("envs") : CreateEnvironment(w, e)
  PROVE  TInv'
  <1>1. CASE Invite(w) \/ InviteToTeam(w)
    <2>1. Writing("invite", "invites", "pending", Absent, "sent")
      BY DEF Writing
    <2>2. Carries(Call("invite", w, "invites", Absent, "pending"))
      BY Asked DEF Adds
    <2> QED BY <1>1, <2>1, <2>2, Asking DEF Invite, InviteToTeam
  <1>2. ASSUME NEW k \in Keys, AddSecret(w, k) PROVE TInv'
    <2>1. Writing("add", "secrets", k, Absent, "sent")
      BY DEF Writing
    <2>2. Carries(Call("add", w, "secrets", Absent, k))
      BY Asked DEF Adds
    <2> QED BY <1>2, <2>1, <2>2, Asking DEF AddSecret
  <1>3. ASSUME NEW e \in Values("envs"), CreateEnvironment(w, e) PROVE TInv'
    <2>1. Writing("create", "envs", e, Absent, "sent")
      BY DEF Writing
    <2>2. Carries(Call("create", w, "envs", Absent, e))
      BY Asked DEF Adds
    <2> QED BY <1>3, <2>1, <2>2, Asking DEF CreateEnvironment
  <1> QED BY <1>1, <1>2, <1>3

LEMMA RowClickShows ==
  ASSUME IInv, TInv, NEW w \in Windows, NEW i \in Ids,
         \/ \E r \in Roles : ChangeRole(w, i, r)
         \/ RemoveMember(w, i) \/ RemoveFromTeam(w, i) \/ Revoke(w, i) \/ DeleteSecret(w, i)
         \/ SetDefault(w, i) \/ DeleteEnvironment(w, i)
         \/ \E d \in Decisions : Decide(w, i, d)
  PROVE  TInv'
  <1>1. ASSUME NEW r \in Roles, ChangeRole(w, i, r) PROVE TInv'
    <2>1. Writing("role", "people", r, i, "sent")
      BY DEF Writing
    <2>2. Carries(Call("role", w, "people", i, r))
      BY Asked DEF Adds
    <2>3. Shown(w, "people", i) # Absent
      BY <1>1 DEF ChangeRole, Sees, Shown
    <2> QED BY <1>1, <2>1, <2>2, <2>3, Asking DEF ChangeRole
  <1>2. CASE \/ RemoveMember(w, i) \/ RemoveFromTeam(w, i) \/ DeleteSecret(w, i)
             \/ DeleteEnvironment(w, i)
    <2>1. PICK t \in {"people", "secrets", "envs"} :
             /\ Send(Call("delete", w, t, i, Absent)) /\ page' = page
             /\ page[w].rows[t][i] # Absent
      BY <1>2 DEF RemoveMember, RemoveFromTeam, DeleteSecret, DeleteEnvironment, Sees
    <2>2. Writing("delete", t, Absent, i, "sent")
      BY DEF Writing, Tables
    <2>3. Carries(Call("delete", w, t, i, Absent))
      BY Asked DEF Adds
    <2> QED BY <2>1, <2>2, <2>3, Asking DEF Shown
  <1>3. CASE Revoke(w, i)
    <2>1. Writing("revoke", "invites", Absent, i, "sent")
      BY DEF Writing
    <2>2. Carries(Call("revoke", w, "invites", i, Absent))
      BY Asked DEF Adds
    <2>3. Shown(w, "invites", i) # Absent
      BY <1>3 DEF Revoke, Sees, Shown
    <2> QED BY <1>3, <2>1, <2>2, <2>3, Asking DEF Revoke
  <1>4. CASE SetDefault(w, i)
    <2>1. Writing("default", "envs", "default", i, "sent")
      BY DEF Writing
    <2>2. Carries(Call("default", w, "envs", i, "default"))
      BY Asked DEF Adds
    <2>3. Shown(w, "envs", i) # Absent
      BY <1>4 DEF SetDefault, Sees, Shown
    <2> QED BY <1>4, <2>1, <2>2, <2>3, Asking DEF SetDefault
  <1>5. ASSUME NEW d \in Decisions, Decide(w, i, d) PROVE TInv'
    <2>1. Writing("decide", "shots", d, i, "sent")
      BY DEF Writing
    <2>2. Carries(Call("decide", w, "shots", i, d))
      BY Asked DEF Adds
    <2>3. /\ Shown(w, "shots", i) # Absent /\ Shown(w, "shots", i) = "pending_review"
          /\ page[w].shown /\ page[w].kind = "baselines"
      BY <1>5 DEF Decide, Sees, Shown
    <2> QED BY <1>5, <2>1, <2>2, <2>3, Asking DEF Decide
  <1> QED BY <1>1, <1>2, <1>3, <1>4, <1>5

-----------------------------------------------------------------------------
(* Loads *)

LEMMA VisitDoes ==
  ASSUME CallsOK, CarryOK, NEW w \in Windows, NEW p \in Pages, Visit(w, p)
  PROVE  \E b \in Calls :
            /\ calls[b] = NoCall
            /\ calls'[b] = Call("load", w, Absent, Absent, "pending_review")
            /\ \A c \in Calls : c # b =>
                  \/ calls'[c] = calls[c] /\ (calls[c] = NoCall \/ calls[c].win # w)
                  \/ /\ calls[c] # NoCall /\ calls[c].win = w
                     /\ calls'[c].win = w /\ Parted(calls'[c]) /\ Carries(calls'[c])
  <1> DEFINE left == [c \in Calls |-> IF calls[c] # NoCall /\ calls[c].win = w
                                       THEN [calls[c] EXCEPT !.live = FALSE] ELSE calls[c]]
             load == Call("load", w, Absent, Absent, "pending_review")
  <1>1. PICK b \in Calls : left[b] = NoCall /\ calls' = [left EXCEPT ![b] = load]
    BY DEF Visit
  <1>2. \A c \in Calls : calls[c] # NoCall /\ calls[c].win = w =>
           /\ left[c].win = w /\ Parted(left[c]) /\ Carries(left[c]) /\ left[c] # NoCall
    <2> SUFFICES ASSUME NEW c \in Calls, calls[c] # NoCall, calls[c].win = w
                 PROVE  /\ left[c].win = w /\ Parted(left[c]) /\ Carries(left[c])
                        /\ left[c] # NoCall
      OBVIOUS
    <2>1. PICK old : old = calls[c]
      OBVIOUS
    <2>2. IsCall(old) /\ Shaped(old) /\ Carries(old)
      BY <2>1 DEF CallsOK, CarryOK, IsCall
    <2>3. PICK new : new = [old EXCEPT !.live = FALSE]
      OBVIOUS
    <2>4. /\ Shaped(new) /\ new.phase = old.phase /\ new.id = old.id /\ new.rows = old.rows
          /\ new.kind = old.kind /\ new.in = old.in /\ new.to = old.to /\ new.win = old.win
          /\ Parted(new)
      BY <2>2, <2>3, CallIsLeft DEF Parted
    <2>5. left[c] = new
      BY <2>1, <2>3, Zenon
    <2>6. IsCall(new)
      BY <2>2, <2>4 DEF IsCall
    <2>7. Carries(new)
      BY <2>2, <2>4, PartedIs DEF Carries
    <2> HIDE DEF left
    <2> QED BY <2>1, <2>4, <2>5, <2>6, <2>7, CallIsThere
  <1>3. \A c \in Calls : ~(calls[c] # NoCall /\ calls[c].win = w) => left[c] = calls[c]
    OBVIOUS
  <1>4. left = [c \in Calls |-> left[c]]
    OBVIOUS
  <1> HIDE DEF left, load
  <1>5. \A c \in Calls : calls'[c] = IF c = b THEN load ELSE left[c]
    BY <1>1, <1>4
  <1>6. calls[b] = NoCall
    BY <1>1, <1>2, <1>3
  <1> QED BY <1>2, <1>3, <1>5, <1>6 DEF load

LEMMA VisitShows ==
  ASSUME IInv, TInv, NEW w \in Windows, NEW p \in Pages, Visit(w, p)
  PROVE  TInv'
  <1>1. PICK b \in Calls :
            /\ calls[b] = NoCall
            /\ calls'[b] = Call("load", w, Absent, Absent, "pending_review")
            /\ \A c \in Calls : c # b =>
                  \/ calls'[c] = calls[c] /\ (calls[c] = NoCall \/ calls[c].win # w)
                  \/ /\ calls[c] # NoCall /\ calls[c].win = w
                     /\ calls'[c].win = w /\ Parted(calls'[c]) /\ Carries(calls'[c])
    BY VisitDoes DEF IInv, TInv, TypesOK
  <1>2. PICK x : x = Call("load", w, Absent, Absent, "pending_review")
    OBVIOUS
  <1>3. /\ x.kind = "load" /\ x.win = w /\ x.id = Absent /\ x.to = "pending_review"
        /\ x.phase = "sent" /\ x.rows \in Lists /\ Seen(x) /\ Flagged(x)
    BY <1>2, CallHas, NoneIsLists
  <1>4. Carries(x)
    BY <1>3 DEF Carries, Phases, Tabs, Adds
  <1>5. CarryOK'
    <2>1. \A c \in Calls : calls'[c] # NoCall => Carries(calls'[c])
      BY <1>1, <1>2, <1>4 DEF TInv, TypesOK, CarryOK
    <2> QED BY <2>1 DEF CarryOK, Carries
  <1>6. /\ page' = [page EXCEPT ![w] = Fresh(p)] /\ table' = table /\ apart' = apart
    BY DEF Visit
  <1>7. Fresh(p) \in PageType /\ Fresh(p).tab = "pending_review"
    BY NoneIsLists DEF Fresh, PageType, Tabs
  <1>8. /\ PagesOK' /\ page'[w] = Fresh(p) /\ \A v \in Windows : v # w => page'[v] = page[v]
    BY <1>6, <1>7, PagePut DEF TInv, TypesOK
  <1>9. TypesOK'
    <2>1. PlainOK'
      BY <1>6 DEF TInv, TypesOK, PlainOK, OneSecretEach
    <2> QED BY <1>5, <1>8, <2>1 DEF TypesOK
  <1>10. \A c \in Calls : Of(c, w)' => c = b
    BY <1>1, PartedIs DEF Of
  <1>11. x # NoCall
    BY <1>3 DEF NoCall
  <1>12. Of(b, w)' /\ calls'[b].kind = "load" /\ calls'[b].to = page'[w].tab
         /\ calls'[b].phase = "sent"
    BY <1>1, <1>2, <1>3, <1>7, <1>8, <1>11 DEF Of
  <1>13. WindowOK(w)'
    BY <1>10, <1>12, AloneCalm DEF WindowOK
  <1>14. \A v \in Windows : v # w => WindowOK(v)'
    <2>1. \A v \in Windows : v # w => SamePage(v)
      BY <1>8 DEF SamePage
    <2>2. \A v \in Windows, d \in Calls : v # w => calls'[d] = calls[d] \/ (~Of(d, v) /\ ~Of(d, v)')
      BY <1>1, <1>2, <1>3 DEF Of
    <2> QED BY <1>6, <2>1, <2>2, OthersCalm
  <1> QED BY <1>9, <1>13, <1>14 DEF TInv

\* A load is sent, alone or beside requests that it crosses.
LEMMA LoadSent ==
  ASSUME IInv, TInv, NEW w \in Windows, NEW c \in Calls, NEW x, IsCall(x), Carries(x), Seen(x),
         x.kind = "load", x.win = w, x.phase = "sent", calls' = [calls EXCEPT ![c] = x],
         calls[c] = NoCall \/ calls[c].win = w, x.to = page'[w].tab,
         PagesOK', \A v \in Windows : v # w => SamePage(v), table' = table,
         apart' = apart \/ apart' = apart \cup {w},
         w \in apart' \/ \A d \in Calls : d # c => ~Of(d, w)
  PROVE  TInv'
  <1>1. calls'[c] = x /\ Only(c)
    BY OneChanges DEF IInv, Only
  <1>2. TypesOK'
    <2>1. CarryOK'
      BY <1>1, OneCarries DEF TInv, TypesOK
    <2>2. PlainOK'
      BY DEF TInv, TypesOK, PlainOK, OneSecretEach
    <2> QED BY <2>1, <2>2 DEF TypesOK
  <1>3. \A v \in Windows : v # w => WindowOK(v)'
    <2>1. \A v \in Windows, d \in Calls : v # w => calls'[d] = calls[d] \/ (~Of(d, v) /\ ~Of(d, v)')
      BY <1>1 DEF Only, Of
    <2> QED BY <2>1, OthersCalm
  <1>4. WindowOK(w)'
    <2> SUFFICES ASSUME \A d \in Calls : d # c => ~Of(d, w) PROVE Calm(w)'
      BY DEF WindowOK
    <2>1. \A d \in Calls : Of(d, w)' => d = c
      BY <1>1 DEF Only, Of
    <2>2. Of(c, w)' /\ calls'[c].kind = "load" /\ calls'[c].to = page'[w].tab /\ calls'[c].phase = "sent"
      BY <1>1, CallIsThere DEF Of
    <2> QED BY <2>1, <2>2, AloneCalm
  <1> QED BY <1>2, <1>3, <1>4 DEF TInv

LEMMA LoadIs ==
  ASSUME NEW w \in Windows, NEW tab \in Tabs, NEW x, x = Call("load", w, Absent, Absent, tab)
  PROVE  IsCall(x) /\ Carries(x)
  <1>1. Writing("load", Absent, tab, Absent, "sent")
    BY DEF Writing
  <1>2. /\ x.kind = "load" /\ x.win = w /\ x.in = Absent /\ x.id = Absent /\ x.to = tab
        /\ x.phase = "sent" /\ x.rows \in Lists /\ Flagged(x)
    BY CallHas, NoneIsLists
  <1>3. Carries(x)
    BY <1>2 DEF Carries, Phases, Adds
  <1> QED BY <1>1, <1>3, NewCall

LEMMA SelectTabShows ==
  ASSUME IInv, TInv, NEW w \in Windows, NEW tab \in Tabs, SelectTab(w, tab)
  PROVE  TInv'
  <1>1. PICK x : x = Call("load", w, Absent, Absent, tab)
    OBVIOUS
  <1>2. /\ IsCall(x) /\ Carries(x) /\ Seen(x) /\ x.kind = "load" /\ x.win = w /\ x.to = tab
        /\ x.phase = "sent"
    BY <1>1, LoadIs, CallHas
  <1>3. Send(x)
    BY <1>1, Zenon DEF SelectTab
  <1>4. PICK c \in Calls : calls[c] = NoCall /\ calls' = [calls EXCEPT ![c] = x]
    BY <1>3 DEF Send
  <1>5. table' = table /\ Hurried(x, Live(w))
    BY <1>2, <1>3 DEF Send
  <1>6. page' = [page EXCEPT ![w].tab = tab, ![w].shown = FALSE]
    BY DEF SelectTab
  <1>7. PagesOK' /\ page'[w].tab = tab
    BY <1>6 DEF TInv, TypesOK, PagesOK, PageType
  <1>8. \A v \in Windows : v # w => SamePage(v)
    BY <1>6 DEF TInv, TypesOK, PagesOK, PageType, SamePage
  <1>9. /\ apart' = apart \/ apart' = apart \cup {w}
        /\ w \in apart' \/ \A d \in Calls : d # c => ~Of(d, w)
    BY <1>2, <1>5, LiveIsOf DEF Hurried, Cross, TInv, TypesOK
  <1> QED BY <1>2, <1>4, <1>5, <1>7, <1>8, <1>9, LoadSent

LEMMA TakesDoes ==
  ASSUME PagesOK, CarryOK, NEW c \in Calls, calls[c] # NoCall,
         NEW w, w = calls[c].win, NEW p \in PageType, Takes(c, p)
  PROVE  /\ PagesOK' /\ w \in Windows
         /\ \A v \in Windows : v # w => page'[v] = page[v]
         /\ IF Of(c, w) THEN page'[w] = p ELSE page' = page
  <1>1. w \in Windows /\ Flagged(calls[c])
    BY DEF CarryOK, Carries
  <1>2. CASE Of(c, w)
    <2>1. page' = [page EXCEPT ![w] = p]
      BY <1>2 DEF Of, Seen, Takes
    <2> QED BY <1>1, <1>2, <2>1, PagePut
  <1>3. CASE ~Of(c, w)
    <2>1. page' = page
      BY <1>1, <1>3 DEF Of, Seen, Flagged, Takes
    <2> QED BY <1>1, <1>3, <2>1 DEF PagesOK
  <1> QED BY <1>2, <1>3

\* A request is answered.
LEMMA AnswerShows ==
  ASSUME IInv, TInv, NEW c \in Calls, calls[c] # NoCall, NEW w, w = calls[c].win,
         NEW p \in PageType, Takes(c, p), Answered(c), table' = table,
         apart' = apart \/ apart' = apart \cup {w},
         \/ Calm(w)'
         \/ w \in apart'
         \/ ~Calm(w)
         \/ ~(Of(c, w) /\ page'[w] = p /\ Only(c) /\ calls'[c] = NoCall)
  PROVE  TInv'
  <1>1. calls'[c] = NoCall /\ Only(c)
    BY OneChanges DEF IInv, Only, Answered
  <1>2. /\ PagesOK' /\ w \in Windows
        /\ \A v \in Windows : v # w => page'[v] = page[v]
        /\ IF Of(c, w) THEN page'[w] = p ELSE page' = page
    BY TakesDoes DEF TInv, TypesOK
  <1>3. TypesOK'
    <2>1. CarryOK'
      BY <1>1, OneCarries DEF TInv, TypesOK
    <2>2. PlainOK'
      BY <1>2 DEF TInv, TypesOK, PlainOK, OneSecretEach
    <2> QED BY <1>2, <2>1, <2>2 DEF TypesOK
  <1>4. \A v \in Windows, d \in Calls :
           v # w \/ ~Of(c, w) => calls'[d] = calls[d] \/ (~Of(d, v) /\ ~Of(d, v)')
    BY <1>1 DEF Only, Of
  <1>5. \A v \in Windows : v # w => WindowOK(v)'
    <2>1. \A v \in Windows : v # w => SamePage(v)
      BY <1>2 DEF SamePage
    <2> QED BY <1>2, <1>4, <2>1, OthersCalm
  <1>6. WindowOK(w)'
    <2> SUFFICES ASSUME w \notin apart' PROVE Calm(w)'
      BY DEF WindowOK
    <2>1. Calm(w)
      BY <1>2 DEF TInv, WindowOK
    <2>2. CASE Of(c, w)
      BY <1>1, <1>2, <2>1, <2>2
    <2>3. CASE ~Of(c, w)
      <3>1. SamePage(w)
        BY <1>2, <2>3 DEF SamePage
      <3> QED BY <1>2, <1>4, <2>1, <2>3, <3>1, ElseCalm
    <2> QED BY <2>2, <2>3
  <1> QED BY <1>3, <1>5, <1>6 DEF TInv

LEMMA AddArrivesShows == ASSUME IInv, TInv, NEW c \in Calls, AddArrives(c) PROVE TInv'
  <1>1. PICK w \in Windows : w = calls[c].win
    BY DEF AddArrives, Is, TInv, TypesOK, CarryOK, Carries
  <1>2. PICK p : p = [page[w] EXCEPT !.busy = FALSE]
    OBVIOUS
  <1>3. p \in PageType /\ p.tab = page[w].tab /\ p.tab \in Tabs
    BY <1>2 DEF TInv, TypesOK, PagesOK, PageType
  <1>4. calls[c] # NoCall /\ table' = table /\ Takes(c, p)
    BY <1>1, <1>2 DEF AddArrives, Is, Mine
  <1>5. /\ PagesOK' /\ \A v \in Windows : v # w => page'[v] = page[v]
        /\ IF Of(c, w) THEN page'[w] = p ELSE page' = page
    BY <1>1, <1>3, <1>4, TakesDoes DEF TInv, TypesOK
  <1>6. CASE Of(c, w)
    <2>1. PICK tab \in Tabs : tab = page[w].tab
      BY <1>3
    <2>2. PICK x : x = Call("load", w, Absent, Absent, tab)
      OBVIOUS
    <2>3. /\ IsCall(x) /\ Carries(x) /\ Seen(x) /\ x.kind = "load" /\ x.win = w /\ x.to = tab
          /\ x.phase = "sent"
      BY <2>2, LoadIs, CallHas
    <2>4. calls' = [calls EXCEPT ![c] = x] /\ Hurried(x, Live(w) \ {c})
      BY <1>1, <1>6, <2>1, <2>2 DEF AddArrives, Mine, Of, Seen
    <2>5. /\ apart' = apart \/ apart' = apart \cup {w}
          /\ w \in apart' \/ \A d \in Calls : d # c => ~Of(d, w)
      BY <2>3, <2>4, LiveIsOf DEF Hurried, Cross, TInv, TypesOK
    <2>6. \A v \in Windows : v # w => SamePage(v)
      BY <1>5 DEF SamePage
    <2>7. x.to = page'[w].tab
      BY <1>3, <1>5, <1>6, <2>1, <2>3
    <2> QED BY <1>1, <1>4, <1>5, <2>3, <2>4, <2>5, <2>6, <2>7, LoadSent
  <1>7. CASE ~Of(c, w)
    <2>1. Answered(c) /\ apart' = apart
      BY <1>1, <1>4, <1>7 DEF AddArrives, Of, Seen, TInv, TypesOK, CarryOK, Carries, Flagged
    <2> QED BY <1>1, <1>3, <1>4, <1>7, <2>1, AnswerShows
  <1> QED BY <1>6, <1>7

LEMMA LoadArrivesShows == ASSUME IInv, TInv, NEW c \in Calls, LoadArrives(c) PROVE TInv'
  <1>1. PICK w \in Windows : w = calls[c].win
    BY DEF LoadArrives, Is, TInv, TypesOK, CarryOK, Carries
  <1>2. PICK p : p = [page[w] EXCEPT !.rows = calls[c].rows, !.shown = TRUE]
    OBVIOUS
  <1>3. calls[c] # NoCall /\ calls[c].kind = "load" /\ calls[c].phase = "done"
        /\ table' = table /\ apart' = apart /\ Takes(c, p) /\ Answered(c)
    BY <1>1, <1>2 DEF LoadArrives, Is, Mine
  <1>4. calls[c].rows \in Lists
    BY <1>3 DEF TInv, TypesOK, CarryOK, Carries
  <1>5. p \in PageType /\ p.rows = calls[c].rows /\ p.tab = page[w].tab /\ p.kind = page[w].kind
    BY <1>1, <1>2, <1>4 DEF TInv, TypesOK, PagesOK, PageType
  <1>6. Calm(w) /\ Of(c, w) /\ page'[w] = p /\ Only(c) /\ calls'[c] = NoCall => Calm(w)'
    <2> SUFFICES ASSUME Calm(w), Of(c, w), page'[w] = p, Only(c), calls'[c] = NoCall
                 PROVE  Calm(w)'
      OBVIOUS
    <2>1. \A d \in Calls : Of(d, w) => d = c
      BY <1>3 DEF Calm, Single, Cross
    <2>2. \A d \in Calls : ~Of(d, w)'
      BY <2>1 DEF Only, Of
    <2>3. \A t \in Shows(page[w].kind), i \in Ids : Due(w, t, i)' = Due(w, t, i)
      BY <1>3, <1>5, DueStays
    <2>4. \A t \in Shows(page[w].kind), i \in Ids : Shown(w, t, i)' = Due(w, t, i)'
      BY <1>3, <1>5, <2>3 DEF Calm, LoadOK, Shown
    <2>5. ListOK(w)'
      BY <1>5, <2>2, <2>4, RestRow DEF ListOK
    <2>6. Single(w)' /\ LoadOK(w)' /\ DecideOK(w)'
      BY <2>2 DEF Single, LoadOK, DecideOK
    <2> QED BY <2>5, <2>6 DEF Calm
  <1> QED BY <1>1, <1>3, <1>5, <1>6, AnswerShows

-----------------------------------------------------------------------------
(* Answers *)

\* A page with one row changed.
PutRow(q, t, i, v) == [q EXCEPT !.rows[t][i] = v]

LEMMA PageRow ==
  ASSUME NEW q \in PageType, NEW t \in Tables, NEW i \in Ids, NEW v \in Values(t) \cup {Absent},
         NEW p, p = PutRow(q, t, i, v)
  PROVE  /\ p \in PageType /\ p.kind = q.kind /\ p.tab = q.tab /\ p.shown = q.shown
         /\ \A u \in Tables, j \in Ids : p.rows[u][j] = IF u = t /\ j = i THEN v ELSE q.rows[u][j]
  <1>1. PICK old \in Lists : old = q.rows
    BY DEF PageType
  <1>2. PICK row : row = [old[t] EXCEPT ![i] = v]
    OBVIOUS
  <1>3. row \in Rows(t) /\ \A j \in Ids : row[j] = IF j = i THEN v ELSE old[t][j]
    <2>1. old[t] \in Rows(t)
      BY DEF Lists
    <2> QED BY <1>2, <2>1 DEF Rows
  <1>4. PICK new : new = [old EXCEPT ![t] = row]
    OBVIOUS
  <1>5. new \in Lists /\ \A u \in Tables : new[u] = IF u = t THEN row ELSE old[u]
    <2>1. \A u \in Tables : new[u] = IF u = t THEN row ELSE old[u]
      BY <1>4 DEF Lists
    <2>2. row \in [Ids -> Cells]
      BY <1>3 DEF Rows, Cells
    <2>3. new \in [Tables -> [Ids -> Cells]]
      BY <1>4, <2>2 DEF Lists
    <2> QED BY <1>3, <2>1, <2>3 DEF Lists
  <1>6. p = [q EXCEPT !.rows = new]
    BY <1>1, <1>2, <1>4 DEF PageType, PutRow
  <1>7. p \in PageType /\ p.kind = q.kind /\ p.tab = q.tab /\ p.shown = q.shown /\ p.rows = new
    BY <1>5, <1>6 DEF PageType
  <1>8. \A u \in Tables, j \in Ids : new[u][j] = IF u = t /\ j = i THEN v ELSE old[u][j]
    BY <1>3, <1>5
  <1> QED BY <1>1, <1>7, <1>8

\* An answer that changes one row, or none, of what the page shows.
LEMMA RowAnswered ==
  ASSUME IInv, TInv, NEW w \in Windows, NEW c \in Calls, Of(c, w), Calm(w), Only(c),
         calls'[c] = NoCall, calls[c].kind # "load", table' = table,
         page'[w].kind = page[w].kind, page'[w].tab = page[w].tab, page'[w].shown = page[w].shown,
         \A t \in Shows(page[w].kind), i \in Ids :
            \/ Shown(w, t, i)' = Shown(w, t, i) /\ ~Tells(c, w, t, i)
            \/ page[w].shown /\ RowOK(w, t, i) => RowOK(w, t, i)'
  PROVE  Calm(w)'
  <1>1. ~Of(c, w)'
    BY DEF Of
  <1>2. ASSUME NEW t \in Shows(page[w].kind), NEW i \in Ids, page[w].shown, RowOK(w, t, i)
        PROVE  RowOK(w, t, i)'
    <2>1. Due(w, t, i)' = Due(w, t, i) /\ table'[t][i] = table[t][i]
      BY DueStays
    <2>2. CASE Shown(w, t, i)' = Shown(w, t, i) /\ ~Tells(c, w, t, i)
      <3>1. \A d \in Calls : calls'[d] = calls[d] \/ (~Tells(d, w, t, i) /\ ~Tells(d, w, t, i)')
        BY <1>1, <2>2 DEF Only, Tells
      <3>2. \A d \in Calls : Of(d, w)' /\ calls'[d].in = t /\ calls'[d].id = i =>
               Of(d, w) /\ calls[d].in = t /\ calls[d].id = i
        BY <1>1 DEF Only, Of
      <3> QED BY <1>2, <2>1, <2>2, <3>1, <3>2, StillRow
    <2> QED BY <1>2, <2>2
  <1> QED BY <1>1, <1>2, CalmFrom

\* A button is enabled again.
Free(q) == [q EXCEPT !.busy = FALSE]
Rest(q) == [q EXCEPT !.acting = Absent]

LEMMA PageEnabled ==
  ASSUME NEW q \in PageType, NEW p, p = Free(q) \/ p = Rest(q)
  PROVE  /\ p \in PageType /\ p.kind = q.kind /\ p.tab = q.tab /\ p.shown = q.shown
         /\ p.rows = q.rows
  BY DEF PageType, Free, Rest

\* An answer that puts a value into the row of its request.
Puts(c, w, p, t, i, v) ==
    /\ calls[c] # NoCall /\ calls[c].kind # "load" /\ calls[c].phase = "done" /\ ~Default(calls[c])
    /\ w = calls[c].win /\ t = calls[c].in /\ i = calls[c].id
    /\ p \in PageType /\ p.kind = page[w].kind /\ p.tab = page[w].tab /\ p.shown = page[w].shown
    /\ \A u \in Tables, j \in Ids :
          p.rows[u][j] = IF u = t /\ j = i THEN v ELSE page[w].rows[u][j]
    /\ Takes(c, p) /\ Answered(c) /\ table' = table /\ apart' = apart

LEMMA PutShows ==
  ASSUME IInv, TInv, NEW c \in Calls, NEW w \in Windows, NEW p, NEW t, NEW i \in Ids, NEW v,
         Puts(c, w, p, t, i, v),
         \/ RowOK(w, t, i)'
         \/ ~RowOK(w, t, i)
         \/ ~(Of(c, w) /\ Only(c) /\ calls'[c] = NoCall /\ Shown(w, t, i)' = v)
         \/ ~(table' = table /\ page'[w].tab = page[w].tab /\ Due(w, t, i)' = Due(w, t, i))
  PROVE  TInv'
  <1>1. /\ calls[c] # NoCall /\ calls[c].kind # "load" /\ calls[c].phase = "done"
        /\ ~Default(calls[c]) /\ w = calls[c].win /\ t = calls[c].in /\ i = calls[c].id
    BY DEF Puts
  <1>2. /\ p \in PageType /\ p.kind = page[w].kind /\ p.tab = page[w].tab /\ p.shown = page[w].shown
        /\ \A u \in Tables, j \in Ids :
              p.rows[u][j] = IF u = t /\ j = i THEN v ELSE page[w].rows[u][j]
    BY DEF Puts
  <1>3. Takes(c, p) /\ Answered(c) /\ table' = table /\ apart' = apart
    BY DEF Puts
  <1>4. Calm(w) /\ Of(c, w) /\ page'[w] = p /\ Only(c) /\ calls'[c] = NoCall => Calm(w)'
    <2> SUFFICES ASSUME Calm(w), Of(c, w), page'[w] = p, Only(c), calls'[c] = NoCall
                 PROVE  Calm(w)'
      OBVIOUS
    <2>1. ASSUME NEW u \in Shows(page[w].kind), NEW j \in Ids
          PROVE  \/ Shown(w, u, j)' = Shown(w, u, j) /\ ~Tells(c, w, u, j)
                 \/ page[w].shown /\ RowOK(w, u, j) => RowOK(w, u, j)'
      <3>1. u \in Tables
        BY ShowsTables DEF TInv, TypesOK, PagesOK, PageType
      <3>2. CASE u = t /\ j = i
        <4>1. Shown(w, t, i)' = v
          BY <1>2, <3>1, <3>2 DEF Shown
        <4>2. Due(w, t, i)' = Due(w, t, i)
          BY <1>2, <1>3, DueStays
        <4> QED BY <1>2, <1>3, <3>2, <4>1, <4>2
      <3>3. CASE ~(u = t /\ j = i)
        <4>1. Shown(w, u, j)' = Shown(w, u, j)
          BY <1>2, <3>1, <3>3 DEF Shown
        <4>2. ~Tells(c, w, u, j)
          BY <1>1, <3>3 DEF Tells, Moving
        <4> QED BY <4>1, <4>2
      <3> QED BY <3>2, <3>3
    <2> QED BY <1>1, <1>2, <1>3, <2>1, RowAnswered
  <1> QED BY <1>1, <1>2, <1>3, <1>4, AnswerShows

\* The role that was asked for, if the member is still shown.
LEMMA RoleArrivesShows == ASSUME IInv, TInv, NEW c \in Calls, RoleArrives(c) PROVE TInv'
  <1> DEFINE t == "people"
  <1>1. PICK w \in Windows, i \in Ids, to \in Roles :
           w = calls[c].win /\ i = calls[c].id /\ to = calls[c].to
    BY DEF RoleArrives, Is, TInv, TypesOK, CarryOK, Carries
  <1>2. PICK v : v = IF page[w].rows[t][i] = Absent THEN Absent ELSE to
    OBVIOUS
  <1>3. PICK p : p = PutRow(page[w], t, i, v)
    OBVIOUS
  <1>4. calls[c] # NoCall /\ calls[c].kind = "role" /\ calls[c].phase = "done"
        /\ table' = table /\ apart' = apart /\ Answered(c)
    BY DEF RoleArrives, Is
  <1>5. Takes(c, p)
    <2>1. p = [page[w] EXCEPT !.rows["people"][i] = IF @ = Absent THEN @ ELSE to]
      BY <1>2, <1>3 DEF PutRow
    <2>2. p = [Mine(c) EXCEPT !.rows["people"][calls[c].id] = IF @ = Absent THEN @ ELSE calls[c].to]
      BY <1>1, <2>1 DEF Mine
    <2> QED BY <2>2, Zenon DEF RoleArrives
  <1>6. v \in Values(t) \cup {Absent} /\ page[w] \in PageType
    BY <1>2, ValuesAre DEF TInv, TypesOK, PagesOK
  <1>7. Puts(c, w, p, t, i, v)
    <2>1. t \in Tables
      BY DEF Tables
    <2>2. calls[c].in = t /\ ~Default(calls[c])
      BY <1>4 DEF IInv, CallsOK, IsCall, Writing, Default
    <2> QED BY <1>1, <1>3, <1>4, <1>5, <1>6, <2>1, <2>2, PageRow DEF Puts
  <1>8. ASSUME RowOK(w, t, i), Of(c, w), Only(c), calls'[c] = NoCall, Shown(w, t, i)' = v,
               table' = table, Due(w, t, i)' = Due(w, t, i)
        PROVE  RowOK(w, t, i)'
    <2>1. Did(c, w, "role", t, i)
      BY <1>1, <1>4, <1>7, <1>8 DEF Did, Puts
    <2>2. table[t][i] \in {to, Absent}
      BY <1>1, <1>8, <2>1 DEF RowOK
    <2>3. \A d \in Calls : ~DidOne(d, w, Adds, t, i)
      BY KindsIn DEF IInv
    <2>4. ~DidOne(c, w, Drops, t, i)
      BY <1>4 DEF DidOne, Did, Drops
    <2>5. Shown(w, t, i)' = IF Shown(w, t, i) = Absent THEN Absent ELSE to
      BY <1>2, <1>8 DEF Shown
    <2>6. Due(w, t, i) = table[t][i]
      BY DueIs
    <2>7. to # Absent
      BY AbsentAssumption, ValuesAre DEF Tables
    <2> QED BY <1>8, <2>2, <2>3, <2>4, <2>5, <2>6, <2>7, AnsweredRow
  <1> QED BY <1>7, <1>8, PutShows

\* A row leaves the list when it left the table, and is appended when it was.
LEMMA GoneRow ==
  ASSUME NEW c \in Calls, NEW w, NEW t, NEW i, calls[c].kind \in Drops, calls[c].phase = "done",
         calls[c].in = t, calls[c].id = i, RowOK(w, t, i), Of(c, w), Only(c), calls'[c] = NoCall,
         Shown(w, t, i)' = Absent, table' = table, Due(w, t, i)' = Due(w, t, i)
  PROVE  RowOK(w, t, i)'
  <1>1. PICK k \in Drops : k = calls[c].kind
    OBVIOUS
  <1>2. Did(c, w, k, t, i)
    BY <1>1 DEF Did
  <1>3. DidOne(c, w, Drops, t, i)
    BY <1>2 DEF DidOne
  <1>4. Due(w, t, i) = Absent
    BY <1>3 DEF RowOK
  <1> QED BY <1>4, AnsweredRow

LEMMA AddedRow ==
  ASSUME NEW c \in Calls, NEW w, NEW t, NEW i \in Ids, calls[c].kind \in Adds,
         calls[c].phase = "done", calls[c].in = t, calls[c].id = i,
         RowOK(w, t, i), Of(c, w), Only(c), calls'[c] = NoCall,
         Shown(w, t, i)' = calls[c].to, t = "invites" => calls[c].to = "pending", t # "shots",
         calls[c].to # Absent, table' = table, Due(w, t, i)' = Due(w, t, i)
  PROVE  RowOK(w, t, i)'
  <1>1. PICK k \in Adds : k = calls[c].kind
    OBVIOUS
  <1>2. Did(c, w, k, t, i)
    BY <1>1 DEF Did
  <1>3. DidOne(c, w, Adds, t, i)
    BY <1>2 DEF DidOne
  <1>4. /\ table[t][i] = calls[c].to
        /\ \A d \in Calls : Of(d, w) /\ calls[d].in = t /\ calls[d].id = i => d = c
    BY <1>3 DEF RowOK
  <1>5. Due(w, t, i) = calls[c].to
    BY <1>4, DueIs
  <1>6. \A d \in Calls : d # c => ~DidOne(d, w, Adds, t, i)
    BY <1>4 DEF DidOne, Did
  <1> QED BY <1>5, <1>6, AnsweredRow

LEMMA DropArrivesShows ==
  ASSUME IInv, TInv, NEW c \in Calls, DropArrives(c) \/ DecideArrives(c)
  PROVE  TInv'
  <1>1. /\ calls[c] # NoCall /\ calls[c].kind \in Drops /\ calls[c].phase = "done"
        /\ table' = table /\ apart' = apart /\ Answered(c)
    BY DEF DropArrives, DecideArrives, Is, Drops
  <1>2. PICK w \in Windows, i \in Ids, t \in Tables :
           w = calls[c].win /\ i = calls[c].id /\ t = calls[c].in
    <2>1. calls[c].win \in Windows /\ calls[c].id \in Ids
      BY <1>1 DEF TInv, TypesOK, CarryOK, Carries, Drops
    <2>2. calls[c].in \in Tables
      BY <1>1 DEF IInv, CallsOK, IsCall, Writing, Drops, Tables
    <2> QED BY <2>1, <2>2
  <1>3. PICK q : q = PutRow(page[w], t, i, Absent)
    OBVIOUS
  <1>4. /\ q \in PageType /\ q.kind = page[w].kind /\ q.tab = page[w].tab /\ q.shown = page[w].shown
        /\ \A u \in Tables, j \in Ids :
              q.rows[u][j] = IF u = t /\ j = i THEN Absent ELSE page[w].rows[u][j]
    BY <1>3, PageRow DEF TInv, TypesOK, PagesOK
  <1>5. ASSUME NEW p, p = q \/ p = Rest(q), Takes(c, p) PROVE Puts(c, w, p, t, i, Absent)
    <2>1. /\ p \in PageType /\ p.kind = q.kind /\ p.tab = q.tab /\ p.shown = q.shown
          /\ p.rows = q.rows
      BY <1>4, <1>5, PageEnabled
    <2>2. ~Default(calls[c]) /\ calls[c].kind # "load"
      BY <1>1 DEF Default, Drops
    <2> QED BY <1>1, <1>2, <1>4, <1>5, <2>1, <2>2 DEF Puts
  <1>6. \E p : Puts(c, w, p, t, i, Absent)
    <2>1. CASE DropArrives(c)
      <3>1. q = [Mine(c) EXCEPT !.rows[calls[c].in][calls[c].id] = Absent]
        BY <1>2, <1>3 DEF PutRow, Mine
      <3>2. Takes(c, q)
        BY <2>1, <3>1, Zenon DEF DropArrives
      <3> QED BY <1>5, <3>2
    <2>2. CASE DecideArrives(c)
      <3>1. PICK p : p = Rest(q)
        OBVIOUS
      <3>2. t = "shots"
        BY <1>2, <2>2 DEF DecideArrives, Is, IInv, CallsOK, IsCall, Writing
      <3>3. q = [page[w] EXCEPT !.rows["shots"][i] = Absent]
        BY <1>3, <3>2 DEF PutRow
      <3>4. p = [page[w] EXCEPT !.rows["shots"][i] = Absent, !.acting = Absent]
        BY <3>1, <3>3, Zenon DEF Rest
      <3>5. p = [Mine(c) EXCEPT !.rows["shots"][calls[c].id] = Absent, !.acting = Absent]
        BY <1>2, <3>4, Zenon DEF Mine
      <3>6. Takes(c, p)
        BY <2>2, <3>5, Zenon DEF DecideArrives
      <3> QED BY <1>5, <3>1, <3>6
    <2> QED BY <2>1, <2>2
  <1>7. PICK p : Puts(c, w, p, t, i, Absent)
    BY <1>6
  <1>8. ASSUME RowOK(w, t, i), Of(c, w), Only(c), calls'[c] = NoCall, Shown(w, t, i)' = Absent,
               table' = table, Due(w, t, i)' = Due(w, t, i)
        PROVE  RowOK(w, t, i)'
    BY <1>1, <1>2, <1>8, GoneRow
  <1> QED BY <1>7, <1>8, PutShows

LEMMA InviteArrivesShows == ASSUME IInv, TInv, NEW c \in Calls, InviteArrives(c) PROVE TInv'
  <1> DEFINE t == "invites"
  <1>1. /\ calls[c] # NoCall /\ calls[c].kind = "invite" /\ calls[c].phase = "done"
        /\ table' = table /\ apart' = apart /\ Answered(c)
    BY DEF InviteArrives, Is
  <1>2. PICK w \in Windows, i \in Ids : w = calls[c].win /\ i = calls[c].id
    BY <1>1 DEF TInv, TypesOK, CarryOK, Carries, Adds
  <1>3. /\ calls[c].in = t /\ calls[c].to = "pending" /\ ~Default(calls[c])
    BY <1>1 DEF IInv, CallsOK, IsCall, Writing, TInv, TypesOK, CarryOK, Carries, Default
  <1>4. CASE page[w].kind = "org"
    <2>1. PICK q, p : q = PutRow(page[w], t, i, "pending") /\ p = Free(q)
      OBVIOUS
    <2>2. t \in Tables /\ "pending" \in Values(t)
      BY ValuesAre DEF Tables
    <2>3. /\ q \in PageType /\ q.kind = page[w].kind /\ q.tab = page[w].tab /\ q.shown = page[w].shown
          /\ \A u \in Tables, j \in Ids :
                q.rows[u][j] = IF u = t /\ j = i THEN "pending" ELSE page[w].rows[u][j]
      BY <2>1, <2>2, PageRow DEF TInv, TypesOK, PagesOK
    <2>4. /\ p \in PageType /\ p.kind = q.kind /\ p.tab = q.tab /\ p.shown = q.shown
          /\ p.rows = q.rows
      BY <2>1, <2>3, PageEnabled
    <2>5. q = [page[w] EXCEPT !.rows["invites"][i] = "pending"]
      BY <2>1 DEF PutRow
    <2>6. p = [page[w] EXCEPT !.rows["invites"][i] = "pending", !.busy = FALSE]
      BY <2>1, <2>5, Zenon DEF Free
    <2>7. p = [Mine(c) EXCEPT !.rows["invites"][calls[c].id] = "pending", !.busy = FALSE]
      BY <1>2, <2>6, Zenon DEF Mine
    <2>8. Mine(c).kind = "org"
      BY <1>2, <1>4 DEF Mine
    <2>9. Takes(c, p)
      BY <2>7, <2>8, Zenon DEF InviteArrives
    <2>10. Puts(c, w, p, t, i, "pending")
      BY <1>1, <1>2, <1>3, <2>3, <2>4, <2>9 DEF Puts
    <2>11. ASSUME RowOK(w, t, i), Of(c, w), Only(c), calls'[c] = NoCall,
                  Shown(w, t, i)' = "pending", table' = table, Due(w, t, i)' = Due(w, t, i)
           PROVE  RowOK(w, t, i)'
      <3>1. "pending" # Absent
        BY AbsentAssumption, ValuesAre DEF Tables
      <3> QED BY <1>1, <1>2, <1>3, <2>11, <3>1, AddedRow DEF Adds
    <2> QED BY <2>10, <2>11, PutShows
  <1>5. CASE page[w].kind # "org"
    <2>1. PICK p \in PageType : p = page[w]
      BY DEF TInv, TypesOK, PagesOK
    <2>2. Mine(c).kind # "org" /\ p = Mine(c)
      BY <1>2, <1>5, <2>1 DEF Mine
    <2>3. Takes(c, p)
      BY <2>2, Zenon DEF InviteArrives
    <2>4. t \notin Shows(page[w].kind)
      BY <1>5, ShowsAre DEF TInv, TypesOK, PagesOK, PageType, Pages
    <2>5. Calm(w) /\ Of(c, w) /\ page'[w] = p /\ Only(c) /\ calls'[c] = NoCall => Calm(w)'
      <3>1. \A u \in Shows(page[w].kind), j \in Ids : ~Tells(c, w, u, j)
        BY <1>3, <2>4 DEF Tells, Moving
      <3>2. page'[w] = p => \A u \in Shows(page[w].kind), j \in Ids : Shown(w, u, j)' = Shown(w, u, j)
        BY <2>1 DEF Shown
      <3> QED BY <1>1, <2>1, <3>1, <3>2, RowAnswered
    <2> QED BY <1>1, <1>2, <2>1, <2>3, <2>5, AnswerShows
  <1> QED BY <1>4, <1>5

\* The list of environments is written anew from what was shown.
PutRows(q, f) == [q EXCEPT !.rows["envs"] = f]

LEMMA PageRows ==
  ASSUME NEW q \in PageType, NEW f \in Rows("envs"), NEW p, p = PutRows(q, f)
  PROVE  /\ p \in PageType /\ p.kind = q.kind /\ p.tab = q.tab /\ p.shown = q.shown
         /\ \A u \in Tables : p.rows[u] = IF u = "envs" THEN f ELSE q.rows[u]
  <1>1. PICK old \in Lists : old = q.rows
    BY DEF PageType
  <1>2. PICK new : new = [old EXCEPT !["envs"] = f]
    OBVIOUS
  <1>3. \A u \in Tables : new[u] = IF u = "envs" THEN f ELSE old[u]
    BY <1>2 DEF Lists
  <1>4. f \in [Ids -> Cells]
    BY DEF Rows, Cells, Tables
  <1>5. new \in [Tables -> [Ids -> Cells]]
    BY <1>2, <1>4 DEF Lists
  <1>6. new \in Lists
    BY <1>3, <1>5 DEF Lists
  <1>7. p = [q EXCEPT !.rows = new]
    BY <1>1, <1>2 DEF PageType, PutRows
  <1>8. p \in PageType /\ p.kind = q.kind /\ p.tab = q.tab /\ p.shown = q.shown /\ p.rows = new
    BY <1>6, <1>7 DEF PageType
  <1> QED BY <1>1, <1>3, <1>8

\* The answer of the request that moved the default to its row.
LEMMA SettledRow ==
  ASSUME NEW c \in Calls, NEW w, NEW i \in Ids, RowOK(w, "envs", i), Moving(c, w),
         calls[c].phase = "done", Only(c), calls'[c] = NoCall,
         Shown(w, "envs", i)' = IF Shown(w, "envs", i) = Absent THEN Absent
                                ELSE IF i = calls[c].id THEN "default" ELSE "plain",
         table["envs"][i] \in {"plain", "default", Absent}, Due(w, "envs", i) = table["envs"][i],
         table' = table, Due(w, "envs", i)' = Due(w, "envs", i),
         ~DidOne(c, w, Adds, "envs", i), ~DidOne(c, w, Drops, "envs", i)
  PROVE  RowOK(w, "envs", i)'
  <1>1. "plain" # Absent /\ "default" # Absent
    BY AbsentAssumption, ValuesAre DEF Tables
  <1>2. i # calls[c].id => table["envs"][i] # "default"
    BY DEF RowOK
  <1>3. i = calls[c].id => table["envs"][i] \in {"default", Absent}
    BY DEF RowOK
  <1>4. \A d \in Calls : DidOne(d, w, Adds, "envs", i) => Shown(w, "envs", i) = Absent
    BY DEF RowOK
  <1> QED BY <1>1, <1>2, <1>3, <1>4, AnsweredRow

LEMMA EnvsAnswered ==
  ASSUME IInv, TInv, NEW c \in Calls, NEW w \in Windows, calls[c] # NoCall, w = calls[c].win,
         calls[c].in = "envs", calls[c].kind # "load",
         NEW f \in Rows("envs"), NEW p, p = PutRows(page[w], f) \/ p = Free(PutRows(page[w], f)),
         Takes(c, p), Answered(c), table' = table, apart' = apart,
         \A i \in Ids :
            \/ RowOK(w, "envs", i)'
            \/ ~RowOK(w, "envs", i)
            \/ ~(Of(c, w) /\ Only(c) /\ calls'[c] = NoCall /\ Shown(w, "envs", i)' = f[i])
            \/ Due(w, "envs", i)' # Due(w, "envs", i)
  PROVE  TInv'
  <1>1. PICK q : q = PutRows(page[w], f)
    OBVIOUS
  <1>2. /\ q \in PageType /\ q.kind = page[w].kind /\ q.tab = page[w].tab /\ q.shown = page[w].shown
        /\ \A u \in Tables : q.rows[u] = IF u = "envs" THEN f ELSE page[w].rows[u]
    BY <1>1, PageRows DEF TInv, TypesOK, PagesOK
  <1>3. /\ p \in PageType /\ p.kind = q.kind /\ p.tab = q.tab /\ p.shown = q.shown
        /\ p.rows = q.rows
    BY <1>1, <1>2, PageEnabled
  <1>4. Calm(w) /\ Of(c, w) /\ page'[w] = p /\ Only(c) /\ calls'[c] = NoCall => Calm(w)'
    <2> SUFFICES ASSUME Calm(w), Of(c, w), page'[w] = p, Only(c), calls'[c] = NoCall
                 PROVE  Calm(w)'
      OBVIOUS
    <2>1. ASSUME NEW u \in Shows(page[w].kind), NEW j \in Ids
          PROVE  \/ Shown(w, u, j)' = Shown(w, u, j) /\ ~Tells(c, w, u, j)
                 \/ page[w].shown /\ RowOK(w, u, j) => RowOK(w, u, j)'
      <3>1. u \in Tables
        BY ShowsTables DEF TInv, TypesOK, PagesOK, PageType
      <3>2. CASE u = "envs"
        <4>1. Shown(w, "envs", j)' = f[j]
          BY <1>2, <1>3, <3>1, <3>2 DEF Shown
        <4>2. Due(w, "envs", j)' = Due(w, "envs", j)
          BY <1>2, <1>3, DueStays
        <4> QED BY <3>2, <4>1, <4>2
      <3>3. CASE u # "envs"
        <4>1. Shown(w, u, j)' = Shown(w, u, j)
          BY <1>2, <1>3, <3>1, <3>3 DEF Shown
        <4>2. ~Tells(c, w, u, j)
          BY <3>3 DEF Tells
        <4> QED BY <4>1, <4>2
      <3> QED BY <3>2, <3>3
    <2> QED BY <1>2, <1>3, <2>1, RowAnswered
  <1> QED BY <1>3, <1>4, AnswerShows

LEMMA DefaultArrivesShows == ASSUME IInv, TInv, NEW c \in Calls, DefaultArrives(c) PROVE TInv'
  <1>1. /\ calls[c] # NoCall /\ calls[c].kind = "default" /\ calls[c].phase = "done"
        /\ table' = table /\ apart' = apart /\ Answered(c)
    BY DEF DefaultArrives, Is
  <1>2. PICK w \in Windows, i \in Ids : w = calls[c].win /\ i = calls[c].id
    BY <1>1 DEF TInv, TypesOK, CarryOK, Carries
  <1>3. calls[c].in = "envs" /\ Default(calls[c])
    BY <1>1 DEF IInv, CallsOK, IsCall, Writing, Default
  <1>4. PICK old \in Rows("envs") : old = page[w].rows["envs"]
    BY DEF TInv, TypesOK, PagesOK, PageType, Lists, Tables
  <1>5. PICK f : f = [j \in Ids |-> CASE old[j] = Absent -> Absent
                                      [] old[j] # Absent /\ j = i -> "default"
                                      [] OTHER -> "plain"]
    OBVIOUS
  <1>6. /\ f \in Rows("envs")
        /\ \A j \in Ids : f[j] = IF old[j] = Absent THEN Absent
                                 ELSE IF j = i THEN "default" ELSE "plain"
    BY <1>5, ValuesAre DEF Rows
  <1>7. PICK p : p = PutRows(page[w], f)
    OBVIOUS
  <1>8. Takes(c, p)
    <2>1. p = [page[w] EXCEPT !.rows["envs"] = [j \in Ids |->
                   CASE @[j] = Absent -> Absent [] @[j] # Absent /\ j = i -> "default" [] OTHER -> "plain"]]
      BY <1>4, <1>5, <1>7 DEF PutRows
    <2>2. p = [Mine(c) EXCEPT !.rows["envs"] = [j \in Ids |->
                   CASE @[j] = Absent -> Absent [] @[j] # Absent /\ j = calls[c].id -> "default" [] OTHER -> "plain"]]
      BY <1>2, <2>1 DEF Mine
    <2> QED BY <2>2, Zenon DEF DefaultArrives
  <1>9. ASSUME NEW j \in Ids, RowOK(w, "envs", j), Of(c, w), Only(c), calls'[c] = NoCall,
               Shown(w, "envs", j)' = f[j], Due(w, "envs", j)' = Due(w, "envs", j)
        PROVE  RowOK(w, "envs", j)'
    <2>1. Moving(c, w)
      BY <1>1, <1>3, <1>9 DEF Moving
    <2>2. table["envs"][j] \in {"plain", "default", Absent}
      BY RowIs, ValuesAre DEF TInv, TypesOK, PlainOK, Tables
    <2>3. Due(w, "envs", j) = table["envs"][j]
      BY DueIs
    <2>4. ~DidOne(c, w, Adds, "envs", j) /\ ~DidOne(c, w, Drops, "envs", j)
      BY <1>1 DEF DidOne, Did, Adds, Drops
    <2>5. Shown(w, "envs", j) = old[j]
      BY <1>4 DEF Shown
    <2> QED BY <1>1, <1>2, <1>6, <1>9, <2>1, <2>2, <2>3, <2>4, <2>5, SettledRow
  <1> QED BY <1>1, <1>2, <1>3, <1>6, <1>7, <1>8, <1>9, EnvsAnswered

LEMMA CreateArrivesShows == ASSUME IInv, TInv, NEW c \in Calls, CreateArrives(c) PROVE TInv'
  <1>1. /\ calls[c] # NoCall /\ calls[c].kind = "create" /\ calls[c].phase = "done"
        /\ table' = table /\ apart' = apart /\ Answered(c)
    BY DEF CreateArrives, Is
  <1>2. PICK w \in Windows, i \in Ids, to \in Values("envs") :
           w = calls[c].win /\ i = calls[c].id /\ to = calls[c].to
    BY <1>1 DEF TInv, TypesOK, CarryOK, Carries, Adds
  <1>3. calls[c].in = "envs" /\ (Default(calls[c]) <=> to = "default")
    BY <1>1, <1>2 DEF IInv, CallsOK, IsCall, Writing, Default
  <1>4. PICK old \in Rows("envs") : old = page[w].rows["envs"]
    BY DEF TInv, TypesOK, PagesOK, PageType, Lists, Tables
  <1>5. PICK f : f = [j \in Ids |-> CASE j = i -> to
                                      [] j # i /\ to = "default" /\ old[j] = "default" -> "plain"
                                      [] OTHER -> old[j]]
    OBVIOUS
  <1>6. /\ f \in Rows("envs")
        /\ \A j \in Ids : f[j] = IF j = i THEN to
                                 ELSE IF to = "default" /\ old[j] = "default" THEN "plain" ELSE old[j]
    BY <1>5, ValuesAre DEF Rows
  <1>7. PICK p : p = Free(PutRows(page[w], f))
    OBVIOUS
  <1>8. Takes(c, p)
    <2>1. PICK g : g = [j \in Ids |->
                          CASE j = calls[c].id -> calls[c].to
                            [] j # calls[c].id /\ Default(calls[c]) /\ old[j] = "default" -> "plain"
                            [] OTHER -> old[j]]
      OBVIOUS
    <2>2. g = f
      BY <1>2, <1>3, <1>5, <2>1
    <2>3. p = [page[w] EXCEPT !.rows["envs"] = g, !.busy = FALSE]
      BY <1>7, <2>2, Zenon DEF PutRows, Free
    <2>4. PICK q : q = [page[w] EXCEPT !.busy = FALSE, !.rows["envs"] = g]
      OBVIOUS
    <2>5. p = q
      <3>1. page[w] \in PageType
        BY DEF TInv, TypesOK, PagesOK
      <3> QED BY <2>3, <2>4, <3>1 DEF PageType
    <2>6. q = [page[w] EXCEPT !.busy = FALSE, !.rows["envs"] = [j \in Ids |->
                 CASE j = calls[c].id -> calls[c].to
                   [] j # calls[c].id /\ Default(calls[c]) /\ @[j] = "default" -> "plain"
                   [] OTHER -> @[j]]]
      <3>1. PICK z : z = [page[w] EXCEPT !.busy = FALSE]
        OBVIOUS
      <3>2. z.rows["envs"] = old
        <4>1. page[w] \in PageType
          BY DEF TInv, TypesOK, PagesOK
        <4> QED BY <1>4, <3>1, <4>1 DEF PageType
      <3>3. q = [z EXCEPT !.rows["envs"] = g]
        BY <2>4, <3>1, Zenon
      <3>4. q = [z EXCEPT !.rows["envs"] = [j \in Ids |->
                   CASE j = calls[c].id -> calls[c].to
                     [] j # calls[c].id /\ Default(calls[c]) /\ @[j] = "default" -> "plain"
                     [] OTHER -> @[j]]]
        BY <2>1, <3>2, <3>3, Zenon
      <3> QED BY <3>1, <3>4, Zenon
    <2>7. q = [Mine(c) EXCEPT !.busy = FALSE, !.rows["envs"] = [j \in Ids |->
                 CASE j = calls[c].id -> calls[c].to
                   [] j # calls[c].id /\ Default(calls[c]) /\ @[j] = "default" -> "plain"
                   [] OTHER -> @[j]]]
      BY <1>2, <2>6, Zenon DEF Mine
    <2> QED BY <2>5, <2>7, Zenon DEF CreateArrives
  <1>9. ASSUME NEW j \in Ids, RowOK(w, "envs", j), Of(c, w), Only(c), calls'[c] = NoCall,
               Shown(w, "envs", j)' = f[j], Due(w, "envs", j)' = Due(w, "envs", j)
        PROVE  RowOK(w, "envs", j)'
    <2>1. Shown(w, "envs", j) = old[j] /\ Due(w, "envs", j) = table["envs"][j]
      BY <1>4, DueIs DEF Shown
    <2>2. "default" # Absent /\ "plain" # Absent /\ to # Absent
      BY AbsentAssumption, ValuesAre DEF Tables
    <2>3. table["envs"][j] \in {"plain", "default", Absent} /\ old[j] \in {"plain", "default", Absent}
      BY RowIs, ValuesAre, <1>4 DEF TInv, TypesOK, PlainOK, Tables, Rows
    <2>4. CASE j = i
      BY <1>1, <1>2, <1>3, <1>6, <1>9, <2>2, <2>4, AddedRow DEF Adds
    <2>5. CASE j # i
      <3>1. ~DidOne(c, w, Adds, "envs", j) /\ ~DidOne(c, w, Drops, "envs", j)
            /\ ~Did(c, w, "role", "envs", j)
        BY <1>1, <1>2, <2>5 DEF DidOne, Did
      <3>2. CASE to = "default"
        <4>1. Moving(c, w)
          BY <1>1, <1>3, <1>9, <3>2 DEF Moving
        <4> QED BY <1>1, <1>2, <1>6, <1>9, <2>1, <2>2, <2>3, <2>5, <3>1, <3>2, <4>1, SettledRow
      <3>3. CASE to # "default"
        <4>1. ~Moving(c, w)
          BY <1>3, <3>3 DEF Moving
        <4>2. Shown(w, "envs", j)' = Shown(w, "envs", j)
          BY <1>6, <1>9, <2>1, <2>5, <3>3
        <4>3. \A d \in Calls : DidOne(d, w, Adds, "envs", j) => Shown(w, "envs", j) = Absent
          BY <1>9 DEF RowOK
        <4> QED BY <1>1, <1>9, <3>1, <4>1, <4>2, <4>3, AnsweredRow
      <3> QED BY <3>2, <3>3
    <2> QED BY <2>4, <2>5
  <1> QED BY <1>1, <1>2, <1>3, <1>6, <1>7, <1>8, <1>9, EnvsAnswered

\* The page of a request that failed: its message and its buttons.
Message(q, x) == [q EXCEPT !.shown = @ \/ x.kind = "load",
                           !.busy = @ /\ x.kind \notin {"invite", "add", "create"},
                           !.acting = IF x.kind = "decide" THEN Absent ELSE @]

LEMMA MessageIs ==
  ASSUME NEW q \in PageType, NEW x
  PROVE  /\ Message(q, x) \in PageType /\ Message(q, x).kind = q.kind /\ Message(q, x).tab = q.tab
         /\ Message(q, x).rows = q.rows
         /\ x.kind # "load" => Message(q, x).shown = q.shown
  <1>1. PICK s \in BOOLEAN : s = (q.shown \/ x.kind = "load")
    OBVIOUS
  <1>2. PICK b \in BOOLEAN : b = (q.busy /\ x.kind \notin {"invite", "add", "create"})
    OBVIOUS
  <1>3. PICK a \in Ids \cup {Absent} : a = IF x.kind = "decide" THEN Absent ELSE q.acting
    BY DEF PageType
  <1>4. Message(q, x) = [q EXCEPT !.shown = s, !.busy = b, !.acting = a]
    BY <1>1, <1>2, <1>3 DEF Message, PageType
  <1>5. x.kind # "load" => s = q.shown
    BY <1>1 DEF PageType
  <1> HIDE DEF Message
  <1> QED BY <1>4, <1>5 DEF PageType

LEMMA ToldShows ==
  ASSUME IInv, TInv, NEW c \in Calls, Refused(c) \/ Fails(c)
  PROVE  TInv'
  <1>1. /\ calls[c] # NoCall /\ table' = table /\ Answered(c) /\ Told(c)
        /\ \/ calls[c].phase = "refused" /\ apart' = apart
           \/ apart' = apart \cup {calls[c].win}
    BY DEF Refused, Fails, Told
  <1>2. PICK w \in Windows : w = calls[c].win
    BY <1>1 DEF TInv, TypesOK, CarryOK, Carries
  <1>3. PICK p : p = Message(page[w], calls[c])
    OBVIOUS
  <1>4. Takes(c, p)
    BY <1>1, <1>2, <1>3, Zenon DEF Told, Mine, Message
  <1>5. /\ p \in PageType /\ p.kind = page[w].kind /\ p.tab = page[w].tab /\ p.rows = page[w].rows
        /\ calls[c].kind # "load" => p.shown = page[w].shown
    BY <1>3, MessageIs DEF TInv, TypesOK, PagesOK
  <1>6. calls[c].phase = "refused" /\ Calm(w) /\ Of(c, w) /\ page'[w] = p /\ Only(c)
           /\ calls'[c] = NoCall => Calm(w)'
    <2> SUFFICES ASSUME calls[c].phase = "refused", Calm(w), Of(c, w), page'[w] = p, Only(c),
                        calls'[c] = NoCall
                 PROVE  Calm(w)'
      OBVIOUS
    <2>1. calls[c].kind # "load"
      BY <1>1 DEF TInv, TypesOK, CarryOK, Carries
    <2>2. \A u \in Shows(page[w].kind), j \in Ids :
             Shown(w, u, j)' = Shown(w, u, j) /\ ~Tells(c, w, u, j)
      BY <1>5 DEF Shown, Tells
    <2> QED BY <1>1, <1>5, <2>1, <2>2, RowAnswered
  <1>7. apart' = apart \/ apart' = apart \cup {w}
    BY <1>1, <1>2
  <1>8. calls[c].phase = "refused" \/ w \in apart'
    BY <1>1, <1>2
  <1> QED BY <1>1, <1>2, <1>4, <1>5, <1>6, <1>7, <1>8, AnswerShows

-----------------------------------------------------------------------------
(* Handlers *)

\* A handler moves its request; a window whose list it makes old is noted.
LEMMA ApiShows ==
  ASSUME IInv, TInv, NEW c \in Calls, calls[c] # NoCall, NEW w, w = calls[c].win,
         NEW x, IsCall(x), Same(calls[c], x), Carries(x), calls' = [calls EXCEPT ![c] = x],
         page' = page, PlainOK',
         \/ table' = table /\ apart' = apart
         \/ apart \subseteq apart' /\ \A v \in Windows : v # w \/ ~Of(c, w) => v \in apart',
         \/ Calm(w)'
         \/ w \in apart'
         \/ ~Calm(w)
         \/ ~(Of(c, w) /\ Of(c, w)' /\ Only(c) /\ calls'[c] = x)
  PROVE  TInv'
  <1>1. calls'[c] = x /\ Only(c)
    BY OneChanges DEF IInv, Only
  <1>2. TypesOK'
    <2>1. CarryOK'
      BY <1>1, OneCarries DEF TInv, TypesOK
    <2> QED BY <2>1 DEF TInv, TypesOK, PagesOK
  <1>3. w \in Windows
    BY DEF TInv, TypesOK, CarryOK, Carries
  <1>4. Of(c, w)' <=> Of(c, w)
    BY <1>1, SameFlag, CallIsThere DEF Of, Same
  <1>5. \A v \in Windows : SamePage(v)
    BY DEF SamePage
  <1>6. \A v \in Windows, d \in Calls :
           v # w \/ ~Of(c, w) => calls'[d] = calls[d] \/ (~Of(d, v) /\ ~Of(d, v)')
    BY <1>1, <1>4 DEF Only, Of, Same
  <1>7. \A v \in Windows : v # w => WindowOK(v)'
    <2>1. CASE table' = table /\ apart' = apart
      BY <1>3, <1>5, <1>6, <2>1, OthersCalm
    <2>2. CASE \A v \in Windows : v # w \/ ~Of(c, w) => v \in apart'
      BY <2>2 DEF WindowOK
    <2> QED BY <2>1, <2>2
  <1>8. WindowOK(w)'
    <2> SUFFICES ASSUME w \notin apart' PROVE Calm(w)'
      BY DEF WindowOK
    <2>1. Calm(w)
      BY <1>3 DEF TInv, WindowOK
    <2>2. CASE Of(c, w)
      BY <1>1, <1>4, <2>1, <2>2
    <2>3. CASE ~Of(c, w)
      <3>1. table' = table
        BY <1>3, <2>3
      <3> QED BY <1>3, <1>5, <1>6, <2>1, <2>3, <3>1, ElseCalm
    <2> QED BY <2>2, <2>3
  <1> QED BY <1>2, <1>7, <1>8 DEF TInv

\* What a handler says while nothing is written.
LEMMA StepShown ==
  ASSUME IInv, TInv, NEW c \in Calls, calls[c] # NoCall, calls[c].kind # "load",
         calls[c].phase \notin {"cleared", "done"}, NEW p \in {"read", "checked", "refused"},
         Becomes(c, p), UNCHANGED <<table, page, apart>>
  PROVE  TInv'
  <1>1. PICK w : w = calls[c].win
    OBVIOUS
  <1>2. PICK x : /\ IsCall(x) /\ x.phase = p /\ x.id = calls[c].id
                 /\ Same(calls[c], x) /\ x.rows = calls[c].rows
                 /\ calls' = [calls EXCEPT ![c] = x]
    BY Becoming
  <1>3. Carries(x)
    <2>1. Carries(calls[c]) /\ Flagged(x)
      BY <1>2, SameFlag DEF TInv, TypesOK, CarryOK, Carries
    <2> QED BY <1>2, <2>1 DEF Carries, Same, Phases
  <1>4. Calm(w) /\ Of(c, w) /\ Of(c, w)' /\ Only(c) /\ calls'[c] = x => Calm(w)'
    <2> SUFFICES ASSUME Calm(w), Of(c, w), Of(c, w)', Only(c), calls'[c] = x
                 PROVE  Calm(w)'
      OBVIOUS
    <2>1. ASSUME NEW t \in Shows(page[w].kind), NEW i \in Ids, RowOK(w, t, i)
          PROVE  RowOK(w, t, i)'
      <3>1. Due(w, t, i)' = Due(w, t, i) /\ Shown(w, t, i)' = Shown(w, t, i)
        BY DueStays DEF Shown
      <3>2. \A d \in Calls : calls'[d] = calls[d] \/ (~Tells(d, w, t, i) /\ ~Tells(d, w, t, i)')
        BY <1>2 DEF Only, Tells
      <3>3. \A d \in Calls : Of(d, w)' /\ calls'[d].in = t /\ calls'[d].id = i =>
               Of(d, w) /\ calls[d].in = t /\ calls[d].id = i
        BY <1>2 DEF Only, Of, Same
      <3> QED BY <2>1, <3>1, <3>2, <3>3, StillRow
    <2> QED BY <1>2, <2>1, CalmFrom
  <1>5. PlainOK'
    BY DEF TInv, TypesOK, PlainOK, OneSecretEach
  <1> QED BY <1>1, <1>2, <1>3, <1>4, <1>5, ApiShows

\* One row of a table is written.
OneRow(t, i, v) ==
    /\ table' \in Lists /\ table'[t][i] = v
    /\ \A u \in Tables, j \in Ids : ~(u = t /\ j = i) => table'[u][j] = table[u][j]

LEMMA TableRow ==
  ASSUME table \in Lists, NEW t \in Tables, NEW i \in Ids, NEW v \in Values(t) \cup {Absent},
         table' = [table EXCEPT ![t] = [table[t] EXCEPT ![i] = v]]
  PROVE  OneRow(t, i, v)
  <1>1. PICK row : row = [table[t] EXCEPT ![i] = v]
    OBVIOUS
  <1>2. table[t] \in Rows(t)
    BY DEF Lists
  <1>3. row \in Rows(t) /\ \A j \in Ids : row[j] = IF j = i THEN v ELSE table[t][j]
    BY <1>1, <1>2 DEF Rows
  <1>4. \A u \in Tables : table'[u] = IF u = t THEN row ELSE table[u]
    BY <1>1 DEF Lists
  <1>5. row \in [Ids -> Cells]
    BY <1>3 DEF Rows, Cells
  <1>6. table' \in [Tables -> [Ids -> Cells]]
    BY <1>1, <1>5 DEF Lists
  <1>7. table' \in Lists
    BY <1>3, <1>4, <1>6 DEF Lists
  <1> QED BY <1>3, <1>4, <1>7 DEF OneRow

\* The window whose request it was.
LEMMA RowWrites ==
  ASSUME IInv, TInv, NEW c \in Calls, NEW w \in Windows, NEW t \in Tables, NEW i \in Ids, NEW v,
         Wrote(c, w), Calm(w), calls[c].kind # "load", calls[c].in = t, calls'[c].id = i,
         calls[c].id = i \/ (calls[c].kind \in Adds /\ calls[c].id = Absent),
         ~Default(calls[c]) \/ calls[c].phase = "cleared",
         page' = page, OneRow(t, i, v),
         page[w].shown /\ t \in Shows(page[w].kind) /\ RowOK(w, t, i) => RowOK(w, t, i)'
  PROVE  Calm(w)'
  <1>1. \A d \in Calls : d # c /\ Of(d, w) /\ calls[d].kind = "decide" =>
            table'["shots"][calls[d].id] = table["shots"][calls[d].id]
    <2> SUFFICES ASSUME NEW d \in Calls, d # c, Of(d, w), calls[d].kind = "decide"
                 PROVE  table'["shots"][calls[d].id] = table["shots"][calls[d].id]
      OBVIOUS
    <2>1. PICK j \in Ids : j = calls[d].id
      BY DEF Of, TInv, TypesOK, CarryOK, Carries
    <2>2. ~(t = "shots" /\ j = i)
      <3> SUFFICES ASSUME t = "shots", j = i PROVE FALSE
        OBVIOUS
      <3>1. calls[c].kind = "decide"
        BY DEF Wrote, Of, IInv, CallsOK, IsCall, Writing, TInv, TypesOK, CarryOK, Carries
      <3> QED BY <2>1, <3>1 DEF Calm, Single, Cross, Wrote, Adds
    <2> QED BY <2>1, <2>2 DEF OneRow, Tables
  <1>2. ASSUME NEW u \in Shows(page[w].kind), NEW j \in Ids, page[w].shown, RowOK(w, u, j)
        PROVE  RowOK(w, u, j)'
    <2>1. u \in Tables
      BY ShowsTables DEF TInv, TypesOK, PagesOK, PageType
    <2>2. CASE u = t /\ j = i
      BY <1>2, <2>2
    <2>3. CASE ~(u = t /\ j = i)
      <3>1. table'[u][j] = table[u][j]
        BY <2>1, <2>3 DEF OneRow
      <3>2. Due(w, u, j)' = Due(w, u, j) /\ Shown(w, u, j)' = Shown(w, u, j)
        BY <3>1, DueStays DEF Shown
      <3>3. CASE ~(u = "envs" /\ Default(calls[c]))
        <4>1. ~Tells(c, w, u, j)
          BY <2>3, <3>3, AbsentAssumption DEF Tells, Moving
        <4>2. ~Tells(c, w, u, j)'
          BY <2>3, <3>3 DEF Tells, Moving, Default, Wrote, Same
        <4>3. \A d \in Calls : calls'[d] = calls[d] \/ (~Tells(d, w, u, j) /\ ~Tells(d, w, u, j)')
          BY <4>1, <4>2 DEF Wrote, Only
        <4>4. \A d \in Calls : Of(d, w)' /\ calls'[d].in = u /\ calls'[d].id = j =>
                 Of(d, w) /\ calls[d].in = u /\ calls[d].id = j
          BY <2>3 DEF Wrote, Only, Of, Same
        <4> QED BY <1>2, <3>1, <3>2, <4>3, <4>4, StillRow
      <3>4. CASE u = "envs" /\ Default(calls[c])
        <4>1. t = "envs" /\ calls[c].phase = "cleared"
          BY <3>4 DEF Default, Wrote, Of, IInv, CallsOK, IsCall, Writing
        <4>2. j # i /\ j # calls[c].id
          BY <2>3, <3>4, <4>1, AbsentAssumption DEF Wrote, Of, Adds, IInv, CallsOK, IsCall, Writing
        <4> QED BY <1>2, <3>1, <3>2, <3>4, <4>1, <4>2, MovingRow DEF IInv, Calm
      <3> QED BY <3>3, <3>4
    <2> QED BY <2>2, <2>3
  <1>3. Of(c, w) /\ Only(c) /\ Same(calls[c], calls'[c]) /\ calls'[c].phase # "sent"
        /\ (calls[c].kind \in {"role", "decide"} => calls'[c].id = calls[c].id)
    BY DEF Wrote, Adds
  <1> QED BY <1>1, <1>2, <1>3, CalmFrom

\* No name gets a second secret by the write of one row.
LEMMA RowPlain ==
  ASSUME TInv, NEW t \in Tables, NEW i \in Ids, NEW v, OneRow(t, i, v),
         t = "secrets" => v = Absent \/ ~Taken(v), apart' \subseteq Windows
  PROVE  PlainOK'
  <1>1. \A j \in Ids : table'["secrets"][j] = IF t = "secrets" /\ j = i THEN v ELSE table["secrets"][j]
    BY DEF OneRow, Tables
  <1>2. OneSecretEach'
    BY <1>1 DEF OneSecretEach, Taken, TInv, TypesOK, PlainOK
  <1> QED BY <1>2 DEF PlainOK, OneRow

\* A handler that writes v into row i of table t and is done: x is its request.
Works(c, w, t, i, v, x) ==
    /\ calls[c] # NoCall /\ calls[c].kind # "load" /\ calls[c].phase # "done"
    /\ w = calls[c].win /\ t = calls[c].in /\ v \in Values(t) \cup {Absent}
    /\ calls[c].id = i \/ calls[c].kind \in Adds
    /\ ~Default(calls[c]) \/ calls[c].phase = "cleared"
    /\ t = "secrets" => v = Absent \/ ~Taken(v)
    /\ Writes(c, [table[t] EXCEPT ![i] = v]) /\ page' = page
    /\ IsCall(x) /\ Same(calls[c], x) /\ x.id = i /\ x.rows = calls[c].rows /\ x.phase = "done"
    /\ calls' = [calls EXCEPT ![c] = x]

LEMMA RowWritten ==
  ASSUME IInv, TInv, NEW c \in Calls, NEW w, NEW t \in Tables, NEW i \in Ids, NEW v, NEW x,
         Works(c, w, t, i, v, x),
         \/ RowOK(w, t, i)'
         \/ ~RowOK(w, t, i)
         \/ ~(Calm(w) /\ Wrote(c, w) /\ calls'[c] = x /\ page[w].shown /\ t \in Shows(page[w].kind))
         \/ ~(Shown(w, t, i)' = Shown(w, t, i) /\ OneRow(t, i, v))
  PROVE  TInv'
  <1>a. /\ calls[c] # NoCall /\ calls[c].kind # "load" /\ calls[c].phase # "done"
        /\ w = calls[c].win /\ t = calls[c].in /\ v \in Values(t) \cup {Absent}
        /\ calls[c].id = i \/ calls[c].kind \in Adds
        /\ ~Default(calls[c]) \/ calls[c].phase = "cleared"
        /\ t = "secrets" => v = Absent \/ ~Taken(v)
    BY DEF Works
  <1>b. /\ IsCall(x) /\ Same(calls[c], x) /\ x.id = i /\ x.rows = calls[c].rows /\ x.phase = "done"
        /\ calls' = [calls EXCEPT ![c] = x]
    BY DEF Works
  <1>c. Writes(c, [table[t] EXCEPT ![i] = v]) /\ page' = page
    BY DEF Works
  <1>1. OneRow(t, i, v)
    BY <1>a, <1>c, TableRow DEF Writes, TInv, TypesOK, PlainOK
  <1>2. apart' = apart \cup {u \in Windows : u # w \/ ~calls[c].live}
    BY <1>a, <1>c DEF Writes
  <1>3. Carries(calls[c]) /\ Flagged(x)
    BY <1>a, <1>b, SameFlag DEF TInv, TypesOK, CarryOK, Carries
  <1>4. Carries(x)
    BY <1>a, <1>b, <1>3 DEF Carries, Same, Phases
  <1>5. PlainOK'
    <2>1. apart' \subseteq Windows
      BY <1>2 DEF TInv, TypesOK, PlainOK
    <2> QED BY <1>1, <1>a, <2>1, RowPlain
  <1>6. apart \subseteq apart' /\ \A u \in Windows : u # w \/ ~Of(c, w) => u \in apart'
    BY <1>a, <1>2, <1>3 DEF Of, Seen, Flagged, Carries
  <1>7. Calm(w) /\ Of(c, w) /\ Of(c, w)' /\ Only(c) /\ calls'[c] = x => Calm(w)'
    <2> SUFFICES ASSUME Calm(w), Of(c, w), Of(c, w)', Only(c), calls'[c] = x
                 PROVE  Calm(w)'
      OBVIOUS
    <2>1. Wrote(c, w)
      BY <1>a, <1>b DEF Wrote
    <2>2. Shown(w, t, i)' = Shown(w, t, i)
      BY <1>c DEF Shown
    <2>3. calls[c].id = i \/ (calls[c].kind \in Adds /\ calls[c].id = Absent)
      BY <1>a, <1>3 DEF Carries
    <2>4. w \in Windows
      BY <1>a, <1>3 DEF Carries
    <2> QED BY <1>a, <1>b, <1>c, <1>1, <2>1, <2>2, <2>3, <2>4, RowWrites
  <1> QED BY <1>a, <1>b, <1>c, <1>4, <1>5, <1>6, <1>7, ApiShows

LEMMA UpdateShows == ASSUME IInv, TInv, NEW c \in Calls, Update(c) PROVE TInv'
  <1>1. /\ calls[c] # NoCall /\ calls[c].kind \in {"role", "decide"} /\ calls[c].phase = "sent"
        /\ page' = page
    BY DEF Update, Is
  <1>2. CASE Row(c) = Absent
    <2>1. Becomes(c, "refused") /\ UNCHANGED <<table, page, apart>>
      BY <1>1, <1>2 DEF Update
    <2> QED BY <1>1, <2>1, StepShown
  <1>3. CASE Row(c) # Absent
    <2>1. PICK w \in Windows, i \in Ids, v \in {calls[c].to} :
            w = calls[c].win /\ i = calls[c].id /\ v = calls[c].to
      BY <1>1 DEF TInv, TypesOK, CarryOK, Carries
    <2>2. PICK t \in Tables : t = calls[c].in
      BY <1>1 DEF IInv, CallsOK, IsCall, Writing, Tables
    <2>3. /\ calls[c].kind = "role" => t = "people" /\ v \in Roles
          /\ calls[c].kind = "decide" => t = "shots" /\ v \in Decisions
      BY <1>1, <2>1, <2>2
         DEF TInv, TypesOK, CarryOK, Carries, IInv, CallsOK, IsCall, Writing
    <2>4. v \in Values(t) /\ v # Absent /\ t # "secrets"
      BY <1>1, <2>3, ValuesAre, AbsentAssumption DEF Tabs, Decisions
    <2>5. Writes(c, [table[t] EXCEPT ![i] = v]) /\ Becomes(c, "done")
      BY <1>3, <2>1, <2>2 DEF Update, Put
    <2>6. PICK x : /\ IsCall(x) /\ x.phase = "done" /\ x.id = calls[c].id
                   /\ Same(calls[c], x) /\ x.rows = calls[c].rows
                   /\ calls' = [calls EXCEPT ![c] = x]
      BY <1>1, <2>5, Becoming
    <2>7. ASSUME RowOK(w, t, i), Calm(w), Wrote(c, w), calls'[c] = x,
                 Shown(w, t, i)' = Shown(w, t, i), OneRow(t, i, v)
          PROVE  RowOK(w, t, i)'
      <3>1. Due(w, t, i) = IF \/ t = "invites" /\ table[t][i] # "pending"
                              \/ t = "shots" /\ table[t][i] # page[w].tab
                           THEN Absent ELSE table[t][i]
        BY DueIs
      <3>2. Due(w, t, i)' = IF \/ t = "invites" /\ table'[t][i] # "pending"
                               \/ t = "shots" /\ table'[t][i] # page'[w].tab
                            THEN Absent ELSE table'[t][i]
        BY DueIsNow
      <3>3. table[t][i] # Absent /\ table'[t][i] = v
        BY <1>3, <2>1, <2>2, <2>7 DEF Row, OneRow
      <3>4. CASE calls[c].kind = "role"
        <4>1. t = "people" /\ Due(w, t, i) # Absent /\ Due(w, t, i)' # Absent
          BY <2>3, <2>4, <3>1, <3>2, <3>3, <3>4
        <4> QED BY <2>1, <2>2, <2>6, <2>7, <3>3, <3>4, <4>1, RoleRow DEF IInv, Calm
      <3>5. CASE calls[c].kind = "decide"
        <4>1. page[w].tab = "pending_review"
          BY <2>7, <3>5 DEF Calm, DecideOK, Wrote
        <4>2. t = "shots" /\ Due(w, t, i)' = Absent
          BY <1>1, <2>3, <3>2, <3>3, <3>5, <4>1 DEF Decisions
        <4> QED BY <2>1, <2>2, <2>6, <2>7, <3>5, <4>2, DropRow DEF IInv, Drops
      <3> QED BY <1>1, <3>4, <3>5
    <2>8. ~Default(calls[c]) /\ calls[c].kind # "load" /\ calls[c].phase # "done"
      BY <1>1 DEF Default
    <2>9. Works(c, w, t, i, v, x)
      BY <1>1, <2>1, <2>2, <2>4, <2>5, <2>6, <2>8 DEF Works
    <2> QED BY <2>7, <2>9, RowWritten
  <1> QED BY <1>2, <1>3

\* A row is taken from its table.
LEMMA DropShows ==
  ASSUME IInv, TInv, NEW c \in Calls, Delete(c) \/ RevokeInvitation(c)
  PROVE  TInv'
  <1>1. /\ calls[c] # NoCall /\ calls[c].kind \in {"delete", "revoke"} /\ calls[c].phase = "sent"
        /\ page' = page
    BY DEF Delete, RevokeInvitation, Is
  <1>2. CASE Delete(c) /\ Row(c) = Absent
    <2>1. Becomes(c, "refused") /\ UNCHANGED <<table, page, apart>>
      BY <1>1, <1>2 DEF Delete
    <2> QED BY <1>1, <2>1, StepShown
  <1>3. CASE RevokeInvitation(c) \/ Row(c) # Absent
    <2>1. PICK w \in Windows, i \in Ids, v \in {Absent, "revoked"} :
            /\ w = calls[c].win /\ i = calls[c].id
            /\ v = IF calls[c].kind = "revoke" THEN "revoked" ELSE Absent
      BY <1>1 DEF TInv, TypesOK, CarryOK, Carries
    <2>2. PICK t \in Tables : t = calls[c].in
      BY <1>1 DEF IInv, CallsOK, IsCall, Writing, Tables
    <2>3. calls[c].kind = "revoke" => t = "invites"
      BY <1>1, <2>2 DEF IInv, CallsOK, IsCall, Writing
    <2>4. /\ v \in Values(t) \cup {Absent}
          /\ t = "people" => v = Absent
          /\ t = "envs" => v = Absent
          /\ t = "secrets" => v = Absent
          /\ t = "invites" => v # "pending"
          /\ calls[c].kind # "revoke" => v = Absent
      BY <2>1, <2>3, ValuesAre, AbsentAssumption DEF Tables
    <2>5. Writes(c, [table[t] EXCEPT ![i] = v]) /\ Becomes(c, "done")
      BY <1>1, <1>3, <2>1, <2>2 DEF Delete, RevokeInvitation, Is, Put
    <2>6. PICK x : /\ IsCall(x) /\ x.phase = "done" /\ x.id = calls[c].id
                   /\ Same(calls[c], x) /\ x.rows = calls[c].rows
                   /\ calls' = [calls EXCEPT ![c] = x]
      BY <1>1, <2>5, Becoming
    <2>7. ASSUME RowOK(w, t, i), Calm(w), Wrote(c, w), calls'[c] = x,
                 Shown(w, t, i)' = Shown(w, t, i), OneRow(t, i, v)
          PROVE  RowOK(w, t, i)'
      <3>1. Due(w, t, i)' = IF \/ t = "invites" /\ table'[t][i] # "pending"
                               \/ t = "shots" /\ table'[t][i] # page'[w].tab
                            THEN Absent ELSE table'[t][i]
        BY DueIsNow
      <3>2. table'[t][i] = v
        BY <2>7 DEF OneRow
      <3>3. Due(w, t, i)' = Absent
        BY <2>3, <2>4, <3>1, <3>2
      <3> QED BY <1>1, <2>1, <2>2, <2>4, <2>6, <2>7, <3>2, <3>3, DropRow DEF IInv, Drops
    <2>8. ~Default(calls[c]) /\ calls[c].kind # "load" /\ calls[c].phase # "done"
      BY <1>1 DEF Default
    <2>9. Works(c, w, t, i, v, x)
      BY <1>1, <2>1, <2>2, <2>4, <2>5, <2>6, <2>8 DEF Works
    <2> QED BY <2>7, <2>9, RowWritten
  <1> QED BY <1>2, <1>3

\* A row is inserted.
LEMMA InsertShows ==
  ASSUME IInv, TInv, NEW c \in Calls, calls[c] # NoCall, calls[c].kind \in Adds,
         calls[c].phase # "done", NEW i, i \in New(calls[c].in), Insert(c, i), page' = page,
         ~Default(calls[c]) \/ calls[c].phase = "cleared",
         calls[c].kind = "add" => ~Taken(calls[c].to)
  PROVE  TInv'
  <1>1. PICK w \in Windows, v \in {calls[c].to} : w = calls[c].win /\ v = calls[c].to
    BY DEF TInv, TypesOK, CarryOK, Carries
  <1>2. PICK t \in Tables : t = calls[c].in
    BY DEF IInv, CallsOK, IsCall, Writing, Tables, Adds
  <1>3. /\ v \in Values(t) /\ t # "shots" /\ t # "people"
        /\ t = "invites" => v = "pending"
        /\ t = "secrets" => ~Taken(v)
    BY <1>1, <1>2, ValuesAre
       DEF TInv, TypesOK, CarryOK, Carries, IInv, CallsOK, IsCall, Writing, Adds
  <1>4. i \in Ids /\ page[w].rows[t][i] = Absent
        /\ \A d \in Calls : calls[d] # NoCall => calls[d].id # i
    BY <1>1, <1>2 DEF New
  <1>5. PICK x : /\ IsCall(x) /\ Same(calls[c], x) /\ x.rows = calls[c].rows
                 /\ x.phase = "done" /\ x.id = i /\ calls' = [calls EXCEPT ![c] = x]
    BY Inserting
  <1>6. Writes(c, [table[t] EXCEPT ![i] = v])
    BY <1>1, <1>2 DEF Insert
  <1>7. Works(c, w, t, i, v, x)
    BY <1>1, <1>2, <1>3, <1>5, <1>6 DEF Works, Adds
  <1>8. ASSUME RowOK(w, t, i), Calm(w), Wrote(c, w), calls'[c] = x,
               Shown(w, t, i)' = Shown(w, t, i), OneRow(t, i, v)
        PROVE  RowOK(w, t, i)'
    <2>1. \A d \in Calls : Of(d, w) => calls[d].id # i
      BY <1>4 DEF Of
    <2>2. Shown(w, t, i)' = Absent /\ table'[t][i] = v
      BY <1>4, <1>8 DEF Shown, OneRow
    <2> QED BY <1>1, <1>2, <1>5, <1>8, <2>1, <2>2, AddRow DEF IInv, Calm
  <1> QED BY <1>4, <1>7, <1>8, RowWritten

LEMMA InsertsShow ==
  ASSUME IInv, TInv, NEW c \in Calls,
         CreateInvitation(c) \/ InsertSecret(c) \/ InsertEnvironment(c)
  PROVE  TInv'
  <1>1. CASE CreateInvitation(c)
    <2>1. /\ calls[c] # NoCall /\ calls[c].kind = "invite" /\ calls[c].phase = "sent" /\ page' = page
      BY <1>1 DEF CreateInvitation, Is
    <2>2. calls[c].in = "invites" /\ ~Default(calls[c])
      BY <2>1 DEF Default, IInv, CallsOK, IsCall, Writing
    <2>3. PICK i : i \in New(calls[c].in) /\ Insert(c, i)
      BY <1>1, <2>2 DEF CreateInvitation
    <2> QED BY <2>1, <2>2, <2>3, InsertShows DEF Adds
  <1>2. CASE InsertSecret(c)
    <2>1. /\ calls[c] # NoCall /\ calls[c].kind = "add" /\ calls[c].phase = "checked" /\ page' = page
      BY <1>2 DEF InsertSecret, Is
    <2>2. calls[c].in = "secrets" /\ ~Default(calls[c])
      BY <2>1 DEF Default, IInv, CallsOK, IsCall, Writing
    <2>3. CASE Taken(calls[c].to)
      <3>1. Becomes(c, "refused") /\ UNCHANGED <<table, page, apart>>
        BY <1>2, <2>1, <2>3 DEF InsertSecret
      <3> QED BY <2>1, <3>1, StepShown
    <2>4. CASE ~Taken(calls[c].to)
      <3>1. PICK i : i \in New(calls[c].in) /\ Insert(c, i)
        BY <1>2, <2>2, <2>4 DEF InsertSecret
      <3> QED BY <2>1, <2>2, <2>4, <3>1, InsertShows DEF Adds
    <2> QED BY <2>3, <2>4
  <1>3. CASE InsertEnvironment(c)
    <2>1. /\ calls[c] # NoCall /\ calls[c].kind = "create" /\ page' = page
          /\ calls[c].phase = "cleared" \/ (calls[c].phase = "sent" /\ ~Default(calls[c]))
      BY <1>3 DEF InsertEnvironment, Is
    <2>2. calls[c].in = "envs"
      BY <2>1 DEF IInv, CallsOK, IsCall, Writing
    <2>3. PICK i : i \in New(calls[c].in) /\ Insert(c, i)
      BY <1>3, <2>2 DEF InsertEnvironment
    <2> QED BY <2>1, <2>2, <2>3, InsertShows DEF Adds
  <1> QED BY <1>1, <1>2, <1>3

\* Reads before a write.
LEMMA ChecksShow ==
  ASSUME IInv, TInv, NEW c \in Calls, CheckSecret(c) \/ ReadEnvironment(c)
  PROVE  TInv'
  <1>1. /\ calls[c] # NoCall /\ calls[c].kind \in {"add", "default"} /\ calls[c].phase = "sent"
        /\ UNCHANGED <<table, page, apart>>
    BY DEF CheckSecret, ReadEnvironment, Is
  <1>2. PICK p \in {"read", "checked", "refused"} : Becomes(c, p)
    BY DEF CheckSecret, ReadEnvironment
  <1> QED BY <1>1, <1>2, StepShown

LEMMA GiveDefaultShows == ASSUME IInv, TInv, NEW c \in Calls, GiveDefault(c) PROVE TInv'
  <1>1. /\ calls[c] # NoCall /\ calls[c].kind = "default" /\ calls[c].phase = "cleared"
        /\ page' = page
    BY DEF GiveDefault, Is
  <1>2. PICK w \in Windows, i \in Ids : w = calls[c].win /\ i = calls[c].id
    BY <1>1 DEF TInv, TypesOK, CarryOK, Carries
  <1>3. calls[c].in = "envs" /\ Default(calls[c])
    BY <1>1 DEF Default, IInv, CallsOK, IsCall, Writing
  <1>4. PICK p \in {"done", "refused"} : /\ Becomes(c, p)
                                         /\ p = "done" <=> Row(c) # Absent
    BY DEF GiveDefault
  <1>5. PICK x : /\ IsCall(x) /\ x.phase = p /\ x.id = calls[c].id
                 /\ Same(calls[c], x) /\ x.rows = calls[c].rows
                 /\ calls' = [calls EXCEPT ![c] = x]
    BY <1>1, <1>4, Becoming
  <1>6. CASE Row(c) = Absent
    <2>1. table' = table /\ apart' = Windows
      BY <1>6 DEF GiveDefault
    <2>2. Carries(calls[c]) /\ Flagged(x)
      BY <1>1, <1>5, SameFlag DEF TInv, TypesOK, CarryOK, Carries
    <2>3. Carries(x)
      BY <1>1, <1>4, <1>5, <2>2 DEF Carries, Same, Phases, Adds
    <2>4. PlainOK'
      BY <2>1 DEF TInv, TypesOK, PlainOK, OneSecretEach
    <2>5. apart \subseteq apart' /\ \A v \in Windows : v \in apart'
      BY <2>1 DEF TInv, TypesOK, PlainOK
    <2> QED BY <1>1, <1>2, <1>5, <2>3, <2>4, <2>5, ApiShows
  <1>7. CASE Row(c) # Absent
    <2> DEFINE t == "envs"
    <2>1. t \in Tables /\ "default" \in Values(t) /\ "default" # Absent
      BY ValuesAre, AbsentAssumption DEF Tables
    <2>2. Writes(c, [table[t] EXCEPT ![i] = "default"])
      BY <1>2, <1>3, <1>7 DEF GiveDefault, Put
    <2>3. Works(c, w, t, i, "default", x)
      BY <1>1, <1>2, <1>3, <1>4, <1>5, <1>7, <2>1, <2>2 DEF Works
    <2>4. ASSUME RowOK(w, t, i), Calm(w), Wrote(c, w), calls'[c] = x,
                 Shown(w, t, i)' = Shown(w, t, i), OneRow(t, i, "default")
          PROVE  RowOK(w, t, i)'
      <3>1. Due(w, t, i) = table[t][i] /\ Due(w, t, i)' = table'[t][i]
        BY DueIs, DueIsNow
      <3>2. table[t][i] # Absent /\ table'[t][i] = "default"
        BY <1>2, <1>3, <1>7, <2>4 DEF Row, OneRow
      <3> QED BY <1>1, <1>2, <1>3, <1>5, <2>1, <2>4, <3>1, <3>2, GiveRow DEF IInv, Calm
    <2> QED BY <2>1, <2>3, <2>4, RowWritten
  <1> QED BY <1>6, <1>7

LEMMA ClearDefaultShows == ASSUME IInv, TInv, NEW c \in Calls, ClearDefault(c) PROVE TInv'
  <1> DEFINE t == "envs"
  <1>1. /\ calls[c] # NoCall /\ calls[c].kind \in {"default", "create"}
        /\ calls[c].phase \notin {"done", "cleared"} /\ Becomes(c, "cleared")
        /\ Writes(c, NoDefault(calls[c].id)) /\ page' = page
    BY DEF ClearDefault, Is
  <1>2. calls[c].in = t /\ Default(calls[c])
    BY <1>1 DEF ClearDefault, Is, Default, IInv, CallsOK, IsCall, Writing
  <1>3. PICK w \in Windows : w = calls[c].win
    BY <1>1 DEF TInv, TypesOK, CarryOK, Carries
  <1>4. PICK x : /\ IsCall(x) /\ x.phase = "cleared" /\ x.id = calls[c].id
                 /\ Same(calls[c], x) /\ x.rows = calls[c].rows
                 /\ calls' = [calls EXCEPT ![c] = x]
    BY <1>1, Becoming
  <1>5. Carries(calls[c]) /\ Flagged(x)
    BY <1>1, <1>4, SameFlag DEF TInv, TypesOK, CarryOK, Carries
  <1>6. Carries(x)
    BY <1>1, <1>4, <1>5 DEF Carries, Same, Phases, Adds
  <1>7. PICK rows : rows = NoDefault(calls[c].id)
    OBVIOUS
  <1>8. table["envs"] \in Rows("envs")
    BY DEF TInv, TypesOK, PlainOK, Lists, Tables
  <1>9. /\ rows \in Rows("envs")
        /\ \A j \in Ids : rows[j] = IF j # calls[c].id /\ table["envs"][j] = "default"
                                    THEN "plain" ELSE table["envs"][j]
    BY <1>7, <1>8, ValuesAre DEF NoDefault, Rows
  <1>10. /\ table' = [table EXCEPT !["envs"] = rows]
         /\ apart' = apart \cup {v \in Windows : v # w \/ ~calls[c].live}
    BY <1>1, <1>2, <1>3, <1>7 DEF Writes
  <1>11. \A u \in Tables : table'[u] = IF u = t THEN rows ELSE table[u]
    BY <1>10 DEF TInv, TypesOK, PlainOK, Lists
  <1>12. PlainOK'
    <2>1. rows \in [Ids -> Cells]
      BY <1>9 DEF Rows, Cells, Tables
    <2>2. table' \in [Tables -> [Ids -> Cells]]
      BY <1>10, <2>1 DEF TInv, TypesOK, PlainOK, Lists
    <2>3. table' \in Lists
      BY <1>9, <1>11, <2>2 DEF TInv, TypesOK, PlainOK, Lists
    <2>4. table'["secrets"] = table["secrets"]
      BY <1>11 DEF Tables
    <2>5. OneSecretEach'
      BY <2>4 DEF OneSecretEach, TInv, TypesOK, PlainOK
    <2> QED BY <1>10, <2>3, <2>5 DEF PlainOK, TInv, TypesOK
  <1>13. apart \subseteq apart' /\ \A v \in Windows : v # w \/ ~Of(c, w) => v \in apart'
    BY <1>1, <1>3, <1>5, <1>10 DEF Of, Seen, Flagged, Carries
  <1>14. Calm(w) /\ Of(c, w) /\ Of(c, w)' /\ Only(c) /\ calls'[c] = x => Calm(w)'
    <2> SUFFICES ASSUME Calm(w), Of(c, w), Of(c, w)', Only(c), calls'[c] = x
                 PROVE  Calm(w)'
      OBVIOUS
    <2>1. Wrote(c, w)
      BY <1>1, <1>4 DEF Wrote
    <2>2. ASSUME NEW u \in Shows(page[w].kind), NEW j \in Ids, RowOK(w, u, j)
          PROVE  RowOK(w, u, j)'
      <3>1. u \in Tables /\ Shown(w, u, j)' = Shown(w, u, j)
        BY <1>1, ShowsTables DEF Shown, TInv, TypesOK, PagesOK, PageType
      <3>2. CASE u = t
        <4>1. Due(w, t, j) = table[t][j] /\ Due(w, t, j)' = table'[t][j]
          BY DueIs, DueIsNow
        <4>2. table'[t][j] = IF j # calls[c].id /\ table[t][j] = "default"
                             THEN "plain" ELSE table[t][j]
          BY <1>9, <1>11, <3>1, <3>2
        <4> QED BY <1>2, <1>4, <2>1, <2>2, <3>1, <3>2, <4>1, <4>2, ClearRow DEF IInv, Calm
      <3>3. CASE u # t
        <4>1. table'[u][j] = table[u][j]
          BY <1>11, <3>1, <3>3
        <4>2. Due(w, u, j)' = Due(w, u, j)
          BY <1>1, <4>1, DueStays
        <4>3. \A d \in Calls : calls'[d] = calls[d] \/ (~Tells(d, w, u, j) /\ ~Tells(d, w, u, j)')
          BY <1>2, <1>4, <3>3 DEF Only, Tells, Same
        <4>4. \A d \in Calls : Of(d, w)' /\ calls'[d].in = u /\ calls'[d].id = j =>
                 Of(d, w) /\ calls[d].in = u /\ calls[d].id = j
          BY <1>4 DEF Only, Of, Same
        <4> QED BY <2>2, <3>1, <4>1, <4>2, <4>3, <4>4, StillRow
      <3> QED BY <3>2, <3>3
    <2>3. table'["shots"] = table["shots"]
      BY <1>11 DEF Tables
    <2>4. calls[c].kind # "load" /\ Same(calls[c], calls'[c]) /\ calls'[c].phase # "sent"
          /\ calls'[c].id = calls[c].id
      BY <1>1, <1>4
    <2> QED BY <1>1, <2>2, <2>3, <2>4, CalmFrom
  <1> QED BY <1>1, <1>3, <1>4, <1>6, <1>12, <1>13, <1>14, ApiShows

LEMMA AcceptShows == ASSUME IInv, TInv, NEW i \in Ids, Accept(i) PROVE TInv'
  <1> DEFINE t == "invites"
  <1>1. /\ table' = [table EXCEPT ![t] = [table[t] EXCEPT ![i] = "accepted"]]
        /\ apart' = Windows /\ UNCHANGED <<page, calls>>
    BY DEF Accept
  <1>2. t \in Tables /\ "accepted" \in Values(t)
    BY ValuesAre DEF Tables
  <1>3. OneRow(t, i, "accepted")
    BY <1>1, <1>2, TableRow DEF TInv, TypesOK, PlainOK
  <1>4. PlainOK'
    BY <1>1, <1>2, <1>3, RowPlain
  <1>5. PagesOK' /\ CarryOK'
    BY <1>1 DEF TInv, TypesOK, PagesOK, CarryOK, Carries
  <1>6. \A w \in Windows : WindowOK(w)'
    BY <1>1 DEF WindowOK
  <1> QED BY <1>4, <1>5, <1>6 DEF TInv, TypesOK

LEMMA ReadsAre ==
  ASSUME TInv, NEW c \in Calls
  PROVE  /\ Reads(c) \in Lists
         /\ \A t \in Tables : Reads(c)[t] = IF calls[c].live /\ t \in Shows(page[calls[c].win].kind)
                                            THEN Listed(t, calls[c].to) ELSE None[t]
  <1>1. \A t \in Tables : Listed(t, calls[c].to) \in Rows(t) /\ None[t] \in Rows(t)
    BY ListedIs, NoneIsLists DEF TInv, TypesOK, PlainOK, Lists
  <1>2. \A t \in Tables : Reads(c)[t] = IF calls[c].live /\ t \in Shows(page[calls[c].win].kind)
                                        THEN Listed(t, calls[c].to) ELSE None[t]
    BY DEF Reads
  <1>3. \A t \in Tables : Reads(c)[t] \in Rows(t) /\ Reads(c)[t] \in [Ids -> Cells]
    BY <1>1, <1>2 DEF Rows, Cells
  <1>4. Reads(c) = [t \in Tables |-> Reads(c)[t]]
    BY DEF Reads
  <1> QED BY <1>2, <1>3, <1>4 DEF Lists

LEMMA ReadLoadShows == ASSUME IInv, TInv, NEW c \in Calls, ReadLoad(c) PROVE TInv'
  <1>1. /\ calls[c] # NoCall /\ calls[c].kind = "load" /\ calls[c].phase = "sent"
        /\ table' = table /\ page' = page
    BY DEF ReadLoad, Is
  <1>2. PICK w \in Windows : w = calls[c].win
    BY <1>1 DEF TInv, TypesOK, CarryOK, Carries
  <1>3. apart' = IF Live(w) = {c} /\ calls[c].to = page[w].tab THEN apart \ {w} ELSE apart
    BY <1>2 DEF ReadLoad
  <1>4. PICK y : /\ IsCall(y) /\ Same(calls[c], y) /\ y.phase = "done"
                 /\ y.id = calls[c].id /\ y.rows = Reads(c) /\ calls' = [calls EXCEPT ![c] = y]
    BY ReadLoadDoes DEF IInv
  <1>5. calls'[c] = y /\ Only(c)
    BY <1>4, OneChanges DEF IInv, Only
  <1>6. TypesOK'
    <2>1. Carries(calls[c]) /\ Flagged(y)
      BY <1>1, <1>4, SameFlag DEF TInv, TypesOK, CarryOK, Carries
    <2>2. Carries(y)
      BY <1>1, <1>4, <2>1, ReadsAre DEF Carries, Same, Phases, Adds
    <2>3. CarryOK'
      BY <1>5, <2>2, OneCarries DEF TInv, TypesOK
    <2>4. PlainOK'
      BY <1>1, <1>3 DEF TInv, TypesOK, PlainOK, OneSecretEach
    <2> QED BY <1>1, <2>3, <2>4 DEF TInv, TypesOK, PagesOK
  <1>7. Of(c, w)' <=> Of(c, w)
    BY <1>1, <1>2, <1>4, <1>5, SameFlag, CallIsThere DEF Of, Same
  <1>8. \A v \in Windows : SamePage(v)
    BY <1>1 DEF SamePage
  <1>9. \A v \in Windows, d \in Calls :
           v # w \/ ~Of(c, w) => calls'[d] = calls[d] \/ (~Of(d, v) /\ ~Of(d, v)')
    BY <1>2, <1>4, <1>5, <1>7 DEF Only, Of, Same
  <1>10. \A v \in Windows : v # w => WindowOK(v)'
    <2>1. apart \ {w} \subseteq apart'
      BY <1>3
    <2> QED BY <1>1, <1>8, <1>9, <2>1, OthersCalm
  <1>11. ASSUME \A d \in Calls : Of(d, w) => d = c, Of(c, w), calls[c].to = page[w].tab
         PROVE  Calm(w)'
    <2>1. \A d \in Calls : Of(d, w)' => d = c
      BY <1>5, <1>11 DEF Only, Of
    <2>2. Of(c, w)' /\ calls'[c].kind = "load" /\ calls'[c].to = page'[w].tab
      BY <1>1, <1>4, <1>5, <1>7, <1>11 DEF Same
    <2>3. ASSUME NEW t \in Shows(page'[w].kind), NEW i \in Ids
          PROVE  calls'[c].rows[t][i] = Due(w, t, i)'
      <3>1. t \in Tables /\ t \in Shows(page[w].kind)
        BY <1>1, ShowsTables DEF TInv, TypesOK, PagesOK, PageType
      <3>2. calls'[c].rows[t] = Listed(t, page[w].tab)
        BY <1>2, <1>4, <1>5, <1>11, <3>1, ReadsAre DEF Of, Seen
      <3>3. Due(w, t, i)' = Due(w, t, i)
        BY <1>1, DueStays
      <3> QED BY <3>2, <3>3 DEF Due
    <2> QED BY <2>1, <2>2, <2>3, AloneCalm
  <1>12. WindowOK(w)'
    <2>1. CASE Live(w) = {c} /\ calls[c].to = page[w].tab
      <3>1. \A d \in Calls : Of(d, w) <=> d = c
        BY <2>1, LiveIsOf DEF TInv, TypesOK
      <3> QED BY <1>11, <2>1, <3>1 DEF WindowOK
    <2>2. CASE ~(Live(w) = {c} /\ calls[c].to = page[w].tab)
      <3> SUFFICES ASSUME w \notin apart PROVE Calm(w)'
        BY <1>3, <2>2 DEF WindowOK
      <3>1. Calm(w)
        BY DEF TInv, WindowOK
      <3>2. CASE Of(c, w)
        <4>1. \A d \in Calls : Of(d, w) => d = c
          BY <1>1, <3>1, <3>2 DEF Calm, Single, Cross
        <4>2. calls[c].to = page[w].tab
          BY <1>1, <3>1, <3>2 DEF Calm, LoadOK
        <4> QED BY <1>11, <3>2, <4>1, <4>2
      <3>3. CASE ~Of(c, w)
        BY <1>1, <1>8, <1>9, <3>1, <3>3, ElseCalm
      <3> QED BY <3>2, <3>3
    <2> QED BY <2>1, <2>2
  <1> QED BY <1>6, <1>10, <1>12 DEF TInv

-----------------------------------------------------------------------------
(* The specification *)

LEMMA ShowsInit == Init => TInv
  <1> SUFFICES ASSUME Init PROVE TInv
    OBVIOUS
  <1>1. PICK s \in Sessions : table = s.tables
    BY DEF Init
  <1>2. /\ table = [t \in Tables |-> table[t]]
        /\ \A t \in Tables : table[t] \in Rows(t)
        /\ OneSecretEach
    BY <1>1, SessionAssumption DEF OneSecretEach
  <1>3. table \in Lists
    <2>1. \A t \in Tables : table[t] \in [Ids -> Cells]
      BY <1>2 DEF Rows, Cells
    <2> QED BY <1>2, <2>1 DEF Lists
  <1>4. PlainOK
    BY <1>2, <1>3 DEF Init, PlainOK
  <1>5. Fresh("none") \in PageType
    BY NoneIsLists DEF Fresh, PageType, Tabs
  <1>6. PagesOK
    BY <1>5 DEF Init, PagesOK
  <1>7. \A c \in Calls : calls[c] = NoCall
    BY DEF Init
  <1>8. CarryOK
    BY <1>7 DEF CarryOK
  <1>9. ASSUME NEW w \in Windows PROVE Calm(w)
    <2>1. \A c \in Calls : ~Of(c, w)
      BY <1>7 DEF Of
    <2>2. page[w].shown = FALSE
      BY DEF Init, Fresh
    <2>3. ListOK(w)
      BY <2>2 DEF ListOK
    <2> QED BY <2>1, <2>3 DEF Calm, Single, LoadOK, DecideOK
  <1> QED BY <1>4, <1>6, <1>8, <1>9 DEF TInv, TypesOK, WindowOK

LEMMA StepShows == ASSUME IInv, TInv, [Next]_vars PROVE TInv'
  <1>1. CASE UNCHANGED vars
    <2>1. UNCHANGED <<table, page, calls, apart>>
      BY <1>1 DEF vars
    <2>2. TypesOK'
      BY <2>1 DEF TInv, TypesOK, PlainOK, OneSecretEach, PagesOK, CarryOK
    <2>3. \A w \in Windows : SamePage(w)
      BY <2>1 DEF SamePage
    <2>4. \A w \in Windows : WindowOK(w)'
      BY <2>1, <2>3, ElseCalm DEF TInv, WindowOK
    <2> QED BY <2>2, <2>4 DEF TInv
  <1>2. ASSUME NEW w \in Windows,
               \/ \E p \in Pages : Visit(w, p)
               \/ \E tab \in Tabs : SelectTab(w, tab)
               \/ Invite(w) \/ InviteToTeam(w)
               \/ \E k \in Keys : AddSecret(w, k)
               \/ \E d \in Values("envs") : CreateEnvironment(w, d)
        PROVE  TInv'
    BY <1>2, VisitShows, SelectTabShows, ClickShows
  <1>3. ASSUME NEW w \in Windows, NEW i \in Ids,
               \/ \E r \in Roles : ChangeRole(w, i, r)
               \/ RemoveMember(w, i) \/ RemoveFromTeam(w, i) \/ Revoke(w, i) \/ DeleteSecret(w, i)
               \/ SetDefault(w, i) \/ DeleteEnvironment(w, i)
               \/ \E d \in Decisions : Decide(w, i, d)
        PROVE  TInv'
    BY <1>3, RowClickShows
  <1>4. ASSUME NEW c \in Calls,
               \/ ReadLoad(c) \/ Update(c) \/ Delete(c) \/ CreateInvitation(c)
               \/ RevokeInvitation(c) \/ CheckSecret(c) \/ InsertSecret(c) \/ ReadEnvironment(c)
               \/ ClearDefault(c) \/ GiveDefault(c) \/ InsertEnvironment(c)
        PROVE  TInv'
    BY <1>4, ReadLoadShows, UpdateShows, DropShows, InsertsShow, ChecksShow, ClearDefaultShows,
       GiveDefaultShows
  <1>5. ASSUME NEW c \in Calls,
               \/ LoadArrives(c) \/ RoleArrives(c) \/ DropArrives(c) \/ DecideArrives(c)
               \/ InviteArrives(c) \/ AddArrives(c) \/ CreateArrives(c) \/ DefaultArrives(c)
               \/ Refused(c) \/ Fails(c)
        PROVE  TInv'
    BY <1>5, LoadArrivesShows, RoleArrivesShows, DropArrivesShows, InviteArrivesShows,
       AddArrivesShows, CreateArrivesShows, DefaultArrivesShows, ToldShows
  <1>6. ASSUME NEW i \in Ids, Accept(i) PROVE TInv'
    BY <1>6, AcceptShows
  <1> QED BY <1>1, <1>2, <1>3, <1>4, <1>5, <1>6 DEF Next

\* A page without requests shows what is due.
LEMMA RestShows ==
  ASSUME IInv, TInv, NEW w \in Windows, page[w].shown, Live(w) = {}, w \notin apart,
         NEW t \in Shows(page[w].kind)
  PROVE  page[w].rows[t] = Listed(t, page[w].tab)
  <1>1. \A c \in Calls : ~Of(c, w)
    BY LiveIsOf DEF TInv, TypesOK
  <1>2. page[w] \in PageType
    BY DEF TInv, TypesOK, PagesOK
  <1>3. t \in Tables
    BY <1>2, ShowsTables DEF PageType
  <1>4. \A i \in Ids : RowOK(w, t, i)
    BY <1>1 DEF TInv, WindowOK, Calm, ListOK
  <1>5. \A c \in Calls, i \in Ids : /\ ~DidOne(c, w, Adds, t, i) /\ ~DidOne(c, w, Drops, t, i)
                                     /\ ~Did(c, w, "role", t, i) /\ ~Moving(c, w)
    BY <1>1 DEF DidOne, Did, Moving
  <1>6. \A i \in Ids : Shown(w, t, i) = Due(w, t, i)
    BY <1>4, <1>5 DEF RowOK
  <1>7. page[w].rows[t] \in Rows(t) /\ Listed(t, page[w].tab) \in Rows(t)
    BY <1>2, <1>3, ListedIs DEF PageType, Lists, TInv, TypesOK, PlainOK
  <1> QED BY <1>6, <1>7 DEF Shown, Due, Rows

\* Whatever the pages of the settings send, and in whatever order the API answers,
\* a page at rest shows the rows of its tables: the edits that the handlers of
\* org/page.tsx, vault/page.tsx, environments and baselines make by hand leave
\* what a load would have brought.
THEOREM ListsStayShown == Spec => []ListsAreShown
  <1>1. Init => IInv /\ TInv
    BY InitHolds, ShowsInit
  <1>2. IInv /\ TInv /\ [Next]_vars => (IInv /\ TInv)'
    BY StepKeeps, StepShows
  <1>3. IInv /\ TInv => ListsAreShown
    <2> SUFFICES ASSUME IInv, TInv PROVE ListsAreShown
      OBVIOUS
    <2>1. /\ \A t \in Tables : table[t] \in Rows(t)
          /\ \A i, j \in Ids : i # j => \/ table["secrets"][i] # table["secrets"][j]
                                        \/ table["secrets"][i] = Absent
          /\ crossed \in BOOLEAN /\ apart \subseteq Windows
      BY DEF IInv, TablesOK, TInv, TypesOK, PlainOK, OneSecretEach, Lists
    <2>2. \A w \in Windows : page[w] \in PageType
      BY DEF TInv, TypesOK, PagesOK
    <2>3. \A w \in Windows :
             /\ page[w].kind \in Pages \cup {"none"} /\ page[w].tab \in Tabs
             /\ page[w].shown \in BOOLEAN /\ page[w].busy \in BOOLEAN
             /\ page[w].acting \in Ids \cup {Absent}
             /\ \A t \in Tables : page[w].rows[t] \in Rows(t)
      BY <2>2 DEF PageType, Lists
    <2>4. \A c \in Calls : calls[c] # NoCall =>
             /\ calls[c].win \in Windows /\ calls[c].id \in Ids \cup {Absent}
             /\ calls[c].phase \in Phases
      BY DEF TInv, TypesOK, CarryOK, Carries
    <2>5. TypeOK
      BY <2>1, <2>3, <2>4, Zenon DEF TypeOK, Phases
    <2>6. RowsAreStored
      BY RestShows DEF RowsAreStored
    <2> QED BY <2>5, <2>6 DEF ListsAreShown
  <1> QED BY <1>1, <1>2, <1>3, PTL DEF Spec

\* A step that changes a decision, and the request it belongs to.
LEMMA DecidesOnly ==
  ASSUME IInv, TInv, [Next]_vars, NEW i \in Ids, table["shots"][i] \in Decisions,
         table'["shots"][i] # table["shots"][i]
  PROVE  \E c \in Calls : Is(c, "decide", "sent") /\ calls[c].id = i
  <1>1. \A t, rows : table' = [table EXCEPT ![t] = rows] => t = "shots"
    BY DEF TInv, TypesOK, PlainOK, Lists, Tables
  <1>2. table' # table
    OBVIOUS
  <1>3. ASSUME NEW w \in Windows,
               \/ \E p \in Pages : Visit(w, p)
               \/ \E tab \in Tabs : SelectTab(w, tab)
               \/ Invite(w) \/ InviteToTeam(w)
               \/ \E k \in Keys : AddSecret(w, k)
               \/ \E d \in Values("envs") : CreateEnvironment(w, d)
        PROVE  FALSE
    BY <1>2, <1>3 DEF Visit, SelectTab, Invite, InviteToTeam, AddSecret, CreateEnvironment, Send
  <1>4. ASSUME NEW w \in Windows, NEW j \in Ids,
               \/ \E r \in Roles : ChangeRole(w, j, r)
               \/ RemoveMember(w, j) \/ RemoveFromTeam(w, j) \/ Revoke(w, j) \/ DeleteSecret(w, j)
               \/ SetDefault(w, j) \/ DeleteEnvironment(w, j)
               \/ \E d \in Decisions : Decide(w, j, d)
        PROVE  FALSE
    BY <1>2, <1>4 DEF ChangeRole, RemoveMember, RemoveFromTeam, Revoke, DeleteSecret, SetDefault,
       DeleteEnvironment, Decide, Send
  <1>5. ASSUME NEW c \in Calls, Writes(c, Put(c, calls[c].to)) \/ \E rows : Writes(c, rows)
        PROVE  calls[c].in = "shots"
    BY <1>1, <1>5 DEF Writes
  <1>6. ASSUME NEW c \in Calls, Update(c)
        PROVE  Is(c, "decide", "sent") /\ calls[c].id = i
    <2>1. Writes(c, Put(c, calls[c].to))
      BY <1>2, <1>6 DEF Update
    <2>2. calls[c].in = "shots"
      BY <1>5, <2>1
    <2>3. Is(c, "decide", "sent")
      BY <1>6, <2>2 DEF Update, Is, IInv, CallsOK, IsCall, Writing
    <2>4. table["shots"] \in [Ids -> Cells]
      BY DEF TInv, TypesOK, PlainOK, Lists, Tables
    <2>5. table'["shots"] = [table["shots"] EXCEPT ![calls[c].id] = calls[c].to]
      BY <2>1, <2>2 DEF Writes, Put, TInv, TypesOK, PlainOK, Lists, Tables
    <2>6. calls[c].id = i
      BY <2>4, <2>5
    <2> QED BY <2>3, <2>6
  <1>7. ASSUME NEW c \in Calls,
               \/ ReadLoad(c) \/ Delete(c) \/ CreateInvitation(c) \/ RevokeInvitation(c)
               \/ CheckSecret(c) \/ InsertSecret(c) \/ ReadEnvironment(c)
               \/ ClearDefault(c) \/ GiveDefault(c) \/ InsertEnvironment(c)
        PROVE  FALSE
    <2>1. \E rows : Writes(c, rows)
      BY <1>2, <1>7 DEF ReadLoad, Delete, CreateInvitation, RevokeInvitation, CheckSecret,
         InsertSecret, ReadEnvironment, ClearDefault, GiveDefault, InsertEnvironment, Insert
    <2>2. calls[c].in = "shots"
      BY <1>5, <2>1
    <2>3. /\ calls[c] # NoCall
          /\ calls[c].kind \in {"load", "delete", "invite", "revoke", "add", "default", "create"}
      BY <1>7 DEF ReadLoad, Delete, CreateInvitation, RevokeInvitation, CheckSecret,
         InsertSecret, ReadEnvironment, ClearDefault, GiveDefault, InsertEnvironment, Is
    <2>4. calls[c].kind # "load"
      BY <1>2, <1>7 DEF ReadLoad, Delete, CreateInvitation, RevokeInvitation, CheckSecret,
         InsertSecret, ReadEnvironment, ClearDefault, GiveDefault, InsertEnvironment, Is
    <2>5. IsCall(calls[c]) /\ Carries(calls[c])
      BY <2>3 DEF IInv, CallsOK, TInv, TypesOK, CarryOK
    <2> QED BY <2>2, <2>3, <2>4, <2>5 DEF IsCall, Writing, Carries
  <1>8. ASSUME NEW c \in Calls,
               \/ LoadArrives(c) \/ RoleArrives(c) \/ DropArrives(c) \/ DecideArrives(c)
               \/ InviteArrives(c) \/ AddArrives(c) \/ CreateArrives(c) \/ DefaultArrives(c)
               \/ Refused(c) \/ Fails(c)
        PROVE  FALSE
    BY <1>2, <1>8 DEF LoadArrives, RoleArrives, DropArrives, DecideArrives, InviteArrives,
       AddArrives, CreateArrives, DefaultArrives, Refused, Fails, Told
  <1>9. ASSUME NEW j \in Ids, Accept(j) PROVE FALSE
    <2>1. table' = [table EXCEPT !["invites"] = [table["invites"] EXCEPT ![j] = "accepted"]]
      BY <1>9 DEF Accept
    <2> QED BY <1>1, <2>1
  <1> QED BY <1>2, <1>3, <1>4, <1>6, <1>7, <1>8, <1>9 DEF Next, vars

\* Who overturns a decision on a baseline could not know of it: only a window
\* that is apart, or has left the page, still sends a decision for a baseline that
\* is not pending any more.
THEOREM DecisionsStand == Spec => DecisionStands
  <1>1. Init => IInv /\ TInv
    BY InitHolds, ShowsInit
  <1>2. IInv /\ TInv /\ [Next]_vars => (IInv /\ TInv)'
    BY StepKeeps, StepShows
  <1>3. IInv /\ TInv /\ [Next]_vars =>
          [\A i \in Ids :
             (table["shots"][i] \in Decisions /\ table'["shots"][i] # table["shots"][i]) =>
                \E c \in Calls : /\ Is(c, "decide", "sent") /\ calls[c].id = i
                                 /\ calls[c].win \in apart \/ ~calls[c].live]_vars
    <2> SUFFICES ASSUME IInv, TInv, [Next]_vars, NEW i \in Ids,
                        table["shots"][i] \in Decisions, table'["shots"][i] # table["shots"][i]
                 PROVE  \E c \in Calls : /\ Is(c, "decide", "sent") /\ calls[c].id = i
                                         /\ calls[c].win \in apart \/ ~calls[c].live
      OBVIOUS
    <2>1. PICK c \in Calls : Is(c, "decide", "sent") /\ calls[c].id = i
      BY DecidesOnly
    <2>2. calls[c] # NoCall /\ calls[c].kind = "decide" /\ calls[c].phase = "sent"
      BY <2>1 DEF Is
    <2>3. Carries(calls[c])
      BY <2>2 DEF TInv, TypesOK, CarryOK
    <2>4. ASSUME calls[c].win \notin apart, calls[c].live PROVE FALSE
      <3>1. Of(c, calls[c].win) /\ calls[c].win \in Windows
        BY <2>2, <2>3, <2>4 DEF Of, Seen, Carries, Flagged
      <3>2. table["shots"][i] = "pending_review"
        BY <2>1, <2>2, <2>4, <3>1 DEF TInv, WindowOK, Calm, DecideOK
      <3> QED BY <3>2 DEF Decisions
    <2> QED BY <2>1, <2>4
  <1> QED BY <1>1, <1>2, <1>3, PTL DEF Spec, DecisionStands
=============================================================================
