-------------------------- MODULE ProjectTeamProofs --------------------------
(***************************************************************************)
(* For every number of windows, users, rows and requests: a project keeps  *)
(* an admin, a page shows the table, and what is archived was idle.        *)
(*                                                                         *)
(* Three invariants, each with the help of the one before: what a handler  *)
(* that passed the check of the last admin may still rely on when it       *)
(* writes (IInv); how the rows of a page differ from the table by the      *)
(* answers still to come (TInv); which runs a handler that is about to     *)
(* archive does not know of (IdleOK).                                      *)
(***************************************************************************)
EXTENDS ProjectTeam, FiniteSetTheorems, TLAPS

\* A request: the fields it has, and what its handler needs of them.
Shaped(x) == x = [kind |-> x.kind, win |-> x.win, id |-> x.id, to |-> x.to,
                  phase |-> x.phase, live |-> x.live, saw |-> x.saw]

Asks(kind, id, to) ==
    /\ kind \in {"load", "open", "save", "archive", "add", "role", "remove"}
    /\ kind = "add" => to \in Member
    /\ kind = "role" => to \in Roles
    /\ kind \in {"role", "remove"} => id \in Ids
    /\ kind = "remove" => to = Absent

IsCall(x) == Shaped(x) /\ Asks(x.kind, x.id, x.to)

\* Whether the page of a request is there.
Flagged(x) == x.live \in BOOLEAN
Seen(x) == x.live = TRUE
Parted(x) == x.live = FALSE

\* What a request keeps while its page is there.
Same(x, y) == y.kind = x.kind /\ y.win = x.win /\ y.live = x.live

LEMMA PartedIs == \A x : Parted(x) => Flagged(x) /\ ~Seen(x)
  BY DEF Parted, Flagged, Seen

LEMMA SameFlag == \A x, y : Same(x, y) => (Flagged(x) <=> Flagged(y)) /\ (Seen(x) <=> Seen(y))
  BY DEF Same, Flagged, Seen

\* A handler that is about to write what may take an admin away.
Takes1(x) == x # NoCall /\ x.kind \in {"role", "remove"} /\ x.phase = "checked" /\ x.to # "admin"

CallsOK == /\ calls = [c \in Calls |-> calls[c]]
           /\ \A c \in Calls: calls[c] = NoCall \/ IsCall(calls[c])

TablesOK == members \in Table /\ raced \in BOOLEAN

\* Unless two such handlers overlapped, there is one at most, and an admin
\* besides the member it is about.
AdminInv == raced = FALSE =>
    /\ Admins # {}
    /\ \A c, d \in Taking: c = d
    /\ \A c \in Taking: Admins \ {calls[c].id} # {}

IInv == CallsOK /\ TablesOK /\ AdminInv

-----------------------------------------------------------------------------
(* Requests *)

\* A request is never the empty entry.
LEMMA CallIsThere == \A x : IsCall(x) => x # NoCall
  <1> TAKE x
  <1> HAVE IsCall(x)
  <1>1. x.kind # "none"
    BY DEF IsCall, Asks
  <1>2. NoCall.kind = "none"
    BY DEF NoCall
  <1> QED BY <1>1, <1>2

\* What changes in a request while it is under way.
LEMMA CallMoves ==
  ASSUME NEW x, IsCall(x), NEW p, NEW y, y = [x EXCEPT !.phase = p]
  PROVE  /\ IsCall(y) /\ Same(x, y)
         /\ y.phase = p /\ y.kind = x.kind /\ y.id = x.id /\ y.to = x.to /\ y.saw = x.saw
  <1>1. Shaped(x)
    BY DEF IsCall
  <1>2. Shaped(y)
    BY <1>1 DEF Shaped
  <1>3. y.phase = p
    BY <1>1 DEF Shaped
  <1>4. y.kind = x.kind /\ y.id = x.id /\ y.to = x.to
    BY <1>1 DEF Shaped
  <1>5. Same(x, y) /\ y.saw = x.saw
    BY <1>1 DEF Shaped, Same
  <1> QED BY <1>2, <1>3, <1>4, <1>5 DEF IsCall

LEMMA CallLeaves ==
  ASSUME NEW x, IsCall(x), NEW l, NEW y, y = [x EXCEPT !.live = l]
  PROVE  /\ IsCall(y) /\ y.phase = x.phase /\ y.kind = x.kind /\ y.id = x.id /\ y.to = x.to
         /\ y.live = l /\ y.win = x.win /\ y.saw = x.saw
  <1>1. Shaped(x)
    BY DEF IsCall
  <1>2. Shaped(y)
    BY <1>1 DEF Shaped
  <1>3. y.phase = x.phase
    BY <1>1 DEF Shaped
  <1>4. y.kind = x.kind /\ y.id = x.id /\ y.to = x.to
    BY <1>1 DEF Shaped
  <1>5. y.live = l /\ y.win = x.win /\ y.saw = x.saw
    BY <1>1 DEF Shaped
  <1> QED BY <1>2, <1>3, <1>4, <1>5 DEF IsCall

LEMMA TakingIs == Taking = {c \in Calls : Takes1(calls[c])}
  BY DEF Taking, Strips, Takes1

\* A step that leaves the members alone, and lets no handler pass the check.
LEMMA Quiet ==
  ASSUME IInv, UNCHANGED <<members, raced>>, CallsOK',
         \A c \in Calls : Takes1(calls'[c]) => Takes1(calls[c]) /\ calls'[c].id = calls[c].id
  PROVE  IInv'
  <1>1. TablesOK' /\ Admins' = Admins
    BY DEF IInv, TablesOK, Admins
  <1>2. Taking' = {c \in Calls : Takes1(calls'[c])}
    BY DEF Taking, Strips, Takes1
  <1>3. \A c \in Taking' : c \in Taking /\ calls'[c].id = calls[c].id
    BY <1>2, TakingIs
  <1>4. AdminInv'
    BY <1>1, <1>3 DEF IInv, AdminInv
  <1> QED BY <1>1, <1>4 DEF IInv

\* One request changes.
LEMMA OneChanges ==
  ASSUME CallsOK, NEW c \in Calls, NEW x, x = NoCall \/ IsCall(x),
         calls' = [calls EXCEPT ![c] = x]
  PROVE  CallsOK' /\ calls'[c] = x /\ \A d \in Calls : d # c => calls'[d] = calls[d]
  <1>1. calls' = [d \in Calls |-> IF d = c THEN x ELSE calls[d]]
    BY DEF CallsOK
  <1>2. \A d \in Calls : calls'[d] = IF d = c THEN x ELSE calls[d]
    BY <1>1
  <1>3. calls' = [d \in Calls |-> calls'[d]]
    BY <1>1
  <1>4. \A d \in Calls : calls'[d] = NoCall \/ IsCall(calls'[d])
    BY <1>2 DEF CallsOK
  <1> QED BY <1>2, <1>3, <1>4 DEF CallsOK

LEMMA OneQuiet ==
  ASSUME IInv, NEW c \in Calls, NEW x, x = NoCall \/ IsCall(x), ~Takes1(x),
         calls' = [calls EXCEPT ![c] = x], UNCHANGED <<members, raced>>
  PROVE  IInv'
  <1>1. CallsOK' /\ calls'[c] = x /\ \A d \in Calls : d # c => calls'[d] = calls[d]
    BY OneChanges DEF IInv
  <1>2. \A d \in Calls : Takes1(calls'[d]) => Takes1(calls[d]) /\ calls'[d].id = calls[d].id
    BY <1>1
  <1> QED BY <1>1, <1>2, Quiet

LEMMA NoneTakes == ~Takes1(NoCall)
  BY DEF Takes1

\* A request that is sent.
LEMMA SendKeeps ==
  ASSUME IInv, NEW x, IsCall(x), x.phase = "sent", Send(x), UNCHANGED <<members, raced>>
  PROVE  IInv'
  <1>1. PICK c \in Calls : calls' = [calls EXCEPT ![c] = x]
    BY DEF Send, SendFrom
  <1>2. ~Takes1(x)
    BY DEF Takes1
  <1> QED BY <1>1, <1>2, OneQuiet

\* The admins besides one of two.
LEMMA OtherAdmin == ASSUME NEW i, ~(Cardinality(Admins) <= 1) PROVE Admins \ {i} # {}
  <1>1. SUFFICES ASSUME Admins \ {i} = {} PROVE FALSE
    OBVIOUS
  <1>2. Admins \in SUBSET {i}
    BY <1>1
  <1>3. IsFiniteSet({i}) /\ Cardinality({i}) = 1
    BY FS_Singleton
  <1>4. Cardinality(Admins) <= Cardinality({i})
    BY <1>2, <1>3, FS_Subset
  <1> QED BY <1>3, <1>4

-----------------------------------------------------------------------------
(* The invariant *)

LEMMA InitHolds == Init => IInv
  <1> SUFFICES ASSUME Init PROVE IInv
    OBVIOUS
  <1>1. TablesOK
    BY SessionAssumption DEF Init, TablesOK
  <1>2. Admins # {}
    BY SessionAssumption DEF Init, Admins
  <1>3. CallsOK
    BY DEF Init, CallsOK
  <1>4. \A c \in Calls : ~Takes1(calls[c])
    BY NoneTakes DEF Init
  <1>5. Taking = {}
    BY <1>4, TakingIs
  <1> QED BY <1>1, <1>2, <1>3, <1>5 DEF IInv, AdminInv

\* A request leaves the requests, one by one, by every answer and refusal.
LEMMA AnsweredKeeps ==
  ASSUME IInv, NEW c \in Calls, Answered(c), UNCHANGED <<members, raced>>
  PROVE  IInv'
  BY NoneTakes, OneQuiet DEF Answered

\* A request moves to a phase in which its handler writes nothing.
LEMMA MovesQuietly ==
  ASSUME IInv, NEW c \in Calls, calls[c] # NoCall, NEW x, x.phase # "checked", IsCall(x),
         calls' = [calls EXCEPT ![c] = x], UNCHANGED <<members, raced>>
  PROVE  IInv'
  BY OneQuiet DEF Takes1

LEMMA Becoming ==
  ASSUME IInv, NEW c \in Calls, calls[c] # NoCall, NEW p, Becomes(c, p)
  PROVE  \E x : /\ IsCall(x) /\ Same(calls[c], x) /\ x.phase = p /\ x.saw = calls[c].saw
                /\ x.kind = calls[c].kind /\ x.id = calls[c].id /\ x.to = calls[c].to
                /\ calls' = [calls EXCEPT ![c] = x]
  <1>1. IsCall(calls[c])
    BY DEF IInv, CallsOK
  <1>2. PICK old : old = calls[c]
    OBVIOUS
  <1>3. calls' = [calls EXCEPT ![c] = [old EXCEPT !.phase = p]]
    BY <1>2, Zenon DEF Becomes
  <1>4. PICK x : x = [old EXCEPT !.phase = p]
    OBVIOUS
  <1>5. IsCall(old)
    BY <1>1, <1>2
  <1>6. /\ IsCall(x) /\ Same(old, x) /\ x.phase = p /\ x.saw = old.saw
        /\ x.kind = old.kind /\ x.id = old.id /\ x.to = old.to
    BY <1>4, <1>5, CallMoves
  <1>7. calls' = [calls EXCEPT ![c] = x]
    BY <1>3, <1>4, Zenon
  <1> QED BY <1>2, <1>6, <1>7

\* The page of a window is left.
LEMMA LeftGives ==
  ASSUME CallsOK, NEW w, NEW c \in Calls
  PROVE  \/ /\ calls[c] # NoCall /\ calls[c].win = w
            /\ IsCall(Left(w)[c]) /\ Left(w)[c].win = w /\ Parted(Left(w)[c])
            /\ Left(w)[c].kind = calls[c].kind /\ Left(w)[c].phase = calls[c].phase
            /\ Left(w)[c].id = calls[c].id /\ Left(w)[c].to = calls[c].to
            /\ Left(w)[c].saw = calls[c].saw
         \/ /\ ~(calls[c] # NoCall /\ calls[c].win = w)
            /\ Left(w)[c] = calls[c]
  <1>1. CASE calls[c] # NoCall /\ calls[c].win = w
    <2>1. PICK old : old = calls[c]
      OBVIOUS
    <2>2. IsCall(old)
      BY <1>1, <2>1 DEF CallsOK
    <2>3. Left(w)[c] = [old EXCEPT !.live = FALSE]
      BY <1>1, <2>1, Zenon DEF Left
    <2>4. PICK new : new = [old EXCEPT !.live = FALSE]
      OBVIOUS
    <2>5. /\ IsCall(new) /\ new.win = old.win /\ Parted(new) /\ new.kind = old.kind
          /\ new.phase = old.phase /\ new.id = old.id /\ new.to = old.to /\ new.saw = old.saw
      BY <2>2, <2>4, CallLeaves DEF Parted
    <2>6. Left(w)[c] = new
      BY <2>3, <2>4, Zenon
    <2> QED BY <1>1, <2>1, <2>5, <2>6
  <1>2. CASE ~(calls[c] # NoCall /\ calls[c].win = w)
    BY <1>2 DEF Left
  <1> QED BY <1>1, <1>2

LEMMA LeftIsQuiet ==
  ASSUME CallsOK, NEW w, NEW c \in Calls
  PROVE  /\ Left(w)[c] = NoCall \/ IsCall(Left(w)[c])
         /\ Takes1(Left(w)[c]) => Takes1(calls[c]) /\ Left(w)[c].id = calls[c].id
  <1>1. CASE calls[c] # NoCall /\ calls[c].win = w
    BY <1>1, LeftGives DEF Takes1
  <1>2. CASE ~(calls[c] # NoCall /\ calls[c].win = w)
    BY <1>2, LeftGives DEF CallsOK
  <1> QED BY <1>1, <1>2

\* A project that was loaded, and a row that was added.
LEMMA CallLoads ==
  ASSUME NEW x, IsCall(x), x.kind \in {"load", "open"}, NEW t, NEW y, y = [x EXCEPT !.to = t]
  PROVE  IsCall(y) /\ Same(x, y) /\ y.phase = x.phase /\ y.saw = x.saw /\ y.id = x.id /\ y.to = t
  <1>1. Shaped(x)
    BY DEF IsCall
  <1>2. Shaped(y)
    BY <1>1 DEF Shaped
  <1>3. y.phase = x.phase
    BY <1>1 DEF Shaped
  <1>4. y.kind \in {"load", "open"}
    BY <1>1 DEF Shaped
  <1>5. Asks(y.kind, y.id, y.to)
    BY <1>4 DEF Asks
  <1>6. Same(x, y) /\ y.saw = x.saw /\ y.id = x.id /\ y.to = t
    BY <1>1 DEF Shaped, Same
  <1> QED BY <1>2, <1>3, <1>5, <1>6 DEF IsCall

LEMMA CallAdds ==
  ASSUME NEW x, IsCall(x), x.kind = "add", NEW i, NEW y, y = [x EXCEPT !.id = i]
  PROVE  IsCall(y) /\ Same(x, y) /\ y.phase = x.phase /\ y.saw = x.saw /\ y.id = i /\ y.to = x.to
  <1>1. Shaped(x)
    BY DEF IsCall
  <1>2. Shaped(y)
    BY <1>1 DEF Shaped
  <1>3. y.phase = x.phase
    BY <1>1 DEF Shaped
  <1>4. y.kind = "add" /\ y.to = x.to
    BY <1>1 DEF Shaped
  <1>5. Asks(y.kind, y.id, y.to)
    BY <1>4 DEF Asks, IsCall
  <1>6. Same(x, y) /\ y.saw = x.saw /\ y.id = i /\ y.to = x.to
    BY <1>1 DEF Shaped, Same
  <1> QED BY <1>2, <1>3, <1>5, <1>6 DEF IsCall

LEMMA CallGathers ==
  ASSUME NEW x, IsCall(x), NEW s, NEW y, y = [x EXCEPT !.saw = s]
  PROVE  /\ IsCall(y) /\ Same(x, y) /\ y.saw = s
         /\ y.phase = x.phase /\ y.kind = x.kind /\ y.id = x.id /\ y.to = x.to
  <1>1. Shaped(x)
    BY DEF IsCall
  <1>2. Shaped(y)
    BY <1>1 DEF Shaped
  <1>3. y.phase = x.phase
    BY <1>1 DEF Shaped
  <1>4. y.kind = x.kind /\ y.id = x.id /\ y.to = x.to
    BY <1>1 DEF Shaped
  <1>5. Same(x, y) /\ y.saw = s
    BY <1>1 DEF Shaped, Same
  <1> QED BY <1>2, <1>3, <1>4, <1>5 DEF IsCall

\* What a check leaves.
LEMMA Checking ==
  ASSUME IInv, NEW c \in Calls, calls[c] # NoCall, NEW passes \in BOOLEAN, NEW value,
         Check(c, passes, value)
  PROVE  \E x : /\ IsCall(x) /\ Same(calls[c], x) /\ x.phase = IF passes THEN "checked" ELSE "refused"
                /\ x.saw = IF passes THEN value ELSE calls[c].saw
                /\ x.kind = calls[c].kind /\ x.id = calls[c].id /\ x.to = calls[c].to
                /\ calls' = [calls EXCEPT ![c] = x]
  <1> DEFINE p == IF passes THEN "checked" ELSE "refused"
  <1>1. IsCall(calls[c])
    BY DEF IInv, CallsOK
  <1>2. PICK old : old = calls[c]
    OBVIOUS
  <1>3. PICK s : s = IF passes THEN value ELSE old.saw
    OBVIOUS
  <1>4. calls' = [calls EXCEPT ![c] = [old EXCEPT !.phase = p, !.saw = s]]
    BY <1>2, <1>3, Zenon DEF Check
  <1> HIDE DEF p
  <1>5. PICK moved : moved = [old EXCEPT !.phase = p]
    OBVIOUS
  <1>9. PICK x : x = [moved EXCEPT !.saw = s]
    OBVIOUS
  <1>6. IsCall(old)
    BY <1>1, <1>2
  <1>7. /\ IsCall(x) /\ Same(old, x) /\ x.phase = p /\ x.saw = s
        /\ x.kind = old.kind /\ x.id = old.id /\ x.to = old.to
    <2>1. /\ IsCall(moved) /\ Same(old, moved) /\ moved.phase = p
          /\ moved.kind = old.kind /\ moved.id = old.id /\ moved.to = old.to
      BY <1>5, <1>6, CallMoves
    <2>2. /\ IsCall(x) /\ Same(moved, x) /\ x.phase = moved.phase /\ x.saw = s
          /\ x.kind = moved.kind /\ x.id = moved.id /\ x.to = moved.to
      BY <1>9, <2>1, CallGathers
    <2> QED BY <2>1, <2>2 DEF Same
  <1>8. calls' = [calls EXCEPT ![c] = x]
    BY <1>4, <1>5, <1>9, Zenon
  <1> QED BY <1>2, <1>3, <1>7, <1>8 DEF p

-----------------------------------------------------------------------------
(* The steps *)

\* Nothing that matters here changes.
LEMMA Stays == ASSUME IInv, UNCHANGED <<members, raced, calls>> PROVE IInv'
  <1>1. CallsOK'
    BY DEF IInv, CallsOK
  <1> QED BY <1>1, Quiet

LEMMA Fresh ==
  ASSUME NEW kind, NEW w, NEW i, NEW t, Asks(kind, i, t)
  PROVE  IsCall(Call(kind, w, i, t)) /\ Call(kind, w, i, t).phase = "sent"
  BY DEF Call, IsCall, Shaped

LEMMA LeavesKeep ==
  ASSUME IInv, NEW w, calls' = Left(w), UNCHANGED <<members, raced>>
  PROVE  IInv'
  <1>1. \A c \in Calls : calls'[c] = Left(w)[c]
    OBVIOUS
  <1>2. calls' = [c \in Calls |-> calls'[c]]
    BY DEF Left
  <1>3. \A c \in Calls : /\ calls'[c] = NoCall \/ IsCall(calls'[c])
                         /\ Takes1(calls'[c]) => Takes1(calls[c]) /\ calls'[c].id = calls[c].id
    BY <1>1, LeftIsQuiet DEF IInv
  <1>4. CallsOK'
    BY <1>2, <1>3 DEF CallsOK
  <1> QED BY <1>3, <1>4, Quiet

LEMMA EnterStep == ASSUME IInv, NEW w \in Windows, Enter(w) PROVE IInv'
  <1>1. Asks("load", Absent, Absent)
    BY DEF Asks
  <1> QED BY <1>1, Fresh, SendKeeps DEF Enter, api

LEMMA FollowStep == ASSUME IInv, NEW w \in Windows, Follow(w) PROVE IInv'
  <1>1. Asks("open", Absent, Absent)
    BY DEF Asks
  <1>2. UNCHANGED <<members, raced>> /\ (UNCHANGED calls \/ Send(Call("open", w, Absent, Absent)))
    BY DEF Follow, api
  <1> QED BY <1>1, <1>2, Fresh, SendKeeps, Stays

LEMMA SettingsStep == ASSUME IInv, NEW w \in Windows, OpenSettings(w) PROVE IInv'
  <1>1. Asks("load", Absent, Absent)
    BY DEF Asks
  <1> QED BY <1>1, Fresh, SendKeeps DEF OpenSettings, api

LEMMA SaveStep == ASSUME IInv, NEW w \in Windows, ClickSave(w) PROVE IInv'
  <1>1. PICK x : x = Call("save", w, Absent, page[w].edit)
    OBVIOUS
  <1>2. IsCall(x) /\ x.phase = "sent"
    BY <1>1, Fresh DEF Asks
  <1>3. PICK y : y = [x EXCEPT !.saw = store[w].current]
    OBVIOUS
  <1>4. IsCall(y) /\ y.phase = "sent"
    BY <1>2, <1>3, CallGathers
  <1>5. Send(y)
    BY <1>1, <1>3, Zenon DEF ClickSave
  <1> QED BY <1>4, <1>5, SendKeeps DEF ClickSave, api

LEMMA ArchiveStep == ASSUME IInv, NEW w \in Windows, ClickArchive(w) PROVE IInv'
  <1>1. Asks("archive", Absent, Absent)
    BY DEF Asks
  <1> QED BY <1>1, Fresh, SendKeeps DEF ClickArchive, api

LEMMA AddStep ==
  ASSUME IInv, NEW w \in Windows, NEW u \in Users, NEW r \in Roles, ClickAdd(w, u, r)
  PROVE  IInv'
  <1>1. [user |-> u, role |-> r] \in Member
    BY DEF Member
  <1>2. Asks("add", Absent, [user |-> u, role |-> r])
    BY <1>1 DEF Asks
  <1> QED BY <1>2, Fresh, SendKeeps DEF ClickAdd, api

LEMMA RoleStep ==
  ASSUME IInv, NEW w \in Windows, NEW i \in Ids, NEW r \in Roles, ClickRole(w, i, r)
  PROVE  IInv'
  <1>1. Asks("role", i, r)
    BY DEF Asks
  <1> QED BY <1>1, Fresh, SendKeeps DEF ClickRole, api

LEMMA RemoveStep == ASSUME IInv, NEW w \in Windows, NEW i \in Ids, ClickRemove(w, i) PROVE IInv'
  <1>1. Asks("remove", i, Absent)
    BY DEF Asks
  <1> QED BY <1>1, Fresh, SendKeeps DEF ClickRemove, api

\* What the handlers leave of a request whose effect is not only its phase.
LEMMA ReadLoadDoes ==
  ASSUME CallsOK, NEW c \in Calls, ReadLoad(c)
  PROVE  \E z : /\ IsCall(z) /\ Same(calls[c], z) /\ z.phase = "done" /\ z.id = calls[c].id
                /\ z.saw = members /\ z.to = name /\ calls' = [calls EXCEPT ![c] = z]
  <1>1. PICK old : old = calls[c]
    OBVIOUS
  <1>2. old.kind = "load" /\ IsCall(old)
    BY <1>1 DEF ReadLoad, Is, CallsOK
  <1>3. PICK x : x = [old EXCEPT !.phase = "done"]
    OBVIOUS
  <1>4. IsCall(x) /\ Same(old, x) /\ x.phase = "done" /\ x.kind = "load" /\ x.id = old.id
    BY <1>2, <1>3, CallMoves
  <1>5. PICK y : y = [x EXCEPT !.saw = members]
    OBVIOUS
  <1>6. /\ IsCall(y) /\ Same(x, y) /\ y.phase = "done" /\ y.kind = "load" /\ y.id = x.id
        /\ y.saw = members
    BY <1>4, <1>5, CallGathers
  <1>7. PICK z : z = [y EXCEPT !.to = name]
    OBVIOUS
  <1>8. /\ IsCall(z) /\ Same(y, z) /\ z.phase = "done" /\ z.id = y.id /\ z.saw = members
        /\ z.to = name
    BY <1>6, <1>7, CallLoads
  <1>9. calls' = [calls EXCEPT ![c] = z]
    BY <1>1, <1>3, <1>5, <1>7, Zenon DEF ReadLoad
  <1>10. Same(old, z) /\ z.id = old.id
    BY <1>4, <1>6, <1>8 DEF Same
  <1> QED BY <1>1, <1>8, <1>9, <1>10

LEMMA ReadOpenDoes ==
  ASSUME CallsOK, NEW c \in Calls, ReadOpen(c)
  PROVE  \E z : /\ IsCall(z) /\ Same(calls[c], z) /\ z.phase = "done" /\ z.id = calls[c].id
                /\ z.to = name /\ calls' = [calls EXCEPT ![c] = z]
  <1>1. PICK old : old = calls[c]
    OBVIOUS
  <1>2. old.kind = "open" /\ IsCall(old)
    BY <1>1 DEF ReadOpen, Is, CallsOK
  <1>3. PICK x : x = [old EXCEPT !.phase = "done"]
    OBVIOUS
  <1>4. IsCall(x) /\ Same(old, x) /\ x.phase = "done" /\ x.kind = "open" /\ x.id = old.id
    BY <1>2, <1>3, CallMoves
  <1>5. PICK z : z = [x EXCEPT !.to = name]
    OBVIOUS
  <1>6. IsCall(z) /\ Same(x, z) /\ z.phase = "done" /\ z.id = x.id /\ z.to = name
    BY <1>4, <1>5, CallLoads
  <1>7. calls' = [calls EXCEPT ![c] = z]
    BY <1>1, <1>3, <1>5, Zenon DEF ReadOpen
  <1>8. Same(old, z) /\ z.id = old.id
    BY <1>4, <1>6 DEF Same
  <1> QED BY <1>1, <1>6, <1>7, <1>8

LEMMA WriteAddDoes ==
  ASSUME CallsOK, NEW c \in Calls, WriteAdd(c), calls[c].to.user \notin Emails
  PROVE  \E i \in Ids \ Known(members) :
           /\ \A d \in Calls : calls[d] # NoCall => calls[d].id # i
           /\ \A w \in Windows : page[w].rows[i] = Absent
           /\ members' = [members EXCEPT ![i] = calls[c].to]
           /\ Stale(c)
           /\ \E y : /\ IsCall(y) /\ Same(calls[c], y) /\ y.phase = "done" /\ y.id = i
                     /\ y.to = calls[c].to /\ calls' = [calls EXCEPT ![c] = y]
  <1>1. PICK old : old = calls[c]
    OBVIOUS
  <1>2. calls[c] # NoCall /\ old.kind = "add" /\ IsCall(old)
    BY <1>1 DEF WriteAdd, Is, CallsOK
  <1>3. PICK i \in Ids \ Known(members) :
           /\ \A d \in Calls : calls[d] # NoCall => calls[d].id # i
           /\ \A w \in Windows : page[w].rows[i] = Absent
           /\ members' = [members EXCEPT ![i] = calls[c].to]
           /\ calls' = [calls EXCEPT ![c] = [@ EXCEPT !.phase = "done", !.id = i]]
           /\ Stale(c)
    BY DEF WriteAdd
  <1>4. PICK x : x = [old EXCEPT !.phase = "done"]
    OBVIOUS
  <1>5. IsCall(x) /\ Same(old, x) /\ x.phase = "done" /\ x.kind = "add" /\ x.to = old.to
    BY <1>2, <1>4, CallMoves
  <1>6. PICK y : y = [x EXCEPT !.id = i]
    OBVIOUS
  <1>7. IsCall(y) /\ Same(x, y) /\ y.phase = "done" /\ y.id = i /\ y.to = old.to
    BY <1>5, <1>6, CallAdds
  <1>8. calls' = [calls EXCEPT ![c] = y]
    BY <1>1, <1>3, <1>4, <1>6, Zenon
  <1>9. Same(calls[c], y) /\ y.to = calls[c].to
    BY <1>1, <1>5, <1>7 DEF Same
  <1>10. \E z : /\ IsCall(z) /\ Same(calls[c], z) /\ z.phase = "done" /\ z.id = i
                /\ z.to = calls[c].to /\ calls' = [calls EXCEPT ![c] = z]
    BY <1>7, <1>8, <1>9
  <1> QED BY <1>3, <1>10

LEMMA WriteRoleDoes ==
  ASSUME CallsOK, NEW c \in Calls, WriteRole(c), members[calls[c].id] # Absent
  PROVE  \E y : /\ IsCall(y) /\ Same(calls[c], y) /\ y.phase = "done" /\ y.id = calls[c].id
                /\ y.saw = members'[calls[c].id] /\ calls' = [calls EXCEPT ![c] = y]
  <1>1. PICK old : old = calls[c]
    OBVIOUS
  <1>2. IsCall(old)
    BY <1>1 DEF WriteRole, Is, CallsOK
  <1>3. PICK x : x = [old EXCEPT !.phase = "done"]
    OBVIOUS
  <1>4. IsCall(x) /\ Same(old, x) /\ x.phase = "done" /\ x.id = old.id
    BY <1>2, <1>3, CallMoves
  <1>5. PICK s : s = members'[calls[c].id]
    OBVIOUS
  <1>6. PICK y : y = [x EXCEPT !.saw = s]
    OBVIOUS
  <1>7. IsCall(y) /\ Same(x, y) /\ y.phase = "done" /\ y.id = x.id /\ y.saw = s
    BY <1>4, <1>6, CallGathers
  <1>8. calls' = [calls EXCEPT ![c] = y]
    BY <1>1, <1>3, <1>5, <1>6, Zenon DEF WriteRole
  <1>9. Same(calls[c], y) /\ y.id = calls[c].id
    BY <1>1, <1>4, <1>7 DEF Same
  <1> QED BY <1>5, <1>7, <1>8, <1>9

LEMMA ReadLoadStep == ASSUME IInv, NEW c \in Calls, ReadLoad(c) PROVE IInv'
  <1>1. PICK z : IsCall(z) /\ z.phase = "done" /\ calls' = [calls EXCEPT ![c] = z]
    BY ReadLoadDoes DEF IInv
  <1>2. calls[c] # NoCall /\ UNCHANGED <<members, raced>>
    BY DEF ReadLoad, Is, api
  <1> QED BY <1>1, <1>2, MovesQuietly

LEMMA ReadOpenStep == ASSUME IInv, NEW c \in Calls, ReadOpen(c) PROVE IInv'
  <1>1. PICK z : IsCall(z) /\ z.phase = "done" /\ calls' = [calls EXCEPT ![c] = z]
    BY ReadOpenDoes DEF IInv
  <1>2. calls[c] # NoCall /\ UNCHANGED <<members, raced>>
    BY DEF ReadOpen, Is, api
  <1> QED BY <1>1, <1>2, MovesQuietly

LEMMA WriteSaveStep == ASSUME IInv, NEW c \in Calls, WriteSave(c) PROVE IInv'
  BY Becoming, MovesQuietly DEF WriteSave, Is

LEMMA WriteArchiveStep == ASSUME IInv, NEW c \in Calls, WriteArchive(c) PROVE IInv'
  BY Becoming, MovesQuietly DEF WriteArchive, Is

\* A check of a request that takes no admin away.
LEMMA HarmlessCheck ==
  ASSUME IInv, NEW c \in Calls, calls[c] # NoCall, calls[c].kind \in {"archive", "add"},
         NEW passes \in BOOLEAN, NEW value, Check(c, passes, value), UNCHANGED <<members, raced>>
  PROVE  IInv'
  <1>1. PICK x : IsCall(x) /\ x.kind = calls[c].kind /\ calls' = [calls EXCEPT ![c] = x]
    BY Checking
  <1>2. ~Takes1(x)
    BY <1>1 DEF Takes1
  <1> QED BY <1>1, <1>2, OneQuiet

LEMMA CheckArchiveStep == ASSUME IInv, NEW c \in Calls, CheckArchive(c) PROVE IInv'
  <1>1. (active = {}) \in BOOLEAN
    OBVIOUS
  <1> QED BY <1>1, HarmlessCheck DEF CheckArchive, Is, api

LEMMA CheckAddStep == ASSUME IInv, NEW c \in Calls, CheckAdd(c) PROVE IInv'
  <1>1. (calls[c].to.user \notin Emails) \in BOOLEAN
    OBVIOUS
  <1> QED BY <1>1, HarmlessCheck DEF CheckAdd, Is, api

LEMMA StartRunStep == ASSUME IInv, NEW r \in Runs, StartRun(r) PROVE IInv'
  <1>1. \A c \in Calls : /\ calls'[c] = NoCall \/ IsCall(calls'[c])
                         /\ Takes1(calls'[c]) => Takes1(calls[c]) /\ calls'[c].id = calls[c].id
    <2> TAKE c \in Calls
    <2>1. CASE Is(c, "archive", "checked")
      <3>1. PICK old : old = calls[c]
        OBVIOUS
      <3>2. IsCall(old) /\ old.kind = "archive"
        BY <2>1, <3>1 DEF Is, IInv, CallsOK
      <3>3. PICK s : s = old.saw \cup {r}
        OBVIOUS
      <3>4. PICK x : x = [old EXCEPT !.saw = s]
        OBVIOUS
      <3>5. IsCall(x) /\ x.kind = "archive"
        BY <3>2, <3>4, CallGathers
      <3>6. calls'[c] = x
        BY <2>1, <3>1, <3>3, <3>4, Zenon DEF StartRun
      <3> QED BY <3>5, <3>6 DEF Takes1
    <2>2. CASE ~Is(c, "archive", "checked")
      <3>1. calls'[c] = calls[c]
        BY <2>2 DEF StartRun
      <3> QED BY <3>1 DEF IInv, CallsOK
    <2> QED BY <2>1, <2>2
  <1>2. calls' = [c \in Calls |-> calls'[c]]
    BY DEF StartRun
  <1>3. CallsOK'
    BY <1>1, <1>2 DEF CallsOK
  <1> QED BY <1>1, <1>3, Quiet DEF StartRun

\* The handler that passes the check of the last admin is alone, or it is noted.
LEMMA LastAdminChecked ==
  ASSUME IInv, NEW c \in Calls, calls[c] # NoCall, calls[c].phase = "sent",
         calls[c].kind \in {"role", "remove"},
         NEW passes \in BOOLEAN, NEW value, Check(c, passes, value), Passed(c, passes),
         UNCHANGED members, passes /\ calls[c].to # "admin" => ~LastAdmin(calls[c].id)
  PROVE  IInv'
  <1>1. PICK x : /\ IsCall(x) /\ x.phase = IF passes THEN "checked" ELSE "refused"
                 /\ x.kind = calls[c].kind /\ x.id = calls[c].id /\ x.to = calls[c].to
                 /\ calls' = [calls EXCEPT ![c] = x]
    BY Checking
  <1>2. CallsOK' /\ calls'[c] = x /\ \A d \in Calls : d # c => calls'[d] = calls[d]
    BY <1>1, OneChanges DEF IInv
  <1>3. CASE ~(passes /\ calls[c].to # "admin")
    <2>1. ~Takes1(x)
      BY <1>1, <1>3 DEF Takes1
    <2>2. raced' = raced
      BY <1>3 DEF Passed, IInv, TablesOK
    <2> QED BY <1>1, <2>1, <2>2, OneQuiet
  <1>4. CASE passes /\ calls[c].to # "admin"
    <2>1. TablesOK'
      BY DEF IInv, TablesOK, Passed
    <2>2. CASE Taking # {}
      <3>1. raced' = TRUE
        BY <1>4, <2>2 DEF Passed
      <3> QED BY <1>2, <2>1, <3>1 DEF IInv, AdminInv
    <2>3. CASE Taking = {}
      <3>1. raced' = raced
        BY <2>3 DEF Passed, IInv, TablesOK
      <3>2. Taking' = {d \in Calls : Takes1(calls'[d])}
        BY DEF Taking, Strips, Takes1
      <3>3. \A d \in Taking' : d = c
        BY <1>2, <2>3, <3>2, TakingIs
      <3>4. calls'[c].id = calls[c].id
        BY <1>1, <1>2
      <3>5. Admins' = Admins
        BY DEF Admins
      <3>6. raced = FALSE => Admins \ {calls[c].id} # {}
        <4>1. CASE members[calls[c].id].role # "admin"
          BY <4>1 DEF IInv, AdminInv, Admins
        <4>2. CASE members[calls[c].id].role = "admin"
          <5>1. ~(Cardinality(Admins) <= 1)
            BY <1>4, <4>2 DEF LastAdmin
          <5> QED BY <5>1, OtherAdmin
        <4> QED BY <4>1, <4>2
      <3>7. AdminInv'
        BY <3>1, <3>3, <3>4, <3>5, <3>6 DEF IInv, AdminInv
      <3> QED BY <1>2, <2>1, <3>7 DEF IInv
    <2> QED BY <2>2, <2>3
  <1> QED BY <1>3, <1>4

LEMMA CheckRoleStep == ASSUME IInv, NEW c \in Calls, CheckRole(c) PROVE IInv'
  <1> DEFINE passes == members[calls[c].id] # Absent
                       /\ (calls[c].to = "admin" \/ ~LastAdmin(calls[c].id))
  <1>1. /\ passes \in BOOLEAN
        /\ Check(c, passes, members[calls[c].id]) /\ Passed(c, passes)
        /\ passes /\ calls[c].to # "admin" => ~LastAdmin(calls[c].id)
    BY DEF CheckRole
  <1>2. /\ calls[c] # NoCall /\ calls[c].phase = "sent"
        /\ calls[c].kind \in {"role", "remove"} /\ UNCHANGED members
    BY DEF CheckRole, Is, api
  <1> QED BY <1>1, <1>2, LastAdminChecked

LEMMA CheckRemoveStep == ASSUME IInv, NEW c \in Calls, CheckRemove(c) PROVE IInv'
  <1> DEFINE passes == members[calls[c].id] # Absent /\ ~LastAdmin(calls[c].id)
  <1>1. /\ passes \in BOOLEAN
        /\ Check(c, passes, Absent) /\ Passed(c, passes)
        /\ passes /\ calls[c].to # "admin" => ~LastAdmin(calls[c].id)
    BY DEF CheckRemove
  <1>2. /\ calls[c] # NoCall /\ calls[c].phase = "sent"
        /\ calls[c].kind \in {"role", "remove"} /\ UNCHANGED members
    BY DEF CheckRemove, Is, api
  <1> QED BY <1>1, <1>2, LastAdminChecked

LEMMA WriteAddStep == ASSUME IInv, NEW c \in Calls, WriteAdd(c) PROVE IInv'
  <1>1. calls[c] # NoCall /\ IsCall(calls[c]) /\ calls[c].kind = "add" /\ raced' = raced
    BY DEF WriteAdd, Is, IInv, CallsOK
  <1>2. CASE calls[c].to.user \in Emails
    <2>1. Becomes(c, "refused") /\ UNCHANGED <<members, raced>>
      BY <1>2 DEF WriteAdd
    <2> QED BY <1>1, <2>1, Becoming, MovesQuietly
  <1>3. CASE calls[c].to.user \notin Emails
    <2>1. PICK i \in Ids \ Known(members) :
             /\ members' = [members EXCEPT ![i] = calls[c].to]
             /\ \E y : IsCall(y) /\ y.phase = "done" /\ calls' = [calls EXCEPT ![c] = y]
      BY <1>3, WriteAddDoes DEF IInv
    <2>6. PICK y : IsCall(y) /\ y.phase = "done" /\ calls' = [calls EXCEPT ![c] = y]
      BY <2>1
    <2>8. CallsOK' /\ calls'[c] = y /\ \A d \in Calls : d # c => calls'[d] = calls[d]
      BY <2>6, OneChanges DEF IInv
    <2>9. calls[c].to \in Member
      BY <1>1 DEF IsCall, Asks
    <2>10. TablesOK'
      BY <1>1, <2>1, <2>9 DEF IInv, TablesOK, Table
    <2>11. Admins \subseteq Admins'
      <3>1. \A j \in Admins : j # i /\ members'[j] = members[j]
        BY <2>1 DEF Admins, Known, IInv, TablesOK, Table
      <3> QED BY <3>1 DEF Admins
    <2>12. Taking' = {d \in Calls : Takes1(calls'[d])}
      BY DEF Taking, Strips, Takes1
    <2>13. \A d \in Taking' : d \in Taking /\ calls'[d].id = calls[d].id
      BY <2>6, <2>8, <2>12, TakingIs DEF Takes1
    <2>14. AdminInv'
      BY <1>1, <2>11, <2>13 DEF IInv, AdminInv
    <2> QED BY <2>8, <2>10, <2>14 DEF IInv
  <1> QED BY <1>2, <1>3

\* A handler writes the row it is about, and is done.
LEMMA RowWritten ==
  ASSUME IInv, NEW c \in Calls, calls[c] # NoCall, calls[c].kind \in {"role", "remove"},
         calls[c].phase = "checked", NEW x, IsCall(x), x.phase = "done",
         calls' = [calls EXCEPT ![c] = x], NEW row \in Member \cup {Absent},
         members' = [members EXCEPT ![calls[c].id] = row], UNCHANGED raced,
         calls[c].to = "admin" =>
             row = members[calls[c].id] \/ (row \in Member /\ row.role = "admin")
  PROVE  IInv'
  <1> DEFINE i == calls[c].id
  <1>1. i \in Ids /\ IsCall(calls[c])
    BY DEF IInv, CallsOK, IsCall, Asks
  <1>2. CallsOK' /\ calls'[c] = x /\ \A d \in Calls : d # c => calls'[d] = calls[d]
    BY OneChanges DEF IInv
  <1>3. TablesOK'
    BY <1>1 DEF IInv, TablesOK, Table
  <1>4. Taking' = {d \in Calls : Takes1(calls'[d])}
    BY DEF Taking, Strips, Takes1
  <1>5. \A d \in Taking' : d \in Taking /\ d # c /\ calls'[d].id = calls[d].id
    BY <1>2, <1>4, TakingIs DEF Takes1
  <1>6. \A j \in Ids : members'[j] = IF j = i THEN row ELSE members[j]
    BY <1>1 DEF IInv, TablesOK, Table
  <1> HIDE DEF i
  <1>7. CASE calls[c].to = "admin"
    <2>1. row = members[i] \/ (row # Absent /\ row.role = "admin")
      BY <1>7, AbsentAssumption DEF i
    <2>2. Admins \subseteq Admins'
      BY <1>6, <2>1 DEF Admins
    <2>3. AdminInv'
      BY <1>5, <2>2 DEF IInv, AdminInv
    <2> QED BY <1>2, <1>3, <2>3 DEF IInv
  <1>8. CASE calls[c].to # "admin"
    <2>1. c \in Taking
      BY <1>8, TakingIs DEF Takes1
    <2>2. raced = FALSE => Taking' = {}
      BY <1>5, <2>1 DEF IInv, AdminInv
    <2>3. Admins \ {i} \subseteq Admins'
      BY <1>6 DEF Admins
    <2>4. raced = FALSE => Admins \ {i} # {}
      BY <2>1 DEF IInv, AdminInv, i
    <2>5. AdminInv'
      BY <2>2, <2>3, <2>4 DEF AdminInv
    <2> QED BY <1>2, <1>3, <2>5 DEF IInv
  <1> QED BY <1>7, <1>8

LEMMA WriteRemoveStep == ASSUME IInv, NEW c \in Calls, WriteRemove(c) PROVE IInv'
  <1>1. /\ calls[c] # NoCall /\ calls[c].kind = "remove" /\ calls[c].phase = "checked"
        /\ Becomes(c, "done") /\ members' = [members EXCEPT ![calls[c].id] = Absent]
        /\ UNCHANGED raced
    BY DEF WriteRemove, Is
  <1>2. calls[c].to # "admin"
    BY <1>1, AbsentAssumption DEF IInv, CallsOK, IsCall, Asks, Roles
  <1>3. \E x : IsCall(x) /\ x.phase = "done" /\ calls' = [calls EXCEPT ![c] = x]
    BY <1>1, Becoming
  <1> QED BY <1>1, <1>2, <1>3, RowWritten

LEMMA WriteRoleStep == ASSUME IInv, NEW c \in Calls, WriteRole(c) PROVE IInv'
  <1> DEFINE i == calls[c].id
  <1>1. /\ calls[c] # NoCall /\ calls[c].kind = "role" /\ calls[c].phase = "checked"
        /\ UNCHANGED raced
    BY DEF WriteRole, Is
  <1>2. IsCall(calls[c]) /\ i \in Ids /\ calls[c].to \in Roles
    BY <1>1 DEF IInv, CallsOK, IsCall, Asks
  <1>3. CASE members[i] = Absent
    <2>1. Becomes(c, "refused") /\ UNCHANGED <<members, raced>>
      BY <1>3 DEF WriteRole
    <2> QED BY <1>1, <2>1, Becoming, MovesQuietly
  <1>4. CASE members[i] # Absent
    <2>1. members[i] \in Member
      BY <1>2, <1>4 DEF IInv, TablesOK, Table
    <2>2. PICK r : r = IF calls[c].saw.role = calls[c].to THEN members[i].role ELSE calls[c].to
      OBVIOUS
    <2>3. members' = [members EXCEPT ![i] = [members[i] EXCEPT !.role = r]]
      BY <1>4, <2>2 DEF WriteRole
    <2>4. PICK row : row = [members[i] EXCEPT !.role = r]
      OBVIOUS
    <2>5. row \in Member
      BY <1>2, <2>1, <2>2, <2>4 DEF Member, Roles
    <2>6. calls[c].to = "admin" => row = members[i] \/ row.role = "admin"
      BY <2>1, <2>2, <2>4 DEF Member
    <2>7. members' = [members EXCEPT ![i] = row]
      BY <2>3, <2>4
    <2>9. PICK y : IsCall(y) /\ y.phase = "done" /\ calls' = [calls EXCEPT ![c] = y]
      BY <1>4, WriteRoleDoes DEF IInv
    <2> QED BY <1>1, <2>5, <2>6, <2>7, <2>9, RowWritten
  <1> QED BY <1>3, <1>4

\* The window is sent to the list of projects.
LEMMA SentAwayStep ==
  ASSUME IInv, NEW c \in Calls, ArchiveArrives(c) \/ OpenFails(c)
  PROVE  IInv'
  <1> DEFINE left == Left(calls[c].win)
  <1>1. calls' = [left EXCEPT ![c] = NoCall] /\ UNCHANGED <<members, raced>>
    BY DEF ArchiveArrives, OpenFails, api
  <1>2. left = [d \in Calls |-> left[d]]
    BY DEF Left
  <1>3. \A d \in Calls : /\ left[d] = NoCall \/ IsCall(left[d])
                         /\ Takes1(left[d]) => Takes1(calls[d]) /\ left[d].id = calls[d].id
    BY LeftIsQuiet DEF IInv
  <1> HIDE DEF left
  <1>4. calls' = [d \in Calls |-> IF d = c THEN NoCall ELSE left[d]]
    BY <1>1, <1>2
  <1>5. \A d \in Calls : calls'[d] = IF d = c THEN NoCall ELSE left[d]
    BY <1>4
  <1>6. calls' = [d \in Calls |-> calls'[d]]
    BY <1>4
  <1>7. \A d \in Calls : calls'[d] = NoCall \/ IsCall(calls'[d])
    BY <1>3, <1>5
  <1>8. CallsOK'
    BY <1>6, <1>7 DEF CallsOK
  <1>9. \A d \in Calls : Takes1(calls'[d]) => Takes1(calls[d]) /\ calls'[d].id = calls[d].id
    BY <1>3, <1>5, NoneTakes
  <1> QED BY <1>1, <1>8, <1>9, Quiet

\* Every other answer.
LEMMA AnswerStep ==
  ASSUME IInv, NEW c \in Calls,
         \/ LoadArrives(c) \/ OpenArrives(c) \/ SaveArrives(c) \/ AddArrives(c) \/ RoleArrives(c)
         \/ RemoveArrives(c) \/ Refused(c) \/ Fails(c)
  PROVE  IInv'
  <1>1. Answered(c) /\ UNCHANGED <<members, raced>>
    BY DEF LoadArrives, OpenArrives, SaveArrives, AddArrives, RoleArrives, RemoveArrives, Refused, Fails,
           Told, api
  <1> QED BY <1>1, AnsweredKeeps

LEMMA StepKeeps == ASSUME IInv, [Next]_vars PROVE IInv'
  <1>1. CASE UNCHANGED vars
    BY <1>1, Stays DEF vars
  <1>2. ASSUME NEW w \in Windows,
               \/ List(w) \/ Enter(w) \/ Leave(w) \/ Follow(w) \/ OpenSettings(w) \/ OpenMenu(w)
               \/ ClickSave(w) \/ ClickArchive(w) \/ OpenAdd(w)
               \/ DismissAdd(w) \/ \E n \in Names : Type(w, n)
        PROVE  IInv'
    <2>1. CASE Enter(w)
      BY <2>1, EnterStep
    <2>2. CASE Leave(w) \/ List(w)
      BY <2>2, LeavesKeep DEF Leave, List, api
    <2>3. CASE ClickSave(w)
      BY <2>3, SaveStep
    <2>4. CASE ClickArchive(w)
      BY <2>4, ArchiveStep
    <2>6. CASE Follow(w) \/ OpenSettings(w)
      BY <2>6, FollowStep, SettingsStep
    <2>7. CASE OpenMenu(w)
      BY <2>7, Stays DEF OpenMenu, api
    <2>5. CASE OpenAdd(w) \/ DismissAdd(w) \/ \E n \in Names : Type(w, n)
      BY <2>5, Stays DEF OpenAdd, DismissAdd, Type, api
    <2> QED BY <1>2, <2>1, <2>2, <2>3, <2>4, <2>5, <2>6, <2>7
  <1>3. ASSUME NEW w \in Windows, \E u \in Users, r \in Roles : ClickAdd(w, u, r) PROVE IInv'
    BY <1>3, AddStep
  <1>4. ASSUME NEW w \in Windows,
               \E i \in Ids : ClickRemove(w, i) \/ \E r \in Roles : ClickRole(w, i, r)
        PROVE  IInv'
    BY <1>4, RemoveStep, RoleStep
  <1>5. ASSUME NEW c \in Calls,
               \/ ReadLoad(c) \/ ReadOpen(c) \/ WriteSave(c) \/ CheckArchive(c) \/ WriteArchive(c)
               \/ CheckAdd(c) \/ WriteAdd(c) \/ CheckRole(c) \/ WriteRole(c)
               \/ CheckRemove(c) \/ WriteRemove(c)
        PROVE  IInv'
    BY <1>5, ReadLoadStep, ReadOpenStep, WriteSaveStep, CheckArchiveStep, WriteArchiveStep, CheckAddStep,
       WriteAddStep, CheckRoleStep, WriteRoleStep, CheckRemoveStep, WriteRemoveStep
  <1>6. ASSUME NEW c \in Calls,
               \/ LoadArrives(c) \/ OpenArrives(c) \/ OpenFails(c) \/ SaveArrives(c) \/ ArchiveArrives(c) \/ AddArrives(c)
               \/ RoleArrives(c) \/ RemoveArrives(c) \/ Refused(c) \/ Fails(c)
        PROVE  IInv'
    BY <1>6, SentAwayStep, AnswerStep
  <1>7. ASSUME NEW r \in Runs, StartRun(r) \/ EndRun(r) PROVE IInv'
    BY <1>7, StartRunStep, Stays DEF EndRun
  <1> QED BY <1>1, <1>2, <1>3, <1>4, <1>5, <1>6, <1>7 DEF Next

\* A project keeps an admin through every mixture of role changes, removals and
\* additions in which no two handlers passed the check of the last admin before
\* either wrote: update_project_member and remove_project_member.
THEOREM AdminStaysKept == Spec => []AdminKept
  <1>1. Init => IInv
    BY InitHolds
  <1>2. IInv /\ [Next]_vars => IInv'
    BY StepKeeps
  <1>3. IInv => AdminKept
    BY DEF IInv, AdminInv, TablesOK, AdminKept
  <1> QED BY <1>1, <1>2, <1>3, PTL DEF Spec

-----------------------------------------------------------------------------
(* What the pages show *)

Phases == {"sent", "checked", "done", "refused"}
PageType == [at: {"settings", "project", "leaving", "hub", "other"}, shown: BOOLEAN, rows: Table,
             edit: Names \cup {Absent}, saving: BOOLEAN, adding: BOOLEAN, dialog: BOOLEAN]

StoreType == [Windows -> [current: Names \cup {Other, Absent}, saved: Names \cup {Other}]]

PlainOK == name \in Names /\ archived \in BOOLEAN /\ active \subseteq Runs /\ apart \subseteq Windows

PagesOK == /\ page \in [Windows -> PageType]
           /\ store \in StoreType
           /\ \A w \in Windows : /\ page[w].shown => page[w].edit \in Names /\ page[w].at = "settings"
                                 /\ page[w].dialog => page[w].shown

\* What a request carries, and its answer.
Carries(x) ==
    /\ x.win \in Windows /\ Flagged(x) /\ x.phase \in Phases
    /\ x.kind = "save" => x.to \in Names
    /\ x.kind = "load" /\ x.phase = "done" => x.to \in Names /\ x.saw \in Table
    /\ x.kind = "open" /\ x.phase = "done" => x.to \in Names
    /\ x.kind = "role" /\ x.phase = "done" => x.saw \in Member
    /\ x.kind = "add" /\ x.phase = "done" => x.id \in Ids
CarryOK == \A c \in Calls : calls[c] # NoCall => Carries(calls[c])

OneRowEach == \A i, j \in Known(members) : members[i].user = members[j].user => i = j

TypesOK == PlainOK /\ PagesOK /\ CarryOK /\ OneRowEach

\* A request of the page a window shows, and one whose write was done.  The
\* layout's request for the project matters to no page.
Mine(c, w) == calls[c] # NoCall /\ calls[c].win = w /\ Seen(calls[c]) /\ calls[c].kind # "open"
Did(c, w, kind, i) ==
    Mine(c, w) /\ calls[c].kind = kind /\ calls[c].phase = "done" /\ calls[c].id = i

\* A page that is not shown waits for its load alone.
Here(w) ==
    /\ page[w].shown \/ page[w].rows = Nobody
    /\ \A c \in Calls : Mine(c, w) =>
         /\ page[w].at = "settings"
         /\ calls[c].kind # "load" => page[w].shown
         /\ calls[c].kind = "load" => ~page[w].shown /\ \A d \in Calls : Mine(d, w) => d = c

\* Nobody asks for a row that was just added.
Alone(w) == \A i \in Ids, c \in Calls : Did(c, w, "add", i) =>
    /\ page[w].rows[i] = Absent
    /\ \A d \in Calls : Did(d, w, "add", i) => d = c
    /\ \A d \in Calls : ~(Mine(d, w) /\ calls[d].kind \in {"role", "remove"} /\ calls[d].id = i)

Loaded(w) == \A c \in Calls :
    (Mine(c, w) /\ calls[c].kind = "load" /\ calls[c].phase = "done") => calls[c].saw = members

\* A row shown is that of the table, but for the answers still to come.
Pending(w, i) == \E c \in Calls : Did(c, w, "add", i) \/ Did(c, w, "role", i) \/ Did(c, w, "remove", i)
Gone(w, i) == page[w].rows[i] = Absent \/ \E d \in Calls : Did(d, w, "remove", i)
RowOK(w, i) ==
    /\ page[w].rows[i] = members[i] \/ Pending(w, i)
    /\ \A c \in Calls : Did(c, w, "remove", i) => members[i] = Absent
    /\ \A c \in Calls : Did(c, w, "add", i) => members[i] = calls[c].to
    /\ \A c \in Calls : Did(c, w, "role", i) =>
          members[i] = calls[c].saw \/ (members[i] = Absent /\ Gone(w, i))
    /\ page[w].rows[i] = Absent /\ members[i] # Absent => \E c \in Calls : Did(c, w, "add", i)
    /\ page[w].rows[i] # Absent /\ members[i] # Absent => page[w].rows[i].user = members[i].user
    /\ \A c, d \in Calls :
         (/\ Mine(c, w) /\ calls[c].kind = "role" /\ calls[c].id = i
          /\ Mine(d, w) /\ calls[d].kind = "role" /\ calls[d].id = i) => c = d

WindowOK(w) ==
    /\ Here(w) /\ Alone(w)
    /\ w \notin apart => Loaded(w) /\ (page[w].shown => \A i \in Ids : RowOK(w, i))

TInv == TypesOK /\ \A w \in Windows : WindowOK(w)

\* The answers that change the rows of a page.
Telling == {"load", "add", "role", "remove"}

\* A window that keeps its rows, and whose requests tell nothing new.
SamePage(w) == page'[w].rows = page[w].rows /\ page'[w].shown = page[w].shown /\ page'[w].at = page[w].at
SameNews(c, w) ==
    /\ Mine(c, w)' => Mine(c, w) /\ calls'[c].kind = calls[c].kind /\ calls'[c].id = calls[c].id
    /\ Mine(c, w)' /\ calls'[c].kind \in Telling /\ calls'[c].phase = "done" => calls'[c] = calls[c]
    /\ w \notin apart' /\ Mine(c, w) /\ calls[c].kind \in Telling /\ calls[c].phase = "done"
         => calls'[c] = calls[c]

LEMMA CalmWindow ==
  ASSUME NEW w \in Windows, WindowOK(w), SamePage(w), \A c \in Calls : SameNews(c, w),
         w \notin apart' => w \notin apart /\ members' = members
  PROVE  WindowOK(w)'
  <1>1. Here(w)'
    BY DEF WindowOK, Here, SamePage, SameNews
  <1>2. \A c \in Calls : \A i : \A k \in Telling : Did(c, w, k, i)' => Did(c, w, k, i) /\ calls'[c] = calls[c]
    BY DEF Did, SameNews, Mine
  <1>3. Alone(w)'
    BY <1>2 DEF WindowOK, Alone, SamePage, SameNews, Telling
  <1>4. ASSUME w \notin apart' PROVE Loaded(w)' /\ (page'[w].shown => \A i \in Ids : RowOK(w, i)')
    <2>1. \A c \in Calls : \A i : \A k \in Telling : Did(c, w, k, i)' <=> Did(c, w, k, i)
      BY <1>2, <1>4 DEF Did, SameNews, Mine
    <2>2. \A c \in Calls : \A i : \A k \in Telling : Did(c, w, k, i) => calls'[c] = calls[c]
      BY <1>2, <2>1
    <2>3. Loaded(w)'
      BY <1>4 DEF WindowOK, Loaded, SameNews, Telling
    <2>4. ASSUME NEW i \in Ids, page[w].shown PROVE RowOK(w, i)'
      <3>1. RowOK(w, i) /\ members' = members /\ page'[w].rows = page[w].rows
        BY <1>4, <2>4 DEF WindowOK, SamePage
      <3>2. Gone(w, i)' <=> Gone(w, i)
        BY <2>1, <3>1 DEF Gone, Telling
      <3>3. Pending(w, i)' <=> Pending(w, i)
        BY <2>1 DEF Pending, Telling
      <3>4. \A c, d \in Calls :
              (/\ Mine(c, w)' /\ calls'[c].kind = "role" /\ calls'[c].id = i
               /\ Mine(d, w)' /\ calls'[d].kind = "role" /\ calls'[d].id = i) => c = d
        BY <3>1 DEF RowOK, SameNews
      <3> QED BY <2>1, <2>2, <3>1, <3>2, <3>3, <3>4 DEF RowOK, Telling
    <2> QED BY <2>3, <2>4 DEF SamePage
  <1> QED BY <1>1, <1>3, <1>4 DEF WindowOK

\* The page of one window changes.
LEMMA OnePage ==
  ASSUME PagesOK, NEW w \in Windows, NEW p \in PageType, page' = [page EXCEPT ![w] = p]
  PROVE  /\ page' \in [Windows -> PageType] /\ page'[w] = p
         /\ \A v \in Windows : v # w => page'[v] = page[v]
  BY DEF PagesOK

LEMMA PagesKeep ==
  ASSUME PagesOK, NEW w \in Windows, NEW p \in PageType, page' = [page EXCEPT ![w] = p],
         p.shown => p.edit \in Names /\ p.at = "settings", p.dialog => p.shown,
         store' \in StoreType
  PROVE  PagesOK'
  <1>1. /\ page' \in [Windows -> PageType] /\ page'[w] = p
        /\ \A v \in Windows : v # w => page'[v] = page[v]
    BY OnePage
  <1>2. ASSUME NEW v \in Windows
        PROVE  /\ page'[v].shown => page'[v].edit \in Names /\ page'[v].at = "settings"
               /\ page'[v].dialog => page'[v].shown
    <2>1. CASE v = w
      BY <1>1, <2>1
    <2>2. CASE v # w
      BY <1>1, <2>2 DEF PagesOK
    <2> QED BY <2>1, <2>2
  <1> QED BY <1>1, <1>2 DEF PagesOK

\* One request changes, and carries what it should.
LEMMA CarryOne ==
  ASSUME CallsOK, CarryOK, NEW c \in Calls, NEW x, x = NoCall \/ IsCall(x), x = NoCall \/ Carries(x),
         calls' = [calls EXCEPT ![c] = x]
  PROVE  CarryOK' /\ calls'[c] = x /\ \A d \in Calls : d # c => calls'[d] = calls[d]
  <1>1. calls'[c] = x /\ \A d \in Calls : d # c => calls'[d] = calls[d]
    BY OneChanges
  <1> QED BY <1>1 DEF CarryOK

\* A page that shows the project sends a request.
LEMMA SendWindow ==
  ASSUME CallsOK, PagesOK, NEW w \in Windows, WindowOK(w), SamePage(w), page[w].shown,
         NEW c \in Calls, calls[c] = NoCall, NEW x, IsCall(x), x.phase = "sent", x.win = w, x.kind \notin {"load", "open"},
         calls' = [calls EXCEPT ![c] = x], members' = members, apart \subseteq apart',
         x.kind \in {"role", "remove"} => page[w].rows[x.id] # Absent,
         x.kind = "role" => \/ w \in apart'
                            \/ \A d \in Calls : ~(Mine(d, w) /\ calls[d].kind = "role" /\ calls[d].id = x.id)
  PROVE  WindowOK(w)'
  <1>1. calls'[c] = x /\ x # NoCall /\ \A d \in Calls : d # c => calls'[d] = calls[d]
    BY OneChanges, CallIsThere
  <1>2. ~Mine(c, w)
    BY DEF Mine
  <1>3. \A d \in Calls : d # c => (Mine(d, w)' <=> Mine(d, w))
    BY <1>1 DEF Mine
  <1>4. page[w].at = "settings" /\ page'[w].at = "settings" /\ page'[w].shown
    BY DEF PagesOK, SamePage
  <1>5. Here(w)'
    BY <1>1, <1>2, <1>3, <1>4 DEF WindowOK, Here
  <1>6. \A d \in Calls : \A k, i : Did(d, w, k, i)' <=> Did(d, w, k, i)
    BY <1>1, <1>2, <1>3 DEF Did
  <1>7. \A d \in Calls : \A k, i : Did(d, w, k, i) => calls'[d] = calls[d]
    BY <1>1, <1>2 DEF Did
  <1>8. Alone(w)'
    <2> SUFFICES ASSUME NEW i \in Ids, NEW b \in Calls, Did(b, w, "add", i)'
                 PROVE  /\ page'[w].rows[i] = Absent
                        /\ \A d \in Calls : Did(d, w, "add", i)' => d = b
                        /\ \A d \in Calls : ~(Mine(d, w)' /\ calls'[d].kind \in {"role", "remove"}
                                              /\ calls'[d].id = i)
      BY DEF Alone
    <2>1. Did(b, w, "add", i) /\ page'[w].rows[i] = Absent /\ page[w].rows[i] = Absent
      BY <1>6 DEF WindowOK, Alone, SamePage
    <2>2. ~(x.kind \in {"role", "remove"} /\ x.id = i)
      BY <2>1
    <2> QED BY <1>1, <1>3, <1>6, <2>1, <2>2 DEF WindowOK, Alone
  <1>9. ASSUME w \notin apart' PROVE Loaded(w)' /\ \A i \in Ids : RowOK(w, i)'
    <2>1. w \notin apart
      BY <1>9
    <2>2. Loaded(w)'
      BY <1>1, <1>2, <1>3, <2>1 DEF WindowOK, Loaded
    <2>3. ASSUME NEW i \in Ids PROVE RowOK(w, i)'
      <3>1. RowOK(w, i) /\ page'[w].rows = page[w].rows
        BY <2>1 DEF WindowOK, SamePage
      <3>2. Gone(w, i)' <=> Gone(w, i)
        BY <1>6, <3>1 DEF Gone
      <3>3. Pending(w, i)' <=> Pending(w, i)
        BY <1>6 DEF Pending
      <3>4. \A a, b \in Calls :
              (/\ Mine(a, w)' /\ calls'[a].kind = "role" /\ calls'[a].id = i
               /\ Mine(b, w)' /\ calls'[b].kind = "role" /\ calls'[b].id = i) => a = b
        BY <1>1, <1>3, <1>9, <3>1 DEF RowOK
      <3> QED BY <1>6, <1>7, <3>1, <3>2, <3>3, <3>4 DEF RowOK
    <2> QED BY <2>2, <2>3
  <1> QED BY <1>5, <1>8, <1>9 DEF WindowOK

\* A window whose page and requests are left alone.
LEMMA ElseWindow ==
  ASSUME NEW w \in Windows, WindowOK(w), SamePage(w),
         \A c \in Calls : Mine(c, w) \/ Mine(c, w)' => calls'[c] = calls[c],
         w \notin apart' => w \notin apart /\ members' = members
  PROVE  WindowOK(w)'
  <1>1. \A c \in Calls : SameNews(c, w)
    BY DEF SameNews, Mine
  <1> QED BY <1>1, CalmWindow

\* Requests, members and project as they were: the page of a window is edited.
LEMMA EditStep ==
  ASSUME TInv, NEW w \in Windows, NEW p \in PageType, page' = [page EXCEPT ![w] = p],
         p.rows = page[w].rows, p.shown = page[w].shown, p.at = page[w].at,
         p.shown => p.edit \in Names, p.dialog => p.shown,
         UNCHANGED <<api, store, calls, apart>>
  PROVE  TInv'
  <1>1. PagesOK'
    BY PagesKeep DEF TInv, TypesOK, PagesOK
  <1>2. TypesOK'
    BY <1>1 DEF TInv, TypesOK, PlainOK, CarryOK, OneRowEach, Known, api
  <1>3. ASSUME NEW v \in Windows PROVE WindowOK(v)'
    <2>1. SamePage(v)
      BY OnePage DEF SamePage, TInv, TypesOK
    <2>2. WindowOK(v) /\ UNCHANGED <<calls, members, apart>>
      BY DEF TInv, api
    <2> QED BY <2>1, <2>2, ElseWindow
  <1> QED BY <1>2, <1>3 DEF TInv

LEMMA SendStep ==
  ASSUME CallsOK, TInv, NEW w \in Windows, page[w].shown, NEW x, IsCall(x), Carries(x), x.phase = "sent",
         x.win = w, x.kind \notin {"load", "open"}, Send(x), UNCHANGED <<api, store>>,
         apart \subseteq apart', apart' \subseteq Windows, PagesOK', \A v \in Windows : SamePage(v),
         x.kind \in {"role", "remove"} => page[w].rows[x.id] # Absent,
         x.kind = "role" => \/ w \in apart'
                            \/ \A d \in Calls : ~(Mine(d, w) /\ calls[d].kind = "role" /\ calls[d].id = x.id)
  PROVE  TInv'
  <1>1. PICK c \in Calls : calls[c] = NoCall /\ calls' = [calls EXCEPT ![c] = x]
    BY DEF Send, SendFrom
  <1>2. CarryOK' /\ calls'[c] = x /\ \A d \in Calls : d # c => calls'[d] = calls[d]
    BY <1>1, CarryOne DEF TInv, TypesOK
  <1>3. TypesOK'
    BY <1>2 DEF TInv, TypesOK, PlainOK, OneRowEach, Known, api
  <1>4. ASSUME NEW v \in Windows PROVE WindowOK(v)'
    <2>1. CASE v = w
      BY <1>1, <2>1, SendWindow DEF TInv, TypesOK, api
    <2>2. CASE v # w
      <3>1. \A d \in Calls : Mine(d, v) \/ Mine(d, v)' => calls'[d] = calls[d]
        BY <1>1, <1>2, <2>2 DEF Mine
      <3> QED BY <2>2, <3>1, ElseWindow DEF TInv, api
    <2> QED BY <2>1, <2>2
  <1> QED BY <1>3, <1>4 DEF TInv

\* What a request that is sent carries.
LEMMA FreshCarries ==
  ASSUME NEW kind, NEW w \in Windows, NEW i, NEW t, Asks(kind, i, t), kind # "save" \/ t \in Names,
         NEW x, x = Call(kind, w, i, t)
  PROVE  /\ IsCall(x) /\ Carries(x) /\ x.phase = "sent" /\ x.win = w /\ x.kind = kind
         /\ x.id = i
  BY DEF Call, Carries, Phases, IsCall, Shaped, Flagged

LEMMA TypeShows == ASSUME TInv, NEW w \in Windows, NEW n \in Names, Type(w, n) PROVE TInv'
  <1> DEFINE p == [page[w] EXCEPT !.edit = n]
  <1>1. page[w] \in PageType /\ (page[w].dialog => page[w].shown)
    BY DEF TInv, TypesOK, PagesOK
  <1>2. p \in PageType /\ p.rows = page[w].rows /\ p.shown = page[w].shown /\ p.at = page[w].at
        /\ p.edit = n /\ p.dialog = page[w].dialog
    BY <1>1 DEF PageType
  <1>3. page' = [page EXCEPT ![w] = p] /\ UNCHANGED <<api, store, calls, apart>>
    BY Zenon DEF Type
  <1> HIDE DEF p
  <1> QED BY <1>1, <1>2, <1>3, EditStep

LEMMA DialogShows ==
  ASSUME TInv, NEW w \in Windows, OpenAdd(w) \/ DismissAdd(w)
  PROVE  TInv'
  <1>1. PICK b \in BOOLEAN : /\ page' = [page EXCEPT ![w] = [page[w] EXCEPT !.dialog = b]]
                             /\ b => page[w].shown
    BY Zenon DEF OpenAdd, DismissAdd
  <1> DEFINE p == [page[w] EXCEPT !.dialog = b]
  <1>2. page[w] \in PageType /\ (page[w].shown => page[w].edit \in Names)
    BY DEF TInv, TypesOK, PagesOK
  <1>3. /\ p \in PageType /\ p.rows = page[w].rows /\ p.shown = page[w].shown
        /\ p.at = page[w].at /\ p.edit = page[w].edit /\ p.dialog = b
    BY <1>2 DEF PageType
  <1>4. UNCHANGED <<api, store, calls, apart>>
    BY DEF OpenAdd, DismissAdd
  <1>5. page' = [page EXCEPT ![w] = p]
    BY <1>1
  <1> HIDE DEF p
  <1> QED BY <1>1, <1>2, <1>3, <1>4, <1>5, EditStep

\* A button of the page is disabled when its request is sent.
LEMMA ButtonKeeps ==
  ASSUME PagesOK, NEW w \in Windows, NEW p \in PageType, page' = [page EXCEPT ![w] = p],
         p.rows = page[w].rows, p.shown = page[w].shown, p.at = page[w].at,
         p.edit = page[w].edit, p.dialog => page[w].dialog, UNCHANGED store
  PROVE  PagesOK' /\ \A v \in Windows : SamePage(v)
  <1>1. PagesOK'
    BY PagesKeep DEF PagesOK
  <1>2. \A v \in Windows : SamePage(v)
    BY OnePage DEF SamePage
  <1> QED BY <1>1, <1>2

LEMMA PagesStay ==
  ASSUME PagesOK, UNCHANGED <<page, store>>
  PROVE  PagesOK' /\ \A v \in Windows : SamePage(v)
  BY DEF PagesOK, SamePage

LEMMA SaveShows == ASSUME CallsOK, TInv, NEW w \in Windows, ClickSave(w) PROVE TInv'
  <1>1. PICK x : x = Call("save", w, Absent, page[w].edit)
    OBVIOUS
  <1>2. page[w] \in PageType /\ page[w].shown /\ page[w].edit \in Names
    BY Zenon DEF TInv, TypesOK, PagesOK, ClickSave
  <1>0. Asks("save", Absent, page[w].edit)
    BY DEF Asks
  <1>3. IsCall(x) /\ x.phase = "sent" /\ Carries(x) /\ x.win = w /\ x.kind = "save"
    BY <1>0, <1>1, <1>2, FreshCarries
  <1>4. PICK y : y = [x EXCEPT !.saw = store[w].current]
    OBVIOUS
  <1>5. IsCall(y) /\ Same(x, y) /\ y.phase = "sent" /\ y.to = x.to
    BY <1>3, <1>4, CallGathers
  <1>6. Carries(y) /\ y.win = w /\ y.kind = "save"
    BY <1>3, <1>5, SameFlag DEF Carries, Same
  <1>7. Send(y)
    BY <1>1, <1>4, Zenon DEF ClickSave
  <1> DEFINE p == [page[w] EXCEPT !.saving = TRUE]
  <1>8. /\ p \in PageType /\ p.rows = page[w].rows /\ p.shown = page[w].shown
        /\ p.at = page[w].at /\ p.edit = page[w].edit /\ p.dialog = page[w].dialog
    BY <1>2 DEF PageType
  <1>9. page' = [page EXCEPT ![w] = p] /\ UNCHANGED <<api, store, apart>>
    BY Zenon DEF ClickSave
  <1> HIDE DEF p
  <1>10. PagesOK' /\ \A v \in Windows : SamePage(v)
    BY <1>8, <1>9, ButtonKeeps DEF TInv, TypesOK
  <1>11. apart' \subseteq Windows
    BY <1>9 DEF TInv, TypesOK, PlainOK
  <1> QED BY <1>2, <1>5, <1>6, <1>7, <1>9, <1>10, <1>11, SendStep

LEMMA ArchiveShows == ASSUME CallsOK, TInv, NEW w \in Windows, ClickArchive(w) PROVE TInv'
  <1>1. PICK x : x = Call("archive", w, Absent, Absent)
    OBVIOUS
  <1>0. Asks("archive", Absent, Absent)
    BY DEF Asks
  <1>2. IsCall(x) /\ x.phase = "sent" /\ Carries(x) /\ x.win = w /\ x.kind = "archive"
    BY <1>0, <1>1, FreshCarries
  <1>3. Send(x) /\ page[w].shown /\ UNCHANGED <<api, page, store, apart>>
    BY <1>1, Zenon DEF ClickArchive
  <1>4. PagesOK' /\ (\A v \in Windows : SamePage(v)) /\ apart' \subseteq Windows
    BY <1>3, PagesStay DEF TInv, TypesOK, PlainOK
  <1> QED BY <1>2, <1>3, <1>4, SendStep

LEMMA RemoveShows == ASSUME CallsOK, TInv, NEW w \in Windows, NEW i \in Ids, ClickRemove(w, i) PROVE TInv'
  <1>1. PICK x : x = Call("remove", w, i, Absent)
    OBVIOUS
  <1>0. Asks("remove", i, Absent)
    BY DEF Asks
  <1>2. /\ IsCall(x) /\ x.phase = "sent" /\ Carries(x) /\ x.win = w /\ x.kind = "remove" /\ x.id = i
    BY <1>0, <1>1, FreshCarries
  <1>3. /\ Send(x) /\ page[w].shown /\ UNCHANGED <<api, page, store, apart>>
        /\ page[w].rows[i] # Absent
    BY <1>1, Zenon DEF ClickRemove
  <1>4. PagesOK' /\ (\A v \in Windows : SamePage(v)) /\ apart' \subseteq Windows
    BY <1>3, PagesStay DEF TInv, TypesOK, PlainOK
  <1> QED BY <1>2, <1>3, <1>4, SendStep

LEMMA AddShows ==
  ASSUME CallsOK, TInv, NEW w \in Windows, NEW u \in Users, NEW r \in Roles, ClickAdd(w, u, r)
  PROVE  TInv'
  <1>1. PICK x : x = Call("add", w, Absent, [user |-> u, role |-> r])
    OBVIOUS
  <1>2. [user |-> u, role |-> r] \in Member
    BY DEF Member
  <1>0. Asks("add", Absent, [user |-> u, role |-> r])
    BY <1>2 DEF Asks
  <1>3. IsCall(x) /\ x.phase = "sent" /\ Carries(x) /\ x.win = w /\ x.kind = "add"
    BY <1>0, <1>1, <1>2, FreshCarries
  <1>4. Send(x)
    BY <1>1, Zenon DEF ClickAdd
  <1> DEFINE p == [page[w] EXCEPT !.adding = TRUE]
  <1>5. page[w] \in PageType /\ page[w].shown
    BY Zenon DEF TInv, TypesOK, PagesOK, ClickAdd
  <1>6. /\ p \in PageType /\ p.rows = page[w].rows /\ p.shown = page[w].shown
        /\ p.at = page[w].at /\ p.edit = page[w].edit /\ p.dialog = page[w].dialog
    BY <1>5 DEF PageType
  <1>7. page' = [page EXCEPT ![w] = p] /\ UNCHANGED <<api, store, apart>>
    BY Zenon DEF ClickAdd
  <1> HIDE DEF p
  <1>8. PagesOK' /\ \A v \in Windows : SamePage(v)
    BY <1>6, <1>7, ButtonKeeps DEF TInv, TypesOK
  <1>9. apart' \subseteq Windows
    BY <1>7 DEF TInv, TypesOK, PlainOK
  <1> QED BY <1>3, <1>4, <1>5, <1>7, <1>8, <1>9, SendStep

LEMMA LiveIsMine ==
  ASSUME CarryOK, NEW w \in Windows
  PROVE  \A c \in Calls : Mine(c, w) <=> c \in Live(w) /\ calls[c].kind # "open"
  BY DEF Live, Mine, CarryOK, Carries, Seen, Flagged

LEMMA RoleShows ==
  ASSUME CallsOK, TInv, NEW w \in Windows, NEW i \in Ids, NEW r \in Roles, ClickRole(w, i, r)
  PROVE  TInv'
  <1>1. PICK x : x = Call("role", w, i, r)
    OBVIOUS
  <1>0. Asks("role", i, r)
    BY DEF Asks
  <1>2. /\ IsCall(x) /\ x.phase = "sent" /\ Carries(x) /\ x.win = w /\ x.kind = "role" /\ x.id = i
    BY <1>0, <1>1, FreshCarries
  <1>3. /\ Send(x) /\ page[w].shown /\ UNCHANGED <<api, page, store>>
        /\ page[w].rows[i] # Absent
    BY <1>1, Zenon DEF ClickRole
  <1>4. apart' = IF \E c \in Live(w): calls[c].kind = "role" /\ calls[c].id = i
                 THEN apart \cup {w} ELSE apart
    BY DEF ClickRole
  <1>5. \/ w \in apart'
        \/ \A d \in Calls : ~(Mine(d, w) /\ calls[d].kind = "role" /\ calls[d].id = i)
    BY <1>4, LiveIsMine DEF TInv, TypesOK
  <1>6. apart \subseteq apart' /\ apart' \subseteq Windows
    BY <1>4 DEF TInv, TypesOK, PlainOK
  <1>7. PagesOK' /\ \A v \in Windows : SamePage(v)
    BY <1>3, PagesStay DEF TInv, TypesOK
  <1> QED BY <1>2, <1>3, <1>5, <1>6, <1>7, SendStep

LEMMA BlankIsPage ==
  ASSUME NEW where \in {"settings", "project", "leaving", "hub", "other"}
  PROVE  /\ Blank \in PageType /\ ~Blank.shown /\ ~Blank.dialog /\ Blank.at = "settings"
         /\ Away(where) \in PageType /\ ~Away(where).shown /\ ~Away(where).dialog
         /\ Blank.rows = Nobody /\ Away(where).rows = Nobody
  <1>1. Nobody \in Table
    BY DEF Nobody, Table
  <1>2. Blank \in PageType /\ ~Blank.shown /\ ~Blank.dialog /\ Blank.at = "settings"
    BY <1>1 DEF Blank, PageType
  <1>3. /\ Away(where) \in PageType /\ ~Away(where).shown /\ ~Away(where).dialog
        /\ Away(where).rows = Blank.rows
    BY <1>2 DEF Away, PageType
  <1>4. Blank.rows = Nobody
    BY DEF Blank
  <1> QED BY <1>2, <1>3, <1>4

\* The page before its project arrives: its load is the only request.
LEMMA OpensBlank ==
  ASSUME CallsOK, TInv, NEW w \in Windows, page[w].at # "settings",
         page' = [page EXCEPT ![w] = Blank], Send(Call("load", w, Absent, Absent)),
         UNCHANGED <<api, apart>>, store' \in StoreType
  PROVE  TInv'
  <1>1. PICK x : x = Call("load", w, Absent, Absent)
    OBVIOUS
  <1>2. Asks("load", Absent, Absent)
    BY DEF Asks
  <1>3. IsCall(x) /\ x.phase = "sent" /\ Carries(x) /\ x.win = w /\ x.kind = "load"
    BY <1>1, <1>2, FreshCarries
  <1>4. PICK c \in Calls : calls[c] = NoCall /\ calls' = [calls EXCEPT ![c] = x]
    BY <1>1, Zenon DEF Send, SendFrom
  <1>5. CarryOK' /\ calls'[c] = x /\ \A d \in Calls : d # c => calls'[d] = calls[d]
    BY <1>3, <1>4, CarryOne DEF TInv, TypesOK
  <1>8. PagesOK'
    BY BlankIsPage, PagesKeep DEF TInv, TypesOK
  <1>9. TypesOK'
    BY <1>5, <1>8 DEF TInv, TypesOK, PlainOK, OneRowEach, Known, api
  <1>10. /\ page'[w] = Blank
         /\ \A v \in Windows : v # w => page'[v] = page[v]
    BY BlankIsPage, OnePage DEF TInv, TypesOK
  <1>11. \A d \in Calls : ~Mine(d, w)
    BY DEF TInv, WindowOK, Here
  <1>12. \A d \in Calls : Mine(d, w)' => d = c
    BY <1>5, <1>11 DEF Mine
  <1>13. WindowOK(w)'
    <2>1. Here(w)'
      BY <1>3, <1>5, <1>10, <1>12, BlankIsPage DEF Here
    <2>2. Alone(w)' /\ Loaded(w)'
      BY <1>3, <1>5, <1>12 DEF Alone, Loaded, Did
    <2> QED BY <1>10, <2>1, <2>2, BlankIsPage DEF WindowOK
  <1>14. ASSUME NEW v \in Windows, v # w PROVE WindowOK(v)'
    <2>1. \A d \in Calls : Mine(d, v) \/ Mine(d, v)' => calls'[d] = calls[d]
      BY <1>3, <1>4, <1>5, <1>14 DEF Mine
    <2>2. SamePage(v)
      BY <1>10, <1>14 DEF SamePage
    <2> QED BY <1>14, <2>1, <2>2, ElseWindow DEF TInv, api
  <1> QED BY <1>9, <1>13, <1>14 DEF TInv

\* What the actions put in the store of a window.
LEMMA BothIsStore ==
  ASSUME PagesOK, NEW w \in Windows, NEW p \in Names \cup {Other}, Both(w, p)
  PROVE  /\ store' \in StoreType /\ store'[w] = [current |-> p, saved |-> p]
         /\ \A v \in Windows : v # w => store'[v] = store[v]
  <1>1. [current |-> p, saved |-> p] \in [current: Names \cup {Other, Absent}, saved: Names \cup {Other}]
    OBVIOUS
  <1> QED BY <1>1 DEF Both, PagesOK, StoreType

LEMMA CurrentIsStore ==
  ASSUME PagesOK, NEW w \in Windows, NEW p \in Names \cup {Other, Absent}
  PROVE  /\ [store EXCEPT ![w].current = p] \in StoreType
         /\ [store EXCEPT ![w].current = p][w].current = p
         /\ [store EXCEPT ![w].current = p][w].saved = store[w].saved
         /\ \A v \in Windows : v # w => [store EXCEPT ![w].current = p][v] = store[v]
  <1>1. store[w] \in [current: Names \cup {Other, Absent}, saved: Names \cup {Other}]
    BY DEF PagesOK, StoreType
  <1>2. PICK s : s = [store[w] EXCEPT !.current = p]
    OBVIOUS
  <1>3. s \in [current: Names \cup {Other, Absent}, saved: Names \cup {Other}]
    BY <1>1, <1>2
  <1>4. s.current = p /\ s.saved = store[w].saved
    BY <1>1, <1>2
  <1>5. [store EXCEPT ![w].current = p] = [store EXCEPT ![w] = s]
    BY <1>2
  <1> QED BY <1>3, <1>4, <1>5 DEF PagesOK, StoreType

LEMMA MountedIsStore ==
  ASSUME PagesOK, NEW w \in Windows
  PROVE  /\ Mounted(w) \in StoreType /\ Mounted(w)[w].current = store[w].saved
         /\ Mounted(w)[w].saved = store[w].saved
         /\ \A v \in Windows : v # w => Mounted(w)[v] = store[v]
  <1>1. store[w].saved \in Names \cup {Other, Absent}
    BY DEF PagesOK, StoreType
  <1> QED BY <1>1, CurrentIsStore, Zenon DEF Mounted

LEMMA EnterShows == ASSUME CallsOK, TInv, NEW w \in Windows, Enter(w) PROVE TInv'
  <1>1. page[w].edit \in Names /\ page[w].at # "settings"
    BY DEF Enter, TInv, TypesOK, PagesOK, PageType
  <1>2. store' \in StoreType
    BY <1>1, BothIsStore DEF Enter, TInv, TypesOK
  <1> QED BY <1>1, <1>2, OpensBlank DEF Enter

LEMMA SettingsShow == ASSUME CallsOK, TInv, NEW w \in Windows, OpenSettings(w) PROVE TInv'
  <1>1. page[w].at # "settings" /\ store' \in StoreType
    BY DEF OpenSettings, TInv, TypesOK, PagesOK
  <1> QED BY <1>1, OpensBlank DEF OpenSettings

\* A window that shows the project no more, and has no request of a page.
LEMMA AwayShows ==
  ASSUME CallsOK, TInv, NEW w \in Windows, NEW p \in PageType, page' = [page EXCEPT ![w] = p],
         ~p.shown, ~p.dialog, p.rows = Nobody,
         store' \in StoreType, UNCHANGED <<api, apart>>, CarryOK',
         \A c \in Calls : ~Mine(c, w)',
         \A v \in Windows \ {w}, c \in Calls : Mine(c, v) \/ Mine(c, v)' => calls'[c] = calls[c]
  PROVE  TInv'
  <1>1. PagesOK'
    BY PagesKeep DEF TInv, TypesOK
  <1>2. TypesOK'
    BY <1>1 DEF TInv, TypesOK, PlainOK, OneRowEach, Known, api
  <1>3. /\ page'[w] = p
        /\ \A v \in Windows : v # w => page'[v] = page[v]
    BY OnePage DEF TInv, TypesOK
  <1>4. WindowOK(w)'
    BY <1>3 DEF WindowOK, Here, Alone, Loaded, Did
  <1>5. ASSUME NEW v \in Windows, v # w PROVE WindowOK(v)'
    <2>1. SamePage(v)
      BY <1>3, <1>5 DEF SamePage
    <2> QED BY <1>5, <2>1, ElseWindow DEF TInv, api
  <1> QED BY <1>2, <1>4, <1>5 DEF TInv

LEMMA LeaveShows ==
  ASSUME CallsOK, TInv, NEW w \in Windows, NEW p \in PageType, page' = [page EXCEPT ![w] = p],
         ~p.shown, ~p.dialog, p.rows = Nobody,
         store' \in StoreType, UNCHANGED <<api, apart>>,
         \A c \in Calls : calls'[c] = NoCall \/ calls'[c] = Left(w)[c],
         \A c \in Calls : calls'[c] = NoCall => calls[c] = NoCall \/ calls[c].win = w
  PROVE  TInv'
  <1>1. CarryOK'
    <2> SUFFICES ASSUME NEW c \in Calls, calls'[c] # NoCall PROVE Carries(calls'[c])
      BY DEF CarryOK
    <2>1. CASE calls[c] # NoCall /\ calls[c].win = w
      BY <2>1, LeftGives, PartedIs DEF TInv, TypesOK, CarryOK, Carries
    <2>2. CASE ~(calls[c] # NoCall /\ calls[c].win = w)
      BY <2>2, LeftGives DEF TInv, TypesOK, CarryOK
    <2> QED BY <2>1, <2>2
  <1>2. \A c \in Calls : ~Mine(c, w)'
    BY LeftGives, PartedIs DEF Mine
  <1>3. \A v \in Windows \ {w}, c \in Calls : Mine(c, v) \/ Mine(c, v)' => calls'[c] = calls[c]
    BY LeftGives DEF Mine
  <1> QED BY <1>1, <1>2, <1>3, AwayShows

LEMMA LeftShows == ASSUME CallsOK, TInv, NEW w \in Windows, Leave(w) \/ List(w) PROVE TInv'
  <1>1. UNCHANGED <<api, apart>> /\ calls' = Left(w) /\ PagesOK
    BY DEF Leave, List, TInv, TypesOK
  <1>2. \A c \in Calls : /\ calls'[c] = NoCall \/ calls'[c] = Left(w)[c]
                         /\ calls'[c] = NoCall => calls[c] = NoCall \/ calls[c].win = w
    BY <1>1, LeftGives
  <1>3. CASE Leave(w)
    <2>1. page' = [page EXCEPT ![w] = Away("other")]
      BY <1>3, Zenon DEF Leave
    <2>2. store' \in StoreType
      BY <1>1, <1>3, BothIsStore DEF Leave
    <2> QED BY <1>1, <1>2, <2>1, <2>2, BlankIsPage, LeaveShows
  <1>4. CASE List(w)
    <2>1. PICK e : e = IF archived THEN Absent ELSE name
      OBVIOUS
    <2>2. e \in Names \cup {Absent}
      BY <2>1 DEF TInv, TypesOK, PlainOK
    <2>3. PICK hub : hub = Away("hub")
      OBVIOUS
    <2>4. PICK p : p = [hub EXCEPT !.edit = e]
      OBVIOUS
    <2>5. hub \in PageType /\ ~hub.shown /\ ~hub.dialog /\ hub.rows = Nobody
      BY <2>3, BlankIsPage
    <2>6. p \in PageType /\ p.shown = hub.shown /\ p.dialog = hub.dialog /\ p.rows = hub.rows
      BY <2>2, <2>4, <2>5 DEF PageType
    <2>7. page' = [page EXCEPT ![w] = p]
      BY <1>4, <2>1, <2>3, <2>4, Zenon DEF List
    <2>8. store' \in StoreType
      BY <1>1, <1>4, MountedIsStore DEF List, PagesOK
    <2> QED BY <1>1, <1>2, <2>5, <2>6, <2>7, <2>8, LeaveShows
  <1> QED BY <1>3, <1>4

\* A window that is sent to the list of projects.
LEMMA SentAwayShows ==
  ASSUME CallsOK, TInv, NEW c \in Calls, ArchiveArrives(c) \/ OpenFails(c)
  PROVE  TInv'
  <1>0. PICK w : w = calls[c].win
    OBVIOUS
  <1> DEFINE left == Left(w)
  <1>1. /\ calls[c] # NoCall /\ UNCHANGED <<api, apart>> /\ ToHub(w)
        /\ calls' = [left EXCEPT ![c] = NoCall]
    BY <1>0 DEF ArchiveArrives, OpenFails, Is
  <1>2. w \in Windows /\ PagesOK
    BY <1>0, <1>1 DEF TInv, TypesOK, CarryOK, Carries
  <1>3. store' \in StoreType
    <2>1. store' = [store EXCEPT ![w].current = Absent] \/ store' = store
      BY <1>0 DEF ArchiveArrives, OpenFails
    <2> QED BY <1>2, <2>1, CurrentIsStore DEF PagesOK
  <1>4. \E p \in PageType : /\ page' = [page EXCEPT ![w] = p]
                            /\ ~p.shown /\ ~p.dialog /\ p.rows = Nobody
    <2>1. CASE page[w].at = "hub"
      <3>1. page' = [page EXCEPT ![w] = page[w]] /\ page[w] \in PageType
        BY <1>1, <1>2, <2>1 DEF ToHub, PagesOK
      <3>2. ~page[w].shown /\ ~page[w].dialog
        BY <1>2, <2>1 DEF PagesOK
      <3>3. page[w].rows = Nobody
        BY <1>2, <3>2 DEF TInv, WindowOK, Here
      <3> QED BY <3>1, <3>2, <3>3
    <2>2. CASE page[w].at # "hub"
      BY <1>1, <2>2, BlankIsPage DEF ToHub
    <2> QED BY <2>1, <2>2
  <1>5. left = [d \in Calls |-> left[d]]
    BY DEF Left
  <1> HIDE DEF left
  <1>6. \A d \in Calls : calls'[d] = IF d = c THEN NoCall ELSE left[d]
    BY <1>1, <1>5
  <1>7. \A d \in Calls : calls'[d] = NoCall \/ calls'[d] = Left(w)[d]
    BY <1>6 DEF left
  <1>8. \A d \in Calls : calls'[d] = NoCall => calls[d] = NoCall \/ calls[d].win = w
    BY <1>0, <1>6, LeftGives DEF left
  <1> QED BY <1>1, <1>2, <1>3, <1>4, <1>7, <1>8, LeaveShows

\* A window on its way to a page of the project, and the sidebar of another.
LEMMA FollowShows == ASSUME CallsOK, TInv, NEW w \in Windows, Follow(w) PROVE TInv'
  <1>1. /\ page[w].at # "settings" /\ page' = [page EXCEPT ![w] = Away("project")]
        /\ UNCHANGED <<api, apart>> /\ PagesOK
    BY Zenon DEF Follow, TInv, TypesOK
  <1>2. store' \in StoreType
    BY <1>1, MountedIsStore DEF Follow, PagesOK
  <1>3. \A c \in Calls : ~Mine(c, w)
    BY <1>1 DEF TInv, WindowOK, Here
  <1>4. CASE UNCHANGED calls
    <2>1. CarryOK' /\ \A c \in Calls, v \in Windows : Mine(c, v)' <=> Mine(c, v)
      BY <1>4 DEF TInv, TypesOK, CarryOK, Mine
    <2> QED BY <1>1, <1>2, <1>3, <1>4, <2>1, BlankIsPage, AwayShows
  <1>5. CASE Send(Call("open", w, Absent, Absent))
    <2>1. PICK x : x = Call("open", w, Absent, Absent)
      OBVIOUS
    <2>2. Asks("open", Absent, Absent)
      BY DEF Asks
    <2>3. IsCall(x) /\ Carries(x) /\ x.win = w /\ x.kind = "open"
      BY <2>1, <2>2, FreshCarries
    <2>4. PICK c \in Calls : calls[c] = NoCall /\ calls' = [calls EXCEPT ![c] = x]
      BY <1>5, <2>1, Zenon DEF Send, SendFrom
    <2>5. CarryOK' /\ calls'[c] = x /\ \A d \in Calls : d # c => calls'[d] = calls[d]
      BY <2>3, <2>4, CarryOne DEF TInv, TypesOK
    <2>6. \A d \in Calls : ~Mine(d, w)'
      BY <1>3, <2>3, <2>5 DEF Mine
    <2>7. \A v \in Windows \ {w}, d \in Calls : Mine(d, v) \/ Mine(d, v)' => calls'[d] = calls[d]
      BY <2>3, <2>4, <2>5 DEF Mine
    <2> QED BY <1>1, <1>2, <2>5, <2>6, <2>7, BlankIsPage, AwayShows
  <1> QED BY <1>4, <1>5 DEF Follow

LEMMA MenuShows == ASSUME TInv, NEW w \in Windows, OpenMenu(w) PROVE TInv'
  <1>1. UNCHANGED <<api, page, calls, apart>> /\ PagesOK /\ store' \in StoreType
    BY MountedIsStore DEF OpenMenu, TInv, TypesOK
  <1>2. TypesOK'
    BY <1>1 DEF TInv, TypesOK, PlainOK, PagesOK, CarryOK, OneRowEach, Known, api
  <1>3. ASSUME NEW v \in Windows PROVE WindowOK(v)'
    <2>1. WindowOK(v) /\ SamePage(v)
      BY <1>1 DEF TInv, SamePage
    <2> QED BY <1>1, <2>1, ElseWindow DEF api
  <1> QED BY <1>2, <1>3 DEF TInv

\* A request moves, or is answered, and no page has news.
LEMMA MoveStep ==
  ASSUME CallsOK, TInv, NEW c \in Calls, calls[c] # NoCall, NEW x,
         \/ x = NoCall
         \/ /\ IsCall(x) /\ Carries(x) /\ Same(calls[c], x) /\ x.id = calls[c].id
            /\ x.kind \in Telling /\ x.phase = "done" => ~Seen(x),
         calls' = [calls EXCEPT ![c] = x], PagesOK', \A v \in Windows : SamePage(v), PlainOK',
         members' = members, apart \subseteq apart',
         \/ calls[c].kind \notin Telling \/ calls[c].phase # "done"
         \/ ~Seen(calls[c]) \/ calls[c].win \in apart'
  PROVE  TInv'
  <1>1. CarryOK' /\ calls'[c] = x /\ \A d \in Calls : d # c => calls'[d] = calls[d]
    BY CarryOne DEF TInv, TypesOK
  <1>2. TypesOK'
    BY <1>1 DEF TInv, TypesOK, OneRowEach, Known
  <1>3. ASSUME NEW w \in Windows PROVE WindowOK(w)'
    <2>1. SameNews(c, w)
      <3>1. CASE x = NoCall
        BY <1>1, <3>1 DEF SameNews, Mine
      <3>2. CASE IsCall(x) /\ Same(calls[c], x) /\ x.id = calls[c].id
                 /\ (x.kind \in Telling /\ x.phase = "done" => ~Seen(x))
        <4>1. x.kind = calls[c].kind /\ x.win = calls[c].win /\ (Seen(x) <=> Seen(calls[c]))
          BY <3>2, SameFlag DEF Same
        <4> QED BY <1>1, <3>2, <4>1 DEF SameNews, Mine
      <3> QED BY <3>1, <3>2
    <2>2. \A d \in Calls : d # c => SameNews(d, w)
      BY <1>1 DEF SameNews, Mine
    <2> QED BY <2>1, <2>2, CalmWindow DEF TInv
  <1> QED BY <1>2, <1>3 DEF TInv

\* A request whose handler writes no member becomes something else.
LEMMA BecomesStep ==
  ASSUME IInv, TInv, NEW c \in Calls, calls[c] # NoCall, NEW p \in Phases, Becomes(c, p),
         calls[c].kind \notin Telling \cup {"open"} \/ p # "done", calls[c].phase # "done",
         PlainOK', UNCHANGED <<members, page, store, apart>>
  PROVE  TInv'
  <1>1. PICK x : /\ IsCall(x) /\ Same(calls[c], x) /\ x.phase = p /\ x.saw = calls[c].saw
                 /\ x.kind = calls[c].kind /\ x.id = calls[c].id /\ x.to = calls[c].to
                 /\ calls' = [calls EXCEPT ![c] = x]
    BY Becoming
  <1>2. Carries(calls[c]) /\ CallsOK
    BY DEF TInv, TypesOK, CarryOK, IInv
  <1>3. Carries(x)
    BY <1>1, <1>2, SameFlag DEF Carries, Same, Telling
  <1>4. PagesOK' /\ \A v \in Windows : SamePage(v)
    BY PagesStay DEF TInv, TypesOK
  <1> QED BY <1>1, <1>2, <1>3, <1>4, MoveStep

LEMMA CheckStep ==
  ASSUME IInv, TInv, NEW c \in Calls, calls[c] # NoCall, calls[c].phase = "sent",
         NEW passes \in BOOLEAN, NEW value, Check(c, passes, value),
         UNCHANGED <<api, page, store, apart>>
  PROVE  TInv'
  <1>1. PICK x : /\ IsCall(x) /\ Same(calls[c], x)
                 /\ x.phase = IF passes THEN "checked" ELSE "refused"
                 /\ x.kind = calls[c].kind /\ x.id = calls[c].id /\ x.to = calls[c].to
                 /\ calls' = [calls EXCEPT ![c] = x]
    BY Checking
  <1>2. Carries(calls[c]) /\ CallsOK
    BY DEF TInv, TypesOK, CarryOK, IInv
  <1>3. x.phase \in {"checked", "refused"}
    BY <1>1
  <1>4. Carries(x)
    BY <1>1, <1>2, <1>3, SameFlag DEF Carries, Same, Phases
  <1>5. PagesOK' /\ \A v \in Windows : SamePage(v)
    BY PagesStay DEF TInv, TypesOK
  <1>6. PlainOK' /\ members' = members
    BY DEF TInv, TypesOK, PlainOK, api
  <1> QED BY <1>1, <1>2, <1>3, <1>4, <1>5, <1>6, MoveStep

LEMMA ChecksShow ==
  ASSUME IInv, TInv, NEW c \in Calls, CheckArchive(c) \/ CheckAdd(c) \/ CheckRole(c) \/ CheckRemove(c)
  PROVE  TInv'
  <1>1. CASE CheckArchive(c)
    <2>1. (active = {}) \in BOOLEAN
      OBVIOUS
    <2> QED BY <1>1, <2>1, CheckStep DEF CheckArchive, Is
  <1>2. CASE CheckAdd(c)
    <2>1. (calls[c].to.user \notin Emails) \in BOOLEAN
      OBVIOUS
    <2> QED BY <1>2, <2>1, CheckStep DEF CheckAdd, Is
  <1>3. CASE CheckRole(c)
    <2> DEFINE passes == members[calls[c].id] # Absent
                         /\ (calls[c].to = "admin" \/ ~LastAdmin(calls[c].id))
    <2>1. passes \in BOOLEAN /\ Check(c, passes, members[calls[c].id])
      BY <1>3 DEF CheckRole
    <2> QED BY <1>3, <2>1, CheckStep DEF CheckRole, Is
  <1>4. CASE CheckRemove(c)
    <2> DEFINE passes == members[calls[c].id] # Absent /\ ~LastAdmin(calls[c].id)
    <2>1. passes \in BOOLEAN /\ Check(c, passes, Absent)
      BY <1>4 DEF CheckRemove
    <2> QED BY <1>4, <2>1, CheckStep DEF CheckRemove, Is
  <1> QED BY <1>1, <1>2, <1>3, <1>4

LEMMA ProjectShows == ASSUME IInv, TInv, NEW c \in Calls, WriteSave(c) \/ WriteArchive(c) PROVE TInv'
  <1>1. CASE WriteSave(c)
    <2>1. calls[c] # NoCall /\ calls[c].kind = "save" /\ calls[c].phase = "sent" /\ Becomes(c, "done")
      BY <1>1 DEF WriteSave, Is
    <2>2. calls[c].to \in Names
      BY <2>1 DEF TInv, TypesOK, CarryOK, Carries
    <2>3. PlainOK' /\ UNCHANGED <<members, page, store, apart>>
      BY <1>1, <2>2 DEF WriteSave, TInv, TypesOK, PlainOK
    <2> QED BY <2>1, <2>3, BecomesStep DEF Telling, Phases
  <1>2. CASE WriteArchive(c)
    <2>1. calls[c] # NoCall /\ calls[c].kind = "archive" /\ calls[c].phase = "checked" /\ Becomes(c, "done")
      BY <1>2 DEF WriteArchive, Is
    <2>2. PlainOK' /\ UNCHANGED <<members, page, store, apart>>
      BY <1>2 DEF WriteArchive, TInv, TypesOK, PlainOK
    <2> QED BY <2>1, <2>2, BecomesStep DEF Telling, Phases
  <1> QED BY <1>1, <1>2

\* Runs matter to no page.
LEMMA RunsShow == ASSUME IInv, TInv, NEW r \in Runs, StartRun(r) \/ EndRun(r) PROVE TInv'
  <1>1. PagesOK' /\ PlainOK' /\ OneRowEach' /\ UNCHANGED <<members, apart>>
        /\ \A v \in Windows : SamePage(v)
    BY DEF StartRun, EndRun, TInv, TypesOK, PlainOK, PagesOK, OneRowEach, Known, SamePage
  <1>2. ASSUME NEW c \in Calls
        PROVE  \/ calls'[c] = calls[c]
               \/ /\ calls[c] # NoCall /\ calls[c].kind = "archive" /\ Carries(calls'[c])
                  /\ Same(calls[c], calls'[c]) /\ calls'[c].id = calls[c].id
    <2>1. CASE StartRun(r) /\ Is(c, "archive", "checked")
      <3>1. PICK old : old = calls[c]
        OBVIOUS
      <3>2. IsCall(old) /\ Carries(old) /\ old.kind = "archive" /\ calls[c] # NoCall
        BY <2>1, <3>1 DEF Is, IInv, CallsOK, TInv, TypesOK, CarryOK
      <3>3. PICK s : s = old.saw \cup {r}
        OBVIOUS
      <3>4. PICK x : x = [old EXCEPT !.saw = s]
        OBVIOUS
      <3>5. /\ IsCall(x) /\ Same(old, x) /\ x.kind = "archive" /\ x.phase = old.phase
            /\ x.id = old.id /\ x.to = old.to
        BY <3>2, <3>4, CallGathers
      <3>6. calls'[c] = x
        BY <2>1, <3>1, <3>3, <3>4, Zenon DEF StartRun
      <3>7. Carries(x)
        BY <3>2, <3>5, SameFlag DEF Carries, Same
      <3> QED BY <3>1, <3>2, <3>5, <3>6, <3>7
    <2>2. CASE ~(StartRun(r) /\ Is(c, "archive", "checked"))
      BY <2>2 DEF StartRun, EndRun
    <2> QED BY <2>1, <2>2
  <1>3. CarryOK'
    BY <1>2 DEF CarryOK, TInv, TypesOK
  <1>4. ASSUME NEW w \in Windows PROVE WindowOK(w)'
    <2>1. ASSUME NEW c \in Calls PROVE SameNews(c, w)
      <3>1. CASE calls'[c] = calls[c]
        BY <3>1 DEF SameNews, Mine
      <3>2. CASE calls'[c] # calls[c]
        BY <1>2, <3>2, SameFlag DEF SameNews, Mine, Same, Telling
      <3> QED BY <3>1, <3>2
    <2> QED BY <1>1, <2>1, CalmWindow DEF TInv
  <1> QED BY <1>1, <1>3, <1>4 DEF TInv, TypesOK

\* A page that is there takes an answer.
LEMMA TakesIs ==
  ASSUME TInv, NEW c \in Calls, calls[c] # NoCall, NEW new, Takes(c, new)
  PROVE  /\ Seen(calls[c]) => page' = [page EXCEPT ![calls[c].win] = new]
         /\ ~Seen(calls[c]) => page' = page
  <1>1. Flagged(calls[c])
    BY DEF TInv, TypesOK, CarryOK, Carries
  <1> QED BY <1>1 DEF Flagged, Seen, Takes

\* An answer that leaves the rows of its page.
LEMMA AnsweredShows ==
  ASSUME CallsOK, TInv, NEW c \in Calls, calls[c] # NoCall, Answered(c),
         NEW p \in PageType, Takes(c, p), p.rows = page[calls[c].win].rows,
         p.shown = page[calls[c].win].shown, p.at = page[calls[c].win].at,
         p.edit = page[calls[c].win].edit, p.dialog => page[calls[c].win].dialog,
         store' \in StoreType, UNCHANGED api,
         apart \subseteq apart', apart' \subseteq Windows,
         \/ calls[c].kind \notin Telling \/ calls[c].phase # "done"
         \/ ~Seen(calls[c]) \/ calls[c].win \in apart'
  PROVE  TInv'
  <1> DEFINE w == calls[c].win
  <1>1. w \in Windows
    BY DEF TInv, TypesOK, CarryOK, Carries
  <1>2. PagesOK' /\ \A v \in Windows : SamePage(v)
    <2>1. CASE Seen(calls[c])
      <3>1. page' = [page EXCEPT ![w] = p]
        BY <2>1, TakesIs
      <3>2. PagesOK'
        BY <1>1, <3>1, PagesKeep DEF TInv, TypesOK, PagesOK
      <3>3. \A v \in Windows : SamePage(v)
        BY <1>1, <3>1, OnePage DEF SamePage, TInv, TypesOK
      <3> QED BY <3>2, <3>3
    <2>2. CASE ~Seen(calls[c])
      <3>1. page' = page
        BY <2>2, TakesIs
      <3> QED BY <3>1 DEF TInv, TypesOK, PagesOK, SamePage
    <2> QED BY <2>1, <2>2
  <1>3. PlainOK' /\ members' = members
    BY DEF TInv, TypesOK, PlainOK, api
  <1>4. calls' = [calls EXCEPT ![c] = NoCall]
    BY DEF Answered
  <1> QED BY <1>2, <1>3, <1>4, MoveStep

LEMMA SavedShows == ASSUME IInv, TInv, NEW c \in Calls, SaveArrives(c) PROVE TInv'
  <1> DEFINE old == page[calls[c].win]
             p == [old EXCEPT !.saving = FALSE]
  <1>1. calls[c] # NoCall /\ calls[c].kind = "save" /\ Answered(c) /\ UNCHANGED <<api, apart>>
    BY DEF SaveArrives, Is
  <1>2. calls[c].win \in Windows /\ calls[c].to \in Names /\ CallsOK
    BY <1>1 DEF TInv, TypesOK, CarryOK, Carries, IInv
  <1>3. old \in PageType
    BY <1>2 DEF TInv, TypesOK, PagesOK
  <1>4. Takes(c, p)
    BY Zenon DEF SaveArrives
  <1>5. /\ p \in PageType /\ p.rows = old.rows /\ p.shown = old.shown
        /\ p.at = old.at /\ p.edit = old.edit /\ p.dialog = old.dialog
    BY <1>3 DEF PageType
  <1>6. store' \in StoreType
    <2>1. PICK v, n : v = calls[c].win /\ n = calls[c].to
      OBVIOUS
    <2>2. \/ store' = store
          \/ \E q \in {Other, n} : store' = [store EXCEPT ![v].current = q]
      BY <2>1 DEF SaveArrives
    <2> QED BY <1>2, <2>1, <2>2, CurrentIsStore DEF TInv, TypesOK, PagesOK
  <1>7. apart \subseteq apart' /\ apart' \subseteq Windows
    BY <1>1 DEF TInv, TypesOK, PlainOK
  <1> HIDE DEF p
  <1> QED BY <1>1, <1>2, <1>4, <1>5, <1>6, <1>7, AnsweredShows DEF Telling

LEMMA ToldShows ==
  ASSUME IInv, TInv, NEW c \in Calls, calls[c] # NoCall, Told(c), apart \subseteq apart',
         apart' \subseteq Windows, calls[c].phase # "done" \/ calls[c].win \in apart'
  PROVE  TInv'
  <1> DEFINE old == page[calls[c].win]
             s == IF calls[c].kind = "save" THEN FALSE ELSE old.saving
             a == IF calls[c].kind = "add" THEN FALSE ELSE old.adding
             p == [old EXCEPT !.saving = s, !.adding = a]
  <1>1. Answered(c) /\ UNCHANGED <<api, store>>
    BY DEF Told
  <1>2. calls[c].win \in Windows /\ CallsOK
    BY DEF TInv, TypesOK, CarryOK, Carries, IInv
  <1>3. old \in PageType
    BY <1>2 DEF TInv, TypesOK, PagesOK
  <1>4. s \in BOOLEAN /\ a \in BOOLEAN
    BY <1>3 DEF PageType
  <1>5. Takes(c, p)
    BY Zenon DEF Told
  <1> HIDE DEF s, a
  <1>6. /\ p \in PageType /\ p.rows = old.rows /\ p.shown = old.shown
        /\ p.at = old.at /\ p.edit = old.edit /\ p.dialog = old.dialog
    BY <1>3, <1>4 DEF PageType
  <1>7. store' \in StoreType
    BY <1>1 DEF TInv, TypesOK, PagesOK
  <1> HIDE DEF p
  <1> QED BY <1>1, <1>2, <1>5, <1>6, <1>7, AnsweredShows

LEMMA FailuresShow == ASSUME IInv, TInv, NEW c \in Calls, Refused(c) \/ Fails(c) PROVE TInv'
  <1>1. CASE Refused(c)
    <2>1. calls[c] # NoCall /\ Told(c) /\ calls[c].phase = "refused" /\ UNCHANGED apart
      BY <1>1 DEF Refused
    <2> QED BY <2>1, ToldShows DEF TInv, TypesOK, PlainOK
  <1>2. CASE Fails(c)
    <2>1. calls[c] # NoCall /\ Told(c) /\ apart' = apart \cup {calls[c].win}
      BY <1>2 DEF Fails
    <2>2. apart' \subseteq Windows
      BY <2>1 DEF TInv, TypesOK, PlainOK, CarryOK, Carries
    <2> QED BY <2>1, <2>2, ToldShows
  <1> QED BY <1>1, <1>2

\* An answer for a page that was left.
LEMMA UnseenShows ==
  ASSUME IInv, TInv, NEW c \in Calls, ~Seen(calls[c]),
         LoadArrives(c) \/ AddArrives(c) \/ RoleArrives(c) \/ RemoveArrives(c)
  PROVE  TInv'
  <1>1. /\ calls[c] # NoCall /\ Answered(c) /\ UNCHANGED <<api, store, apart>>
        /\ \E new : Takes(c, new)
    BY DEF LoadArrives, AddArrives, RoleArrives, RemoveArrives, Is
  <1>2. page' = page
    BY <1>1, TakesIs
  <1>3. /\ calls' = [calls EXCEPT ![c] = NoCall] /\ PagesOK' /\ \A v \in Windows : SamePage(v)
    BY <1>1, <1>2, PagesStay DEF Answered, TInv, TypesOK
  <1>4. PlainOK' /\ members' = members /\ CallsOK
    BY <1>1 DEF TInv, TypesOK, PlainOK, api, IInv
  <1> QED BY <1>1, <1>3, <1>4, MoveStep

\* Project and members are read for a page, which had nothing else under way.
LEMMA ReadShows == ASSUME IInv, TInv, NEW c \in Calls, ReadLoad(c) PROVE TInv'
  <1>0. PICK w : w = calls[c].win
    OBVIOUS
  <1>1. PICK z : /\ IsCall(z) /\ Same(calls[c], z) /\ z.phase = "done" /\ z.id = calls[c].id
                 /\ z.saw = members /\ z.to = name /\ calls' = [calls EXCEPT ![c] = z]
    BY ReadLoadDoes DEF IInv
  <1>2. calls[c] # NoCall /\ calls[c].kind = "load" /\ calls[c].phase = "sent" /\ UNCHANGED <<api, page, store>>
    BY DEF ReadLoad, Is
  <1>3. Carries(calls[c]) /\ CallsOK /\ members \in Table /\ name \in Names
    BY <1>2 DEF TInv, TypesOK, CarryOK, PlainOK, IInv, TablesOK
  <1>4. Carries(z) /\ z.kind = "load" /\ z.win = w /\ (Seen(z) <=> Seen(calls[c]))
    BY <1>0, <1>1, <1>2, <1>3, SameFlag DEF Carries, Same, Phases
  <1>5. PagesOK' /\ \A v \in Windows : SamePage(v)
    BY <1>2, PagesStay DEF TInv, TypesOK
  <1>6. /\ Seen(calls[c]) => apart' = apart \ {w}
        /\ ~Seen(calls[c]) => apart' = apart
    <2>1. Flagged(calls[c])
      BY <1>3, Zenon DEF Carries
    <2>2. apart' = IF calls[c].live THEN apart \ {calls[c].win} ELSE apart
      BY Zenon DEF ReadLoad
    <2> QED BY <1>0, <2>1, <2>2 DEF Flagged, Seen
  <1>7. PlainOK' /\ members' = members
    BY <1>2, <1>6 DEF TInv, TypesOK, PlainOK, api
  <1>8. CASE ~Seen(calls[c])
    BY <1>1, <1>2, <1>3, <1>4, <1>5, <1>6, <1>7, <1>8, MoveStep
  <1>9. CASE Seen(calls[c])
    <2>1. CarryOK' /\ calls'[c] = z /\ \A d \in Calls : d # c => calls'[d] = calls[d]
      BY <1>1, <1>3, <1>4, CarryOne DEF TInv, TypesOK
    <2>2. TypesOK'
      BY <1>5, <1>7, <2>1 DEF TInv, TypesOK, OneRowEach, Known
    <2>3. Mine(c, w) /\ w \in Windows
      BY <1>0, <1>2, <1>3, <1>9 DEF Mine, Carries
    <2>4. /\ page[w].at = "settings" /\ ~page[w].shown /\ page[w].rows = Nobody
          /\ \A d \in Calls : Mine(d, w) => d = c
      BY <1>2, <2>3 DEF TInv, WindowOK, Here
    <2>5. \A d \in Calls : Mine(d, w)' => d = c
      BY <2>1, <2>4 DEF Mine
    <2>6. WindowOK(w)'
      <3>1. Here(w)'
        BY <1>4, <1>5, <2>1, <2>3, <2>4, <2>5 DEF Here, SamePage
      <3>2. Alone(w)' /\ Loaded(w)'
        BY <1>1, <1>4, <1>7, <2>1, <2>5 DEF Alone, Loaded, Did
      <3>3. ~page'[w].shown
        BY <1>5, <2>3, <2>4 DEF SamePage
      <3> QED BY <3>1, <3>2, <3>3 DEF WindowOK
    <2>7. ASSUME NEW v \in Windows, v # w PROVE WindowOK(v)'
      <3>1. \A d \in Calls : Mine(d, v) \/ Mine(d, v)' => calls'[d] = calls[d]
        BY <1>0, <1>4, <2>1, <2>7 DEF Mine
      <3>2. v \notin apart' => v \notin apart
        BY <1>6, <1>9, <2>7
      <3> QED BY <1>5, <1>7, <3>1, <3>2, ElseWindow DEF TInv
    <2> QED BY <2>2, <2>6, <2>7 DEF TInv
  <1> QED BY <1>8, <1>9

\* The layout's project is read, and arrives.
LEMMA OpenShows == ASSUME IInv, TInv, NEW c \in Calls, ReadOpen(c) PROVE TInv'
  <1>1. PICK z : /\ IsCall(z) /\ Same(calls[c], z) /\ z.phase = "done" /\ z.id = calls[c].id
                 /\ z.to = name /\ calls' = [calls EXCEPT ![c] = z]
    BY ReadOpenDoes DEF IInv
  <1>2. /\ calls[c] # NoCall /\ calls[c].kind = "open" /\ UNCHANGED <<api, page, store, apart>>
        /\ CallsOK
    BY DEF ReadOpen, Is, IInv
  <1>3. Carries(calls[c]) /\ name \in Names
    BY <1>2 DEF TInv, TypesOK, CarryOK, PlainOK
  <1>4. Carries(z) /\ z.kind = "open"
    BY <1>1, <1>2, <1>3, SameFlag DEF Carries, Same, Phases
  <1>5. PagesOK' /\ \A v \in Windows : SamePage(v)
    BY <1>2, PagesStay DEF TInv, TypesOK
  <1>6. PlainOK' /\ members' = members
    BY <1>2 DEF TInv, TypesOK, PlainOK, api
  <1> QED BY <1>1, <1>2, <1>4, <1>5, <1>6, MoveStep DEF Telling

LEMMA OpenedShows == ASSUME IInv, TInv, NEW c \in Calls, OpenArrives(c) PROVE TInv'
  <1>1. /\ calls[c] # NoCall /\ calls[c].kind = "open" /\ calls' = [calls EXCEPT ![c] = NoCall]
        /\ UNCHANGED <<api, page, apart>> /\ CallsOK
    BY DEF OpenArrives, Answered, Is, IInv
  <1>2. PagesOK /\ calls[c].win \in Windows /\ calls[c].to \in Names
    BY DEF OpenArrives, Is, TInv, TypesOK, CarryOK, Carries
  <1>3. store' \in StoreType
    BY <1>2, BothIsStore DEF OpenArrives
  <1>4. PagesOK' /\ \A v \in Windows : SamePage(v)
    BY <1>1, <1>2, <1>3 DEF PagesOK, SamePage
  <1>5. PlainOK' /\ members' = members
    BY <1>1 DEF TInv, TypesOK, PlainOK, api
  <1> QED BY <1>1, <1>4, <1>5, MoveStep DEF Telling

\* They arrive.
LEMMA LoadShows == ASSUME IInv, TInv, NEW c \in Calls, Seen(calls[c]), LoadArrives(c) PROVE TInv'
  <1>0. PICK w : w = calls[c].win
    OBVIOUS
  <1> DEFINE p == [page[w] EXCEPT !.shown = TRUE, !.rows = calls[c].saw, !.edit = calls[c].to]
  <1>1. /\ calls[c] # NoCall /\ calls[c].kind = "load" /\ calls[c].phase = "done"
        /\ calls' = [calls EXCEPT ![c] = NoCall] /\ UNCHANGED <<api, store, apart>>
    BY DEF LoadArrives, Is, Answered
  <1>2. /\ w \in Windows /\ CallsOK /\ calls[c].saw \in Table /\ calls[c].to \in Names
        /\ page[w] \in PageType
    BY <1>0, <1>1 DEF TInv, TypesOK, CarryOK, Carries, PagesOK, IInv
  <1>3. Takes(c, p)
    BY <1>0, Zenon DEF LoadArrives
  <1>4. page' = [page EXCEPT ![w] = p]
    BY <1>0, <1>1, <1>3, TakesIs
  <1>5. /\ p \in PageType /\ p.rows = calls[c].saw /\ p.shown /\ p.at = page[w].at
        /\ p.edit = calls[c].to
    BY <1>2 DEF PageType
  <1> HIDE DEF p
  <1>6. Mine(c, w)
    BY <1>0, <1>1 DEF Mine
  <1>7. page[w].at = "settings" /\ \A d \in Calls : Mine(d, w) => d = c
    BY <1>1, <1>2, <1>6 DEF TInv, WindowOK, Here
  <1>8. CarryOK' /\ calls'[c] = NoCall /\ \A d \in Calls : d # c => calls'[d] = calls[d]
    BY <1>1, <1>2, CarryOne DEF TInv, TypesOK
  <1>9. PagesOK'
    BY <1>1, <1>2, <1>4, <1>5, <1>7, PagesKeep DEF TInv, TypesOK, PagesOK
  <1>10. TypesOK'
    BY <1>1, <1>8, <1>9 DEF TInv, TypesOK, PlainOK, OneRowEach, Known, api
  <1>11. page'[w] = p /\ \A v \in Windows : v # w => page'[v] = page[v]
    BY <1>2, <1>4, <1>5, OnePage DEF TInv, TypesOK
  <1>12. \A d \in Calls : ~Mine(d, w)'
    BY <1>7, <1>8 DEF Mine
  <1>13. WindowOK(w)'
    <2>1. Here(w)' /\ Alone(w)' /\ Loaded(w)'
      BY <1>5, <1>11, <1>12 DEF Here, Alone, Loaded, Did
    <2>2. ASSUME w \notin apart', NEW i \in Ids PROVE RowOK(w, i)'
      <3>1. page'[w].rows[i] = members[i] /\ members' = members
        BY <1>1, <1>2, <1>5, <1>6, <1>11, <2>2 DEF TInv, WindowOK, Loaded, api
      <3> QED BY <1>12, <3>1 DEF RowOK, Did
    <2> QED BY <2>1, <2>2 DEF WindowOK
  <1>14. ASSUME NEW v \in Windows, v # w PROVE WindowOK(v)'
    <2>1. \A d \in Calls : Mine(d, v) \/ Mine(d, v)' => calls'[d] = calls[d]
      BY <1>0, <1>8, <1>14 DEF Mine
    <2>2. SamePage(v)
      BY <1>11, <1>14 DEF SamePage
    <2> QED BY <1>1, <2>1, <2>2, ElseWindow DEF TInv, api
  <1> QED BY <1>10, <1>13, <1>14 DEF TInv

\* One row of a page takes an answer.
LEMMA AnswerWindow ==
  ASSUME TInv, NEW w \in Windows, NEW c \in Calls, NEW i \in Ids, NEW row,
         Mine(c, w), calls[c].phase = "done", calls[c].id = i, members' = members, apart' = apart,
         calls'[c] = NoCall, \A d \in Calls : d # c => calls'[d] = calls[d],
         page'[w].rows = [page[w].rows EXCEPT ![i] = row],
         page'[w].shown = page[w].shown, page'[w].at = page[w].at,
         \/ calls[c].kind = "add" /\ row = calls[c].to
         \/ calls[c].kind = "remove" /\ row = Absent
         \/ calls[c].kind = "role" /\ row = IF page[w].rows[i] = Absent THEN Absent ELSE calls[c].saw
  PROVE  WindowOK(w)'
  <1>1. \A d \in Calls : Mine(d, w)' <=> d # c /\ Mine(d, w)
    BY DEF Mine
  <1>2. \A d \in Calls : \A k, j : Did(d, w, k, j)' <=> d # c /\ Did(d, w, k, j)
    BY <1>1 DEF Did
  <1>3. page[w].rows \in Table
    BY DEF TInv, TypesOK, PagesOK, PageType
  <1>4. page'[w].rows[i] = row /\ \A j \in Ids : j # i => page'[w].rows[j] = page[w].rows[j]
    BY <1>3 DEF Table
  <1>5. Here(w)'
    BY <1>1 DEF TInv, WindowOK, Here
  <1>6. Did(c, w, calls[c].kind, i)
    BY DEF Did
  <1>7. Alone(w)'
    <2> SUFFICES ASSUME NEW j \in Ids, NEW b \in Calls, Did(b, w, "add", j)'
                 PROVE  /\ page'[w].rows[j] = Absent
                        /\ \A d \in Calls : Did(d, w, "add", j)' => d = b
                        /\ \A d \in Calls : ~(Mine(d, w)' /\ calls'[d].kind \in {"role", "remove"}
                                              /\ calls'[d].id = j)
      BY DEF Alone
    <2>1. Did(b, w, "add", j) /\ b # c
      BY <1>2
    <2>2. Alone(w)
      BY DEF TInv, WindowOK
    <2>3. j # i
      BY <1>6, <2>1, <2>2 DEF Alone, Did
    <2> QED BY <1>1, <1>2, <1>4, <2>1, <2>2, <2>3 DEF Alone
  <1>8. CASE w \in apart'
    BY <1>5, <1>7, <1>8 DEF WindowOK
  <1>9. CASE w \notin apart'
    <2>1. Alone(w) /\ Loaded(w) /\ (page[w].shown => \A j \in Ids : RowOK(w, j))
      BY <1>9 DEF TInv, WindowOK
    <2>2. Loaded(w)'
      BY <1>1, <2>1 DEF Loaded
    <2>3. ASSUME page[w].shown, NEW j \in Ids, j # i PROVE RowOK(w, j)'
      <3>1. RowOK(w, j) /\ page'[w].rows[j] = page[w].rows[j]
        BY <1>4, <2>1, <2>3
      <3>2. \A d \in Calls : \A k : Did(d, w, k, j)' <=> Did(d, w, k, j)
        BY <1>2, <2>3 DEF Did
      <3>3. \A d \in Calls : \A k : Did(d, w, k, j) => calls'[d] = calls[d]
        BY <1>2, <3>2
      <3>4. Pending(w, j)' <=> Pending(w, j)
        BY <3>2 DEF Pending
      <3>5. Gone(w, j)' <=> Gone(w, j)
        BY <3>1, <3>2 DEF Gone
      <3>6. \A a, b \in Calls :
              (/\ Mine(a, w)' /\ calls'[a].kind = "role" /\ calls'[a].id = j
               /\ Mine(b, w)' /\ calls'[b].kind = "role" /\ calls'[b].id = j) => a = b
        BY <1>1, <3>1 DEF RowOK
      <3> QED BY <3>1, <3>2, <3>3, <3>4, <3>5, <3>6 DEF RowOK
    <2>4. ASSUME page[w].shown PROVE RowOK(w, i)'
      <3>1. RowOK(w, i)
        BY <2>1, <2>4
      <3>2. \A a, b \in Calls :
              (/\ Mine(a, w)' /\ calls'[a].kind = "role" /\ calls'[a].id = i
               /\ Mine(b, w)' /\ calls'[b].kind = "role" /\ calls'[b].id = i) => a = b
        BY <1>1, <3>1 DEF RowOK
      <3>3. CASE calls[c].kind = "add" /\ row = calls[c].to
        <4>1. row = members[i]
          BY <1>6, <3>1, <3>3 DEF RowOK
        <4>2. \A d \in Calls : ~Did(d, w, "add", i)' /\ ~Did(d, w, "role", i)' /\ ~Did(d, w, "remove", i)'
          <5>1. Did(c, w, "add", i)
            BY <1>6, <3>3
          <5>2. \A d \in Calls : ~(Mine(d, w) /\ calls[d].kind \in {"role", "remove"} /\ calls[d].id = i)
            BY <2>1, <5>1 DEF Alone
          <5>3. \A d \in Calls : ~Did(d, w, "role", i) /\ ~Did(d, w, "remove", i)
            BY <5>2 DEF Did
          <5>4. \A d \in Calls : Did(d, w, "add", i) => d = c
            BY <2>1, <5>1 DEF Alone
          <5> QED BY <1>2, <5>3, <5>4
        <4> QED BY <1>4, <3>2, <4>1, <4>2 DEF RowOK
      <3>4. CASE calls[c].kind = "remove" /\ row = Absent
        <4>1. members[i] = Absent
          BY <1>6, <3>1, <3>4 DEF RowOK
        <4>2. \A d \in Calls : ~Did(d, w, "add", i)'
          BY <1>2, <2>1, <3>4 DEF Alone
        <4> QED BY <1>4, <3>2, <3>4, <4>1, <4>2 DEF RowOK, Gone
      <3>5. CASE calls[c].kind = "role" /\ row = IF page[w].rows[i] = Absent THEN Absent ELSE calls[c].saw
        <4>1. \A d \in Calls : ~Did(d, w, "add", i) /\ ~Did(d, w, "add", i)'
          BY <1>2, <2>1, <3>5 DEF Alone
        <4>2. \A d \in Calls : ~Did(d, w, "role", i)'
          BY <1>2, <3>1, <3>5 DEF RowOK, Did
        <4>3. CASE members[i] = calls[c].saw
          <5>1. members[i] # Absent
            BY <3>5, <4>3, AbsentAssumption DEF Mine, TInv, TypesOK, CarryOK, Carries
          <5>2. row = members[i]
            BY <3>1, <3>5, <4>1, <4>3, <5>1 DEF RowOK
          <5> QED BY <1>2, <1>4, <3>1, <3>2, <4>1, <4>2, <5>1, <5>2 DEF RowOK
        <4>4. CASE members[i] = Absent /\ Gone(w, i)
          <5>1. row = Absent \/ \E d \in Calls : Did(d, w, "remove", i)'
            BY <1>2, <3>5, <4>4 DEF Gone, Did
          <5> QED BY <1>2, <1>4, <3>1, <3>2, <4>1, <4>2, <4>4, <5>1 DEF RowOK, Pending
        <4> QED BY <1>6, <3>1, <3>5, <4>3, <4>4 DEF RowOK
      <3> QED BY <3>3, <3>4, <3>5
    <2> QED BY <1>5, <1>7, <2>2, <2>3, <2>4 DEF WindowOK
  <1> QED BY <1>8, <1>9

\* What the answer of a request makes of a page that is there.
RowTaken(c, i, row, old, p) ==
    /\ old = page[calls[c].win] /\ i = calls[c].id /\ i \in Ids
    /\ p \in PageType /\ p.rows = [old.rows EXCEPT ![i] = row] /\ p.shown = old.shown
    /\ p.at = old.at /\ p.edit = old.edit /\ (p.dialog => old.dialog)
    /\ \/ calls[c].kind = "add" /\ row = calls[c].to
       \/ calls[c].kind = "remove" /\ row = Absent
       \/ calls[c].kind = "role" /\ row = IF old.rows[i] = Absent THEN Absent ELSE calls[c].saw

LEMMA RowAnswered ==
  ASSUME IInv, TInv, NEW c \in Calls, calls[c] # NoCall, Seen(calls[c]), calls[c].phase = "done",
         Answered(c), UNCHANGED <<api, store, apart>>,
         NEW i, NEW row, NEW old, NEW p, RowTaken(c, i, row, old, p), Takes(c, p)
  PROVE  TInv'
  <1>1. PICK w : w = calls[c].win
    OBVIOUS
  <1>2. w \in Windows /\ CallsOK /\ calls' = [calls EXCEPT ![c] = NoCall]
    BY <1>1 DEF TInv, TypesOK, CarryOK, Carries, IInv, Answered
  <1>3. page' = [page EXCEPT ![w] = p]
    BY <1>1, TakesIs
  <1>4. CarryOK' /\ calls'[c] = NoCall /\ \A d \in Calls : d # c => calls'[d] = calls[d]
    BY <1>2, CarryOne DEF TInv, TypesOK
  <1>5. PagesOK'
    BY <1>1, <1>2, <1>3, PagesKeep DEF TInv, TypesOK, PagesOK, RowTaken
  <1>6. TypesOK'
    BY <1>4, <1>5 DEF TInv, TypesOK, PlainOK, OneRowEach, Known, api
  <1>7. page'[w] = p /\ \A v \in Windows : v # w => page'[v] = page[v]
    BY <1>2, <1>3, OnePage DEF TInv, TypesOK, RowTaken
  <1>8. Mine(c, w) /\ members' = members
    BY <1>1 DEF Mine, RowTaken, api
  <1>9. WindowOK(w)'
    <2>1. /\ i \in Ids /\ calls[c].id = i /\ page'[w].rows = [page[w].rows EXCEPT ![i] = row]
          /\ page'[w].shown = page[w].shown /\ page'[w].at = page[w].at
      BY <1>1, <1>7 DEF RowTaken
    <2>2. \/ calls[c].kind = "add" /\ row = calls[c].to
          \/ calls[c].kind = "remove" /\ row = Absent
          \/ calls[c].kind = "role" /\ row = IF page[w].rows[i] = Absent THEN Absent ELSE calls[c].saw
      BY <1>1 DEF RowTaken
    <2>3. apart' = apart
      OBVIOUS
    <2> QED BY <1>2, <1>4, <1>8, <2>1, <2>2, <2>3, AnswerWindow
  <1>10. ASSUME NEW v \in Windows, v # w PROVE WindowOK(v)'
    <2>1. \A d \in Calls : Mine(d, v) \/ Mine(d, v)' => calls'[d] = calls[d]
      BY <1>1, <1>4, <1>10 DEF Mine
    <2>2. SamePage(v)
      BY <1>7, <1>10 DEF SamePage
    <2> QED BY <1>8, <2>1, <2>2, ElseWindow DEF TInv
  <1> QED BY <1>6, <1>9, <1>10 DEF TInv

\* The rows a page takes from the answers.
LEMMA AnswersShow ==
  ASSUME IInv, TInv, NEW c \in Calls, Seen(calls[c]),
         AddArrives(c) \/ RoleArrives(c) \/ RemoveArrives(c)
  PROVE  TInv'
  <1>1. PICK w : w = calls[c].win
    OBVIOUS
  <1>2. PICK i : i = calls[c].id
    OBVIOUS
  <1>3. /\ calls[c] # NoCall /\ calls[c].phase = "done" /\ Answered(c)
        /\ UNCHANGED <<api, store, apart>> /\ calls[c].kind \in {"add", "role", "remove"}
    BY DEF AddArrives, RoleArrives, RemoveArrives, Is
  <1>4. w \in Windows /\ Carries(calls[c]) /\ IsCall(calls[c])
    BY <1>1, <1>3 DEF TInv, TypesOK, CarryOK, Carries, IInv, CallsOK
  <1>5. i \in Ids
    BY <1>2, <1>3, <1>4 DEF Carries, IsCall, Asks
  <1>6. PICK old : old = page[w]
    OBVIOUS
  <1>7. old \in PageType /\ old.rows \in Table
    BY <1>4, <1>6 DEF TInv, TypesOK, PagesOK, PageType
  <1>8. CASE AddArrives(c)
    <2>1. calls[c].kind = "add" /\ calls[c].to \in Member
      BY <1>4, <1>8 DEF AddArrives, Is, IsCall, Asks
    <2>0. PICK row : row = calls[c].to
      OBVIOUS
    <2> DEFINE rows == [old.rows EXCEPT ![i] = row]
               p == [old EXCEPT !.rows = rows, !.adding = FALSE, !.dialog = FALSE]
    <2>2. Takes(c, p)
      BY <1>1, <1>2, <1>6, <1>8, <2>0, Zenon DEF AddArrives
    <2>3. rows \in Table
      BY <1>5, <1>7, <2>0, <2>1 DEF Table
    <2> HIDE DEF rows
    <2>4. /\ p \in PageType /\ p.rows = rows /\ p.shown = old.shown /\ p.at = old.at
          /\ p.edit = old.edit /\ ~p.dialog
      BY <1>7, <2>3 DEF PageType
    <2> HIDE DEF p
    <2>5. RowTaken(c, i, row, old, p)
      BY <1>1, <1>2, <1>5, <1>6, <2>0, <2>1, <2>4 DEF RowTaken, rows
    <2> QED BY <1>3, <2>2, <2>5, RowAnswered
  <1>9. CASE RoleArrives(c)
    <2>1. calls[c].kind = "role" /\ calls[c].saw \in Member
      BY <1>3, <1>4, <1>9 DEF RoleArrives, Is, Carries
    <2>0. PICK row : row = IF old.rows[i] = Absent THEN Absent ELSE calls[c].saw
      OBVIOUS
    <2> DEFINE rows == [old.rows EXCEPT ![i] = row]
               p == [old EXCEPT !.rows = rows]
    <2>2. Takes(c, [old EXCEPT !.rows[i] = IF @ = Absent THEN @ ELSE calls[c].saw])
      BY <1>1, <1>2, <1>6, <1>9, Zenon DEF RoleArrives
    <2>3. [old EXCEPT !.rows[i] = IF @ = Absent THEN @ ELSE calls[c].saw] = p
      BY <2>0
    <2>4. Takes(c, p)
      BY <2>2, <2>3, Zenon
    <2>5. rows \in Table
      BY <1>5, <1>7, <2>0, <2>1 DEF Table
    <2> HIDE DEF rows
    <2>7. /\ p \in PageType /\ p.rows = rows /\ p.shown = old.shown /\ p.at = old.at
          /\ p.edit = old.edit /\ p.dialog = old.dialog
      BY <1>7, <2>5 DEF PageType
    <2> HIDE DEF p
    <2>8. RowTaken(c, i, row, old, p)
      BY <1>1, <1>2, <1>5, <1>6, <2>0, <2>1, <2>7 DEF RowTaken, rows
    <2> QED BY <1>3, <2>4, <2>8, RowAnswered
  <1>10. CASE RemoveArrives(c)
    <2>1. calls[c].kind = "remove"
      BY <1>10 DEF RemoveArrives, Is
    <2> DEFINE rows == [old.rows EXCEPT ![i] = Absent]
               p == [old EXCEPT !.rows = rows]
    <2>2. Takes(c, p)
      BY <1>1, <1>2, <1>6, <1>10, Zenon DEF RemoveArrives
    <2>3. rows \in Table
      BY <1>5, <1>7 DEF Table
    <2> HIDE DEF rows
    <2>5. /\ p \in PageType /\ p.rows = rows /\ p.shown = old.shown /\ p.at = old.at
          /\ p.edit = old.edit /\ p.dialog = old.dialog
      BY <1>7, <2>3 DEF PageType
    <2> HIDE DEF p
    <2>6. RowTaken(c, i, Absent, old, p)
      BY <1>1, <1>2, <1>5, <1>6, <2>1, <2>5 DEF RowTaken, rows
    <2> QED BY <1>3, <2>2, <2>6, RowAnswered
  <1> QED BY <1>8, <1>9, <1>10

\* A handler writes a row of the table: what its window, which is still there,
\* knows of it.
RowPut(c, i, row, x) ==
    /\ i \in Ids /\ IsCall(x) /\ Carries(x) /\ Same(calls[c], x) /\ x.phase = "done" /\ x.id = i
    /\ calls[c].phase = "checked" /\ calls' = [calls EXCEPT ![c] = x]
    /\ members' = [members EXCEPT ![i] = row]
    /\ \/ /\ x.kind = "add" /\ row = x.to /\ row \in Member /\ members[i] = Absent
          /\ \A d \in Calls : calls[d] # NoCall => calls[d].id # i
          /\ \A w \in Windows : page[w].rows[i] = Absent
       \/ /\ x.kind = "role" /\ row = x.saw /\ row \in Member /\ calls[c].id = i
          /\ members[i] # Absent /\ row.user = members[i].user
       \/ x.kind = "remove" /\ row = Absent /\ calls[c].id = i

LEMMA PutWindow ==
  ASSUME IInv, TInv, NEW w \in Windows, NEW c \in Calls, Mine(c, w), NEW i, NEW row, NEW x,
         RowPut(c, i, row, x), SamePage(w), apart \subseteq apart'
  PROVE  WindowOK(w)'
  <1>1. calls'[c] = x /\ x # NoCall /\ \A d \in Calls : d # c => calls'[d] = calls[d]
    BY OneChanges, CallIsThere DEF RowPut, IInv
  <1>2. x.kind = calls[c].kind /\ \A d \in Calls : Mine(d, w)' <=> Mine(d, w)
    BY <1>1, SameFlag DEF RowPut, Same, Mine
  <1>3. \A j \in Ids : members'[j] = IF j = i THEN row ELSE members[j]
    BY DEF RowPut, IInv, TablesOK, Table
  <1>4. x.kind \in {"add", "role", "remove"} /\ i \in Ids /\ x.id = i /\ x.phase = "done"
    BY DEF RowPut
  <1>5. page[w].shown /\ page'[w].shown /\ \A d \in Calls : Mine(d, w) => calls[d].kind # "load"
    BY <1>2, <1>4 DEF TInv, WindowOK, Here, SamePage
  <1>6. Here(w)'
    BY <1>1, <1>2 DEF TInv, WindowOK, Here, SamePage
  <1>7. \A d \in Calls : \A k, j : d # c => (Did(d, w, k, j)' <=> Did(d, w, k, j))
    BY <1>1, <1>2 DEF Did
  <1>8. \A k, j : ~Did(c, w, k, j) /\ (Did(c, w, k, j)' <=> k = x.kind /\ j = i)
    BY <1>1, <1>2, <1>4 DEF Did, RowPut
  <1>9. Alone(w)
    BY DEF TInv, WindowOK
  <1>10. x.kind = "add" => \A d \in Calls : calls[d] # NoCall => calls[d].id # i
    BY DEF RowPut
  <1>11. Alone(w)'
    <2> SUFFICES ASSUME NEW j \in Ids, NEW b \in Calls, Did(b, w, "add", j)'
                 PROVE  /\ page'[w].rows[j] = Absent
                        /\ \A d \in Calls : Did(d, w, "add", j)' => d = b
                        /\ \A d \in Calls : ~(Mine(d, w)' /\ calls'[d].kind \in {"role", "remove"}
                                              /\ calls'[d].id = j)
      BY DEF Alone
    <2>1. CASE b = c
      <3>1. x.kind = "add" /\ j = i
        BY <1>8, <2>1
      <3>2. page'[w].rows[j] = Absent
        BY <3>1 DEF RowPut, SamePage
      <3>3. \A d \in Calls : d # c => ~Mine(d, w)' \/ calls'[d].id # i
        BY <1>1, <1>10, <3>1 DEF Mine
      <3> QED BY <1>1, <2>1, <3>1, <3>2, <3>3 DEF Did
    <2>2. CASE b # c
      <3>1. Did(b, w, "add", j)
        BY <1>7, <2>2
      <3>2. x.kind = "add" => j # i
        BY <1>10, <3>1 DEF Did, Mine
      <3>3. \A d \in Calls : Did(d, w, "add", j)' => d = b
        BY <1>7, <1>8, <1>9, <3>1, <3>2 DEF Alone
      <3>4. \A d \in Calls : ~(Mine(d, w) /\ calls[d].kind \in {"role", "remove"} /\ calls[d].id = j)
        BY <1>9, <3>1 DEF Alone
      <3>5. x.kind \in {"role", "remove"} => calls[c].id = i
        BY DEF RowPut
      <3>6. \A d \in Calls : ~(Mine(d, w)' /\ calls'[d].kind \in {"role", "remove"} /\ calls'[d].id = j)
        BY <1>1, <1>2, <1>4, <3>4, <3>5
      <3> QED BY <1>9, <3>1, <3>3, <3>6 DEF Alone, SamePage
    <2> QED BY <2>1, <2>2
  <1>12. Loaded(w)'
    BY <1>1, <1>2, <1>5 DEF Loaded
  <1>14. ASSUME x.kind \in {"role", "remove"}, calls[c].id = i
         PROVE  \A d \in Calls : ~Did(d, w, "add", i) /\ ~Did(d, w, "add", i)'
    <2>1. Mine(c, w) /\ calls[c].kind \in {"role", "remove"} /\ calls[c].id = i
      BY <1>2, <1>14
    <2>2. \A d \in Calls : ~Did(d, w, "add", i)
      BY <1>4, <1>9, <2>1 DEF Alone
    <2>3. x.kind # "add"
      BY <1>14
    <2> QED BY <1>7, <1>8, <2>2, <2>3
  <1>13. ASSUME w \notin apart', NEW j \in Ids PROVE RowOK(w, j)'
    <2>1. RowOK(w, j) /\ page'[w].rows = page[w].rows
      BY <1>5, <1>13 DEF TInv, WindowOK, SamePage
    <2>2. \A a, b \in Calls :
            (/\ Mine(a, w)' /\ calls'[a].kind = "role" /\ calls'[a].id = j
             /\ Mine(b, w)' /\ calls'[b].kind = "role" /\ calls'[b].id = j) => a = b
      <3>1. \A d \in Calls : (Mine(d, w)' /\ calls'[d].kind = "role" /\ calls'[d].id = j)
                             => (Mine(d, w) /\ calls[d].kind = "role" /\ calls[d].id = j)
        BY <1>1, <1>2 DEF RowPut
      <3> QED BY <2>1, <3>1 DEF RowOK
    <2>3. CASE j # i
      <3>1. \A d \in Calls : \A k : Did(d, w, k, j)' <=> Did(d, w, k, j)
        BY <1>7, <1>8, <2>3
      <3>2. \A d \in Calls : \A k : Did(d, w, k, j) => calls'[d] = calls[d]
        BY <1>1, <1>8
      <3>3. (Pending(w, j)' <=> Pending(w, j)) /\ (Gone(w, j)' <=> Gone(w, j))
        BY <2>1, <3>1 DEF Pending, Gone
      <3> QED BY <1>3, <2>1, <2>2, <2>3, <3>1, <3>2, <3>3 DEF RowOK
    <2>4. CASE j = i
      <3>1. members'[i] = row /\ Pending(w, i)'
        BY <1>3, <1>4, <1>8 DEF Pending
      <3>2. CASE x.kind = "add"
        <4>1. \A d \in Calls : d # c => ~Mine(d, w)' \/ calls'[d].id # i
          BY <1>1, <1>10, <3>2 DEF Mine
        <4>2. \A d \in Calls : ~Did(d, w, "role", i)' /\ ~Did(d, w, "remove", i)'
                               /\ (Did(d, w, "add", i)' <=> d = c)
          BY <1>8, <3>2, <4>1 DEF Did
        <4>3. row = x.to /\ row \in Member /\ page'[w].rows[i] = Absent
          BY <2>1, <3>2 DEF RowPut
        <4> QED BY <1>1, <2>2, <2>4, <3>1, <4>2, <4>3 DEF RowOK
      <3>3. CASE x.kind = "role"
        <4>1. row = x.saw /\ row \in Member /\ members[i] # Absent /\ row.user = members[i].user
              /\ calls[c].id = i
          BY <3>3 DEF RowPut
        <4>2. \A d \in Calls : ~Did(d, w, "add", i) /\ ~Did(d, w, "add", i)'
          BY <1>14, <3>3, <4>1
        <4>3. \A d \in Calls : ~Did(d, w, "remove", i)'
          BY <1>7, <1>8, <2>1, <2>4, <3>3, <4>1 DEF RowOK
        <4>4. \A d \in Calls : Did(d, w, "role", i)' => d = c
          BY <1>7, <1>8, <2>2, <2>4, <3>3 DEF Did
        <4>5. page'[w].rows[i] # Absent /\ page'[w].rows[i].user = row.user
          BY <2>1, <2>4, <4>1, <4>2 DEF RowOK
        <4> QED BY <1>1, <2>2, <2>4, <3>1, <4>1, <4>2, <4>3, <4>4, <4>5 DEF RowOK
      <3>4. CASE x.kind = "remove"
        <4>1. row = Absent /\ calls[c].id = i
          BY <3>4 DEF RowPut
        <4>2. \A d \in Calls : ~Did(d, w, "add", i)'
          BY <1>14, <3>4, <4>1
        <4>3. Gone(w, i)'
          BY <1>4, <1>8, <3>4 DEF Gone
        <4> QED BY <2>2, <2>4, <3>1, <4>1, <4>2, <4>3 DEF RowOK
      <3> QED BY <1>4, <3>2, <3>3, <3>4
    <2> QED BY <2>3, <2>4
  <1> QED BY <1>5, <1>6, <1>11, <1>12, <1>13 DEF WindowOK

LEMMA PutStep ==
  ASSUME IInv, TInv, NEW c \in Calls, calls[c] # NoCall, NEW i, NEW row, NEW x, RowPut(c, i, row, x),
         \/ row = Absent \/ (members[i] # Absent /\ row.user = members[i].user) \/ row.user \notin Emails,
         Stale(c), UNCHANGED <<name, archived, active, page, store>>
  PROVE  TInv'
  <1>1. PICK w : w = calls[c].win
    OBVIOUS
  <1>2. Carries(calls[c]) /\ w \in Windows /\ Flagged(calls[c])
    BY <1>1 DEF TInv, TypesOK, CarryOK, Carries
  <1>3. PagesOK' /\ \A v \in Windows : SamePage(v)
    BY PagesStay DEF TInv, TypesOK
  <1>4. CarryOK' /\ calls'[c] = x /\ \A d \in Calls : d # c => calls'[d] = calls[d]
    BY CarryOne DEF TInv, TypesOK, IInv, RowPut
  <1>5. /\ apart \subseteq apart' /\ apart' \subseteq Windows
        /\ \A v \in Windows : v # w \/ ~Seen(calls[c]) => v \in apart'
    <2>1. apart' = apart \cup {v \in Windows : v # w \/ ~calls[c].live}
      BY <1>1 DEF Stale
    <2> QED BY <1>2, <2>1 DEF TInv, TypesOK, PlainOK, Flagged, Seen
  <1>6. \A j \in Ids : members'[j] = IF j = i THEN row ELSE members[j]
    BY DEF RowPut, IInv, TablesOK, Table
  <1>7. OneRowEach'
    <2>1. Known(members') = {j \in Ids : members'[j] # Absent}
      BY DEF Known
    <2>2. SUFFICES ASSUME NEW j \in Ids, members'[j] # Absent, NEW k \in Ids, members'[k] # Absent,
                          members'[j].user = members'[k].user
                   PROVE  j = k
      BY <2>1 DEF OneRowEach
    <2>3. \A a, b \in Ids : members[a] # Absent /\ members[b] # Absent
                            /\ members[a].user = members[b].user => a = b
      BY DEF TInv, TypesOK, OneRowEach, Known
    <2>4. \A a \in Ids : members[a] # Absent => members[a].user \in Emails
      BY DEF Emails, Known
    <2> QED BY <1>6, <2>2, <2>3, <2>4
  <1>8. TypesOK'
    BY <1>3, <1>4, <1>5, <1>7 DEF TInv, TypesOK, PlainOK
  <1>9. ASSUME NEW v \in Windows PROVE WindowOK(v)'
    <2>1. CASE Mine(c, v)
      BY <1>3, <1>5, <2>1, PutWindow
    <2>2. CASE ~Mine(c, v)
      <3>1. ~Mine(c, v)'
        BY <1>4, <2>2, SameFlag DEF Mine, RowPut, Same
      <3>2. \A d \in Calls : Mine(d, v) \/ Mine(d, v)' => calls'[d] = calls[d]
        BY <1>4, <2>2, <3>1
      <3>3. v \in apart'
        <4>1. calls[c].kind # "open"
          BY DEF RowPut, Same
        <4> QED BY <1>1, <1>5, <2>2, <4>1 DEF Mine
      <3> QED BY <1>3, <3>2, <3>3, ElseWindow DEF TInv
    <2> QED BY <2>1, <2>2
  <1> QED BY <1>8, <1>9 DEF TInv

LEMMA WriteAddShows == ASSUME IInv, TInv, NEW c \in Calls, WriteAdd(c) PROVE TInv'
  <1>1. /\ calls[c] # NoCall /\ calls[c].kind = "add" /\ calls[c].phase = "checked"
        /\ UNCHANGED <<name, archived, active, page, store>>
    BY DEF WriteAdd, Is
  <1>2. CASE calls[c].to.user \in Emails
    <2>1. Becomes(c, "refused") /\ UNCHANGED <<members, apart>>
      BY <1>2 DEF WriteAdd
    <2>2. PlainOK'
      BY <1>1, <2>1 DEF TInv, TypesOK, PlainOK
    <2> QED BY <1>1, <2>1, <2>2, BecomesStep DEF Phases
  <1>3. CASE calls[c].to.user \notin Emails
    <2>1. PICK i \in Ids \ Known(members) :
           /\ \A d \in Calls : calls[d] # NoCall => calls[d].id # i
           /\ \A w \in Windows : page[w].rows[i] = Absent
           /\ members' = [members EXCEPT ![i] = calls[c].to]
           /\ Stale(c)
           /\ \E y : /\ IsCall(y) /\ Same(calls[c], y) /\ y.phase = "done" /\ y.id = i
                     /\ y.to = calls[c].to /\ calls' = [calls EXCEPT ![c] = y]
      BY <1>3, WriteAddDoes DEF IInv
    <2>2. PICK y : /\ IsCall(y) /\ Same(calls[c], y) /\ y.phase = "done" /\ y.id = i
                   /\ y.to = calls[c].to /\ calls' = [calls EXCEPT ![c] = y]
      BY <2>1
    <2>3. y.kind = "add" /\ y.to \in Member /\ members[i] = Absent
      BY <1>1, <2>1, <2>2 DEF Same, IsCall, Asks, Known
    <2>4. Carries(y)
      BY <1>1, <2>1, <2>2, <2>3, SameFlag DEF Carries, Same, Phases, TInv, TypesOK, CarryOK
    <2>5. PICK row : row = y.to
      OBVIOUS
    <2>6. RowPut(c, i, row, y)
      BY <1>1, <2>1, <2>2, <2>3, <2>4, <2>5 DEF RowPut
    <2> QED BY <1>1, <1>3, <2>1, <2>2, <2>5, <2>6, PutStep
  <1> QED BY <1>2, <1>3

LEMMA WriteRoleShows == ASSUME IInv, TInv, NEW c \in Calls, WriteRole(c) PROVE TInv'
  <1>0. PICK i : i = calls[c].id
    OBVIOUS
  <1>1. /\ calls[c] # NoCall /\ calls[c].kind = "role" /\ calls[c].phase = "checked"
        /\ UNCHANGED <<name, archived, active, page, store>>
    BY DEF WriteRole, Is
  <1>2. i \in Ids /\ calls[c].to \in Roles
    BY <1>0, <1>1 DEF IInv, CallsOK, IsCall, Asks
  <1>3. CASE members[i] = Absent
    <2>1. Becomes(c, "refused") /\ UNCHANGED <<members, apart>>
      BY <1>0, <1>3 DEF WriteRole
    <2>2. PlainOK'
      BY <1>1, <2>1 DEF TInv, TypesOK, PlainOK
    <2> QED BY <1>1, <2>1, <2>2, BecomesStep DEF Phases
  <1>4. CASE members[i] # Absent
    <2>1. members \in Table /\ members[i] \in Member
      BY <1>2, <1>4 DEF IInv, TablesOK, Table
    <2>2. PICK r : r = IF calls[c].saw.role = calls[c].to THEN members[i].role ELSE calls[c].to
      OBVIOUS
    <2>3. members' = [members EXCEPT ![i] = [members[i] EXCEPT !.role = r]] /\ Stale(c)
      BY <1>0, <1>4, <2>2 DEF WriteRole
    <2>4. PICK row : row = [members[i] EXCEPT !.role = r]
      OBVIOUS
    <2>5. row \in Member /\ row.user = members[i].user
      BY <1>2, <2>1, <2>2, <2>4 DEF Member, Roles
    <2>6. members' = [members EXCEPT ![i] = row]
      BY <2>3, <2>4
    <2>7. members'[i] = row
      BY <1>2, <2>1, <2>6 DEF Table
    <2>8. PICK y : /\ IsCall(y) /\ Same(calls[c], y) /\ y.phase = "done" /\ y.id = i
                   /\ y.saw = row /\ calls' = [calls EXCEPT ![c] = y]
      BY <1>0, <1>4, <2>7, WriteRoleDoes DEF IInv
    <2>9. y.kind = "role"
      BY <1>1, <2>8 DEF Same
    <2>10. Carries(y)
      BY <1>1, <2>5, <2>8, <2>9, SameFlag DEF Carries, Same, Phases, TInv, TypesOK, CarryOK
    <2>11. RowPut(c, i, row, y)
      BY <1>0, <1>1, <1>2, <1>4, <2>5, <2>6, <2>8, <2>9, <2>10 DEF RowPut
    <2> QED BY <1>1, <1>4, <2>3, <2>5, <2>11, PutStep
  <1> QED BY <1>3, <1>4

LEMMA WriteRemoveShows == ASSUME IInv, TInv, NEW c \in Calls, WriteRemove(c) PROVE TInv'
  <1>0. PICK i : i = calls[c].id
    OBVIOUS
  <1>1. /\ calls[c] # NoCall /\ calls[c].kind = "remove" /\ calls[c].phase = "checked"
        /\ UNCHANGED <<name, archived, active, page, store>>
        /\ Becomes(c, "done") /\ Stale(c)
    BY DEF WriteRemove, Is
  <1>2. i \in Ids /\ members' = [members EXCEPT ![i] = Absent]
    BY <1>0, <1>1 DEF WriteRemove, IInv, CallsOK, IsCall, Asks
  <1>3. PICK y : /\ IsCall(y) /\ Same(calls[c], y) /\ y.phase = "done" /\ y.id = i
                 /\ y.kind = "remove" /\ calls' = [calls EXCEPT ![c] = y]
    BY <1>0, <1>1, Becoming
  <1>4. Carries(y)
    BY <1>1, <1>3, SameFlag DEF Carries, Same, Phases, TInv, TypesOK, CarryOK
  <1>5. RowPut(c, i, Absent, y)
    BY <1>0, <1>1, <1>2, <1>3, <1>4 DEF RowPut
  <1> QED BY <1>1, <1>5, PutStep

LEMMA InitShows == Init => TInv
  <1> SUFFICES ASSUME Init PROVE TInv
    OBVIOUS
  <1>1. PlainOK /\ OneRowEach
    <2>1. PICK s \in Sessions : members = s.members
      BY DEF Init
    <2>2. OneRowEach
      BY <2>1, SessionAssumption DEF OneRowEach, Known
    <2> QED BY <2>2 DEF Init, PlainOK
  <1>2. \A w \in Windows : page[w] = Away("hub")
    BY DEF Init
  <1>3. PagesOK
    <2>1. page \in [Windows -> PageType]
      BY BlankIsPage DEF Init
    <2>2. store \in StoreType
      BY DEF Init, StoreType
    <2> QED BY <1>2, <2>1, <2>2, BlankIsPage DEF PagesOK
  <1>4. \A c \in Calls : calls[c] = NoCall
    BY DEF Init
  <1>5. \A w \in Windows : WindowOK(w)
    BY <1>2, <1>4, BlankIsPage DEF WindowOK, Here, Alone, Loaded, Did, Mine
  <1> QED BY <1>1, <1>3, <1>4, <1>5 DEF TInv, TypesOK, CarryOK

LEMMA StepShows == ASSUME IInv, TInv, [Next]_vars PROVE TInv'
  <1>0. CallsOK
    BY DEF IInv
  <1>1. CASE UNCHANGED vars
    <2>1. PagesOK' /\ \A w \in Windows : SamePage(w)
      BY <1>1, PagesStay DEF vars, TInv, TypesOK
    <2>2. TypesOK'
      BY <1>1, <2>1 DEF vars, TInv, TypesOK, PlainOK, CarryOK, OneRowEach, Known
    <2>3. \A w \in Windows : WindowOK(w)'
      BY <1>1, <2>1, ElseWindow DEF vars, TInv
    <2> QED BY <2>2, <2>3 DEF TInv
  <1>2. ASSUME NEW w \in Windows,
               \/ List(w) \/ Enter(w) \/ Leave(w) \/ Follow(w) \/ OpenSettings(w) \/ OpenMenu(w)
               \/ ClickSave(w) \/ ClickArchive(w) \/ OpenAdd(w)
               \/ DismissAdd(w) \/ \E n \in Names : Type(w, n)
        PROVE  TInv'
    BY <1>0, <1>2, EnterShows, SettingsShow, LeftShows, FollowShows, MenuShows,
       SaveShows, ArchiveShows, DialogShows, TypeShows
  <1>3. ASSUME NEW w \in Windows, \E u \in Users, r \in Roles : ClickAdd(w, u, r) PROVE TInv'
    BY <1>0, <1>3, AddShows
  <1>4. ASSUME NEW w \in Windows,
               \E i \in Ids : ClickRemove(w, i) \/ \E r \in Roles : ClickRole(w, i, r)
        PROVE  TInv'
    BY <1>0, <1>4, RemoveShows, RoleShows
  <1>5. ASSUME NEW c \in Calls,
               \/ ReadLoad(c) \/ ReadOpen(c) \/ WriteSave(c) \/ CheckArchive(c) \/ WriteArchive(c)
               \/ CheckAdd(c) \/ WriteAdd(c) \/ CheckRole(c) \/ WriteRole(c)
               \/ CheckRemove(c) \/ WriteRemove(c)
        PROVE  TInv'
    BY <1>5, ReadShows, OpenShows, ProjectShows, ChecksShow, WriteAddShows, WriteRoleShows, WriteRemoveShows
  <1>6. ASSUME NEW c \in Calls,
               \/ LoadArrives(c) \/ OpenArrives(c) \/ OpenFails(c) \/ SaveArrives(c) \/ ArchiveArrives(c) \/ AddArrives(c)
               \/ RoleArrives(c) \/ RemoveArrives(c) \/ Refused(c) \/ Fails(c)
        PROVE  TInv'
    BY <1>0, <1>6, UnseenShows, LoadShows, SavedShows, OpenedShows, SentAwayShows, AnswersShow, FailuresShow
  <1>7. ASSUME NEW r \in Runs, StartRun(r) \/ EndRun(r) PROVE TInv'
    BY <1>7, RunsShow
  <1> QED BY <1>1, <1>2, <1>3, <1>4, <1>5, <1>6, <1>7 DEF Next

\* As many e-mail addresses as rows.
LEMMA EmailsCount == ASSUME OneRowEach PROVE Cardinality(Emails) = Cardinality(Known(members))
  <1>1. IsFiniteSet(Known(members))
    BY IdAssumption, FS_Subset DEF Known
  <1> DEFINE f == [i \in Known(members) |-> members[i].user]
  <1>2. f \in Bijection(Known(members), Emails)
    <2>1. f \in [Known(members) -> Emails]
      BY DEF Emails
    <2>2. \A e \in Emails : \E i \in Known(members) : f[i] = e
      BY DEF Emails
    <2>3. \A i, j \in Known(members) : f[i] = f[j] => i = j
      BY DEF OneRowEach
    <2> QED BY <2>1, <2>2, <2>3 DEF Bijection, Injection, Surjection, IsInjective
  <1>3. ExistsBijection(Known(members), Emails)
    BY <1>2 DEF ExistsBijection
  <1> QED BY <1>1, <1>3, FS_Bijection

\* Two rows of a page for one user: one of them was removed.
LEMMA RowsOfOne ==
  ASSUME TInv, NEW w \in Windows, page[w].shown, w \notin apart, NEW i \in Ids, NEW j \in Ids,
         i # j, page[w].rows[i] # Absent, page[w].rows[j] # Absent,
         page[w].rows[i].user = page[w].rows[j].user
  PROVE  \E c \in Live(w) : Is(c, "remove", "done") /\ calls[c].id \in {i, j}
  <1>1. RowOK(w, i) /\ RowOK(w, j) /\ Alone(w) /\ OneRowEach /\ CarryOK
    BY DEF TInv, WindowOK, TypesOK
  <1>2. CASE members[i] # Absent /\ members[j] # Absent
    BY <1>1, <1>2 DEF RowOK, OneRowEach, Known
  <1>3. ASSUME NEW k \in {i, j}, members[k] = Absent PROVE \E c \in Calls : Did(c, w, "remove", k)
    <2>1. RowOK(w, k) /\ page[w].rows[k] # Absent
      BY <1>1
    <2>2. \A c \in Calls : ~Did(c, w, "add", k)
      BY <1>1, <2>1 DEF Alone
    <2>3. PICK c \in Calls : Did(c, w, "role", k) \/ Did(c, w, "remove", k)
      BY <1>3, <2>1, <2>2 DEF RowOK, Pending
    <2>4. CASE Did(c, w, "role", k)
      <3>1. calls[c].saw # Absent
        BY <1>1, <2>4, AbsentAssumption DEF Did, Mine, CarryOK, Carries
      <3> QED BY <1>3, <2>1, <2>4, <3>1 DEF RowOK, Gone
    <2> QED BY <2>3, <2>4
  <1>4. \A c \in Calls : \A k : Did(c, w, "remove", k) => c \in Live(w) /\ Is(c, "remove", "done") /\ calls[c].id = k
    BY <1>1, LiveIsMine DEF Did, Mine, Is
  <1> QED BY <1>2, <1>3, <1>4

LEMMA TypesHold == ASSUME IInv, TInv PROVE TypeOK
  <1>1. PlainOK /\ members \in Table /\ raced \in BOOLEAN
    BY DEF TInv, TypesOK, IInv, TablesOK
  <1>2. Cardinality(Emails) = Cardinality(Known(members))
    BY EmailsCount DEF TInv, TypesOK
  <1>3. ASSUME NEW w \in Windows
        PROVE  /\ page[w].at \in {"settings", "project", "leaving", "hub", "other"} /\ page[w].rows \in Table
               /\ page[w].saving \in BOOLEAN /\ page[w].adding \in BOOLEAN /\ page[w].dialog \in BOOLEAN
               /\ page[w].edit \in Names \cup {Absent}
               /\ store[w].current \in Names \cup {Other, Absent} /\ store[w].saved \in Names \cup {Other}
    BY DEF TInv, TypesOK, PagesOK, PageType, StoreType
  <1>5. \A c \in Calls : calls[c] # NoCall =>
           calls[c].win \in Windows /\ calls[c].phase \in {"sent", "checked", "done", "refused"}
    BY DEF TInv, TypesOK, CarryOK, Carries, Phases
  <1>4. ASSUME NEW w \in Windows, NEW i \in Known(page[w].rows), NEW j \in Known(page[w].rows)
        PROVE  \/ i = j \/ page[w].rows[i].user # page[w].rows[j].user \/ w \in apart
               \/ \E c \in Live(w): Is(c, "remove", "done") /\ calls[c].id \in {i, j}
    <2>1. i \in Ids /\ j \in Ids /\ page[w].rows[i] # Absent /\ page[w].rows[j] # Absent
      BY DEF Known
    <2>2. page[w].shown \/ page[w].rows = Nobody
      BY DEF TInv, WindowOK, Here
    <2>3. page[w].shown
      BY <2>1, <2>2 DEF Nobody
    <2> QED BY <2>1, <2>3, RowsOfOne
  <1> QED BY <1>1, <1>2, <1>3, <1>4, <1>5 DEF TypeOK, PlainOK

\* A page at rest.
LEMMA RowsHold == ASSUME IInv, TInv PROVE RowsAreStored
  <1> SUFFICES ASSUME NEW w \in Windows, page[w].shown, Live(w) = {}, w \notin apart
               PROVE  page[w].rows = members
    BY DEF RowsAreStored
  <1>1. \A c \in Calls : ~Mine(c, w)
    BY LiveIsMine DEF TInv, TypesOK
  <1>2. \A i \in Ids : page[w].rows[i] = members[i]
    BY <1>1 DEF TInv, WindowOK, RowOK, Pending, Did
  <1>3. page[w].rows \in Table /\ members \in Table
    BY DEF TInv, TypesOK, PagesOK, PageType, IInv, TablesOK
  <1> QED BY <1>2, <1>3 DEF Table

\* The table has one row for a user, and a page two of them only until the
\* answer to a removal arrives; a page at rest shows the table, unless others
\* changed it: add_project_member, update_project_member, remove_project_member
\* and the handlers of the page that apply their answers one by one.
THEOREM TeamStaysShown == Spec => []TeamIsShown
  <1>1. Init => IInv /\ TInv
    BY InitHolds, InitShows
  <1>2. IInv /\ TInv /\ [Next]_vars => IInv' /\ TInv'
    BY StepKeeps, StepShows
  <1>3. IInv /\ TInv => TeamIsShown
    BY TypesHold, RowsHold DEF TeamIsShown
  <1> QED BY <1>1, <1>2, <1>3, PTL DEF Spec

-----------------------------------------------------------------------------
(* What an archived project leaves behind *)

\* The runs that archive_project does not know of were started since it looked.
IdleOK == \A c \in Calls : Is(c, "archive", "checked") => active \subseteq calls[c].saw

LEMMA IdleKeeps ==
  ASSUME IdleOK, active' \subseteq active,
         \A c \in Calls : Is(c, "archive", "checked")' =>
            Is(c, "archive", "checked") /\ calls'[c].saw = calls[c].saw
  PROVE  IdleOK'
  BY DEF IdleOK

LEMMA IdleOne ==
  ASSUME CallsOK, IdleOK, NEW c \in Calls, NEW x, x = NoCall \/ IsCall(x),
         x = NoCall \/ x.kind # "archive" \/ x.phase # "checked",
         calls' = [calls EXCEPT ![c] = x], active' = active
  PROVE  IdleOK'
  <1>1. calls'[c] = x /\ \A d \in Calls : d # c => calls'[d] = calls[d]
    BY OneChanges
  <1> QED BY <1>1, IdleKeeps DEF Is

LEMMA IdleSent ==
  ASSUME CallsOK, IdleOK, NEW x, IsCall(x), x.phase = "sent", Send(x), active' = active
  PROVE  IdleOK'
  BY IdleOne DEF Send, SendFrom

LEMMA ClicksIdle ==
  ASSUME IInv, TInv, IdleOK, NEW w \in Windows,
         \/ Enter(w) \/ Follow(w) \/ OpenSettings(w) \/ ClickSave(w) \/ ClickArchive(w)
         \/ \E u \in Users, r \in Roles : ClickAdd(w, u, r)
         \/ \E i \in Ids : ClickRemove(w, i) \/ \E r \in Roles : ClickRole(w, i, r)
  PROVE  IdleOK'
  <1>0. CallsOK /\ active' = active
    BY DEF IInv, Enter, Follow, OpenSettings, ClickSave, ClickArchive, ClickAdd, ClickRemove, ClickRole, api
  <1>1. CASE Enter(w)
    <2>1. Asks("load", Absent, Absent)
      BY DEF Asks
    <2> QED BY <1>0, <1>1, <2>1, Fresh, IdleSent DEF Enter
  <1>7. CASE OpenSettings(w)
    <2>1. Asks("load", Absent, Absent)
      BY DEF Asks
    <2> QED BY <1>0, <1>7, <2>1, Fresh, IdleSent DEF OpenSettings
  <1>8. CASE Follow(w)
    <2>1. Asks("open", Absent, Absent)
      BY DEF Asks
    <2>2. UNCHANGED calls \/ Send(Call("open", w, Absent, Absent))
      BY <1>8 DEF Follow
    <2>3. CASE UNCHANGED calls
      BY <1>0, <2>3, IdleKeeps DEF Is
    <2> QED BY <1>0, <2>1, <2>2, <2>3, Fresh, IdleSent
  <1>2. CASE ClickSave(w)
    <2>1. PICK x : x = Call("save", w, Absent, page[w].edit)
      OBVIOUS
    <2>2. IsCall(x) /\ x.phase = "sent"
      BY <2>1, Fresh DEF Asks
    <2>3. PICK y : y = [x EXCEPT !.saw = store[w].current]
      OBVIOUS
    <2>4. IsCall(y) /\ y.phase = "sent"
      BY <2>2, <2>3, CallGathers
    <2>5. Send(y)
      BY <1>2, <2>1, <2>3, Zenon DEF ClickSave
    <2> QED BY <1>0, <2>4, <2>5, IdleSent
  <1>3. CASE ClickArchive(w)
    <2>1. Asks("archive", Absent, Absent)
      BY DEF Asks
    <2> QED BY <1>0, <1>3, <2>1, Fresh, IdleSent DEF ClickArchive
  <1>4. ASSUME NEW u \in Users, NEW r \in Roles, ClickAdd(w, u, r) PROVE IdleOK'
    <2>1. Asks("add", Absent, [user |-> u, role |-> r])
      BY DEF Asks, Member
    <2> QED BY <1>0, <1>4, <2>1, Fresh, IdleSent DEF ClickAdd
  <1>5. ASSUME NEW i \in Ids, ClickRemove(w, i) PROVE IdleOK'
    <2>1. Asks("remove", i, Absent)
      BY DEF Asks
    <2> QED BY <1>0, <1>5, <2>1, Fresh, IdleSent DEF ClickRemove
  <1>6. ASSUME NEW i \in Ids, NEW r \in Roles, ClickRole(w, i, r) PROVE IdleOK'
    <2>1. Asks("role", i, r)
      BY DEF Asks
    <2> QED BY <1>0, <1>6, <2>1, Fresh, IdleSent DEF ClickRole
  <1> QED BY <1>1, <1>2, <1>3, <1>4, <1>5, <1>6, <1>7, <1>8

\* A request whose handler does not go on to archive.
LEMMA BecomesIdle ==
  ASSUME IInv, IdleOK, NEW c \in Calls, calls[c] # NoCall, NEW p, p # "checked", Becomes(c, p),
         active' = active
  PROVE  IdleOK'
  <1>1. PICK x : IsCall(x) /\ x.phase = p /\ calls' = [calls EXCEPT ![c] = x]
    BY Becoming
  <1> QED BY <1>1, IdleOne DEF IInv

LEMMA CheckIdle ==
  ASSUME IInv, IdleOK, NEW c \in Calls, calls[c] # NoCall, calls[c].kind # "archive",
         NEW passes \in BOOLEAN, NEW value, Check(c, passes, value), active' = active
  PROVE  IdleOK'
  <1>1. PICK x : IsCall(x) /\ x.kind = calls[c].kind /\ calls' = [calls EXCEPT ![c] = x]
    BY Checking
  <1> QED BY <1>1, IdleOne DEF IInv

LEMMA ArchiveCheckIdle == ASSUME IInv, IdleOK, NEW c \in Calls, CheckArchive(c) PROVE IdleOK'
  <1> DEFINE passes == active = {}
  <1>1. calls[c] # NoCall /\ Check(c, passes, {}) /\ active' = active /\ passes \in BOOLEAN
    BY DEF CheckArchive, Is, api
  <1> HIDE DEF passes
  <1>2. PICK x : /\ IsCall(x) /\ x.phase = IF passes THEN "checked" ELSE "refused"
                 /\ calls' = [calls EXCEPT ![c] = x]
    BY <1>1, Checking
  <1>3. calls'[c] = x /\ \A d \in Calls : d # c => calls'[d] = calls[d]
    BY <1>2, OneChanges DEF IInv
  <1>4. CASE passes
    BY <1>1, <1>3, <1>4 DEF IdleOK, Is, passes
  <1>5. CASE ~passes
    BY <1>1, <1>2, <1>5, IdleOne DEF IInv
  <1> QED BY <1>4, <1>5

LEMMA HandlersIdle ==
  ASSUME IInv, IdleOK, NEW c \in Calls,
         \/ ReadLoad(c) \/ ReadOpen(c) \/ WriteSave(c) \/ CheckArchive(c) \/ WriteArchive(c)
         \/ CheckAdd(c) \/ WriteAdd(c) \/ CheckRole(c) \/ WriteRole(c)
         \/ CheckRemove(c) \/ WriteRemove(c)
  PROVE  IdleOK'
  <1>1. calls[c] # NoCall /\ active' = active /\ CallsOK
    BY DEF IInv, ReadLoad, ReadOpen, WriteSave, CheckArchive, WriteArchive, CheckAdd, WriteAdd, CheckRole,
           WriteRole, CheckRemove, WriteRemove, Is, api
  <1>2. CASE ReadLoad(c)
    <2>1. PICK z : IsCall(z) /\ z.phase = "done" /\ calls' = [calls EXCEPT ![c] = z]
      BY <1>1, <1>2, ReadLoadDoes
    <2> QED BY <1>1, <2>1, IdleOne
  <1>10. CASE ReadOpen(c)
    <2>1. PICK z : IsCall(z) /\ z.phase = "done" /\ calls' = [calls EXCEPT ![c] = z]
      BY <1>1, <1>10, ReadOpenDoes
    <2> QED BY <1>1, <2>1, IdleOne
  <1>3. CASE WriteSave(c) \/ WriteArchive(c) \/ WriteRemove(c)
    BY <1>1, <1>3, BecomesIdle DEF WriteSave, WriteArchive, WriteRemove
  <1>4. CASE CheckArchive(c)
    BY <1>4, ArchiveCheckIdle
  <1>5. CASE CheckAdd(c)
    <2>1. calls[c].kind # "archive" /\ (calls[c].to.user \notin Emails) \in BOOLEAN
      BY <1>5 DEF CheckAdd, Is
    <2> QED BY <1>1, <1>5, <2>1, CheckIdle DEF CheckAdd
  <1>6. CASE CheckRole(c)
    <2> DEFINE passes == members[calls[c].id] # Absent
                         /\ (calls[c].to = "admin" \/ ~LastAdmin(calls[c].id))
    <2>1. /\ passes \in BOOLEAN /\ Check(c, passes, members[calls[c].id])
          /\ calls[c].kind # "archive"
      BY <1>6 DEF CheckRole, Is
    <2> QED BY <1>1, <2>1, CheckIdle
  <1>7. CASE CheckRemove(c)
    <2> DEFINE passes == members[calls[c].id] # Absent /\ ~LastAdmin(calls[c].id)
    <2>1. passes \in BOOLEAN /\ Check(c, passes, Absent) /\ calls[c].kind # "archive"
      BY <1>7 DEF CheckRemove, Is
    <2> QED BY <1>1, <2>1, CheckIdle
  <1>8. CASE WriteAdd(c)
    <2>1. CASE calls[c].to.user \in Emails
      BY <1>1, <1>8, <2>1, BecomesIdle DEF WriteAdd
    <2>2. CASE calls[c].to.user \notin Emails
      <3>1. PICK y : IsCall(y) /\ y.phase = "done" /\ calls' = [calls EXCEPT ![c] = y]
        BY <1>1, <1>8, <2>2, WriteAddDoes
      <3> QED BY <1>1, <3>1, IdleOne
    <2> QED BY <2>1, <2>2
  <1>9. CASE WriteRole(c)
    <2>1. CASE members[calls[c].id] = Absent
      BY <1>1, <1>9, <2>1, BecomesIdle DEF WriteRole
    <2>2. CASE members[calls[c].id] # Absent
      <3>1. PICK y : IsCall(y) /\ y.phase = "done" /\ calls' = [calls EXCEPT ![c] = y]
        BY <1>1, <1>9, <2>2, WriteRoleDoes
      <3> QED BY <1>1, <3>1, IdleOne
    <2> QED BY <2>1, <2>2
  <1> QED BY <1>2, <1>3, <1>4, <1>5, <1>6, <1>7, <1>8, <1>9, <1>10

LEMMA LeavingIdle ==
  ASSUME IInv, IdleOK, NEW w, active' = active,
         \A c \in Calls : calls'[c] = NoCall \/ calls'[c] = Left(w)[c]
  PROVE  IdleOK'
  <1>1. \A c \in Calls : Is(c, "archive", "checked")' =>
            Is(c, "archive", "checked") /\ calls'[c].saw = calls[c].saw
    BY LeftGives DEF IInv, Is
  <1> QED BY <1>1, IdleKeeps

LEMMA RunsIdle == ASSUME IInv, IdleOK, NEW r \in Runs, StartRun(r) \/ EndRun(r) PROVE IdleOK'
  <1>1. CASE EndRun(r)
    BY <1>1, IdleKeeps DEF EndRun, Is
  <1>2. CASE StartRun(r)
    <2>1. active' = active \cup {r}
      BY <1>2 DEF StartRun
    <2>2. ASSUME NEW c \in Calls, Is(c, "archive", "checked")' PROVE active' \subseteq calls'[c].saw
      <3>1. CASE Is(c, "archive", "checked")
        <4>1. PICK old : old = calls[c]
          OBVIOUS
        <4>2. IsCall(old) /\ active \subseteq old.saw
          BY <3>1, <4>1 DEF Is, IInv, CallsOK, IdleOK
        <4>3. PICK s : s = old.saw \cup {r}
          OBVIOUS
        <4>4. PICK x : x = [old EXCEPT !.saw = s]
          OBVIOUS
        <4>5. x.saw = s
          BY <4>2, <4>4, CallGathers
        <4>6. calls'[c] = x
          BY <1>2, <3>1, <4>1, <4>3, <4>4, Zenon DEF StartRun
        <4> QED BY <2>1, <4>2, <4>3, <4>5, <4>6
      <3>2. CASE ~Is(c, "archive", "checked")
        <4>1. calls'[c] = calls[c]
          BY <1>2, <3>2 DEF StartRun
        <4> QED BY <2>2, <3>2, <4>1 DEF Is
      <3> QED BY <3>1, <3>2
    <2> QED BY <2>2 DEF IdleOK
  <1> QED BY <1>1, <1>2

LEMMA StepIdle == ASSUME IInv, TInv, IdleOK, [Next]_vars PROVE IdleOK'
  <1>1. CASE UNCHANGED vars
    BY <1>1, IdleKeeps DEF vars, Is
  <1>2. ASSUME NEW w \in Windows,
               \/ List(w) \/ Enter(w) \/ Leave(w) \/ Follow(w) \/ OpenSettings(w) \/ OpenMenu(w)
               \/ ClickSave(w) \/ ClickArchive(w) \/ OpenAdd(w)
               \/ DismissAdd(w) \/ \E n \in Names : Type(w, n)
        PROVE  IdleOK'
    <2>1. CASE Leave(w) \/ List(w)
      BY <2>1, LeavingIdle DEF Leave, List, api
    <2>2. CASE OpenMenu(w) \/ OpenAdd(w) \/ DismissAdd(w) \/ \E n \in Names : Type(w, n)
      BY <2>2, IdleKeeps DEF OpenMenu, OpenAdd, DismissAdd, Type, api, Is
    <2> QED BY <1>2, <2>1, <2>2, ClicksIdle
  <1>3. ASSUME NEW w \in Windows,
               \/ \E u \in Users, r \in Roles : ClickAdd(w, u, r)
               \/ \E i \in Ids : ClickRemove(w, i) \/ \E r \in Roles : ClickRole(w, i, r)
        PROVE  IdleOK'
    BY <1>3, ClicksIdle
  <1>4. ASSUME NEW c \in Calls,
               \/ ReadLoad(c) \/ ReadOpen(c) \/ WriteSave(c) \/ CheckArchive(c) \/ WriteArchive(c)
               \/ CheckAdd(c) \/ WriteAdd(c) \/ CheckRole(c) \/ WriteRole(c)
               \/ CheckRemove(c) \/ WriteRemove(c)
        PROVE  IdleOK'
    BY <1>4, HandlersIdle
  <1>5. ASSUME NEW c \in Calls,
               \/ LoadArrives(c) \/ OpenArrives(c) \/ SaveArrives(c) \/ AddArrives(c) \/ RoleArrives(c)
               \/ RemoveArrives(c) \/ Refused(c) \/ Fails(c)
        PROVE  IdleOK'
    <2>1. Answered(c) /\ active' = active
      BY <1>5 DEF LoadArrives, OpenArrives, SaveArrives, AddArrives, RoleArrives, RemoveArrives, Refused, Fails,
                  Told, api
    <2> QED BY <2>1, IdleOne DEF Answered, IInv
  <1>6. ASSUME NEW c \in Calls, ArchiveArrives(c) \/ OpenFails(c) PROVE IdleOK'
    <2>1. calls' = [Left(calls[c].win) EXCEPT ![c] = NoCall] /\ active' = active
      BY <1>6 DEF ArchiveArrives, OpenFails, api
    <2>2. \A d \in Calls : calls'[d] = NoCall \/ calls'[d] = Left(calls[c].win)[d]
      BY <2>1 DEF Left
    <2> QED BY <2>1, <2>2, LeavingIdle
  <1>7. ASSUME NEW r \in Runs, StartRun(r) \/ EndRun(r) PROVE IdleOK'
    BY <1>7, RunsIdle
  <1> QED BY <1>1, <1>2, <1>3, <1>4, <1>5, <1>6, <1>7 DEF Next

\* Who archives, and what is then under way.
LEMMA OnlyIdleIsArchived ==
  ASSUME IdleOK, [Next]_vars, archived', ~archived
  PROVE  \E c \in Calls : Is(c, "archive", "checked") /\ active \subseteq calls[c].saw
  <1>1. ASSUME NEW c \in Calls, WriteArchive(c)
        PROVE  Is(c, "archive", "checked") /\ active \subseteq calls[c].saw
    BY <1>1 DEF WriteArchive, IdleOK
  <1>2. \A w \in Windows :
          ~(\/ List(w) \/ Enter(w) \/ Leave(w) \/ Follow(w) \/ OpenSettings(w) \/ OpenMenu(w)
            \/ ClickSave(w) \/ ClickArchive(w) \/ OpenAdd(w) \/ DismissAdd(w)
            \/ \E n \in Names : Type(w, n)
            \/ \E u \in Users, r \in Roles : ClickAdd(w, u, r)
            \/ \E i \in Ids : ClickRemove(w, i) \/ \E r \in Roles : ClickRole(w, i, r))
    BY DEF List, Enter, Leave, Follow, OpenSettings, OpenMenu, ClickSave, ClickArchive, OpenAdd, DismissAdd, Type, ClickAdd, ClickRemove,
           ClickRole, api
  <1>3. \A c \in Calls :
          ~(\/ ReadLoad(c) \/ ReadOpen(c) \/ WriteSave(c) \/ CheckArchive(c) \/ CheckAdd(c)
            \/ WriteAdd(c) \/ CheckRole(c) \/ WriteRole(c) \/ CheckRemove(c) \/ WriteRemove(c))
    BY DEF ReadLoad, ReadOpen, WriteSave, CheckArchive, CheckAdd, WriteAdd, CheckRole, WriteRole,
           CheckRemove, WriteRemove, api
  <1>4. \A c \in Calls :
          ~(\/ LoadArrives(c) \/ OpenArrives(c) \/ OpenFails(c) \/ SaveArrives(c) \/ ArchiveArrives(c) \/ AddArrives(c)
            \/ RoleArrives(c) \/ RemoveArrives(c) \/ Refused(c) \/ Fails(c))
    BY DEF LoadArrives, OpenArrives, OpenFails, SaveArrives, ArchiveArrives, AddArrives, RoleArrives, RemoveArrives,
           Refused, Fails, Told, api
  <1>5. (\A r \in Runs : ~(StartRun(r) \/ EndRun(r))) /\ ~UNCHANGED vars
    BY DEF StartRun, EndRun, vars
  <1>6. \E c \in Calls : WriteArchive(c)
    BY <1>2, <1>3, <1>4, <1>5 DEF Next
  <1> QED BY <1>1, <1>6

\* An answer about members leaves the window where it is.
LEMMA AnswersStay ==
  ASSUME PagesOK, NEW c \in Calls, calls[c].win \in Windows,
         \/ LoadArrives(c) \/ AddArrives(c) \/ RoleArrives(c) \/ RemoveArrives(c)
         \/ Refused(c) \/ Fails(c)
  PROVE  \E p : p.at = page[calls[c].win].at /\ Takes(c, p)
  <1>1. PICK old : old = page[calls[c].win]
    OBVIOUS
  <1>2. old \in PageType
    BY <1>1 DEF PagesOK
  <1>3. CASE LoadArrives(c)
    <2>1. PICK p : p = [old EXCEPT !.shown = TRUE, !.rows = calls[c].saw, !.edit = calls[c].to]
      OBVIOUS
    <2>2. p.at = old.at
      BY <1>2, <2>1 DEF PageType
    <2>3. Takes(c, p)
      BY <1>1, <1>3, <2>1, Zenon DEF LoadArrives
    <2> QED BY <1>1, <2>2, <2>3
  <1>4. CASE AddArrives(c)
    <2>1. PICK rows : rows = [old.rows EXCEPT ![calls[c].id] = calls[c].to]
      OBVIOUS
    <2>2. PICK p : p = [old EXCEPT !.rows = rows, !.adding = FALSE, !.dialog = FALSE]
      OBVIOUS
    <2>3. p.at = old.at
      BY <1>2, <2>2 DEF PageType
    <2>4. Takes(c, p)
      BY <1>1, <1>4, <2>1, <2>2, Zenon DEF AddArrives
    <2> QED BY <1>1, <2>3, <2>4
  <1>5. CASE RoleArrives(c)
    <2>1. PICK i : i = calls[c].id
      OBVIOUS
    <2>2. PICK row : row = IF old.rows[i] = Absent THEN Absent ELSE calls[c].saw
      OBVIOUS
    <2> DEFINE rows == [old.rows EXCEPT ![i] = row]
               p == [old EXCEPT !.rows = rows]
    <2>3. Takes(c, [old EXCEPT !.rows[i] = IF @ = Absent THEN @ ELSE calls[c].saw])
      BY <1>1, <1>5, <2>1, Zenon DEF RoleArrives
    <2>4. [old EXCEPT !.rows[i] = IF @ = Absent THEN @ ELSE calls[c].saw] = p
      BY <2>2
    <2>5. Takes(c, p)
      BY <2>3, <2>4, Zenon
    <2> HIDE DEF rows
    <2>6. p.at = old.at
      BY <1>2 DEF PageType
    <2> HIDE DEF p
    <2> QED BY <1>1, <2>5, <2>6
  <1>6. CASE RemoveArrives(c)
    <2>1. PICK rows : rows = [old.rows EXCEPT ![calls[c].id] = Absent]
      OBVIOUS
    <2>2. PICK p : p = [old EXCEPT !.rows = rows]
      OBVIOUS
    <2>3. p.at = old.at
      BY <1>2, <2>2 DEF PageType
    <2>4. Takes(c, p)
      BY <1>1, <1>6, <2>1, <2>2, Zenon DEF RemoveArrives
    <2> QED BY <1>1, <2>3, <2>4
  <1>7. CASE Told(c)
    <2>1. PICK s, a : /\ s = IF calls[c].kind = "save" THEN FALSE ELSE old.saving
                      /\ a = IF calls[c].kind = "add" THEN FALSE ELSE old.adding
      OBVIOUS
    <2>2. PICK p : p = [old EXCEPT !.saving = s, !.adding = a]
      OBVIOUS
    <2>3. p.at = old.at
      BY <1>2, <2>2 DEF PageType
    <2>4. Takes(c, p)
      BY <1>1, <1>7, <2>1, <2>2, Zenon DEF Told
    <2> QED BY <1>1, <2>3, <2>4
  <1> QED BY <1>3, <1>4, <1>5, <1>6, <1>7 DEF Refused, Fails

\* How a window in another project gets this one back.
LEMMA GhostComes ==
  ASSUME CallsOK, TInv, [Next]_vars, NEW w \in Windows, Ghost(w)', ~Ghost(w)
  PROVE  \E c \in Calls : /\ Is(c, "open", "done") \/ Is(c, "save", "done")
                          /\ calls[c].win = w /\ calls'[c] = NoCall
  <1> DEFINE held == {store[w].current, store[w].saved} \cap Names # {}
  <1>0. PagesOK /\ CarryOK
    BY DEF TInv, TypesOK
  <1>1. /\ page'[w].at = "other" /\ held'
        /\ page[w].at # "other" \/ ~held
    BY DEF Ghost
  <1>2. ASSUME NEW v \in Windows, v # w,
               \/ List(v) \/ Enter(v) \/ Leave(v) \/ Follow(v) \/ OpenSettings(v) \/ OpenMenu(v)
        PROVE  FALSE
    <2>1. \E p : page' = [page EXCEPT ![v] = p]
      BY <1>0, <1>2 DEF List, Enter, Leave, Follow, OpenSettings, OpenMenu, PagesOK
    <2>2. page'[w] = page[w]
      BY <1>0, <1>2, <2>1 DEF PagesOK
    <2>3. store' = store \/ store' = Mounted(v) \/ \E p : store' = [store EXCEPT ![v] = p]
      BY <1>2 DEF List, Enter, Leave, Follow, OpenSettings, OpenMenu, Both
    <2>4. store'[w] = store[w]
      BY <1>0, <1>2, <2>3, MountedIsStore DEF PagesOK, StoreType
    <2> QED BY <1>1, <2>2, <2>4
  <1>3. ASSUME List(w) \/ Enter(w) \/ Follow(w) \/ OpenSettings(w) PROVE FALSE
    <2>1. PICK hub : hub = Away("hub")
      OBVIOUS
    <2>2. hub \in PageType /\ hub.at = "hub"
      BY <2>1, BlankIsPage DEF Away, PageType
    <2>3. \/ \E e : page' = [page EXCEPT ![w] = [hub EXCEPT !.edit = e]]
          \/ page' = [page EXCEPT ![w] = Blank]
          \/ page' = [page EXCEPT ![w] = Away("project")]
      BY <1>3, <2>1, Zenon DEF List, Enter, Follow, OpenSettings
    <2>4. Blank.at = "settings" /\ Away("project").at = "project"
      BY BlankIsPage DEF Away, PageType
    <2>5. \A e : [hub EXCEPT !.edit = e].at = "hub"
      BY <2>2 DEF PageType
    <2>6. page'[w].at # "other"
      BY <1>0, <2>3, <2>4, <2>5 DEF PagesOK
    <2> QED BY <1>1, <2>6
  <1>4. ASSUME Leave(w) PROVE FALSE
    <2>1. Both(w, Other)
      BY <1>4 DEF Leave
    <2>2. store'[w] = [current |-> Other, saved |-> Other]
      BY <1>0, <2>1, BothIsStore
    <2>3. store'[w].current \notin Names /\ store'[w].saved \notin Names
      BY <2>2, NameAssumption
    <2> QED BY <1>1, <2>3
  <1>5. ASSUME OpenMenu(w) PROVE FALSE
    <2>1. store' = Mounted(w) /\ page' = page
      BY <1>5 DEF OpenMenu
    <2> QED BY <1>0, <1>1, <2>1, MountedIsStore
  <1>6. ASSUME NEW c \in Calls, ArchiveArrives(c) \/ OpenFails(c) PROVE FALSE
    <2>1. PICK v : v = calls[c].win
      OBVIOUS
    <2>2. calls[c] # NoCall /\ ToHub(v) /\ (store' = [store EXCEPT ![v].current = Absent] \/ store' = store)
      BY <1>6, <2>1 DEF ArchiveArrives, OpenFails, Is
    <2>3. v \in Windows
      BY <1>0, <2>1, <2>2 DEF CarryOK, Carries
    <2>4. page'[w].at # "other" \/ page'[w] = page[w]
      <3>1. Away("leaving").at = "leaving"
        BY BlankIsPage DEF Away, PageType
      <3> QED BY <1>0, <2>2, <3>1 DEF ToHub, PagesOK
    <2>5. held' => held
      <3>1. CASE store' = store
        BY <3>1
      <3>2. CASE store' = [store EXCEPT ![v].current = Absent]
        <4>1. /\ store'[v].current = Absent /\ store'[v].saved = store[v].saved
              /\ w # v => store'[w] = store[w]
          BY <1>0, <2>3, <3>2, CurrentIsStore
        <4>2. w = v => store'[w].current \notin Names /\ store'[w].saved = store[w].saved
          BY <4>1, NameAssumption
        <4> QED BY <4>1, <4>2
      <3> QED BY <2>2, <3>1, <3>2
    <2> QED BY <1>1, <2>4, <2>5
  <1>7. ASSUME NEW c \in Calls, SaveArrives(c) \/ OpenArrives(c)
        PROVE  /\ Is(c, "open", "done") \/ Is(c, "save", "done")
               /\ calls[c].win = w /\ calls'[c] = NoCall
    <2>1. (Is(c, "open", "done") \/ Is(c, "save", "done")) /\ calls' = [calls EXCEPT ![c] = NoCall]
      BY <1>7 DEF SaveArrives, OpenArrives, Answered
    <2>2. calls'[c] = NoCall
      BY <2>1, OneChanges
    <2>3. PICK v, n : v = calls[c].win /\ n = calls[c].to
      OBVIOUS
    <2>4. /\ v \in Windows /\ calls[c] # NoCall /\ n \in Names
      BY <1>0, <2>1, <2>3 DEF CarryOK, Carries, Is
    <2>5. page'[w].at = page[w].at
      <3>1. CASE OpenArrives(c)
        BY <3>1 DEF OpenArrives
      <3>2. CASE SaveArrives(c)
        <4>1. PICK old : old = page[v]
          OBVIOUS
        <4>2. Takes(c, [old EXCEPT !.saving = FALSE])
          BY <2>3, <3>2, <4>1, Zenon DEF SaveArrives
        <4>3. old \in PageType
          BY <1>0, <2>4, <4>1 DEF PagesOK
        <4>4. PICK p : p = [old EXCEPT !.saving = FALSE]
          OBVIOUS
        <4>5. p.at = old.at
          BY <4>3, <4>4 DEF PageType
        <4>6. page' = page \/ page' = [page EXCEPT ![v] = p]
          BY <2>3, <2>4, <4>2, <4>4, TakesIs
        <4> QED BY <1>0, <4>1, <4>5, <4>6 DEF PagesOK
      <3> QED BY <1>7, <3>1, <3>2
    <2>6. \/ store' = store
          \/ \E q \in {Other, n} : store' = [store EXCEPT ![v].current = q]
          \/ Both(v, n)
      BY <1>7, <2>3 DEF SaveArrives, OpenArrives
    <2>7. v # w => store'[w] = store[w]
      <3>1. ASSUME NEW q \in {Other, n}, store' = [store EXCEPT ![v].current = q], v # w
            PROVE  store'[w] = store[w]
        BY <1>0, <2>4, <3>1, CurrentIsStore
      <3>2. ASSUME Both(v, n), v # w PROVE store'[w] = store[w]
        BY <1>0, <2>4, <3>2, BothIsStore
      <3> QED BY <2>6, <3>1, <3>2
    <2> QED BY <1>1, <2>1, <2>2, <2>3, <2>5, <2>7
  <1>8. ASSUME store' = store, \A v \in Windows : page'[v].at = page[v].at PROVE FALSE
    BY <1>1, <1>8
  <1>9. ASSUME NEW v \in Windows,
               \/ ClickSave(v) \/ ClickArchive(v) \/ OpenAdd(v) \/ DismissAdd(v)
               \/ \E n \in Names : Type(v, n)
               \/ \E u \in Users, r \in Roles : ClickAdd(v, u, r)
               \/ \E i \in Ids : ClickRemove(v, i) \/ \E r \in Roles : ClickRole(v, i, r)
        PROVE  FALSE
    <2>1. store' = store
      BY <1>9 DEF ClickSave, ClickArchive, OpenAdd, DismissAdd, Type, ClickAdd, ClickRemove, ClickRole
    <2>2. page[v] \in PageType
      BY <1>0 DEF PagesOK
    <2>3. \A b, e : /\ [page[v] EXCEPT !.saving = b].at = page[v].at
                    /\ [page[v] EXCEPT !.adding = b].at = page[v].at
                    /\ [page[v] EXCEPT !.dialog = b].at = page[v].at
                    /\ [page[v] EXCEPT !.edit = e].at = page[v].at
      BY <2>2 DEF PageType
    <2>4. \/ page' = page
          \/ \E p : p.at = page[v].at /\ page' = [page EXCEPT ![v] = p]
      BY <1>9, <2>3 DEF ClickSave, ClickArchive, OpenAdd, DismissAdd, Type, ClickAdd, ClickRemove, ClickRole
    <2> QED BY <1>0, <1>8, <2>1, <2>4 DEF PagesOK
  <1>10. ASSUME NEW c \in Calls,
                \/ ReadLoad(c) \/ ReadOpen(c) \/ WriteSave(c) \/ CheckArchive(c) \/ WriteArchive(c)
                \/ CheckAdd(c) \/ WriteAdd(c) \/ CheckRole(c) \/ WriteRole(c) \/ CheckRemove(c)
                \/ WriteRemove(c)
         PROVE  FALSE
    <2>1. UNCHANGED <<page, store>>
      BY <1>10 DEF ReadLoad, ReadOpen, WriteSave, CheckArchive, WriteArchive, CheckAdd, WriteAdd,
                   CheckRole, WriteRole, CheckRemove, WriteRemove
    <2> QED BY <1>8, <2>1
  <1>11. ASSUME NEW c \in Calls,
                \/ LoadArrives(c) \/ AddArrives(c) \/ RoleArrives(c) \/ RemoveArrives(c)
                \/ Refused(c) \/ Fails(c)
         PROVE  FALSE
    <2>1. store' = store /\ calls[c] # NoCall
      BY <1>11 DEF LoadArrives, AddArrives, RoleArrives, RemoveArrives, Refused, Fails, Told, Is
    <2>2. PICK v : v = calls[c].win
      OBVIOUS
    <2>3. v \in Windows /\ page[v] \in PageType
      BY <1>0, <2>1, <2>2 DEF CarryOK, Carries, PagesOK
    <2>4. \E p : p.at = page[v].at /\ Takes(c, p)
      BY <1>0, <1>11, <2>2, <2>3, AnswersStay
    <2>5. page' = page \/ \E p : p.at = page[v].at /\ page' = [page EXCEPT ![v] = p]
      BY <2>1, <2>2, <2>4, TakesIs
    <2> QED BY <1>0, <1>8, <2>1, <2>5 DEF PagesOK
  <1>12. (\A r \in Runs : ~(StartRun(r) \/ EndRun(r))) /\ ~UNCHANGED vars
    BY <1>8 DEF StartRun, EndRun, vars
  <1> HIDE DEF held
  <1> QED BY <1>2, <1>3, <1>4, <1>5, <1>6, <1>7, <1>9, <1>10, <1>11, <1>12 DEF Next

LEMMA InitIdle == Init => IdleOK
  BY DEF Init, IdleOK, Is

\* The runs that are active when archive_project archives were all started after
\* it looked for them; and a window that went on to another project has this one
\* in its store again, current or saved, only by the late answer of getProject or
\* of a save (ProjectLayout, handleSave).
THEOREM ProjectStaysLeft == Spec => ProjectIsLeft
  <1>1. Init => IInv /\ TInv /\ IdleOK
    BY InitHolds, InitShows, InitIdle
  <1>2. IInv /\ TInv /\ IdleOK /\ [Next]_vars => IInv' /\ TInv' /\ IdleOK'
    BY StepKeeps, StepShows, StepIdle
  <1>3. IdleOK /\ [Next]_vars =>
          [(archived' /\ ~archived) =>
              \E c \in Calls : Is(c, "archive", "checked") /\ active \subseteq calls[c].saw]_vars
    BY OnlyIdleIsArchived
  <1>4. IInv /\ TInv /\ [Next]_vars =>
          [\A w \in Windows : (Ghost(w)' /\ ~Ghost(w)) =>
              \E c \in Calls : /\ Is(c, "open", "done") \/ Is(c, "save", "done")
                               /\ calls[c].win = w /\ calls'[c] = NoCall]_vars
    BY GhostComes DEF IInv
  <1> QED BY <1>1, <1>2, <1>3, <1>4, PTL DEF Spec, ProjectIsLeft, ArchivedIsIdle, GhostIsLate
=============================================================================
