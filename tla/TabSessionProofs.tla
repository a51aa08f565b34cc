-------------------------- MODULE TabSessionProofs --------------------------
(***************************************************************************)
(* For any users, projects and cookies: the credentials that a tab sends   *)
(* are of one user, the one of its session, and the current project is the *)
(* user's own.  Both rest on what the sidebar's effects see when they run: *)
(* a page of the app is only ever entered by mounting a sidebar.           *)
(***************************************************************************)
EXTENDS TabSession, TLAPS

PageSet == [kind : AppPages \cup {"landing", "login", "signup"},
            project : Projects \cup {Absent}, back : Projects \cup {Absent}, loaded : BOOLEAN]
Known == [user : Users, token : Tokens]
Credentials == [email : Users \cup {Absent}, token : Tokens]
CallRecords == [sent : BOOLEAN, as : Credentials \cup {Absent}, by : Users \cup {Absent}]
CallTable == [CallIds -> CallRecords \cup {Absent}]
Forms == [user : Users, step : {"asked", "registers", "in", "refused", "stuck"}, right : BOOLEAN]
Saved == [Users -> Projects \cup {Absent}]

TypeInv ==
    /\ TypeOK
    /\ expired \in BOOLEAN /\ page \in PageSet /\ calls \in CallTable
    /\ form \in Forms \cup {Absent}

\* A token is of the user it comes with.
TokenOf(x) == x # Absent => x.token = Absent \/ x.token.user = x.user

\* The session is known when the status says so.
SessionInv ==
    /\ TokenOf(jar) /\ TokenOf(session)
    /\ status = "authenticated" => session # Absent

IInv == TypeInv /\ SessionInv /\ OneIdentity /\ StoreOfUser

-----------------------------------------------------------------------------
(* What the operators of the tab return. *)

LEMMA PagesAreTyped ==
    /\ Landing \in PageSet /\ Hub \in PageSet /\ Signup \in PageSet
    /\ Landing.kind = "landing" /\ Hub.kind = "hub" /\ Signup.kind = "signup"
    /\ \A p \in Projects : Workspace(p) \in PageSet
    /\ \A back : Login(back) \in PageSet
    /\ \A back \in Projects \cup {Absent} : After(back) \in PageSet
    /\ \A pg \in Pages : pg \in PageSet
  <1>1. Landing \in PageSet /\ Hub \in PageSet /\ Signup \in PageSet
        /\ Landing.kind = "landing" /\ Hub.kind = "hub" /\ Signup.kind = "signup"
    BY DEF Landing, Hub, Signup, PageSet, AppPages
  <1>2. \A p \in Projects : Workspace(p) \in PageSet
    BY DEF Landing, Workspace, PageSet, AppPages
  <1>3. \A back : Login(back) \in PageSet
    <2>1. \A back : Safe(back) \in Projects \cup {Absent}
      BY DEF Safe
    <2> QED BY <2>1 DEF Landing, Login, PageSet, AppPages
  <1> QED BY <1>1, <1>2, <1>3 DEF After, Pages

LEMMA AdmittedIsTyped ==
  ASSUME NEW pg \in PageSet, NEW cookie
  PROVE  Admitted(pg, cookie) \in PageSet
  BY PagesAreTyped DEF Admitted

LEMMA WaitingIsTyped ==
  ASSUME NEW s \in Known \cup {Absent}
  PROVE  UserOf(s) \in Users \cup {Absent} /\ Waiting(UserOf(s)) \in CallRecords
  <1>1. UserOf(s) \in Users \cup {Absent}
    BY DEF UserOf, Known
  <1> QED BY <1>1 DEF Waiting, CallRecords

LEMMA AskedIsTyped ==
  ASSUME NEW cs \in CallTable, NEW pg \in PageSet, NEW s \in Known \cup {Absent}, NEW now
  PROVE  Asked(cs, pg, s, now) \in CallTable
  <1>1. Waiting(UserOf(s)) \in CallRecords
    BY WaitingIsTyped
  <1> QED BY <1>1 DEF Asked, CallTable

LEMMA DoneIsTyped ==
  ASSUME calls \in CallTable, NEW c \in CallIds PROVE Done(c) \in CallTable
  BY DEF Done, CallTable

LEMMA HandedIsTyped ==
  ASSUME NEW s \in Known \cup {Absent}, TokenOf(s)
  PROVE  /\ Handed(s) \in Credentials /\ Handed(s).email = UserOf(s)
         /\ Handed(s).token # Absent => Handed(s).token.user = Handed(s).email
  <1>1. UserOf(s) \in Users \cup {Absent}
    BY WaitingIsTyped
  <1>2. (IF s = Absent THEN Absent ELSE s.token) \in Tokens
    BY DEF Known, Tokens
  <1> QED BY <1>1, <1>2 DEF Handed, Credentials, TokenOf, UserOf

LEMMA FreshIsTyped ==
  ASSUME expired \in BOOLEAN, NEW u \in Users
  PROVE  Fresh(u) \in Tokens /\ Fresh(u).user = u
  BY DEF Fresh, Tokens

-----------------------------------------------------------------------------
(* The two ways to another page. *)

LEMMA LoadKeeps ==
  ASSUME IInv, NEW pg \in PageSet, NEW cookie, Load(pg, cookie),
         accounts' \in Accounts, jar' \in Cookies, TokenOf(jar)', UNCHANGED expired
  PROVE  IInv'
  <1>1. Admitted(pg, cookie) \in PageSet
    BY AdmittedIsTyped
  <1>2. [c \in CallIds |-> Absent] \in CallTable
    BY DEF CallTable
  <1>3. calls' \in CallTable
    BY <1>1, <1>2, AskedIsTyped DEF Load
  <1>4. page' \in PageSet /\ status' = "loading" /\ session' = Absent /\ leaving' = "none"
        /\ auth' = [email |-> Absent, token |-> Absent] /\ form' = Absent
        /\ store' = store /\ saved' = saved
    BY <1>1 DEF Load
  <1>5. TypeInv'
    BY <1>3, <1>4 DEF IInv, TypeInv, TypeOK, PageSet, Tokens
  <1>6. SessionInv' /\ StoreOfUser'
    BY <1>4 DEF SessionInv, StoreOfUser, TokenOf
  <1>7. OneIdentity'
    BY <1>4 DEF OneIdentity, UserOf
  <1> QED BY <1>5, <1>6, <1>7 DEF IInv

\* A sidebar that is mounted.
LEMMA MountKeeps ==
  ASSUME IInv, NEW now \in Projects \cup {Absent}, NEW mine \in Saved, Mount(now, mine)
  PROVE  /\ auth' \in Credentials /\ auth'.email = UserOf(session)
         /\ auth'.token # Absent => auth'.token.user = auth'.email
         /\ store' \in Projects \cup {Absent}
         /\ status = "authenticated" => store' = mine[session.user]
  <1>6. store' = IF status = "loading" THEN now ELSE Rekeyed(session, mine)
    BY Zenon DEF Mount
  <1>1. session \in Known \cup {Absent} /\ TokenOf(session)
    BY DEF IInv, TypeInv, TypeOK, SessionInv, Known
  <1>2. /\ auth' \in Credentials /\ auth'.email = UserOf(session)
        /\ auth'.token # Absent => auth'.token.user = auth'.email
    BY <1>1, HandedIsTyped DEF Mount
  <1>3. Rekeyed(session, mine) \in Projects \cup {Absent}
    BY <1>1 DEF Rekeyed, Known, Saved
  <1>4. ASSUME status = "authenticated" PROVE store' = mine[session.user]
    <2>1. session # Absent /\ status # "loading"
      BY <1>4 DEF IInv, SessionInv
    <2>2. store' = Rekeyed(session, mine)
      BY <1>6, <2>1, Zenon
    <2> QED BY <2>1, <2>2, Zenon DEF Rekeyed
  <1>5. store' \in Projects \cup {Absent}
    BY <1>6, <1>3
  <1> QED BY <1>2, <1>4, <1>5, Zenon

LEMMA GoKeeps ==
  ASSUME IInv, NEW pg \in PageSet, NEW cs \in CallTable, NEW now \in Projects \cup {Absent},
         NEW mine \in Saved, NEW open, Go(pg, cs, now, mine, open),
         UNCHANGED <<accounts, expired, jar>>, leaving' \in {"none", "login", "landing"},
         (now = store /\ mine = saved /\ open = opened) \/ now \in open
  PROVE  IInv'
  <1> DEFINE at == Admitted(pg, jar)
  <1>1. at \in PageSet
    BY AdmittedIsTyped
  <1>2. session \in Known \cup {Absent}
    BY DEF IInv, TypeInv, TypeOK, Known
  <1>3. /\ page' = at /\ form' = Absent /\ saved' = mine /\ opened' = open
        /\ UNCHANGED <<status, session>> /\ calls' \in CallTable
    BY <1>1, <1>2, AskedIsTyped DEF Go
  <1>4. IF at.kind \in AppPages \ {page.kind} THEN Mount(now, mine)
        ELSE store' = now /\ UNCHANGED auth
    BY DEF Go
  <1> HIDE DEF at
  <1>5. SessionInv'
    BY <1>3 DEF IInv, SessionInv, TokenOf
  <1>6. CASE at.kind \in AppPages \ {page.kind}
    <2>1. Mount(now, mine)
      BY <1>4, <1>6
    <2>2. /\ auth' \in Credentials /\ auth'.email = UserOf(session)
          /\ auth'.token # Absent => auth'.token.user = auth'.email
          /\ store' \in Projects \cup {Absent}
          /\ status = "authenticated" => store' = mine[session.user]
      BY <2>1, MountKeeps
    <2>3. TypeInv'
      BY <1>1, <1>3, <2>2 DEF IInv, TypeInv, TypeOK, PageSet, Saved, Credentials
    <2>4. OneIdentity'
      BY <1>3, <2>2 DEF OneIdentity, UserOf
    <2>5. StoreOfUser'
      BY <1>3, <2>2 DEF StoreOfUser
    <2> QED BY <1>5, <2>3, <2>4, <2>5 DEF IInv
  <1>7. CASE at.kind \notin AppPages \ {page.kind}
    <2>1. store' = now /\ UNCHANGED auth
      BY <1>4, <1>7
    <2>2. TypeInv'
      BY <1>1, <1>3, <2>1 DEF IInv, TypeInv, TypeOK, PageSet, Saved
    <2>3. at.kind \in AppPages => at.kind = page.kind
      BY <1>7
    <2>4. OneIdentity'
      BY <1>3, <2>1, <2>3 DEF IInv, OneIdentity, UserOf
    <2>5. StoreOfUser'
      BY <1>3, <2>1, <2>3 DEF IInv, StoreOfUser
    <2> QED BY <1>5, <2>2, <2>4, <2>5 DEF IInv
  <1> QED BY <1>6, <1>7

\* Whatever leaves the page's kind, the session and the current project alone.
LEMMA RestKeeps ==
  ASSUME IInv, UNCHANGED <<status, session, auth, store, saved, opened>>,
         page' \in PageSet, page'.kind = page.kind, expired' \in BOOLEAN,
         calls' \in CallTable, form' \in Forms \cup {Absent},
         leaving' \in {"none", "login", "landing"},
         accounts' \in Accounts, jar' \in Cookies, TokenOf(jar)'
  PROVE  IInv'
  <1>1. TypeInv'
    BY DEF IInv, TypeInv, TypeOK, PageSet
  <1>2. SessionInv'
    BY DEF IInv, SessionInv, TokenOf
  <1>3. OneIdentity'
    BY DEF IInv, OneIdentity, UserOf
  <1>4. StoreOfUser'
    BY DEF IInv, StoreOfUser
  <1> QED BY <1>1, <1>2, <1>3, <1>4 DEF IInv

LEMMA InitHolds == Init => IInv
  <1> SUFFICES ASSUME Init PROVE IInv
    OBVIOUS
  <1>1. accounts \in Accounts /\ jar \in Cookies /\ TokenOf(jar)
        /\ store \in Projects \cup {Absent} /\ saved \in Saved
    BY SessionAssumption DEF Init, TokenOf, Saved
  <1>2. calls \in CallTable
    BY DEF Init, CallTable
  <1>3. /\ page \in PageSet /\ page.kind = "landing" /\ status = "loading" /\ session = Absent
        /\ auth = [email |-> Absent, token |-> Absent] /\ leaving = "none" /\ form = Absent
        /\ expired = FALSE
    BY PagesAreTyped DEF Init
  <1>4. TypeInv
    BY <1>1, <1>2, <1>3 DEF TypeInv, TypeOK, PageSet, Saved, Tokens
  <1>5. SessionInv /\ OneIdentity /\ StoreOfUser
    BY <1>1, <1>3 DEF SessionInv, TokenOf, OneIdentity, StoreOfUser, AppPages
  <1> QED BY <1>4, <1>5 DEF IInv

\* What the invariant says of the types, for the steps.
LEMMA Typed ==
  ASSUME IInv
  PROVE  /\ page \in PageSet /\ calls \in CallTable /\ form \in Forms \cup {Absent}
         /\ session \in Known \cup {Absent} /\ auth \in Credentials
         /\ leaving \in {"none", "login", "landing"} /\ expired \in BOOLEAN
         /\ accounts \in Accounts /\ jar \in Cookies /\ TokenOf(jar) /\ TokenOf(session)
         /\ store \in Projects \cup {Absent} /\ saved \in Saved
  BY DEF IInv, TypeInv, TypeOK, SessionInv, Known, Credentials, Saved

-----------------------------------------------------------------------------
(* The steps. *)

LEMMA SendStep == ASSUME IInv, NEW c \in CallIds, Send(c) PROVE IInv'
  <1>1. calls[c] \in CallRecords /\ auth \in Credentials /\ calls \in CallTable
    BY Typed DEF Send, CallTable
  <1>2. calls' = [calls EXCEPT ![c] = [@ EXCEPT !.sent = TRUE, !.as = auth]]
    BY <1>1 DEF Send, CallRecords, CallTable
  <1>3. [calls[c] EXCEPT !.sent = TRUE, !.as = auth] \in CallRecords
    BY <1>1 DEF CallRecords
  <1>4. calls' \in CallTable
    BY <1>1, <1>2, <1>3 DEF CallTable
  <1>5. UNCHANGED <<status, session, auth, store, saved, opened, page, expired, form, leaving,
                    accounts, jar>>
    BY DEF Send, outside, client, current
  <1>6. TokenOf(jar)'
    BY <1>5, Typed DEF TokenOf
  <1> QED BY <1>4, <1>5, <1>6, Typed, RestKeeps

LEMMA NavigationStep ==
  ASSUME IInv,
         \/ \E pg \in Pages : Visit(pg) \/ Follow(pg)
         \/ \E p \in Projects : Enter(p)
         \/ OpenMenu \/ SignedOut
  PROVE  IInv'
  <1>1. ASSUME NEW pg \in Pages, Visit(pg) PROVE IInv'
    <2>1. Load(pg, jar) /\ UNCHANGED <<accounts, expired, jar>>
      BY <1>1 DEF Visit, outside
    <2>2. TokenOf(jar)'
      BY <2>1, Typed DEF TokenOf
    <2> QED BY <2>1, <2>2, Typed, PagesAreTyped, LoadKeeps
  <1>2. ASSUME NEW pg \in Pages, Follow(pg) PROVE IInv'
    <2>1. Go(pg, calls, store, saved, opened) /\ UNCHANGED <<accounts, expired, jar, leaving>>
      BY <1>2 DEF Follow, outside
    <2> QED BY <2>1, Typed, PagesAreTyped, GoKeeps
  <1>3. ASSUME NEW p \in Projects, Enter(p) PROVE IInv'
    <2> DEFINE mine == IF session = Absent THEN saved ELSE [saved EXCEPT ![session.user] = p]
    <2>1. Go(Workspace(p), calls, p, mine, opened \cup {p})
          /\ UNCHANGED <<accounts, expired, jar, leaving>>
      BY <1>3 DEF Enter, outside
    <2>2. mine \in Saved
      BY Typed DEF Saved
    <2>3. Workspace(p) \in PageSet /\ p \in opened \cup {p} /\ p \in Projects \cup {Absent}
      BY PagesAreTyped
    <2> HIDE DEF mine
    <2> QED BY <2>1, <2>2, <2>3, Typed, GoKeeps
  <1>4. CASE OpenMenu
    <2>1. Mount(store, saved) /\ page.kind \in AppPages
          /\ UNCHANGED <<status, session, saved, opened, page, calls, expired, form, leaving,
                         accounts, jar>>
      BY <1>4 DEF OpenMenu, outside, work
    <2>2. /\ auth' \in Credentials /\ auth'.email = UserOf(session)
          /\ auth'.token # Absent => auth'.token.user = auth'.email
          /\ store' \in Projects \cup {Absent}
          /\ status = "authenticated" => store' = saved[session.user]
      BY <2>1, Typed, MountKeeps
    <2>3. TypeInv'
      BY <2>1, <2>2 DEF IInv, TypeInv, TypeOK, Credentials
    <2>4. SessionInv' /\ OneIdentity' /\ StoreOfUser'
      BY <2>1, <2>2 DEF IInv, SessionInv, TokenOf, OneIdentity, UserOf, StoreOfUser
    <2> QED BY <2>3, <2>4 DEF IInv
  <1>5. CASE SignedOut
    <2> DEFINE pg == IF leaving = "login" THEN Login(Absent) ELSE Landing
    <2>1. Load(pg, Absent) /\ jar' = Absent /\ UNCHANGED <<accounts, expired>>
      BY <1>5 DEF SignedOut
    <2>2. pg \in PageSet
      BY PagesAreTyped
    <2>3. jar' \in Cookies /\ TokenOf(jar)'
      BY <2>1 DEF Cookies, TokenOf
    <2> HIDE DEF pg
    <2> QED BY <2>1, <2>2, <2>3, Typed, LoadKeeps
  <1> QED BY <1>1, <1>2, <1>3, <1>4, <1>5

LEMMA SessionStep == ASSUME IInv, SessionArrives PROVE IInv'
  <1>1. /\ jar' = jar \/ (jar # Absent /\ jar' = [jar EXCEPT !.token = Fresh(jar.user)])
        /\ session' = IF jar' = Absent THEN Absent ELSE [user |-> jar'.user, token |-> jar'.token]
        /\ status' = IF jar' = Absent THEN "unauthenticated" ELSE "authenticated"
        /\ UNCHANGED <<accounts, expired, page, calls, leaving, form, saved, opened>>
    BY DEF SessionArrives, work
  <1>2. jar' \in Cookies /\ TokenOf(jar')
    <2>1. CASE jar' = jar
      BY <2>1, Typed DEF TokenOf
    <2>2. CASE jar # Absent /\ jar' = [jar EXCEPT !.token = Fresh(jar.user)]
      <3>1. jar.user \in Users
        BY <2>2, Typed DEF Cookies
      <3>2. Fresh(jar.user) \in Tokens /\ Fresh(jar.user).user = jar.user
        BY <3>1, Typed, FreshIsTyped
      <3> QED BY <2>2, <3>1, <3>2, Typed DEF Cookies, TokenOf
    <2> QED BY <1>1, <2>1, <2>2
  <1>3. session' \in Known \cup {Absent} /\ TokenOf(session')
    BY <1>1, <1>2 DEF Cookies, Known, TokenOf
  <1>4. status' = "authenticated" => session' # Absent
    BY <1>1, <1>2, AbsentAssumption DEF Cookies
  <1>5. IF page.kind \in AppPages /\ UserOf(session) # UserOf(session')
        THEN auth' = Handed(session') ELSE auth' = auth
    <2>1. CASE page.kind \in AppPages /\ UserOf(session) # UserOf(session')
      BY <2>1, Zenon DEF SessionArrives
    <2>2. CASE ~(page.kind \in AppPages /\ UserOf(session) # UserOf(session'))
      BY <2>2, Zenon DEF SessionArrives
    <2> QED BY <2>1, <2>2
  <1>6. /\ auth' \in Credentials
        /\ auth'.token # Absent => auth'.token.user = auth'.email
        /\ page.kind \in AppPages => auth'.email = UserOf(session')
    <2>1. /\ Handed(session') \in Credentials /\ Handed(session').email = UserOf(session')
          /\ Handed(session').token # Absent => Handed(session').token.user = Handed(session').email
      BY <1>3, HandedIsTyped
    <2>2. CASE page.kind \in AppPages /\ UserOf(session) # UserOf(session')
      BY <1>5, <2>1, <2>2
    <2>3. CASE ~(page.kind \in AppPages /\ UserOf(session) # UserOf(session'))
      BY <1>5, <2>3, Typed DEF IInv, OneIdentity
    <2> QED BY <2>2, <2>3
  <1>7. store' = IF page.kind \in AppPages
                    /\ <<UserOf(session), status>> # <<UserOf(session'), status'>>
                 THEN Rekeyed(session', saved) ELSE store
    BY Zenon DEF SessionArrives
  <1>8. Rekeyed(session', saved) \in Projects \cup {Absent}
    BY <1>3, Typed DEF Rekeyed, Known, Saved
  <1>9. TypeInv'
    BY <1>1, <1>2, <1>3, <1>6, <1>7, <1>8 DEF IInv, TypeInv, TypeOK, Known, Credentials
  <1>10. SessionInv'
    BY <1>2, <1>3, <1>4 DEF SessionInv, TokenOf
  <1>11. OneIdentity'
    BY <1>1, <1>6 DEF OneIdentity, UserOf
  <1>12. StoreOfUser'
    <2> SUFFICES ASSUME page.kind \in AppPages, status' = "authenticated"
                 PROVE  store' = saved[session'.user] \/ store' \in opened \/ store' = Absent
      BY <1>1 DEF StoreOfUser
    <2>1. CASE <<UserOf(session), status>> # <<UserOf(session'), status'>>
      BY <2>1, <1>4, <1>7 DEF Rekeyed
    <2>2. CASE UserOf(session) = UserOf(session') /\ status = status'
      <3>1. session # Absent /\ session' # Absent
        BY <2>2, <1>4 DEF IInv, SessionInv
      <3>2. session.user = session'.user /\ store' = store
        BY <2>2, <3>1, <1>7 DEF UserOf
      <3> QED BY <3>2, <2>2 DEF IInv, StoreOfUser
    <2> QED BY <2>1, <2>2
  <1> QED BY <1>9, <1>10, <1>11, <1>12 DEF IInv

LEMMA AnsweredStep == ASSUME IInv, NEW c \in CallIds, Answered(c) PROVE IInv'
  <1>1. /\ calls[c] \in CallRecords /\ calls' = Done(c)
        /\ page' = IF c[1] = "page" THEN [page EXCEPT !.loaded = TRUE] ELSE page
        /\ UNCHANGED <<status, session, auth, expired, form, leaving, accounts, jar>>
    BY Typed DEF Answered, CallTable, outside, client
  <1>2. calls' \in CallTable
    BY <1>1, Typed, DoneIsTyped
  <1>3. page' \in PageSet /\ page'.kind = page.kind
    BY <1>1, Typed DEF PageSet
  <1>4. CASE c[1] # "layout"
    <2>1. UNCHANGED <<store, saved, opened>>
      BY <1>4 DEF Answered, current
    <2>2. TokenOf(jar)'
      BY <1>1, Typed DEF TokenOf
    <2> QED BY <1>1, <1>2, <1>3, <2>1, <2>2, Typed, RestKeeps
  <1>5. CASE c[1] = "layout"
    <2>1. /\ store' = c[2] /\ opened' = opened \cup {c[2]}
          /\ saved' = IF calls[c].by = Absent THEN saved ELSE [saved EXCEPT ![calls[c].by] = c[2]]
      BY <1>5 DEF Answered, Hydrate
    <2>2. c[2] \in Projects
      BY <1>5 DEF CallIds
    <2>3. saved' \in Saved
      BY <1>1, <2>1, <2>2, Typed DEF CallRecords, Saved
    <2>4. TypeInv'
      BY <1>1, <1>2, <1>3, <2>1, <2>2, <2>3 DEF IInv, TypeInv, TypeOK, PageSet, Saved
    <2>5. SessionInv' /\ OneIdentity' /\ StoreOfUser'
      BY <1>1, <1>3, <2>1 DEF IInv, SessionInv, TokenOf, OneIdentity, UserOf, StoreOfUser
    <2> QED BY <2>4, <2>5 DEF IInv
  <1> QED BY <1>4, <1>5

LEMMA CreatedStep == ASSUME IInv, NEW p \in Projects, Created(p) PROVE IInv'
  <1> DEFINE c == <<"create", p>>
  <1> DEFINE mine == IF calls[c].by = Absent THEN saved ELSE [saved EXCEPT ![calls[c].by] = p]
  <1>1. Go(Workspace(p), Done(c), p, mine, opened \cup {p}) /\ calls[c] # Absent
        /\ UNCHANGED <<accounts, expired, jar, leaving>>
    BY DEF Created
  <1>2. c \in CallIds
    BY DEF CallIds
  <1>3. calls[c] \in CallRecords
    BY <1>1, <1>2, Typed DEF CallTable
  <1>4. mine \in Saved
    BY <1>3, Typed DEF CallRecords, Saved
  <1>5. Done(c) \in CallTable
    BY <1>2, Typed, DoneIsTyped
  <1>6. Workspace(p) \in PageSet /\ p \in opened \cup {p} /\ p \in Projects \cup {Absent}
    BY PagesAreTyped
  <1> HIDE DEF mine, c
  <1> QED BY <1>1, <1>4, <1>5, <1>6, Typed, GoKeeps

LEMMA FailedStep ==
  ASSUME IInv, NEW c \in CallIds, Failed(c), UNCHANGED <<accounts, expired, jar>>,
         leaving' \in {"none", "login", "landing"}
  PROVE  IInv'
  <1>1. Done(c) \in CallTable
    BY Typed, DoneIsTyped
  <1>2. CASE c[1] = "layout"
    <2>1. Go(Hub, Done(c), store, saved, opened)
      BY <1>2 DEF Failed
    <2> QED BY <2>1, <1>1, Typed, PagesAreTyped, GoKeeps
  <1>3. CASE c[1] # "layout"
    <2>1. /\ calls' = Done(c)
          /\ UNCHANGED <<page, status, session, auth, form, store, saved, opened>>
      BY <1>3 DEF Failed, client, current
    <2>2. TokenOf(jar)'
      BY Typed DEF TokenOf
    <2> QED BY <2>1, <2>2, <1>1, Typed, RestKeeps
  <1> QED BY <1>2, <1>3

LEMMA AnswerStep ==
  ASSUME IInv, NEW c \in CallIds, Answered(c) \/ Refused(c) \/ Broken(c) PROVE IInv'
  <1>1. CASE Refused(c)
    <2>1. Failed(c) /\ UNCHANGED <<accounts, expired, jar>>
      BY <1>1 DEF Refused, outside
    <2>2. leaving' = "login" \/ leaving' = leaving
      BY <1>1, Zenon DEF Refused
    <2> QED BY <2>1, <2>2, Typed, FailedStep
  <1>2. CASE Broken(c)
    <2>1. Failed(c) /\ UNCHANGED <<accounts, expired, jar, leaving>>
      BY <1>2 DEF Broken, outside
    <2> QED BY <2>1, Typed, FailedStep
  <1> QED BY <1>1, <1>2, AnsweredStep

\* A request is sent, the session asked for, time passes, or another tab signs in
\* or out: nothing of it reaches the credentials yet.
LEMMA QuietStep ==
  ASSUME IInv,
         \/ Poll \/ Focus \/ Expire \/ ClickSignOut \/ OtherSignsOut
         \/ \E p \in Projects : Create(p)
         \/ \E u \in Users : OtherSignsIn(u)
  PROVE  IInv'
  <1>1. ASSUME NEW id \in CallIds, calls' = [calls EXCEPT ![id] = Waiting(UserOf(session))]
        PROVE  calls' \in CallTable
    BY <1>1, Typed, WaitingIsTyped DEF CallTable
  <1>2. CASE Poll \/ \E p \in Projects : Create(p)
    <2>1. /\ UNCHANGED <<status, session, auth, store, saved, opened, page, expired, form, leaving,
                         accounts, jar>>
          /\ \E p \in Projects, kind \in {"runs", "create"} :
               calls' = [calls EXCEPT ![<<kind, p>>] = Waiting(UserOf(session))]
      BY <1>2, Typed DEF Poll, Create, outside, client, current
    <2>2. calls' \in CallTable
      BY <1>1, <2>1 DEF CallIds
    <2>3. TokenOf(jar)'
      BY <2>1, Typed DEF TokenOf
    <2> QED BY <2>1, <2>2, <2>3, Typed, RestKeeps
  <1>3. CASE Focus \/ Expire \/ ClickSignOut
    <2>1. /\ UNCHANGED <<status, session, auth, store, saved, opened, page, form, calls,
                         accounts, jar>>
          /\ expired' \in BOOLEAN /\ leaving' \in {"none", "login", "landing"}
      BY <1>3, Typed DEF Focus, Expire, ClickSignOut, outside, client, work, current
    <2>2. TokenOf(jar)'
      BY <2>1, Typed DEF TokenOf
    <2> QED BY <2>1, <2>2, Typed, RestKeeps
  <1>4. CASE OtherSignsOut \/ \E u \in Users : OtherSignsIn(u)
    <2>1. /\ UNCHANGED <<status, session, auth, store, saved, opened, page, form, calls,
                         accounts, expired, leaving>>
          /\ \/ jar' = Absent
             \/ \E u \in Users : jar' = [user |-> u, via |-> "credentials", token |-> Fresh(u)]
      BY <1>4 DEF OtherSignsIn, OtherSignsOut, OtherTab, work, current
    <2>2. jar' \in Cookies /\ TokenOf(jar)'
      BY <2>1, Typed, FreshIsTyped DEF Cookies, TokenOf
    <2> QED BY <2>1, <2>2, Typed, RestKeeps
  <1> QED BY <1>2, <1>3, <1>4

LEMMA FormStep ==
  ASSUME IInv,
         \/ Register \/ Authorize \/ SignInReturns \/ SignInThrows
         \/ \E u \in Users : SubmitSignup(u) \/ OAuth(u)
                             \/ \E right \in BOOLEAN : SubmitLogin(u, right)
  PROVE  IInv'
  <1>1. CASE \/ Register \/ SignInThrows
             \/ \E u \in Users : SubmitSignup(u) \/ \E right \in BOOLEAN : SubmitLogin(u, right)
    <2>1. UNCHANGED <<status, session, auth, store, saved, opened, page, calls, expired, leaving,
                      jar>>
      BY <1>1 DEF Register, SignInThrows, SubmitSignup, SubmitLogin, outside, client, current
    <2>2. form' \in Forms \cup {Absent}
      <3>1. CASE Register
        <4>1. form \in Forms /\ (form' = [form EXCEPT !.step = "asked"] \/ form' = Absent)
          BY <3>1, Typed DEF Register
        <4> QED BY <4>1 DEF Forms
      <3>2. CASE SignInThrows
        <4>1. form \in Forms /\ (form' = [form EXCEPT !.step = "stuck"] \/ form' = Absent)
          BY <3>2, Typed DEF SignInThrows
        <4> QED BY <4>1 DEF Forms
      <3>3. CASE \E u \in Users : SubmitSignup(u) \/ \E right \in BOOLEAN : SubmitLogin(u, right)
        <4>1. \E u \in Users, step \in {"asked", "registers"}, right \in BOOLEAN :
                form' = Submitted(u, step, right)
          BY <3>3 DEF SubmitSignup, SubmitLogin
        <4> QED BY <4>1 DEF Submitted, Forms
      <3> QED BY <1>1, <3>1, <3>2, <3>3
    <2>3. accounts' \in Accounts
      BY <1>1, Typed DEF Register, SignInThrows, SubmitSignup, SubmitLogin, outside, Accounts
    <2>4. TokenOf(jar)'
      BY <2>1, Typed DEF TokenOf
    <2> QED BY <2>1, <2>2, <2>3, <2>4, Typed, RestKeeps
  <1>2. CASE Authorize
    <2>1. form \in Forms
      BY <1>2, Typed DEF Authorize
    <2>2. /\ UNCHANGED <<status, session, auth, store, saved, opened, page, calls, expired, leaving,
                         accounts>>
          /\ \/ jar' = [user |-> form.user, via |-> "credentials", token |-> Fresh(form.user)]
             \/ jar' = jar
          /\ form' = [form EXCEPT !.step = "in"] \/ form' = [form EXCEPT !.step = "refused"]
      BY <1>2 DEF Authorize, client, current
    <2>3. jar' \in Cookies /\ TokenOf(jar)' /\ form' \in Forms
      BY <2>1, <2>2, Typed, FreshIsTyped DEF Cookies, TokenOf, Forms
    <2> QED BY <2>2, <2>3, Typed, RestKeeps
  <1>3. CASE SignInReturns
    <2>1. UNCHANGED <<accounts, expired, jar>>
      BY <1>3 DEF SignInReturns, outside
    <2>2. TokenOf(jar)'
      BY <2>1, Typed DEF TokenOf
    <2>3. CASE form.step = "refused" /\ page.kind = "login"
      <3>1. form' = Absent
            /\ UNCHANGED <<page, status, session, auth, calls, leaving, store, saved, opened>>
        BY <1>3, <2>3 DEF SignInReturns, client, current
      <3> QED BY <3>1, <2>1, <2>2, Typed, RestKeeps
    <2>4. CASE ~(form.step = "refused" /\ page.kind = "login")
      <3>1. Load(After(page.back), jar)
        BY <1>3, <2>4, Zenon DEF SignInReturns
      <3>2. After(page.back) \in PageSet
        BY Typed, PagesAreTyped DEF PageSet
      <3> QED BY <3>1, <3>2, <2>1, <2>2, Typed, LoadKeeps
    <2> QED BY <2>3, <2>4
  <1>4. ASSUME NEW u \in Users, OAuth(u) PROVE IInv'
    <2>1. Load(After(page.back), jar') /\ UNCHANGED expired
      BY <1>4 DEF OAuth
    <2>2. /\ \/ jar' = [user |-> u, via |-> "oauth", token |-> Fresh(u)]
             \/ jar' = [user |-> u, via |-> "oauth", token |-> Absent]
          /\ accounts' = accounts
             \/ accounts' = [accounts EXCEPT ![u] = IF @ = "none" THEN "oauth" ELSE @]
      BY <1>4 DEF OAuth
    <2>3. accounts' \in Accounts
      BY <2>2, Typed DEF Accounts
    <2>4. jar' \in Cookies /\ TokenOf(jar)'
      BY <2>2, Typed, FreshIsTyped DEF Cookies, TokenOf, Tokens
    <2>5. After(page.back) \in PageSet
      BY Typed, PagesAreTyped DEF PageSet
    <2> QED BY <2>1, <2>3, <2>4, <2>5, LoadKeeps
  <1> QED BY <1>1, <1>2, <1>3, <1>4

LEMMA StepKeeps == IInv /\ [Next]_vars => IInv'
  <1> SUFFICES ASSUME IInv, [Next]_vars PROVE IInv'
    OBVIOUS
  <1>1. CASE UNCHANGED vars
    <2>1. UNCHANGED <<accounts, jar, expired, page, status, session, auth, calls, leaving, form,
                      store, saved, opened>>
      BY <1>1 DEF vars, outside, client, work, current
    <2>2. TokenOf(jar)'
      BY <2>1, Typed DEF TokenOf
    <2> QED BY <2>1, <2>2, Typed, RestKeeps
  <1>2. CASE \E c \in CallIds : Send(c) \/ Answered(c) \/ Refused(c) \/ Broken(c)
    BY <1>2, SendStep, AnswerStep
  <1>3. CASE \/ \E pg \in Pages : Visit(pg) \/ Follow(pg)
             \/ \E p \in Projects : Enter(p)
             \/ OpenMenu \/ SignedOut
    BY <1>3, NavigationStep
  <1>4. CASE \E p \in Projects : Created(p)
    BY <1>4, CreatedStep
  <1>5. CASE \/ Poll \/ Focus \/ Expire \/ ClickSignOut \/ OtherSignsOut
             \/ \E p \in Projects : Create(p)
             \/ \E u \in Users : OtherSignsIn(u)
    BY <1>5, QuietStep
  <1>6. CASE \/ Register \/ Authorize \/ SignInReturns \/ SignInThrows
             \/ \E u \in Users : SubmitSignup(u) \/ OAuth(u)
                                 \/ \E right \in BOOLEAN : SubmitLogin(u, right)
    BY <1>6, FormStep
  <1> QED BY <1>1, <1>2, <1>3, <1>4, <1>5, <1>6, SessionStep DEF Next

\* For any users and projects: tab, cookie, requests and forms keep their types.
THEOREM TypeCorrect == Spec => []TypeOK
  <1>1. IInv => TypeOK
    BY DEF IInv, TypeInv
  <1> QED BY <1>1, InitHolds, StepKeeps, PTL DEF Spec

\* For any users, projects and number of tabs that share the cookie: a request
\* carries the e-mail and the token of one user, the one of the tab's session.
THEOREM IdentityStaysOne == Spec => []OneIdentity
  <1>1. IInv => OneIdentity
    BY DEF IInv
  <1> QED BY <1>1, InitHolds, StepKeeps, PTL DEF Spec

\* For any users and projects: who is signed in has a current project of their
\* own, or one that was opened in this tab, never the last user's.
THEOREM StoreStaysOfUser == Spec => []StoreOfUser
  <1>1. IInv => StoreOfUser
    BY DEF IInv
  <1> QED BY <1>1, InitHolds, StepKeeps, PTL DEF Spec
=============================================================================
