----------------------------- MODULE TabSession -----------------------------
(***************************************************************************)
(* Who a browser tab acts for.  The cookie of the session is shared with   *)
(* the other tabs; the SessionProvider asks for the session after a load,  *)
(* on focus and when another tab tells of a change; the sidebar hands what *)
(* it learns to the API client (module variables of client.ts) and sets    *)
(* currentProject of the persisted store to the user's last project; the   *)
(* API client holds requests back until it has credentials, or 4 s, and    *)
(* signs the user out when one is refused; the layout of a project makes   *)
(* it the current one.                                                     *)
(*                                                                         *)
(* A token is [user, old]; the old ones, issued before `expired`, are      *)
(* refused from then on.                                                   *)
(***************************************************************************)
EXTENDS Integers, FiniteSets

CONSTANTS
    Users, Projects,
    Sessions,   \* accounts, cookie and what is done in the tab, how often (bound)
    Absent

Tokens == [user : Users, old : BOOLEAN] \cup {Absent}
Cookies == [user : Users, via : {"credentials", "oauth"}, token : Tokens] \cup {Absent}
Accounts == [Users -> {"none", "credentials", "oauth"}]

ASSUME AbsentAssumption == Absent \notin Users \cup Projects \cup [user : Users, token : Tokens]
ASSUME SessionAssumption == \A s \in Sessions :
    /\ s.accounts \in Accounts /\ s.jar \in Cookies
    /\ s.jar # Absent => s.jar.token = Absent \/ s.jar.token.user = s.jar.user
    /\ s.store \in Projects \cup {Absent}
    /\ s.saved \in [Users -> Projects \cup {Absent}]

VARIABLES
    accounts,   \* the users table: how each user signs in, if at all
    made,       \* projects that exist
    expired,    \* the tokens of the first 30 days have expired
    trusts,     \* the API takes X-User-Email: HAWKEYE_AUTH_SECRET is not set
    jar,        \* the NextAuth cookie: [user, via, token]
    page,       \* the page that is shown
    asking,     \* a request for the session is under way
    status, session,    \* what useSession returns
    ready, auth,        \* _sessionReady; _authEmail and _authToken
    calls,      \* requests of apiFetch, one of a kind (bound)
    leaving,    \* a signOut that has begun: where it leads, or "none"
    form,       \* the sign-in or sign-up that was submitted
    store,      \* currentProject
    saved,      \* projectsByUser
    opened,     \* history: projects made current since the tab was loaded
    does, visits, fails     \* what the session does, and may still do (bounds)

outside == <<accounts, made, expired, trusts, jar>>
client  == <<asking, status, session, ready, auth>>
work    == <<calls, leaving, form>>
current == <<store, saved, opened>>
bounds  == <<does, visits, fails>>
vars    == <<outside, page, client, work, current, bounds>>

Landing == [kind |-> "landing", project |-> Absent, back |-> Absent, loaded |-> FALSE]
Hub == [Landing EXCEPT !.kind = "hub"]
Signup == [Landing EXCEPT !.kind = "signup"]
Workspace(p) == [Landing EXCEPT !.kind = "workspace", !.project = p]
AppPages == {"hub", "workspace"}

\* callbackUrl as it is.
Safe_Raw(back) == back

\* safePostLoginRedirect: only paths of the app; Absent is /app itself.
Safe(back) == IF back \in Projects THEN back ELSE Absent

Login(back) == [Landing EXCEPT !.kind = "login", !.back = Safe(back)]
After(back) == IF back = Absent THEN Hub ELSE Workspace(back)

\* The middleware: a page of the app needs the cookie.
Admitted(pg, cookie) ==
    IF pg.kind \in AppPages /\ cookie = Absent THEN Login(pg.project) ELSE pg

-----------------------------------------------------------------------------
(* Requests *)

CallIds == ({"layout", "runs", "create"} \X Projects) \cup {<<"page", Absent>>}

\* A request that waits for credentials; `by` is the user its page knew then.
Waiting(by) == [sent |-> FALSE, as |-> Absent, by |-> by]

UserOf(s) == IF s = Absent THEN Absent ELSE s.user

\* What a page asks for when it is mounted; its layout asks for a project that
\* is not the current one.
Asked(cs, pg, s, now) ==
    IF pg.kind \notin AppPages THEN cs
    ELSE [c \in CallIds |->
            IF \/ c[1] = "page"
               \/ c[1] = "layout" /\ pg.kind = "workspace" /\ c[2] = pg.project /\ c[2] # now
            THEN IF cs[c] = Absent \/ c[1] = "page" THEN Waiting(UserOf(s)) ELSE cs[c]
            ELSE cs[c]]

\* apiFetch has waited for the credentials, or for 4 s.
Send(c) ==
    /\ calls[c] # Absent
    /\ ~calls[c].sent
    /\ calls' = [calls EXCEPT ![c].sent = TRUE, ![c].as = auth]
    /\ UNCHANGED <<outside, page, client, leaving, form, current, bounds>>

\* get_current_user: the token if there is one, else the email where it is trusted.
Accepted(as) ==
    IF as.token # Absent THEN ~(as.token.old /\ expired)
    ELSE trusts /\ as.email # Absent

Fresh(u) == [user |-> u, old |-> ~expired]

-----------------------------------------------------------------------------
(* The sidebar *)

\* The token is only ever replaced by another one.
Handed_Kept(s) ==
    [email |-> UserOf(s),
     token |-> IF s = Absent \/ s.token = Absent THEN auth.token ELSE s.token]

\* setAuthUser and setAuthToken.
Handed(s) == [email |-> UserOf(s), token |-> IF s = Absent THEN Absent ELSE s.token]

\* The current project stays when the user has none.
Rekeyed_Keep(s, mine) ==
    IF s = Absent \/ mine[s.user] = Absent THEN store ELSE mine[s.user]

\* currentProject is re-keyed to the user.
Rekeyed(s, mine) == IF s = Absent THEN Absent ELSE mine[s.user]

\* Both effects of a sidebar that is mounted while the session is known or not.
Mount(now, mine) ==
    /\ auth' = Handed(session)
    /\ ready' = (ready \/ session # Absent)
    /\ store' = IF status = "loading" THEN now ELSE Rekeyed(session, mine)

-----------------------------------------------------------------------------
(* Navigation *)

Does(use) == use \in does /\ visits > 0 /\ visits' = visits - 1

\* A page is loaded: all but the persisted store starts anew.
Load(pg, cookie) ==
    LET at == Admitted(pg, cookie) IN
    /\ page' = at
    /\ asking' = TRUE
    /\ status' = "loading"
    /\ session' = Absent
    /\ ready' = FALSE
    /\ auth' = [email |-> Absent, token |-> Absent]
    /\ calls' = Asked([c \in CallIds |-> Absent], at, Absent, store)
    /\ leaving' = "none"
    /\ form' = Absent
    /\ opened' = {}
    /\ UNCHANGED <<store, saved>>

\* A page is shown without a load: a sidebar is mounted with it unless the last
\* page had the same one.  The layout compares with the store before that.
Go(pg, cs, now, mine, open) ==
    LET at == Admitted(pg, jar) IN
    /\ page' = at
    /\ calls' = Asked(cs, at, session, now)
    /\ form' = Absent
    /\ saved' = mine
    /\ opened' = open
    /\ IF at.kind \in AppPages \ {page.kind} THEN Mount(now, mine)
       ELSE store' = now /\ UNCHANGED <<ready, auth>>
    /\ UNCHANGED <<asking, status, session>>

Init ==
    /\ \E s \in Sessions:
         /\ accounts = s.accounts
         /\ trusts = s.trusts
         /\ jar = s.jar
         /\ made = s.made
         /\ store = s.store
         /\ saved = s.saved
         /\ does = s.does
         /\ visits = s.visits
         /\ fails = s.fails
    /\ expired = FALSE
    /\ page = Landing
    /\ asking = TRUE
    /\ status = "loading"
    /\ session = Absent
    /\ ready = FALSE
    /\ auth = [email |-> Absent, token |-> Absent]
    /\ calls = [c \in CallIds |-> Absent]
    /\ leaving = "none"
    /\ form = Absent
    /\ opened = {}

\* An address is entered, or the page is reloaded.
Visit(pg) ==
    /\ leaving = "none"
    /\ Does("visit")
    /\ Load(pg, jar)
    /\ UNCHANGED <<outside, does, fails>>

\* A link of the sidebar, the landing page or the forms.
Follow(pg) ==
    /\ Does("follow")
    /\ Go(pg, calls, store, saved, opened)
    /\ UNCHANGED <<outside, leaving, does, fails>>

\* A card of the hub: the project becomes the user's (enterProject).
Enter(p) ==
    /\ page.kind = "hub" /\ page.loaded
    /\ p \in made
    /\ Does("enter")
    /\ LET mine == IF session = Absent THEN saved ELSE [saved EXCEPT ![session.user] = p]
       IN Go(Workspace(p), calls, p, mine, opened \cup {p})
    /\ UNCHANGED <<outside, leaving, does, fails>>

\* The navigation of small screens is a sidebar of its own, mounted when it opens.
OpenMenu ==
    /\ page.kind \in AppPages
    /\ Does("menu")
    /\ Mount(store, saved)
    /\ UNCHANGED <<outside, page, asking, status, session, work, saved, opened, does, fails>>

-----------------------------------------------------------------------------
(* The session *)

\* The session is read: the jwt callback exchanges the identity of an OAuth user
\* for a token as long as the cookie has none, which may fail.
SessionArrives ==
    /\ asking
    /\ asking' = FALSE
    /\ \/ /\ jar' = IF jar # Absent /\ jar.token = Absent
                    THEN [jar EXCEPT !.token = Fresh(jar.user)] ELSE jar
          /\ UNCHANGED fails
       \/ /\ jar # Absent /\ jar.token = Absent
          /\ fails > 0 /\ fails' = fails - 1
          /\ UNCHANGED jar
    /\ session' = IF jar' = Absent THEN Absent ELSE [user |-> jar'.user, token |-> jar'.token]
    /\ status' = IF jar' = Absent THEN "unauthenticated" ELSE "authenticated"
    \* The effects of the sidebar go by the user and the status.
    /\ IF page.kind \in AppPages /\ UserOf(session) # UserOf(session')
       THEN auth' = Handed(session') /\ ready' = (ready \/ session' # Absent)
       ELSE UNCHANGED <<auth, ready>>
    /\ store' = IF page.kind \in AppPages /\ <<UserOf(session), status>> # <<UserOf(session'), status'>>
                THEN Rekeyed(session', saved) ELSE store
    /\ UNCHANGED <<accounts, made, expired, trusts, page, work, saved, opened, does, visits>>

\* The window is focused again: the session is asked for.
Focus ==
    /\ ~asking
    /\ Does("focus")
    /\ asking' = TRUE
    /\ UNCHANGED <<outside, page, status, session, ready, auth, work, current, does, fails>>

\* Another tab signs in or out, and tells the others.
OtherTab(cookie) ==
    /\ Does("other")
    /\ jar' = cookie
    /\ asking' = TRUE
    /\ UNCHANGED <<accounts, made, expired, trusts, page, status, session, ready, auth, work, current,
                   does, fails>>

OtherSignsIn(u) ==
    /\ accounts[u] = "credentials"
    /\ OtherTab([user |-> u, via |-> "credentials", token |-> Fresh(u)])
OtherSignsOut == OtherTab(Absent)

\* 30 days pass.
Expire ==
    /\ ~expired
    /\ Does("expire")
    /\ expired' = TRUE
    /\ UNCHANGED <<accounts, made, trusts, jar, page, client, work, current, does, fails>>

-----------------------------------------------------------------------------
(* Answers *)

\* The bell's list is polled while there is a current project.
Poll ==
    /\ page.kind \in AppPages
    /\ store # Absent
    /\ calls[<<"runs", store>>] = Absent
    /\ calls' = [calls EXCEPT ![<<"runs", store>>] = Waiting(UserOf(session))]
    /\ UNCHANGED <<outside, page, client, leaving, form, current, bounds>>

Done(c) == [calls EXCEPT ![c] = Absent]

\* The layout's project is made current only for a user it knew.
Hydrate_Known(c) ==
    /\ store' = IF calls[c].by = Absent THEN store ELSE c[2]
    /\ saved' = IF calls[c].by = Absent THEN saved ELSE [saved EXCEPT ![calls[c].by] = c[2]]
    /\ opened' = opened \cup {c[2]}

\* getProject is answered, perhaps for a page that was left: its project is the
\* current one, and the last one of the user its layout knew.
Hydrate(c) ==
    /\ store' = c[2]
    /\ saved' = IF calls[c].by = Absent THEN saved ELSE [saved EXCEPT ![calls[c].by] = c[2]]
    /\ opened' = opened \cup {c[2]}

Answered(c) ==
    /\ calls[c] # Absent
    /\ calls[c].sent
    /\ Accepted(calls[c].as)
    /\ c[1] # "create"
    /\ calls' = Done(c)
    /\ page' = IF c[1] = "page" THEN [page EXCEPT !.loaded = TRUE] ELSE page
    /\ IF c[1] = "layout" THEN Hydrate(c) ELSE UNCHANGED current
    /\ UNCHANGED <<outside, client, leaving, form, bounds>>

\* The project of the hub's dialog is created; its dashboard is opened, whatever
\* page is shown by then.
Created(p) ==
    LET c == <<"create", p>>
        mine == IF calls[c].by = Absent THEN saved ELSE [saved EXCEPT ![calls[c].by] = p] IN
    /\ calls[c] # Absent
    /\ calls[c].sent
    /\ Accepted(calls[c].as)
    /\ made' = made \cup {p}
    /\ Go(Workspace(p), Done(c), p, mine, opened \cup {p})
    /\ UNCHANGED <<accounts, expired, trusts, jar, leaving, bounds>>

\* A layout without its project leads to the hub, whatever page is shown.
Failed(c) ==
    IF c[1] = "layout" THEN Go(Hub, Done(c), store, saved, opened)
    ELSE /\ calls' = Done(c)
         /\ UNCHANGED <<page, client, form, current>>

\* The error is thrown, and nothing more.
Refused_Thrown(c) ==
    /\ calls[c] # Absent
    /\ calls[c].sent
    /\ ~Accepted(calls[c].as)
    /\ Failed(c)
    /\ UNCHANGED <<outside, leaving, bounds>>

\* 401: a tab that has had credentials signs out, whoever the cookie is of.
Refused(c) ==
    /\ calls[c] # Absent
    /\ calls[c].sent
    /\ ~Accepted(calls[c].as)
    /\ leaving' = IF ready /\ leaving = "none" THEN "login" ELSE leaving
    /\ Failed(c)
    /\ UNCHANGED <<outside, bounds>>

\* Any other failure.
Broken(c) ==
    /\ calls[c] # Absent
    /\ calls[c].sent
    /\ fails > 0
    /\ fails' = fails - 1
    /\ Failed(c)
    /\ UNCHANGED <<outside, leaving, does, visits>>

\* The form of the hub's dialog; it may be submitted again before the answer.
Create(p) ==
    /\ page.kind = "hub"
    /\ p \notin made
    /\ calls[<<"create", p>>] = Absent
    /\ Does("create")
    /\ calls' = [calls EXCEPT ![<<"create", p>>] = Waiting(UserOf(session))]
    /\ UNCHANGED <<outside, page, client, leaving, form, current, does, fails>>

-----------------------------------------------------------------------------
(* Signing in and out *)

\* The button of the sidebar.
ClickSignOut ==
    /\ page.kind \in AppPages
    /\ status = "authenticated"
    /\ leaving = "none"
    /\ Does("signout")
    /\ leaving' = "landing"
    /\ UNCHANGED <<outside, page, client, calls, form, current, does, fails>>

\* signOut has removed the cookie and loads its callbackUrl.
SignedOut ==
    /\ leaving # "none"
    /\ jar' = Absent
    /\ Load(IF leaving = "login" THEN Login(Absent) ELSE Landing, Absent)
    /\ UNCHANGED <<accounts, made, expired, trusts, bounds>>

Submitted(u, step, right) == [user |-> u, step |-> step, right |-> right]

\* The login form, with the right password or another one.
SubmitLogin(u, right) ==
    /\ page.kind = "login"
    /\ form = Absent
    /\ Does("login")
    /\ form' = Submitted(u, "asked", right)
    /\ UNCHANGED <<outside, page, client, calls, leaving, current, does, fails>>

\* The signup form.
SubmitSignup(u) ==
    /\ page.kind = "signup"
    /\ form = Absent
    /\ Does("signup")
    /\ form' = Submitted(u, "registers", TRUE)
    /\ UNCHANGED <<outside, page, client, calls, leaving, current, does, fails>>

\* POST /api/auth/register: 409 for an email that is registered, 201 and then
\* the sign-in for another one.
Register ==
    /\ form # Absent
    /\ form.step = "registers"
    /\ IF accounts[form.user] = "none"
       THEN /\ accounts' = [accounts EXCEPT ![form.user] = "credentials"]
            /\ form' = [form EXCEPT !.step = "asked"]
       ELSE form' = Absent /\ UNCHANGED accounts
    /\ UNCHANGED <<made, expired, trusts, jar, page, client, calls, leaving, current, bounds>>

\* authorize, and POST /api/auth/login: an account of a provider has no password.
Authorize ==
    /\ form # Absent
    /\ form.step = "asked"
    /\ IF accounts[form.user] = "credentials" /\ form.right
       THEN /\ jar' = [user |-> form.user, via |-> "credentials", token |-> Fresh(form.user)]
            /\ form' = [form EXCEPT !.step = "in"]
       ELSE form' = [form EXCEPT !.step = "refused"] /\ UNCHANGED jar
    /\ UNCHANGED <<accounts, made, expired, trusts, page, client, calls, leaving, current, bounds>>

\* signIn returns: the login form shows an error or loads the page that was asked
\* for; the signup form loads the hub in any case.
SignInReturns ==
    /\ form # Absent
    /\ form.step \in {"in", "refused"}
    /\ IF form.step = "refused" /\ page.kind = "login"
       THEN form' = Absent /\ UNCHANGED <<page, client, calls, leaving, current>>
       ELSE Load(After(page.back), jar)
    /\ UNCHANGED <<outside, bounds>>

\* The connection is lost: the signup form says so, the login form has no handler
\* and stays disabled.
SignInThrows ==
    /\ form # Absent
    /\ form.step # "stuck"
    /\ fails > 0
    /\ fails' = fails - 1
    /\ form' = IF page.kind = "login" THEN [form EXCEPT !.step = "stuck"] ELSE Absent
    /\ UNCHANGED <<outside, page, client, calls, leaving, current, does, visits>>

\* The provider signs the user in and leads back; the exchange for a token, which
\* also creates the account, may fail.
OAuth(u) ==
    /\ page.kind \in {"login", "signup"}
    /\ Does("oauth")
    /\ \/ /\ jar' = [user |-> u, via |-> "oauth", token |-> Fresh(u)]
          /\ accounts' = [accounts EXCEPT ![u] = IF @ = "none" THEN "oauth" ELSE @]
          /\ UNCHANGED fails
       \/ /\ fails > 0 /\ fails' = fails - 1
          /\ jar' = [user |-> u, via |-> "oauth", token |-> Absent]
          /\ UNCHANGED accounts
    /\ Load(After(page.back), jar')
    /\ UNCHANGED <<made, expired, trusts, does>>

-----------------------------------------------------------------------------
Pages == {Landing, Hub, Signup, Login("elsewhere")} \cup {Workspace(p) : p \in Projects}

Next ==
    \/ \E c \in CallIds: Send(c) \/ Answered(c) \/ Refused(c) \/ Broken(c)
    \/ \E pg \in Pages: Visit(pg) \/ Follow(pg)
    \/ \E p \in Projects: Enter(p) \/ Create(p) \/ Created(p)
    \/ \E u \in Users: \/ OtherSignsIn(u) \/ SubmitSignup(u) \/ OAuth(u)
                       \/ \E right \in BOOLEAN: SubmitLogin(u, right)
    \/ OpenMenu \/ SessionArrives \/ Focus \/ OtherSignsOut \/ Expire \/ Poll
    \/ ClickSignOut \/ SignedOut \/ Register \/ Authorize \/ SignInReturns \/ SignInThrows

\* Timers fire, and the servers answer.
Fairness ==
    /\ \A c \in CallIds: WF_vars(Send(c)) /\ WF_vars(Answered(c) \/ Refused(c))
    /\ WF_vars(SessionArrives) /\ WF_vars(Poll) /\ WF_vars(SignedOut)

Spec == Init /\ [][Next]_vars /\ Fairness

-----------------------------------------------------------------------------
(* Properties *)

\* Types: a page that is loaded after a sign-in is one of the app; credentials are
\* those of a user or none.
TypeOK ==
    /\ accounts \in Accounts
    /\ jar \in Cookies
    /\ page.kind \in AppPages \cup {"landing", "login", "signup"}
    /\ page.back \in Projects \cup {Absent}
    /\ status \in {"loading", "authenticated", "unauthenticated"}
    /\ session = Absent \/ session \in [user : Users, token : Tokens]
    /\ auth \in [email : Users \cup {Absent}, token : Tokens]
    /\ leaving \in {"none", "login", "landing"}
    /\ store \in Projects \cup {Absent}
    /\ saved \in [Users -> Projects \cup {Absent}]

\* What the API client sends with a request is of one user, the one of the tab's
\* session, whatever tabs sign in and out and whether or not their sign-ins have a
\* token (setAuthUser and setAuthToken, set by the sidebar's effect).
OneIdentity ==
    /\ auth.token # Absent => auth.token.user = auth.email
    /\ page.kind \in AppPages => auth.email = UserOf(session)

\* "Without this, User A's project persists in localStorage when User B logs in"
\* (unified-sidebar.tsx): once the session is known, the current project is the
\* user's own last one, or one that was made current since the tab was loaded.
StoreOfUser ==
    page.kind \in AppPages /\ status = "authenticated" /\ store # Absent
    => store = saved[session.user] \/ store \in opened

\* The layout makes the project of its page the current one, also when it was
\* loaded before the session was known and its request had to wait, unless the
\* page is left (ProjectLayout).
Hydrated ==
    \A p \in Projects:
        page.project = p /\ calls[<<"layout", p>>] # Absent ~> store = p \/ page.project # p

\* A tab does not go on with a token that is refused: its polls end in a sign-out
\* (apiFetch), as long as there is a project to poll.
ExpiredIsLeft ==
    [](auth.token # Absent /\ auth.token.old /\ expired
       => <>(auth.token = Absent \/ ~auth.token.old \/ store = Absent
             \/ page.kind \notin AppPages))
=============================================================================
