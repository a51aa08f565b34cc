---------------------------- MODULE MCTabSession ----------------------------
(* Two users, two projects, and what is done in one tab. *)
EXTENDS TabSession, TLC

CONSTANTS ann, bob, p1, p2

Cookie(u) == [user |-> u, via |-> "credentials", token |-> [user |-> u, old |-> TRUE]]

Scene(a, b, cookie, cur, last, todo, n, m, dev) ==
    [accounts |-> (ann :> a) @@ (bob :> b), jar |-> cookie, store |-> cur,
     saved |-> (ann :> last) @@ (bob :> Absent), does |-> todo, visits |-> n, fails |-> m,
     trusts |-> dev, made |-> {p1}]

SessionsDef ==
    { Scene("credentials", "credentials", Absent, p1, p1, {"visit", "login"}, 3, 1, FALSE),
      Scene("credentials", "none", Cookie(ann), p1, p1, {"visit", "follow", "menu"}, 3, 1, FALSE),
      Scene("credentials", "credentials", Cookie(ann), Absent, p1, {"visit", "other", "focus"}, 4, 0, FALSE),
      Scene("none", "none", Absent, Absent, Absent, {"follow", "signup", "oauth"}, 3, 1, TRUE),
      Scene("oauth", "none", Absent, Absent, Absent, {"visit", "oauth", "focus", "menu"}, 4, 1, TRUE),
      Scene("credentials", "none", Cookie(ann), p1, p1, {"visit", "expire", "login", "signout"}, 4, 0, FALSE),
      Scene("credentials", "none", Cookie(ann), p1, Absent, {"visit", "enter", "create"}, 4, 1, FALSE) }
=============================================================================
