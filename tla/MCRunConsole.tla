---------------------------- MODULE MCRunConsole ----------------------------
(* Two runs of one project, one of another, and what one user may do. *)
EXTENDS RunConsole

CONSTANTS r1, r2, r3, p1, p2

HomeDef == (r1 :> p1) @@ (r2 :> p1) @@ (r3 :> p2)

Session(a, b, c, from, does, n, m) ==
    [runs |-> (r1 :> a) @@ (r2 :> b) @@ (r3 :> c), store |-> from, does |-> does,
     visits |-> n, fails |-> m]

SessionsDef ==
    { Session("none", "active", "failed", p1, {"enter", "board"}, 2, 1),
      Session("passed", "failed", "none", p1, {"board", "list", "filter", "turn", "delete"}, 2, 0),
      Session("none", "deleted", "deleted", p1, {"cases", "launch"}, 3, 0),
      Session("none", "none", "none", p2, {"live", "new", "launch"}, 2, 1),
      Session("active", "none", "none", p1, {"board", "row", "select", "abort"}, 3, 0),
      Session("failed", "passed", "none", p1, {"list", "row", "cases", "archive"}, 3, 0),
      Session("failed", "failed", "passed", p1, {"notes", "settings", "prefs"}, 3, 0) }
=============================================================================
