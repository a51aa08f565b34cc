---------------------------- MODULE MCProjectTeam ----------------------------
(* Two admins, an admin and a developer, and an archive amid runs. *)
EXTENDS ProjectTeam, TLC

CONSTANTS ann, bob, cy, m1, m2

Two(r) == [i \in Ids |-> CASE i = m1 -> [user |-> ann, role |-> "admin"]
                           [] i = m2 -> [user |-> bob, role |-> r]
                           [] OTHER  -> Absent]

MCSessions ==
    {[does |-> {"role", "remove", "leave"}, often |-> 4, members |-> Two("admin")],
     [does |-> {"add", "role", "remove", "failure"}, often |-> 3, members |-> Two("developer")],
     [does |-> {"archive", "save", "leave", "link"}, often |-> 4, members |-> Two("developer")],
     [does |-> {"archive", "leave", "link", "failure"}, often |-> 3, members |-> Two("developer")]}

Symm == Permutations(Windows) \cup Permutations(Calls)
=============================================================================
