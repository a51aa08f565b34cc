--------------------------- MODULE MCSettingsLists ---------------------------
(* One table with rows to a session. *)
EXTENDS SettingsLists, TLC

CONSTANTS i1, i2, k1

Holds(t, a, b) == [None EXCEPT ![t][i1] = a, ![t][i2] = b]

MCSessions ==
    {[does |-> {"org"}, often |-> 5, tables |-> Holds("people", "owner", "admin")],
     [does |-> {"org", "account", "failure"}, often |-> 3, tables |-> Holds("people", "owner", "developer")],
     [does |-> {"vault", "failure"}, often |-> 4, tables |-> Holds("secrets", k1, Absent)],
     [does |-> {"envs"}, often |-> 5, tables |-> Holds("envs", "default", "plain")],
     [does |-> {"baselines"}, often |-> 5, tables |-> Holds("shots", "pending_review", "pending_review")]}

Symm == Permutations(Windows) \cup Permutations(Calls)
=============================================================================
