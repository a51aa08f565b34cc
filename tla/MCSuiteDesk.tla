----------------------------- MODULE MCSuiteDesk -----------------------------
(* Sets of dialogs a user works with, and what may be exchanged. *)
EXTENDS SuiteDesk, TLC

CONSTANTS s1, s2

MCSessions ==
    {[does |-> {"create", "delete"}, has |-> {s1}, often |-> 3],
     [does |-> {"manage", "move"}, has |-> {s1, s2}, often |-> 2],
     [does |-> {"manage", "tab"}, has |-> {s1, s2}, often |-> 2],
     [does |-> {"run", "trigger"}, has |-> {s1}, often |-> 3]}

Symm == Permutations(Cases) \cup Permutations(Loads) \cup Permutations(Triggers)
=============================================================================
