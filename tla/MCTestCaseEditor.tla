--------------------------- MODULE MCTestCaseEditor ---------------------------
(* One test case that was imported with other numbers and a header without *)
(* a name, and an unused id.                                               *)
EXTENDS TestCaseEditor, TLC

CONSTANTS c1, c2, home, words

MCStored == [c \in Cases |-> IF c = c1
    THEN [version |-> 1, doc |-> [name |-> home, settings |-> Default, headers |-> Incomplete,
                                  url |-> home, goal |-> words, steps |-> <<Step(7, words)>>]]
    ELSE Absent]

MCSessions ==
    {[does |-> {"headers", "run"}, opens |-> {c1}, edits |-> 2, writes |-> 2],
     [does |-> {"labels", "target", "limits", "capture", "context", "name"}, opens |-> {c1}, edits |-> 2, writes |-> 2],
     [does |-> {"url", "verify"}, opens |-> {c1}, edits |-> 1, writes |-> 1],
     [does |-> {"goal", "steps"}, opens |-> {c1}, edits |-> 3, writes |-> 2],
     [does |-> {"name", "url", "goal", "steps"}, opens |-> {Absent}, edits |-> 6, writes |-> 2]}

Symm == Permutations(Editors)
=============================================================================
