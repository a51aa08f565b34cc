----------------------------- MODULE RunVerdict -----------------------------
(***************************************************************************)
(* What a run of the agent promises to RunManager: while it is running it  *)
(* has no verdict, it takes one verdict, and it reports that verdict once, *)
(* turning a pass into a failure when an assertion of the test case failed *)
(* and changing nothing else.  A run the graph runtime gives up on is      *)
(* aborted and reports nothing.                                            *)
(***************************************************************************)
VARIABLES verdict, stage

vars == <<verdict, stage>>

Verdicts == {"passed", "failed", "errored", "timed_out", "blocked"}

Init == verdict = "running" /\ stage = "running"

Decide == /\ stage = "running"
          /\ stage' = "decided"
          /\ verdict' \in Verdicts

Report == /\ stage = "decided"
          /\ stage' = "reported"
          /\ verdict' \in IF verdict = "passed" THEN {"passed", "failed"}
                                                ELSE {verdict}

Abort == /\ stage \in {"running", "decided"}
         /\ stage' = "aborted"
         /\ UNCHANGED verdict

Next == Decide \/ Report \/ Abort

Spec == Init /\ [][Next]_vars
=============================================================================
