----------------------------- MODULE AgentGraph -----------------------------
(***************************************************************************)
(* The agent's state graph (Backend/orchestrator/agent/graph.py): one run  *)
(* of a test case, from START to END.  Every node of the graph is one or   *)
(* more actions, and every action also takes the conditional edge that     *)
(* leaves its node, because a node's update and the routing function that  *)
(* reads it run in one superstep of the graph.                             *)
(*                                                                         *)
(* What the LLM answers, what a tool returns, what a snapshot shows and    *)
(* when the wall clock passes the limit are choices of the environment.    *)
(***************************************************************************)
EXTENDS Integers, FiniteSets, ReasonErrors

CONSTANTS
    Tools,            \* names of the tools the LLM may call
    Navigate,         \* the tool named "browser_navigate"
    NoTool,           \* an AIMessage without tool_calls
    Replies,          \* the AIMessages the LLM may answer with
    Checkpoints,      \* the checkpoints of goal.steps are 1..Checkpoints
    MaxSteps,         \* goal.constraints.max_steps
    Window,           \* _REPETITION_WINDOW
    HardLimit,        \* _REPETITION_HARD_LIMIT
    RecursionLimit    \* node executions the graph runtime allows in one run

MaxErrors == 3             \* consecutive tool errors that end a run
AutoCompleteStep == 3      \* first step at which an unguided run may auto-complete
NoCheckpoint == 0

(***************************************************************************)
(* An AIMessage: the tool of tool_calls[0], how many more tool calls it    *)
(* carries, whether a navigation in it leaves the target's domain, and the *)
(* signals in its text.  marks are the checkpoints of "[Sn complete]".     *)
(***************************************************************************)
ReplyType ==
    [tool: Tools \cup {NoTool}, extra: Nat, offSite: BOOLEAN,
     done: BOOLEAN, blocked: BOOLEAN, failed: BOOLEAN, marks: SUBSET Nat]

NoReply == [tool |-> NoTool, extra |-> 0, offSite |-> FALSE,
            done |-> FALSE, blocked |-> FALSE, failed |-> FALSE, marks |-> {}]

ASSUME ToolAssumption == /\ Navigate \in Tools
                         /\ NoTool \notin Tools
ASSUME ReplyAssumption == Replies \subseteq ReplyType
ASSUME BoundAssumption == /\ MaxSteps \in Nat \ {0}
                          /\ Window \in Nat \ {0}
                          /\ HardLimit \in Nat \ {0}
                          /\ Checkpoints \in Nat
                          /\ RecursionLimit \in Nat \ {0}

VARIABLES
    node,               \* the node the graph runs next
    status,             \* AgentState.status
    goalComplete,       \* AgentState.goal_complete
    step,               \* AgentState.step_number
    reply,              \* the last AIMessage in AgentState.messages
    pending,            \* tool calls in messages that have no ToolMessage yet
    guardBlocked,       \* AgentState.guard_blocked
    dropped,            \* history: calls of rejected messages left unanswered
    lastError,          \* AgentState.last_error
    consecutiveErrors,  \* AgentState.consecutive_errors
    completed,          \* AgentState.completed_checkpoints
    current,            \* AgentState.current_checkpoint
    satisfied,          \* page_snapshot holds every text_present assertion
    streak,             \* trailing run of equal tool names in collector.traces
    expired,            \* time.time() - run_start_time >= timeout_seconds
    lateCalls,          \* history: tools executed since the deadline passed
    supersteps          \* node executions so far, counted by the runtime

progress == <<goalComplete, status>>
book     == <<completed, current>>
guard    == <<guardBlocked, dropped>>
vars == <<node, progress, step, reply, pending, guard, lastError,
          consecutiveErrors, book, satisfied, streak, expired, lateCalls,
          supersteps>>

Nodes == {"observe", "reason", "guard_rails", "act", "goal_check",
          "error_handler", "finalize"}
Stops == {"end", "raised"}       \* END, or GraphRecursionError
Verdicts == {"passed", "failed", "errored", "timed_out", "blocked"}

ErrorInfo == [type: {"tool_error", "llm_rate_limit", "llm_auth_error"},
              recoverable: BOOLEAN]

Guided == Checkpoints > 0

TypeOK ==
    /\ node \in Nodes \cup Stops
    /\ status \in Verdicts \cup {"running"}
    /\ goalComplete \in BOOLEAN
    /\ step \in 0..MaxSteps + 1
    /\ reply \in Replies \cup {NoReply}
    /\ pending \in Nat
    /\ guardBlocked \in BOOLEAN
    /\ dropped \in Nat
    /\ lastError \in ErrorInfo \cup {NoError}
    /\ consecutiveErrors \in 0..MaxErrors
    /\ completed \subseteq Nat
    /\ current \in 0..Checkpoints
    /\ satisfied \in BOOLEAN
    /\ streak \in [tool: Tools \cup {NoTool}, count: Nat]
    /\ expired \in BOOLEAN
    /\ lateCalls \in Nat
    /\ supersteps \in 0..RecursionLimit

Init ==
    /\ node = "observe"
    /\ status = "running"
    /\ goalComplete = FALSE
    /\ step = 0
    /\ reply = NoReply
    /\ pending = 0
    /\ guardBlocked = FALSE
    /\ dropped = 0
    /\ lastError = NoError
    /\ consecutiveErrors = 0
    /\ completed = {}
    /\ current = IF Guided THEN 1 ELSE NoCheckpoint
    /\ satisfied = FALSE
    /\ streak = [tool |-> NoTool, count |-> 0]
    /\ expired = FALSE
    /\ lateCalls = 0
    /\ supersteps = 0

-----------------------------------------------------------------------------
(* The conditional edges. *)

\* Operators with a suffix are seeded faults: a property must notice them.
RouteAfterObserve_Forward(complete, st) == "reason"

RouteAfterObserve(complete, st) ==
    IF complete \/ st # "running" THEN "finalize" ELSE "reason"

RouteAfterReason(st, err, rep) ==
    CASE st \in {"timed_out", "errored", "blocked"} -> "goal_check"
      [] st \notin {"timed_out", "errored", "blocked"} /\ err # NoError -> "error_handler"
      [] OTHER -> IF rep.tool # NoTool THEN "guard_rails" ELSE "goal_check"

RouteAfterGuardRails_Ignore(isBlocked) == "act"

RouteAfterGuardRails(isBlocked) == IF isBlocked THEN "observe" ELSE "act"

RouteAfterAct_NoBudget(st, errors) ==
    IF st \in {"timed_out", "errored", "blocked"}
    THEN "error_handler" ELSE "goal_check"

RouteAfterAct(st, errors) ==
    IF st \in {"timed_out", "errored", "blocked"} \/ errors >= MaxErrors
    THEN "error_handler" ELSE "goal_check"

RouteAfterGoalCheck(complete, st) ==
    IF complete \/ st # "running" THEN "finalize" ELSE "observe"

RouteAfterError(st) ==
    IF st \in {"errored", "timed_out", "blocked"} THEN "finalize" ELSE "observe"

\* The runtime executes node n as its next superstep.
Enter(n) ==
    /\ node = n
    /\ supersteps < RecursionLimit
    /\ supersteps' = supersteps + 1

-----------------------------------------------------------------------------
(* OBSERVE: step_number is advanced, the limits are checked, the page is   *)
(* captured.  The clock is read once, when the node starts.                *)

OverLimit_ClockOnly == expired
OverLimit_StepsOnly == step + 1 > MaxSteps
OverLimit_Early == expired \/ step + 1 >= MaxSteps
OverLimit_Late == expired \/ step > MaxSteps

OverLimit == expired \/ step + 1 > MaxSteps

ObserveOverLimit ==
    /\ Enter("observe")
    /\ OverLimit
    /\ step' = step + 1
    /\ status' = "timed_out"
    /\ goalComplete' = TRUE
    /\ node' = RouteAfterObserve(goalComplete', status')
    /\ UNCHANGED <<reply, pending, guard, lastError, consecutiveErrors,
                   book, satisfied, streak, expired, lateCalls>>

ObserveNoSnapshot ==
    /\ Enter("observe")
    /\ ~OverLimit
    /\ step' = step + 1
    /\ status' = "errored"
    /\ goalComplete' = TRUE
    /\ node' = RouteAfterObserve(goalComplete', status')
    /\ UNCHANGED <<reply, pending, guard, lastError, consecutiveErrors,
                   book, satisfied, streak, expired, lateCalls>>

\* An unguided test whose text assertions all hold needs no signal of the LLM.
AutoComplete(n, snapshot) == ~Guided /\ n >= AutoCompleteStep /\ snapshot

ObservePage(snapshot) ==
    /\ Enter("observe")
    /\ ~OverLimit
    /\ step' = step + 1
    /\ satisfied' = snapshot
    /\ status' = IF AutoComplete(step', snapshot) THEN "passed" ELSE status
    /\ goalComplete' = (goalComplete \/ AutoComplete(step', snapshot))
    /\ node' = RouteAfterObserve(goalComplete', status')
    /\ UNCHANGED <<reply, pending, guard, lastError, consecutiveErrors,
                   book, streak, expired, lateCalls>>

-----------------------------------------------------------------------------
(* REASON: the LLM answers, fails for good, or fails after its retries.    *)
(* The retry loop inside the node is the subject of module ReasonRetry.    *)

ReasonReply(r) ==
    /\ Enter("reason")
    /\ reply' = r
    /\ pending' = IF r.tool = NoTool THEN pending ELSE pending + 1 + r.extra
    /\ lastError' = NoError
    /\ node' = RouteAfterReason(status, lastError', reply')
    /\ UNCHANGED <<progress, step, guard, consecutiveErrors, book,
                   satisfied, streak, expired, lateCalls>>

\* Unreachable, unpaid or forbidden: the node itself ends the run.
ReasonFatal ==
    /\ Enter("reason")
    /\ status' = "errored"
    /\ goalComplete' = TRUE
    /\ lastError' = [type |-> "llm_auth_error", recoverable |-> FALSE]
    /\ node' = RouteAfterReason(status', lastError', reply)
    /\ UNCHANGED <<step, reply, pending, guard, consecutiveErrors,
                   book, satisfied, streak, expired, lateCalls>>

ReasonFails(e) ==
    /\ Enter("reason")
    /\ lastError' = e
    /\ node' = RouteAfterReason(status, lastError', reply)
    /\ UNCHANGED <<progress, step, reply, pending, guard,
                   consecutiveErrors, book, satisfied, streak, expired,
                   lateCalls>>

-----------------------------------------------------------------------------
(* GUARD_RAILS: a navigation out of the target's domain is answered by a   *)
(* rejection, for the first tool call of the message only: the others of   *)
(* that message get no ToolMessage, now or later.                          *)

LeavesSite == reply.tool = Navigate /\ reply.offSite

GuardBlock ==
    /\ Enter("guard_rails")
    /\ LeavesSite
    /\ guardBlocked' = TRUE
    /\ pending' = pending - 1
    /\ dropped' = dropped + reply.extra
    /\ node' = RouteAfterGuardRails(guardBlocked')
    /\ UNCHANGED <<progress, step, reply, lastError, consecutiveErrors, book,
                   satisfied, streak, expired, lateCalls>>

GuardPass ==
    /\ Enter("guard_rails")
    /\ ~LeavesSite
    /\ guardBlocked' = FALSE
    /\ node' = RouteAfterGuardRails(guardBlocked')
    /\ UNCHANGED <<progress, step, reply, pending, dropped, lastError,
                   consecutiveErrors, book, satisfied, streak, expired,
                   lateCalls>>

-----------------------------------------------------------------------------
(* ACT: executes the first tool call of the reply, unless the same tool    *)
(* was executed too many times in a row.  on_act names the step's tool in  *)
(* the trace only when the tool is executed, so a skipped call leaves the  *)
(* trailing run of names as it was.                                        *)

ConsecutiveSame == IF streak.tool = reply.tool THEN streak.count ELSE 0

Stuck == ConsecutiveSame >= HardLimit

Repeats_Late ==
    /\ ~Stuck
    /\ ConsecutiveSame > Window
    /\ ConsecutiveSame % Window = 0

Repeats ==
    /\ ~Stuck
    /\ ConsecutiveSame > 0
    /\ ConsecutiveSame % Window = 0

ActStuck ==
    /\ Enter("act")
    /\ Stuck
    /\ status' = "blocked"
    /\ goalComplete' = TRUE
    /\ node' = RouteAfterAct(status', consecutiveErrors)
    /\ UNCHANGED <<step, reply, pending, guard, lastError,
                   consecutiveErrors, book, satisfied, streak, expired,
                   lateCalls>>

AnswerAll_First == pending' = pending - 1

\* Every tool call of the reply is answered by an execution or a "[skipped]".
AnswerAll == pending' = pending - (1 + reply.extra)

ActSkip ==
    /\ Enter("act")
    /\ Repeats
    /\ AnswerAll
    /\ node' = RouteAfterAct(status, consecutiveErrors)
    /\ UNCHANGED <<progress, step, reply, guard, lastError,
                   consecutiveErrors, book, satisfied, streak, expired,
                   lateCalls>>

RecordCall ==
    /\ streak' = [tool |-> reply.tool, count |-> ConsecutiveSame + 1]
    /\ lateCalls' = IF expired THEN lateCalls + 1 ELSE lateCalls

ActSucceeds ==
    /\ Enter("act")
    /\ ~Stuck /\ ~Repeats
    /\ RecordCall
    /\ AnswerAll
    /\ consecutiveErrors' = 0
    /\ node' = RouteAfterAct(status, consecutiveErrors')
    /\ UNCHANGED <<progress, step, reply, guard, lastError, book,
                   satisfied, expired>>

ActFails ==
    /\ Enter("act")
    /\ ~Stuck /\ ~Repeats
    /\ RecordCall
    /\ AnswerAll
    /\ consecutiveErrors' = consecutiveErrors + 1
    /\ lastError' = [type |-> "tool_error",
                     recoverable |-> consecutiveErrors' < MaxErrors]
    /\ node' = RouteAfterAct(status, consecutiveErrors')
    /\ UNCHANGED <<progress, step, reply, guard, book, satisfied,
                   expired>>

-----------------------------------------------------------------------------
(* GOAL_CHECK: the signals in the last reply, in the order the node reads  *)
(* them: completion before blockage before a failed checkpoint.            *)

GoalCheckTerminal ==
    /\ Enter("goal_check")
    /\ status \in {"timed_out", "errored"}
    /\ goalComplete' = TRUE
    /\ node' = RouteAfterGoalCheck(goalComplete', status)
    /\ UNCHANGED <<status, step, reply, pending, guard, lastError,
                   consecutiveErrors, book, satisfied, streak, expired,
                   lateCalls>>

TakeMarks_Forget ==
    LET remaining == (1..Checkpoints) \ reply.marks
    IN  /\ completed' = completed \cup reply.marks
        /\ current' = IF reply.marks = {} \/ ~Guided \/ remaining = {} THEN current
                      ELSE CHOOSE c \in remaining : \A d \in remaining : c <= d

\* completed_checkpoints grows by the marks; current_checkpoint moves to the
\* first checkpoint, in the order of the test case, that is not completed.
TakeMarks ==
    LET remaining == (1..Checkpoints) \ (completed \cup reply.marks)
    IN  /\ completed' = completed \cup reply.marks
        /\ \/ /\ reply.marks = {} \/ ~Guided
              /\ current' = current
           \/ /\ reply.marks # {} /\ Guided /\ remaining = {}
              /\ current' = NoCheckpoint
           \/ /\ reply.marks # {} /\ Guided
              /\ \E c \in remaining : /\ \A d \in remaining : c <= d
                                      /\ current' = c

Signal ==
    IF AutoComplete(step, satisfied) \/ reply.done THEN "passed"
    ELSE IF reply.blocked THEN "blocked"
    ELSE IF Guided /\ reply.failed THEN "failed"
    ELSE "none"

GoalCheckSignal ==
    /\ Enter("goal_check")
    /\ status \notin {"timed_out", "errored"}
    /\ Signal # "none"
    /\ TakeMarks
    /\ status' = Signal
    /\ goalComplete' = TRUE
    /\ node' = RouteAfterGoalCheck(goalComplete', status')
    /\ UNCHANGED <<step, reply, pending, guard, lastError,
                   consecutiveErrors, satisfied, streak, expired, lateCalls>>

GoalCheckContinue ==
    /\ Enter("goal_check")
    /\ status \notin {"timed_out", "errored"}
    /\ Signal = "none"
    /\ TakeMarks
    /\ node' = RouteAfterGoalCheck(goalComplete, status)
    /\ UNCHANGED <<progress, step, reply, pending, guard, lastError,
                   consecutiveErrors, satisfied, streak, expired, lateCalls>>

-----------------------------------------------------------------------------
(* ERROR_HANDLER: ends the run or hands the error back to the LLM as a     *)
(* recovery message.  The reconnection branch is left out: no code of the  *)
(* agent produces an error of type mcp_disconnect.                         *)

FatalError ==
    \/ ~lastError.recoverable
    \/ lastError.type = "llm_auth_error"
    \/ lastError.type = "tool_error" /\ consecutiveErrors >= MaxErrors

HandleNothing ==
    /\ Enter("error_handler")
    /\ lastError = NoError
    /\ node' = RouteAfterError(status)
    /\ UNCHANGED <<progress, step, reply, pending, guard, lastError,
                   consecutiveErrors, book, satisfied, streak, expired,
                   lateCalls>>

HandleFatal ==
    /\ Enter("error_handler")
    /\ lastError # NoError
    /\ FatalError
    /\ status' = "errored"
    /\ goalComplete' = TRUE
    /\ lastError' = NoError
    /\ node' = RouteAfterError(status')
    /\ UNCHANGED <<step, reply, pending, guard, consecutiveErrors,
                   book, satisfied, streak, expired, lateCalls>>

HandleRecoverable ==
    /\ Enter("error_handler")
    /\ lastError # NoError
    /\ ~FatalError
    /\ lastError' = NoError
    /\ node' = RouteAfterError(status)
    /\ UNCHANGED <<progress, step, reply, pending, guard,
                   consecutiveErrors, book, satisfied, streak, expired,
                   lateCalls>>

-----------------------------------------------------------------------------
(* FINALIZE: a passed run with a failed assertion is failed.  An engine    *)
(* that raises leaves no result, hence no failed one.                      *)

Finalize(anyFailed) ==
    /\ Enter("finalize")
    /\ status' = IF status = "passed" /\ anyFailed THEN "failed" ELSE status
    /\ goalComplete' = TRUE
    /\ node' = "end"
    /\ UNCHANGED <<step, reply, pending, guard, lastError,
                   consecutiveErrors, book, satisfied, streak, expired,
                   lateCalls>>

-----------------------------------------------------------------------------
(* The environment of the graph. *)

\* The wall clock passes timeout_seconds; only OBSERVE ever looks at it.
Deadline ==
    /\ node \in Nodes
    /\ ~expired
    /\ expired' = TRUE
    /\ UNCHANGED <<node, progress, step, reply, pending, guard,
                   lastError, consecutiveErrors, book, satisfied, streak,
                   lateCalls, supersteps>>

\* The runtime refuses one node execution too many: ainvoke raises.
ExceedRecursion ==
    /\ node \in Nodes
    /\ supersteps = RecursionLimit
    /\ node' = "raised"
    /\ UNCHANGED <<progress, step, reply, pending, guard, lastError,
                   consecutiveErrors, book, satisfied, streak, expired,
                   lateCalls, supersteps>>

Observe == \/ ObserveOverLimit
           \/ ObserveNoSnapshot
           \/ \E snapshot \in BOOLEAN : ObservePage(snapshot)
Reason == \/ \E r \in Replies : ReasonReply(r)
          \/ ReasonFatal
          \/ \E e \in LlmErrors : ReasonFails(e)
GuardRails == GuardBlock \/ GuardPass
Act == ActStuck \/ ActSkip \/ ActSucceeds \/ ActFails
GoalCheck == GoalCheckTerminal \/ GoalCheckSignal \/ GoalCheckContinue
ErrorHandler == HandleNothing \/ HandleFatal \/ HandleRecoverable
FinalizeRun == \E anyFailed \in BOOLEAN : Finalize(anyFailed)

Step == \/ Observe \/ Reason \/ GuardRails \/ Act \/ GoalCheck
        \/ ErrorHandler \/ FinalizeRun \/ ExceedRecursion

Finished == node \in Stops /\ UNCHANGED vars

Next == Step \/ Deadline \/ Finished

Spec == Init /\ [][Next]_vars

\* ainvoke runs node after node; no node waits for anything but its own calls.
FairSpec == Spec /\ WF_vars(Step)
-----------------------------------------------------------------------------
(* Correctness. *)

\* Three tool errors in a row end the run: the count never passes the limit,
\* and once it is reached no node that could act or ask the LLM runs again and
\* the run can only end as errored (act.py consecutive_errors, route_after_act,
\* error_handler).
ErrorBudget ==
    /\ consecutiveErrors <= MaxErrors
    /\ consecutiveErrors = MaxErrors =>
          /\ node \in {"error_handler", "finalize"} \cup Stops
          /\ node \in {"finalize", "end"} => status = "errored"

\* The graph stops by itself within five node executions per step and two more,
\* so a runtime limit of at least that many is never what ends a run
\* (graph.py edges, observe.py max_steps).
NeverRaised == RecursionLimit >= 5 * MaxSteps + 2 => node # "raised"

\* The trailing run of executions of one tool never grows past the repetition
\* window, however the LLM insists (act.py repetition detection).
RepetitionBounded == streak.count <= Window

\* ERROR_HANDLER is entered with an error to handle; the node's own comment
\* says the contrary "shouldn't happen" (error_handler.py).
ErrorHandlerHasError == node = "error_handler" => lastError # NoError

\* A run ends with a verdict, and the verdict has its evidence in the state the
\* run ends in: a signal of the last reply, the limits, or the page.
VerdictBacked ==
    node = "end" =>
      /\ status # "running" /\ goalComplete
      /\ status \in {"passed", "failed"} =>
            \/ reply.done
            \/ AutoComplete(step, satisfied)
            \/ status = "failed" /\ Guided /\ reply.failed
      /\ status = "blocked" => reply.blocked \/ streak.count >= HardLimit
      /\ status = "timed_out" => expired \/ step = MaxSteps + 1

\* The deadline is checked once per step only, yet at most one tool is executed
\* after it has passed (observe.py timeout check, act.py).
LateWorkBounded == lateCalls <= 1

\* No navigation that leaves the target's domain reaches ACT (guard_rails.py).
ActStaysOnSite == node = "act" => ~LeavesSite

\* Whenever the LLM is asked, the tool calls without a ToolMessage are, to the
\* number, those GUARD_RAILS left in the messages it rejected; ACT answers every
\* call of every message that reaches it, also of one it skips (act.py:97-113,
\* 167-176).  act.py:167-169 wants none left ("OpenAI rejects any AIMessage whose
\* tool_calls lack matching results"); guard_rails.py:57 answers only the first
\* call of a message, so a rejected one with several breaks that, and dropped
\* counts by how much.
OnlyRejectedStayOpen == node = "reason" => pending = dropped

\* current_checkpoint is the first checkpoint of the test case that is not
\* completed, in whatever order and number the LLM marks them (goal_check.py).
CurrentIsFirstOpen ==
    Guided => LET open == (1..Checkpoints) \ completed
              IN  /\ current = NoCheckpoint <=> open = {}
                  /\ open # {} => /\ current \in open
                                  /\ \A c \in open : current <= c

\* Everything a run is limited in, together: how often a tool may fail in a row,
\* how often one may be repeated, what is still executed after the deadline, and
\* how many node executions the runtime must allow (act.py, observe.py, graph.py).
Limits ==
    /\ ErrorBudget
    /\ NeverRaised
    /\ RepetitionBounded
    /\ LateWorkBounded

\* What the nodes hand to each other stays consistent: the errors, the rejected
\* navigations, the answers to tool calls and the checkpoints (error_handler.py,
\* guard_rails.py, act.py, goal_check.py).
Bookkeeping ==
    /\ TypeOK
    /\ ErrorHandlerHasError
    /\ ActStaysOnSite
    /\ OnlyRejectedStayOpen
    /\ CurrentIsFirstOpen

\* Every run reaches END and so reports, when the runtime allows the node
\* executions that NeverRaised needs (graph.py, run_manager.py ainvoke).
Reported == <>(node = "end")

\* What the graph promises its caller, seen from outside.
Stage == CASE node = "end" -> "reported"
           [] node = "raised" -> "aborted"
           [] node \in Nodes /\ status = "running" -> "running"
           [] OTHER -> "decided"

RV == INSTANCE RunVerdict WITH verdict <- status, stage <- Stage

\* A run decides its verdict once; afterwards only FINALIZE may change it, and
\* only from passed to failed (goal_check.py, finalize.py).
ImplementsRunVerdict == RV!Spec
=============================================================================
