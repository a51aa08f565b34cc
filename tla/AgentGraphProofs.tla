-------------------------- MODULE AgentGraphProofs --------------------------
(***************************************************************************)
(* The safety properties of AgentGraph for every number of steps, tools,   *)
(* checkpoints and replies and for every repetition window and limit.      *)
(*                                                                         *)
(* None of the properties is inductive: whether ACT may run again, what an *)
(* error means and how many node executions are left all depend on the     *)
(* node the graph is at.  IInv says, node by node, what the earlier nodes  *)
(* have left behind.                                                       *)
(*                                                                         *)
(* Two parts of the same run follow: the retry loop inside REASON, and the *)
(* stream that tells its page what became of it.                           *)
(***************************************************************************)
EXTENDS AgentGraph, ReasonRetry, LiveStream, SequenceTheorems, TLAPS

Working == {"observe", "reason", "guard_rails", "act"}
Over == {"finalize"} \cup Stops

\* A verdict is taken only where the run is about to end.
StatusInv ==
    /\ node \in Working => status = "running" /\ ~goalComplete
    /\ node = "goal_check" => \/ status = "running" /\ ~goalComplete
                              \/ status = "errored"
    /\ node = "error_handler" => \/ status = "running" /\ ~goalComplete
                                 \/ /\ status = "blocked" /\ goalComplete
                                    /\ lastError = NoError
                                    /\ HardLimit <= Window
    /\ node \in {"finalize", "end"} => status # "running" /\ goalComplete

\* The nodes after REASON have a tool call to deal with and no error.
CallInv ==
    node \in {"guard_rails", "act"} =>
        /\ reply.tool # NoTool
        /\ pending >= 1 + reply.extra
        /\ lastError = NoError
        /\ node = "act" => ~LeavesSite

\* The third tool error in a row goes to ERROR_HANDLER as a fatal one.
ErrorInv ==
    /\ consecutiveErrors = MaxErrors =>
          /\ node \in {"error_handler"} \cup Over
          /\ node = "error_handler" =>
                lastError = [type |-> "tool_error", recoverable |-> FALSE]
          /\ node \in {"finalize", "end"} => status = "errored"
    /\ node = "error_handler" => lastError # NoError \/ status = "blocked"

\* Five node executions per step at the most.
StepInv ==
    /\ node = "observe" => step <= MaxSteps /\ supersteps <= 5 * step
    /\ node = "reason" => step <= MaxSteps /\ supersteps <= 5 * step - 4
    /\ node = "guard_rails" => step <= MaxSteps /\ supersteps <= 5 * step - 3
    /\ node = "act" => step <= MaxSteps /\ supersteps <= 5 * step - 2
    /\ node \in {"goal_check", "error_handler"} =>
          step <= MaxSteps /\ supersteps <= 5 * step - 1
    /\ node = "finalize" => supersteps <= 5 * MaxSteps + 1
    /\ NeverRaised

\* Nothing is executed twice after the deadline, because OBSERVE comes between.
LateInv ==
    /\ ~expired => lateCalls = 0
    /\ node \in {"reason", "guard_rails", "act"} => lateCalls = 0
    /\ lateCalls <= 1

\* What justifies a verdict does not change once the verdict is taken.
EvidenceInv ==
    /\ status \in {"passed", "failed"} =>
          \/ reply.done
          \/ AutoComplete(step, satisfied)
          \/ status = "failed" /\ Guided /\ reply.failed
    /\ status = "blocked" => reply.blocked \/ streak.count >= HardLimit
    /\ status = "timed_out" => expired \/ step = MaxSteps + 1

IInv == /\ TypeOK
        /\ StatusInv
        /\ CallInv
        /\ ErrorInv
        /\ StepInv
        /\ LateInv
        /\ EvidenceInv
        /\ RepetitionBounded

-----------------------------------------------------------------------------
LEMMA ReplyIsReply == TypeOK => reply \in ReplyType
<1>1. NoReply \in ReplyType
  BY DEF NoReply, ReplyType
<1> QED
  BY <1>1, ReplyAssumption DEF TypeOK

LEMMA LlmErrorsAreErrors == LlmErrors \subseteq ErrorInfo
BY DEF LlmErrors, ErrorInfo

LEMMA InitIInv == Init => IInv
<1> SUFFICES ASSUME Init PROVE IInv
  OBVIOUS
<1> USE BoundAssumption DEF Init, Nodes, Stops, Working, Over, MaxErrors,
                            NoCheckpoint
<1>1. TypeOK
  <2>1. current \in 0..Checkpoints
    BY DEF Guided
  <2>2. streak \in [tool: Tools \cup {NoTool}, count: Nat]
    OBVIOUS
  <2>3. /\ node \in Nodes \cup Stops
        /\ status \in Verdicts \cup {"running"}
        /\ reply \in Replies \cup {NoReply}
        /\ lastError \in ErrorInfo \cup {NoError}
        /\ goalComplete \in BOOLEAN /\ guardBlocked \in BOOLEAN
        /\ satisfied \in BOOLEAN /\ expired \in BOOLEAN
    OBVIOUS
  <2>4. /\ step \in 0..MaxSteps + 1
        /\ pending \in Nat /\ dropped \in Nat /\ lateCalls \in Nat
        /\ consecutiveErrors \in 0..MaxErrors
        /\ completed \subseteq Nat
        /\ supersteps \in 0..RecursionLimit
    OBVIOUS
  <2> QED
    BY <2>1, <2>2, <2>3, <2>4 DEF TypeOK
<1>2. StatusInv /\ CallInv /\ ErrorInv
  BY DEF StatusInv, CallInv, ErrorInv
<1>3. StepInv /\ LateInv
  BY DEF StepInv, LateInv, NeverRaised
<1>4. EvidenceInv /\ RepetitionBounded
  BY DEF EvidenceInv, RepetitionBounded
<1> QED
  BY <1>1, <1>2, <1>3, <1>4 DEF IInv

\* A tool that is executed was executed fewer than Window times in a row.
LEMMA RoomInWindow ==
    IInv /\ ~Stuck /\ ~Repeats => ConsecutiveSame \in Nat /\ ConsecutiveSame < Window
<1> SUFFICES ASSUME IInv, ~Stuck, ~Repeats
             PROVE  ConsecutiveSame \in Nat /\ ConsecutiveSame < Window
  OBVIOUS
<1>1. ConsecutiveSame \in 0..Window
  BY BoundAssumption DEF IInv, TypeOK, RepetitionBounded, ConsecutiveSame
<1>2. Window % Window = 0
  BY BoundAssumption
<1>3. ConsecutiveSame # Window
  BY <1>2, BoundAssumption DEF Stuck, Repeats
<1> QED
  BY <1>1, <1>3, BoundAssumption

LEMMA StepIInv == IInv /\ [Next]_vars => IInv'
<1> SUFFICES ASSUME IInv, [Next]_vars PROVE IInv'
  OBVIOUS
<1> USE BoundAssumption, ToolAssumption
    DEF IInv, Enter, progress, book, guard, Nodes, Stops, Working, Over, MaxErrors
<1>r. reply \in ReplyType
  BY ReplyIsReply
<1>s. \A r \in Replies : r \in ReplyType
  BY ReplyAssumption
<1>1. ASSUME ObserveOverLimit PROVE IInv'
  BY <1>1, <1>r
  DEF ObserveOverLimit, OverLimit, RouteAfterObserve, TypeOK, StatusInv, CallInv, ErrorInv, StepInv, LateInv,
     EvidenceInv, RepetitionBounded, NeverRaised, ReplyType, NoError, ErrorInfo,
     Verdicts
<1>2. ASSUME ObserveNoSnapshot PROVE IInv'
  BY <1>2, <1>r
  DEF ObserveNoSnapshot, OverLimit, RouteAfterObserve, TypeOK, StatusInv, CallInv, ErrorInv, StepInv, LateInv,
     EvidenceInv, RepetitionBounded, NeverRaised, ReplyType, NoError, ErrorInfo,
     Verdicts
<1>3. ASSUME NEW snapshot \in BOOLEAN, ObservePage(snapshot) PROVE IInv'
  BY <1>3, <1>r
  DEF ObservePage, OverLimit, RouteAfterObserve, AutoComplete, TypeOK, StatusInv, CallInv, ErrorInv, StepInv, LateInv,
     EvidenceInv, RepetitionBounded, NeverRaised, ReplyType, NoError, ErrorInfo,
     Verdicts
<1>4. ASSUME NEW r \in Replies, ReasonReply(r) PROVE IInv'
  <2>1. TypeOK'
    BY <1>4, <1>r, <1>s DEF ReasonReply, RouteAfterReason, NoError, TypeOK, ReplyType
  <2>2. StatusInv'
    BY <1>4, <1>r, <1>s DEF ReasonReply, RouteAfterReason, NoError, StatusInv, TypeOK, CallInv, ErrorInv, RepetitionBounded
  <2>3. CallInv'
    BY <1>4, <1>r, <1>s DEF ReasonReply, RouteAfterReason, NoError, CallInv, LeavesSite, ReplyType, TypeOK, StatusInv
  <2>4. ErrorInv'
    BY <1>4, <1>r, <1>s DEF ReasonReply, RouteAfterReason, NoError, ErrorInv, NoError, ErrorInfo, TypeOK, StatusInv, CallInv
  <2>5. StepInv'
    BY <1>4, <1>r, <1>s DEF ReasonReply, RouteAfterReason, NoError, StepInv, NeverRaised, TypeOK, StatusInv
  <2>6. LateInv'
    BY <1>4, <1>r, <1>s DEF ReasonReply, RouteAfterReason, NoError, LateInv, TypeOK
  <2>7. EvidenceInv'
    BY <1>4, <1>r, <1>s DEF ReasonReply, RouteAfterReason, NoError, EvidenceInv, AutoComplete, Guided, TypeOK, StatusInv
  <2>8. RepetitionBounded'
    BY <1>4, <1>r, <1>s DEF ReasonReply, RouteAfterReason, NoError, RepetitionBounded, TypeOK
  <2> QED
    BY <2>1, <2>2, <2>3, <2>4, <2>5, <2>6, <2>7, <2>8
<1>5. ASSUME ReasonFatal PROVE IInv'
  BY <1>5, <1>r
  DEF ReasonFatal, RouteAfterReason, NoError, TypeOK, StatusInv, CallInv, ErrorInv, StepInv, LateInv,
     EvidenceInv, RepetitionBounded, NeverRaised, ReplyType, NoError, ErrorInfo,
     Verdicts
<1>6. ASSUME NEW e \in LlmErrors, ReasonFails(e) PROVE IInv'
  <2>1. TypeOK'
    <3>1. lastError' \in ErrorInfo
      BY <1>6, LlmErrorsAreErrors DEF ReasonFails
    <3> QED
      BY <1>6, <3>1 DEF ReasonFails, RouteAfterReason, TypeOK
  <2>2. StatusInv'
    BY <1>6, <1>r DEF ReasonFails, RouteAfterReason, LlmErrors, NoError, StatusInv, TypeOK, CallInv, ErrorInv, RepetitionBounded
  <2>3. CallInv'
    BY <1>6, <1>r DEF ReasonFails, RouteAfterReason, LlmErrors, NoError, CallInv, LeavesSite, ReplyType, TypeOK, StatusInv
  <2>4. ErrorInv'
    BY <1>6, <1>r DEF ReasonFails, RouteAfterReason, LlmErrors, NoError, ErrorInv, NoError, ErrorInfo, TypeOK, StatusInv, CallInv
  <2>5. StepInv'
    BY <1>6, <1>r DEF ReasonFails, RouteAfterReason, LlmErrors, NoError, StepInv, NeverRaised, TypeOK, StatusInv
  <2>6. LateInv'
    BY <1>6, <1>r DEF ReasonFails, RouteAfterReason, LlmErrors, NoError, LateInv, TypeOK
  <2>7. EvidenceInv'
    BY <1>6, <1>r DEF ReasonFails, RouteAfterReason, LlmErrors, NoError, EvidenceInv, AutoComplete, Guided, TypeOK, StatusInv
  <2>8. RepetitionBounded'
    BY <1>6, <1>r DEF ReasonFails, RouteAfterReason, LlmErrors, NoError, RepetitionBounded, TypeOK
  <2> QED
    BY <2>1, <2>2, <2>3, <2>4, <2>5, <2>6, <2>7, <2>8
<1>7. ASSUME GuardBlock PROVE IInv'
  BY <1>7, <1>r
  DEF GuardBlock, RouteAfterGuardRails, TypeOK, StatusInv, CallInv, ErrorInv, StepInv, LateInv,
     EvidenceInv, RepetitionBounded, NeverRaised, ReplyType, NoError, ErrorInfo,
     Verdicts
<1>8. ASSUME GuardPass PROVE IInv'
  <2>1. TypeOK'
    <3>1. guardBlocked' \in BOOLEAN
      BY <1>8, Zenon DEF GuardPass
    <3>2. node' = "act"
      BY <1>8, Zenon DEF GuardPass, RouteAfterGuardRails
    <3>3. supersteps' \in 0..RecursionLimit
      BY <1>8 DEF GuardPass, TypeOK
    <3> QED
      BY <1>8, <3>1, <3>2, <3>3 DEF GuardPass, TypeOK
  <2>2. StatusInv'
    BY <1>8, <1>r DEF GuardPass, RouteAfterGuardRails, StatusInv, TypeOK, CallInv, ErrorInv, RepetitionBounded
  <2>3. CallInv'
    BY <1>8, <1>r DEF GuardPass, RouteAfterGuardRails, CallInv, LeavesSite, ReplyType, TypeOK, StatusInv
  <2>4. ErrorInv'
    BY <1>8, <1>r DEF GuardPass, RouteAfterGuardRails, ErrorInv, NoError, ErrorInfo, TypeOK, StatusInv, CallInv
  <2>5. StepInv'
    BY <1>8, <1>r DEF GuardPass, RouteAfterGuardRails, StepInv, NeverRaised, TypeOK, StatusInv
  <2>6. LateInv'
    BY <1>8, <1>r DEF GuardPass, RouteAfterGuardRails, LateInv, TypeOK
  <2>7. EvidenceInv'
    BY <1>8, <1>r DEF GuardPass, RouteAfterGuardRails, EvidenceInv, AutoComplete, Guided, TypeOK, StatusInv
  <2>8. RepetitionBounded'
    BY <1>8, <1>r DEF GuardPass, RouteAfterGuardRails, RepetitionBounded, TypeOK
  <2> QED
    BY <2>1, <2>2, <2>3, <2>4, <2>5, <2>6, <2>7, <2>8
<1>9. ASSUME ActStuck PROVE IInv'
  BY <1>9, <1>r
  DEF ActStuck, RouteAfterAct, Stuck, ConsecutiveSame, TypeOK, StatusInv, CallInv, ErrorInv, StepInv, LateInv,
     EvidenceInv, RepetitionBounded, NeverRaised, ReplyType, NoError, ErrorInfo,
     Verdicts
<1>10. ASSUME ActSkip PROVE IInv'
  BY <1>10, <1>r
  DEF ActSkip, RouteAfterAct, AnswerAll, TypeOK, StatusInv, CallInv, ErrorInv, StepInv, LateInv,
     EvidenceInv, RepetitionBounded, NeverRaised, ReplyType, NoError, ErrorInfo,
     Verdicts
<1>11. ASSUME ActSucceeds PROVE IInv'
  <2>w. ConsecutiveSame \in Nat /\ ConsecutiveSame < Window
    BY <1>11, RoomInWindow DEF ActSucceeds
  <2>1. TypeOK'
    BY <1>11, <1>r, <2>w DEF ActSucceeds, RouteAfterAct, AnswerAll, RecordCall, TypeOK, ReplyType, CallInv
  <2>2. StatusInv'
    BY <1>11, <1>r, <2>w DEF ActSucceeds, RouteAfterAct, AnswerAll, RecordCall, StatusInv, TypeOK, CallInv, ErrorInv, RepetitionBounded
  <2>3. CallInv'
    BY <1>11, <1>r, <2>w DEF ActSucceeds, RouteAfterAct, AnswerAll, RecordCall, CallInv, LeavesSite, ReplyType, TypeOK, StatusInv
  <2>4. ErrorInv'
    BY <1>11, <1>r, <2>w DEF ActSucceeds, RouteAfterAct, AnswerAll, RecordCall, ErrorInv, NoError, ErrorInfo, TypeOK, StatusInv, CallInv
  <2>5. StepInv'
    BY <1>11, <1>r, <2>w DEF ActSucceeds, RouteAfterAct, AnswerAll, RecordCall, StepInv, NeverRaised, TypeOK, StatusInv
  <2>6. LateInv'
    BY <1>11, <1>r, <2>w DEF ActSucceeds, RouteAfterAct, AnswerAll, RecordCall, LateInv, TypeOK
  <2>7. EvidenceInv'
    BY <1>11, <1>r, <2>w DEF ActSucceeds, RouteAfterAct, AnswerAll, RecordCall, EvidenceInv, AutoComplete, Guided, TypeOK, StatusInv
  <2>8. RepetitionBounded'
    BY <1>11, <1>r, <2>w DEF ActSucceeds, RouteAfterAct, AnswerAll, RecordCall, RepetitionBounded, TypeOK
  <2> QED
    BY <2>1, <2>2, <2>3, <2>4, <2>5, <2>6, <2>7, <2>8
<1>12. ASSUME ActFails PROVE IInv'
  <2>w. ConsecutiveSame \in Nat /\ ConsecutiveSame < Window
    BY <1>12, RoomInWindow DEF ActFails
  <2>1. TypeOK'
    BY <1>12, <1>r, <2>w DEF ActFails, RouteAfterAct, AnswerAll, RecordCall, TypeOK, ReplyType, ErrorInfo, CallInv, ErrorInv
  <2>2. StatusInv'
    BY <1>12, <1>r, <2>w DEF ActFails, RouteAfterAct, AnswerAll, RecordCall, StatusInv, TypeOK, CallInv, ErrorInv, RepetitionBounded
  <2>3. CallInv'
    BY <1>12, <1>r, <2>w DEF ActFails, RouteAfterAct, AnswerAll, RecordCall, CallInv, LeavesSite, ReplyType, TypeOK, StatusInv
  <2>4. ErrorInv'
    <3>1. lastError' # NoError
      BY <1>12 DEF ActFails, NoError
    <3>2. ASSUME consecutiveErrors' = MaxErrors
          PROVE  /\ lastError' = [type |-> "tool_error", recoverable |-> FALSE]
                 /\ node' = "error_handler"
      <4>1. (consecutiveErrors' < MaxErrors) = FALSE
        BY <3>2
      <4>2. lastError' = [type |-> "tool_error", recoverable |-> FALSE]
        BY <1>12, <4>1, Zenon DEF ActFails
      <4>3. node' = "error_handler"
        BY <1>12, <3>2 DEF ActFails, RouteAfterAct
      <4> QED
        BY <4>2, <4>3
    <3> QED
      BY <3>1, <3>2 DEF ErrorInv
  <2>5. StepInv'
    BY <1>12, <1>r, <2>w DEF ActFails, RouteAfterAct, AnswerAll, RecordCall, StepInv, NeverRaised, TypeOK, StatusInv
  <2>6. LateInv'
    BY <1>12, <1>r, <2>w DEF ActFails, RouteAfterAct, AnswerAll, RecordCall, LateInv, TypeOK
  <2>7. EvidenceInv'
    BY <1>12, <1>r, <2>w DEF ActFails, RouteAfterAct, AnswerAll, RecordCall, EvidenceInv, AutoComplete, Guided, TypeOK, StatusInv
  <2>8. RepetitionBounded'
    BY <1>12, <1>r, <2>w DEF ActFails, RouteAfterAct, AnswerAll, RecordCall, RepetitionBounded, TypeOK
  <2> QED
    BY <2>1, <2>2, <2>3, <2>4, <2>5, <2>6, <2>7, <2>8
<1>13. ASSUME GoalCheckTerminal PROVE IInv'
  BY <1>13, <1>r
  DEF GoalCheckTerminal, RouteAfterGoalCheck, TypeOK, StatusInv, CallInv, ErrorInv, StepInv, LateInv,
     EvidenceInv, RepetitionBounded, NeverRaised, ReplyType, NoError, ErrorInfo,
     Verdicts
<1>14. ASSUME GoalCheckSignal PROVE IInv'
  <2>1. TypeOK'
    <3>1. completed' \subseteq Nat
      BY <1>14, <1>r DEF GoalCheckSignal, TakeMarks, TypeOK, ReplyType
    <3>2. current' \in 0..Checkpoints
      BY <1>14 DEF GoalCheckSignal, TakeMarks, TypeOK, NoCheckpoint
    <3>3. status' \in Verdicts \cup {"running"}
      BY <1>14 DEF GoalCheckSignal, Signal, TypeOK, Verdicts
    <3>4. node' \in Nodes \cup Stops /\ supersteps' \in 0..RecursionLimit
      BY <1>14 DEF GoalCheckSignal, RouteAfterGoalCheck, TypeOK
    <3> QED
      BY <1>14, <3>1, <3>2, <3>3, <3>4 DEF GoalCheckSignal, TypeOK
  <2>2. StatusInv'
    BY <1>14, <1>r DEF GoalCheckSignal, RouteAfterGoalCheck, Signal, TakeMarks, StatusInv, TypeOK, CallInv, ErrorInv, RepetitionBounded
  <2>3. CallInv'
    BY <1>14, <1>r DEF GoalCheckSignal, RouteAfterGoalCheck, Signal, TakeMarks, CallInv, LeavesSite, ReplyType, TypeOK, StatusInv
  <2>4. ErrorInv'
    BY <1>14, <1>r DEF GoalCheckSignal, RouteAfterGoalCheck, Signal, TakeMarks, ErrorInv, NoError, ErrorInfo, TypeOK, StatusInv, CallInv
  <2>5. StepInv'
    BY <1>14, <1>r DEF GoalCheckSignal, RouteAfterGoalCheck, Signal, TakeMarks, StepInv, NeverRaised, TypeOK, StatusInv
  <2>6. LateInv'
    BY <1>14, <1>r DEF GoalCheckSignal, RouteAfterGoalCheck, Signal, TakeMarks, LateInv, TypeOK
  <2>7. EvidenceInv'
    BY <1>14, <1>r DEF GoalCheckSignal, RouteAfterGoalCheck, Signal, TakeMarks, EvidenceInv, AutoComplete, Guided, TypeOK, StatusInv
  <2>8. RepetitionBounded'
    BY <1>14, <1>r DEF GoalCheckSignal, RouteAfterGoalCheck, Signal, TakeMarks, RepetitionBounded, TypeOK
  <2> QED
    BY <2>1, <2>2, <2>3, <2>4, <2>5, <2>6, <2>7, <2>8
<1>15. ASSUME GoalCheckContinue PROVE IInv'
  <2>1. TypeOK'
    <3>1. completed' \subseteq Nat
      BY <1>15, <1>r DEF GoalCheckContinue, TakeMarks, TypeOK, ReplyType
    <3>2. current' \in 0..Checkpoints
      BY <1>15 DEF GoalCheckContinue, TakeMarks, TypeOK, NoCheckpoint
    <3>3. status' \in Verdicts \cup {"running"}
      BY <1>15 DEF GoalCheckContinue, Signal, TypeOK, Verdicts
    <3>4. node' \in Nodes \cup Stops /\ supersteps' \in 0..RecursionLimit
      BY <1>15 DEF GoalCheckContinue, RouteAfterGoalCheck, TypeOK
    <3> QED
      BY <1>15, <3>1, <3>2, <3>3, <3>4 DEF GoalCheckContinue, TypeOK
  <2>2. StatusInv'
    BY <1>15, <1>r DEF GoalCheckContinue, RouteAfterGoalCheck, TakeMarks, StatusInv, TypeOK, CallInv, ErrorInv, RepetitionBounded
  <2>3. CallInv'
    BY <1>15, <1>r DEF GoalCheckContinue, RouteAfterGoalCheck, TakeMarks, CallInv, LeavesSite, ReplyType, TypeOK, StatusInv
  <2>4. ErrorInv'
    BY <1>15, <1>r DEF GoalCheckContinue, RouteAfterGoalCheck, TakeMarks, ErrorInv, NoError, ErrorInfo, TypeOK, StatusInv, CallInv
  <2>5. StepInv'
    BY <1>15, <1>r DEF GoalCheckContinue, RouteAfterGoalCheck, TakeMarks, StepInv, NeverRaised, TypeOK, StatusInv
  <2>6. LateInv'
    BY <1>15, <1>r DEF GoalCheckContinue, RouteAfterGoalCheck, TakeMarks, LateInv, TypeOK
  <2>7. EvidenceInv'
    BY <1>15, <1>r DEF GoalCheckContinue, RouteAfterGoalCheck, TakeMarks, EvidenceInv, AutoComplete, Guided, TypeOK, StatusInv
  <2>8. RepetitionBounded'
    BY <1>15, <1>r DEF GoalCheckContinue, RouteAfterGoalCheck, TakeMarks, RepetitionBounded, TypeOK
  <2> QED
    BY <2>1, <2>2, <2>3, <2>4, <2>5, <2>6, <2>7, <2>8
<1>16. ASSUME HandleNothing PROVE IInv'
  BY <1>16, <1>r
  DEF HandleNothing, RouteAfterError, TypeOK, StatusInv, CallInv, ErrorInv, StepInv, LateInv,
     EvidenceInv, RepetitionBounded, NeverRaised, ReplyType, NoError, ErrorInfo,
     Verdicts
<1>17. ASSUME HandleFatal PROVE IInv'
  BY <1>17, <1>r
  DEF HandleFatal, RouteAfterError, TypeOK, StatusInv, CallInv, ErrorInv, StepInv, LateInv,
     EvidenceInv, RepetitionBounded, NeverRaised, ReplyType, NoError, ErrorInfo,
     Verdicts
<1>18. ASSUME HandleRecoverable PROVE IInv'
  BY <1>18, <1>r
  DEF HandleRecoverable, RouteAfterError, FatalError, TypeOK, StatusInv, CallInv, ErrorInv, StepInv, LateInv,
     EvidenceInv, RepetitionBounded, NeverRaised, ReplyType, NoError, ErrorInfo,
     Verdicts
<1>19. ASSUME NEW anyFailed \in BOOLEAN, Finalize(anyFailed) PROVE IInv'
  BY <1>19, <1>r
  DEF Finalize, TypeOK, StatusInv, CallInv, ErrorInv, StepInv, LateInv,
     EvidenceInv, RepetitionBounded, NeverRaised, ReplyType, NoError, ErrorInfo,
     Verdicts
<1>20. ASSUME Deadline PROVE IInv'
  <2>1. TypeOK'
    BY <1>20, <1>r DEF Deadline, TypeOK, ReplyType
  <2>2. StatusInv'
    BY <1>20, <1>r DEF Deadline, StatusInv, TypeOK, CallInv, ErrorInv, RepetitionBounded
  <2>3. CallInv'
    BY <1>20, <1>r DEF Deadline, CallInv, LeavesSite, ReplyType, TypeOK, StatusInv
  <2>4. ErrorInv'
    BY <1>20, <1>r DEF Deadline, ErrorInv, NoError, ErrorInfo, TypeOK, StatusInv, CallInv
  <2>5. StepInv'
    BY <1>20, <1>r DEF Deadline, StepInv, NeverRaised, TypeOK, StatusInv
  <2>6. LateInv'
    BY <1>20, <1>r DEF Deadline, LateInv, TypeOK
  <2>7. EvidenceInv'
    BY <1>20, <1>r DEF Deadline, EvidenceInv, AutoComplete, Guided, TypeOK, StatusInv
  <2>8. RepetitionBounded'
    BY <1>20, <1>r DEF Deadline, RepetitionBounded, TypeOK
  <2> QED
    BY <2>1, <2>2, <2>3, <2>4, <2>5, <2>6, <2>7, <2>8
<1>21. ASSUME ExceedRecursion PROVE IInv'
  BY <1>21, <1>r
  DEF ExceedRecursion, TypeOK, StatusInv, CallInv, ErrorInv, StepInv, LateInv,
     EvidenceInv, RepetitionBounded, NeverRaised, ReplyType, NoError, ErrorInfo,
     Verdicts
<1>22. CASE UNCHANGED vars
  BY <1>22
  DEF vars, TypeOK, StatusInv, CallInv, ErrorInv, StepInv, LateInv,
     EvidenceInv, RepetitionBounded, NeverRaised, ReplyType, NoError, ErrorInfo,
     Verdicts, AutoComplete, LeavesSite
<1> QED
  BY <1>1, <1>2, <1>3, <1>4, <1>5, <1>6, <1>7, <1>8, <1>9, <1>10, <1>11, <1>12, <1>13, <1>14, <1>15, <1>16, <1>17, <1>18, <1>19, <1>20, <1>21, <1>22
  DEF Next, Step, Observe, Reason, GuardRails, Act, GoalCheck, ErrorHandler,
      FinalizeRun, Finished

LEMMA AlwaysIInv == Spec => []IInv
BY InitIInv, StepIInv, PTL DEF Spec

-----------------------------------------------------------------------------
\* Every variable keeps its type; in particular no message has more answers
\* than tool calls and the error count stays within the budget.
THEOREM TypeCorrect == Spec => []TypeOK
<1>1. IInv => TypeOK
  BY DEF IInv
<1> QED
  BY AlwaysIInv, <1>1, PTL

\* Three tool errors in a row always end the run as errored.
THEOREM ErrorBudgetHolds == Spec => []ErrorBudget
<1>1. IInv => ErrorBudget
  BY DEF IInv, TypeOK, ErrorInv, ErrorBudget, MaxErrors, Over, Stops
<1> QED
  BY AlwaysIInv, <1>1, PTL

\* With five node executions per step and two more the runtime limit is never
\* what ends a run, whatever the LLM and the tools answer.
THEOREM RuntimeLimitSuffices == Spec => []NeverRaised
<1>1. IInv => NeverRaised
  BY DEF IInv, StepInv
<1> QED
  BY AlwaysIInv, <1>1, PTL

\* No tool is ever executed more than Window times in a row, for every window
\* and hard limit; with the source's 4 and 10 the hard limit is never reached.
THEOREM RepetitionStaysBounded == Spec => []RepetitionBounded
<1>1. IInv => RepetitionBounded
  BY DEF IInv
<1> QED
  BY AlwaysIInv, <1>1, PTL

\* ERROR_HANDLER always has an error to handle when the hard limit is above the
\* window, as it is in act.py.
THEOREM ErrorHandlerAlwaysHasError ==
    ASSUME Window < HardLimit PROVE Spec => []ErrorHandlerHasError
<1>1. IInv => ErrorHandlerHasError
  BY BoundAssumption DEF IInv, StatusInv, ErrorInv, ErrorHandlerHasError
<1> QED
  BY AlwaysIInv, <1>1, PTL

\* Every run that ends reports a verdict its final state justifies.
THEOREM VerdictAlwaysBacked == Spec => []VerdictBacked
<1>1. IInv => VerdictBacked
  BY DEF IInv, StatusInv, EvidenceInv, VerdictBacked
<1> QED
  BY AlwaysIInv, <1>1, PTL

\* At most one tool is executed after the deadline.
THEOREM LateWorkStaysBounded == Spec => []LateWorkBounded
<1>1. IInv => LateWorkBounded
  BY DEF IInv, LateInv, LateWorkBounded
<1> QED
  BY AlwaysIInv, <1>1, PTL

\* ACT never executes a navigation out of the target's domain.
THEOREM ActAlwaysStaysOnSite == Spec => []ActStaysOnSite
<1>1. IInv => ActStaysOnSite
  BY DEF IInv, CallInv, ActStaysOnSite
<1> QED
  BY AlwaysIInv, <1>1, PTL

\* Every limit of a run holds at once, for every value of every limit.
THEOREM LimitsHold == Spec => []Limits
<1>1. ErrorBudget /\ NeverRaised /\ RepetitionBounded /\ LateWorkBounded => Limits
  BY DEF Limits
<1> QED
  BY <1>1, ErrorBudgetHolds, RuntimeLimitSuffices, RepetitionStaysBounded,
     LateWorkStaysBounded, PTL

-----------------------------------------------------------------------------
(* What the nodes hand to each other.  The answers to tool calls need one     *)
(* more fact about the environment: the hard limit is never reached.          *)

\* Between REASON and ACT the calls of the last reply are open as well as the
\* dropped ones, elsewhere only these are.
PendingInv ==
    /\ node \in {"observe", "reason", "goal_check", "error_handler"} => pending = dropped
    /\ node \in {"guard_rails", "act"} => pending = dropped + 1 + reply.extra

LEMMA InitPending == Init => PendingInv /\ CurrentIsFirstOpen
<1> SUFFICES ASSUME Init PROVE PendingInv /\ CurrentIsFirstOpen
  OBVIOUS
<1>1. PendingInv
  BY DEF Init, PendingInv
<1>2. CurrentIsFirstOpen
  BY BoundAssumption DEF Init, CurrentIsFirstOpen, Guided, NoCheckpoint
<1> QED
  BY <1>1, <1>2

LEMMA StepPending ==
    ASSUME Window < HardLimit, IInv, PendingInv, [Next]_vars
    PROVE  PendingInv'
<1> USE DEF IInv, Enter, progress, book, guard, PendingInv
<1>r. reply \in ReplyType /\ pending \in Nat /\ dropped \in Nat
  BY ReplyIsReply DEF TypeOK
<1>1. CASE Observe
  BY <1>1 DEF Observe, ObserveOverLimit, ObserveNoSnapshot, ObservePage, RouteAfterObserve
<1>2. CASE Reason
  <2>1. ASSUME NEW r \in Replies, ReasonReply(r) PROVE PendingInv'
    <3>1. r \in ReplyType
      BY ReplyAssumption
    <3>a. node = "reason"
      BY <2>1 DEF ReasonReply
    <3>b. reply' = r
      BY <2>1 DEF ReasonReply
    <3>2. pending = dropped /\ reply' = r
      BY <3>a, <3>b
    <3>3. CASE r.tool = NoTool
      BY <2>1, <3>2, <3>3 DEF ReasonReply, RouteAfterReason
    <3>4. CASE r.tool # NoTool
      <4>1. pending' = dropped' + 1 + r.extra
        BY <1>r, <2>1, <3>1, <3>2, <3>4 DEF ReasonReply, ReplyType
      <4>2. node' \in {"goal_check", "guard_rails"} /\ status = "running"
        BY <2>1, <3>4 DEF ReasonReply, RouteAfterReason, StatusInv, Working
      <4>3. node' = "guard_rails"
        BY <2>1, <3>4, <4>2 DEF ReasonReply, RouteAfterReason
      <4> QED
        BY <3>2, <4>1, <4>3
    <3> QED
      BY <3>3, <3>4
  <2>2. CASE ReasonFatal
    BY <2>2 DEF ReasonFatal, RouteAfterReason
  <2>3. ASSUME NEW e \in LlmErrors, ReasonFails(e) PROVE PendingInv'
    BY <2>3 DEF ReasonFails, RouteAfterReason, LlmErrors, NoError
  <2> QED
    BY <1>2, <2>1, <2>2, <2>3 DEF Reason
<1>3. CASE GuardRails
  <2>1. CASE GuardBlock
    <3>1. node' = "observe"
      BY <2>1 DEF GuardBlock, RouteAfterGuardRails
    <3>2. pending' = dropped'
      BY <1>r, <2>1 DEF GuardBlock, ReplyType
    <3> QED
      BY <3>1, <3>2
  <2>2. CASE GuardPass
    BY <2>2 DEF GuardPass, RouteAfterGuardRails
  <2> QED
    BY <1>3, <2>1, <2>2 DEF GuardRails
<1>4. CASE Act
  <2>1. ~Stuck
    BY BoundAssumption, ToolAssumption DEF Stuck, ConsecutiveSame, RepetitionBounded, TypeOK
  <2>2. node = "act" /\ AnswerAll /\ reply' = reply
    BY <1>4, <2>1 DEF Act, ActStuck, ActSkip, ActSucceeds, ActFails
  <2>3. pending' = dropped /\ dropped' = dropped
    BY <1>4, <2>1, <2>2, <1>r DEF Act, ActStuck, ActSkip, ActSucceeds, ActFails, AnswerAll, ReplyType
  <2>4. node' \in {"goal_check", "error_handler"}
    BY <1>4, <2>1 DEF Act, ActStuck, ActSkip, ActSucceeds, ActFails, RouteAfterAct
  <2> QED
    BY <2>3, <2>4
<1>5. CASE GoalCheck
  BY <1>5 DEF GoalCheck, GoalCheckTerminal, GoalCheckSignal, GoalCheckContinue, RouteAfterGoalCheck
<1>6. CASE ErrorHandler
  BY <1>6 DEF ErrorHandler, HandleNothing, HandleFatal, HandleRecoverable, RouteAfterError
<1>7. CASE FinalizeRun
  BY <1>7 DEF FinalizeRun, Finalize
<1>8. CASE ExceedRecursion \/ Deadline \/ UNCHANGED vars
  BY <1>8 DEF ExceedRecursion, Deadline, vars
<1> QED
  BY <1>1, <1>2, <1>3, <1>4, <1>5, <1>6, <1>7, <1>8 DEF Next, Step, Finished

\* The marks of one reply, in whatever order they come, leave the first open one.
LEMMA MarksKeepOrder ==
    ASSUME IInv, CurrentIsFirstOpen, TakeMarks
    PROVE  CurrentIsFirstOpen'
<1> DEFINE remaining == (1..Checkpoints) \ (completed \cup reply.marks)
<1> USE DEF TakeMarks, CurrentIsFirstOpen, Guided, NoCheckpoint
<1>1. CASE reply.marks = {} \/ ~Guided
  BY <1>1
<1>2. CASE reply.marks # {} /\ Guided /\ remaining = {}
  BY <1>2
<1>3. ASSUME reply.marks # {}, Guided, NEW c \in remaining,
             \A d \in remaining : c <= d, current' = c
      PROVE  CurrentIsFirstOpen'
  <2>1. (1..Checkpoints) \ completed' = remaining
    OBVIOUS
  <2>2. c # 0
    BY BoundAssumption
  <2> QED
    BY <1>3, <2>1, <2>2
<1> QED
  BY <1>1, <1>2, <1>3

LEMMA StepFirstOpen ==
    IInv /\ CurrentIsFirstOpen /\ [Next]_vars => CurrentIsFirstOpen'
<1> SUFFICES ASSUME IInv, CurrentIsFirstOpen, [Next]_vars PROVE CurrentIsFirstOpen'
  OBVIOUS
<1>1. CASE UNCHANGED book
  BY <1>1 DEF book, CurrentIsFirstOpen
<1>2. CASE GoalCheckSignal \/ GoalCheckContinue
  BY <1>2, MarksKeepOrder DEF GoalCheckSignal, GoalCheckContinue
<1> QED
  BY <1>1, <1>2 DEF Next, Step, Observe, ObserveOverLimit, ObserveNoSnapshot, ObservePage,
     Reason, ReasonReply, ReasonFatal, ReasonFails, GuardRails, GuardBlock, GuardPass,
     Act, ActStuck, ActSkip, ActSucceeds, ActFails, GoalCheck, GoalCheckTerminal,
     ErrorHandler, HandleNothing, HandleFatal, HandleRecoverable, FinalizeRun, Finalize,
     ExceedRecursion, Deadline, Finished, vars

\* The current checkpoint is the first open one, whatever the LLM marks.
THEOREM CurrentStaysFirstOpen == Spec => []CurrentIsFirstOpen
BY InitPending, StepFirstOpen, AlwaysIInv, PTL DEF Spec

\* With act.py's limits, whatever the LLM answers: the calls open when it is asked
\* are the ones GUARD_RAILS dropped from the messages it rejected, however many
\* calls those carried (act.py, guard_rails.py:57).
THEOREM BooksKept ==
    ASSUME Window < HardLimit
    PROVE  Spec => []Bookkeeping
<1>1. Init => PendingInv
  BY InitPending
<1>2. IInv /\ PendingInv /\ [Next]_vars => PendingInv'
  BY StepPending
<1>3. IInv /\ PendingInv /\ CurrentIsFirstOpen => Bookkeeping
  BY BoundAssumption DEF Bookkeeping, IInv, StatusInv, ErrorInv, ErrorHandlerHasError,
     CallInv, ActStaysOnSite, PendingInv, OnlyRejectedStayOpen
<1> QED
  BY <1>1, <1>2, <1>3, CurrentStaysFirstOpen, AlwaysIInv, PTL DEF Spec

-----------------------------------------------------------------------------
LEMMA InitVerdict == Init => RV!Init
BY DEF Init, RV!Init, Stage, Nodes

\* What a step of the graph is to its caller.
Quiet == status' = status /\ Stage' = Stage

LEMMA StepVerdict == IInv /\ [Next]_vars => [RV!Next]_(RV!vars)
<1> SUFFICES ASSUME IInv, [Next]_vars PROVE RV!Next \/ Quiet
  BY DEF Quiet, RV!vars
<1> USE DEF IInv, StatusInv, Enter, progress, book, guard, Nodes, Stops, Working, Stage
<1>d. ASSUME node \in Nodes, status = "running", status' \in Verdicts,
             node' \in Nodes
      PROVE  RV!Next
  BY <1>d DEF RV!Next, RV!Decide, RV!Verdicts, Verdicts
<1>1. CASE Observe
  <2>1. CASE ObserveOverLimit \/ ObserveNoSnapshot
    BY <2>1, <1>d DEF ObserveOverLimit, ObserveNoSnapshot, RouteAfterObserve, Verdicts
  <2>2. ASSUME NEW snapshot \in BOOLEAN, ObservePage(snapshot)
        PROVE  RV!Next \/ Quiet
    <3>1. CASE status' = "passed"
      BY <2>2, <3>1, <1>d DEF ObservePage, RouteAfterObserve, Verdicts
    <3>2. CASE status' = status
      BY <2>2, <3>2 DEF ObservePage, RouteAfterObserve, Quiet
    <3> QED
      BY <2>2, <3>1, <3>2 DEF ObservePage
  <2> QED
    BY <1>1, <2>1, <2>2 DEF Observe
<1>2. CASE Reason
  <2>1. CASE ReasonFatal
    BY <2>1, <1>d DEF ReasonFatal, RouteAfterReason, Verdicts
  <2>2. ASSUME NEW r \in Replies, ReasonReply(r) PROVE Quiet
    BY <2>2 DEF ReasonReply, RouteAfterReason, Quiet
  <2>3. ASSUME NEW e \in LlmErrors, ReasonFails(e) PROVE Quiet
    BY <2>3 DEF ReasonFails, RouteAfterReason, Quiet
  <2> QED
    BY <1>2, <2>1, <2>2, <2>3 DEF Reason
<1>3. CASE GuardRails
  BY <1>3 DEF GuardRails, GuardBlock, GuardPass, RouteAfterGuardRails, Quiet
<1>4. CASE Act
  <2>1. CASE ActStuck
    BY <2>1, <1>d DEF ActStuck, RouteAfterAct, Verdicts
  <2>2. CASE ActSkip \/ ActSucceeds \/ ActFails
    BY <2>2 DEF ActSkip, ActSucceeds, ActFails, RouteAfterAct, Quiet
  <2> QED
    BY <1>4, <2>1, <2>2 DEF Act
<1>5. CASE GoalCheck
  <2>1. CASE GoalCheckSignal
    <3>1. status = "running" /\ status' \in Verdicts
      BY <2>1 DEF GoalCheckSignal, Signal, Verdicts
    <3>2. node \in Nodes /\ node' \in Nodes
      BY <2>1 DEF GoalCheckSignal, RouteAfterGoalCheck
    <3> QED
      BY <3>1, <3>2, <1>d
  <2>2. CASE GoalCheckTerminal \/ GoalCheckContinue
    BY <2>2 DEF GoalCheckTerminal, GoalCheckContinue, RouteAfterGoalCheck, Quiet
  <2> QED
    BY <1>5, <2>1, <2>2 DEF GoalCheck
<1>6. CASE ErrorHandler
  <2>1. CASE HandleFatal
    BY <2>1, <1>d DEF HandleFatal, RouteAfterError, Verdicts
  <2>2. CASE HandleNothing \/ HandleRecoverable
    BY <2>2 DEF HandleNothing, HandleRecoverable, RouteAfterError, Quiet
  <2> QED
    BY <1>6, <2>1, <2>2 DEF ErrorHandler
<1>7. CASE FinalizeRun
  BY <1>7 DEF FinalizeRun, Finalize, RV!Next, RV!Report
<1>8. CASE ExceedRecursion
  BY <1>8 DEF ExceedRecursion, RV!Next, RV!Abort
<1>9. CASE Deadline \/ UNCHANGED vars
  BY <1>9 DEF Deadline, vars, Quiet
<1> QED
  BY <1>1, <1>2, <1>3, <1>4, <1>5, <1>6, <1>7, <1>8, <1>9
  DEF Next, Step, Finished

\* The graph implements RunVerdict: one verdict, changed at most from passed to
\* failed when it is reported.
THEOREM RunVerdictImplemented == Spec => ImplementsRunVerdict
<1>1. Spec => RV!Spec
  BY InitVerdict, StepVerdict, AlwaysIInv, PTL DEF Spec, RV!Spec
<1> QED
  BY <1>1 DEF ImplementsRunVerdict
-----------------------------------------------------------------------------
(***************************************************************************)
(* The retry loop inside REASON, for every pair of schedules of equal      *)
(* length.  The loop has one counter, reset once by the switch of          *)
(* schedules, so CallsBounded needs the number of calls relative to it.    *)
(***************************************************************************)
\* Calls made so far, relative to the position in the schedule in force.
LoopCalls ==
    /\ outcome = "pending" =>
         /\ attempt < Tries
         /\ schedule = "standard" => calls <= attempt
         /\ schedule = "soft" => attempt >= 1 /\ calls <= Tries + attempt - 1
    /\ calls <= 2 * Tries - 1

LoopInv == LoopTypeOK /\ LoopCalls /\ FatalIsFinal /\ OnlyUnknownIsRecoverable /\ OutcomeIsKnown

\* The length of the schedules is a number, and there is a retry in them.
LEMMA TriesIsNatural == Tries \in Nat /\ Tries >= 2
  BY DelayAssumption DEF Tries

\* A delay is read within the schedule it is read from.
LEMMA DelayIsNatural ==
  ASSUME NEW s \in {"standard", "soft"}, NEW a \in 0..Tries, a < Tries
  PROVE  Delay(s, a) \in Nat
  <1>1. a + 1 \in 1..Len(StandardDelays) /\ a + 1 \in 1..Len(SoftDelays)
    BY DelayAssumption DEF Tries
  <1> QED  BY <1>1, DelayAssumption DEF Delay

\* What a call adds to the histories.
LEMMA CallCounts ==
  ASSUME LoopInv, Call
  PROVE  /\ calls' \in 0..CallCap /\ waited' \in Nat
         /\ calls' <= calls + 1
         /\ attempt < Tries /\ outcome = "pending"
  <1>1. waited' \in Nat
    BY DelayIsNatural DEF Call, LoopInv, LoopTypeOK
  <1>2. calls' \in 0..CallCap /\ calls' <= calls + 1
    BY TriesIsNatural DEF Call, LoopInv, LoopTypeOK, CallCap
  <1> QED  BY <1>1, <1>2 DEF Call

\* The loop starts within the invariant.
LEMMA LoopStarts == LoopInit => LoopInv
  <1> SUFFICES ASSUME LoopInit PROVE LoopInv
    OBVIOUS
  <1>1. LoopTypeOK
    <2>1. attempt \in 0..Tries /\ calls \in 0..CallCap /\ waited \in Nat
      BY TriesIsNatural DEF LoopInit, CallCap
    <2>2. retryError \in {NoError} \cup LlmErrors /\ seen \subseteq Marks
      BY Zenon DEF LoopInit
    <2> QED  BY <2>1, <2>2, Zenon DEF LoopInit, LoopTypeOK
  <1>2. LoopCalls
    BY TriesIsNatural DEF LoopInit, LoopCalls
  <1>3. FatalIsFinal /\ OnlyUnknownIsRecoverable /\ OutcomeIsKnown
    BY DEF LoopInit, FatalIsFinal, OnlyUnknownIsRecoverable, OutcomeIsKnown
  <1> QED  BY <1>1, <1>2, <1>3 DEF LoopInv

\* The switch of schedules keeps the count of calls within both of them.
LEMMA HardenKeeps ==
  ASSUME LoopInv, NEW marks \in SUBSET Marks, Call, Harden(marks)
  PROVE  /\ schedule' \in {"standard", "soft"} /\ attempt' \in 0..Tries
         /\ schedule' = "standard" => calls' <= attempt'
         /\ schedule' = "soft" =>
              attempt' >= 1 /\ calls' <= Tries + attempt' - 1
         /\ calls' <= 2 * Tries - 1
  <1> USE TriesIsNatural, CallCounts
  <1>1. CASE "soft" \in marks /\ schedule = "standard"
    BY <1>1 DEF Harden, LoopInv, LoopTypeOK, LoopCalls
  <1>2. CASE ~("soft" \in marks /\ schedule = "standard")
    <2>1. schedule' = schedule /\ attempt' = attempt + 1
      BY <1>2 DEF Harden
    <2>2. /\ schedule \in {"standard", "soft"} /\ attempt \in 0..Tries
          /\ calls \in 0..CallCap
      BY DEF LoopInv, LoopTypeOK
    <2>3. /\ schedule = "standard" => calls <= attempt
          /\ schedule = "soft" => attempt >= 1 /\ calls <= Tries + attempt - 1
      BY DEF LoopInv, LoopCalls
    <2>4. calls' \in 0..CallCap /\ calls' <= calls + 1 /\ attempt < Tries
      BY CallCounts
    <2> QED BY <2>1, <2>2, <2>3, <2>4 DEF CallCap
  <1> QED  BY <1>1, <1>2

\* Every error the loop leaves behind has the type of one.
LEMMA VerdictIsError ==
  ASSUME NEW marks \in SUBSET Marks, NEW left \in BOOLEAN
  PROVE  Verdict(marks, left) \in LlmErrors
  BY DEF Verdict, LlmErrors, Rejected, RateLimited

\* No step of the loop leaves the invariant.
LEMMA LoopKeeps == LoopInv /\ [LoopNext]_loopVars => LoopInv'
  <1> SUFFICES ASSUME LoopInv, [LoopNext]_loopVars PROVE LoopInv'
    OBVIOUS
  <1> USE TriesIsNatural
  <1>1. CASE Answer
    <2>1. Call
      BY <1>1 DEF Answer
    <2>2. LoopTypeOK'
      BY <1>1, <2>1, CallCounts DEF Answer, LoopInv, LoopTypeOK
    <2>3. LoopCalls'
      BY <1>1, <2>1, CallCounts DEF Answer, LoopInv, LoopTypeOK, LoopCalls
    <2>4. FatalIsFinal' /\ OnlyUnknownIsRecoverable' /\ OutcomeIsKnown'
      BY <1>1, <2>1, CallCounts
         DEF Answer, LoopInv, FatalIsFinal, OnlyUnknownIsRecoverable,
             OutcomeIsKnown
    <2> QED  BY <2>2, <2>3, <2>4 DEF LoopInv
  <1>2. ASSUME NEW marks \in SUBSET Marks, FatalFailure(marks) PROVE LoopInv'
    <2>1. Call
      BY <1>2 DEF FatalFailure
    <2>2. LoopTypeOK'
      BY <1>2, <2>1, CallCounts
         DEF FatalFailure, LoopInv, LoopTypeOK, LlmErrors, Rejected
    <2>3. LoopCalls'
      BY <1>2, <2>1, CallCounts DEF FatalFailure, LoopInv, LoopTypeOK, LoopCalls
    <2>4. FatalIsFinal' /\ OnlyUnknownIsRecoverable' /\ OutcomeIsKnown'
      BY <1>2 DEF FatalFailure, FatalIsFinal, OnlyUnknownIsRecoverable,
                  OutcomeIsKnown, LlmErrors, Rejected
    <2> QED  BY <2>2, <2>3, <2>4 DEF LoopInv
  <1>3. ASSUME NEW marks \in SUBSET Marks, Overflow(marks) PROVE LoopInv'
    <2>1. Call
      BY <1>3 DEF Overflow
    <2>2. ~TrimAllowed
      BY DEF TrimAllowed, LoopInv, LoopTypeOK
    <2>3. LoopTypeOK'
      BY <1>3, <2>1, <2>2, CallCounts
         DEF Overflow, LoopInv, LoopTypeOK, LlmErrors, Rejected
    <2>4. LoopCalls'
      BY <1>3, <2>1, <2>2, CallCounts DEF Overflow, LoopInv, LoopTypeOK, LoopCalls
    <2>5. FatalIsFinal' /\ OnlyUnknownIsRecoverable' /\ OutcomeIsKnown'
      BY <1>3, <2>2
         DEF Overflow, FatalIsFinal, OnlyUnknownIsRecoverable,
             OutcomeIsKnown, LlmErrors, Rejected
    <2> QED  BY <2>3, <2>4, <2>5 DEF LoopInv
  <1>4. ASSUME NEW marks \in SUBSET Marks, Retry(marks) PROVE LoopInv'
    <2>1. Call /\ Harden(marks)
      BY <1>4 DEF Retry
    <2>2. outcome' = "pending" /\ seen' = marks /\ marks \cap FatalMarks = {}
      BY <1>4, <2>1, CallCounts DEF Retry, Later
    <2>3. RateLimited(TRUE) \in LlmErrors
      BY DEF RateLimited, LlmErrors
    <2>4. LoopTypeOK'
      BY <1>4, <2>1, <2>3, CallCounts, HardenKeeps DEF Retry, LoopInv, LoopTypeOK
    <2>5. LoopCalls'
      BY <1>4, <2>1, HardenKeeps DEF Retry, LoopCalls
    <2>6. FatalIsFinal' /\ OnlyUnknownIsRecoverable' /\ OutcomeIsKnown'
      BY <2>2 DEF FatalIsFinal, OnlyUnknownIsRecoverable, OutcomeIsKnown
    <2> QED  BY <2>4, <2>5, <2>6 DEF LoopInv
  <1>5. ASSUME NEW marks \in SUBSET Marks, GiveUp(marks) PROVE LoopInv'
    <2>1. Call /\ Harden(marks)
      BY <1>5 DEF GiveUp
    <2>2. /\ outcome' = "error" /\ seen' = marks
          /\ marks \cap FatalMarks = {} /\ "overflow" \notin marks
      BY <1>5 DEF GiveUp, Later
    <2>3. retryError' \in LlmErrors
      <3>1. retryError' = Verdict(marks, attempt' < Tries)
        BY <1>5 DEF GiveUp
      <3>2. (attempt' < Tries) \in BOOLEAN
        OBVIOUS
      <3> QED  BY <3>1, <3>2, VerdictIsError, Zenon
    <2>4. LoopTypeOK'
      BY <1>5, <2>1, <2>3, CallCounts, HardenKeeps DEF GiveUp, LoopInv, LoopTypeOK
    <2>5. LoopCalls'
      BY <2>1, <2>2, HardenKeeps DEF LoopCalls
    <2>6. FatalIsFinal' /\ OutcomeIsKnown'
      BY <2>2, <2>3 DEF FatalIsFinal, OutcomeIsKnown
    <2>7. OnlyUnknownIsRecoverable'
      <3> SUFFICES ASSUME retryError'.recoverable
                   PROVE  marks = {} /\ attempt' < Tries
        BY <2>2 DEF OnlyUnknownIsRecoverable
      <3>1. marks \cap {"daily", "no_tools"} = {} /\ attempt' < Tries
        BY <1>5 DEF GiveUp, Verdict, Rejected, RateLimited
      <3>2. "soft" \notin marks /\ "transient" \notin marks
        BY <1>5, <3>1 DEF GiveUp
      <3>3. \A m \in marks : m \in FatalMarks \cup {"overflow", "daily",
                                   "no_tools", "soft", "transient"}
        BY DEF Marks, FatalMarks
      <3> QED  BY <2>2, <3>1, <3>2, <3>3
    <2> QED  BY <2>4, <2>5, <2>6, <2>7 DEF LoopInv
  <1>6. CASE UNCHANGED loopVars
    BY <1>6 DEF loopVars, LoopInv, LoopTypeOK, LoopCalls, FatalIsFinal,
                OnlyUnknownIsRecoverable, OutcomeIsKnown
  <1> QED  BY <1>1, <1>2, <1>3, <1>4, <1>5, <1>6 DEF LoopNext, Fail, Done

\* The invariant holds of every behavior of the loop.
THEOREM LoopInvariance == LoopSpec => []LoopInv
  BY LoopStarts, LoopKeeps, PTL DEF LoopSpec

\* Every variable of the retry loop keeps its type (reason.py).
THEOREM LoopTypeCorrect == LoopSpec => []LoopTypeOK
  <1>1. LoopInv => LoopTypeOK
    BY DEF LoopInv
  <1> QED  BY <1>1, LoopInvariance, PTL

\* However soft and standard rate limits alternate, the LLM is called at most
\* once per entry of the two schedules, their first entry counted once.
THEOREM CallsStayBounded == LoopSpec => []CallsBounded
  <1>1. LoopInv => CallsBounded
    BY DEF LoopInv, LoopCalls, CallsBounded
  <1> QED  BY <1>1, LoopInvariance, PTL

\* The loop ends as fatal exactly when the last failure carried a fatal mark.
THEOREM FatalStaysFinal == LoopSpec => []FatalIsFinal
  <1>1. LoopInv => FatalIsFinal
    BY DEF LoopInv
  <1> QED  BY <1>1, LoopInvariance, PTL

\* Only an error that no test recognises, met with delays left, is handed on
\* as recoverable.
THEOREM RecoverableIsUnknown == LoopSpec => []OnlyUnknownIsRecoverable
  <1>1. LoopInv => OnlyUnknownIsRecoverable
    BY DEF LoopInv
  <1> QED  BY <1>1, LoopInvariance, PTL

\* The loop makes a bounded number of calls and keeps every variable in range.
THEOREM LoopStaysBounded == LoopSpec => []LoopBounded
  <1>1. LoopInv => LoopBounded
    BY DEF LoopInv, LoopCalls, CallsBounded, LoopBounded
  <1> QED  BY <1>1, LoopInvariance, PTL

\* Every failure is classified as reason.py documents it, whatever marks its
\* text carries together.
THEOREM FailuresStayClassified == LoopSpec => []FailuresClassified
  <1>1. LoopInv => FailuresClassified
    BY DEF LoopInv, FailuresClassified
  <1> QED  BY <1>1, LoopInvariance, PTL
-----------------------------------------------------------------------------
(***************************************************************************)
(* The stream of a run and its page, for every number of requests and      *)
(* events on their way: the page never shows an end that was not recorded. *)
(***************************************************************************)
\* What somebody may know: a status that is no end, or an end that is recorded
\* or was until the error of a failed notification replaced it.
Truth(s) == s \in Terminal => s \in {record, overruled} \/ Overwritten
TrueStatuses == {s \in Statuses : Truth(s)}
TrueEvents == {e \in [type: EventTypes, status: Statuses \cup {NoStatus}] : Truth(e.status)}

\* While the worker has not recorded its result the run has no end, unless it
\* was cancelled; afterwards it has that of the worker.  Only the handler of
\* exceptions replaces an end.
RecordInv ==
    /\ worker \in {"queued", "started", "running", "finalized", "decided"} /\ ~cancelled =>
          record \notin Terminal
    /\ worker \in {"recorded", "announced", "failed", "reported"} =>
          record = result \/ Overwritten
    /\ worker \in {"decided", "recorded", "announced", "raised", "failed", "reported"} =>
          result # NoStatus
    /\ worker \notin {"failed", "reported", "done", "killed"} => overruled = NoStatus

\* So does what is on its way to the page, and what it has.
KnownInv == /\ wire \in Seq(TrueEvents) /\ inflight \in Seq(TrueStatuses)
            /\ Truth(live) /\ Truth(polled)

StreamIInv == StreamTypeOK /\ RecordInv /\ KnownInv

-----------------------------------------------------------------------------
LEMMA RestIsSeq ==
  ASSUME NEW S, NEW s \in Seq(S), NEW i \in 1..Len(s)
  PROVE  RemoveAt(s, i) \in Seq(S)
  <1>1. SubSeq(s, 1, i-1) \in Seq(S)
    BY SubSeqProperties
  <1>2. SubSeq(s, i+1, Len(s)) \in Seq(S)
    BY SubSeqProperties
  <1> QED BY <1>1, <1>2, ConcatProperties DEF RemoveAt

\* What was true stays true: everything known is known still.
LEMMA StaysTrue ==
  ASSUME StreamIInv, \A s \in Statuses \cup {NoStatus} : Truth(s) => Truth(s)'
  PROVE  wire \in Seq(TrueEvents') /\ inflight \in Seq(TrueStatuses')
  <1>1. TrueEvents \subseteq TrueEvents' /\ TrueStatuses \subseteq TrueStatuses'
    BY DEF TrueEvents, TrueStatuses
  <1> QED BY <1>1 DEF StreamIInv, KnownInv

LEMMA InitHolds == StreamInit => StreamIInv
  <1> SUFFICES ASSUME StreamInit PROVE StreamIInv
    OBVIOUS
  <1>1. StreamTypeOK
    BY EmptySeq DEF StreamInit, StreamTypeOK, Statuses
  <1>2. RecordInv
    BY DEF StreamInit, RecordInv, Terminal
  <1>3. KnownInv
    BY StatusAssumption, EmptySeq DEF StreamInit, KnownInv, Truth, Statuses, Terminal
  <1> QED BY <1>1, <1>2, <1>3 DEF StreamIInv

\* The record and the page are left alone.
LEMMA TruthKept ==
  ASSUME UNCHANGED <<record, overruled>>, Overwritten => Overwritten'
  PROVE  \A s \in Statuses \cup {NoStatus} : Truth(s) => Truth(s)'
  BY DEF Truth

\* An event is published.
LEMMA Published ==
  ASSUME StreamIInv, \A s \in Statuses \cup {NoStatus} : Truth(s) => Truth(s)',
         NEW type \in EventTypes, NEW told \in Statuses \cup {NoStatus}, Truth(told)',
         Publish(Event(type, told))
  PROVE  wire' \in Seq(TrueEvents')
  <1>1. wire \in Seq(TrueEvents')
    BY StaysTrue
  <1>2. Event(type, told) \in TrueEvents'
    BY DEF Event, TrueEvents
  <1> QED BY <1>1, <1>2 DEF Publish

\* What is true is also well formed.
LEMMA Formed ==
  ASSUME wire' \in Seq(TrueEvents')
  PROVE  wire' \in Seq([type: EventTypes, status: Statuses \cup {NoStatus}])
  <1>1. TrueEvents' \subseteq [type: EventTypes, status: Statuses \cup {NoStatus}]
    BY DEF TrueEvents
  <1> QED BY <1>1, SeqMonotonic

LEMMA StartStep == ASSUME StreamIInv, Start PROVE StreamIInv'
  <1>1. \A s \in Statuses \cup {NoStatus} : Truth(s) => Truth(s)'
    BY DEF StreamIInv, RecordInv, Start, Truth, Overwritten
  <1>2. StreamTypeOK'
    BY DEF StreamIInv, StreamTypeOK, Start, page, Statuses
  <1>3. RecordInv'
    BY DEF StreamIInv, RecordInv, Start, Terminal
  <1>4. KnownInv'
    BY <1>1, StaysTrue DEF StreamIInv, StreamTypeOK, KnownInv, Start, page
  <1> QED BY <1>2, <1>3, <1>4 DEF StreamIInv

\* The worker and its collector go on; the record stays as it is.
LEMMA AnnounceStartStep == ASSUME StreamIInv, AnnounceStart PROVE StreamIInv'
  <1>1. \A s \in Statuses \cup {NoStatus} : Truth(s) => Truth(s)'
    BY TruthKept DEF AnnounceStart, Overwritten
  <1>2. Truth("running")'
    BY DEF Truth, Terminal
  <1>3. wire' \in Seq(TrueEvents')
    BY <1>1, <1>2, Published DEF AnnounceStart, EventTypes, Statuses
  <1>4. StreamTypeOK'
    BY <1>3, Formed DEF StreamIInv, StreamTypeOK, AnnounceStart, page
  <1>5. RecordInv'
    BY DEF StreamIInv, RecordInv, AnnounceStart, Overwritten
  <1>6. KnownInv'
    BY <1>1, <1>3, StaysTrue DEF StreamIInv, StreamTypeOK, KnownInv, AnnounceStart, page
  <1> QED BY <1>4, <1>5, <1>6 DEF StreamIInv

LEMMA AnnounceStep == ASSUME StreamIInv, Announce PROVE StreamIInv'
  <1>1. \A s \in Statuses \cup {NoStatus} : Truth(s) => Truth(s)'
    BY TruthKept DEF Announce, Overwritten
  <1>2. Truth(result) /\ result \in Statuses \cup {NoStatus}
    BY ResultAssumption DEF StreamIInv, StreamTypeOK, RecordInv, Announce, Truth, Statuses, Terminal
  <1>3. wire' \in Seq(TrueEvents')
    BY <1>1, <1>2, Published DEF Announce, EventTypes
  <1>4. StreamTypeOK'
    BY <1>3, Formed DEF StreamIInv, StreamTypeOK, Announce, page
  <1>5. RecordInv'
    BY DEF StreamIInv, RecordInv, Announce, Overwritten
  <1>6. KnownInv'
    BY <1>1, <1>3, StaysTrue DEF StreamIInv, StreamTypeOK, KnownInv, Announce, page
  <1> QED BY <1>4, <1>5, <1>6 DEF StreamIInv

LEMMA AnnounceErrorStep == ASSUME StreamIInv, AnnounceError PROVE StreamIInv'
  <1>1. \A s \in Statuses \cup {NoStatus} : Truth(s) => Truth(s)'
    BY TruthKept DEF AnnounceError, Overwritten
  <1>2. Truth(NoStatus)'
    BY StatusAssumption DEF Truth, Statuses
  <1>3. wire' \in Seq(TrueEvents')
    BY <1>1, <1>2, Published DEF AnnounceError, EventTypes
  <1>4. StreamTypeOK'
    BY <1>3, Formed DEF StreamIInv, StreamTypeOK, AnnounceError, page
  <1>5. RecordInv'
    BY DEF StreamIInv, RecordInv, AnnounceError, Overwritten
  <1>6. KnownInv'
    BY <1>1, <1>3, StaysTrue DEF StreamIInv, StreamTypeOK, KnownInv, AnnounceError, page
  <1> QED BY <1>4, <1>5, <1>6 DEF StreamIInv

LEMMA EmitterStep == ASSUME StreamIInv, NEW type \in emits, EmitterRuns(type) PROVE StreamIInv'
  <1>1. \A s \in Statuses \cup {NoStatus} : Truth(s) => Truth(s)'
    BY TruthKept DEF EmitterRuns, Overwritten
  <1>2. Truth(NoStatus)' /\ type \in EventTypes
    BY StatusAssumption DEF Truth, Statuses, StreamIInv, StreamTypeOK, EventTypes
  <1>3. wire' \in Seq(TrueEvents')
    BY <1>1, <1>2, Published DEF EmitterRuns
  <1>4. StreamTypeOK'
    BY <1>3, Formed DEF StreamIInv, StreamTypeOK, EmitterRuns, page
  <1>5. RecordInv'
    BY DEF StreamIInv, RecordInv, EmitterRuns, Overwritten
  <1>6. KnownInv'
    BY <1>1, <1>3, StaysTrue DEF StreamIInv, StreamTypeOK, KnownInv, EmitterRuns, page
  <1> QED BY <1>4, <1>5, <1>6 DEF StreamIInv

LEMMA WorkerStep ==
  ASSUME StreamIInv, EmitError \/ EmitComplete \/ Decide \/ Raise \/ Exit
  PROVE  StreamIInv'
  <1>1. UNCHANGED <<record, overruled, cancelled, wire, page>> /\ (Overwritten <=> Overwritten')
    BY DEF EmitError, EmitComplete, Decide, Raise, Exit, Overwritten
  <1>2. \A s \in Statuses \cup {NoStatus} : Truth(s) => Truth(s)'
    BY <1>1, TruthKept
  <1>3. StreamTypeOK'
    <2>1. socket' = socket /\ UNCHANGED page
      BY DEF EmitError, EmitComplete, Decide, Raise, Exit
    <2>2. emits' \subseteq {"error", "complete"}
      BY DEF StreamIInv, StreamTypeOK, EmitError, EmitComplete, Decide, Raise, Exit
    <2>3. result' \in Results \cup {NoStatus, "errored"}
      BY DEF StreamIInv, StreamTypeOK, EmitError, EmitComplete, Decide, Raise, Exit
    <2>4. worker' \in {"running", "finalized", "decided", "raised", "done"}
      BY DEF EmitError, EmitComplete, Decide, Raise, Exit
    <2> QED BY <1>1, <2>1, <2>2, <2>3, <2>4 DEF StreamIInv, StreamTypeOK, page
  <1>4. RecordInv'
    BY <1>1, ResultAssumption, StatusAssumption
       DEF StreamIInv, RecordInv, EmitError, EmitComplete, Decide, Raise, Exit, Statuses, Terminal
  <1>5. KnownInv'
    BY <1>1, <1>2, StaysTrue DEF StreamIInv, StreamTypeOK, KnownInv, page
  <1> QED BY <1>3, <1>4, <1>5 DEF StreamIInv

LEMMA RecordResultStep == ASSUME StreamIInv, RecordResult PROVE StreamIInv'
  <1>1. record \in Terminal => Overwritten
    BY DEF StreamIInv, RecordInv, RecordResult, Overwritten
  <1>2. \A s \in Statuses \cup {NoStatus} : Truth(s) => Truth(s)'
    BY <1>1 DEF RecordResult, Truth, Overwritten
  <1>3. result \in Statuses
    BY ResultAssumption DEF StreamIInv, StreamTypeOK, RecordInv, RecordResult, Statuses, Terminal
  <1>4. StreamTypeOK'
    BY <1>3 DEF StreamIInv, StreamTypeOK, RecordResult, page
  <1>5. RecordInv'
    BY DEF StreamIInv, RecordInv, RecordResult
  <1>6. KnownInv'
    BY <1>2, StaysTrue DEF StreamIInv, StreamTypeOK, KnownInv, RecordResult, page
  <1> QED BY <1>4, <1>5, <1>6 DEF StreamIInv

\* The handler of exceptions replaces an end that somebody may know.
LEMMA RecordErrorStep == ASSUME StreamIInv, RecordError PROVE StreamIInv'
  <1>1. overruled = NoStatus /\ NoStatus \notin Terminal
    BY StatusAssumption DEF StreamIInv, RecordInv, RecordError, Statuses
  <1>2. record \in Terminal => overruled' = record
    BY DEF RecordError
  <1>3. \A s \in Statuses \cup {NoStatus} : Truth(s) => Truth(s)'
    BY <1>1, <1>2 DEF RecordError, Truth, Overwritten
  <1>4. result \in Statuses /\ overruled' \in Statuses \cup {NoStatus}
    BY ResultAssumption
       DEF StreamIInv, StreamTypeOK, RecordInv, RecordError, Statuses, Terminal
  <1>5. StreamTypeOK'
    BY <1>4 DEF StreamIInv, StreamTypeOK, RecordError, page
  <1>6. RecordInv'
    BY DEF StreamIInv, RecordInv, RecordError
  <1>7. KnownInv'
    BY <1>3, StaysTrue DEF StreamIInv, StreamTypeOK, KnownInv, RecordError, page
  <1> QED BY <1>5, <1>6, <1>7 DEF StreamIInv

LEMMA CancelStep == ASSUME StreamIInv, Cancel PROVE StreamIInv'
  <1>1. record \notin Terminal /\ ~Overwritten
    BY DEF Cancel, Terminal, Overwritten
  <1>2. \A s \in Statuses \cup {NoStatus} : Truth(s) => Truth(s)'
    BY <1>1 DEF Truth, Cancel
  <1>3. StreamTypeOK'
    <2>1. record' \in Statuses
      BY DEF Cancel, Statuses, Terminal
    <2>2. worker' \in {worker, "killed"} /\ emits' \in {emits, {}} /\ cancelled' \in BOOLEAN
      BY DEF Cancel
    <2> QED BY <2>1, <2>2 DEF StreamIInv, StreamTypeOK, Cancel, page
  <1>4. RecordInv'
    BY DEF StreamIInv, RecordInv, Cancel, Overwritten
  <1>5. KnownInv'
    BY <1>2, StaysTrue DEF StreamIInv, StreamTypeOK, KnownInv, Cancel, page
  <1> QED BY <1>3, <1>4, <1>5 DEF StreamIInv

-----------------------------------------------------------------------------
(* The page *)

\* A step that leaves the run alone leaves what is true.
LEMMA PageStep ==
  ASSUME StreamIInv, UNCHANGED run, StreamTypeOK',
         wire' \in Seq(TrueEvents), inflight' \in Seq(TrueStatuses), Truth(live'), Truth(polled')
  PROVE  StreamIInv'
  <1>1. TrueEvents' = TrueEvents /\ TrueStatuses' = TrueStatuses
    BY DEF run, TrueEvents, TrueStatuses, Truth, Overwritten
  <1>2. RecordInv'
    BY DEF StreamIInv, RecordInv, run, Overwritten
  <1>3. Truth(live)' /\ Truth(polled)'
    BY DEF Truth, run, Overwritten
  <1> QED BY <1>1, <1>2, <1>3 DEF StreamIInv, KnownInv

\* The record is always true.
LEMMA RecordIsTrue == ASSUME StreamIInv PROVE Truth(record) /\ record \in TrueStatuses
  BY DEF StreamIInv, StreamTypeOK, Truth, TrueStatuses

LEMMA LookStep == ASSUME StreamIInv, Look PROVE StreamIInv'
  <1>1. Event("current_state", record) \in TrueEvents
    BY RecordIsTrue DEF Event, TrueEvents, EventTypes, TrueStatuses
  <1>2. wire' \in Seq(TrueEvents)
    BY <1>1 DEF Look, StreamIInv, KnownInv
  <1>3. StreamTypeOK'
    BY <1>2 DEF StreamIInv, StreamTypeOK, Look, run, page, TrueEvents
  <1> QED BY <1>2, <1>3, PageStep DEF StreamIInv, KnownInv, Look, page

LEMMA ReceiveStep == ASSUME StreamIInv, Receive PROVE StreamIInv'
  <1>1. Head(wire) \in TrueEvents /\ Tail(wire) \in Seq(TrueEvents)
    BY HeadTailProperties DEF Receive, StreamIInv, KnownInv
  <1>2. wire' \in Seq(TrueEvents)
    BY <1>1, EmptySeq DEF Receive
  <1>3. Truth(live') /\ live' \in Statuses \cup {NoStatus}
    BY <1>1 DEF Receive, Shows, TrueEvents, StreamIInv, StreamTypeOK, KnownInv
  <1>4. StreamTypeOK'
    BY <1>2, <1>3 DEF StreamIInv, StreamTypeOK, Receive, run, TrueEvents
  <1> QED BY <1>2, <1>3, <1>4, PageStep DEF StreamIInv, KnownInv, Receive

LEMMA AskStep == ASSUME StreamIInv, Fetch \/ Refetch PROVE StreamIInv'
  <1>1. inflight' \in Seq(TrueStatuses)
    <2>1. inflight \in Seq(TrueStatuses) /\ record \in TrueStatuses
      BY RecordIsTrue DEF StreamIInv, KnownInv
    <2>2. inflight' = Append(inflight, record)
      BY DEF Fetch, Refetch, Ask
    <2> QED  BY <2>1, <2>2, AppendProperties
  <1>2. inflight' \in Seq(Statuses)
    BY <1>1 DEF TrueStatuses
  <1>3. StreamTypeOK'
    <2>1. UNCHANGED <<run, socket, wire, live, polled, polling, overtaken>>
      BY DEF Fetch, Refetch
    <2>2. refetch' \in BOOLEAN
      BY DEF Fetch, Refetch, StreamIInv, StreamTypeOK
    <2> QED BY <1>2, <2>1, <2>2 DEF StreamIInv, StreamTypeOK, run
  <1> QED BY <1>1, <1>3, PageStep DEF StreamIInv, KnownInv, Fetch, Refetch

LEMMA ArriveStep == ASSUME StreamIInv, NEW i \in 1..Fetches, Arrive(i) \/ FetchFails(i) PROVE StreamIInv'
  <1>1. i \in 1..Len(inflight) /\ inflight[i] \in TrueStatuses
    BY ElementOfSeq DEF Arrive, FetchFails, StreamIInv, KnownInv
  <1>2. inflight' \in Seq(TrueStatuses)
    BY <1>1, RestIsSeq DEF Arrive, FetchFails, StreamIInv, KnownInv
  <1>3. Truth(polled') /\ polled' \in Statuses \cup {NoStatus}
    BY <1>1 DEF Arrive, FetchFails, TrueStatuses, StreamIInv, StreamTypeOK, KnownInv
  <1>4. inflight' \in Seq(Statuses)
    BY <1>2 DEF TrueStatuses
  <1>5. StreamTypeOK'
    <2>1. UNCHANGED <<run, socket, wire, live, refetch>>
      BY DEF Arrive, FetchFails
    <2>2. polling' \in BOOLEAN /\ overtaken' \in BOOLEAN
      BY DEF Arrive, FetchFails, StreamIInv, StreamTypeOK
    <2> QED BY <1>3, <1>4, <2>1, <2>2 DEF StreamIInv, StreamTypeOK, run
  <1> QED BY <1>2, <1>3, <1>5, PageStep DEF StreamIInv, KnownInv, Arrive, FetchFails

LEMMA StepKeeps == ASSUME StreamIInv, [StreamNext]_streamVars PROVE StreamIInv'
  <1>1. CASE Work
    BY <1>1, StartStep, AnnounceStartStep, WorkerStep, RecordResultStep, AnnounceStep,
       RecordErrorStep, AnnounceErrorStep DEF Work
  <1>2. CASE Emit \/ Cancel
    BY <1>2, WorkerStep, EmitterStep, CancelStep DEF Emit
  <1>3. CASE Open \/ Subscribe \/ UNCHANGED streamVars
    <2>1. UNCHANGED <<run, wire, inflight, live, polled>>
      BY <1>3 DEF Open, Subscribe, streamVars, page
    <2>2. StreamTypeOK'
      <3>1. UNCHANGED <<refetch, overtaken>>
        BY <1>3 DEF Open, Subscribe, streamVars, page
      <3>2. socket' \in {"none", "accepted", "looked", "subscribed", "closed"}
        BY <1>3 DEF Open, Subscribe, streamVars, StreamIInv, StreamTypeOK
      <3>3. polling' \in BOOLEAN
        BY <1>3 DEF Open, Subscribe, streamVars, page, StreamIInv, StreamTypeOK
      <3> QED BY <2>1, <3>1, <3>2, <3>3 DEF StreamIInv, StreamTypeOK, run
    <2> QED BY <2>1, <2>2, PageStep DEF StreamIInv, KnownInv
  <1>4. CASE Look \/ Receive \/ Fetch \/ Refetch
    BY <1>4, LookStep, ReceiveStep, AskStep
  <1>5. CASE Arrival \/ \E i \in 1..Fetches : FetchFails(i)
    BY <1>5, ArriveStep DEF Arrival
  <1> QED BY <1>1, <1>2, <1>3, <1>4, <1>5 DEF StreamNext, Serve, Idle

\* The page stays a page of this run, and never shows an end that was not recorded:
\* what it shows is recorded still, unless the error of a notification that failed
\* after the end was announced has replaced it (tasks.py:288, 291-299) or the worker
\* overwrites a cancellation.  tasks.py records before it publishes, ws.py and
\* useRun read the record.
THEOREM PageStaysTrue == StreamSpec => []PageIsTrue
  <1>1. StreamInit => StreamIInv
    BY InitHolds
  <1>2. StreamIInv /\ [StreamNext]_streamVars => StreamIInv'
    BY StepKeeps
  <1>3. StreamIInv => PageIsTrue
    BY DEF StreamIInv, KnownInv, Truth, PageIsTrue, ShownIsRecorded, Shown
  <1> QED BY <1>1, <1>2, <1>3, PTL DEF StreamSpec
=============================================================================
