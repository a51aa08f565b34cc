----------------------------- MODULE ReasonRetry -----------------------------
(***************************************************************************)
(* The retry loop inside the REASON node (agent/nodes/reason.py): the LLM  *)
(* is called until it answers or until an error ends the loop.  An error   *)
(* is classified by substrings of its text, in a fixed order, so one error *)
(* may carry the marks of several classes and the first test that applies  *)
(* decides.                                                                *)
(***************************************************************************)
EXTENDS Integers, Sequences, ReasonErrors

CONSTANTS
    StandardDelays,   \* [0.0] + _BACKOFF_DELAYS
    SoftDelays,       \* [0.0] + _SOFT_RATE_LIMIT_DELAYS
    LongPrompt        \* more than four messages are sent

ASSUME DelayAssumption ==
    /\ StandardDelays \in Seq(Nat) /\ SoftDelays \in Seq(Nat)
    /\ Len(StandardDelays) >= 2
    /\ Len(SoftDelays) = Len(StandardDelays)
ASSUME PromptAssumption == LongPrompt \in BOOLEAN

Tries == Len(StandardDelays)

\* The history of calls is counted no further than this.
CallCap == 2 * Tries

\* The classes, in the order they are tested.
Marks == {"connection", "credits", "access", "overflow", "soft", "daily",
          "no_tools", "transient"}
FatalMarks == {"connection", "credits", "access"}

\* Operators with a suffix are seeded faults: a property must notice them.
Rejected_Recoverable == [type |-> "llm_auth_error", recoverable |-> TRUE]
Rejected == [type |-> "llm_auth_error", recoverable |-> FALSE]

RateLimited(again) == [type |-> "llm_rate_limit", recoverable |-> again]

VARIABLES
    outcome,    \* "pending", then how the loop ended: "reply", "fatal", "error"
    schedule,   \* which _delays are in force
    attempt,    \* index of the delay before the next call
    retryError,  \* the error the node returns
    trimmed,    \* the prompt was cut to one pair of messages
    calls,      \* history: LLM calls made
    waited,     \* history: seconds slept before the last call
    seen        \* history: the marks of the last failure

loopVars == <<outcome, schedule, attempt, retryError, trimmed, calls, waited, seen>>

LoopTypeOK ==
    /\ outcome \in {"pending", "reply", "fatal", "error"}
    /\ schedule \in {"standard", "soft"}
    /\ attempt \in 0..Tries
    /\ retryError \in {NoError} \cup LlmErrors
    /\ trimmed \in BOOLEAN
    /\ calls \in 0..CallCap
    /\ waited \in Nat
    /\ seen \subseteq Marks

LoopInit ==
    /\ outcome = "pending"
    /\ schedule = "standard"
    /\ attempt = 0
    /\ retryError = NoError
    /\ trimmed = FALSE
    /\ calls = 0
    /\ waited = 0
    /\ seen = {}

Delay(s, a) == IF s = "soft" THEN SoftDelays[a + 1] ELSE StandardDelays[a + 1]

\* Sleep for the delay, then call the LLM.
Call ==
    /\ outcome = "pending"
    /\ attempt < Tries
    /\ calls' = IF calls < CallCap THEN calls + 1 ELSE calls
    /\ waited' = Delay(schedule, attempt)

Answer_Stale ==
    /\ Call
    /\ outcome' = "reply"
    /\ UNCHANGED <<schedule, attempt, retryError, trimmed, seen>>

Answer ==
    /\ Call
    /\ outcome' = "reply"
    /\ retryError' = NoError
    /\ UNCHANGED <<schedule, attempt, trimmed, seen>>

\* The errors with which the node itself ends the run.
FatalFailure(marks) ==
    /\ Call
    /\ seen' = marks
    /\ marks \cap FatalMarks # {}
    /\ attempt' = attempt + 1
    /\ outcome' = "fatal"
    /\ retryError' = Rejected
    /\ UNCHANGED <<schedule, trimmed>>

\* The emergency trim is for the first attempt, counted after the increment.
TrimAllowed == attempt + 1 = 0 /\ LongPrompt

Overflow(marks) ==
    /\ Call
    /\ seen' = marks
    /\ marks \cap FatalMarks = {} /\ "overflow" \in marks
    /\ attempt' = attempt + 1
    /\ IF TrimAllowed
       THEN trimmed' = TRUE /\ UNCHANGED <<outcome, retryError>>
       ELSE outcome' = "error" /\ retryError' = Rejected /\ UNCHANGED trimmed
    /\ UNCHANGED schedule

Harden_Again(marks) ==
    IF "soft" \in marks
    THEN schedule' = "soft" /\ attempt' = 1
    ELSE UNCHANGED schedule /\ attempt' = attempt + 1

\* The first soft rate limit switches to the longer delays and starts them at
\* their second entry.
Harden(marks) ==
    IF "soft" \in marks /\ schedule = "standard"
    THEN schedule' = "soft" /\ attempt' = 1
    ELSE UNCHANGED schedule /\ attempt' = attempt + 1

Later_Fatal(marks) == "overflow" \notin marks

Later(marks) == marks \cap (FatalMarks \cup {"overflow"}) = {}

\* Rate limited or overloaded, and delays are left: once more.
Retry(marks) ==
    /\ Call
    /\ seen' = marks
    /\ Later(marks)
    /\ Harden(marks)
    /\ attempt' < Tries
    /\ \/ "soft" \in marks
       \/ "transient" \in marks /\ marks \cap {"daily", "no_tools"} = {}
    /\ retryError' = RateLimited(TRUE)
    /\ UNCHANGED <<outcome, trimmed>>

Verdict_Retryable(marks, left) ==
    IF "daily" \in marks THEN RateLimited(FALSE)
    ELSE IF "no_tools" \in marks THEN Rejected
    ELSE RateLimited(TRUE)

\* What the node returns when it does not call again.
Verdict(marks, left) ==
    IF "daily" \in marks THEN RateLimited(FALSE)
    ELSE IF "no_tools" \in marks THEN Rejected
    ELSE RateLimited(left)

GiveUp(marks) ==
    /\ Call
    /\ seen' = marks
    /\ Later(marks)
    /\ Harden(marks)
    /\ "soft" \in marks => attempt' = Tries
    /\ \/ marks \cap {"daily", "no_tools"} # {}
       \/ "transient" \notin marks
       \/ attempt' = Tries
    /\ retryError' = Verdict(marks, attempt' < Tries)
    /\ outcome' = "error"
    /\ UNCHANGED trimmed

Fail(marks) ==
    FatalFailure(marks) \/ Overflow(marks) \/ Retry(marks) \/ GiveUp(marks)

Done == outcome # "pending" /\ UNCHANGED loopVars

LoopNext == Answer \/ (\E marks \in SUBSET Marks : Fail(marks)) \/ Done

LoopSpec == LoopInit /\ [][LoopNext]_loopVars

-----------------------------------------------------------------------------
(* Correctness. *)

\* However the two schedules are mixed, the LLM is called at most once per
\* entry of both, their common first entry counted once (reason.py _delays).
CallsBounded == calls <= 2 * Tries - 1

\* Only an error that no test recognises, met with delays left, is handed to
\* ERROR_HANDLER as recoverable; every other error ends the run (reason.py).
OnlyUnknownIsRecoverable ==
    outcome = "error" /\ retryError.recoverable =>
        /\ seen = {}
        /\ attempt < Tries

\* An error that ends the run for good is never retried, whatever else its text
\* says: the fatal tests come first (reason.py _make_fatal_exit).
FatalIsFinal ==
    seen \cap FatalMarks # {} <=> outcome = "fatal"

\* What AgentGraph assumes of the node: an answer clears the error, and a
\* failure is one of the three errors REASON may return.
OutcomeIsKnown ==
    /\ outcome = "reply" => retryError = NoError
    /\ outcome \in {"fatal", "error"} => retryError \in LlmErrors
    /\ outcome = "fatal" => ~retryError.recoverable

\* What the node returns says what happened: the class of the last failure alone
\* decides whether ERROR_HANDLER ends the run or lets the LLM try again
\* (reason.py, the classification of failures).
FailuresClassified ==
    /\ FatalIsFinal
    /\ OnlyUnknownIsRecoverable
    /\ OutcomeIsKnown

\* The loop is a bounded one, and nothing leaves its range (reason.py _delays).
LoopBounded == LoopTypeOK /\ CallsBounded
=============================================================================
