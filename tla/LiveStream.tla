----------------------------- MODULE LiveStream -----------------------------
(***************************************************************************)
(* How the page of a running test learns what became of the run.  The page *)
(* has two sources: the websocket, which sends the record once and then    *)
(* relays the run's events (routes/ws.py, redis_store.py subscribe_run),   *)
(* and GET /runs/{run_id}, polled until it answers a terminal status       *)
(* (hooks.ts useRun).  The worker writes the record and publishes events,  *)
(* and the trace collector publishes more of them in tasks of its own.     *)
(*                                                                         *)
(* The record is that of RunRecord when no update is lost and no worker    *)
(* crashes.  Events that neither carry a status nor end a socket are not   *)
(* told apart from their absence.                                          *)
(***************************************************************************)
EXTENDS Naturals, Sequences, SequencesExt

CONSTANTS
    Results,       \* the verdicts RunManager.run may return
    NoStatus,      \* the page knows no status yet
    Fetches,       \* bound: GET requests of the page in flight
    Backlog,       \* bound: the collector adds to no longer backlog
    Cancels        \* somebody may cancel the run

Terminal == {"passed", "failed", "errored", "timed_out", "blocked", "cancelled"}
Statuses == {"queued", "running"} \cup Terminal

ASSUME ResultAssumption == Results \subseteq Terminal \ {"cancelled"}
ASSUME StatusAssumption == NoStatus \notin Statuses
ASSUME StreamAssumption == Fetches \in Nat \ {0} /\ Backlog \in Nat \ {0}
ASSUME FlagAssumption == Cancels \in BOOLEAN

VARIABLES
    record,     \* the status in the run's record
    worker,     \* the progress of _execute
    result,     \* the status the worker is about to record
    emits,      \* events the collector has made tasks for
    overruled,  \* history: the end that a later error has replaced
    cancelled,  \* history: the run was cancelled
    socket,     \* the websocket handler
    wire,       \* what is on its way to the page through the socket
    live,       \* liveStatus of useRunTraceStream
    refetch,    \* liveStatus became terminal: the page has to ask
    polled,     \* status of useRun's data
    polling,    \* useRun's interval is set
    inflight,   \* what the GET requests on their way back have read
    overtaken   \* history: an older answer has replaced one that was terminal

run == <<record, worker, result, emits, overruled, cancelled>>
page == <<live, refetch, polled, polling, inflight, overtaken>>
streamVars == <<run, socket, wire, page>>

\* An event, or the current_state message, with the status it carries.
Event(type, status) == [type |-> type, status |-> status]
EventTypes == {"current_state", "run_started", "error", "complete"}

StreamTypeOK ==
    /\ record \in Statuses
    /\ worker \in {"queued", "started", "running", "finalized", "decided",
                   "recorded", "announced", "raised", "failed", "reported",
                   "done", "killed"}
    /\ result \in Results \cup {NoStatus, "errored"}
    /\ emits \subseteq {"error", "complete"}
    /\ overruled \in Statuses \cup {NoStatus}
    /\ cancelled \in BOOLEAN
    /\ socket \in {"none", "accepted", "looked", "subscribed", "closed"}
    /\ wire \in Seq([type: EventTypes, status: Statuses \cup {NoStatus}])
    /\ live \in Statuses \cup {NoStatus}
    /\ refetch \in BOOLEAN
    /\ polled \in Statuses \cup {NoStatus}
    /\ polling \in BOOLEAN
    /\ inflight \in Seq(Statuses)
    /\ overtaken \in BOOLEAN

\* The POST handler has answered; the page is not open yet.
StreamInit ==
    /\ record = "queued"
    /\ worker = "queued"
    /\ result = NoStatus
    /\ emits = {}
    /\ overruled = NoStatus
    /\ cancelled = FALSE
    /\ socket = "none"
    /\ wire = <<>>
    /\ live = NoStatus
    /\ refetch = FALSE
    /\ polled = NoStatus
    /\ polling = FALSE
    /\ inflight = <<>>
    /\ overtaken = FALSE

\* Redis gives a published event to who is subscribed and to nobody later.
Publish(event) ==
    wire' = IF socket = "subscribed" THEN Append(wire, event) ELSE wire

-----------------------------------------------------------------------------
(* The worker and its trace collector. *)

Start ==
    /\ worker = "queued"
    /\ worker' = "started"
    /\ record' = "running"
    /\ UNCHANGED <<result, emits, overruled, cancelled, socket, wire, page>>

AnnounceStart ==
    /\ worker = "started"
    /\ worker' = "running"
    /\ Publish(Event("run_started", "running"))
    /\ UNCHANGED <<record, result, emits, overruled, cancelled, socket, page>>

\* REASON reports an error, which the run may well survive.
EmitError ==
    /\ worker = "running"
    /\ emits' = emits \cup {"error"}
    /\ UNCHANGED <<record, worker, result, overruled, cancelled, socket, wire, page>>

\* FINALIZE reports the end of the graph, without a status.
EmitComplete ==
    /\ worker = "running"
    /\ worker' = "finalized"
    /\ emits' = emits \cup {"complete"}
    /\ UNCHANGED <<record, result, overruled, cancelled, socket, wire, page>>

\* The tasks of the collector run in any order, as long as the loop does.
EmitterRuns(type) ==
    /\ type \in emits
    /\ Len(wire) < Backlog
    /\ emits' = emits \ {type}
    /\ Publish(Event(type, NoStatus))
    /\ UNCHANGED <<record, worker, result, overruled, cancelled, socket, page>>

\* RunManager.run returns a verdict from FINALIZE, or "errored" because
\* something raised inside of it.
Decide ==
    /\ \/ worker = "finalized" /\ result' \in Results
       \/ worker \in {"running", "finalized"} /\ result' = "errored"
    /\ worker' = "decided"
    /\ UNCHANGED <<record, emits, overruled, cancelled, socket, wire, page>>

RecordResult ==
    /\ worker = "decided"
    /\ worker' = "recorded"
    /\ record' = result
    /\ UNCHANGED <<result, emits, overruled, cancelled, socket, wire, page>>

\* Operators with a suffix are seeded faults: a property must notice them.
Announce_Unrecorded ==
    /\ worker \in {"decided", "recorded"}
    /\ worker' = "announced"
    /\ Publish(Event("complete", result))
    /\ UNCHANGED <<record, result, emits, overruled, cancelled, socket, page>>

Announce ==
    /\ worker = "recorded"
    /\ worker' = "announced"
    /\ Publish(Event("complete", result))
    /\ UNCHANGED <<record, result, emits, overruled, cancelled, socket, page>>

\* An exception ends what _execute does: one of the test case, the run or its
\* artifacts, or one of the notifications, which are sent after the "complete".
Raise ==
    /\ worker \in {"running", "finalized", "decided", "announced"}
    /\ worker' = "raised"
    /\ result' = "errored"
    /\ UNCHANGED <<record, emits, overruled, cancelled, socket, wire, page>>

\* The handler of exceptions records the error, over whatever is recorded.
RecordError ==
    /\ worker = "raised"
    /\ worker' = "failed"
    /\ record' = result
    /\ overruled' = IF record \in Terminal THEN record ELSE NoStatus
    /\ UNCHANGED <<result, emits, cancelled, socket, wire, page>>

\* It publishes an "error", which has no status.
AnnounceError ==
    /\ worker = "failed"
    /\ worker' = "reported"
    /\ Publish(Event("error", NoStatus))
    /\ UNCHANGED <<record, result, emits, overruled, cancelled, socket, page>>

\* The loop ends, and with it the tasks that are still pending.
Exit ==
    /\ worker \in {"announced", "reported"}
    /\ worker' = "done"
    /\ emits' = {}
    /\ UNCHANGED <<record, result, overruled, cancelled, socket, wire, page>>

\* DELETE on a run in flight records the cancellation and publishes no event.
\* The revocation kills the worker unless it is missed.
Cancel ==
    /\ Cancels /\ ~cancelled
    /\ record \in {"queued", "running"}
    /\ cancelled' = TRUE
    /\ record' = "cancelled"
    /\ \/ worker' = "killed" /\ emits' = {}
       \/ UNCHANGED <<worker, emits>>
    /\ UNCHANGED <<result, overruled, socket, wire, page>>

-----------------------------------------------------------------------------
(* The websocket. *)

\* The page is opened: it connects, and asks for the run at once and then
\* every three seconds.
Open ==
    /\ socket = "none"
    /\ socket' = "accepted"
    /\ polling' = TRUE
    /\ UNCHANGED <<run, wire, live, refetch, polled, inflight, overtaken>>

Look ==
    /\ socket = "accepted"
    /\ wire' = Append(wire, Event("current_state", record))
    /\ socket' = IF record \in Terminal THEN "closed" ELSE "looked"
    /\ UNCHANGED <<run, page>>

Subscribe ==
    /\ socket = "looked"
    /\ socket' = "subscribed"
    /\ UNCHANGED <<run, wire, page>>

Ends_ByStatus(event) ==
    event.type # "current_state" /\ event.status \in Terminal

Ends(event) ==
    \/ event.type \in {"complete", "error"}
    \/ event.type # "current_state" /\ event.status \in Terminal

Shows_Type(event) ==
    IF event.type = "complete" THEN event.type
    ELSE IF event.status # NoStatus THEN event.status ELSE live

\* The page takes the status of the events that carry one.
Shows(event) == IF event.status # NoStatus THEN event.status ELSE live

\* What follows the event that ends the socket is never relayed.
Receive ==
    /\ wire # <<>>
    /\ wire' = IF Ends(Head(wire)) THEN <<>> ELSE Tail(wire)
    /\ socket' = IF Ends(Head(wire)) THEN "closed" ELSE socket
    /\ live' = Shows(Head(wire))
    /\ refetch' = (refetch \/ (live' \in Terminal /\ live' # live))
    /\ UNCHANGED <<run, polled, polling, inflight, overtaken>>

-----------------------------------------------------------------------------
(* The polled request. *)

Ask == /\ Len(inflight) < Fetches
       /\ inflight' = Append(inflight, record)

Fetch ==
    /\ polling
    /\ Ask
    /\ UNCHANGED <<run, socket, wire, live, refetch, polled, polling,
                   overtaken>>

Refetch ==
    /\ refetch
    /\ Ask
    /\ refetch' = FALSE
    /\ UNCHANGED <<run, socket, wire, live, polled, polling, overtaken>>

StopsPolling_Always(status) == TRUE

StopsPolling(status) == status \in Terminal

\* The requests overlap, and the answers come in any order.
Arrive(i) ==
    /\ i \in 1..Len(inflight)
    /\ polled' = inflight[i]
    /\ polling' = (polling /\ ~StopsPolling(inflight[i]))
    /\ inflight' = RemoveAt(inflight, i)
    /\ overtaken' = (overtaken \/ (polled \in Terminal /\ polled' \notin Terminal))
    /\ UNCHANGED <<run, socket, wire, live, refetch>>

\* A request that fails leaves the data as it is.
FetchFails(i) ==
    /\ i \in 1..Len(inflight)
    /\ inflight' = RemoveAt(inflight, i)
    /\ UNCHANGED <<run, socket, wire, live, refetch, polled, polling,
                   overtaken>>

\* RunDetailPanel: a terminal answer counts for more than the socket.
Shown == IF polled \in Terminal \/ live = NoStatus THEN polled ELSE live

Work == Start \/ AnnounceStart \/ EmitComplete \/ Decide \/ RecordResult
        \/ Announce \/ Raise \/ RecordError \/ AnnounceError \/ Exit
Emit == EmitError \/ \E type \in emits : EmitterRuns(type)
Serve == Look \/ Subscribe
Arrival == \E i \in 1..Fetches : Arrive(i)

Idle == /\ worker \in {"done", "killed"}
        /\ wire = <<>> /\ inflight = <<>> /\ ~polling /\ ~refetch
        /\ UNCHANGED streamVars

StreamNext ==
    \/ Work \/ Emit \/ Cancel
    \/ Open \/ Serve \/ Receive
    \/ Fetch \/ Refetch \/ Arrival
    \/ \E i \in 1..Fetches : FetchFails(i)
    \/ Idle

StreamSpec == StreamInit /\ [][StreamNext]_streamVars

\* The worker and the API run on, and of the requests that the page repeats
\* some are answered.  Nobody has to open the page, cancel the run or meet an
\* error.
FairStream ==
    /\ StreamSpec
    /\ WF_streamVars(Work) /\ WF_streamVars(Serve) /\ WF_streamVars(Receive)
    /\ WF_streamVars(Fetch) /\ WF_streamVars(Refetch) /\ SF_streamVars(Arrival)

-----------------------------------------------------------------------------
(* Correctness. *)

\* The worker missed its revocation and goes on with a run that is cancelled.
Overwritten == cancelled /\ worker # "killed"

\* The page never shows an end that was not recorded, whichever of its sources
\* is faster: it is the recorded one, or the one that the error of a failed
\* notification has replaced since, unless a cancellation is overwritten (tasks.py
\* updates the record before it publishes, 267-268, and again at 291-299; page.tsx
\* status).
ShownIsRecorded ==
    Shown \in Terminal => Shown \in {record, overruled} \/ Overwritten

\* Whatever is relayed, polled and overtaken, the page stays a page of this run.
PageIsTrue == StreamTypeOK /\ ShownIsRecorded

\* A socket that was subscribed before the worker announced the end is closed in
\* the end, whatever else was relayed, unless the worker was killed, which is
\* announced by nobody (ws.py trace_ws).
SocketEnds ==
    socket = "subscribed" /\ worker \in {"queued", "started", "running"}
        ~> socket = "closed" \/ worker = "killed"

\* A page that is open shows, from some time on, the end of the run for good,
\* even if the socket missed it or was closed early by an event that is not the
\* last one.  Three things may keep it from the recorded end: a notification that
\* fails after the end was announced, because the page stops asking at the first
\* end it is told and stays with that one; a cancellation that the worker
\* overwrites; and an answer that an older one replaces after the polling has
\* stopped (tasks.py:288, hooks.ts useRun, page.tsx).
PageSettles ==
    <>[](socket # "none" => \/ Shown \in Terminal /\ Shown \in {record, overruled}
                            \/ Overwritten \/ overtaken)

\* The page and its socket both come to the end of the run (ws.py, hooks.ts).
EndIsLearnt == SocketEnds /\ PageSettles
=============================================================================
