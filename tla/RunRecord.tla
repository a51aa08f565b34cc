------------------------------ MODULE RunRecord ------------------------------
(***************************************************************************)
(* The record of one run in Redis (key hawkeye:run:{run_id}) and everyone  *)
(* who writes it: the two save tasks of JobQueue.submit, the POST handler  *)
(* that waited for them, the Celery worker that executes the run, the      *)
(* worker's sandbox_ready emitter, and the DELETE handlers that cancel or  *)
(* delete it.  Every writer but the DELETE command reads the whole record, *)
(* changes its copy and writes the copy back, in separate Redis commands.  *)
(***************************************************************************)
EXTENDS Naturals, FiniteSets

CONSTANTS
    Requests,       \* the DELETE /runs/{run_id} requests that may arrive
    Results,        \* the verdicts RunManager.run may return
    Deliveries,     \* bound: how often the broker delivers the task
    NoRecord,       \* the key does not exist
    Nothing,        \* no copy is held
    Described,      \* the POST handler knows a name or viewport to add
    Submitted       \* through JobQueue.submit, not the trigger webhook

Terminal == {"passed", "failed", "errored", "timed_out", "blocked", "cancelled"}
Statuses == {"queued", "running"} \cup Terminal

ASSUME RequestAssumption ==
    /\ IsFiniteSet(Requests)
    /\ Requests \cap {"save", "taskId", "submit", "worker", "emitter"} = {}
ASSUME ResultAssumption ==
    /\ Results \subseteq Terminal \ {"cancelled"}
    /\ Results # {}
ASSUME DeliveryAssumption == Deliveries \in Nat \ {0}
ASSUME FlagAssumption == Described \in BOOLEAN /\ Submitted \in BOOLEAN

Record == [status: Statuses, task: BOOLEAN, named: BOOLEAN]

ASSUME NoRecordAssumption == NoRecord \notin Record /\ Nothing \notin Record
ASSUME NothingAssumption == NoRecord # Nothing

Clients == {"save", "taskId", "submit", "worker", "emitter"} \cup Requests

VARIABLES
    record,       \* the value of the key
    held,         \* the copy each client works on
    handler,      \* the POST handler: "asleep", "awake", "done"
    phase,        \* the task: "broker", the worker's progress, "ack", "done", "killed"
    result,       \* the status the worker writes at its end, or wrote last
    deliveries,   \* how often the task was delivered
    told,         \* history: the status of the worker's last end event
    emitted,      \* the sandbox_ready event of this delivery was emitted
    revoked,      \* a revocation is known to the worker's main process
    request,      \* the progress of each DELETE request
    deleted,      \* history: a DELETE removed the record
    lost          \* history: an update was lost

worker == <<phase, result, deliveries, told, emitted, revoked>>
others == <<request, deleted>>
vars == <<record, held, handler, worker, others, lost>>

Updating == {"start", "meta", "final", "error"}
Executing == Updating \cup {"load", "run", "announce", "notify", "report", "leave"}
Phases == Executing \cup {"broker", "ack", "done", "killed"}

TypeOK ==
    /\ record \in Record \cup {NoRecord}
    /\ held \in [Clients -> Record \cup {NoRecord, Nothing}]
    /\ handler \in {"asleep", "awake", "done"}
    /\ phase \in Phases
    /\ result \in Results \cup {"none", "errored"}
    /\ deliveries \in 0..Deliveries
    /\ told \in Results \cup {"none", "errored"}
    /\ emitted \in BOOLEAN
    /\ revoked \in BOOLEAN
    /\ request \in [Requests -> {"idle", "delete", "fetch", "cancel", "done"}]
    /\ deleted \in BOOLEAN
    /\ lost \in BOOLEAN

Queued == [status |-> "queued", task |-> FALSE, named |-> FALSE]

\* JobQueue.submit: the task is handed to the broker while the two tasks that
\* save the record have not started.  The second one saves what the first did,
\* and the id of the task.  The trigger webhook hands over the task and no more.
Init ==
    /\ record = NoRecord
    /\ held = [c \in Clients |-> IF c = "save" /\ Submitted THEN NoRecord
                                 ELSE IF c = "taskId" /\ Submitted THEN Queued
                                 ELSE Nothing]
    /\ handler = IF Submitted THEN "asleep" ELSE "done"
    /\ phase = "broker"
    /\ result = "none"
    /\ deliveries = 0
    /\ told = "none"
    /\ emitted = FALSE
    /\ revoked = FALSE
    /\ request = [r \in Requests |-> "idle"]
    /\ deleted = FALSE
    /\ lost = FALSE

-----------------------------------------------------------------------------
(* The Redis commands. *)

Read(c) ==
    /\ held[c] = Nothing
    /\ held' = [held EXCEPT ![c] = record]
    /\ UNCHANGED <<record, lost>>

\* A write loses an update when the record is not what the copy was made from.
Write(c, new) ==
    /\ record' = new
    /\ held' = [held EXCEPT ![c] = Nothing]
    /\ lost' = (lost \/ record # held[c])

\* An update that found no record is lost unless the record had been deleted.
Skip(c) ==
    /\ held[c] = NoRecord
    /\ held' = [held EXCEPT ![c] = Nothing]
    /\ lost' = (lost \/ ~deleted)
    /\ UNCHANGED record

Forget(cs) == held' = [c \in Clients |-> IF c \in cs THEN Nothing ELSE held[c]]

-----------------------------------------------------------------------------
(* JobQueue.submit and the POST handler that called it. *)

Save ==
    /\ held["save"] # Nothing
    /\ Write("save", Queued)
    /\ UNCHANGED <<handler, worker, others>>

\* Operators with a suffix are seeded faults: a property must notice them.
SaveTaskId_Plain ==
    /\ held["taskId"] # Nothing
    /\ Write("taskId", Queued)
    /\ UNCHANGED <<handler, worker, others>>

SaveTaskId ==
    /\ held["taskId"] # Nothing
    /\ Write("taskId", [Queued EXCEPT !.task = TRUE])
    /\ UNCHANGED <<handler, worker, others>>

\* After 50 ms the handler reads the record it answers with.
Wake ==
    /\ handler = "asleep"
    /\ handler' = "awake"
    /\ Read("submit")
    /\ UNCHANGED <<worker, others>>

Describe ==
    /\ handler = "awake"
    /\ handler' = "done"
    /\ IF held["submit"] # NoRecord /\ Described /\ ~held["submit"].named
       THEN Write("submit", [held["submit"] EXCEPT !.named = TRUE])
       ELSE Forget({"submit"}) /\ UNCHANGED <<record, lost>>
    /\ UNCHANGED <<worker, others>>

-----------------------------------------------------------------------------
(* The worker (tasks.py _execute).  In the phases start, meta and final,    *)
(* and in the error phase of its exception handler, it updates the record,  *)
(* which is a GET and, if there is a record, a SET.                         *)

Deliver ==
    /\ phase = "broker"
    /\ ~revoked
    /\ deliveries < Deliveries
    /\ deliveries' = deliveries + 1
    /\ phase' = "start"
    /\ UNCHANGED <<record, held, handler, result, told, emitted, revoked,
                   others, lost>>

\* A task whose id is revoked is thrown away when it is received.
Discard ==
    /\ phase = "broker"
    /\ revoked
    /\ phase' = "killed"
    /\ UNCHANGED <<record, held, handler, result, deliveries, told,
                   emitted, revoked, others, lost>>

UpdateRead ==
    /\ phase \in Updating
    /\ Read("worker")
    /\ UNCHANGED <<handler, worker, others>>

Updated_Unfinished(copy) ==
    CASE phase = "start" -> [copy EXCEPT !.status = "running"]
      [] OTHER           -> [copy EXCEPT !.named = TRUE]

Updated(copy) ==
    CASE phase = "start" -> [copy EXCEPT !.status = "running"]
      [] phase = "meta"  -> [copy EXCEPT !.named = TRUE]
      [] phase \in {"final", "error"} -> [copy EXCEPT !.status = result]

NextPhase ==
    CASE phase = "start" -> "load" [] phase = "meta" -> "run"
      [] phase = "final" -> "announce" [] phase = "error" -> "report"

UpdateWrite ==
    /\ held["worker"] \in Record
    /\ Write("worker", Updated(held["worker"]))
    /\ phase' = NextPhase
    /\ UNCHANGED <<handler, result, deliveries, told, emitted, revoked,
                   others>>

UpdateSkip_Create ==
    /\ held["worker"] = NoRecord
    /\ Write("worker", Updated(Queued))
    /\ phase' = NextPhase
    /\ UNCHANGED <<handler, result, deliveries, told, emitted, revoked,
                   others>>

UpdateSkip ==
    /\ Skip("worker")
    /\ phase' = NextPhase
    /\ UNCHANGED <<handler, result, deliveries, told, emitted, revoked,
                   others>>

\* The test case is loaded and its secrets are injected.
Load ==
    /\ phase = "load"
    /\ phase' = "meta"
    /\ UNCHANGED <<record, held, handler, result, deliveries, told,
                   emitted, revoked, others, lost>>

Run_Unsaved ==
    /\ phase = "run"
    /\ \E verdict \in Results : result' = verdict
    /\ phase' = "announce"
    /\ UNCHANGED <<record, held, handler, deliveries, told, emitted,
                   revoked, others, lost>>

\* RunManager.run returns and its traces and artifacts are saved.
Run ==
    /\ phase = "run"
    /\ \E verdict \in Results : result' = verdict
    /\ phase' = "final"
    /\ UNCHANGED <<record, held, handler, deliveries, told, emitted,
                   revoked, others, lost>>

Raise_Unsaved ==
    /\ phase \in {"load", "run", "notify"}
    /\ result' = "errored"
    /\ phase' = "report"
    /\ UNCHANGED <<record, held, handler, deliveries, told, emitted,
                   revoked, others, lost>>

\* An exception goes to the handler: one of the test case, of the run or of its
\* artifacts, and one of the notifications, when the end is announced already.
Raise ==
    /\ phase \in {"load", "run", "notify"}
    /\ result' = "errored"
    /\ phase' = "error"
    /\ UNCHANGED <<record, held, handler, deliveries, told, emitted,
                   revoked, others, lost>>

\* The sandbox is ready: a task of its own adds the noVNC URL to the record.
\* The end of the task's event loop cancels it.
EmitRead ==
    /\ phase = "run"
    /\ ~emitted
    /\ emitted' = TRUE
    /\ Read("emitter")
    /\ UNCHANGED <<handler, phase, result, deliveries, told, revoked,
                   others>>

EmitWrite ==
    /\ held["emitter"] \in Record
    /\ Write("emitter", held["emitter"])
    /\ UNCHANGED <<handler, worker, others>>

EmitSkip ==
    /\ Skip("emitter")
    /\ UNCHANGED <<handler, worker, others>>

\* The worker publishes "complete", its exception handler "error".
Announce ==
    /\ phase \in {"announce", "report"}
    /\ told' = result
    /\ phase' = IF phase = "announce" THEN "notify" ELSE "leave"
    /\ UNCHANGED <<record, held, handler, result, deliveries, emitted, revoked,
                   others, lost>>

\* The notifications are sent and the task returns, which ends its event loop.
\* If those of the exception handler fail the task fails, but is over as well.
Return ==
    /\ phase \in {"notify", "leave"}
    /\ phase' = "ack"
    /\ Forget({"emitter"})
    /\ UNCHANGED <<record, handler, result, deliveries, told, emitted, revoked,
                   others, lost>>

-----------------------------------------------------------------------------
(* Celery: tasks are acknowledged after they return (task_acks_late). *)

Ack ==
    /\ phase = "ack"
    /\ phase' = "done"
    /\ UNCHANGED <<record, held, handler, result, deliveries, told,
                   emitted, revoked, others, lost>>

\* revoke(terminate=True) kills the process that executes the task.
Kill ==
    /\ revoked
    /\ phase \in Executing
    /\ phase' = "killed"
    /\ Forget({"worker", "emitter"})
    /\ UNCHANGED <<record, handler, result, deliveries, told, emitted,
                   revoked, others, lost>>

\* The whole worker dies, and its revocations with it: a task that was not
\* acknowledged goes back to the broker.
Crash ==
    /\ phase \in Executing \cup {"ack"}
    /\ deliveries < Deliveries
    /\ phase' = "broker"
    /\ emitted' = FALSE
    /\ revoked' = FALSE
    /\ Forget({"worker", "emitter"})
    /\ UNCHANGED <<record, handler, result, deliveries, told, others, lost>>

-----------------------------------------------------------------------------
(* DELETE /runs/{run_id}: a finished run is deleted, any other cancelled.   *)

Step(r, from, to) == request[r] = from /\ request' = [request EXCEPT ![r] = to]

InFlight == record # NoRecord /\ record.status \in {"queued", "running"}

Look(r) ==
    /\ \/ record = NoRecord /\ Step(r, "idle", "done")
       \/ record # NoRecord /\ ~InFlight /\ Step(r, "idle", "delete")
       \/ InFlight /\ Step(r, "idle", "fetch")
    /\ UNCHANGED <<record, held, handler, worker, deleted, lost>>

Delete(r) ==
    /\ Step(r, "delete", "done")
    /\ record' = NoRecord
    /\ deleted' = (deleted \/ record # NoRecord)
    /\ UNCHANGED <<held, handler, worker, lost>>

\* JobQueue.cancel: the task is revoked when the record names it.  The
\* revocation is a broadcast that a worker may miss.
Fetch(r) ==
    /\ \/ /\ InFlight
          /\ Step(r, "fetch", "cancel")
          /\ \E heard \in BOOLEAN :
                revoked' = (revoked \/ (heard /\ record.task
                                            /\ phase \notin {"done", "killed"}))
          /\ Read(r)
       \/ /\ ~InFlight
          /\ Step(r, "fetch", "done")
          /\ UNCHANGED <<record, held, revoked, lost>>
    /\ UNCHANGED <<handler, phase, result, deliveries, told, emitted, deleted>>

Cancel(r) ==
    /\ Step(r, "cancel", "done")
    /\ Write(r, [held[r] EXCEPT !.status = "cancelled"])
    /\ UNCHANGED <<handler, worker, deleted>>

Submission == Save \/ SaveTaskId \/ Wake \/ Describe
Update == UpdateRead \/ UpdateWrite \/ UpdateSkip
Execute == Load \/ Run \/ Raise \/ Announce \/ Return \/ Ack
Emit == EmitRead \/ EmitWrite \/ EmitSkip
Handle(r) == Delete(r) \/ Fetch(r) \/ Cancel(r)

\* Nothing is on its way to the record any more.
Settled ==
    /\ \A c \in Clients : held[c] = Nothing
    /\ handler = "done"
    /\ phase \in {"done", "killed"}
    /\ \A r \in Requests : request[r] \in {"idle", "done"}

Idle == Settled /\ UNCHANGED vars

Next ==
    \/ Submission \/ Deliver \/ Discard \/ Update \/ Execute \/ Emit
    \/ Kill \/ Crash
    \/ \E r \in Requests : Look(r) \/ Handle(r)
    \/ Idle

Spec == Init /\ [][Next]_vars

-----------------------------------------------------------------------------
(* Correctness. *)

\* The record of a run that was executed to its end shows the worker's result,
\* unless an update was lost: cancellations, restarts and the other writers may
\* come in any order (tasks.py _update_record, job_queue.py, runs.py).
SettledHasResult ==
    Settled /\ phase = "done" /\ record # NoRecord /\ ~lost =>
        record.status = result

\* Whoever reads the record after the worker's end event finds the status that
\* was announced, or the error of a notification that failed afterwards and that
\* overrules it, unless an update was lost or the task was delivered again
\* (tasks.py 267-268, 288, 291-299; ws.py reads the record first).
AnnouncedIsRecorded ==
    told # "none" /\ deliveries = 1 /\ record # NoRecord /\ ~lost =>
        record.status \in {told, result}

\* A deleted record does not come back, even though the worker, an emitter, a
\* save or another request may still be at work, unless an update was lost
\* (runs.py delete_run, tasks.py "if data").
DeletedStaysDeleted == deleted /\ ~lost => record = NoRecord

\* Once both saves are made the record names the task, so that a cancellation
\* revokes it, unless an update was lost (job_queue.py _set_task_id).
RevocableOnceSaved ==
    /\ held["save"] = Nothing /\ held["taskId"] = Nothing
    /\ Submitted /\ record # NoRecord /\ ~lost
    => record.task

\* What the record tells whoever reads it: how the run ended, as soon as that is
\* announced, and which task to revoke (tasks.py, job_queue.py, runs.py).
RecordTells ==
    /\ TypeOK
    /\ SettledHasResult
    /\ AnnouncedIsRecorded
    /\ RevocableOnceSaved

=============================================================================
