--------------------------- MODULE RunRecordProofs ---------------------------
(***************************************************************************)
(* What is known of runs: what the record of a run tells its readers, for  *)
(* every number of DELETE requests, of deliveries and of verdicts; and     *)
(* what a tab shows of the runs, for every number of runs and projects.    *)
(*                                                                         *)
(* A write of the record that loses no update was made from the record it  *)
(* replaces, so that the first invariant is about the record and, of the   *)
(* copies, only about those that were not read from it or that their       *)
(* holder judged.  The second one keeps the lists of the projects apart    *)
(* in the cache and in every answer under way: what a page shows is copied *)
(* from there.                                                             *)
(***************************************************************************)
EXTENDS RunRecord, RunConsole, FiniteSetTheorems, SequenceTheorems, TLAPS

Finished == {"announce", "notify", "report", "leave", "ack", "done"}

\* The copies that are not just what the record was.
HeldInv ==
    /\ held["save"] \in {NoRecord, Nothing}
    /\ held["taskId"] \in {Queued, Nothing}
    /\ held["worker"] # Nothing => phase \in Updating
    /\ handler = "awake" => held["submit"] # Nothing
    /\ \A r \in Requests : request[r] = "cancel" =>
          held[r] \in Record /\ held[r].status \in {"queued", "running"}

\* Until the first save is made nobody found a record.
UnsavedInv ==
    ~lost /\ held["save"] # Nothing =>
        /\ record = NoRecord /\ ~deleted /\ held["taskId"] = Queued
        /\ phase \in {"broker", "start", "killed"} /\ told = "none"

\* Where a worker that has announced an end may be, unless it was delivered the
\* task again.
After == {"notify", "error", "report", "leave", "ack", "done", "killed", "broker"}

\* A worker that is at work was delivered the task, and has the result when it
\* writes it.  An end that was announced is that of an earlier delivery, or the
\* worker has no more to do than to notify or to report an error.
WorkerInv ==
    /\ phase \in {"final"} \cup Finished => result \in Results \cup {"errored"}
    /\ phase = "error" => result = "errored"
    /\ phase \in Executing \cup {"ack", "done"} => deliveries >= 1
    /\ phase = "notify" => told = result
    /\ told # "none" => deliveries >= 1
    /\ told # "none" /\ deliveries = 1 => phase \in After

FinishedInv ==
    phase \in Finished /\ record # NoRecord /\ ~lost => record.status = result

IInv == /\ TypeOK /\ HeldInv /\ UnsavedInv /\ WorkerInv /\ FinishedInv
        /\ AnnouncedIsRecorded /\ DeletedStaysDeleted /\ RevocableOnceSaved

-----------------------------------------------------------------------------
LEMMA Fixed ==
    /\ Queued \in Record /\ Queued.status = "queued" /\ ~Queued.task
    /\ Queued # NoRecord /\ Queued # Nothing
    /\ {"save", "taskId", "submit", "worker", "emitter"} \cap Requests = {}
    /\ \A x \in Results \cup {"errored"} : x \in Terminal
  <1>1. Queued \in Record /\ Queued.status = "queued" /\ ~Queued.task
    BY DEF Queued, Record, Statuses
  <1> QED BY <1>1, NoRecordAssumption, RequestAssumption, ResultAssumption DEF Terminal

LEMMA InitHolds == Init => IInv
  <1> SUFFICES ASSUME Init PROVE IInv
    OBVIOUS
  <1> USE Fixed, NoRecordAssumption, NothingAssumption, DeliveryAssumption, FlagAssumption
  <1>1. TypeOK
    <2>1. held \in [Clients -> Record \cup {NoRecord, Nothing}]
      BY DEF Init
    <2>2. handler \in {"asleep", "awake", "done"} /\ record \in Record \cup {NoRecord}
      BY DEF Init
    <2>3. deliveries \in 0..Deliveries
      BY DEF Init
    <2> QED BY <2>1, <2>2, <2>3 DEF Init, TypeOK, Phases
  <1>2. HeldInv
    BY DEF Init, HeldInv, Clients
  <1>3. UnsavedInv /\ WorkerInv /\ FinishedInv
    BY DEF Init, UnsavedInv, WorkerInv, FinishedInv, Clients, Finished, Executing, Updating
  <1>4. AnnouncedIsRecorded /\ DeletedStaysDeleted /\ RevocableOnceSaved
    BY DEF Init, AnnouncedIsRecorded, DeletedStaysDeleted, RevocableOnceSaved
  <1> QED BY <1>1, <1>2, <1>3, <1>4 DEF IInv

\* The clients that have a copy of their own.
LEMMA ClientsAre ==
    /\ "save" \in Clients /\ "taskId" \in Clients /\ "submit" \in Clients
    /\ "worker" \in Clients /\ "emitter" \in Clients
    /\ \A r \in Requests : /\ r \in Clients /\ r # "save" /\ r # "taskId"
                           /\ r # "submit" /\ r # "worker" /\ r # "emitter"
  BY RequestAssumption DEF Clients

LEMMA SaveStep == ASSUME IInv, Save PROVE IInv'
  <1> USE Fixed, ClientsAre, NoRecordAssumption, NothingAssumption
  <1>1. TypeOK'
    BY DEF IInv, TypeOK, Save, Write, worker, others
  <1>2. HeldInv'
    BY <1>1 DEF IInv, TypeOK, HeldInv, Save, Write, worker, others
  <1>3. ~lost' => ~lost /\ held["save"] # Nothing
    BY DEF Save, Write, IInv, TypeOK
  <1>4. held'["save"] = Nothing /\ record' = Queued /\ held'["taskId"] = held["taskId"]
    BY DEF Save, Write, IInv, TypeOK
  <1>5. UnsavedInv' /\ WorkerInv' /\ FinishedInv'
    BY <1>3, <1>4 DEF IInv, UnsavedInv, WorkerInv, FinishedInv, Save, worker, others, Finished
  <1>6. AnnouncedIsRecorded' /\ DeletedStaysDeleted' /\ RevocableOnceSaved'
    BY <1>3, <1>4 DEF IInv, UnsavedInv, Save, worker, others,
       AnnouncedIsRecorded, DeletedStaysDeleted, RevocableOnceSaved
  <1> QED BY <1>1, <1>2, <1>5, <1>6 DEF IInv

LEMMA SaveTaskIdStep == ASSUME IInv, SaveTaskId PROVE IInv'
  <1> USE Fixed, ClientsAre, NoRecordAssumption, NothingAssumption
  <1> DEFINE new == [Queued EXCEPT !.task = TRUE]
  <1>1. new \in Record /\ new.task
    BY DEF Queued, Record, Statuses
  <1>2. record' = new /\ held' = [held EXCEPT !["taskId"] = Nothing]
    BY DEF SaveTaskId, Write
  <1>3. ~lost' => ~lost /\ record = Queued
    BY DEF SaveTaskId, Write, IInv, HeldInv, TypeOK
  <1> HIDE DEF new
  <1>4. TypeOK'
    BY <1>1, <1>2 DEF IInv, TypeOK, SaveTaskId, Write, worker, others
  <1>5. HeldInv'
    BY <1>2, <1>4 DEF IInv, TypeOK, HeldInv, SaveTaskId, worker, others
  <1>6. held'["save"] = held["save"]
    BY <1>2 DEF IInv, TypeOK
  <1>7. ~lost' => held["save"] = Nothing /\ phase \notin Finished /\ ~deleted
    BY <1>3 DEF IInv, TypeOK, UnsavedInv, FinishedInv, WorkerInv, DeletedStaysDeleted, Terminal
  <1>8. UnsavedInv' /\ WorkerInv' /\ FinishedInv'
    BY <1>6, <1>7 DEF IInv, UnsavedInv, WorkerInv, FinishedInv, SaveTaskId, worker, others
  <1>9. ~lost' => ~(told # "none" /\ deliveries = 1)
    BY <1>3 DEF IInv, TypeOK, AnnouncedIsRecorded, Terminal
  <1>10. AnnouncedIsRecorded' /\ DeletedStaysDeleted' /\ RevocableOnceSaved'
    BY <1>1, <1>2, <1>7, <1>9 DEF SaveTaskId, worker, others,
       AnnouncedIsRecorded, DeletedStaysDeleted, RevocableOnceSaved
  <1> QED BY <1>4, <1>5, <1>8, <1>10 DEF IInv

\* A step that leaves the record and what it means alone.
LEMMA Quiet ==
  ASSUME IInv, TypeOK', HeldInv', UNCHANGED <<record, deleted, phase, result, told, deliveries>>,
         ~lost' => ~lost, held'["save"] = held["save"], held'["taskId"] = held["taskId"]
  PROVE  IInv'
  <1>1. UnsavedInv' /\ WorkerInv' /\ FinishedInv'
    BY DEF IInv, UnsavedInv, WorkerInv, FinishedInv
  <1>2. AnnouncedIsRecorded' /\ DeletedStaysDeleted' /\ RevocableOnceSaved'
    BY DEF IInv, AnnouncedIsRecorded, DeletedStaysDeleted, RevocableOnceSaved
  <1> QED BY <1>1, <1>2 DEF IInv

LEMMA WakeStep == ASSUME IInv, Wake PROVE IInv'
  <1> USE Fixed, ClientsAre, NoRecordAssumption, NothingAssumption
  <1>1. TypeOK'
    BY DEF IInv, TypeOK, Wake, Read, worker, others
  <1>2. HeldInv'
    BY DEF IInv, TypeOK, HeldInv, Wake, Read, worker, others
  <1> QED BY <1>1, <1>2, Quiet DEF IInv, TypeOK, Wake, Read, worker, others

LEMMA UpdateReadStep == ASSUME IInv, UpdateRead PROVE IInv'
  <1> USE Fixed, ClientsAre, NoRecordAssumption, NothingAssumption
  <1>1. TypeOK'
    BY DEF IInv, TypeOK, UpdateRead, Read, worker, others
  <1>2. HeldInv'
    BY DEF IInv, TypeOK, HeldInv, UpdateRead, Read, worker, others
  <1> QED BY <1>1, <1>2, Quiet DEF IInv, TypeOK, UpdateRead, Read, worker, others

LEMMA EmitReadStep == ASSUME IInv, EmitRead PROVE IInv'
  <1> USE Fixed, ClientsAre, NoRecordAssumption, NothingAssumption
  <1>1. TypeOK'
    BY DEF IInv, TypeOK, EmitRead, Read, others
  <1>2. HeldInv'
    BY DEF IInv, TypeOK, HeldInv, EmitRead, Read, others
  <1> QED BY <1>1, <1>2, Quiet DEF IInv, TypeOK, EmitRead, Read, others

LEMMA EmitSkipStep == ASSUME IInv, EmitSkip PROVE IInv'
  <1> USE Fixed, ClientsAre, NoRecordAssumption, NothingAssumption
  <1>1. TypeOK'
    BY DEF IInv, TypeOK, EmitSkip, Skip, worker, others
  <1>2. HeldInv'
    BY DEF IInv, TypeOK, HeldInv, EmitSkip, Skip, worker, others
  <1> QED BY <1>1, <1>2, Quiet DEF IInv, TypeOK, EmitSkip, Skip, worker, others

LEMMA LookStep == ASSUME IInv, NEW r \in Requests, Look(r) PROVE IInv'
  <1>1. TypeOK'
    BY DEF IInv, TypeOK, Look, Step, worker
  <1>2. HeldInv'
    BY DEF IInv, TypeOK, HeldInv, Look, Step, worker
  <1> QED BY <1>1, <1>2, Quiet DEF Look, worker

LEMMA FetchStep == ASSUME IInv, NEW r \in Requests, Fetch(r) PROVE IInv'
  <1> USE Fixed, ClientsAre, NoRecordAssumption, NothingAssumption
  <1>1. CASE /\ InFlight /\ Step(r, "fetch", "cancel") /\ Read(r)
             /\ revoked' \in BOOLEAN
    <2>1. TypeOK'
      BY <1>1 DEF IInv, TypeOK, Fetch, Step, Read
    <2>2. HeldInv'
      BY <1>1 DEF IInv, TypeOK, HeldInv, Fetch, Step, Read, InFlight
    <2> QED BY <1>1, <2>1, <2>2, Quiet DEF IInv, TypeOK, Fetch, Read
  <1>2. CASE Step(r, "fetch", "done") /\ UNCHANGED <<record, held, revoked, lost>>
    <2>1. TypeOK'
      BY <1>2 DEF IInv, TypeOK, Fetch, Step
    <2>2. HeldInv'
      BY <1>2 DEF IInv, TypeOK, HeldInv, Fetch, Step
    <2> QED BY <1>2, <2>1, <2>2, Quiet DEF Fetch
  <1>3. ASSUME NEW heard \in BOOLEAN,
               revoked' = (revoked \/ (heard /\ record.task /\ phase \notin {"done", "killed"}))
        PROVE  revoked' \in BOOLEAN
    BY <1>3 DEF IInv, TypeOK
  <1> QED BY <1>1, <1>2, <1>3 DEF Fetch

\* A copy that was read from the record is written back, changed.
LEMMA Rewritten ==
  ASSUME IInv, NEW c \in Clients \ {"save", "taskId"}, held[c] \in Record,
         NEW new \in Record, Write(c, new), new.task = held[c].task
  PROVE  /\ record' = new
         /\ held' = [held EXCEPT ![c] = Nothing] /\ held'[c] = Nothing
         /\ \A d \in Clients : d # c => held'[d] = held[d]
         /\ lost' \in BOOLEAN
         /\ ~lost' => ~lost /\ record = held[c] /\ ~deleted /\ held["save"] = Nothing
         /\ Submitted /\ held["taskId"] = Nothing /\ ~lost' => new.task
  <1> USE Fixed, ClientsAre, NoRecordAssumption, NothingAssumption
  <1>1. /\ record' = new /\ held' = [held EXCEPT ![c] = Nothing]
        /\ held'[c] = Nothing /\ \A d \in Clients : d # c => held'[d] = held[d]
    BY DEF Write, IInv, TypeOK
  <1>2. lost' \in BOOLEAN /\ (~lost' => ~lost /\ record = held[c])
    BY DEF Write, IInv, TypeOK
  <1>3. ~lost' => ~deleted /\ held["save"] = Nothing
    BY <1>2 DEF IInv, UnsavedInv, DeletedStaysDeleted
  <1>4. Submitted /\ held["taskId"] = Nothing /\ ~lost' => new.task
    BY <1>2, <1>3 DEF IInv, RevocableOnceSaved
  <1> QED BY <1>1, <1>2, <1>3, <1>4

\* A writer that leaves the status alone, or writes it after the run's end.
LEMMA WrittenBack ==
  ASSUME IInv, NEW c \in Clients \ {"save", "taskId"}, held[c] \in Record,
         NEW new \in Record, Write(c, new), new.task = held[c].task,
         TypeOK', HeldInv', UNCHANGED <<deleted, phase, result, told, deliveries>>,
         phase \in Finished /\ ~lost' => new.status = held[c].status,
         told # "none" /\ deliveries = 1 /\ ~lost' => new.status = held[c].status
  PROVE  IInv'
  <1>1. /\ record' = new
        /\ ~lost' => ~lost /\ record = held[c] /\ ~deleted /\ held["save"] = Nothing
        /\ Submitted /\ held["taskId"] = Nothing /\ ~lost' => new.task
        /\ held'["save"] = held["save"] /\ held'["taskId"] = held["taskId"]
    BY Rewritten, ClientsAre
  <1>2. UnsavedInv' /\ WorkerInv'
    BY <1>1 DEF IInv, UnsavedInv, WorkerInv
  <1>3. FinishedInv'
    BY <1>1, NoRecordAssumption DEF IInv, FinishedInv
  <1>4. AnnouncedIsRecorded'
    BY <1>1, NoRecordAssumption DEF IInv, AnnouncedIsRecorded
  <1>5. DeletedStaysDeleted' /\ RevocableOnceSaved'
    BY <1>1 DEF DeletedStaysDeleted, RevocableOnceSaved
  <1> QED BY <1>2, <1>3, <1>4, <1>5 DEF IInv

LEMMA DescribeStep == ASSUME IInv, Describe PROVE IInv'
  <1> USE Fixed, ClientsAre, NoRecordAssumption, NothingAssumption
  <1>1. CASE held["submit"] # NoRecord /\ Described /\ ~held["submit"].named
    <2> DEFINE new == [held["submit"] EXCEPT !.named = TRUE]
    <2>1. held["submit"] \in Record
      BY <1>1 DEF Describe, IInv, TypeOK, HeldInv
    <2>2. new \in Record /\ new.task = held["submit"].task /\ new.status = held["submit"].status
      BY <2>1 DEF Record
    <2>3. Write("submit", new)
      BY <1>1 DEF Describe
    <2> HIDE DEF new
    <2>4. TypeOK'
      BY <2>2, <2>3 DEF IInv, TypeOK, Describe, Write, worker, others
    <2>5. HeldInv'
      BY <2>3 DEF IInv, TypeOK, HeldInv, Describe, Write, worker, others
    <2>6. UNCHANGED <<deleted, phase, result, told, deliveries>>
      BY DEF Describe, worker, others
    <2> QED BY <2>1, <2>2, <2>3, <2>4, <2>5, <2>6, WrittenBack
  <1>2. CASE ~(held["submit"] # NoRecord /\ Described /\ ~held["submit"].named)
    <2>1. Forget({"submit"}) /\ UNCHANGED <<record, lost>>
      BY <1>2 DEF Describe
    <2>2. TypeOK'
      BY <2>1 DEF IInv, TypeOK, Describe, Forget, worker, others
    <2>3. HeldInv'
      BY <2>1 DEF IInv, TypeOK, HeldInv, Describe, Forget, worker, others
    <2>4. held'["save"] = held["save"] /\ held'["taskId"] = held["taskId"]
      BY <2>1 DEF Forget
    <2> QED BY <2>1, <2>2, <2>3, <2>4, Quiet DEF Describe, worker, others
  <1> QED BY <1>1, <1>2

LEMMA EmitWriteStep == ASSUME IInv, EmitWrite PROVE IInv'
  <1> USE Fixed, ClientsAre, NoRecordAssumption, NothingAssumption
  <1>1. TypeOK'
    BY DEF IInv, TypeOK, EmitWrite, Write, worker, others
  <1>2. HeldInv'
    BY DEF IInv, TypeOK, HeldInv, EmitWrite, Write, worker, others
  <1> QED BY <1>1, <1>2, WrittenBack DEF EmitWrite, worker, others

LEMMA CancelStep == ASSUME IInv, NEW r \in Requests, Cancel(r) PROVE IInv'
  <1> USE Fixed, ClientsAre, NoRecordAssumption, NothingAssumption
  <1> DEFINE new == [held[r] EXCEPT !.status = "cancelled"]
  <1>1. held[r] \in Record /\ held[r].status \in {"queued", "running"}
    BY DEF Cancel, Step, IInv, HeldInv
  <1>2. new \in Record /\ new.task = held[r].task /\ new.status = "cancelled"
    BY <1>1 DEF Record, Statuses, Terminal
  <1>3. Write(r, new)
    BY DEF Cancel
  <1> HIDE DEF new
  <1>4. TypeOK'
    BY <1>2, <1>3 DEF IInv, TypeOK, Cancel, Write, Step, worker
  <1>5. HeldInv'
    BY <1>3 DEF IInv, TypeOK, HeldInv, Cancel, Write, Step, worker
  <1>6. ~(phase \in Finished /\ ~lost')
    <2> SUFFICES ASSUME phase \in Finished, ~lost' PROVE FALSE
      OBVIOUS
    <2>1. ~lost /\ record = held[r]
      BY <1>3 DEF Write, IInv, TypeOK
    <2>2. held[r].status = result /\ result \in Terminal
      BY <1>1, <2>1 DEF IInv, FinishedInv, WorkerInv
    <2> QED BY <1>1, <2>2 DEF Terminal
  <1>7. ~(told # "none" /\ deliveries = 1 /\ ~lost')
    <2> SUFFICES ASSUME told # "none", deliveries = 1, ~lost' PROVE FALSE
      OBVIOUS
    <2>1. ~lost /\ record = held[r]
      BY <1>3 DEF Write, IInv, TypeOK
    <2>2. held[r].status \in {told, result}
      BY <1>1, <2>1 DEF IInv, AnnouncedIsRecorded
    <2> QED BY <1>1, <2>2 DEF Terminal, IInv, TypeOK
  <1>8. UNCHANGED <<deleted, phase, result, told, deliveries>>
    BY DEF Cancel, worker
  <1> QED BY <1>1, <1>2, <1>3, <1>4, <1>5, <1>6, <1>7, <1>8, WrittenBack

LEMMA DeleteStep == ASSUME IInv, NEW r \in Requests, Delete(r) PROVE IInv'
  <1>1. TypeOK'
    BY DEF IInv, TypeOK, Delete, Step, worker
  <1>2. HeldInv'
    BY DEF IInv, TypeOK, HeldInv, Delete, Step, worker
  <1>3. UnsavedInv'
    BY DEF IInv, TypeOK, UnsavedInv, Delete, worker
  <1>4. WorkerInv' /\ FinishedInv'
    BY DEF IInv, WorkerInv, FinishedInv, Delete, worker
  <1>5. AnnouncedIsRecorded' /\ DeletedStaysDeleted' /\ RevocableOnceSaved'
    BY DEF AnnouncedIsRecorded, DeletedStaysDeleted, RevocableOnceSaved, Delete
  <1> QED BY <1>1, <1>2, <1>3, <1>4, <1>5 DEF IInv

\* The worker's own update: as it starts, about the test case, of the result.
LEMMA UpdateWriteStep == ASSUME IInv, UpdateWrite PROVE IInv'
  <1> USE Fixed, ClientsAre, NoRecordAssumption, NothingAssumption
  <1> DEFINE new == Updated(held["worker"])
  <1>1. held["worker"] \in Record /\ phase \in Updating /\ Write("worker", new)
    BY DEF UpdateWrite, IInv, HeldInv
  <1>u. Updating = {"start", "meta", "final", "error"}
    BY DEF Updating
  <1>2. /\ new \in Record /\ new.task = held["worker"].task
        /\ phase = "meta" => new.status = held["worker"].status
        /\ phase \in {"final", "error"} => new.status = result /\ result \in Terminal
    <2>1. CASE phase = "start"
      BY <1>1, <2>1 DEF Updated, Record, Statuses
    <2>2. CASE phase = "meta"
      BY <1>1, <2>2 DEF Updated, Record
    <2>3. CASE phase \in {"final", "error"}
      <3>1. result \in Terminal
        BY <2>3 DEF IInv, WorkerInv
      <3> QED BY <1>1, <2>3, <3>1 DEF Updated, Record, Statuses
    <2> QED BY <1>1, <1>u, <2>1, <2>2, <2>3
  <1> HIDE DEF new
  <1>3. /\ record' = new
        /\ held' = [held EXCEPT !["worker"] = Nothing] /\ held'["worker"] = Nothing
        /\ \A d \in Clients : d # "worker" => held'[d] = held[d]
        /\ lost' \in BOOLEAN
        /\ ~lost' => ~lost /\ record = held["worker"] /\ ~deleted /\ held["save"] = Nothing
        /\ Submitted /\ held["taskId"] = Nothing /\ ~lost' => new.task
    BY <1>1, <1>2, Rewritten
  <1>4. /\ phase = "start" => phase' = "load"
        /\ phase = "meta" => phase' = "run"
        /\ phase = "final" => phase' = "announce"
        /\ phase = "error" => phase' = "report"
    BY DEF UpdateWrite, NextPhase
  <1>5. TypeOK'
    BY <1>1, <1>2, <1>3, <1>4, <1>u DEF IInv, TypeOK, UpdateWrite, others, Phases, Executing
  <1>6. HeldInv'
    BY <1>3 DEF IInv, TypeOK, HeldInv, UpdateWrite, others
  <1>7. UnsavedInv'
    BY <1>3 DEF UnsavedInv
  <1>8. WorkerInv'
    BY <1>1, <1>4, <1>u DEF IInv, WorkerInv, UpdateWrite, Finished, Executing, After
  <1>9. FinishedInv'
    BY <1>1, <1>2, <1>3, <1>4, <1>u DEF FinishedInv, UpdateWrite, Finished
  <1>10. AnnouncedIsRecorded'
    BY <1>1, <1>2, <1>3, <1>u DEF IInv, WorkerInv, AnnouncedIsRecorded, UpdateWrite, After
  <1>11. DeletedStaysDeleted' /\ RevocableOnceSaved'
    BY <1>3 DEF DeletedStaysDeleted, RevocableOnceSaved, UpdateWrite, others
  <1> QED BY <1>5, <1>6, <1>7, <1>8, <1>9, <1>10, <1>11 DEF IInv

LEMMA UpdateSkipStep == ASSUME IInv, UpdateSkip PROVE IInv'
  <1> USE Fixed, ClientsAre, NoRecordAssumption, NothingAssumption
  <1>1. held["worker"] = NoRecord /\ phase \in Updating
    BY DEF UpdateSkip, Skip, IInv, HeldInv
  <1>2. /\ record' = record
        /\ held' = [held EXCEPT !["worker"] = Nothing] /\ held'["worker"] = Nothing
        /\ \A d \in Clients : d # "worker" => held'[d] = held[d]
        /\ lost' \in BOOLEAN
        /\ ~lost' => ~lost /\ deleted
    BY DEF UpdateSkip, Skip, IInv, TypeOK
  <1>3. /\ phase = "start" => phase' = "load"
        /\ phase = "meta" => phase' = "run"
        /\ phase = "final" => phase' = "announce"
        /\ phase = "error" => phase' = "report"
    BY DEF UpdateSkip, NextPhase
  <1>4. ~lost' => record = NoRecord /\ held["save"] = Nothing
    BY <1>2 DEF IInv, DeletedStaysDeleted, UnsavedInv
  <1>5. TypeOK'
    BY <1>1, <1>2, <1>3 DEF IInv, TypeOK, UpdateSkip, others, Phases, Executing, Updating
  <1>6. HeldInv'
    BY <1>2 DEF IInv, TypeOK, HeldInv, UpdateSkip, others
  <1>7. UnsavedInv' /\ FinishedInv' /\ AnnouncedIsRecorded' /\ DeletedStaysDeleted' /\ RevocableOnceSaved'
    <2>1. ~lost' => deleted' /\ record' = NoRecord /\ held'["save"] = Nothing
      BY <1>2, <1>4 DEF UpdateSkip, others
    <2> QED BY <2>1 DEF UnsavedInv, FinishedInv, AnnouncedIsRecorded, DeletedStaysDeleted, RevocableOnceSaved
  <1>8. WorkerInv'
    BY <1>1, <1>3 DEF IInv, WorkerInv, UpdateSkip, Finished, Executing, Updating, After
  <1> QED BY <1>5, <1>6, <1>7, <1>8 DEF IInv

\* The worker goes on, dies or starts anew: its copies may be dropped.
LEMMA Moved ==
  ASSUME IInv, TypeOK', WorkerInv', UNCHANGED <<record, handler, others, lost>>,
         \A c \in Clients : held'[c] = held[c] \/ (c \in {"worker", "emitter"} /\ held'[c] = Nothing),
         held'["worker"] = Nothing \/ phase' \in Updating,
         phase' \in {"broker", "start", "killed"} \/ phase \notin {"broker", "start", "killed"},
         told' = told \/ (phase \in {"announce", "report"} /\ told' = result /\ result' = result),
         result' = result \/ phase \in {"load", "run", "notify"},
         phase' \in Finished => phase \in Finished /\ result' = result,
         deliveries' = deliveries \/ deliveries' # 1 \/ told' = "none"
  PROVE  IInv'
  <1> USE ClientsAre
  <1>1. HeldInv'
    BY DEF IInv, HeldInv, others
  <1>2. UnsavedInv'
    BY DEF IInv, UnsavedInv, others
  <1>3. FinishedInv'
    BY DEF IInv, FinishedInv
  <1>4. AnnouncedIsRecorded'
    <2>1. CASE told' = result /\ phase \in {"announce", "report"} /\ result' = result
      BY <2>1, Fixed DEF IInv, FinishedInv, WorkerInv, AnnouncedIsRecorded, Finished
    <2>2. CASE told' = told /\ result' = result
      BY <2>2 DEF IInv, AnnouncedIsRecorded
    <2>3. CASE told' = told /\ phase \in {"load", "run"}
      BY <2>3 DEF IInv, WorkerInv, After, AnnouncedIsRecorded
    <2>4. CASE told' = told /\ phase = "notify"
      BY <2>4 DEF IInv, WorkerInv, AnnouncedIsRecorded
    <2> QED BY <2>1, <2>2, <2>3, <2>4
  <1>5. DeletedStaysDeleted' /\ RevocableOnceSaved'
    BY DEF IInv, DeletedStaysDeleted, RevocableOnceSaved, others
  <1> QED BY <1>1, <1>2, <1>3, <1>4, <1>5 DEF IInv

LEMMA DeliverStep == ASSUME IInv, Deliver PROVE IInv'
  <1>1. TypeOK'
    BY DeliveryAssumption DEF IInv, TypeOK, Deliver, others, Phases, Executing, Updating
  <1>2. WorkerInv'
    BY DEF IInv, TypeOK, WorkerInv, Deliver, Executing, Updating, Finished, After
  <1>3. \A c \in Clients : \/ held'[c] = held[c]
                           \/ c \in {"worker", "emitter"} /\ held'[c] = Nothing
    BY DEF Deliver
  <1>4. held'["worker"] = Nothing \/ phase' \in Updating
    BY ClientsAre DEF IInv, HeldInv, Updating, Deliver
  <1>5. deliveries' = deliveries \/ deliveries' # 1 \/ told' = "none"
    BY DEF IInv, TypeOK, WorkerInv, Deliver
  <1>6. phase' \in Finished => phase \in Finished /\ result' = result
    BY DEF Deliver, Finished
  <1> QED BY <1>1, <1>2, <1>3, <1>4, <1>5, <1>6, Moved DEF Deliver, Executing, Updating

LEMMA DiscardStep == ASSUME IInv, Discard PROVE IInv'
  <1>1. TypeOK'
    BY DEF IInv, TypeOK, Discard, others, Phases, Executing, Updating
  <1>2. WorkerInv'
    BY DEF IInv, TypeOK, WorkerInv, Discard, Executing, Updating, Finished, After
  <1>3. \A c \in Clients : \/ held'[c] = held[c]
                           \/ c \in {"worker", "emitter"} /\ held'[c] = Nothing
    BY DEF Discard
  <1>4. held'["worker"] = Nothing \/ phase' \in Updating
    BY ClientsAre DEF IInv, HeldInv, Updating, Discard
  <1>5. deliveries' = deliveries \/ deliveries' # 1 \/ told' = "none"
    BY DEF IInv, TypeOK, WorkerInv, Discard
  <1>6. phase' \in Finished => phase \in Finished /\ result' = result
    BY DEF Discard, Finished
  <1> QED BY <1>1, <1>2, <1>3, <1>4, <1>5, <1>6, Moved DEF Discard, Executing, Updating

LEMMA LoadStep == ASSUME IInv, Load PROVE IInv'
  <1>1. TypeOK'
    BY DEF IInv, TypeOK, Load, others, Phases, Executing, Updating
  <1>2. WorkerInv'
    BY DEF IInv, TypeOK, WorkerInv, Load, Executing, Updating, Finished, After
  <1>3. \A c \in Clients : \/ held'[c] = held[c]
                           \/ c \in {"worker", "emitter"} /\ held'[c] = Nothing
    BY DEF Load
  <1>4. held'["worker"] = Nothing \/ phase' \in Updating
    BY ClientsAre DEF IInv, HeldInv, Updating, Load
  <1>5. deliveries' = deliveries \/ deliveries' # 1 \/ told' = "none"
    BY DEF IInv, TypeOK, WorkerInv, Load
  <1>6. phase' \in Finished => phase \in Finished /\ result' = result
    BY DEF Load, Finished
  <1> QED BY <1>1, <1>2, <1>3, <1>4, <1>5, <1>6, Moved DEF Load, Executing, Updating

LEMMA RunStep == ASSUME IInv, Run PROVE IInv'
  <1>1. TypeOK'
    BY DEF IInv, TypeOK, Run, others, Phases, Executing, Updating
  <1>2. WorkerInv'
    BY DEF IInv, TypeOK, WorkerInv, Run, Executing, Updating, Finished, After
  <1>3. \A c \in Clients : \/ held'[c] = held[c]
                           \/ c \in {"worker", "emitter"} /\ held'[c] = Nothing
    BY DEF Run
  <1>4. held'["worker"] = Nothing \/ phase' \in Updating
    BY ClientsAre DEF IInv, HeldInv, Updating, Run
  <1>5. deliveries' = deliveries \/ deliveries' # 1 \/ told' = "none"
    BY DEF IInv, TypeOK, WorkerInv, Run
  <1>6. phase' \in Finished => phase \in Finished /\ result' = result
    BY DEF Run, Finished
  <1> QED BY <1>1, <1>2, <1>3, <1>4, <1>5, <1>6, Moved DEF Run, Executing, Updating

LEMMA RaiseStep == ASSUME IInv, Raise PROVE IInv'
  <1>1. TypeOK'
    BY DEF IInv, TypeOK, Raise, others, Phases, Executing, Updating
  <1>2. WorkerInv'
    BY DEF IInv, TypeOK, WorkerInv, Raise, Executing, Updating, Finished, After
  <1>3. \A c \in Clients : \/ held'[c] = held[c]
                           \/ c \in {"worker", "emitter"} /\ held'[c] = Nothing
    BY DEF Raise
  <1>4. held'["worker"] = Nothing \/ phase' \in Updating
    BY ClientsAre DEF IInv, HeldInv, Updating, Raise
  <1>5. deliveries' = deliveries \/ deliveries' # 1 \/ told' = "none"
    BY DEF IInv, TypeOK, WorkerInv, Raise
  <1>6. phase' \in Finished => phase \in Finished /\ result' = result
    BY DEF Raise, Finished
  <1> QED BY <1>1, <1>2, <1>3, <1>4, <1>5, <1>6, Moved DEF Raise, Executing, Updating

LEMMA AnnounceStep == ASSUME IInv, Announce PROVE IInv'
  <1>1. TypeOK'
    BY DEF IInv, TypeOK, Announce, Forget, others, Phases, Executing, Updating
  <1>2. WorkerInv'
    BY DEF IInv, TypeOK, WorkerInv, Announce, Executing, Updating, Finished, After
  <1>3. \A c \in Clients : \/ held'[c] = held[c]
                           \/ c \in {"worker", "emitter"} /\ held'[c] = Nothing
    BY DEF Announce, Forget
  <1>4. held'["worker"] = Nothing \/ phase' \in Updating
    BY ClientsAre DEF IInv, HeldInv, Updating, Announce, Forget
  <1>5. deliveries' = deliveries \/ deliveries' # 1 \/ told' = "none"
    BY DEF IInv, TypeOK, WorkerInv, Announce
  <1>6. phase' \in Finished => phase \in Finished /\ result' = result
    BY DEF Announce, Finished
  <1> QED BY <1>1, <1>2, <1>3, <1>4, <1>5, <1>6, Moved DEF Announce, Executing, Updating

LEMMA ReturnStep == ASSUME IInv, Return PROVE IInv'
  <1>1. TypeOK'
    BY DEF IInv, TypeOK, Return, Forget, others, Phases, Executing, Updating
  <1>2. WorkerInv'
    BY DEF IInv, TypeOK, WorkerInv, Return, Executing, Updating, Finished, After
  <1>3. \A c \in Clients : \/ held'[c] = held[c]
                           \/ c \in {"worker", "emitter"} /\ held'[c] = Nothing
    BY DEF Return, Forget
  <1>4. held'["worker"] = Nothing \/ phase' \in Updating
    BY ClientsAre DEF IInv, HeldInv, Updating, Return, Forget
  <1>5. deliveries' = deliveries \/ deliveries' # 1 \/ told' = "none"
    BY DEF IInv, TypeOK, WorkerInv, Return
  <1>6. phase' \in Finished => phase \in Finished /\ result' = result
    BY DEF Return, Finished
  <1> QED BY <1>1, <1>2, <1>3, <1>4, <1>5, <1>6, Moved DEF Return, Executing, Updating

LEMMA AckStep == ASSUME IInv, Ack PROVE IInv'
  <1>1. TypeOK'
    BY DEF IInv, TypeOK, Ack, others, Phases, Executing, Updating
  <1>2. WorkerInv'
    BY DEF IInv, TypeOK, WorkerInv, Ack, Executing, Updating, Finished, After
  <1>3. \A c \in Clients : \/ held'[c] = held[c]
                           \/ c \in {"worker", "emitter"} /\ held'[c] = Nothing
    BY DEF Ack
  <1>4. held'["worker"] = Nothing \/ phase' \in Updating
    BY ClientsAre DEF IInv, HeldInv, Updating, Ack
  <1>5. deliveries' = deliveries \/ deliveries' # 1 \/ told' = "none"
    BY DEF IInv, TypeOK, WorkerInv, Ack
  <1>6. phase' \in Finished => phase \in Finished /\ result' = result
    BY DEF Ack, Finished
  <1> QED BY <1>1, <1>2, <1>3, <1>4, <1>5, <1>6, Moved DEF Ack, Executing, Updating

LEMMA KillStep == ASSUME IInv, Kill PROVE IInv'
  <1>1. TypeOK'
    BY DEF IInv, TypeOK, Kill, Forget, others, Phases, Executing, Updating
  <1>2. WorkerInv'
    BY DEF IInv, TypeOK, WorkerInv, Kill, Executing, Updating, Finished, After
  <1>3. \A c \in Clients : \/ held'[c] = held[c]
                           \/ c \in {"worker", "emitter"} /\ held'[c] = Nothing
    BY DEF Kill, Forget
  <1>4. held'["worker"] = Nothing \/ phase' \in Updating
    BY ClientsAre DEF IInv, HeldInv, Updating, Kill, Forget
  <1>5. deliveries' = deliveries \/ deliveries' # 1 \/ told' = "none"
    BY DEF IInv, TypeOK, WorkerInv, Kill
  <1>6. phase' \in Finished => phase \in Finished /\ result' = result
    BY DEF Kill, Finished
  <1> QED BY <1>1, <1>2, <1>3, <1>4, <1>5, <1>6, Moved DEF Kill, Executing, Updating

LEMMA CrashStep == ASSUME IInv, Crash PROVE IInv'
  <1>1. TypeOK'
    BY DEF IInv, TypeOK, Crash, Forget, others, Phases, Executing, Updating
  <1>2. WorkerInv'
    BY DEF IInv, TypeOK, WorkerInv, Crash, Executing, Updating, Finished, After
  <1>3. \A c \in Clients : \/ held'[c] = held[c]
                           \/ c \in {"worker", "emitter"} /\ held'[c] = Nothing
    BY DEF Crash, Forget
  <1>4. held'["worker"] = Nothing \/ phase' \in Updating
    BY ClientsAre DEF IInv, HeldInv, Updating, Crash, Forget
  <1>5. deliveries' = deliveries \/ deliveries' # 1 \/ told' = "none"
    BY DEF IInv, TypeOK, WorkerInv, Crash
  <1>6. phase' \in Finished => phase \in Finished /\ result' = result
    BY DEF Crash, Finished
  <1> QED BY <1>1, <1>2, <1>3, <1>4, <1>5, <1>6, Moved DEF Crash, Executing, Updating

LEMMA StepKeeps == ASSUME IInv, [Next]_vars PROVE IInv'
  <1>1. CASE Submission
    BY <1>1, SaveStep, SaveTaskIdStep, WakeStep, DescribeStep DEF Submission
  <1>2. CASE Deliver \/ Discard \/ Kill \/ Crash
    BY <1>2, DeliverStep, DiscardStep, KillStep, CrashStep
  <1>3. CASE Update
    BY <1>3, UpdateReadStep, UpdateWriteStep, UpdateSkipStep DEF Update
  <1>4. CASE Execute
    BY <1>4, LoadStep, RunStep, RaiseStep, AnnounceStep, ReturnStep, AckStep DEF Execute
  <1>5. CASE Emit
    BY <1>5, EmitReadStep, EmitWriteStep, EmitSkipStep DEF Emit
  <1>6. ASSUME NEW r \in Requests, Look(r) \/ Handle(r) PROVE IInv'
    BY <1>6, LookStep, DeleteStep, FetchStep, CancelStep DEF Handle
  <1>7. CASE UNCHANGED vars
    <2>1. TypeOK'
      BY <1>7 DEF IInv, TypeOK, vars, worker, others
    <2>2. HeldInv'
      BY <1>7 DEF IInv, HeldInv, vars, worker, others
    <2> QED BY <1>7, <2>1, <2>2, Quiet DEF vars, worker, others
  <1> QED BY <1>1, <1>2, <1>3, <1>4, <1>5, <1>6, <1>7 DEF Next, Idle

LEMMA AlwaysHolds == Spec => []IInv
  <1>1. Init => IInv
    BY InitHolds
  <1>2. IInv /\ [Next]_vars => IInv'
    BY StepKeeps
  <1> QED BY <1>1, <1>2, PTL DEF Spec

-----------------------------------------------------------------------------
\* The record tells the status the worker announced, or the error of a notification
\* that failed afterwards, and names the task once both saves are made, unless an
\* update was lost: tasks.py (also 288, 291-299), job_queue.py and runs.py, for every
\* number of requests and deliveries.
THEOREM RecordAlwaysTells == Spec => []RecordTells
  <1>1. IInv => RecordTells
    <2> SUFFICES ASSUME IInv PROVE RecordTells
      OBVIOUS
    <2>1. SettledHasResult
      BY DEF IInv, FinishedInv, SettledHasResult, Finished
    <2> QED BY <2>1 DEF IInv, RecordTells
  <1> QED BY <1>1, AlwaysHolds, PTL

\* A record that was deleted stays deleted, whoever is still at work on a copy
\* of it, unless an update was lost: runs.py and the worker's "if data".
THEOREM DeletedStays == Spec => []DeletedStaysDeleted
  <1>1. IInv => DeletedStaysDeleted
    BY DEF IInv
  <1> QED BY <1>1, AlwaysHolds, PTL

-----------------------------------------------------------------------------
(* The console: lists, notifications and starts of runs in a tab *)

\* A list of runs of one project.
Fits(list, p) == list = Absent \/ \A r \in DOMAIN list : Home[r] = p

ConsolePages ==
    [kind: Kinds, project: Projects \cup {Absent}, selected: Runs \cup {Absent},
     seen: {"none"} \cup Active \cup TERMINAL, goes: {"none", "lost", "board", "settings"},
     offers: Projects, filter: {"all", "active", "passed", "failed"}, at: Nat \ {0}]
Answers == [got: AnyList, to: SUBSET Watchers]
Hooks == [lists: [Projects -> AnyList], req: [Projects -> {Absent} \cup Answers],
          shown: [Watchers -> AnyList], late: SUBSET Watchers]
NoteRecords == [run: Runs, project: Projects, read: BOOLEAN, here: BOOLEAN]
DelRecords == [run: Runs, from: {"board", "live", "cases"}, project: Projects,
               here: BOOLEAN, n: Nat]
LaunchRecords == [run: Runs, to: Projects, stray: BOOLEAN]

\* Every page but hub, report and the lost one has a project, and leaves for where
\* it can.
Placed(pg) ==
    /\ pg \in ConsolePages
    /\ pg.kind \in Pages => pg.project \in Projects
    /\ pg.goes \in {"board", "settings"} => pg.kind = "hub"

\* The cache and the answers under way keep the lists of the projects apart.
HookOK(h) ==
    /\ h \in Hooks
    /\ \A p \in Projects : Fits(h.lists[p], p) /\ (h.req[p] # Absent => Fits(h.req[p].got, p))

\* Notes of this page are of runs it has notified of, one of each.
Once(ns, done) ==
    /\ \A i \in DOMAIN ns : ns[i].here => ns[i].run \in done
    /\ \A i, j \in DOMAIN ns : ns[i].here /\ ns[j].here /\ ns[i].run = ns[j].run => i = j

NotesOK(ns) == ns \in Seq(NoteRecords) /\ Len(ns) <= NotesKept

WorldInv ==
    /\ runs \in [Runs -> RunStates] /\ archived \subseteq Runs
    /\ store \in Projects /\ layout \subseteq Projects
    /\ prefs \in [Projects -> Prefs] /\ visits \in Nat

NotesInv == NotesOK(notes) /\ notified \subseteq Runs /\ Once(notes, notified)

\* The request of a dashboard that is still shown.
DelsInv ==
    /\ dels \subseteq DelRecords
    /\ \A d \in dels : d.from = "board" /\ d.here => page.kind = "board"

LaunchInv == launch # Absent =>
    launch \in LaunchRecords /\ (launch.stray \/ launch.to = Home[launch.run])

ConsoleInv ==
    /\ WorldInv /\ Placed(page) /\ HookOK(hook) /\ ListIsOfProject
    /\ NotesInv /\ DelsInv /\ LaunchInv

-----------------------------------------------------------------------------
(* Lists and the hook *)

LEMMA ListFacts ==
  ASSUME NEW l \in AnyList, l # Absent
  PROVE  DOMAIN l \subseteq Runs /\ \A r \in DOMAIN l : l[r] \in Active \cup TERMINAL
  <1>1. PICK rs \in SUBSET Runs : l \in Shows(rs)
    BY DEF AnyList
  <1> QED  BY <1>1 DEF Shows

LEMMA AbsentIsList == Absent \in AnyList /\ \A p \in Projects : Fits(Absent, p)
  BY DEF AnyList, Fits

LEMMA StoredList ==
  ASSUME WorldInv, NEW p \in Projects
  PROVE  List(p) \in AnyList /\ Fits(List(p), p)
  <1> DEFINE ids == {r \in Runs \ archived : Home[r] = p /\ runs[r] \in Active \cup TERMINAL}
  <1>1. List(p) = [r \in ids |-> runs[r]] /\ ids \in SUBSET Runs
    BY DEF List
  <1>2. List(p) \in Shows(ids)
    BY <1>1 DEF Shows
  <1>3. List(p) \in AnyList
    BY <1>1, <1>2 DEF AnyList
  <1>4. DOMAIN List(p) = ids
    BY <1>1
  <1> QED  BY <1>3, <1>4 DEF Fits

LEMMA EndedRuns == ASSUME NEW l \in AnyList PROVE Ended(l) \in SUBSET Runs
  BY ListFacts DEF Ended

LEMMA HookFields ==
  ASSUME NEW h, HookOK(h)
  PROVE  /\ h.lists \in [Projects -> AnyList] /\ h.req \in [Projects -> {Absent} \cup Answers]
         /\ h.shown \in [Watchers -> AnyList] /\ h.late \in SUBSET Watchers
         /\ \A p \in Projects : Fits(h.lists[p], p) /\ (h.req[p] # Absent => Fits(h.req[p].got, p))
  BY DEF HookOK, Hooks

\* What is shown anew by a refetch is of the project it is for.
LEMMA AskDoes ==
  ASSUME NEW h, HookOK(h), NEW ws \in SUBSET Watchers, NEW p \in Projects
  PROVE  /\ HookOK(Ask(h, ws, p))
         /\ \A w \in Watchers :
              \/ w \in ws /\ Fits(Ask(h, ws, p).shown[w], p) /\ w \notin Ask(h, ws, p).late
              \/ Ask(h, ws, p).shown[w] = h.shown[w] /\ (w \in Ask(h, ws, p).late <=> w \in h.late)
  <1> DEFINE g == Ask(h, ws, p)
  <1>0. /\ h.lists \in [Projects -> AnyList] /\ h.req \in [Projects -> {Absent} \cup Answers]
        /\ h.shown \in [Watchers -> AnyList] /\ h.late \in SUBSET Watchers
        /\ \A q \in Projects : Fits(h.lists[q], q) /\ (h.req[q] # Absent => Fits(h.req[q].got, q))
    BY HookFields
  <1>1. CASE h.req[p] # Absent
    <2> DEFINE a == [h.req[p] EXCEPT !.to = @ \cup ws]
    <2>1. a \in Answers /\ a.got = h.req[p].got
      BY <1>0, <1>1 DEF Answers
    <2>2. g = [h EXCEPT !.req = [h.req EXCEPT ![p] = a]]
      BY <1>0, <1>1 DEF Ask, HookOK, Hooks
    <2> HIDE DEF a
    <2>3. g \in Hooks /\ g.req = [h.req EXCEPT ![p] = a] /\ g.lists = h.lists
          /\ g.shown = h.shown /\ g.late = h.late
      BY <2>1, <2>2, <1>0 DEF HookOK, Hooks
    <2> QED  BY <2>1, <2>3, <1>0, <1>1 DEF HookOK
  <1>2. CASE h.req[p] = Absent /\ h.lists[p] # Absent
    <2> DEFINE s == [w \in Watchers |-> IF w \in ws THEN h.lists[p] ELSE h.shown[w]]
    <2>1. s \in [Watchers -> AnyList]
      BY <1>0
    <2>2. g = [h EXCEPT !.shown = s, !.late = h.late \ ws]
      BY <1>0, <1>2 DEF Ask, HookOK, Hooks
    <2> HIDE DEF s
    <2>3. g \in Hooks /\ g.req = h.req /\ g.lists = h.lists /\ g.shown = s /\ g.late = h.late \ ws
      BY <2>1, <2>2, <1>0 DEF HookOK, Hooks
    <2> QED  BY <2>1, <2>3, <1>0, <1>2 DEF HookOK, s
  <1>3. CASE h.req[p] = Absent /\ h.lists[p] = Absent
    <2> DEFINE a == [got |-> Absent, to |-> ws]
    <2>1. a \in Answers /\ Fits(a.got, p)
      BY AbsentIsList DEF Answers
    <2>2. g = [h EXCEPT !.req = [h.req EXCEPT ![p] = a]]
      BY <1>0, <1>3 DEF Ask, HookOK, Hooks
    <2> HIDE DEF a
    <2>3. g \in Hooks /\ g.req = [h.req EXCEPT ![p] = a] /\ g.lists = h.lists
          /\ g.shown = h.shown /\ g.late = h.late
      BY <2>1, <2>2, <1>0 DEF HookOK, Hooks
    <2> QED  BY <2>1, <2>3, <1>0, <1>3 DEF HookOK
  <1> QED  BY <1>1, <1>2, <1>3

\* Where the instances of another page begin.
LEMMA RemountDoes ==
  ASSUME HookOK(hook), store \in Projects, NEW pg, Placed(pg)
  PROVE  /\ HookOK(Remount(pg))
         /\ \A w \in Mounted(pg) \ Remount(pg).late :
              Fits(Remount(pg).shown[w], IF w = "bell" \/ pg.kind = "board" THEN store ELSE pg.project)
  <1> DEFINE gone == [lists |-> hook.lists, shown |-> [w \in Watchers |-> Absent], late |-> {},
                      req |-> [p \in Projects |-> IF hook.req[p] = Absent THEN Absent
                                                  ELSE [hook.req[p] EXCEPT !.to = {}]]]
             bell == Ask(gone, {"bell"}, store)
             of == IF pg.kind = "board" THEN store ELSE pg.project
             both == Ask(bell, {"page"}, of)
  <1>1. /\ hook.lists \in [Projects -> AnyList] /\ hook.req \in [Projects -> {Absent} \cup Answers]
        /\ \A p \in Projects : Fits(hook.lists[p], p) /\ (hook.req[p] # Absent => Fits(hook.req[p].got, p))
    BY HookFields
  <1>2. ASSUME NEW p \in Projects, hook.req[p] # Absent
        PROVE  /\ [hook.req[p] EXCEPT !.to = {}] \in Answers
               /\ [hook.req[p] EXCEPT !.to = {}].got = hook.req[p].got
    BY <1>1, <1>2 DEF Answers
  <1>3. gone.req \in [Projects -> {Absent} \cup Answers]
    BY <1>1, <1>2
  <1>4. gone.shown \in [Watchers -> AnyList] /\ \A w \in Watchers : gone.shown[w] = Absent
    BY AbsentIsList
  <1>5. HookOK(gone)
    <2>1. gone \in Hooks
      BY <1>1, <1>3, <1>4 DEF Hooks
    <2>2. ASSUME NEW p \in Projects, gone.req[p] # Absent PROVE Fits(gone.req[p].got, p)
      BY <2>2, <1>1, <1>2
    <2> QED  BY <2>1, <2>2, <1>1 DEF HookOK
  <1>6. gone.late = {}
    OBVIOUS
  <1>7. Remount(pg) = IF pg.kind = "lost" THEN gone
                      ELSE IF "page" \notin Mounted(pg) THEN bell ELSE both
    BY DEF Remount
  <1> HIDE DEF gone
  <1>8. {"bell"} \in SUBSET Watchers /\ {"page"} \in SUBSET Watchers
    BY DEF Watchers
  <1>9. /\ HookOK(bell) /\ bell.late = {}
        /\ bell.shown["page"] = Absent /\ Fits(bell.shown["bell"], store)
    <2>1. /\ HookOK(bell)
          /\ \A w \in Watchers :
               \/ w \in {"bell"} /\ Fits(bell.shown[w], store) /\ w \notin bell.late
               \/ bell.shown[w] = gone.shown[w] /\ (w \in bell.late <=> w \in gone.late)
      BY <1>5, <1>8, AskDoes
    <2>2. bell.late \in SUBSET Watchers
      BY <2>1, HookFields
    <2> QED  BY <2>1, <2>2, <1>4, <1>6, AbsentIsList DEF Watchers, Fits
  <1> HIDE DEF bell
  <1>10. ASSUME "page" \in Mounted(pg)
         PROVE  HookOK(both) /\ Fits(both.shown["page"], of) /\ Fits(both.shown["bell"], store)
    <2>1. of \in Projects
      BY <1>10 DEF Placed, Mounted, Pages, Kinds, Tables, Watchers
    <2> HIDE DEF of
    <2>2. /\ HookOK(both)
          /\ \A w \in Watchers :
               \/ w \in {"page"} /\ Fits(both.shown[w], of) /\ w \notin both.late
               \/ both.shown[w] = bell.shown[w] /\ (w \in both.late <=> w \in bell.late)
      BY <2>1, <1>8, <1>9, AskDoes
    <2> QED  BY <2>2, <1>9 DEF Watchers, Fits
  <1> HIDE DEF both
  <1>11. CASE pg.kind = "lost"
    BY <1>5, <1>7, <1>11 DEF Mounted
  <1>12. CASE pg.kind # "lost" /\ "page" \notin Mounted(pg)
    BY <1>7, <1>9, <1>12 DEF Mounted, Watchers
  <1>13. CASE pg.kind # "lost" /\ "page" \in Mounted(pg)
    BY <1>7, <1>10, <1>13 DEF Mounted, Watchers
  <1> QED  BY <1>11, <1>12, <1>13

\* The instances of another project: they show nothing of the last one.
LEMMA RestartDoes ==
  ASSUME NEW h, HookOK(h), NEW ws \in SUBSET Watchers, NEW p \in Projects
  PROVE  /\ HookOK(Restart(h, ws, p))
         /\ \A w \in Watchers :
              IF w \in ws THEN Fits(Restart(h, ws, p).shown[w], p)
              ELSE /\ Restart(h, ws, p).shown[w] = h.shown[w]
                   /\ w \in Restart(h, ws, p).late <=> w \in h.late
  <1> DEFINE s == [w \in Watchers |-> IF w \in ws THEN Absent ELSE h.shown[w]]
             g == [h EXCEPT !.shown = s, !.late = h.late \ ws]
  <1>1. /\ h.lists \in [Projects -> AnyList] /\ h.req \in [Projects -> {Absent} \cup Answers]
        /\ h.shown \in [Watchers -> AnyList] /\ h.late \in SUBSET Watchers
        /\ \A q \in Projects : Fits(h.lists[q], q) /\ (h.req[q] # Absent => Fits(h.req[q].got, q))
    BY HookFields
  <1>2. /\ s \in [Watchers -> AnyList]
        /\ \A w \in Watchers : s[w] = IF w \in ws THEN Absent ELSE h.shown[w]
    BY <1>1, AbsentIsList
  <1>3. Restart(h, ws, p) = Ask(g, ws, p)
    BY DEF Restart, HookOK, Hooks
  <1> HIDE DEF s
  <1>4. g \in Hooks /\ g.req = h.req /\ g.lists = h.lists /\ g.shown = s /\ g.late = h.late \ ws
    BY <1>1, <1>2 DEF HookOK, Hooks
  <1>5. HookOK(g)
    BY <1>1, <1>4 DEF HookOK
  <1> HIDE DEF g
  <1>6. /\ HookOK(Ask(g, ws, p))
        /\ \A w \in Watchers :
              \/ w \in ws /\ Fits(Ask(g, ws, p).shown[w], p) /\ w \notin Ask(g, ws, p).late
              \/ Ask(g, ws, p).shown[w] = g.shown[w] /\ (w \in Ask(g, ws, p).late <=> w \in g.late)
    BY <1>5, AskDoes
  <1>7. ASSUME NEW w \in ws PROVE Fits(Ask(g, ws, p).shown[w], p)
    BY <1>2, <1>4, <1>6, AbsentIsList
  <1>8. ASSUME NEW w \in Watchers, w \notin ws
        PROVE  /\ Ask(g, ws, p).shown[w] = h.shown[w]
               /\ w \in Ask(g, ws, p).late <=> w \in h.late
    BY <1>2, <1>4, <1>6, <1>8
  <1> QED  BY <1>3, <1>6, <1>7, <1>8

-----------------------------------------------------------------------------
(* Notifications *)

\* SetToSeq lists every element of a finite set once.
LEMMA SeqOfSet ==
  ASSUME NEW S, IsFiniteSet(S)
  PROVE  /\ SetToSeq(S) \in Seq(S) /\ Len(SetToSeq(S)) = Cardinality(S) /\ Cardinality(S) \in Nat
         /\ IsInjective(SetToSeq(S))
  <1>1. Cardinality(S) \in Nat /\ ExistsBijection(1..Cardinality(S), S)
    BY FS_CardinalityType
  <1>2. \E f \in [1..Cardinality(S) -> S] : IsInjective(f)
    BY <1>1 DEF ExistsBijection, Bijection, Injection
  <1>3. SetToSeq(S) \in [1..Cardinality(S) -> S] /\ IsInjective(SetToSeq(S))
    BY <1>2 DEF SetToSeq
  <1>4. SetToSeq(S) \in Seq(S)
    BY <1>1, <1>3, SeqDef
  <1>5. Len(SetToSeq(S)) \in Nat /\ 1..Len(SetToSeq(S)) = 1..Cardinality(S)
    BY <1>3, <1>4, LenProperties
  <1>6. Len(SetToSeq(S)) = Cardinality(S)
    BY <1>1, <1>5
  <1> QED  BY <1>1, <1>3, <1>4, <1>6

\* The notes of runs are as many as the runs.
NoteOf(r, p) == [run |-> r, project |-> p, read |-> FALSE, here |-> TRUE]
NotesOf(rs, p) == {NoteOf(r, p) : r \in rs}

LEMMA NewNotes ==
  ASSUME NEW W \in SUBSET Runs, NEW p \in Projects, NEW a, a = SetToSeq(NotesOf(W, p))
  PROVE  /\ a \in Seq(NoteRecords)
         /\ \A i \in 1..Len(a) : a[i].run \in W
         /\ \A i, j \in 1..Len(a) : a[i].run = a[j].run => i = j
  <1> DEFINE N == NotesOf(W, p)
             f == [r \in W |-> NoteOf(r, p)]
  <1>1. IsFiniteSet(W)
    BY FS_Subset, ConsoleAssumption
  <1>2. f \in Surjection(W, N)
    BY DEF Surjection, NotesOf
  <1>3. IsFiniteSet(N)
    BY <1>1, <1>2, FS_Surjection
  <1>4. N \subseteq NoteRecords /\ \A n \in N : n.run \in W /\ n = NoteOf(n.run, p)
    <2>1. \A r \in W : NoteOf(r, p) \in NoteRecords /\ NoteOf(r, p).run = r
      BY DEF NoteOf, NoteRecords
    <2> QED  BY <2>1 DEF NotesOf
  <1> HIDE DEF N
  <1>5. a \in Seq(N) /\ IsInjective(a)
    BY <1>3, SeqOfSet DEF N
  <1>6. Len(a) \in Nat /\ DOMAIN a = 1..Len(a) /\ a \in [1..Len(a) -> N]
    BY <1>5, LenProperties
  <1>7. a \in Seq(NoteRecords)
    BY <1>4, <1>6, SeqDef
  <1>8. \A i \in 1..Len(a) : a[i] \in N
    BY <1>6
  <1>9. ASSUME NEW i \in 1..Len(a), NEW j \in 1..Len(a), a[i].run = a[j].run PROVE i = j
    <2>1. a[i] = a[j]
      BY <1>4, <1>8, <1>9
    <2> QED  BY <2>1, <1>5, <1>6 DEF IsInjective
  <1> QED  BY <1>4, <1>7, <1>8, <1>9

\* Notes that are of new runs, before others.
LEMMA OnceConcat ==
  ASSUME NEW a \in Seq(NoteRecords), NEW b \in Seq(NoteRecords), NEW W, NEW done,
         W \cap done = {},
         \A i \in 1..Len(a) : a[i].run \in W,
         \A i, j \in 1..Len(a) : a[i].run = a[j].run => i = j,
         Once(b, done)
  PROVE  a \o b \in Seq(NoteRecords) /\ Once(a \o b, done \cup W)
  <1> DEFINE c == a \o b
  <1>1. /\ c \in Seq(NoteRecords) /\ Len(c) = Len(a) + Len(b)
        /\ \A i \in 1 .. Len(a) + Len(b) : c[i] = IF i <= Len(a) THEN a[i] ELSE b[i - Len(a)]
    BY ConcatProperties
  <1> HIDE DEF c
  <1>2. /\ Len(a) \in Nat /\ Len(b) \in Nat
        /\ DOMAIN b = 1..Len(b) /\ DOMAIN c = 1..(Len(a) + Len(b))
    BY <1>1, LenProperties
  <1>3. ASSUME NEW i \in DOMAIN c
        PROVE  \/ i \in 1..Len(a) /\ c[i] = a[i]
               \/ i \notin 1..Len(a) /\ i - Len(a) \in 1..Len(b) /\ c[i] = b[i - Len(a)]
    BY <1>1, <1>2
  <1>4. ASSUME NEW i \in DOMAIN c, c[i].here PROVE c[i].run \in done \cup W
    BY <1>2, <1>3, <1>4 DEF Once
  <1>5. ASSUME NEW i \in DOMAIN c, NEW j \in DOMAIN c, c[i].here, c[j].here, c[i].run = c[j].run
        PROVE  i = j
    <2>1. CASE i \in 1..Len(a) /\ j \in 1..Len(a)
      BY <2>1, <1>3, <1>5
    <2>2. CASE i \in 1..Len(a) /\ j \notin 1..Len(a)
      <3>1. c[i].run \in W /\ c[j] = b[j - Len(a)] /\ j - Len(a) \in DOMAIN b
        BY <2>2, <1>2, <1>3
      <3> QED  BY <3>1, <1>5 DEF Once
    <2>3. CASE i \notin 1..Len(a) /\ j \in 1..Len(a)
      <3>1. c[j].run \in W /\ c[i] = b[i - Len(a)] /\ i - Len(a) \in DOMAIN b
        BY <2>3, <1>2, <1>3
      <3> QED  BY <3>1, <1>5 DEF Once
    <2>4. CASE i \notin 1..Len(a) /\ j \notin 1..Len(a)
      <3>1. /\ c[i] = b[i - Len(a)] /\ c[j] = b[j - Len(a)]
            /\ i - Len(a) \in DOMAIN b /\ j - Len(a) \in DOMAIN b
        BY <2>4, <1>2, <1>3
      <3>2. i - Len(a) = j - Len(a)
        BY <3>1, <1>5 DEF Once
      <3> QED  BY <3>2, <1>2
    <2> QED  BY <2>1, <2>2, <2>3, <2>4
  <1>6. Once(c, done \cup W)
    BY <1>4, <1>5 DEF Once
  <1> QED  BY <1>1, <1>6 DEF c

\* What the bell's feeder adds.
LEMMA AddedDoes ==
  ASSUME NEW done, NEW l \in AnyList, NEW p \in Projects, NEW old \in Seq(NoteRecords),
         Once(old, done)
  PROVE  NotesOK(Added(done, l, p, old)) /\ Once(Added(done, l, p, old), done \cup Ended(l))
  <1> DEFINE W == {r \in Ended(l) \ done : \/ l[r] = "failed" /\ prefs[p].onFailure
                                           \/ l[r] = "passed" /\ prefs[p].onSuccess}
             a == SetToSeq(NotesOf(W, p))
             all == a \o old
             n == IF Len(all) < NotesKept THEN Len(all) ELSE NotesKept
             s == SubSeq(all, 1, n)
  <1>1. W \in SUBSET Runs /\ W \cap done = {} /\ W \subseteq Ended(l)
    BY EndedRuns
  <1>2. Added(done, l, p, old) = s
    BY DEF Added, NoteOf, NotesOf
  <1> HIDE DEF W
  <1>3. /\ a \in Seq(NoteRecords)
        /\ \A i \in 1..Len(a) : a[i].run \in W
        /\ \A i, j \in 1..Len(a) : a[i].run = a[j].run => i = j
    BY <1>1, NewNotes
  <1> HIDE DEF a
  <1>4. all \in Seq(NoteRecords) /\ Once(all, done \cup W)
    BY <1>1, <1>3, OnceConcat
  <1> HIDE DEF all
  <1>5. /\ Len(all) \in Nat /\ NotesKept \in Nat \ {0} /\ DOMAIN all = 1..Len(all)
        /\ \A i \in 1..Len(all) : all[i] \in NoteRecords
    BY <1>4, LenProperties, ElementOfSeq, ConsoleAssumption
  <1>6. n \in Nat /\ n <= Len(all) /\ n <= NotesKept
    BY <1>5
  <1> HIDE DEF n
  <1>7. /\ s \in Seq(NoteRecords) /\ Len(s) = (IF 1 <= n THEN n - 1 + 1 ELSE 0)
        /\ \A i \in 1 .. n - 1 + 1 : s[i] = all[1 + i - 1]
    <2>1. \A i \in 1..n : all[i] \in NoteRecords
      BY <1>5, <1>6
    <2> QED  BY <2>1, <1>6, SubSeqProperties
  <1> HIDE DEF s
  <1>8. Len(s) = n /\ \A i \in 1..n : s[i] = all[i] /\ i \in DOMAIN all
    BY <1>5, <1>6, <1>7
  <1>9. DOMAIN s = 1..n
    BY <1>7, <1>8, LenProperties
  <1>10. Once(s, done \cup Ended(l))
    BY <1>1, <1>4, <1>8, <1>9 DEF Once
  <1> QED  BY <1>2, <1>6, <1>7, <1>8, <1>10 DEF NotesOK

LEMMA NotifyKeeps ==
  ASSUME NotesInv, NEW h, HookOK(h), NEW p \in Projects, Notify(h, p)
  PROVE  NotesInv'
  <1> DEFINE l == h.shown["bell"]
  <1>1. l \in AnyList
    BY HookFields DEF Watchers
  <1>2. /\ notes \in Seq(NoteRecords) /\ Once(notes, notified)
        /\ notified' = notified \cup Ended(l) /\ notes' = Added(notified, l, p, notes)
    BY DEF NotesInv, NotesOK, Notify
  <1> HIDE DEF l
  <1>3. NotesOK(notes') /\ Once(notes', notified \cup Ended(l))
    BY <1>1, <1>2, AddedDoes
  <1>4. notified' \subseteq Runs
    BY <1>1, <1>2, EndedRuns DEF NotesInv
  <1> QED  BY <1>2, <1>3, <1>4 DEF NotesInv, NotesOK, Once

-----------------------------------------------------------------------------
(* What the steps have in common *)

\* A live page that selects a run itself stays what it is.
LEMMA SelectionDoes ==
  ASSUME NEW pg, Placed(pg), NEW r \in Runs, pg.kind = "live"
  PROVE  /\ Placed(SelectRun(pg, r))
         /\ SelectRun(pg, r).kind = pg.kind /\ SelectRun(pg, r).project = pg.project
  BY DEF SelectRun, Placed, ConsolePages

LEMMA SelfSelectedDoes ==
  ASSUME NEW pg, Placed(pg), NEW h, HookOK(h), NEW q \in SelfSelected(pg, h)
  PROVE  Placed(q) /\ q.kind = pg.kind /\ q.project = pg.project
  <1>1. ActiveRuns(h.shown["page"]) \subseteq Runs
    BY HookFields, ListFacts DEF ActiveRuns, Watchers
  <1>2. q = pg \/ \E r \in Runs : pg.kind = "live" /\ q = SelectRun(pg, r)
    BY <1>1 DEF SelfSelected
  <1> QED  BY <1>2, SelectionDoes

\* As long as page, store and hook are what they were, so are the lists.
LEMMA ListsStay ==
  ASSUME ConsoleInv, hook' = hook, store' = store,
         page'.kind = page.kind, page'.project = page.project
  PROVE  ListIsOfProject'
  BY DEF ConsoleInv, ListIsOfProject, Mounted, Watched

\* A new state of the hook, with what the bell and the live page make of it.
LEMMA ShowKeeps ==
  ASSUME ConsoleInv, NEW h, HookOK(h),
         \A w \in Mounted(page) \ h.late : Fits(h.shown[w], Watched(w)),
         Show(h, store), UNCHANGED <<server, store, prefs, visits>>
  PROVE  ConsoleInv'
  <1>1. hook' = h /\ dels' = dels /\ page' \in SelfSelected(page, h) /\ NotesInv'
    BY NotifyKeeps DEF Show, ConsoleInv, WorldInv
  <1>2. Placed(page') /\ page'.kind = page.kind /\ page'.project = page.project
    BY <1>1, SelfSelectedDoes DEF ConsoleInv
  <1>3. WorldInv'
    BY DEF ConsoleInv, WorldInv, server, world
  <1>4. HookOK(hook')
    BY <1>1
  <1>5. ListIsOfProject'
    BY <1>1, <1>2 DEF ListIsOfProject, Fits, Mounted, Watched
  <1>6. DelsInv'
    BY <1>1, <1>2 DEF ConsoleInv, DelsInv
  <1>7. LaunchInv'
    BY DEF ConsoleInv, LaunchInv, server
  <1> QED  BY <1>1, <1>2, <1>3, <1>4, <1>5, <1>6, <1>7 DEF ConsoleInv, Placed, HookOK

\* Another page.
LEMMA GoesKeeps ==
  ASSUME ConsoleInv, NEW pg, Placed(pg), NEW old \in Seq(NoteRecords),
         \A i \in DOMAIN old : old[i].here = FALSE,
         hook' = Remount(pg), notified' = Ended(Remount(pg).shown["bell"]),
         notes' = Added({}, Remount(pg).shown["bell"], store, old),
         page' \in SelfSelected(pg, Remount(pg)),
         dels' = {[d EXCEPT !.here = FALSE] : d \in dels},
         layout' \subseteq Projects, UNCHANGED <<runs, archived, store, prefs>>,
         visits' \in Nat, LaunchInv'
  PROVE  ConsoleInv'
  <1> DEFINE h == Remount(pg)
  <1>1. /\ HookOK(h)
        /\ \A w \in Mounted(pg) \ h.late :
             Fits(h.shown[w], IF w = "bell" \/ pg.kind = "board" THEN store ELSE pg.project)
    BY RemountDoes DEF ConsoleInv, WorldInv
  <1>2. hook' = h /\ page' \in SelfSelected(pg, h) /\ notified' = Ended(h.shown["bell"])
        /\ notes' = Added({}, h.shown["bell"], store, old)
    OBVIOUS
  <1> HIDE DEF h
  <1>3. Placed(page') /\ page'.kind = pg.kind /\ page'.project = pg.project
    BY <1>1, <1>2, SelfSelectedDoes
  <1>4. NotesInv'
    <2>1. h.shown["bell"] \in AnyList
      BY <1>1, HookFields DEF Watchers
    <2>2. Once(old, {})
      BY DEF Once
    <2>3. NotesOK(notes') /\ Once(notes', {} \cup Ended(h.shown["bell"]))
      BY <2>1, <2>2, <1>2, AddedDoes DEF ConsoleInv, WorldInv
    <2>4. notified' \subseteq Runs
      BY <2>1, <1>2, EndedRuns
    <2>5. Once(notes', notified')
      BY <2>3, <1>2
    <2> QED  BY <2>3, <2>4, <2>5 DEF NotesInv, NotesOK, Once
  <1>5. WorldInv'
    BY DEF ConsoleInv, WorldInv
  <1>6. ListIsOfProject'
    BY <1>1, <1>2, <1>3 DEF ListIsOfProject, Fits, Mounted, Watched
  <1>7. DelsInv'
    <2>1. \A d \in dels : [d EXCEPT !.here = FALSE] \in DelRecords /\ [d EXCEPT !.here = FALSE].here = FALSE
      BY DEF ConsoleInv, DelsInv, DelRecords
    <2> QED  BY <2>1 DEF DelsInv
  <1> QED  BY <1>1, <1>2, <1>3, <1>4, <1>5, <1>6, <1>7 DEF ConsoleInv, Placed, HookOK

LEMMA OpenedPlaced ==
  ASSUME NEW kind \in Kinds, NEW p \in Projects \cup {Absent}, kind \in Pages => p \in Projects,
         NEW r \in Runs \cup {Absent}, NEW st \in Projects
  PROVE  Placed(Opened(kind, p, r, st)) /\ Opened(kind, p, r, st).kind = kind
         /\ Opened(kind, p, r, st).project = p
  BY DEF Opened, Placed, ConsolePages

\* Notes that are changed one by one.
LEMMA ChangedNotes ==
  ASSUME NEW ns, NotesOK(ns), NEW f \in [DOMAIN ns -> NoteRecords]
  PROVE  NotesOK(f) /\ DOMAIN f = DOMAIN ns
  <1>1. Len(ns) \in Nat /\ DOMAIN ns = 1..Len(ns) /\ ns \in Seq(NoteRecords)
    BY LenProperties DEF NotesOK
  <1>2. f \in Seq(NoteRecords)
    BY <1>1, SeqDef
  <1>3. Len(f) \in Nat /\ 1..Len(f) = 1..Len(ns)
    BY <1>1, <1>2, LenProperties
  <1>4. Len(f) = Len(ns)
    BY <1>1, <1>3
  <1> QED  BY <1>1, <1>2, <1>4 DEF NotesOK

LEMMA NoteFields ==
  ASSUME NotesInv, NEW i \in DOMAIN notes
  PROVE  notes[i] \in NoteRecords /\ notes[i].run \in Runs /\ notes[i].project \in Projects
  <1>1. notes \in Seq(NoteRecords) /\ DOMAIN notes = 1..Len(notes)
    BY LenProperties DEF NotesInv, NotesOK
  <1>2. notes[i] \in NoteRecords
    BY <1>1, ElementOfSeq
  <1> QED  BY <1>2 DEF NoteRecords

LEMMA GotoKeeps ==
  ASSUME ConsoleInv, NEW pg, Placed(pg), NEW asked \in SUBSET Projects, Goto(pg, asked),
         UNCHANGED <<runs, archived, store, prefs>>, visits' \in Nat, LaunchInv'
  PROVE  ConsoleInv'
  <1> DEFINE old == [i \in DOMAIN notes |-> [notes[i] EXCEPT !.here = FALSE]]
  <1>1. \A i \in DOMAIN notes : [notes[i] EXCEPT !.here = FALSE] \in NoteRecords
                                /\ [notes[i] EXCEPT !.here = FALSE].here = FALSE
    BY NoteFields DEF ConsoleInv, NoteRecords
  <1>2. old \in [DOMAIN notes -> NoteRecords] /\ \A i \in DOMAIN old : old[i].here = FALSE
    BY <1>1
  <1>3. /\ hook' = Remount(pg) /\ notified' = Ended(Remount(pg).shown["bell"])
        /\ notes' = Added({}, Remount(pg).shown["bell"], store, old)
        /\ page' \in SelfSelected(pg, Remount(pg))
        /\ dels' = {[d EXCEPT !.here = FALSE] : d \in dels}
        /\ layout' = asked \cup ({pg.project} \ {Absent, page.project, store})
    BY DEF Goto
  <1> HIDE DEF old
  <1>4. old \in Seq(NoteRecords)
    BY <1>2, ChangedNotes DEF ConsoleInv, NotesInv, NotesOK
  <1>5. layout' \subseteq Projects
    BY <1>3 DEF Placed, ConsolePages
  <1> QED  BY <1>2, <1>3, <1>4, <1>5, GoesKeeps

LEMMA PageFacts ==
  ASSUME ConsoleInv
  PROVE  /\ page \in ConsolePages /\ page.kind \in Kinds /\ page.project \in Projects \cup {Absent}
         /\ page.selected \in Runs \cup {Absent} /\ page.offers \in Projects
         /\ page.kind \in Pages => page.project \in Projects
         /\ page.goes \in {"none", "lost", "board", "settings"}
         /\ page.goes \in {"board", "settings"} => page.kind = "hub"
         /\ store \in Projects /\ layout \subseteq Projects /\ visits \in Nat
  BY DEF ConsoleInv, WorldInv, Placed, ConsolePages

-----------------------------------------------------------------------------
(* The server, the answers and the timers *)

\* What leaves the page, the store and the hook alone.
LEMMA OnlyWorld ==
  ASSUME ConsoleInv, UNCHANGED <<page, hook, notified, notes, store>>, WorldInv', DelsInv', LaunchInv'
  PROVE  ConsoleInv'
  BY ListsStay DEF ConsoleInv, Placed, HookOK, NotesInv, NotesOK, Once

LEMMA FinishStep ==
  ASSUME ConsoleInv, NEW r \in Runs, NEW s \in TERMINAL, Finish(r, s) PROVE ConsoleInv'
  <1>1. UNCHANGED <<archived, page, hook, notified, notes, dels, store, layout, launch, prefs, visits>>
        /\ runs' = [runs EXCEPT ![r] = s]
    BY DEF Finish, shown, user
  <1>2. WorldInv'
    BY <1>1 DEF ConsoleInv, WorldInv, RunStates
  <1>3. DelsInv' /\ LaunchInv'
    BY <1>1 DEF ConsoleInv, DelsInv, LaunchInv
  <1> QED  BY <1>1, <1>2, <1>3, OnlyWorld

\* The hook changes and nothing that is shown.
LEMMA OnlyHook ==
  ASSUME ConsoleInv, UNCHANGED <<server, page, store, notified, notes, dels, prefs, visits>>,
         HookOK(hook'), hook'.shown = hook.shown, hook'.late = hook.late
  PROVE  ConsoleInv'
  <1>1. WorldInv' /\ DelsInv' /\ LaunchInv'
    BY DEF ConsoleInv, WorldInv, DelsInv, LaunchInv, server, world
  <1>2. ListIsOfProject'
    BY DEF ConsoleInv, ListIsOfProject, Mounted, Watched
  <1> QED  BY <1>1, <1>2 DEF ConsoleInv, Placed, HookOK, NotesInv, NotesOK, Once

LEMMA ListReadStep == ASSUME ConsoleInv, NEW p \in Projects, ListRead(p) PROVE ConsoleInv'
  <1> DEFINE a == [hook.req[p] EXCEPT !.got = List(p)]
  <1>1. HookOK(hook) /\ hook.req \in [Projects -> {Absent} \cup Answers]
        /\ hook.req[p] # Absent /\ List(p) \in AnyList /\ Fits(List(p), p)
    BY HookFields, StoredList DEF ConsoleInv, ListRead
  <1>2. a \in Answers /\ a.got = List(p)
    BY <1>1 DEF Answers
  <1>3. hook' = [hook EXCEPT !.req = [hook.req EXCEPT ![p] = a]]
    BY <1>1 DEF ListRead, HookOK, Hooks
  <1> HIDE DEF a
  <1>4. /\ hook' \in Hooks /\ hook'.req = [hook.req EXCEPT ![p] = a] /\ hook'.lists = hook.lists
        /\ hook'.shown = hook.shown /\ hook'.late = hook.late
    BY <1>1, <1>2, <1>3 DEF HookOK, Hooks
  <1>5. HookOK(hook')
    BY <1>1, <1>2, <1>4 DEF HookOK
  <1> QED  BY <1>4, <1>5, OnlyHook DEF ListRead, user

LEMMA ExpireStep == ASSUME ConsoleInv, NEW p \in Projects, Expire(p) PROVE ConsoleInv'
  <1>1. HookOK(hook) /\ hook.lists \in [Projects -> AnyList]
        /\ hook' = [hook EXCEPT !.lists = [hook.lists EXCEPT ![p] = Absent]]
    BY HookFields DEF ConsoleInv, Expire, HookOK, Hooks
  <1>2. /\ hook' \in Hooks /\ hook'.req = hook.req /\ hook'.lists = [hook.lists EXCEPT ![p] = Absent]
        /\ hook'.shown = hook.shown /\ hook'.late = hook.late
    BY <1>1, AbsentIsList DEF HookOK, Hooks
  <1>3. HookOK(hook')
    BY <1>1, <1>2, AbsentIsList DEF HookOK
  <1> QED  BY <1>2, <1>3, OnlyHook DEF Expire, user

LEMMA AnswerFailsStep == ASSUME ConsoleInv, NEW p \in Projects, AnswerFails(p) PROVE ConsoleInv'
  <1>1. /\ HookOK(hook) /\ hook.lists \in [Projects -> AnyList]
        /\ hook.req \in [Projects -> {Absent} \cup Answers]
        /\ hook' = [hook EXCEPT !.lists = [hook.lists EXCEPT ![p] = Absent],
                                !.req = [hook.req EXCEPT ![p] = Absent]]
    BY HookFields DEF ConsoleInv, AnswerFails, HookOK, Hooks
  <1>2. /\ hook' \in Hooks /\ hook'.req = [hook.req EXCEPT ![p] = Absent]
        /\ hook'.lists = [hook.lists EXCEPT ![p] = Absent]
        /\ hook'.shown = hook.shown /\ hook'.late = hook.late
    BY <1>1, AbsentIsList DEF HookOK, Hooks
  <1>3. HookOK(hook')
    BY <1>1, <1>2, AbsentIsList DEF HookOK
  <1> QED  BY <1>2, <1>3, OnlyHook DEF AnswerFails

LEMMA AnswerStep == ASSUME ConsoleInv, NEW p \in Projects, Answer(p) PROVE ConsoleInv'
  <1> DEFINE to == hook.req[p].to
             got == hook.req[p].got
             s == [w \in Watchers |-> IF w \in to THEN got ELSE hook.shown[w]]
             h == [lists |-> [hook.lists EXCEPT ![p] = got], req |-> [hook.req EXCEPT ![p] = Absent],
                   shown |-> s, late |-> (hook.late \ to) \cup {w \in to : Watched(w) # p}]
  <1>1. /\ HookOK(hook) /\ hook.lists \in [Projects -> AnyList]
        /\ hook.req \in [Projects -> {Absent} \cup Answers]
        /\ hook.shown \in [Watchers -> AnyList] /\ hook.late \in SUBSET Watchers
        /\ \A q \in Projects : Fits(hook.lists[q], q) /\ (hook.req[q] # Absent => Fits(hook.req[q].got, q))
        /\ hook.req[p] # Absent
    BY HookFields DEF ConsoleInv, Answer
  <1>2. got \in AnyList /\ Fits(got, p) /\ to \in SUBSET Watchers
    BY <1>1 DEF Answers
  <1>3. Show(h, store) /\ UNCHANGED <<server, store, prefs, visits>>
    BY DEF Answer, user
  <1> HIDE DEF got, to
  <1>4. s \in [Watchers -> AnyList]
    BY <1>1, <1>2
  <1>5. h \in Hooks
    BY <1>1, <1>2, <1>4 DEF Hooks
  <1>6. HookOK(h)
    BY <1>1, <1>2, <1>5 DEF HookOK
  <1>7. ASSUME NEW w \in Mounted(page) \ h.late PROVE Fits(h.shown[w], Watched(w))
    <2>1. w \in Watchers
      BY DEF Mounted, Watchers
    <2>2. CASE w \in to
      BY <2>1, <2>2, <1>2, <1>7
    <2>3. CASE w \notin to
      BY <2>1, <2>3, <1>7 DEF ConsoleInv, ListIsOfProject, Fits
    <2> QED  BY <2>2, <2>3
  <1> HIDE DEF h
  <1> QED  BY <1>3, <1>6, <1>7, ShowKeeps

LEMMA WatchedProject ==
  ASSUME ConsoleInv, NEW w \in Mounted(page) PROVE Watched(w) \in Projects
  BY PageFacts DEF Watched, Mounted, Watchers, Tables, Pages, Kinds

LEMMA TickStep == ASSUME ConsoleInv, NEW w \in Watchers, Tick(w) PROVE ConsoleInv'
  <1> DEFINE h == Ask(hook, {w}, Watched(w))
  <1>1. Watched(w) \in Projects /\ HookOK(hook) /\ {w} \in SUBSET Watchers
    BY WatchedProject DEF Tick, ConsoleInv
  <1>2. /\ HookOK(h)
        /\ \A v \in Watchers :
              \/ v \in {w} /\ Fits(h.shown[v], Watched(w)) /\ v \notin h.late
              \/ h.shown[v] = hook.shown[v] /\ (v \in h.late <=> v \in hook.late)
    BY <1>1, AskDoes
  <1>3. Show(h, store) /\ UNCHANGED <<server, store, prefs, visits>>
    BY DEF Tick, user
  <1> HIDE DEF h
  <1>4. ASSUME NEW v \in Mounted(page) \ h.late PROVE Fits(h.shown[v], Watched(v))
    <2>1. v \in Watchers
      BY DEF Mounted, Watchers
    <2>2. CASE v = w /\ Fits(h.shown[v], Watched(w))
      BY <2>2
    <2>3. CASE h.shown[v] = hook.shown[v] /\ (v \in h.late <=> v \in hook.late)
      BY <2>3 DEF ConsoleInv, ListIsOfProject, Fits
    <2> QED  BY <2>1, <2>2, <2>3, <1>2
  <1> QED  BY <1>2, <1>3, <1>4, ShowKeeps

\* The bell and the dashboard change to another project.
LEMMA UseKeeps ==
  ASSUME ConsoleInv, NEW p \in Projects, Use(p),
         Placed(page'), page'.kind = page.kind, page'.project = page.project,
         UNCHANGED <<runs, archived, launch, dels, prefs>>, layout' \subseteq Projects, visits' \in Nat
  PROVE  ConsoleInv'
  <1>1. WorldInv'
    BY DEF ConsoleInv, WorldInv, Use
  <1>2. DelsInv' /\ LaunchInv'
    BY DEF ConsoleInv, DelsInv, LaunchInv
  <1>3. CASE p = store
    <2>1. UNCHANGED <<hook, notified, notes, store>>
      BY <1>3 DEF Use
    <2> QED  BY <2>1, <1>1, <1>2, ListsStay DEF ConsoleInv, Placed, HookOK, NotesInv, NotesOK, Once
  <1>4. CASE p # store
    <2> DEFINE ws == IF page.kind = "board" THEN Watchers ELSE Mounted(page) \cap {"bell"}
               h == Restart(hook, ws, p)
    <2>1. hook' = h /\ Notify(h, p) /\ store' = p
      BY <1>4 DEF Use
    <2>2. ws \in SUBSET Watchers /\ HookOK(hook)
      BY DEF Watchers, ConsoleInv
    <2>3. \A w \in Mounted(page) : /\ w \in Watchers
                                   /\ w \in ws <=> w = "bell" \/ page.kind = "board"
      BY DEF Mounted, Watchers
    <2> HIDE DEF ws
    <2>4. /\ HookOK(h)
          /\ \A w \in Watchers :
               IF w \in ws THEN Fits(h.shown[w], p)
               ELSE h.shown[w] = hook.shown[w] /\ (w \in h.late <=> w \in hook.late)
      BY <2>2, RestartDoes
    <2> HIDE DEF h
    <2>5. NotesInv'
      BY <2>1, <2>4, NotifyKeeps DEF ConsoleInv
    <2>6. ASSUME NEW w \in Mounted(page), w \notin h.late
          PROVE  Fits(h.shown[w], IF w = "bell" \/ page.kind = "board" THEN p ELSE page.project)
      <3>1. CASE w \in ws
        BY <3>1, <2>3, <2>4
      <3>2. CASE w \notin ws
        BY <3>2, <2>3, <2>4, <2>6 DEF ConsoleInv, ListIsOfProject, Fits, Watched
      <3> QED  BY <3>1, <3>2
    <2>7. ListIsOfProject'
      BY <2>1, <2>6 DEF ListIsOfProject, Fits, Mounted, Watched
    <2> QED  BY <1>1, <1>2, <2>1, <2>4, <2>5, <2>7 DEF ConsoleInv, Placed, HookOK
  <1> QED  BY <1>3, <1>4

LEMMA LayoutArrivesStep == ASSUME ConsoleInv, NEW p \in Projects, LayoutArrives(p) PROVE ConsoleInv'
  <1>1. /\ Use(p) /\ UNCHANGED <<runs, archived, page, launch, dels, prefs, visits>>
        /\ layout' = layout \ {p}
    BY DEF LayoutArrives, world, user
  <1>2. Placed(page') /\ layout' \subseteq Projects /\ visits' \in Nat
    BY <1>1 DEF ConsoleInv, WorldInv
  <1> QED  BY <1>1, <1>2, UseKeeps

LEMMA EnterStep ==
  ASSUME ConsoleInv, NEW p \in Projects, NEW kind \in {"board", "settings"}, Enter(p, kind)
  PROVE  ConsoleInv'
  <1>1. /\ Use(p) /\ UNCHANGED <<runs, archived, launch, layout, dels, prefs>>
        /\ page' = [page EXCEPT !.goes = kind, !.offers = p] /\ page.kind = "hub"
        /\ visits > 0 /\ visits' = visits - 1
    BY DEF Enter, Does, server, world
  <1>2. Placed(page') /\ page'.kind = page.kind /\ page'.project = page.project
    BY <1>1 DEF ConsoleInv, Placed, ConsolePages
  <1>3. layout' \subseteq Projects /\ visits' \in Nat
    BY <1>1 DEF ConsoleInv, WorldInv
  <1> QED  BY <1>1, <1>2, <1>3, UseKeeps

LEMMA LayoutFailsStep == ASSUME ConsoleInv, NEW p \in Projects, LayoutFails(p) PROVE ConsoleInv'
  <1> DEFINE pg == Opened("hub", Absent, Absent, store)
  <1>1. /\ Goto(pg, layout \ {p}) /\ UNCHANGED <<runs, archived, store, launch, prefs, visits>>
    BY DEF LayoutFails, world
  <1>2. Placed(pg) /\ layout \ {p} \in SUBSET Projects /\ visits' \in Nat
    BY <1>1, OpenedPlaced, PageFacts DEF Kinds, Pages, Tables
  <1>3. LaunchInv'
    BY <1>1 DEF ConsoleInv, LaunchInv
  <1> HIDE DEF pg
  <1> QED  BY <1>1, <1>2, <1>3, GotoKeeps

\* The board's list is asked for anew; for another project than the board's by now
\* its answer will be late.
LEMMA DeletedStep == ASSUME ConsoleInv, NEW d \in dels, Deleted(d) PROVE ConsoleInv'
  <1> DEFINE ws == IF d.here THEN {"page"} ELSE {}
             a == Ask(hook, ws, d.project)
             h == IF d.project = store THEN a ELSE [a EXCEPT !.late = @ \cup ws]
  <1>1. /\ UNCHANGED <<page, store, layout, launch, prefs, visits>> /\ dels' = dels \ {d}
        /\ \/ archived' = archived \cup {d.run} /\ runs' = runs
           \/ /\ runs' = [runs EXCEPT ![d.run] = CASE @ \in TERMINAL -> "deleted"
                                               [] @ \in Active -> "cancelled"
                                               [] OTHER -> @]
              /\ archived' = archived
           \/ runs' = runs /\ archived' = archived
        /\ IF d.from = "board" THEN hook' = h /\ Notify(hook', store)
           ELSE UNCHANGED <<hook, notified, notes>>
    BY DEF Deleted, world
  <1>2. /\ d.run \in Runs /\ d.project \in Projects /\ d.here \in BOOLEAN
        /\ d.from = "board" /\ d.here => page.kind = "board"
    BY DEF ConsoleInv, DelsInv, DelRecords
  <1>3. ws \in SUBSET Watchers
    BY DEF Watchers
  <1>4. /\ ws # {} => ws = {"page"} /\ d.here
        /\ HookOK(hook)
    BY DEF ConsoleInv
  <1> HIDE DEF ws
  <1>5. /\ HookOK(a)
        /\ \A w \in Watchers :
             \/ w \in ws /\ Fits(a.shown[w], d.project) /\ w \notin a.late
             \/ a.shown[w] = hook.shown[w] /\ (w \in a.late <=> w \in hook.late)
    BY <1>2, <1>3, <1>4, AskDoes
  <1> HIDE DEF a
  <1>6. HookOK(h) /\ h.shown = a.shown /\ h.late = IF d.project = store THEN a.late ELSE a.late \cup ws
    <2>1. a.late \in SUBSET Watchers
      BY <1>5, HookFields
    <2> QED  BY <2>1, <1>3, <1>5 DEF HookOK, Hooks
  <1> HIDE DEF h
  <1>7. WorldInv'
    <2>1. runs' \in [Runs -> RunStates]
      BY <1>1, <1>2 DEF ConsoleInv, WorldInv, RunStates, TERMINAL
    <2> QED  BY <2>1, <1>1, <1>2 DEF ConsoleInv, WorldInv
  <1>8. DelsInv' /\ LaunchInv'
    BY <1>1 DEF ConsoleInv, DelsInv, LaunchInv
  <1>9. CASE d.from # "board"
    BY <1>1, <1>7, <1>8, <1>9, OnlyWorld
  <1>10. CASE d.from = "board"
    <2>1. hook' = h /\ Notify(h, store)
      BY <1>1, <1>10
    <2>2. NotesInv'
      BY <2>1, <1>6, NotifyKeeps DEF ConsoleInv, WorldInv
    <2>3. ASSUME NEW w \in Mounted(page), w \notin h.late PROVE Fits(h.shown[w], Watched(w))
      <3>1. w \in Watchers
        BY DEF Mounted, Watchers
      <3>2. CASE w \in ws
        <4>1. page.kind = "board" /\ d.project = store
          BY <3>2, <2>3, <1>2, <1>4, <1>6, <1>10
        <4>2. Watched(w) = store
          BY <4>1 DEF Watched
        <4>3. CASE Fits(a.shown[w], d.project)
          BY <4>1, <4>2, <4>3, <1>6
        <4>4. CASE a.shown[w] = hook.shown[w] /\ (w \in a.late <=> w \in hook.late)
          BY <4>1, <4>4, <2>3, <1>6 DEF ConsoleInv, ListIsOfProject, Fits
        <4> QED  BY <3>1, <4>3, <4>4, <1>5
      <3>3. CASE w \notin ws
        BY <3>1, <3>3, <2>3, <1>5, <1>6 DEF ConsoleInv, ListIsOfProject, Fits
      <3> QED  BY <3>2, <3>3
    <2>4. ListIsOfProject'
      BY <1>1, <2>1, <2>3 DEF ListIsOfProject, Fits, Mounted, Watched
    <2> QED  BY <1>1, <1>6, <1>7, <1>8, <2>1, <2>2, <2>4 DEF ConsoleInv, Placed, HookOK
  <1> QED  BY <1>9, <1>10

-----------------------------------------------------------------------------
(* The user *)

\* The page changes and stays the one it is.
LEMMA OnlyPage ==
  ASSUME ConsoleInv, UNCHANGED <<server, store, hook, notified, notes, dels, prefs>>, visits' \in Nat,
         Placed(page'), page'.kind = page.kind, page'.project = page.project
  PROVE  ConsoleInv'
  <1>1. WorldInv' /\ LaunchInv'
    BY DEF ConsoleInv, WorldInv, LaunchInv, server, world
  <1>2. DelsInv'
    BY DEF ConsoleInv, DelsInv
  <1> QED  BY <1>1, <1>2, ListsStay DEF ConsoleInv, Placed, HookOK, NotesInv, NotesOK, Once

LEMMA PollStep == ASSUME ConsoleInv, Poll PROVE ConsoleInv'
  <1>1. /\ UNCHANGED <<server, store, hook, notified, notes, dels, prefs, visits>>
        /\ page' = [page EXCEPT !.seen = runs[page.selected]]
        /\ runs[page.selected] \in Active \cup TERMINAL
    BY DEF Poll, user
  <1>2. Placed(page') /\ page'.kind = page.kind /\ page'.project = page.project
    BY <1>1 DEF ConsoleInv, Placed, ConsolePages
  <1> QED  BY <1>1, <1>2, OnlyPage DEF ConsoleInv, WorldInv

LEMMA DoesOne == ASSUME ConsoleInv, NEW use, Does(use) PROVE visits' \in Nat
  BY DEF ConsoleInv, WorldInv, Does

LEMMA SelectStep == ASSUME ConsoleInv, NEW r \in Runs, Select(r) PROVE ConsoleInv'
  <1>1. /\ UNCHANGED <<server, store, hook, notified, notes, dels, prefs>>
        /\ page' = SelectRun(page, r) /\ page.kind = "live" /\ visits' \in Nat
    BY DoesOne DEF Select
  <1> QED  BY <1>1, OnlyPage, SelectionDoes DEF ConsoleInv

LEMMA TurnedStep == ASSUME ConsoleInv, NEW n \in Nat \ {0}, Turned(n) PROVE ConsoleInv'
  <1>1. /\ UNCHANGED <<server, store, hook, notified, notes, dels, prefs, visits>>
        /\ page' = [page EXCEPT !.at = n]
    BY DEF Turned, user
  <1>2. Placed(page') /\ page'.kind = page.kind /\ page'.project = page.project
    BY <1>1 DEF ConsoleInv, Placed, ConsolePages
  <1> QED  BY <1>1, <1>2, OnlyPage DEF ConsoleInv, WorldInv

LEMMA FiltersStep ==
  ASSUME ConsoleInv, NEW kind, NEW fs \in SUBSET {"all", "active", "passed", "failed"},
         Filters(kind, fs)
  PROVE  ConsoleInv'
  <1>1. PICK f \in fs : page' = [page EXCEPT !.filter = f, !.at = 1]
    BY DEF Filters
  <1>2. UNCHANGED <<server, store, hook, notified, notes, dels, prefs, visits>>
    BY DEF Filters, user
  <1>3. f \in {"all", "active", "passed", "failed"} /\ page \in ConsolePages
    BY PageFacts
  <1> DEFINE q == [page EXCEPT !.at = 1]
  <1>6. q \in ConsolePages /\ q.kind = page.kind /\ q.project = page.project /\ q.goes = page.goes
    BY <1>3 DEF ConsolePages
  <1>7. page' = [q EXCEPT !.filter = f]
    BY <1>1, <1>3 DEF ConsolePages
  <1> HIDE DEF q
  <1>4. page' \in ConsolePages /\ page'.kind = page.kind /\ page'.project = page.project
        /\ page'.goes = page.goes
    BY <1>3, <1>6, <1>7 DEF ConsolePages
  <1>5. Placed(page')
    BY <1>4 DEF ConsoleInv, Placed
  <1> QED  BY <1>2, <1>4, <1>5, OnlyPage DEF ConsoleInv, WorldInv

\* A navigation of the user to a page.
LEMMA GoneTo ==
  ASSUME ConsoleInv, NEW kind \in Kinds, NEW p \in Projects \cup {Absent},
         kind \in Pages => p \in Projects, NEW r \in Runs \cup {Absent},
         Goto(Opened(kind, p, r, store), layout), UNCHANGED <<runs, archived, store, prefs, launch>>,
         visits' \in Nat
  PROVE  ConsoleInv'
  <1> DEFINE pg == Opened(kind, p, r, store)
  <1>1. Placed(pg) /\ layout \in SUBSET Projects
    BY OpenedPlaced, PageFacts
  <1>2. LaunchInv'
    BY DEF ConsoleInv, LaunchInv
  <1>3. Goto(pg, layout)
    OBVIOUS
  <1> HIDE DEF pg
  <1> QED  BY <1>1, <1>2, <1>3, GotoKeeps

LEMMA VisitStep ==
  ASSUME ConsoleInv, NEW kind \in Pages, NEW p \in Projects, Visit(kind, p) PROVE ConsoleInv'
  <1>1. kind \in Kinds /\ Goto(Opened(kind, p, Absent, store), layout) /\ visits' \in Nat
        /\ UNCHANGED <<runs, archived, store, prefs, launch>>
    BY DoesOne DEF Visit, Pages, world
  <1> QED  BY <1>1, GoneTo

LEMMA LeaveStep == ASSUME ConsoleInv, Leave PROVE ConsoleInv'
  <1> DEFINE p == IF page.kind = "hub" THEN page.offers ELSE Absent
  <1>1. Goto(Opened(page.goes, p, Absent, store), layout) /\ visits' \in Nat
        /\ UNCHANGED <<runs, archived, store, prefs, launch>> /\ page.goes # "none"
    BY PageFacts DEF Leave, world, user
  <1>2. page.goes \in Kinds /\ p \in Projects \cup {Absent} /\ (page.goes \in Pages => p \in Projects)
    BY <1>1, PageFacts DEF Kinds, Tables, Pages
  <1> HIDE DEF p
  <1> QED  BY <1>1, <1>2, GoneTo

\* A row that is shown is a run of the list.
LEMMA ShownRows ==
  ASSUME ConsoleInv
  PROVE  /\ IsFiniteSet(Filtered) /\ Filtered \subseteq Runs
         /\ hook.shown["page"] # Absent \/ Filtered = {}
  <1> DEFINE l == hook.shown["page"]
  <1>1. l \in AnyList
    BY HookFields DEF ConsoleInv, Watchers
  <1>2. \A r \in Filtered : l # Absent /\ r \in DOMAIN l
    <2>1. CASE l = Absent
      BY <2>1 DEF Filtered
    <2>2. CASE l # Absent /\ page.kind = "board"
      BY <2>2 DEF Filtered
    <2>3. CASE l # Absent /\ page.kind # "board"
      BY <2>3 DEF Filtered, Completed
    <2> QED  BY <2>1, <2>2, <2>3
  <1>3. Filtered \subseteq Runs
    BY <1>1, <1>2, ListFacts
  <1> QED  BY <1>2, <1>3, FS_Subset, ConsoleAssumption

LEMMA OpenRowStep == ASSUME ConsoleInv, NEW r \in Runs, OpenRow(r) PROVE ConsoleInv'
  <1>1. page.kind = "board" /\ page.project \in Projects
    BY PageFacts DEF OpenRow, Kinds, Tables, Pages
  <1>2. PICK kind \in {"live", "report"} : Goto(Opened(kind, page.project, r, store), layout)
    BY DEF OpenRow
  <1>3. visits' \in Nat /\ UNCHANGED <<runs, archived, store, prefs, launch>>
    BY DoesOne DEF OpenRow, world
  <1> QED  BY <1>1, <1>2, <1>3, GoneTo DEF Kinds

LEMMA OpenReportStep == ASSUME ConsoleInv, NEW r \in Runs, OpenReport(r) PROVE ConsoleInv'
  <1>1. page.kind = "list" /\ page.project \in Projects
    BY PageFacts DEF OpenReport, Kinds, Tables, Pages
  <1>2. visits' \in Nat /\ UNCHANGED <<runs, archived, store, prefs, launch>>
        /\ Goto(Opened("report", page.project, r, store), layout)
    BY DoesOne DEF OpenReport, world
  <1> QED  BY <1>1, <1>2, GoneTo DEF Kinds

LEMMA ViewReportStep == ASSUME ConsoleInv, ViewReport PROVE ConsoleInv'
  <1>1. page.kind = "live" /\ page.project \in Projects /\ page.selected \in Runs \cup {Absent}
    BY PageFacts DEF ViewReport, Kinds, Tables, Pages
  <1>2. visits' \in Nat /\ UNCHANGED <<runs, archived, store, prefs, launch>>
        /\ Goto(Opened("report", page.project, page.selected, store), layout)
    BY DoesOne DEF ViewReport, world
  <1> QED  BY <1>1, <1>2, GoneTo DEF Kinds

\* A request to delete, cancel or archive a run is under way.
LEMMA DelStep ==
  ASSUME ConsoleInv, NEW d \in DelRecords, dels' = dels \cup {d},
         d.from = "board" => page.kind = "board",
         UNCHANGED <<server, page, store, hook, notified, notes, prefs>>, visits' \in Nat
  PROVE  ConsoleInv'
  <1>1. WorldInv' /\ LaunchInv'
    BY DEF ConsoleInv, WorldInv, LaunchInv, server, world
  <1>2. DelsInv'
    BY DEF ConsoleInv, DelsInv
  <1> QED  BY <1>1, <1>2, OnlyWorld

LEMMA DeleteRowStep == ASSUME ConsoleInv, NEW r \in Runs, DeleteRow(r) PROVE ConsoleInv'
  <1> DEFINE d == [run |-> r, from |-> "board", project |-> store, here |-> TRUE, n |-> visits]
  <1>1. d \in DelRecords /\ dels' = dels \cup {d} /\ page.kind = "board"
    BY PageFacts DEF DelRecords, DeleteRow
  <1>2. UNCHANGED <<server, page, store, hook, notified, notes, prefs>> /\ visits' \in Nat
    BY DoesOne DEF DeleteRow
  <1> HIDE DEF d
  <1> QED  BY <1>1, <1>2, DelStep

LEMMA AbortStep == ASSUME ConsoleInv, Abort PROVE ConsoleInv'
  <1> DEFINE d == [run |-> page.selected, from |-> "live", project |-> store, here |-> TRUE, n |-> visits]
  <1>1. d \in DelRecords /\ dels' = dels \cup {d} /\ d.from = "live"
    BY PageFacts DEF DelRecords, Abort
  <1>2. UNCHANGED <<server, page, store, hook, notified, notes, prefs>> /\ visits' \in Nat
    BY DoesOne DEF Abort
  <1> HIDE DEF d
  <1> QED  BY <1>1, <1>2, DelStep

LEMMA ArchiveCaseStep == ASSUME ConsoleInv, NEW r \in Runs, ArchiveCase(r) PROVE ConsoleInv'
  <1> DEFINE d == [run |-> r, from |-> "cases", project |-> store, here |-> TRUE, n |-> visits]
  <1>1. d \in DelRecords /\ dels' = dels \cup {d} /\ d.from = "cases"
    BY PageFacts DEF DelRecords, ArchiveCase
  <1>2. UNCHANGED <<server, page, store, hook, notified, notes, prefs>> /\ visits' \in Nat
    BY DoesOne DEF ArchiveCase
  <1> HIDE DEF d
  <1> QED  BY <1>1, <1>2, DelStep

-----------------------------------------------------------------------------
(* What the user does with notifications *)

LEMMA OpenNoteStep == ASSUME ConsoleInv, NEW i, OpenNote(i) PROVE ConsoleInv'
  <1> DEFINE pg == Opened("report", notes[i].project, notes[i].run, store)
             old == [j \in DOMAIN notes |-> [notes[j] EXCEPT !.here = FALSE, !.read = @ \/ j = i]]
  <1>1. /\ i \in DOMAIN notes /\ visits' \in Nat
        /\ UNCHANGED <<runs, archived, store, prefs, launch>>
        /\ hook' = Remount(pg) /\ notified' = Ended(Remount(pg).shown["bell"])
        /\ notes' = Added({}, Remount(pg).shown["bell"], store, old)
        /\ page' = pg
        /\ dels' = {[d EXCEPT !.here = FALSE] : d \in dels}
        /\ layout' = layout \cup ({pg.project} \ {page.project, store})
    BY DoesOne DEF OpenNote, world
  <1>2. Placed(pg) /\ pg.kind = "report" /\ pg.project \in Projects
    <2>1. notes[i].run \in Runs /\ notes[i].project \in Projects
      BY <1>1, NoteFields DEF ConsoleInv
    <2>2. "report" \in Kinds /\ "report" \notin Pages
      BY DEF Kinds, Pages
    <2> QED  BY <2>1, <2>2, PageFacts, OpenedPlaced
  <1>3. page' \in SelfSelected(pg, Remount(pg))
    BY <1>1, <1>2 DEF SelfSelected
  <1>4. old \in [DOMAIN notes -> NoteRecords] /\ \A j \in DOMAIN old : old[j].here = FALSE
    BY NoteFields DEF ConsoleInv, NoteRecords
  <1> HIDE DEF pg, old
  <1>5. old \in Seq(NoteRecords)
    BY <1>4, ChangedNotes DEF ConsoleInv, NotesInv, NotesOK
  <1>6. layout' \subseteq Projects /\ LaunchInv'
    BY <1>1, <1>2, PageFacts DEF ConsoleInv, LaunchInv
  <1> QED  BY <1>1, <1>2, <1>3, <1>4, <1>5, <1>6, GoesKeeps

\* Only the notes change.
LEMMA OnlyNotes ==
  ASSUME ConsoleInv, UNCHANGED <<server, page, store, hook, notified, dels, prefs>>,
         visits' \in Nat, NotesOK(notes'), Once(notes', notified)
  PROVE  ConsoleInv'
  <1>1. WorldInv' /\ LaunchInv'
    BY DEF ConsoleInv, WorldInv, LaunchInv, server, world
  <1>2. DelsInv' /\ NotesInv'
    BY DEF ConsoleInv, DelsInv, NotesInv, NotesOK, Once
  <1> QED  BY <1>1, <1>2, ListsStay DEF ConsoleInv, Placed, HookOK

LEMMA MarkAllReadStep == ASSUME ConsoleInv, MarkAllRead PROVE ConsoleInv'
  <1> DEFINE ns == [i \in DOMAIN notes |-> [notes[i] EXCEPT !.read = TRUE]]
  <1>1. UNCHANGED <<server, page, store, hook, notified, dels, prefs>> /\ visits' \in Nat
        /\ notes' = ns
    BY DoesOne DEF MarkAllRead
  <1>2. ns \in [DOMAIN notes -> NoteRecords]
        /\ \A i \in DOMAIN notes : ns[i].here = notes[i].here /\ ns[i].run = notes[i].run
    BY NoteFields DEF ConsoleInv, NoteRecords
  <1> HIDE DEF ns
  <1>3. NotesOK(ns) /\ DOMAIN ns = DOMAIN notes
    BY <1>2, ChangedNotes DEF ConsoleInv, NotesInv
  <1>4. Once(ns, notified)
    BY <1>2, <1>3 DEF ConsoleInv, NotesInv, Once
  <1> QED  BY <1>1, <1>3, <1>4, OnlyNotes

LEMMA RemoveNoteStep == ASSUME ConsoleInv, NEW i, RemoveNote(i) PROVE ConsoleInv'
  <1> DEFINE ns == RemoveAt(notes, i)
             n == Len(notes)
             m == Len(SubSeq(notes, 1, i - 1))
  <1>1. UNCHANGED <<server, page, store, hook, notified, dels, prefs>> /\ visits' \in Nat
        /\ notes' = ns /\ i \in DOMAIN notes
    BY DoesOne DEF RemoveNote
  <1>2. /\ notes \in Seq(NoteRecords) /\ n \in Nat /\ n <= NotesKept /\ DOMAIN notes = 1..n
        /\ NotesKept \in Nat /\ i \in 1..n /\ \A j \in 1..n : notes[j] \in NoteRecords
    BY <1>1, LenProperties, ElementOfSeq, ConsoleAssumption DEF ConsoleInv, NotesInv, NotesOK
  <1>3. /\ SubSeq(notes, 1, i - 1) \in Seq(NoteRecords) /\ m = i - 1
        /\ \A j \in 1 .. i - 1 : SubSeq(notes, 1, i - 1)[j] = notes[j]
    <2>1. /\ SubSeq(notes, 1, i - 1) \in Seq(NoteRecords)
          /\ m = IF 1 <= i - 1 THEN i - 1 - 1 + 1 ELSE 0
          /\ \A j \in 1 .. i - 1 - 1 + 1 : SubSeq(notes, 1, i - 1)[j] = notes[1 + j - 1]
      BY <1>2, SubSeqProperties
    <2> QED  BY <2>1, <1>2
  <1>4. /\ SubSeq(notes, i + 1, n) \in Seq(NoteRecords) /\ Len(SubSeq(notes, i + 1, n)) = n - i
        /\ \A j \in 1 .. n - i : SubSeq(notes, i + 1, n)[j] = notes[i + j]
    <2>1. /\ SubSeq(notes, i + 1, n) \in Seq(NoteRecords)
          /\ Len(SubSeq(notes, i + 1, n)) = IF i + 1 <= n THEN n - (i + 1) + 1 ELSE 0
          /\ \A j \in 1 .. n - (i + 1) + 1 : SubSeq(notes, i + 1, n)[j] = notes[i + 1 + j - 1]
      BY <1>2, SubSeqProperties
    <2> QED  BY <2>1, <1>2
  <1>5. ns = SubSeq(notes, 1, i - 1) \o SubSeq(notes, i + 1, n)
    BY DEF RemoveAt
  <1> HIDE DEF ns, n, m
  <1>6. /\ ns \in Seq(NoteRecords) /\ Len(ns) = n - 1
        /\ \A j \in 1 .. n - 1 : ns[j] = IF j <= i - 1 THEN notes[j] ELSE notes[j + 1]
    <2>1. /\ ns \in Seq(NoteRecords) /\ Len(ns) = i - 1 + (n - i)
          /\ \A j \in 1 .. i - 1 + (n - i) :
               ns[j] = IF j <= i - 1 THEN SubSeq(notes, 1, i - 1)[j]
                       ELSE SubSeq(notes, i + 1, n)[j - (i - 1)]
      BY <1>3, <1>4, <1>5, ConcatProperties DEF m
    <2>2. Len(ns) = n - 1
      BY <2>1, <1>2
    <2>3. ASSUME NEW j \in 1 .. n - 1, j <= i - 1 PROVE ns[j] = notes[j]
      BY <2>1, <2>3, <1>2, <1>3
    <2>4. ASSUME NEW j \in 1 .. n - 1, ~(j <= i - 1) PROVE ns[j] = notes[j + 1]
      <3>1. j - (i - 1) \in 1 .. n - i /\ i + (j - (i - 1)) = j + 1 /\ j \in 1 .. i - 1 + (n - i)
        BY <2>4, <1>2
      <3>2. ns[j] = SubSeq(notes, i + 1, n)[j - (i - 1)]
        BY <3>1, <2>1, <2>4
      <3> QED  BY <3>1, <3>2, <1>4
    <2> QED  BY <2>1, <2>2, <2>3, <2>4
  <1>7. NotesOK(ns) /\ DOMAIN ns = 1 .. n - 1
    BY <1>2, <1>6, LenProperties DEF NotesOK
  <1>8. Once(ns, notified)
    <2>1. Once(notes, notified)
      BY DEF ConsoleInv, NotesInv
    <2> DEFINE k(j) == IF j <= i - 1 THEN j ELSE j + 1
    <2>2. \A j \in DOMAIN ns : k(j) \in DOMAIN notes /\ ns[j] = notes[k(j)]
      BY <1>2, <1>6, <1>7
    <2>3. \A j1, j2 \in DOMAIN ns : k(j1) = k(j2) => j1 = j2
      BY <1>2, <1>7
    <2> HIDE DEF k
    <2> QED  BY <2>1, <2>2, <2>3 DEF Once
  <1> QED  BY <1>1, <1>7, <1>8, OnlyNotes

LEMMA SetPrefStep == ASSUME ConsoleInv, NEW pref \in Prefs, SetPref(pref) PROVE ConsoleInv'
  <1>1. /\ UNCHANGED <<server, page, store, hook, notified, notes, dels>> /\ visits' \in Nat
        /\ prefs' = [prefs EXCEPT ![store] = pref]
    BY DoesOne DEF SetPref, shown
  <1>2. WorldInv' /\ LaunchInv'
    BY <1>1 DEF ConsoleInv, WorldInv, LaunchInv, server, world
  <1>3. DelsInv'
    BY <1>1 DEF ConsoleInv, DelsInv
  <1> QED  BY <1>1, <1>2, <1>3, OnlyWorld

-----------------------------------------------------------------------------
(* Starts of runs *)

\* What is started from a page of the store's project leads there.
LEMMA LaunchStep ==
  ASSUME ConsoleInv, NEW r \in Runs, NEW p \in Projects, NEW to \in Projects, Launch(r, p, to),
         {store, page.offers} = {page.project} => p = to
  PROVE  ConsoleInv'
  <1>1. /\ UNCHANGED <<runs, archived, layout, page, hook, notified, notes, dels, store, prefs>>
        /\ visits' \in Nat /\ Home[r] = p
        /\ launch' = [run |-> r, to |-> to, stray |-> {store, page.offers} # {page.project}]
    BY DoesOne DEF Launch, world, shown
  <1>2. WorldInv' /\ DelsInv'
    BY <1>1 DEF ConsoleInv, WorldInv, DelsInv
  <1>3. LaunchInv'
    BY <1>1 DEF LaunchInv, LaunchRecords
  <1> QED  BY <1>1, <1>2, <1>3, OnlyWorld

LEMMA LaunchesStep ==
  ASSUME ConsoleInv, NEW r \in Runs, LaunchForm(r) \/ LaunchCard(r) \/ LaunchPicked(r)
  PROVE  ConsoleInv'
  <1>1. page.offers \in Projects /\ store \in Projects
    BY PageFacts
  <1>2. CASE LaunchForm(r)
    <2>1. page.project \in Projects /\ Launch(r, page.project, page.offers)
      BY <1>2, PageFacts DEF LaunchForm, Pages, Kinds
    <2> QED  BY <1>1, <2>1, LaunchStep
  <1>3. CASE LaunchCard(r)
    <2>1. page.project \in Projects /\ Launch(r, page.project, store)
      BY <1>3, PageFacts DEF LaunchCard, Pages, Kinds
    <2> QED  BY <1>1, <2>1, LaunchStep
  <1>4. CASE LaunchPicked(r)
    <2>1. Launch(r, page.offers, store)
      BY <1>4 DEF LaunchPicked
    <2> QED  BY <1>1, <2>1, LaunchStep
  <1> QED  BY <1>2, <1>3, <1>4

LEMMA StartedStep == ASSUME ConsoleInv, Started PROVE ConsoleInv'
  <1>1. UNCHANGED <<archived, page, hook, notified, notes, dels, store, layout, launch, prefs, visits>>
        /\ runs' = [runs EXCEPT ![launch.run] = "active"]
    BY DEF Started, shown, user
  <1>2. WorldInv'
    BY <1>1 DEF ConsoleInv, WorldInv, RunStates, Active
  <1>3. DelsInv' /\ LaunchInv'
    BY <1>1 DEF ConsoleInv, DelsInv, LaunchInv
  <1> QED  BY <1>1, <1>2, <1>3, OnlyWorld

LEMMA LaunchOpensStep == ASSUME ConsoleInv, LaunchOpens PROVE ConsoleInv'
  <1>1. /\ launch # Absent /\ launch' = Absent /\ UNCHANGED <<runs, archived, store, prefs, visits>>
        /\ \/ UNCHANGED <<page, hook, notified, notes, dels, layout>>
           \/ Goto(Opened("live", launch.to, launch.run, store), layout)
    BY DEF LaunchOpens, world, user, shown
  <1>2. launch.to \in Projects /\ launch.run \in Runs
    BY <1>1 DEF ConsoleInv, LaunchInv, LaunchRecords
  <1>3. LaunchInv' /\ visits' \in Nat
    BY <1>1, PageFacts DEF LaunchInv
  <1>4. CASE UNCHANGED <<page, hook, notified, notes, dels, layout>>
    <2>1. WorldInv' /\ DelsInv'
      BY <1>1, <1>4 DEF ConsoleInv, WorldInv, DelsInv
    <2> QED  BY <2>1, <1>1, <1>3, <1>4, OnlyWorld
  <1>5. CASE Goto(Opened("live", launch.to, launch.run, store), layout)
    <2> DEFINE pg == Opened("live", launch.to, launch.run, store)
    <2>1. Placed(pg) /\ layout \in SUBSET Projects
      BY <1>2, OpenedPlaced, PageFacts DEF Kinds
    <2>2. Goto(pg, layout)
      BY <1>5
    <2> HIDE DEF pg
    <2> QED  BY <2>1, <2>2, <1>1, <1>3, GotoKeeps
  <1> QED  BY <1>1, <1>4, <1>5

LEMMA LaunchFailsStep == ASSUME ConsoleInv, LaunchFails PROVE ConsoleInv'
  <1>1. UNCHANGED <<runs, archived, page, hook, notified, notes, dels, store, layout, prefs, visits>>
        /\ launch' = Absent
    BY DEF LaunchFails, shown, world
  <1>2. WorldInv' /\ DelsInv' /\ LaunchInv'
    BY <1>1 DEF ConsoleInv, WorldInv, DelsInv, LaunchInv
  <1> QED  BY <1>1, <1>2, OnlyWorld

-----------------------------------------------------------------------------
(* The invariant *)

LEMMA ConsoleInitHolds == ASSUME ConsoleInit PROVE ConsoleInv
  <1> DEFINE empty == [lists |-> [p \in Projects |-> Absent], req |-> [p \in Projects |-> Absent],
                       shown |-> [w \in Watchers |-> Absent], late |-> {}]
             h == Ask(empty, {"bell"}, store)
  <1>1. /\ runs \in [Runs -> RunStates] /\ store \in Projects /\ visits \in Nat
        /\ page = Opened("hub", Absent, Absent, store) /\ layout = {} /\ hook = h
        /\ notified = {} /\ notes = << >> /\ archived = {} /\ launch = Absent /\ dels = {}
        /\ prefs = [p \in Projects |-> [onFailure |-> TRUE, onSuccess |-> FALSE]]
    BY SessionsAssumption DEF ConsoleInit
  <1>2. WorldInv /\ DelsInv /\ LaunchInv
    BY <1>1 DEF WorldInv, DelsInv, LaunchInv, Prefs
  <1>3. Placed(page) /\ page.kind = "hub"
    <2>1. "hub" \in Kinds /\ "hub" \notin Pages
      BY DEF Kinds, Pages
    <2>2. Absent \in Projects \cup {Absent} /\ Absent \in Runs \cup {Absent}
      OBVIOUS
    <2>3. /\ Placed(Opened("hub", Absent, Absent, store))
          /\ Opened("hub", Absent, Absent, store).kind = "hub"
      <3>1. store \in Projects
        BY <1>1
      <3>2. "hub" \in Pages => Absent \in Projects
        BY <2>1
      <3> HIDE DEF h, empty
      <3> QED  BY <3>1, <3>2, <2>1, <2>2, OpenedPlaced, SMT
    <2> QED  BY <1>1, <2>3
  <1>4. HookOK(empty) /\ {"bell"} \in SUBSET Watchers
    BY AbsentIsList DEF HookOK, Hooks, Watchers
  <1> HIDE DEF empty
  <1>5. /\ HookOK(h)
        /\ \A w \in Watchers :
             \/ w \in {"bell"} /\ Fits(h.shown[w], store) /\ w \notin h.late
             \/ h.shown[w] = empty.shown[w] /\ (w \in h.late <=> w \in empty.late)
    BY <1>1, <1>4, AskDoes
  <1>6. \A w \in Watchers : empty.shown[w] = Absent
    BY DEF empty
  <1> HIDE DEF h
  <1>7. ListIsOfProject
    BY <1>1, <1>3, <1>5, <1>6 DEF ListIsOfProject, Fits, Mounted, Watched, Watchers, Tables
  <1>8. NotesInv
    <2>1. notes \in Seq(NoteRecords) /\ Len(notes) = 0 /\ DOMAIN notes = {}
      BY <1>1, EmptySeq
    <2> QED  BY <2>1, <1>1, ConsoleAssumption DEF NotesInv, NotesOK, Once
  <1> QED  BY <1>1, <1>2, <1>3, <1>5, <1>7, <1>8 DEF ConsoleInv

LEMMA ConsoleStepKeeps == ASSUME ConsoleInv, [ConsoleNext]_consoleVars PROVE ConsoleInv'
  <1>1. CASE \E r \in Runs : \E s \in TERMINAL \ {"cancelled"} : Finish(r, s)
    BY <1>1, FinishStep
  <1>2. CASE \E r \in Runs : \/ Select(r) \/ OpenRow(r) \/ OpenReport(r) \/ DeleteRow(r)
                             \/ ArchiveCase(r)
    BY <1>2, SelectStep, OpenRowStep, OpenReportStep, DeleteRowStep, ArchiveCaseStep
  <1>3. CASE \E r \in Runs : LaunchForm(r) \/ LaunchCard(r) \/ LaunchPicked(r)
    BY <1>3, LaunchesStep
  <1>4. CASE \E p \in Projects : ListRead(p) \/ Answer(p) \/ AnswerFails(p) \/ Expire(p)
    BY <1>4, ListReadStep, AnswerStep, AnswerFailsStep, ExpireStep
  <1>5. CASE \E p \in Projects : LayoutArrives(p) \/ LayoutFails(p)
    BY <1>5, LayoutArrivesStep, LayoutFailsStep
  <1>6. CASE \E p \in Projects : Enter(p, "board") \/ Enter(p, "settings")
    BY <1>6, EnterStep
  <1>7. CASE \E p \in Projects : \E kind \in Pages : Visit(kind, p)
    BY <1>7, VisitStep
  <1>8. CASE \E w \in Watchers : Tick(w)
    BY <1>8, TickStep
  <1>9. CASE \E d \in dels : Deleted(d)
    BY <1>9, DeletedStep
  <1>10. CASE Poll \/ Leave \/ ViewReport \/ Abort
    BY <1>10, PollStep, LeaveStep, ViewReportStep, AbortStep
  <1>11. CASE FilterBoard \/ FilterList
    BY <1>11, FiltersStep DEF FilterBoard, FilterList
  <1>12. CASE \E n \in 1..Cardinality(Runs) : Turn(n) \/ StepList(n)
    <2>1. PICK n \in 1..Cardinality(Runs) : Turned(n)
      BY <1>12 DEF Turn, StepList
    <2>2. n \in Nat \ {0}
      BY FS_CardinalityType, ConsoleAssumption
    <2> QED  BY <2>1, <2>2, TurnedStep
  <1>13. CASE \E i \in 1..NotesKept : OpenNote(i) \/ RemoveNote(i)
    BY <1>13, OpenNoteStep, RemoveNoteStep
  <1>14. CASE MarkAllRead \/ Started \/ LaunchOpens \/ LaunchFails
    BY <1>14, MarkAllReadStep, StartedStep, LaunchOpensStep, LaunchFailsStep
  <1>15. CASE \E pref \in Prefs : SetPref(pref)
    BY <1>15, SetPrefStep
  <1>16. CASE UNCHANGED consoleVars
    <2>1. UNCHANGED <<runs, archived, layout, launch, page, hook, notified, notes, dels, store, prefs, visits>>
      BY <1>16 DEF consoleVars, server, world, shown, user
    <2>2. WorldInv' /\ DelsInv' /\ LaunchInv'
      BY <2>1 DEF ConsoleInv, WorldInv, DelsInv, LaunchInv
    <2> QED  BY <2>1, <2>2, OnlyWorld
  <1> QED  BY <1>1, <1>2, <1>3, <1>4, <1>5, <1>6, <1>7, <1>8, <1>9, <1>10, <1>11, <1>12, <1>13,
              <1>14, <1>15, <1>16 DEF ConsoleNext

LEMMA ConsoleInvHolds == ConsoleSpec => []ConsoleInv
  BY ConsoleInitHolds, ConsoleStepKeeps, PTL DEF ConsoleSpec

LEMMA ConsoleInvTypes == ConsoleInv => ConsoleTypeOK
  <1> SUFFICES ASSUME ConsoleInv PROVE ConsoleTypeOK
    OBVIOUS
  <1>1. /\ hook.lists \in [Projects -> AnyList] /\ hook.req \in [Projects -> {Absent} \cup Answers]
        /\ hook.shown \in [Watchers -> AnyList]
    BY HookFields DEF ConsoleInv
  <1>2. \A p \in Projects : hook.req[p] # Absent => hook.req[p].to \subseteq Watchers
    BY <1>1 DEF Answers
  <1> QED  BY <1>1, <1>2, PageFacts DEF ConsoleInv, WorldInv, NotesInv, NotesOK, ConsoleTypeOK

-----------------------------------------------------------------------------
(* What a tab shows of the runs *)

\* The types of the console: every list is one of the runs, an instance waits for
\* known answers, and there are never more notifications than are kept.
THEOREM ConsoleTypesHold == ConsoleSpec => []ConsoleTypeOK
  BY ConsoleInvHolds, ConsoleInvTypes, PTL

\* No page shows the runs of another project than the one it goes by, whatever
\* is answered, cached, expired or entered meanwhile, unless an answer came late
\* (useProjectRuns).
THEOREM ListsStayOfProject == ConsoleSpec => []ListIsOfProject
  <1>1. ConsoleInv => ListIsOfProject
    BY DEF ConsoleInv
  <1> QED  BY <1>1, ConsoleInvHolds, PTL

\* The bell of a page never notifies of a run twice, however often its list is
\* fetched and however its project changes (useNotificationFeeder).
THEOREM NotedOnceAlways == ConsoleSpec => []NotedOncePerVisit
  <1>1. ConsoleInv => NotedOncePerVisit
    BY DEF ConsoleInv, NotesInv, Once, NotedOncePerVisit
  <1> QED  BY <1>1, ConsoleInvHolds, PTL

\* The last of the pages has rows.
LEMMA LastPage ==
  ASSUME NEW c \in Nat \ {0}, NEW k \in Nat \ {0}, NEW n, n = (c + k - 1) \div k
  PROVE  n \in Nat \ {0} /\ (n - 1) * k < c
  <1>1. n \in Int /\ n * k <= c + k - 1 /\ c + k - 1 < (n + 1) * k
    OBVIOUS
  <1>2. (n - 1) * k = n * k - k /\ (n + 1) * k = n * k + k
    BY <1>1
  <1>3. n > 0
    <2>1. n <= 0 => n * k <= 0
      BY <1>1
    <2> QED  BY <1>1, <1>2, <2>1
  <1> QED  BY <1>1, <1>2, <1>3

LEMMA EarlierPage ==
  ASSUME NEW n \in Nat \ {0}, NEW s \in 1..n, NEW k \in Nat \ {0}
  PROVE  (s - 1) * k \in Nat /\ (s - 1) * k <= (n - 1) * k /\ s * k = (s - 1) * k + k
  OBVIOUS

\* A table whose filter leaves rows shows some, whatever page was asked for before
\* rows vanished (dashboard, artifacts).
THEOREM RowsStayShown == ConsoleSpec => []RowsShown
  <1>1. ASSUME ConsoleInv, Filtered # {} PROVE Len(PageRows) > 0
    <2> DEFINE c == Cardinality(Filtered)
               n == (c + PageSize - 1) \div PageSize
               s == SafePage
               rows == SetToSeq(Filtered)
               from == (s - 1) * PageSize + 1
               upto == IF s * PageSize < Len(rows) THEN s * PageSize ELSE Len(rows)
    <2>1. c \in Nat \ {0} /\ rows \in Seq(Filtered) /\ Len(rows) = c
      BY <1>1, ShownRows, SeqOfSet, FS_EmptySet
    <2>2. PageSize \in Nat \ {0} /\ page.at \in Nat \ {0}
      BY <1>1, ConsoleAssumption DEF ConsoleInv, Placed, ConsolePages
    <2>3. PageRows = SubSeq(rows, from, upto)
      BY DEF PageRows
    <2>4. TotalPages = IF n < 1 THEN 1 ELSE n
      BY DEF TotalPages
    <2> HIDE DEF c, rows
    <2>5. n \in Nat \ {0} /\ (n - 1) * PageSize < c
      BY <2>1, <2>2, LastPage
    <2> HIDE DEF n
    <2>6. s \in 1..n
      BY <2>2, <2>4, <2>5 DEF SafePage
    <2> HIDE DEF s
    <2>7. /\ (s - 1) * PageSize \in Nat /\ (s - 1) * PageSize <= (n - 1) * PageSize
          /\ s * PageSize = (s - 1) * PageSize + PageSize
      BY <2>2, <2>5, <2>6, EarlierPage
    <2> DEFINE before == (s - 1) * PageSize
    <2>8. before \in Nat /\ before < c /\ from = before + 1
      <3> DEFINE last == (n - 1) * PageSize
      <3>1. last \in Int /\ last < c /\ before <= last /\ before \in Nat /\ from = before + 1
        BY <2>2, <2>5, <2>7
      <3> HIDE DEF last, before, from
      <3> QED  BY <3>1, <2>1
    <2>9. upto = IF before + PageSize < c THEN before + PageSize ELSE c
      BY <2>1, <2>7
    <2> HIDE DEF before, from, upto
    <2>10. from \in 1..c /\ upto \in from..c
      BY <2>1, <2>2, <2>8, <2>9
    <2>11. Len(SubSeq(rows, from, upto)) = upto - from + 1
      <3>1. \A i \in from..upto : rows[i] \in Filtered
        BY <2>1, <2>10, ElementOfSeq
      <3>2. from \in Int /\ upto \in Int
        BY <2>1, <2>10
      <3>3. Len(SubSeq(rows, from, upto)) = IF from <= upto THEN upto - from + 1 ELSE 0
        BY <3>1, <3>2, SubSeqProperties
      <3> QED  BY <3>3, <2>1, <2>10
    <2> QED  BY <2>1, <2>3, <2>10, <2>11
  <1>2. ConsoleInv => RowsShown
    BY <1>1 DEF RowsShown
  <1> QED  BY <1>2, ConsoleInvHolds, PTL

\* Only the answer to a start ends it.
LEMMA OnlyAnswersEnd ==
  ASSUME ConsoleNext, launch # Absent, launch' = Absent
  PROVE  LaunchOpens \/ LaunchFails
  <1> USE DEF server, world, shown, user
  <1>1. launch' # launch
    OBVIOUS
  <1>2. ~ \E r \in Runs : \/ \E s \in TERMINAL \ {"cancelled"} : Finish(r, s)
                          \/ Select(r) \/ OpenRow(r) \/ OpenReport(r) \/ DeleteRow(r) \/ ArchiveCase(r)
    BY <1>1 DEF Finish, Select, OpenRow, OpenReport, DeleteRow, ArchiveCase
  <1>3. ~ \E r \in Runs : LaunchForm(r) \/ LaunchCard(r) \/ LaunchPicked(r)
    BY DEF LaunchForm, LaunchCard, LaunchPicked, Launch
  <1>4. ~ \E p \in Projects : \/ ListRead(p) \/ Answer(p) \/ AnswerFails(p) \/ Expire(p)
                              \/ LayoutArrives(p) \/ LayoutFails(p)
    BY <1>1 DEF ListRead, Answer, AnswerFails, Expire, LayoutArrives, LayoutFails
  <1>5. ~ \E p \in Projects : \/ Enter(p, "board") \/ Enter(p, "settings")
                              \/ \E kind \in Pages : Visit(kind, p)
    BY <1>1 DEF Enter, Visit
  <1>6. ~ \E w \in Watchers : Tick(w)
    BY <1>1 DEF Tick
  <1>7. ~ \E d \in dels : Deleted(d)
    BY <1>1 DEF Deleted
  <1>8. ~(Poll \/ Leave \/ ViewReport \/ Abort)
    BY <1>1 DEF Poll, Leave, ViewReport, Abort
  <1>9. ~(FilterBoard \/ FilterList)
    BY <1>1 DEF FilterBoard, FilterList, Filters
  <1>10. ~ \E n \in 1..Cardinality(Runs) : Turn(n) \/ StepList(n)
    BY <1>1 DEF Turn, StepList, Turned
  <1>11. ~ \E i \in 1..NotesKept : OpenNote(i) \/ RemoveNote(i)
    BY <1>1 DEF OpenNote, RemoveNote
  <1>12. ~MarkAllRead /\ ~Started /\ ~ \E pref \in Prefs : SetPref(pref)
    BY <1>1 DEF MarkAllRead, Started, SetPref
  <1> QED  BY <1>2, <1>3, <1>4, <1>5, <1>6, <1>7, <1>8, <1>9, <1>10, <1>11, <1>12 DEF ConsoleNext

\* A start made on a page of the store's project leads to the project of its test
\* case, whatever the tab did until the answer (useCreateRun, NewRunModal).
THEOREM LaunchesOpenTheirProject == ConsoleSpec => LaunchOpensItsProject
  <1> DEFINE Opens == launch # Absent /\ launch' = Absent /\ page'.kind = "live" /\ page # page'
                      /\ ~launch.stray => page'.project = Home[launch.run]
  <1>1. ASSUME ConsoleInv, ConsoleNext, launch # Absent, launch' = Absent, page'.kind = "live",
               page # page', ~launch.stray
        PROVE  page'.project = Home[launch.run]
    <2> DEFINE pg == Opened("live", launch.to, launch.run, store)
    <2>1. LaunchOpens
      BY <1>1, OnlyAnswersEnd DEF LaunchFails, shown
    <2>2. launch.to \in Projects /\ launch.run \in Runs /\ launch.to = Home[launch.run]
      BY <1>1 DEF ConsoleInv, LaunchInv, LaunchRecords
    <2>3. Goto(pg, layout)
      BY <1>1, <2>1 DEF LaunchOpens, shown
    <2>4. Placed(pg) /\ pg.project = launch.to
      <3>1. "live" \in Kinds /\ store \in Projects
        BY <1>1, PageFacts DEF Kinds
      <3>2. launch.to \in Projects \cup {Absent} /\ launch.run \in Runs \cup {Absent}
        BY <2>2
      <3> QED  BY <2>2, <3>1, <3>2, OpenedPlaced
    <2>5. page' \in SelfSelected(pg, Remount(pg))
      BY <2>3 DEF Goto
    <2> HIDE DEF pg
    <2>6. HookOK(Remount(pg))
      BY <1>1, <2>4, RemountDoes DEF ConsoleInv, WorldInv
    <2> QED  BY <2>2, <2>4, <2>5, <2>6, SelfSelectedDoes
  <1>2. ConsoleInv /\ [ConsoleNext]_consoleVars => [Opens]_consoleVars
    BY <1>1
  <1> QED  BY <1>2, ConsoleInvHolds, PTL DEF ConsoleSpec, LaunchOpensItsProject
=============================================================================
