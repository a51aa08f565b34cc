--------------------------- MODULE SuiteDeskProofs ---------------------------
(***************************************************************************)
(* The suites page, for every number of suites, test cases, triggers and   *)
(* requests: a test case has one home, the lists are those of the tables,  *)
(* a suite has one trigger of a kind, and no cron schedule is lost unasked. *)
(*                                                                         *)
(* Most of it holds while the page is calm: nothing failed, nothing was    *)
(* started while something was under way, and no other tab wrote.          *)
(***************************************************************************)
EXTENDS SuiteDesk, FiniteSetTheorems, TLAPS

\* The kinds of dialogs and operations that have fields.
ManageDialogs == [kind: {"manage"}, suite: Suites, chosen: SUBSET Cases, op: Ops \cup {Absent}]
MoveDialogs == [kind: {"move"}, case: Cases, target: Suites \cup {Absent}, op: Ops \cup {Absent}]
RunDialogs == [kind: {"run"}, mode: Modes, list: Schedules \cup {Asked, Absent},
               schedules: Schedules, confirm: BOOLEAN, drops: SUBSET Ops, op: Ops \cup {Absent}]
PutOps == [kind: {"manage", "move"}, puts: (SUBSET Puts) \ {{}}, bad: BOOLEAN]
RunOps == [kind: {"run"}, mode: Modes, drops: SUBSET Triggers, bad: BOOLEAN]
DeleteOps == [kind: {"delete"}, suite: Suites]
DropOps == [kind: {"drop"}, row: Triggers]
Causes == {"failure", "overlap", "page", "tab"}

Settled(op) == op.kind = "run" => ~(op.bad /\ op.drops = {})

TablesOK == /\ rows \in [Suites -> Rows]
            /\ triggers \in [Triggers -> Kinds \cup {"none", "gone"}]
PageOK == /\ view \in Views
          /\ loads \in [Loads -> Views \cup {Asked, Absent}]
          /\ creating \in BOOLEAN /\ budget \in Nat
          /\ asked \subseteq Triggers /\ causes \subseteq Causes
DialogOK == dialog \in Dialogs
OpsOK == ops \in [Ops -> OpRecords] /\ \A o \in Ops : Settled(ops[o])
OtherOK == /\ member \in [Cases -> {Absent} \cup Members]
           /\ shown \in [suite: Suites, ids: SUBSET Cases]

TypesOK == TablesOK /\ PageOK /\ DialogOK /\ OpsOK /\ OtherOK

\* Nothing is under way that is no cause.
Busy(o) == ops[o] # NoOp
Broken(op) == op.kind \in {"manage", "move"} /\ op.bad
BusyInv == /\ \A o \in Ops : Busy(o) => "page" \in causes
           /\ \A o \in Ops : Broken(ops[o]) => "failure" \in causes
           /\ \A c \in Cases : member[c] # Absent => "tab" \in causes

\* What the dialog and a save know of a row stays true of it while it is there.
Kept(p) == triggers[p[1]] \in {p[2], "gone"}
Given(d) == IF d.list \in {Asked, Absent} THEN {} ELSE d.list
Known(d) == IF d.kind = "run" THEN d.schedules \cup Given(d) ELSE {}
Agreed(op) ==
    /\ op.kind = "drop" => op.row \in asked
    /\ op.kind = "run" /\ "tab" \notin causes =>
          \A t \in op.drops : t \in asked \/ triggers[t] \in {"push", "gone"}
AskedInv ==
    /\ "tab" \notin causes => \A p \in Known(dialog) : Kept(p)
    /\ \A o \in Ops : Agreed(ops[o])

\* The other tab, alone, has one request at a time.
Here == rows[shown.suite].ids
TabInv == causes \subseteq {"tab"} =>
    /\ \A c, d \in Cases : member[c] # Absent /\ member[d] # Absent => c = d
    /\ (\A c \in Cases : member[c] # Absent => member[c].step # "answer") => shown.ids = Here
    /\ \A c \in Cases : member[c] # Absent /\ member[c].step = "answer" => member[c].ids = Here

\* While the page is calm one operation is under way at a time ...
Calm == causes \subseteq {"page"}
OneOp == \A o, q \in Ops : Busy(o) /\ Busy(q) => o = q

\* ... the dialog knows every row that is there, and a save deletes every row of
\* its kind before it creates one;
Rowed == {<<t, triggers[t]>> : t \in UNION {Live(k) : k \in Kinds}}
Single == \A t, u \in Triggers : triggers[t] \in Kinds /\ triggers[t] = triggers[u] => t = u
Knows(d) == d.kind = "run" => /\ d.list = Absent => Rowed \subseteq d.schedules
                              /\ d.list \notin {Asked, Absent} => Rowed \subseteq d.list
Clears(op) == op.kind = "run" /\ ~op.bad /\ op.mode \in Kinds => Live(op.mode) \subseteq op.drops
TriggerInv == Single /\ Knows(dialog) /\ \A o \in Ops : Clears(ops[o])

\* a load is under way only when no operation is, and brings what is stored;
Writing(o) == ops[o].kind \in {"manage", "move"}
LoadInv ==
    /\ \A l, m \in Loads : loads[l] # Absent /\ loads[m] # Absent => l = m
    /\ \A o \in Ops, l \in Loads : Busy(o) => loads[l] = Absent
    /\ \A l \in Loads : loads[l] \notin {Asked, Absent} => loads[l] = Listed
    /\ (\A l \in Loads : loads[l] = Absent) /\ (\A o \in Ops : ~Writing(o)) => view = Listed

\* and the suites have no test case in common once the requests are executed.
Queue == UNION {ops[o].puts : o \in {q \in Ops : Writing(q)}}
IsLive(s) == rows[s].state = "live"
Will(s, ids, puts) == \/ Put(s, ids) \in puts
                      \/ rows[s].ids = ids /\ \A x \in SUBSET Cases : Put(s, x) \notin puts
Home(puts) ==
    /\ \A s \in Suites, a, b \in SUBSET Cases : Put(s, a) \in puts /\ Put(s, b) \in puts => a = b
    /\ \A s \in Suites, a \in SUBSET Cases : Put(s, a) \in puts => IsLive(s)
    /\ \A s, t \in Suites, a, b \in SUBSET Cases :
          s # t /\ IsLive(s) /\ IsLive(t) /\ Will(s, a, puts) /\ Will(t, b, puts) => a \cap b = {}
    /\ \A s \in Suites : rows[s].state = "none" => rows[s].ids = {}
HomeInv == Home(Queue)
DialogInv == dialog.kind = "manage" =>
    /\ view[dialog.suite] # Absent
    /\ \A l \in Loads : loads[l] = Absent
    /\ \A o \in Ops : Busy(o) => ops[o].kind = "manage"
CalmInv == Calm => OneOp /\ TriggerInv /\ LoadInv /\ HomeInv /\ DialogInv

IInv == TypesOK /\ BusyInv /\ AskedInv /\ TabInv /\ CalmInv

-----------------------------------------------------------------------------
(* Dialogs and operations *)

LEMMA DialogKinds == ASSUME DialogOK
  PROVE  /\ dialog.kind \in {"none", "create", "manage", "move", "run"}
         /\ dialog.kind = "none" => dialog = NoDialog
         /\ dialog.kind = "create" => dialog = [kind |-> "create"]
         /\ dialog.kind = "manage" => dialog \in ManageDialogs
         /\ dialog.kind = "move" => dialog \in MoveDialogs
         /\ dialog.kind = "run" => dialog \in RunDialogs
  BY DEF DialogOK, Dialogs, NoDialog, ManageDialogs, MoveDialogs, RunDialogs

LEMMA DialogsAre ==
  /\ NoDialog \in Dialogs /\ [kind |-> "create"] \in Dialogs
  /\ ManageDialogs \subseteq Dialogs /\ MoveDialogs \subseteq Dialogs /\ RunDialogs \subseteq Dialogs
  BY DEF Dialogs, ManageDialogs, MoveDialogs, RunDialogs

LEMMA OpKinds == ASSUME NEW x \in OpRecords
  PROVE  /\ x.kind \in {"none", "create", "delete", "manage", "move", "run", "drop"}
         /\ x.kind = "none" <=> x = NoOp
         /\ x.kind = "create" => x = [kind |-> "create"]
         /\ x.kind = "delete" => x \in DeleteOps
         /\ x.kind \in {"manage", "move"} => x \in PutOps
         /\ x.kind = "run" => x \in RunOps
         /\ x.kind = "drop" => x \in DropOps
  BY DEF OpRecords, NoOp, DeleteOps, PutOps, RunOps, DropOps

LEMMA OpsAre ==
  /\ NoOp \in OpRecords /\ [kind |-> "create"] \in OpRecords
  /\ DeleteOps \subseteq OpRecords /\ PutOps \subseteq OpRecords
  /\ RunOps \subseteq OpRecords /\ DropOps \subseteq OpRecords
  BY DEF OpRecords, NoOp, DeleteOps, PutOps, RunOps, DropOps

-----------------------------------------------------------------------------
(* What a step leaves alone *)

LEMMA QuietIs ==
  ASSUME Quiet
  PROVE  /\ \A o \in Ops : ~Busy(o)
         /\ \A l \in Loads : loads[l] = Absent
         /\ \A c \in Cases : member[c] = Absent
         /\ dialog.kind = "run" => dialog.list = Absent
  BY DEF Quiet, Busy

\* What was started without causing an overlap was started at rest.
LEMMA HurriedIs ==
  /\ causes \subseteq Hurried /\ \A who : causes \subseteq Wrote(who) /\ who \in Wrote(who)
  /\ causes \subseteq Causes => Hurried \subseteq Causes
  /\ \A who \in Causes : causes \subseteq Causes => Wrote(who) \subseteq Causes
  /\ "overlap" \notin Hurried => Quiet
  /\ \A who : "overlap" \notin Wrote(who) => Quiet
  BY DEF Hurried, Wrote, Causes

LEMMA FailureIs ==
  ASSUME causes \subseteq Causes, Failure
  PROVE  causes \subseteq causes' /\ causes' \subseteq Causes /\ "failure" \in causes' /\ ~Calm'
  BY DEF Failure, Causes, Calm

LEMMA CalmIs ==
  /\ ~("page" \in causes' /\ causes' \subseteq {"tab"})
  /\ Calm' => "overlap" \notin causes' /\ "failure" \notin causes' /\ "tab" \notin causes'
  /\ causes \subseteq causes' /\ Calm' => Calm
  BY DEF Calm

LEMMA BusyKeeps ==
  ASSUME BusyInv, causes \subseteq causes',
         \A o \in Ops : Busy(o)' => Busy(o) \/ "page" \in causes',
         \A o \in Ops : Broken(ops'[o]) => Broken(ops[o]) \/ "failure" \in causes',
         \A c \in Cases : member'[c] # Absent => member[c] # Absent \/ "tab" \in causes'
  PROVE  BusyInv'
  BY DEF BusyInv

LEMMA TabKeeps ==
  ASSUME TabInv, causes \subseteq causes', member' = member, shown' = shown,
         rows' = rows \/ "page" \in causes'
  PROVE  TabInv'
  BY CalmIs DEF TabInv, Here

\* A row that is there keeps its kind until it is gone.
Stays(t) == triggers'[t] = triggers[t] \/ triggers[t] = "none" \/ triggers'[t] = "gone"

LEMMA KnownAre ==
  ASSUME DialogOK
  PROVE  Known(dialog) \subseteq Triggers \X Kinds
  BY DialogKinds DEF Known, Given, RunDialogs, Schedules

LEMMA RowedAre ==
  ASSUME triggers \in [Triggers -> Kinds \cup {"none", "gone"}]
  PROVE  /\ Rowed \subseteq Triggers \X Kinds
         /\ \A p \in Rowed : triggers[p[1]] = p[2]
         /\ \A t \in Triggers : triggers[t] \in Kinds => <<t, triggers[t]>> \in Rowed
  BY DEF Rowed, Live, Kinds

LEMMA AskedKeeps ==
  ASSUME TablesOK, DialogOK, OpsOK, AskedInv, causes \subseteq causes', asked \subseteq asked',
         "tab" \notin causes' => /\ \A t \in Triggers : Stays(t)
                                 /\ Known(dialog') \subseteq Known(dialog) \cup Rowed,
         \A o \in Ops : ops'[o] = ops[o] \/ Agreed(ops[o])'
  PROVE  AskedInv'
  <1>1. ASSUME "tab" \notin causes', NEW p \in Known(dialog') PROVE Kept(p)'
    <2>1. p \in Known(dialog) \cup Rowed
      BY <1>1
    <2>2. p \in Triggers \X Kinds
      BY <2>1, KnownAre, RowedAre DEF TablesOK
    <2>3. p[1] \in Triggers /\ p[2] \in Kinds
      BY <2>2
    <2>4. "tab" \notin causes
      BY <1>1
    <2>5. triggers[p[1]] \in {p[2], "gone"}
      BY <2>1, <2>4, RowedAre DEF AskedInv, Kept, TablesOK
    <2>6. Stays(p[1])
      BY <1>1, <2>3
    <2> QED BY <2>3, <2>5, <2>6 DEF Kept, Stays, Kinds
  <1>2. ASSUME NEW o \in Ops, ops'[o] = ops[o] PROVE Agreed(ops[o])'
    <2>1. Agreed(ops[o])
      BY DEF AskedInv
    <2>2. ops[o] \in OpRecords
      BY DEF OpsOK
    <2>3. ASSUME ops[o].kind = "run", "tab" \notin causes', NEW t \in ops[o].drops
          PROVE  t \in asked' \/ triggers'[t] \in {"push", "gone"}
      <3>1. t \in Triggers
        BY <2>2, <2>3, OpKinds DEF RunOps
      <3>2. t \in asked \/ triggers[t] \in {"push", "gone"}
        BY <2>1, <2>3 DEF Agreed
      <3>3. Stays(t)
        BY <2>3, <3>1
      <3> QED BY <3>2, <3>3 DEF Stays
    <2>4. ops[o].kind = "drop" => ops[o].row \in asked'
      BY <2>1 DEF Agreed
    <2> QED BY <1>2, <2>3, <2>4 DEF Agreed
  <1>3. \A o \in Ops : Agreed(ops[o])'
    BY <1>2
  <1>4. "tab" \notin causes' => \A p \in Known(dialog') : Kept(p)'
    BY <1>1
  <1> QED BY <1>3, <1>4 DEF AskedInv

LEMMA OneOpKeeps ==
  ASSUME OneOp, \A o \in Ops : Busy(o)' => Busy(o)
  PROVE  OneOp'
  BY DEF OneOp

LEMMA QueueKeeps ==
  ASSUME \A o \in Ops : ops'[o] = ops[o] \/ (~Writing(o) /\ ~Writing(o)')
  PROVE  Queue' = Queue
  BY DEF Queue, Writing

LEMMA LoadKeeps ==
  ASSUME LoadInv, UNCHANGED <<rows, view, loads>>, \A o \in Ops : Busy(o)' => Busy(o),
         \A o \in Ops : Writing(o) => Writing(o)'
  PROVE  LoadInv'
  <1>1. Listed' = Listed
    BY DEF Listed
  <1> QED BY <1>1 DEF LoadInv

LEMMA HomeKeeps ==
  ASSUME HomeInv, UNCHANGED rows, Queue' = Queue
  PROVE  HomeInv'
  BY DEF HomeInv, Home, Will, IsLive

\* A step of the dialog alone.
LEMMA DialogStep ==
  ASSUME IInv, UNCHANGED <<rows, triggers, view, loads, creating, ops, member, shown, budget, asked>>,
         causes \subseteq causes', causes' \subseteq Causes, dialog' \in Dialogs,
         "tab" \notin causes' => Known(dialog') \subseteq Known(dialog) \cup Rowed,
         Calm' => Knows(dialog'),
         Calm' /\ dialog'.kind = "manage" =>
            \/ dialog.kind = "manage" /\ dialog'.suite = dialog.suite
            \/ view[dialog'.suite] # Absent /\ Quiet
  PROVE  IInv'
  <1> USE DEF IInv
  <1>1. TypesOK'
    BY DEF TypesOK, TablesOK, PageOK, DialogOK, OpsOK, OtherOK, Settled
  <1>2. BusyInv'
    BY BusyKeeps DEF Busy
  <1>3. \A t \in Triggers : Stays(t)
    BY DEF Stays
  <1>4. AskedInv'
    BY <1>3, AskedKeeps DEF TypesOK
  <1>5. TabInv'
    BY TabKeeps
  <1>6. ASSUME Calm' PROVE OneOp' /\ TriggerInv' /\ LoadInv' /\ HomeInv' /\ DialogInv'
    <2>1. OneOp /\ TriggerInv /\ LoadInv /\ HomeInv /\ DialogInv
      BY <1>6, CalmIs DEF CalmInv
    <2>2. OneOp' /\ LoadInv'
      BY <2>1, OneOpKeeps, LoadKeeps DEF Busy, Writing
    <2>3. HomeInv'
      <3>1. Queue' = Queue
        BY DEF Queue, Writing
      <3> QED BY <2>1, <3>1, HomeKeeps
    <2>4. TriggerInv'
      <3>1. Rowed' = Rowed /\ (Single <=> Single')
        BY DEF Rowed, Live, Single
      <3>2. \A o \in Ops : Clears(ops[o])'
        BY <2>1 DEF TriggerInv, Clears, Live
      <3>3. Knows(dialog)'
        BY <1>6, <3>1 DEF Knows
      <3> QED BY <2>1, <3>1, <3>2, <3>3 DEF TriggerInv
    <2>5. DialogInv'
      BY <1>6, <2>1, QuietIs DEF DialogInv, Busy
    <2> QED BY <2>2, <2>3, <2>4, <2>5
  <1> QED BY <1>1, <1>2, <1>4, <1>5, <1>6 DEF CalmInv

-----------------------------------------------------------------------------
(* Dialogs *)

LEMMA OpenKeeps ==
  ASSUME IInv, NEW kind \in {"create", "manage", "move", "run"}, Open(kind)
  PROVE  IInv'
  <1> USE DEF IInv, TypesOK
  <1>1. /\ UNCHANGED <<rows, triggers, view, loads, creating, ops, member, shown, budget, asked>>
        /\ dialog' \in Opened(kind) /\ causes' = Hurried
    BY DEF Open
  <1>2. causes \subseteq causes' /\ causes' \subseteq Causes /\ (Calm' => Quiet)
    BY <1>1, HurriedIs, CalmIs DEF PageOK
  <1>3. CASE kind \in {"create", "move"}
    <2>1. dialog' \in Dialogs /\ dialog'.kind \in {"create", "move"}
      BY <1>1, <1>3 DEF Opened, Dialogs, Unassigned
    <2> QED BY <1>1, <1>2, <2>1, DialogStep DEF Known, Knows
  <1>4. CASE kind = "manage"
    <2>1. PICK s \in Suites : /\ view[s] # Absent
                              /\ dialog' = [kind |-> "manage", suite |-> s, chosen |-> view[s], op |-> Absent]
      BY <1>1, <1>4 DEF Opened
    <2>2. view[s] \in SUBSET Cases
      BY <2>1 DEF PageOK, Views
    <2>3. dialog' \in Dialogs
      BY <2>1, <2>2 DEF Dialogs
    <2> QED BY <1>1, <1>2, <2>1, <2>3, DialogStep DEF Known, Knows
  <1>5. CASE kind = "run"
    <2>1. dialog' = [kind |-> "run", mode |-> "instant", list |-> Asked,
                     schedules |-> {}, confirm |-> FALSE, drops |-> {}, op |-> Absent]
      BY <1>1, <1>5 DEF Opened
    <2>2. dialog' \in Dialogs
      BY <2>1 DEF Dialogs, Modes, Schedules
    <2>3. Known(dialog') = {}
      BY <2>1 DEF Known, Given
    <2>4. Knows(dialog')
      BY <2>1, AbsentAssumption DEF Knows
    <2> QED BY <1>1, <1>2, <2>1, <2>2, <2>3, <2>4, DialogStep
  <1> QED BY <1>3, <1>4, <1>5

LEMMA DismissKeeps ==
  ASSUME IInv, Dismiss
  PROVE  IInv'
  <1>1. dialog' \in Dialogs /\ Known(dialog') = {} /\ Knows(dialog') /\ dialog'.kind = "none"
    BY DialogsAre DEF Dismiss, NoDialog, Known, Knows
  <1> QED BY <1>1, DialogStep DEF Dismiss, IInv, TypesOK, PageOK

LEMMA ToggleKeeps ==
  ASSUME IInv, NEW c \in Cases, Toggle(c)
  PROVE  IInv'
  <1>1. dialog \in ManageDialogs
    BY DialogKinds DEF Toggle, IInv, TypesOK
  <1>2. dialog' \in ManageDialogs /\ dialog'.kind = "manage" /\ dialog'.suite = dialog.suite
    BY <1>1 DEF Toggle, ManageDialogs
  <1>3. dialog' \in Dialogs /\ Known(dialog') = {} /\ Knows(dialog')
    BY <1>2, DialogsAre DEF Known, Knows
  <1> QED BY <1>1, <1>2, <1>3, DialogStep DEF Toggle, IInv, TypesOK, PageOK

LEMMA AimKeeps ==
  ASSUME IInv, NEW s \in Suites, Aim(s)
  PROVE  IInv'
  <1>1. dialog \in MoveDialogs
    BY DialogKinds DEF Aim, IInv, TypesOK
  <1>2. dialog' \in MoveDialogs /\ dialog'.kind = "move"
    BY <1>1 DEF Aim, MoveDialogs
  <1>3. dialog' \in Dialogs /\ Known(dialog') = {} /\ Knows(dialog')
    BY <1>2, DialogsAre DEF Known, Knows
  <1> QED BY <1>1, <1>2, <1>3, DialogStep DEF Aim, IInv, TypesOK, PageOK

\* The rows are read in the step.
LEMMA ListReadKeeps ==
  ASSUME IInv, ListRead
  PROVE  IInv'
  <1> USE DEF IInv, TypesOK
  <1>1. dialog \in RunDialogs /\ dialog.list = Asked /\ dialog' = [dialog EXCEPT !.list = Rowed]
    BY DialogKinds DEF ListRead, Rowed
  <1>2. /\ UNCHANGED <<rows, triggers, view, loads, creating, ops, member, shown, budget, asked>>
        /\ causes' = causes
    BY DEF ListRead, Calls, Rest
  <1>3. Rowed \in Schedules
    BY RowedAre DEF TablesOK, Schedules
  <1>4. dialog' \in RunDialogs /\ dialog'.kind = "run" /\ dialog'.list = Rowed
        /\ dialog'.schedules = dialog.schedules
    BY <1>1, <1>3 DEF RunDialogs
  <1>5. Known(dialog') \subseteq Known(dialog) \cup Rowed
    BY <1>1, <1>4 DEF Known, Given, RunDialogs
  <1>6. Rowed # Absent
    BY <1>3, AbsentAssumption
  <1>7. Knows(dialog')
    BY <1>4, <1>6 DEF Knows
  <1> QED BY <1>2, <1>4, <1>5, <1>7, DialogsAre, DialogStep DEF PageOK

LEMMA ListArrivesKeeps ==
  ASSUME IInv, ListArrives
  PROVE  IInv'
  <1> USE DEF IInv, TypesOK
  <1>1. dialog \in RunDialogs /\ dialog.list \in Schedules /\ dialog.list \notin {Asked, Absent}
    BY DialogKinds DEF ListArrives, RunDialogs
  <1>2. UNCHANGED <<rows, triggers, view, loads, creating, ops, member, shown, budget, asked>>
    BY DEF ListArrives, Calls, Rest
  <1>4. CASE dialog' = [dialog EXCEPT !.list = Absent, !.schedules = dialog.list] /\ causes' = causes
    <2>1. dialog' \in RunDialogs /\ dialog'.kind = "run" /\ dialog'.list = Absent
          /\ dialog'.schedules = dialog.list
      BY <1>1, <1>4 DEF RunDialogs
    <2>2. Known(dialog') \subseteq Known(dialog)
      BY <1>1, <2>1 DEF Known, Given, RunDialogs
    <2>3. Calm' => Knows(dialog')
      BY <1>1, <1>4, <2>1 DEF Knows, CalmInv, TriggerInv, Calm, RunDialogs
    <2> QED BY <1>2, <1>4, <2>1, <2>2, <2>3, DialogsAre, DialogStep DEF PageOK
  <1>5. CASE dialog' = [dialog EXCEPT !.list = Absent] /\ Failure
    <2>1. dialog' \in RunDialogs /\ dialog'.kind = "run" /\ dialog'.list = Absent
          /\ dialog'.schedules = dialog.schedules
      BY <1>1, <1>5 DEF RunDialogs
    <2>2. Known(dialog') \subseteq Known(dialog)
      BY <1>1, <2>1 DEF Known, Given, RunDialogs
    <2>3. causes \subseteq causes' /\ causes' \subseteq Causes /\ ~Calm'
      BY <1>5, FailureIs DEF PageOK
    <2> QED BY <1>2, <2>1, <2>2, <2>3, DialogsAre, DialogStep
  <1> QED BY <1>4, <1>5 DEF ListArrives

\* The other fields of a dialog of runs: what is known of the rows stays.
LEMMA RunDialogStep ==
  ASSUME IInv, UNCHANGED <<rows, triggers, view, loads, creating, ops, member, shown, budget, asked>>,
         causes' = causes, dialog.kind = "run", dialog' \in RunDialogs,
         dialog'.list = dialog.list, dialog'.schedules = dialog.schedules
  PROVE  IInv'
  <1> USE DEF IInv, TypesOK
  <1>1. dialog'.kind = "run"
    BY DEF RunDialogs
  <1>2. Known(dialog') = Known(dialog)
    BY <1>1 DEF Known, Given
  <1>4. Calm' => Knows(dialog')
    BY <1>1 DEF Knows, CalmInv, TriggerInv, Calm
  <1> QED BY <1>1, <1>2, <1>4, DialogsAre, DialogStep DEF PageOK

LEMMA SetModeKeeps ==
  ASSUME IInv, NEW m \in Modes, SetMode(m)
  PROVE  IInv'
  <1>1. dialog \in RunDialogs
    BY DialogKinds DEF SetMode, IInv, TypesOK
  <1>2. dialog' \in RunDialogs /\ dialog'.list = dialog.list /\ dialog'.schedules = dialog.schedules
    BY <1>1 DEF SetMode, RunDialogs
  <1> QED BY <1>2, RunDialogStep DEF SetMode, Calls, Rest

LEMMA BackKeeps ==
  ASSUME IInv, Back
  PROVE  IInv'
  <1>1. dialog \in RunDialogs
    BY DialogKinds DEF Back, IInv, TypesOK
  <1>2. dialog' \in RunDialogs /\ dialog'.list = dialog.list /\ dialog'.schedules = dialog.schedules
    BY <1>1 DEF Back, RunDialogs
  <1> QED BY <1>2, RunDialogStep DEF Back, Calls, Rest

-----------------------------------------------------------------------------
(* An operation starts *)

\* What the dialog knows stays what it is when only the rest of it changes.
Alike == /\ dialog'.kind = dialog.kind
         /\ dialog.kind = "run" => dialog'.list = dialog.list /\ dialog'.schedules = dialog.schedules

LEMMA AlikeIs ==
  ASSUME Alike
  PROVE  Known(dialog') = Known(dialog) /\ (Knows(dialog) => Knows(dialog'))
  BY DEF Alike, Known, Given, Knows

\* Nothing else is under way if the page stays calm.
LEMMA StartStep ==
  ASSUME IInv, NEW o \in Ops, NEW op \in OpRecords, op # NoOp, Settled(op), ~Broken(op), Start(o, op),
         UNCHANGED <<rows, triggers, view, loads, member, shown>>, creating' \in BOOLEAN,
         asked \subseteq asked', asked' \subseteq Triggers,
         dialog' \in Dialogs, Alike, Agreed(op)',
         Calm' => Clears(op),
         Calm' /\ op.kind \in {"manage", "move"} => Home(op.puts),
         Calm' /\ dialog'.kind = "manage" => op.kind = "manage" /\ dialog'.suite = dialog.suite
  PROVE  IInv'
  <1> USE DEF IInv
  <1>1. /\ ops[o] = NoOp /\ ops' = [ops EXCEPT ![o] = op] /\ causes' = Wrote("page")
        /\ budget > 0 /\ budget' = budget - 1
    BY DEF Start
  <1>2. /\ causes \subseteq causes' /\ causes' \subseteq Causes /\ "page" \in causes'
        /\ Calm' => Quiet
    BY <1>1, HurriedIs, CalmIs DEF TypesOK, PageOK, Causes
  <1>3. ops'[o] = op /\ \A q \in Ops : q # o => ops'[q] = ops[q]
    BY <1>1 DEF TypesOK, OpsOK
  <1>4. TypesOK'
    <2>1. OpsOK'
      BY <1>1, <1>3 DEF TypesOK, OpsOK, Settled
    <2> QED BY <1>1, <1>2, <2>1 DEF TypesOK, TablesOK, PageOK, DialogOK, OtherOK
  <1>5. BusyInv'
    BY <1>2, <1>3, BusyKeeps DEF Busy
  <1>6. AskedInv'
    <2>1. \A t \in Triggers : Stays(t)
      BY DEF Stays
    <2>2. \A q \in Ops : ops'[q] = ops[q] \/ Agreed(ops[q])'
      BY <1>3 DEF Agreed
    <2> QED BY <1>2, <2>1, <2>2, AlikeIs, AskedKeeps DEF TypesOK
  <1>7. TabInv'
    BY <1>2, TabKeeps
  <1>8. ASSUME Calm' PROVE OneOp' /\ TriggerInv' /\ LoadInv' /\ HomeInv' /\ DialogInv'
    <2>1. OneOp /\ TriggerInv /\ LoadInv /\ HomeInv /\ DialogInv /\ Quiet
      BY <1>2, <1>8, CalmIs DEF CalmInv
    <2>2. \A q \in Ops : q # o => ops'[q] = NoOp
      BY <1>3, <2>1, QuietIs DEF Busy
    <2>3. OneOp'
      BY <2>2 DEF OneOp, Busy
    <2>4. LoadInv'
      BY <2>1, QuietIs DEF LoadInv, Busy, Writing, NoOp, Listed
    <2>5. TriggerInv'
      <3>1. Rowed' = Rowed /\ (Single <=> Single')
        BY DEF Rowed, Live, Single
      <3>2. Knows(dialog)'
        BY <2>1, <3>1, AlikeIs DEF TriggerInv, Knows
      <3>3. Clears(op)' /\ Clears(NoOp)'
        BY <1>8 DEF Clears, Live, NoOp
      <3>4. \A q \in Ops : Clears(ops[q])'
        BY <1>3, <2>2, <3>3 DEF Clears
      <3> QED BY <2>1, <3>1, <3>2, <3>4 DEF TriggerInv
    <2>6. HomeInv'
      <3>1. Queue = {}
        BY <2>1, QuietIs DEF Queue, Writing, Busy, NoOp
      <3>2. Queue' = IF op.kind \in {"manage", "move"} THEN op.puts ELSE {}
        BY <1>3, <2>2 DEF Queue, Writing, NoOp
      <3>3. Home(Queue')
        BY <1>8, <2>1, <3>1, <3>2 DEF HomeInv
      <3> QED BY <3>3 DEF HomeInv, Home, Will, IsLive
    <2>7. DialogInv'
      BY <1>3, <1>8, <2>1, <2>2 DEF DialogInv, Alike, Busy
    <2> QED BY <2>1, <2>3, <2>4, <2>5, <2>6, <2>7
  <1> QED BY <1>4, <1>5, <1>6, <1>7, <1>8 DEF CalmInv

\* At rest the list is that of the table, and the suites are disjoint.
LEMMA ListIs ==
  ASSUME TypesOK, Calm, CalmInv, Quiet
  PROVE  /\ view = Listed
         /\ \A s \in Suites : /\ rows[s].ids \subseteq Cases
                              /\ view[s] # Absent <=> IsLive(s)
                              /\ IsLive(s) => view[s] = rows[s].ids
         /\ \A s, t \in Suites : s # t /\ IsLive(s) /\ IsLive(t) => rows[s].ids \cap rows[t].ids = {}
         /\ \A s \in Suites : rows[s].state = "none" => rows[s].ids = {}
         /\ Queue = {}
  <1>1. LoadInv /\ Home(Queue)
    BY DEF CalmInv, HomeInv
  <1>2. Queue = {}
    BY QuietIs DEF Queue, Writing, Busy, NoOp
  <1>3. view = Listed
    BY <1>1, QuietIs DEF LoadInv, Writing, Busy, NoOp
  <1>4. \A s \in Suites : rows[s].ids \subseteq Cases
    BY DEF TypesOK, TablesOK, Rows
  <1>5. \A s \in Suites : (view[s] # Absent <=> IsLive(s)) /\ (IsLive(s) => view[s] = rows[s].ids)
    BY <1>3, <1>4, AbsentAssumption DEF Listed, IsLive
  <1>6. ASSUME NEW s \in Suites, NEW t \in Suites, s # t, IsLive(s), IsLive(t)
        PROVE  rows[s].ids \cap rows[t].ids = {}
    <2>1. Will(s, rows[s].ids, Queue) /\ Will(t, rows[t].ids, Queue)
      BY <1>2 DEF Will
    <2>2. \A a, b \in SUBSET Cases :
            Will(s, a, Queue) /\ Will(t, b, Queue) => a \cap b = {}
      BY <1>1, <1>6 DEF Home
    <2> QED BY <1>4, <2>1, <2>2
  <1>7. \A s \in Suites : rows[s].state = "none" => rows[s].ids = {}
    BY <1>1 DEF Home
  <1> QED BY <1>2, <1>3, <1>4, <1>5, <1>6, <1>7

\* The requests of a dialog: what every suite will hold when they are executed.
LEMMA HomeIf ==
  ASSUME TypesOK, Calm, CalmInv, Quiet, NEW puts, NEW f \in [Suites -> SUBSET Cases],
         \A s \in Suites, a \in SUBSET Cases : Put(s, a) \in puts => IsLive(s) /\ a = f[s],
         \A s \in Suites : IsLive(s) /\ f[s] # rows[s].ids => Put(s, f[s]) \in puts,
         \A s, t \in Suites : s # t /\ IsLive(s) /\ IsLive(t) => f[s] \cap f[t] = {}
  PROVE  Home(puts)
  <1>1. \A s \in Suites, a \in SUBSET Cases : IsLive(s) /\ Will(s, a, puts) => a = f[s]
    BY DEF Will
  <1> QED BY <1>1, ListIs DEF Home

LEMMA ManageHome ==
  ASSUME TypesOK, Calm, CalmInv, Quiet, dialog.kind = "manage"
  PROVE  Home(ManagePuts(dialog.suite, dialog.chosen))
  <1> DEFINE s == dialog.suite
             chosen == dialog.chosen
             puts == ManagePuts(s, chosen)
             f == [t \in Suites |-> IF t = s THEN chosen ELSE rows[t].ids \ chosen]
  <1>1. s \in Suites /\ chosen \in SUBSET Cases
    BY DialogKinds DEF TypesOK, ManageDialogs
  <1>2. view[s] # Absent
    BY DEF CalmInv, DialogInv
  <1>3. \A t \in Suites : f[t] = IF t = s THEN chosen ELSE rows[t].ids \ chosen
    OBVIOUS
  <1>4. f \in [Suites -> SUBSET Cases]
    BY <1>1, ListIs
  <1>5. \A t \in Suites, a \in SUBSET Cases :
          Put(t, a) \in puts <=> \/ t = s /\ a = chosen
                                 \/ t # s /\ IsLive(t) /\ rows[t].ids \cap chosen # {} /\ a = rows[t].ids \ chosen
    BY <1>1, ListIs DEF ManagePuts, Put
  <1>6. \A t \in Suites, a \in SUBSET Cases : Put(t, a) \in puts => IsLive(t) /\ a = f[t]
    BY <1>1, <1>2, <1>3, <1>5, ListIs
  <1>7. \A t \in Suites : IsLive(t) /\ f[t] # rows[t].ids => Put(t, f[t]) \in puts
    <2> SUFFICES ASSUME NEW t \in Suites, IsLive(t), f[t] # rows[t].ids PROVE Put(t, f[t]) \in puts
      OBVIOUS
    <2>1. f[t] \in SUBSET Cases
      BY <1>4
    <2>2. t # s => rows[t].ids \cap chosen # {}
      BY <1>3
    <2> HIDE DEF f, puts
    <2> QED BY <1>3, <1>5, <2>1, <2>2
  <1>8. \A t, u \in Suites : t # u /\ IsLive(t) /\ IsLive(u) => f[t] \cap f[u] = {}
    BY <1>3, ListIs
  <1> HIDE DEF f
  <1> QED BY <1>4, <1>6, <1>7, <1>8, HomeIf

LEMMA MoveHome ==
  ASSUME TypesOK, Calm, CalmInv, Quiet, NEW c \in Cases, NEW target \in Suites,
         view[target] # Absent, target \notin CurrentSuite(c)
  PROVE  Home(MovePuts(c, target))
  <1> DEFINE puts == MovePuts(c, target)
             f == [t \in Suites |-> IF t = target THEN rows[t].ids \cup {c} ELSE rows[t].ids \ {c}]
  <1>1. \A t \in Suites : f[t] = IF t = target THEN rows[t].ids \cup {c} ELSE rows[t].ids \ {c}
    OBVIOUS
  <1>2. f \in [Suites -> SUBSET Cases]
    BY ListIs
  <1>3. \A t \in Suites, a \in SUBSET Cases :
          Put(t, a) \in puts <=> \/ t = target /\ a = rows[t].ids \cup {c}
                                 \/ t # target /\ IsLive(t) /\ c \in rows[t].ids /\ a = rows[t].ids \ {c}
    <2>1. CurrentSuite(c) = {t \in Suites : IsLive(t) /\ c \in rows[t].ids}
      BY ListIs DEF CurrentSuite
    <2>2. IsLive(target) /\ view[target] = rows[target].ids
      BY ListIs
    <2>3. \A t \in CurrentSuite(c) : view[t] = rows[t].ids /\ t # target
      BY <2>1, ListIs
    <2>4. puts = {Put(t, rows[t].ids \ {c}) : t \in CurrentSuite(c)} \cup {Put(target, rows[target].ids \cup {c})}
      BY <2>2, <2>3 DEF MovePuts
    <2>5. \A t, u, a, b : Put(t, a) = Put(u, b) <=> t = u /\ a = b
      BY DEF Put
    <2> SUFFICES ASSUME NEW t \in Suites, NEW a \in SUBSET Cases
                 PROVE  Put(t, a) \in puts <=>
                           \/ t = target /\ a = rows[t].ids \cup {c}
                           \/ t # target /\ IsLive(t) /\ c \in rows[t].ids /\ a = rows[t].ids \ {c}
      OBVIOUS
    <2>6. Put(t, a) \in {Put(u, rows[u].ids \ {c}) : u \in CurrentSuite(c)}
            <=> t \in CurrentSuite(c) /\ a = rows[t].ids \ {c}
      <3>1. ASSUME NEW u \in CurrentSuite(c), Put(t, a) = Put(u, rows[u].ids \ {c})
            PROVE  t \in CurrentSuite(c) /\ a = rows[t].ids \ {c}
        BY <2>5, <3>1
      <3> QED BY <3>1
    <2>7. Put(t, a) = Put(target, rows[target].ids \cup {c}) <=> t = target /\ a = rows[t].ids \cup {c}
      BY <2>5
    <2> HIDE DEF puts
    <2> QED BY <2>1, <2>3, <2>4, <2>6, <2>7
  <1>4. \A t \in Suites, a \in SUBSET Cases : Put(t, a) \in puts => IsLive(t) /\ a = f[t]
    BY <1>1, <1>3, ListIs
  <1>5. \A t \in Suites : IsLive(t) /\ f[t] # rows[t].ids => Put(t, f[t]) \in puts
    <2> SUFFICES ASSUME NEW t \in Suites, IsLive(t), f[t] # rows[t].ids PROVE Put(t, f[t]) \in puts
      OBVIOUS
    <2>1. f[t] \in SUBSET Cases
      BY <1>2
    <2>2. t # target => c \in rows[t].ids
      BY <1>1
    <2> HIDE DEF f, puts
    <2> QED BY <1>1, <1>3, <2>1, <2>2
  <1>6. \A t, u \in Suites : t # u /\ IsLive(t) /\ IsLive(u) => f[t] \cap f[u] = {}
    BY <1>1, ListIs
  <1> HIDE DEF f
  <1> QED BY <1>2, <1>4, <1>5, <1>6, HomeIf

LEMMA ManagePutsAre ==
  ASSUME PageOK, NEW s \in Suites, NEW chosen \in SUBSET Cases
  PROVE  ManagePuts(s, chosen) \in (SUBSET Puts) \ {{}}
  <1>1. \A t \in Suites : view[t] # Absent => Put(t, view[t] \ chosen) \in Puts
    BY DEF PageOK, Views, Put, Puts
  <1>2. Put(s, chosen) \in Puts
    BY DEF Put, Puts
  <1> QED BY <1>1, <1>2 DEF ManagePuts

LEMMA MovePutsAre ==
  ASSUME PageOK, NEW c \in Cases, NEW target \in Suites, view[target] # Absent
  PROVE  MovePuts(c, target) \in (SUBSET Puts) \ {{}}
  <1>1. \A t \in Suites : view[t] # Absent => Put(t, view[t] \ {c}) \in Puts
    BY DEF PageOK, Views, Put, Puts
  <1>2. Put(target, view[target] \cup {c}) \in Puts
    BY DEF PageOK, Views, Put, Puts
  <1> QED BY <1>1, <1>2 DEF MovePuts, CurrentSuite

LEMMA SaveManageKeeps ==
  ASSUME IInv, NEW o \in Ops, SaveManage(o)
  PROVE  IInv'
  <1> USE DEF IInv
  <1>1. dialog \in ManageDialogs /\ dialog.kind = "manage"
    BY DialogKinds DEF SaveManage, TypesOK
  <1>2. PICK puts : puts = ManagePuts(dialog.suite, dialog.chosen)
    OBVIOUS
  <1>3. puts \in (SUBSET Puts) \ {{}}
    BY <1>1, <1>2, ManagePutsAre DEF ManageDialogs, TypesOK
  <1>4. PICK op \in PutOps : op = [kind |-> "manage", puts |-> puts, bad |-> FALSE]
    BY <1>3 DEF PutOps
  <1>5. op \in OpRecords /\ op # NoOp /\ Settled(op) /\ ~Broken(op)
    BY <1>4, OpsAre DEF NoOp, Settled, Broken
  <1>6. Agreed(op)' /\ Clears(op)
    BY <1>4 DEF Agreed, Clears
  <1>7. dialog' \in ManageDialogs /\ Alike /\ dialog'.suite = dialog.suite
    BY <1>1 DEF SaveManage, ManageDialogs, Alike
  <1>8. ASSUME Calm' PROVE Home(op.puts)
    <2>1. Start(o, op)
      BY <1>2, <1>4 DEF SaveManage
    <2>2. Quiet /\ Calm
      BY <1>8, <2>1, HurriedIs, CalmIs DEF Start
    <2> QED BY <1>1, <1>2, <1>4, <2>2, ManageHome
  <1>9. /\ Start(o, op) /\ UNCHANGED <<rows, triggers, view, loads, member, shown, asked, creating>>
    BY <1>2, <1>4 DEF SaveManage
  <1> QED BY <1>4, <1>5, <1>6, <1>7, <1>8, <1>9, DialogsAre, StartStep DEF TypesOK, PageOK

LEMMA SaveMoveKeeps ==
  ASSUME IInv, NEW o \in Ops, SaveMove(o)
  PROVE  IInv'
  <1> USE DEF IInv
  <1>1. /\ dialog \in MoveDialogs /\ dialog.kind = "move"
        /\ dialog.target # Absent /\ view[dialog.target] # Absent
        /\ dialog.target \notin CurrentSuite(dialog.case)
    BY DialogKinds DEF SaveMove, TypesOK
  <1>2. PICK puts : puts = MovePuts(dialog.case, dialog.target)
    OBVIOUS
  <1>3. puts \in (SUBSET Puts) \ {{}}
    BY <1>1, <1>2, MovePutsAre DEF MoveDialogs, TypesOK
  <1>4. PICK op \in PutOps : op = [kind |-> "move", puts |-> puts, bad |-> FALSE]
    BY <1>3 DEF PutOps
  <1>5. op \in OpRecords /\ op # NoOp /\ Settled(op) /\ ~Broken(op)
    BY <1>4, OpsAre DEF NoOp, Settled, Broken
  <1>6. Agreed(op)' /\ Clears(op)
    BY <1>4 DEF Agreed, Clears
  <1>7. dialog' \in MoveDialogs /\ Alike /\ dialog'.kind = "move"
    BY <1>1 DEF SaveMove, MoveDialogs, Alike
  <1>8. ASSUME Calm' PROVE Home(op.puts)
    <2>1. Start(o, op)
      BY <1>2, <1>4 DEF SaveMove
    <2>2. Quiet /\ Calm
      BY <1>8, <2>1, HurriedIs, CalmIs DEF Start
    <2> QED BY <1>1, <1>2, <1>4, <2>2, MoveHome DEF MoveDialogs
  <1>9. /\ Start(o, op) /\ UNCHANGED <<rows, triggers, view, loads, member, shown, asked, creating>>
    BY <1>2, <1>4 DEF SaveMove
  <1> QED BY <1>4, <1>5, <1>6, <1>7, <1>8, <1>9, DialogsAre, StartStep DEF TypesOK, PageOK

LEMMA SubmitCreateKeeps ==
  ASSUME IInv, NEW o \in Ops, SubmitCreate(o)
  PROVE  IInv'
  <1>1. PICK op \in OpRecords : op = [kind |-> "create"]
    BY OpsAre
  <1>2. op # NoOp /\ Settled(op) /\ ~Broken(op) /\ Agreed(op)' /\ Clears(op)
        /\ op.kind = "create"
    BY <1>1 DEF NoOp, Settled, Broken, Agreed, Clears
  <1>3. /\ Start(o, op) /\ UNCHANGED <<rows, triggers, view, loads, dialog, member, shown, asked>>
        /\ dialog.kind = "create" /\ creating' \in BOOLEAN
    BY <1>1 DEF SubmitCreate
  <1>4. dialog' \in Dialogs /\ Alike /\ dialog'.kind = "create"
    BY <1>3 DEF Alike, IInv, TypesOK, DialogOK
  <1> QED BY <1>2, <1>3, <1>4, StartStep DEF IInv, TypesOK, PageOK

LEMMA ClickDeleteKeeps ==
  ASSUME IInv, NEW o \in Ops, NEW s \in Suites, ClickDelete(o, s)
  PROVE  IInv'
  <1>1. PICK op \in OpRecords : op = [kind |-> "delete", suite |-> s]
    BY OpsAre DEF DeleteOps
  <1>2. op # NoOp /\ Settled(op) /\ ~Broken(op) /\ Agreed(op)' /\ Clears(op)
        /\ op.kind = "delete"
    BY <1>1 DEF NoOp, Settled, Broken, Agreed, Clears
  <1>3. /\ Start(o, op) /\ UNCHANGED <<rows, triggers, view, loads, dialog, member, shown, asked, creating>>
        /\ dialog = NoDialog
    BY <1>1 DEF ClickDelete
  <1>4. dialog' \in Dialogs /\ Alike /\ dialog'.kind = "none"
    BY <1>3, DialogsAre DEF Alike, NoDialog
  <1> QED BY <1>2, <1>3, <1>4, StartStep DEF IInv, TypesOK, PageOK

LEMMA ExistingIs ==
  ASSUME TypesOK, AskedInv, dialog.kind = "run"
  PROVE  /\ ExistingForMode \subseteq Triggers
         /\ "tab" \notin causes /\ dialog.mode # "cron" =>
               \A t \in ExistingForMode : triggers[t] \in {"push", "gone"}
         /\ Knows(dialog) /\ dialog.list = Absent /\ dialog.mode \in Kinds =>
               Live(dialog.mode) \subseteq ExistingForMode
  <1>1. dialog \in RunDialogs
    BY DialogKinds DEF TypesOK
  <1>2. dialog.schedules \subseteq Triggers \X Kinds /\ dialog.schedules \subseteq Known(dialog)
    BY <1>1 DEF RunDialogs, Schedules, Known
  <1>3. ExistingForMode \subseteq Triggers
    BY <1>2 DEF ExistingForMode
  <1>4. ASSUME "tab" \notin causes, dialog.mode # "cron", NEW t \in ExistingForMode
        PROVE  triggers[t] \in {"push", "gone"}
    <2>1. PICK p \in dialog.schedules : p[2] = "push" /\ t = p[1]
      BY <1>4 DEF ExistingForMode
    <2> QED BY <1>2, <1>4, <2>1 DEF AskedInv, Kept
  <1>5. ASSUME Knows(dialog), dialog.list = Absent, dialog.mode \in Kinds, NEW t \in Live(dialog.mode)
        PROVE  t \in ExistingForMode
    <2>1. t \in Triggers /\ triggers[t] = dialog.mode
      BY DEF Live
    <2>2. <<t, dialog.mode>> \in dialog.schedules
      BY <1>5, <2>1, RowedAre DEF Knows, TypesOK, TablesOK
    <2> QED BY <1>5, <2>2 DEF ExistingForMode, Kinds
  <1> QED BY <1>3, <1>4, <1>5

\* doSave, with the user's consent unless no cron row is replaced.
LEMMA DoSaveKeeps ==
  ASSUME IInv, NEW o \in Ops, dialog.kind = "run", DoSave(o), UNCHANGED <<Rest, triggers>>,
         asked \subseteq asked', asked' \subseteq Triggers,
         ExistingForMode \subseteq asked' \/ dialog.mode # "cron"
  PROVE  IInv'
  <1> USE DEF IInv
  <1>1. dialog \in RunDialogs
    BY DialogKinds DEF TypesOK
  <1>2. PICK drops : drops = ExistingForMode
    OBVIOUS
  <1>3. PICK op \in RunOps : op = [kind |-> "run", mode |-> dialog.mode, drops |-> drops, bad |-> FALSE]
    BY <1>1, <1>2, ExistingIs DEF RunOps, RunDialogs
  <1>4. op \in OpRecords /\ op # NoOp /\ Settled(op) /\ ~Broken(op) /\ op.kind = "run"
    BY <1>3, OpsAre DEF NoOp, Settled, Broken
  <1>5. Start(o, op) /\ dialog' = [dialog EXCEPT !.op = o]
    BY <1>2, <1>3 DEF DoSave
  <1>6. dialog' \in RunDialogs /\ Alike /\ dialog'.kind = "run"
    BY <1>1, <1>5 DEF RunDialogs, Alike
  <1>7. Agreed(op)'
    <2>1. causes \subseteq causes'
      BY <1>5, HurriedIs DEF Start
    <2> QED BY <1>2, <1>3, <2>1, ExistingIs DEF Agreed
  <1>8. ASSUME Calm' PROVE Clears(op)
    <2>1. Quiet /\ Calm
      BY <1>5, <1>8, HurriedIs, CalmIs DEF Start
    <2> QED BY <1>2, <1>3, <2>1, QuietIs, ExistingIs DEF Clears, CalmInv, TriggerInv
  <1> QED BY <1>4, <1>5, <1>6, <1>7, <1>8, DialogsAre, StartStep DEF Rest, TypesOK, PageOK

LEMMA ConfirmKeeps ==
  ASSUME IInv, NEW o \in Ops, Confirm(o)
  PROVE  IInv'
  <1>1. dialog \in RunDialogs /\ dialog.kind = "run" /\ UNCHANGED <<Rest, triggers, asked>>
    BY DialogKinds DEF Confirm, IInv, TypesOK
  <1>2. CASE dialog' = [dialog EXCEPT !.confirm = TRUE] /\ UNCHANGED <<ops, budget, causes>>
    <2>1. dialog' \in RunDialogs /\ dialog'.list = dialog.list /\ dialog'.schedules = dialog.schedules
      BY <1>1, <1>2 DEF RunDialogs
    <2> QED BY <1>1, <1>2, <2>1, RunDialogStep DEF Rest
  <1>3. CASE DoSave(o) /\ ~(dialog.mode # "instant" /\ ExistingForMode # {})
    BY <1>1, <1>3, DoSaveKeeps DEF IInv, TypesOK, PageOK
  <1> QED BY <1>2, <1>3 DEF Confirm

LEMMA OverrideKeeps ==
  ASSUME IInv, NEW o \in Ops, Override(o)
  PROVE  IInv'
  <1>1. ExistingForMode \subseteq Triggers
    BY ExistingIs DEF Override, IInv
  <1> QED BY <1>1, DoSaveKeeps DEF Override, IInv, TypesOK, PageOK

LEMMA DropKeeps ==
  ASSUME IInv, NEW o \in Ops, NEW t \in Triggers, Drop(o, t)
  PROVE  IInv'
  <1>1. PICK op \in OpRecords : op = [kind |-> "drop", row |-> t]
    BY OpsAre DEF DropOps
  <1>2. op # NoOp /\ Settled(op) /\ ~Broken(op) /\ Clears(op) /\ op.kind = "drop"
    BY <1>1 DEF NoOp, Settled, Broken, Clears
  <1>3. /\ Start(o, op) /\ UNCHANGED <<rows, triggers, view, loads, member, shown, creating>>
        /\ dialog' = [dialog EXCEPT !.drops = @ \cup {o}] /\ asked' = asked \cup {t}
    BY <1>1 DEF Drop, Rest
  <1>4. Agreed(op)'
    BY <1>1, <1>3 DEF Agreed
  <1>5. dialog \in RunDialogs
    BY DialogKinds DEF Drop, IInv, TypesOK
  <1>6. dialog' \in RunDialogs /\ Alike /\ dialog'.kind = "run"
    BY <1>3, <1>5 DEF RunDialogs, Alike
  <1> QED BY <1>2, <1>3, <1>4, <1>6, DialogsAre, StartStep DEF IInv, TypesOK, PageOK

-----------------------------------------------------------------------------
(* The requests of two lists *)

LEMMA WrittenIs ==
  ASSUME TablesOK, NEW p \in Puts
  PROVE  /\ Written(p) \in [Suites -> Rows]
         /\ \A s \in Suites : /\ Written(p)[s].state = rows[s].state
                              /\ Written(p)[s].ids = IF s = p.suite THEN p.ids ELSE rows[s].ids
  <1>1. p.suite \in Suites /\ p.ids \in SUBSET Cases
    BY DEF Puts
  <1> QED BY <1>1 DEF TablesOK, Written, Rows

\* A request takes the suites a step nearer to where all of them lead.
LEMMA PutHome ==
  ASSUME TablesOK, NEW puts \in SUBSET Puts, NEW p \in puts, Home(puts), rows' = Written(p)
  PROVE  Home(puts \ {p})'
  <1>1. /\ p \in Puts /\ p.suite \in Suites /\ p.ids \in SUBSET Cases /\ p = Put(p.suite, p.ids)
    BY DEF Puts, Put
  <1>2. \A s \in Suites : /\ IsLive(s)' <=> IsLive(s)
                          /\ rows'[s].state = rows[s].state
                          /\ rows'[s].ids = IF s = p.suite THEN p.ids ELSE rows[s].ids
    BY <1>1, WrittenIs DEF IsLive
  <1>3. \A a \in SUBSET Cases : Put(p.suite, a) \in puts => a = p.ids
    BY <1>1 DEF Home
  <1>4. ASSUME NEW s \in Suites, NEW a \in SUBSET Cases, Will(s, a, puts \ {p})'
        PROVE  Will(s, a, puts)
    <2>1. CASE s = p.suite
      BY <1>1, <1>2, <1>3, <1>4, <2>1 DEF Will
    <2>2. CASE s # p.suite
      <3>1. \A x \in SUBSET Cases : Put(s, x) # p
        BY <1>1, <2>2 DEF Put
      <3> QED BY <1>2, <1>4, <2>2, <3>1 DEF Will
    <2> QED BY <2>1, <2>2
  <1>5. ASSUME NEW s \in Suites, rows'[s].state = "none" PROVE rows'[s].ids = {}
    <2>1. s # p.suite
      BY <1>1, <1>2, <1>5 DEF Home, IsLive
    <2> QED BY <1>2, <1>5, <2>1 DEF Home
  <1>6. \A s, t \in Suites, a, b \in SUBSET Cases :
          s # t /\ IsLive(s)' /\ IsLive(t)' /\ Will(s, a, puts \ {p})' /\ Will(t, b, puts \ {p})'
             => a \cap b = {}
    BY <1>2, <1>4 DEF Home
  <1>7. /\ \A s \in Suites, a, b \in SUBSET Cases :
             Put(s, a) \in puts \ {p} /\ Put(s, b) \in puts \ {p} => a = b
        /\ \A s \in Suites, a \in SUBSET Cases : Put(s, a) \in puts \ {p} => IsLive(s)'
    BY <1>2 DEF Home
  <1> QED BY <1>5, <1>6, <1>7 DEF Home

\* In a calm page only this operation is under way.
LEMMA AloneIs ==
  ASSUME OneOp, NEW o \in Ops, Busy(o)
  PROVE  \A q \in Ops : q # o => ops[q] = NoOp
  BY DEF OneOp, Busy

LEMMA PutDoneKeeps ==
  ASSUME IInv, NEW o \in Ops, NEW p \in Puts, PutDone(o, p)
  PROVE  IInv'
  <1> USE DEF IInv
  <1>1. /\ ops[o].kind \in {"manage", "move"} /\ p \in ops[o].puts /\ rows' = Written(p)
        /\ UNCHANGED <<triggers, view, creating, member, shown, uses, budget, asked, causes>>
    BY DEF PutDone
  <1>2. ops[o] \in PutOps /\ ops[o].puts \in SUBSET Puts
    BY <1>1, OpKinds DEF TypesOK, OpsOK, PutOps
  <1>3. Busy(o) /\ "page" \in causes
    BY <1>1 DEF Busy, NoOp, BusyInv
  <1>4. \/ ops[o].puts # {p} /\ ops' = [ops EXCEPT ![o].puts = @ \ {p}] /\ UNCHANGED <<dialog, loads>>
        \/ ops[o].puts = {p} /\ ops' = [ops EXCEPT ![o] = NoOp] /\ ops[o].bad /\ UNCHANGED <<dialog, loads>>
        \/ ops[o].puts = {p} /\ ops' = [ops EXCEPT ![o] = NoOp] /\ dialog' = Closed(ops[o].kind) /\ AskLoad(loads)
    BY DEF PutDone
  <1>5. /\ \A q \in Ops : q # o => ops'[q] = ops[q]
        /\ \/ /\ ops[o].puts # {p} /\ ops'[o] \in PutOps /\ ops'[o].kind = ops[o].kind
              /\ ops'[o].puts = ops[o].puts \ {p} /\ (Broken(ops'[o]) => Broken(ops[o]))
           \/ ops[o].puts = {p} /\ ops'[o] = NoOp
    <2>1. CASE ops[o].puts # {p} /\ ops' = [ops EXCEPT ![o].puts = @ \ {p}]
      BY <1>1, <1>2, <2>1 DEF TypesOK, OpsOK, PutOps, Broken
    <2>2. CASE ops[o].puts = {p} /\ ops' = [ops EXCEPT ![o] = NoOp]
      BY <2>2 DEF TypesOK, OpsOK
    <2> QED BY <1>4, <2>1, <2>2
  <1>6. dialog' \in {dialog, NoDialog}
    BY <1>4 DEF Closed
  <1>7. TypesOK'
    <2>1. TablesOK' /\ DialogOK'
      BY <1>1, <1>6, WrittenIs, DialogsAre DEF TypesOK, TablesOK, DialogOK
    <2>2. loads' \in [Loads -> Views \cup {Asked, Absent}]
      BY <1>4 DEF AskLoad, TypesOK, PageOK
    <2>3. OpsOK'
      <3>1. ops'[o] \in OpRecords /\ Settled(ops'[o])
        BY <1>1, <1>5, OpsAre DEF Settled, NoOp
      <3>2. \A q \in Ops : ops'[q] \in OpRecords /\ Settled(ops'[q])
        BY <1>5, <3>1 DEF TypesOK, OpsOK
      <3>3. \E f : ops' = [ops EXCEPT ![o] = f]
        BY <1>4
      <3> QED BY <3>2, <3>3 DEF TypesOK, OpsOK, Settled
    <2> QED BY <1>1, <2>1, <2>2, <2>3 DEF TypesOK, PageOK, OtherOK
  <1>8. BusyInv'
    BY <1>1, <1>3, <1>5, BusyKeeps DEF Busy, Broken, NoOp
  <1>9. AskedInv'
    <2>1. \A t \in Triggers : Stays(t)
      BY <1>1 DEF Stays
    <2>2. Agreed(ops[o])'
      BY <1>1, <1>5 DEF Agreed, NoOp
    <2>3. Known(dialog') \subseteq Known(dialog)
      BY <1>6 DEF Known, NoDialog
    <2>4. \A q \in Ops : ops'[q] = ops[q] \/ Agreed(ops[q])'
      BY <1>5, <2>2
    <2> QED BY <1>1, <2>1, <2>3, <2>4, AskedKeeps DEF TypesOK
  <1>10. TabInv'
    BY <1>1, <1>3, TabKeeps
  <1>11. ASSUME Calm' PROVE OneOp' /\ TriggerInv' /\ LoadInv' /\ HomeInv' /\ DialogInv'
    <2>1. OneOp /\ TriggerInv /\ LoadInv /\ HomeInv /\ DialogInv
      BY <1>1, <1>11, CalmIs DEF CalmInv
    <2>2. \A q \in Ops : q # o => ops[q] = NoOp /\ ops'[q] = NoOp
      BY <1>3, <1>5, <2>1, AloneIs
    <2>3. OneOp'
      BY <2>2 DEF OneOp, Busy
    <2>4. Queue = ops[o].puts /\ Queue' = ops[o].puts \ {p}
      BY <1>1, <1>5, <2>2 DEF Queue, Writing, NoOp
    <2>5. HomeInv'
      BY <1>1, <1>2, <2>1, <2>4, PutHome DEF HomeInv, TypesOK
    <2>6. TriggerInv'
      <3>1. Rowed' = Rowed /\ (Single <=> Single')
        BY <1>1 DEF Rowed, Live, Single
      <3>2. Knows(dialog)'
        BY <1>6, <2>1, <3>1 DEF TriggerInv, Knows, NoDialog
      <3>3. \A q \in Ops : Clears(ops[q])'
        BY <1>1, <1>5, <2>2 DEF Clears, NoOp
      <3> QED BY <2>1, <3>1, <3>2, <3>3 DEF TriggerInv
    <2>7. ~Broken(ops[o])
      BY <1>1, <1>11, CalmIs DEF BusyInv
    <2>8. CASE ops[o].puts # {p}
      <3>1. dialog' = dialog /\ loads' = loads
        BY <1>4, <2>8
      <3>2. Busy(o)' /\ Writing(o)'
        BY <1>1, <1>5, <2>8 DEF Busy, Writing, NoOp
      <3>3. \A l \in Loads : loads[l] = Absent
        BY <1>3, <2>1 DEF LoadInv
      <3>4. LoadInv'
        BY <3>1, <3>2, <3>3 DEF LoadInv
      <3>5. DialogInv'
        BY <1>1, <1>3, <1>5, <2>1, <2>2, <2>8, <3>1 DEF DialogInv, Busy
      <3> QED BY <2>3, <2>5, <2>6, <3>4, <3>5
    <2>9. CASE ops[o].puts = {p}
      <3>1. dialog' = Closed(ops[o].kind) /\ AskLoad(loads)
        BY <1>1, <1>4, <2>7, <2>9 DEF Broken
      <3>2. \A q \in Ops : ~Busy(q)'
        BY <1>5, <2>2, <2>9 DEF Busy
      <3>3. PICK l \in Loads : loads' = [loads EXCEPT ![l] = Asked]
        BY <3>1 DEF AskLoad
      <3>4. \A m \in Loads : loads[m] = Absent
        BY <1>3, <2>1 DEF LoadInv
      <3>5. /\ \A m \in Loads : loads'[m] = IF m = l THEN Asked ELSE Absent
            /\ loads'[l] # Absent
        BY <3>3, <3>4, AbsentAssumption DEF TypesOK, PageOK
      <3>6. LoadInv'
        BY <3>2, <3>5 DEF LoadInv
      <3>7. DialogInv'
        BY <1>1, <1>3, <2>1, <3>1 DEF DialogInv, Closed, NoDialog
      <3> QED BY <2>3, <2>5, <2>6, <3>6, <3>7
    <2> QED BY <2>8, <2>9
  <1> QED BY <1>7, <1>8, <1>9, <1>10, <1>11 DEF CalmInv

-----------------------------------------------------------------------------
(* Other answers *)

LEMMA AnswerStep ==
  ASSUME IInv, NEW o \in Ops, NEW x \in OpRecords, Busy(o), Settled(x), ops' = [ops EXCEPT ![o] = x],
         UNCHANGED <<loads, member, shown, budget, asked>>,
         TablesOK', view' \in Views, creating' \in BOOLEAN, dialog' \in Dialogs,
         causes \subseteq causes', causes' \subseteq Causes,
         Broken(x) => Broken(ops[o]) \/ "failure" \in causes',
         \A t \in Triggers : Stays(t), Known(dialog') \subseteq Known(dialog), Agreed(x)',
         Calm' => TriggerInv' /\ LoadInv' /\ HomeInv' /\ DialogInv'
  PROVE  IInv'
  <1> USE DEF IInv
  <1>1. ops'[o] = x /\ \A q \in Ops : q # o => ops'[q] = ops[q]
    BY DEF TypesOK, OpsOK
  <1>2. TypesOK'
    BY <1>1 DEF TypesOK, PageOK, DialogOK, OpsOK, OtherOK, Settled
  <1>3. BusyInv'
    BY <1>1, BusyKeeps DEF Busy, BusyInv
  <1>4. AskedInv'
    <2>1. \A q \in Ops : ops'[q] = ops[q] \/ Agreed(ops[q])'
      BY <1>1 DEF Agreed
    <2> QED BY <2>1, AskedKeeps DEF TypesOK
  <1>5. TabInv'
    BY TabKeeps DEF BusyInv
  <1>6. Calm' => OneOp'
    BY <1>1, CalmIs, OneOpKeeps DEF CalmInv, Busy
  <1> QED BY <1>2, <1>3, <1>4, <1>5, <1>6 DEF CalmInv

LEMMA PutFailsKeeps ==
  ASSUME IInv, NEW o \in Ops, NEW p \in Puts, PutFails(o, p)
  PROVE  IInv'
  <1> USE DEF IInv, TypesOK
  <1>1. /\ ops[o].kind \in {"manage", "move"} /\ p \in ops[o].puts /\ rows' \in {rows, Written(p)}
        /\ dialog' = Released(o)
        /\ UNCHANGED <<triggers, view, loads, creating, member, shown, uses, budget, asked>>
    BY DEF PutFails
  <1>2. causes \subseteq causes' /\ causes' \subseteq Causes /\ "failure" \in causes' /\ ~Calm'
    BY FailureIs DEF PutFails, PageOK
  <1>3. ops[o] \in PutOps
    BY <1>1, OpKinds DEF OpsOK
  <1>4. PICK x : x = IF ops[o].puts = {p} THEN NoOp
                     ELSE [ops[o] EXCEPT !.puts = @ \ {p}, !.bad = TRUE]
    OBVIOUS
  <1>5. ops' = [ops EXCEPT ![o] = x]
    <2>1. ops' = [ops EXCEPT ![o] = IF ops[o].puts = {p} THEN NoOp
                     ELSE [ops[o] EXCEPT !.puts = @ \ {p}, !.bad = TRUE]]
      BY Zenon DEF PutFails
    <2> QED BY <1>4, <2>1
  <1>6. x \in PutOps \cup {NoOp}
    BY <1>1, <1>3, <1>4 DEF PutOps
  <1>7. x \in OpRecords /\ x.kind # "run" /\ x.kind # "drop" /\ Settled(x)
    BY <1>6, OpsAre DEF PutOps, NoOp, Settled
  <1>8. Agreed(x)' /\ Busy(o)
    BY <1>1, <1>7 DEF Agreed, Busy, NoOp
  <1>9. TablesOK'
    BY <1>1, WrittenIs DEF TablesOK
  <1>10. \A t \in Triggers : Stays(t)
    BY <1>1 DEF Stays
  <1>11. dialog' \in Dialogs /\ Known(dialog') \subseteq Known(dialog)
    <2>1. CASE dialog.kind \in {"manage", "move", "run"} /\ dialog.op = o
      <3>1. dialog' = [dialog EXCEPT !.op = Absent]
        BY <1>1, <2>1 DEF Released
      <3>2. dialog \in ManageDialogs \/ dialog \in MoveDialogs \/ dialog \in RunDialogs
        BY <2>1, DialogKinds
      <3>3. /\ dialog' \in ManageDialogs \cup MoveDialogs \cup RunDialogs
            /\ dialog'.kind = dialog.kind
            /\ dialog.kind = "run" => dialog'.list = dialog.list /\ dialog'.schedules = dialog.schedules
        BY <3>1, <3>2 DEF ManageDialogs, MoveDialogs, RunDialogs
      <3> QED BY <3>3, AlikeIs, DialogsAre DEF Alike
    <2>2. CASE ~(dialog.kind \in {"manage", "move", "run"} /\ dialog.op = o)
      BY <1>1, <2>2 DEF Released, DialogOK
    <2> QED BY <2>1, <2>2
  <1> QED BY <1>1, <1>2, <1>5, <1>7, <1>8, <1>9, <1>10, <1>11, AnswerStep DEF PageOK

\* Suites appear and go without test cases that another one has.
LEMMA LiveHome ==
  ASSUME TablesOK, Home({}), rows' \in [Suites -> Rows],
         \A s \in Suites : /\ rows'[s].ids = rows[s].ids
                           /\ rows'[s].state = "none" => rows[s].state = "none"
                           /\ IsLive(s)' => IsLive(s) \/ rows[s].state = "none"
  PROVE  Home({})'
  <1>1. \A s \in Suites, a \in SUBSET Cases : Will(s, a, {})' <=> rows[s].ids = a
    BY DEF Will
  <1>2. \A s \in Suites, a \in SUBSET Cases : Will(s, a, {}) <=> rows[s].ids = a
    BY DEF Will
  <1>3. \A s \in Suites : rows[s].state = "none" => rows[s].ids = {}
    BY DEF Home
  <1>4. ASSUME NEW s \in Suites, NEW t \in Suites, NEW a \in SUBSET Cases, NEW b \in SUBSET Cases,
               s # t, IsLive(s)', IsLive(t)', Will(s, a, {})', Will(t, b, {})'
        PROVE  a \cap b = {}
    <2>1. a = rows[s].ids /\ b = rows[t].ids
      BY <1>1, <1>4
    <2>2. CASE IsLive(s) /\ IsLive(t)
      BY <1>2, <1>4, <2>1, <2>2 DEF Home
    <2>3. CASE ~(IsLive(s) /\ IsLive(t))
      BY <1>3, <1>4, <2>1, <2>3
    <2> QED BY <2>2, <2>3
  <1>5. \A s \in Suites : rows'[s].state = "none" => rows'[s].ids = {}
    BY <1>3
  <1> QED BY <1>4, <1>5 DEF Home

LEMMA CreateDoneKeeps ==
  ASSUME IInv, NEW o \in Ops, NEW s \in Suites, CreateDone(o, s)
  PROVE  IInv'
  <1> USE DEF IInv, TypesOK
  <1>1. /\ ops[o].kind = "create" /\ rows[s].state = "none"
        /\ rows' = [rows EXCEPT ![s].state = "live"] /\ view' = [view EXCEPT ![s] = {}]
        /\ ops' = [ops EXCEPT ![o] = NoOp] /\ creating' = FALSE /\ dialog' = Closed("create")
        /\ UNCHANGED <<triggers, loads, member, shown, uses, budget, asked, causes>>
    BY DEF CreateDone
  <1>2. NoOp \in OpRecords /\ NoOp.kind = "none" /\ Settled(NoOp) /\ ~Broken(NoOp) /\ Busy(o)
    BY <1>1, OpsAre DEF NoOp, Settled, Broken, Busy
  <1>3. Agreed(NoOp)'
    BY <1>2 DEF Agreed, NoOp
  <1>4. /\ TablesOK' /\ view' \in Views
        /\ \A t \in Suites : rows'[t].ids = rows[t].ids
        /\ \A t \in Suites : rows'[t].state = IF t = s THEN "live" ELSE rows[t].state
        /\ \A t \in Suites : view'[t] = IF t = s THEN {} ELSE view[t]
    BY <1>1 DEF TablesOK, PageOK, Rows, Views
  <1>5. dialog' \in {dialog, NoDialog}
    BY <1>1 DEF Closed
  <1>6. dialog' \in Dialogs /\ Known(dialog') \subseteq Known(dialog)
    BY <1>5, DialogsAre DEF DialogOK, Known, NoDialog
  <1>7. ops'[o] = NoOp /\ \A q \in Ops : q # o => ops'[q] = ops[q]
    BY <1>1 DEF OpsOK
  <1>8. ASSUME Calm' PROVE TriggerInv' /\ LoadInv' /\ HomeInv' /\ DialogInv'
    <2>1. OneOp /\ TriggerInv /\ LoadInv /\ HomeInv /\ DialogInv
      BY <1>1, <1>8, CalmIs DEF CalmInv
    <2>2. /\ \A q \in Ops : q # o => ops[q] = NoOp
          /\ \A q \in Ops : ops'[q] = NoOp
      BY <1>2, <1>7, <2>1, AloneIs
    <2>3. /\ \A l \in Loads : loads[l] = Absent
          /\ \A q \in Ops : ~Writing(q)
      BY <1>1, <1>2, <2>1, <2>2 DEF LoadInv, Writing
    <2>4. Queue = {} /\ Queue' = {}
      BY <1>2, <2>2, <2>3 DEF Queue, Writing
    <2>5. view = Listed
      BY <2>1, <2>3 DEF LoadInv
    <2>6. rows[s].ids = {}
      BY <1>1, <2>1 DEF HomeInv, Home
    <2>7. view' = Listed'
      <3>1. \A t \in Suites : view'[t] = Listed'[t]
        BY <1>4, <2>5, <2>6 DEF Listed
      <3> QED BY <1>4, <3>1 DEF Listed, Views
    <2>8. LoadInv'
      BY <1>1, <2>2, <2>3, <2>7 DEF LoadInv, Busy
    <2>9. HomeInv'
      BY <1>1, <1>4, <2>1, <2>4, LiveHome DEF HomeInv, TablesOK, IsLive
    <2>10. TriggerInv'
      <3>1. Rowed' = Rowed /\ (Single <=> Single')
        BY <1>1 DEF Rowed, Live, Single
      <3>2. Knows(dialog)'
        BY <1>5, <2>1, <3>1 DEF TriggerInv, Knows, NoDialog
      <3>3. \A q \in Ops : Clears(ops[q])'
        BY <2>2 DEF Clears, NoOp
      <3> QED BY <2>1, <3>1, <3>2, <3>3 DEF TriggerInv
    <2>11. DialogInv'
      BY <1>1, <1>2, <1>5, <2>1 DEF DialogInv, NoDialog
    <2> QED BY <2>8, <2>9, <2>10, <2>11
  <1>9. \A t \in Triggers : Stays(t)
    BY <1>1 DEF Stays
  <1> QED BY <1>1, <1>2, <1>3, <1>4, <1>6, <1>8, <1>9, AnswerStep DEF PageOK

LEMMA DeleteDoneKeeps ==
  ASSUME IInv, NEW o \in Ops, DeleteDone(o)
  PROVE  IInv'
  <1> USE DEF IInv, TypesOK
  <1>1. /\ ops[o].kind = "delete" /\ ops' = [ops EXCEPT ![o] = NoOp]
        /\ UNCHANGED <<triggers, loads, dialog, creating, member, shown, uses, budget, asked, causes>>
    BY DEF DeleteDone
  <1>2. PICK s \in Suites : s = ops[o].suite
    BY <1>1, OpKinds DEF OpsOK, DeleteOps
  <1>3. rows' = [rows EXCEPT ![s].state = "gone"] /\ view' = [view EXCEPT ![s] = Absent]
    BY <1>2 DEF DeleteDone
  <1>4. NoOp \in OpRecords /\ NoOp.kind = "none" /\ Settled(NoOp) /\ ~Broken(NoOp) /\ Busy(o)
    BY <1>1, OpsAre DEF NoOp, Settled, Broken, Busy
  <1>5. Agreed(NoOp)'
    BY <1>4 DEF Agreed, NoOp
  <1>6. /\ TablesOK' /\ view' \in Views
        /\ \A t \in Suites : rows'[t].ids = rows[t].ids
        /\ \A t \in Suites : rows'[t].state = IF t = s THEN "gone" ELSE rows[t].state
        /\ \A t \in Suites : view'[t] = IF t = s THEN Absent ELSE view[t]
    BY <1>1, <1>3 DEF TablesOK, PageOK, Rows, Views
  <1>7. ops'[o] = NoOp /\ \A q \in Ops : q # o => ops'[q] = ops[q]
    BY <1>1 DEF OpsOK
  <1>8. ASSUME Calm' PROVE TriggerInv' /\ LoadInv' /\ HomeInv' /\ DialogInv'
    <2>1. OneOp /\ TriggerInv /\ LoadInv /\ HomeInv /\ DialogInv
      BY <1>1, <1>8, CalmIs DEF CalmInv
    <2>2. /\ \A q \in Ops : q # o => ops[q] = NoOp
          /\ \A q \in Ops : ops'[q] = NoOp
      BY <1>4, <1>7, <2>1, AloneIs
    <2>3. /\ \A l \in Loads : loads[l] = Absent
          /\ \A q \in Ops : ~Writing(q)
      BY <1>1, <1>4, <2>1, <2>2 DEF LoadInv, Writing
    <2>4. Queue = {} /\ Queue' = {}
      BY <1>4, <2>2, <2>3 DEF Queue, Writing
    <2>5. view = Listed
      BY <2>1, <2>3 DEF LoadInv
    <2>6. view' = Listed'
      <3>1. \A t \in Suites : view'[t] = Listed'[t]
        BY <1>6, <2>5 DEF Listed
      <3> QED BY <1>6, <3>1 DEF Listed, Views
    <2>7. LoadInv'
      BY <1>1, <2>2, <2>3, <2>6 DEF LoadInv, Busy
    <2>8. HomeInv'
      BY <1>1, <1>6, <2>1, <2>4, LiveHome DEF HomeInv, TablesOK, IsLive
    <2>9. TriggerInv'
      <3>1. Rowed' = Rowed /\ (Single <=> Single')
        BY <1>1 DEF Rowed, Live, Single
      <3>2. Knows(dialog)'
        BY <1>1, <2>1, <3>1 DEF TriggerInv, Knows
      <3>3. \A q \in Ops : Clears(ops[q])'
        BY <2>2 DEF Clears, NoOp
      <3> QED BY <2>1, <3>1, <3>2, <3>3 DEF TriggerInv
    <2>10. DialogInv'
      BY <1>1, <1>4, <2>1 DEF DialogInv
    <2> QED BY <2>7, <2>8, <2>9, <2>10
  <1>9. \A t \in Triggers : Stays(t)
    BY <1>1 DEF Stays
  <1>10. dialog' \in Dialogs /\ Known(dialog') = Known(dialog)
    BY <1>1 DEF DialogOK
  <1> QED BY <1>1, <1>4, <1>5, <1>6, <1>8, <1>9, <1>10, AnswerStep DEF PageOK

LEMMA CreateOrDeleteFailsKeeps ==
  ASSUME IInv, NEW o \in Ops, CreateOrDeleteFails(o)
  PROVE  IInv'
  <1> USE DEF IInv, TypesOK
  <1>1. /\ ops[o].kind \in {"create", "delete"} /\ ops' = [ops EXCEPT ![o] = NoOp]
        /\ UNCHANGED <<triggers, view, loads, dialog, member, shown, uses, budget, asked>>
        /\ creating' \in BOOLEAN
    BY DEF CreateOrDeleteFails, PageOK
  <1>2. causes \subseteq causes' /\ causes' \subseteq Causes /\ ~Calm'
    BY FailureIs DEF CreateOrDeleteFails, PageOK
  <1>3. NoOp \in OpRecords /\ NoOp.kind = "none" /\ Settled(NoOp) /\ ~Broken(NoOp) /\ Busy(o)
    BY <1>1, OpsAre DEF NoOp, Settled, Broken, Busy
  <1>4. Agreed(NoOp)'
    BY <1>3 DEF Agreed, NoOp
  <1>5. rows' = rows \/ \E s \in Suites : rows' = [rows EXCEPT ![s].state = "live"]
                                       \/ rows' = [rows EXCEPT ![s].state = "gone"]
    <2>1. ops[o].kind = "delete" => ops[o].suite \in Suites
      BY OpKinds DEF OpsOK, DeleteOps
    <2> QED BY <2>1 DEF CreateOrDeleteFails
  <1>6. TablesOK'
    BY <1>1, <1>5 DEF TablesOK, Rows
  <1>7. \A t \in Triggers : Stays(t)
    BY <1>1 DEF Stays
  <1>8. dialog' \in Dialogs /\ Known(dialog') = Known(dialog)
    BY <1>1 DEF DialogOK
  <1> QED BY <1>1, <1>2, <1>3, <1>4, <1>6, <1>7, <1>8, AnswerStep DEF PageOK

-----------------------------------------------------------------------------
(* Answers to the dialog of runs *)

\* Rows are only deleted, or nothing happens to them.
Fewer == \A u \in Triggers : triggers'[u] = triggers[u] \/ triggers'[u] = "gone"

LEMMA FewerIs ==
  ASSUME TablesOK, triggers' \in [Triggers -> Kinds \cup {"none", "gone"}], Fewer
  PROVE  /\ \A u \in Triggers : Stays(u)
         /\ Rowed' \subseteq Rowed /\ (Single => Single')
         /\ \A k \in Kinds : Live(k)' \subseteq Live(k)
  <1>1. \A k \in Kinds : Live(k)' \subseteq Live(k)
    BY DEF Fewer, Live, Kinds
  <1>2. \A u \in Triggers : triggers'[u] \in Kinds => triggers'[u] = triggers[u]
    BY DEF Fewer, Kinds
  <1>3. Rowed' \subseteq Rowed
    <2>1. Rowed' = {<<u, triggers'[u]>> : u \in {v \in Triggers : triggers'[v] \in Kinds}}
      BY DEF Rowed, Live, Kinds
    <2>2. Rowed = {<<u, triggers[u]>> : u \in {v \in Triggers : triggers[v] \in Kinds}}
      BY DEF Rowed, Live, Kinds
    <2> QED BY <1>2, <2>1, <2>2
  <1>4. Single => Single'
    BY <1>2 DEF Single
  <1>5. \A u \in Triggers : Stays(u)
    BY DEF Fewer, Stays
  <1> QED BY <1>1, <1>3, <1>4, <1>5

LEMMA DeletedIs ==
  ASSUME TablesOK, NEW t \in Triggers, triggers' \in {triggers, Deleted(t)}
  PROVE  /\ triggers' \in [Triggers -> Kinds \cup {"none", "gone"}] /\ Fewer
         /\ triggers' = Deleted(t) => triggers'[t] = "gone"
  BY DEF TablesOK, Deleted, Fewer

LEMMA TriggerStep ==
  ASSUME IInv, NEW o \in Ops, NEW x \in OpRecords, ops[o].kind \in {"run", "drop"},
         x.kind \notin {"manage", "move"}, Settled(x), ops' = [ops EXCEPT ![o] = x],
         UNCHANGED <<rows, view, loads, creating, member, shown, budget, asked>>,
         triggers' \in [Triggers -> Kinds \cup {"none", "gone"}], \A t \in Triggers : Stays(t),
         causes \subseteq causes', causes' \subseteq Causes,
         dialog' \in Dialogs, Known(dialog') \subseteq Known(dialog),
         dialog'.kind = "manage" => dialog' = dialog,
         Agreed(x)',
         Calm' => Single' /\ Knows(dialog)' /\ Clears(x)'
  PROVE  IInv'
  <1> USE DEF IInv, TypesOK
  <1>1. Busy(o) /\ ~Writing(o) /\ ~Broken(x)
    BY DEF Busy, Writing, Broken, NoOp
  <1>2. TablesOK' /\ view' \in Views /\ creating' \in BOOLEAN
    BY DEF TablesOK, PageOK
  <1>3. ops'[o] = x /\ \A q \in Ops : q # o => ops'[q] = ops[q]
    BY DEF OpsOK
  <1>4. ASSUME Calm' PROVE TriggerInv' /\ LoadInv' /\ HomeInv' /\ DialogInv'
    <2>1. OneOp /\ TriggerInv /\ LoadInv /\ HomeInv /\ DialogInv
      BY <1>4, CalmIs DEF CalmInv
    <2>2. \A q \in Ops : q # o => ops'[q] = NoOp
      BY <1>1, <1>3, <2>1, AloneIs
    <2>3. \A q \in Ops : Clears(ops[q])'
      BY <1>3, <1>4, <2>2 DEF Clears, NoOp
    <2>4. TriggerInv'
      BY <1>4, <2>3 DEF TriggerInv
    <2>5. \A q \in Ops : ops'[q] = ops[q] \/ (~Writing(q) /\ ~Writing(q)')
      <3>1. ~Writing(o)'
        BY <1>3 DEF Writing
      <3>2. ~Writing(o)
        BY <1>1
      <3>3. \A q \in Ops : q = o \/ ops'[q] = ops[q]
        BY <1>3
      <3> QED BY <3>1, <3>2, <3>3
    <2>6. \A q \in Ops : Busy(q)' => Busy(q)
      BY <1>1, <1>3 DEF Busy
    <2>7. \A q \in Ops : Writing(q) => Writing(q)'
      BY <2>5 DEF Writing
    <2>8. LoadInv'
      BY <2>1, <2>6, <2>7, LoadKeeps
    <2>9. HomeInv'
      BY <2>1, <2>5, QueueKeeps, HomeKeeps
    <2>10. DialogInv'
      BY <1>1, <2>1 DEF DialogInv, Writing
    <2> QED BY <2>4, <2>8, <2>9, <2>10
  <1> QED BY <1>1, <1>2, <1>4, AnswerStep

\* The dialog is open or not when its answer comes.
LEMMA FreedIs ==
  ASSUME DialogOK, NEW o \in Ops
  PROVE  /\ Freed(o) \in Dialogs /\ Freed(o).kind = dialog.kind
         /\ dialog.kind = "run" => Freed(o).list = dialog.list /\ Freed(o).schedules = dialog.schedules
         /\ dialog.kind # "run" => Freed(o) = dialog
  <1>1. CASE dialog.kind = "run"
    <2>1. dialog \in RunDialogs
      BY <1>1, DialogKinds
    <2> QED BY <1>1, <2>1, DialogsAre DEF RunDialogs, Freed
  <1>2. CASE dialog.kind # "run"
    BY <1>2 DEF Freed, DialogOK
  <1> QED BY <1>1, <1>2

\* What the page knows survives when its dialog stays or closes and rows only go.
LEMMA FewerKnows ==
  ASSUME TablesOK, triggers' \in [Triggers -> Kinds \cup {"none", "gone"}], Fewer,
         Alike \/ dialog' = NoDialog
  PROVE  /\ Known(dialog') \subseteq Known(dialog)
         /\ Knows(dialog) => Knows(dialog)'
  BY FewerIs, AlikeIs DEF Alike, Known, Knows, NoDialog

LEMMA AgreedShrinks ==
  ASSUME IInv, NEW o \in Ops, NEW x \in RunOps, ops[o].kind = "run", x.drops \subseteq ops[o].drops,
         \A t \in Triggers : Stays(t), causes \subseteq causes', asked' = asked
  PROVE  Agreed(x)'
  <1>1. x.kind = "run"
    BY DEF RunOps
  <1>2. Agreed(ops[o])
    BY DEF IInv, AskedInv
  <1>3. ASSUME "tab" \notin causes', NEW t \in x.drops
        PROVE  t \in asked' \/ triggers'[t] \in {"push", "gone"}
    <2>1. t \in Triggers
      BY DEF RunOps
    <2>2. t \in asked \/ triggers[t] \in {"push", "gone"}
      BY <1>2, <1>3 DEF Agreed
    <2> QED BY <2>1, <2>2 DEF Stays
  <1> QED BY <1>1, <1>3 DEF Agreed

LEMMA DropDoneKeeps ==
  ASSUME IInv, NEW o \in Ops, DropDone(o)
  PROVE  IInv'
  <1> USE DEF IInv, TypesOK
  <1>1. /\ ops[o].kind = "drop" /\ ops' = [ops EXCEPT ![o] = NoOp] /\ causes' = causes
        /\ UNCHANGED <<rows, view, loads, creating, member, shown, budget, asked>>
    BY DEF DropDone, Calls, Rest
  <1>2. PICK t \in Triggers : t = ops[o].row
    BY <1>1, OpKinds DEF OpsOK, DropOps
  <1>3. triggers' = Deleted(t)
    BY <1>2 DEF DropDone
  <1>4. triggers' \in [Triggers -> Kinds \cup {"none", "gone"}] /\ Fewer /\ triggers'[t] = "gone"
    BY <1>3, DeletedIs
  <1>5. NoOp \in OpRecords /\ NoOp.kind = "none" /\ Settled(NoOp) /\ Clears(NoOp)' /\ Agreed(NoOp)'
    BY OpsAre DEF NoOp, Settled, Clears, Agreed
  <1>6. CASE dialog.kind = "run" /\ o \in dialog.drops
    <2>1. dialog \in RunDialogs
      BY <1>6, DialogKinds
    <2>2. dialog' = [dialog EXCEPT !.drops = @ \ {o}, !.schedules = {p \in @ : p[1] # t}]
      BY <1>2, <1>6 DEF DropDone
    <2>3. /\ dialog' \in RunDialogs /\ dialog'.kind = "run" /\ dialog'.list = dialog.list
          /\ dialog'.schedules = {p \in dialog.schedules : p[1] # t}
      BY <2>1, <2>2 DEF RunDialogs, Schedules
    <2>4. Known(dialog') \subseteq Known(dialog)
      BY <1>6, <2>3 DEF Known, Given
    <2>5. ASSUME Knows(dialog) PROVE Knows(dialog)'
      <3>1. Rowed' \subseteq Rowed /\ \A p \in Rowed' : p[1] # t
        <4>1. \A p \in Rowed' : p[1] \in Triggers /\ triggers'[p[1]] = p[2] /\ p[2] \in Kinds
          BY <1>4 DEF Rowed, Live
        <4> QED BY <1>4, <4>1, FewerIs DEF Kinds
      <3> QED BY <1>6, <2>3, <2>5, <3>1 DEF Knows
    <2> QED BY <1>1, <1>4, <1>5, <2>3, <2>4, <2>5, FewerIs, CalmIs, DialogsAre, TriggerStep
            DEF PageOK, CalmInv, TriggerInv
  <1>7. CASE ~(dialog.kind = "run" /\ o \in dialog.drops)
    <2>1. dialog' = dialog /\ Alike
      BY <1>7 DEF DropDone, Alike
    <2> QED BY <1>1, <1>4, <1>5, <2>1, FewerIs, FewerKnows, CalmIs, TriggerStep
            DEF PageOK, DialogOK, CalmInv, TriggerInv
  <1> QED BY <1>6, <1>7

LEMMA DropFailsKeeps ==
  ASSUME IInv, NEW o \in Ops, DropFails(o)
  PROVE  IInv'
  <1> USE DEF IInv, TypesOK
  <1>1. /\ ops[o].kind = "drop" /\ ops' = [ops EXCEPT ![o] = NoOp]
        /\ UNCHANGED <<rows, view, loads, creating, member, shown, budget, asked>>
    BY DEF DropFails, Calls, Rest
  <1>2. PICK t \in Triggers : t = ops[o].row
    BY <1>1, OpKinds DEF OpsOK, DropOps
  <1>3. triggers' \in {triggers, Deleted(t)} /\ (causes' = causes \/ Failure)
    BY <1>2 DEF DropFails
  <1>4. causes \subseteq causes' /\ causes' \subseteq Causes
    BY <1>3, FailureIs DEF PageOK
  <1>5. triggers' \in [Triggers -> Kinds \cup {"none", "gone"}] /\ Fewer
    BY <1>3, DeletedIs
  <1>6. NoOp \in OpRecords /\ NoOp.kind = "none" /\ Settled(NoOp) /\ Clears(NoOp)' /\ Agreed(NoOp)'
    BY OpsAre DEF NoOp, Settled, Clears, Agreed
  <1>7. dialog' \in Dialogs /\ Alike /\ (dialog'.kind = "manage" => dialog' = dialog)
    <2>1. CASE dialog.kind = "run"
      <3>1. dialog \in RunDialogs /\ dialog' = [dialog EXCEPT !.drops = @ \ {o}]
        BY <2>1, DialogKinds DEF DropFails
      <3> QED BY <2>1, <3>1, DialogsAre DEF RunDialogs, Alike
    <2>2. CASE dialog.kind # "run"
      BY <2>2 DEF DropFails, DialogOK, Alike
    <2> QED BY <2>1, <2>2
  <1> QED BY <1>1, <1>4, <1>5, <1>6, <1>7, FewerIs, FewerKnows, CalmIs, TriggerStep
          DEF CalmInv, TriggerInv

LEMMA ReplaceDoneKeeps ==
  ASSUME IInv, NEW o \in Ops, NEW t \in Triggers, ReplaceDone(o, t)
  PROVE  IInv'
  <1> USE DEF IInv, TypesOK
  <1>1. /\ ops[o].kind = "run" /\ t \in ops[o].drops /\ triggers' = Deleted(t) /\ causes' = causes
        /\ UNCHANGED <<rows, view, loads, creating, member, shown, budget, asked, dialog>>
    BY DEF ReplaceDone, Calls, Rest
  <1>2. ops[o] \in RunOps /\ Settled(ops[o])
    BY <1>1, OpKinds DEF OpsOK
  <1>3. triggers' \in [Triggers -> Kinds \cup {"none", "gone"}] /\ Fewer /\ triggers'[t] = "gone"
    BY <1>1, DeletedIs
  <1>4. dialog' \in Dialogs /\ Alike
    BY <1>1 DEF DialogOK, Alike
  <1>5. CASE ops[o].bad /\ ops[o].drops = {t}
    <2>1. ops' = [ops EXCEPT ![o] = NoOp]
      BY <1>5 DEF ReplaceDone
    <2>2. NoOp \in OpRecords /\ NoOp.kind = "none" /\ Settled(NoOp) /\ Clears(NoOp)' /\ Agreed(NoOp)'
      BY OpsAre DEF NoOp, Settled, Clears, Agreed
    <2> QED BY <1>1, <1>3, <1>4, <2>1, <2>2, FewerIs, FewerKnows, CalmIs, TriggerStep
            DEF PageOK, CalmInv, TriggerInv
  <1>6. CASE ~(ops[o].bad /\ ops[o].drops = {t})
    <2>1. PICK x : x = [ops[o] EXCEPT !.drops = @ \ {t}]
      OBVIOUS
    <2>2. ops' = [ops EXCEPT ![o] = x]
      BY <1>6, <2>1 DEF ReplaceDone
    <2>3. /\ x \in RunOps /\ x.kind = "run" /\ x.mode = ops[o].mode /\ x.bad = ops[o].bad
          /\ x.drops = ops[o].drops \ {t}
      BY <1>2, <2>1 DEF RunOps
    <2>4. x \in OpRecords /\ Settled(x)
      BY <1>1, <1>6, <2>3, OpsAre DEF Settled
    <2>5. Agreed(x)'
      BY <1>1, <1>3, <2>3, FewerIs, AgreedShrinks
    <2>6. Clears(ops[o]) => Clears(x)'
      <3>1. \A k \in Kinds : Live(k)' \subseteq Live(k) \ {t}
        BY <1>3, FewerIs DEF Live, Kinds
      <3> QED BY <1>1, <2>3, <3>1 DEF Clears
    <2> QED BY <1>1, <1>3, <1>4, <2>2, <2>3, <2>4, <2>5, <2>6, FewerIs, FewerKnows, CalmIs, TriggerStep
            DEF PageOK, CalmInv, TriggerInv
  <1> QED BY <1>5, <1>6

LEMMA ReplaceFailsKeeps ==
  ASSUME IInv, NEW o \in Ops, NEW t \in Triggers, ReplaceFails(o, t)
  PROVE  IInv'
  <1> USE DEF IInv, TypesOK
  <1>1. /\ ops[o].kind = "run" /\ t \in ops[o].drops /\ dialog' = Freed(o)
        /\ triggers' \in {triggers, Deleted(t)} /\ (causes' = causes \/ Failure)
        /\ UNCHANGED <<rows, view, loads, creating, member, shown, budget, asked>>
    BY DEF ReplaceFails, Calls, Rest
  <1>2. ops[o] \in RunOps
    BY <1>1, OpKinds DEF OpsOK
  <1>3. triggers' \in [Triggers -> Kinds \cup {"none", "gone"}] /\ Fewer
    BY <1>1, DeletedIs
  <1>4. dialog' \in Dialogs /\ Alike /\ (dialog'.kind = "manage" => dialog' = dialog)
    BY <1>1, FreedIs DEF Alike
  <1>5. causes \subseteq causes' /\ causes' \subseteq Causes
    BY <1>1, FailureIs DEF PageOK
  <1>6. CASE ops[o].drops = {t}
    <2>1. ops' = [ops EXCEPT ![o] = NoOp]
      BY <1>6 DEF ReplaceFails
    <2>2. NoOp \in OpRecords /\ NoOp.kind = "none" /\ Settled(NoOp) /\ Clears(NoOp)' /\ Agreed(NoOp)'
      BY OpsAre DEF NoOp, Settled, Clears, Agreed
    <2> QED BY <1>1, <1>3, <1>4, <1>5, <2>1, <2>2, FewerIs, FewerKnows, CalmIs, TriggerStep
            DEF CalmInv, TriggerInv
  <1>7. CASE ops[o].drops # {t}
    <2>1. PICK x : x = [ops[o] EXCEPT !.drops = @ \ {t}, !.bad = TRUE]
      OBVIOUS
    <2>2. ops' = [ops EXCEPT ![o] = x]
      BY <1>7, <2>1 DEF ReplaceFails
    <2>3. x \in RunOps /\ x.kind = "run" /\ x.bad /\ x.drops = ops[o].drops \ {t}
      BY <1>2, <2>1 DEF RunOps
    <2>4. x \in OpRecords /\ Settled(x) /\ Clears(x)'
      BY <1>1, <1>7, <2>3, OpsAre DEF Settled, Clears
    <2>5. Agreed(x)'
      BY <1>1, <1>3, <1>5, <2>3, FewerIs, AgreedShrinks
    <2> QED BY <1>1, <1>3, <1>4, <1>5, <2>2, <2>3, <2>4, <2>5, FewerIs, FewerKnows, CalmIs, TriggerStep
            DEF CalmInv, TriggerInv
  <1> QED BY <1>6, <1>7

\* A row of a kind that has none.
LEMMA CreatedIs ==
  ASSUME TablesOK, NEW k \in Kinds, triggers' \in Created(k)
  PROVE  /\ triggers' \in [Triggers -> Kinds \cup {"none", "gone"}]
         /\ \A t \in Triggers : Stays(t)
         /\ Single /\ Live(k) = {} => Single'
  <1>1. PICK t \in Triggers : triggers[t] = "none" /\ triggers' = [triggers EXCEPT ![t] = k]
    BY DEF Created, Live
  <1>2. \A u \in Triggers : triggers'[u] = IF u = t THEN k ELSE triggers[u]
    BY <1>1 DEF TablesOK
  <1>3. triggers' \in [Triggers -> Kinds \cup {"none", "gone"}]
    BY <1>1 DEF TablesOK
  <1>4. \A u \in Triggers : Stays(u)
    BY <1>1, <1>2 DEF Stays
  <1>5. Single /\ Live(k) = {} => Single'
    BY <1>2 DEF Single, Live
  <1> QED BY <1>3, <1>4, <1>5

LEMMA SaveDoneKeeps ==
  ASSUME IInv, NEW o \in Ops, SaveDone(o)
  PROVE  IInv'
  <1> USE DEF IInv, TypesOK
  <1>1. /\ ops[o].kind = "run" /\ ops[o].drops = {} /\ ~ops[o].bad /\ ops[o].mode \in Kinds
        /\ triggers' \in Created(ops[o].mode) /\ ops' = [ops EXCEPT ![o] = NoOp]
        /\ dialog' = Closed("run") /\ causes' = causes
        /\ UNCHANGED <<rows, view, loads, creating, member, shown, budget, asked>>
    BY DEF SaveDone, Saving, Calls, Rest
  <1>2. /\ triggers' \in [Triggers -> Kinds \cup {"none", "gone"}]
        /\ \A t \in Triggers : Stays(t)
        /\ Single /\ Live(ops[o].mode) = {} => Single'
    BY <1>1, CreatedIs
  <1>3. Clears(ops[o]) => Live(ops[o].mode) = {}
    BY <1>1 DEF Clears
  <1>4. NoOp \in OpRecords /\ NoOp.kind = "none" /\ Settled(NoOp) /\ Clears(NoOp)' /\ Agreed(NoOp)'
    BY OpsAre DEF NoOp, Settled, Clears, Agreed
  <1>5. /\ dialog' \in Dialogs /\ Known(dialog') \subseteq Known(dialog) /\ Knows(dialog)'
        /\ dialog'.kind = "manage" => dialog' = dialog
    BY <1>1, DialogsAre DEF Closed, Known, Knows, NoDialog, DialogOK
  <1> QED BY <1>1, <1>2, <1>3, <1>4, <1>5, CalmIs, TriggerStep DEF PageOK, CalmInv, TriggerInv

LEMMA RunDoneKeeps ==
  ASSUME IInv, NEW o \in Ops, RunDone(o)
  PROVE  IInv'
  <1> USE DEF IInv, TypesOK
  <1>1. /\ ops[o].kind = "run" /\ ops' = [ops EXCEPT ![o] = NoOp] /\ dialog' = NoDialog
        /\ causes' = causes /\ triggers' = triggers
        /\ UNCHANGED <<rows, view, loads, creating, member, shown, budget, asked>>
    BY DEF RunDone, Saving
  <1>2. triggers' \in [Triggers -> Kinds \cup {"none", "gone"}] /\ Fewer
    BY <1>1 DEF Fewer, TablesOK
  <1>3. NoOp \in OpRecords /\ NoOp.kind = "none" /\ Settled(NoOp) /\ Clears(NoOp)' /\ Agreed(NoOp)'
    BY OpsAre DEF NoOp, Settled, Clears, Agreed
  <1>4. dialog' \in Dialogs /\ dialog'.kind = "none"
    BY <1>1, DialogsAre DEF NoDialog
  <1> QED BY <1>1, <1>2, <1>3, <1>4, FewerIs, FewerKnows, CalmIs, TriggerStep DEF PageOK, CalmInv, TriggerInv

LEMMA SaveFailsKeeps ==
  ASSUME IInv, NEW o \in Ops, SaveFails(o)
  PROVE  IInv'
  <1> USE DEF IInv, TypesOK
  <1>1. /\ ops[o].kind = "run" /\ ops' = [ops EXCEPT ![o] = NoOp] /\ dialog' = Freed(o)
        /\ UNCHANGED <<rows, view, loads, creating, member, shown, budget, asked>>
    BY DEF SaveFails, Saving, Calls, Rest
  <1>2. NoOp \in OpRecords /\ NoOp.kind = "none" /\ Settled(NoOp) /\ Clears(NoOp)' /\ Agreed(NoOp)'
    BY OpsAre DEF NoOp, Settled, Clears, Agreed
  <1>3. dialog' \in Dialogs /\ Alike /\ (dialog'.kind = "manage" => dialog' = dialog)
    BY <1>1, FreedIs DEF Alike
  <1>4. CASE triggers' = triggers /\ (causes' = causes \/ Failure)
    <2>1. triggers' \in [Triggers -> Kinds \cup {"none", "gone"}] /\ Fewer
      BY <1>4 DEF Fewer, TablesOK
    <2>2. causes \subseteq causes' /\ causes' \subseteq Causes
      BY <1>4, FailureIs DEF PageOK
    <2> QED BY <1>1, <1>2, <1>3, <2>1, <2>2, FewerIs, FewerKnows, CalmIs, TriggerStep
            DEF CalmInv, TriggerInv
  <1>5. CASE Failure /\ ops[o].mode \in Kinds /\ triggers' \in Created(ops[o].mode)
    <2>1. triggers' \in [Triggers -> Kinds \cup {"none", "gone"}] /\ \A t \in Triggers : Stays(t)
      BY <1>5, CreatedIs
    <2>2. causes \subseteq causes' /\ causes' \subseteq Causes /\ ~Calm'
      BY <1>5, FailureIs DEF PageOK
    <2> QED BY <1>1, <1>2, <1>3, <2>1, <2>2, AlikeIs, TriggerStep
  <1> QED BY <1>4, <1>5 DEF SaveFails

-----------------------------------------------------------------------------
(* Loading and the other tab *)

LEMMA LoadStep ==
  ASSUME IInv, UNCHANGED <<rows, triggers, dialog, creating, ops, member, shown, budget, asked>>,
         causes \subseteq causes', causes' \subseteq Causes,
         view' \in Views, loads' \in [Loads -> Views \cup {Asked, Absent}],
         Calm' => /\ LoadInv'
                  /\ \A l \in Loads : loads'[l] # Absent => loads[l] # Absent
                  /\ view' = view \/ \E l \in Loads : loads[l] # Absent
  PROVE  IInv'
  <1> USE DEF IInv
  <1>1. TypesOK'
    BY DEF TypesOK, TablesOK, PageOK, DialogOK, OpsOK, OtherOK, Settled
  <1>2. BusyInv'
    BY BusyKeeps DEF Busy
  <1>3. \A t \in Triggers : Stays(t)
    BY DEF Stays
  <1>4. AskedInv'
    BY <1>3, AskedKeeps DEF TypesOK
  <1>5. TabInv'
    BY TabKeeps
  <1>6. ASSUME Calm' PROVE OneOp' /\ TriggerInv' /\ LoadInv' /\ HomeInv' /\ DialogInv'
    <2>1. OneOp /\ TriggerInv /\ HomeInv /\ DialogInv
      BY <1>6, CalmIs DEF CalmInv
    <2>2. OneOp'
      BY <2>1, OneOpKeeps DEF Busy
    <2>3. HomeInv'
      <3>1. Queue' = Queue
        BY DEF Queue, Writing
      <3> QED BY <2>1, <3>1, HomeKeeps
    <2>4. TriggerInv'
      <3>1. Rowed' = Rowed /\ (Single <=> Single')
        BY DEF Rowed, Live, Single
      <3>2. \A o \in Ops : Clears(ops[o])'
        BY <2>1 DEF TriggerInv, Clears, Live
      <3>3. Knows(dialog)'
        BY <2>1, <3>1 DEF TriggerInv, Knows
      <3> QED BY <2>1, <3>1, <3>2, <3>3 DEF TriggerInv
    <2>5. DialogInv'
      BY <1>6, <2>1 DEF DialogInv, Busy
    <2> QED BY <1>6, <2>2, <2>3, <2>4, <2>5
  <1> QED BY <1>1, <1>2, <1>4, <1>5, <1>6 DEF CalmInv

LEMMA ListedIs ==
  ASSUME TablesOK
  PROVE  Listed \in Views
  BY DEF TablesOK, Rows, Listed, Views

LEMMA LoadReadKeeps ==
  ASSUME IInv, NEW l \in Loads, LoadRead(l)
  PROVE  IInv'
  <1> USE DEF IInv, TypesOK
  <1>1. /\ loads[l] = Asked /\ loads' = [loads EXCEPT ![l] = Listed]
        /\ UNCHANGED <<rows, triggers, view, dialog, creating, ops, member, shown, budget, asked, causes>>
    BY DEF LoadRead
  <1>2. loads' \in [Loads -> Views \cup {Asked, Absent}] /\ view' \in Views
    BY <1>1, ListedIs DEF PageOK
  <1>3. \A m \in Loads : loads'[m] = IF m = l THEN Listed ELSE loads[m]
    BY <1>1 DEF PageOK
  <1>4. Listed # Absent /\ Asked # Absent
    BY ListedIs, AbsentAssumption
  <1>5. ASSUME Calm' PROVE LoadInv'
    <2>1. LoadInv
      BY <1>1, <1>5, CalmIs DEF CalmInv
    <2>2. Listed' = Listed
      BY <1>1 DEF Listed
    <2> QED BY <1>1, <1>3, <1>4, <2>1, <2>2 DEF LoadInv, Busy, Writing
  <1>6. \A m \in Loads : loads'[m] # Absent => loads[m] # Absent
    BY <1>1, <1>3, <1>4
  <1> QED BY <1>1, <1>2, <1>5, <1>6, LoadStep DEF PageOK

LEMMA LoadArrivesKeeps ==
  ASSUME IInv, NEW l \in Loads, LoadArrives(l)
  PROVE  IInv'
  <1> USE DEF IInv, TypesOK
  <1>1. /\ loads[l] \notin {Asked, Absent} /\ view' = loads[l] /\ loads' = [loads EXCEPT ![l] = Absent]
        /\ UNCHANGED <<rows, triggers, dialog, creating, ops, member, shown, budget, asked, causes>>
    BY DEF LoadArrives
  <1>2. loads' \in [Loads -> Views \cup {Asked, Absent}] /\ view' \in Views
    BY <1>1 DEF PageOK
  <1>3. \A m \in Loads : loads'[m] = IF m = l THEN Absent ELSE loads[m]
    BY <1>1 DEF PageOK
  <1>4. ASSUME Calm' PROVE LoadInv'
    <2>1. LoadInv
      BY <1>1, <1>4, CalmIs DEF CalmInv
    <2>2. Listed' = Listed
      BY <1>1 DEF Listed
    <2>3. \A m \in Loads : loads'[m] = Absent
      BY <1>1, <1>3, <2>1 DEF LoadInv
    <2>4. view' = Listed'
      BY <1>1, <2>1, <2>2 DEF LoadInv
    <2> QED BY <2>3, <2>4 DEF LoadInv
  <1> QED BY <1>1, <1>2, <1>3, <1>4, LoadStep DEF PageOK

LEMMA LoadFailsKeeps ==
  ASSUME IInv, NEW l \in Loads, LoadFails(l)
  PROVE  IInv'
  <1>1. /\ loads' = [loads EXCEPT ![l] = Absent] /\ Failure
        /\ UNCHANGED <<rows, triggers, view, dialog, creating, ops, member, shown, budget, asked>>
    BY DEF LoadFails
  <1>2. causes \subseteq causes' /\ causes' \subseteq Causes /\ ~Calm'
    BY <1>1, FailureIs DEF IInv, TypesOK, PageOK
  <1>3. loads' \in [Loads -> Views \cup {Asked, Absent}] /\ view' \in Views
    BY <1>1 DEF IInv, TypesOK, PageOK
  <1> QED BY <1>1, <1>2, <1>3, LoadStep

\* A step of the other tab leaves the page as it is.
LEMMA TabStep ==
  ASSUME IInv, UNCHANGED Page, rows' \in [Suites -> Rows],
         triggers' \in [Triggers -> Kinds \cup {"none", "gone"}],
         member' \in [Cases -> {Absent} \cup Members], shown' \in [suite: Suites, ids: SUBSET Cases],
         budget' \in Nat, causes \subseteq causes', causes' \subseteq Causes,
         \/ "tab" \in causes'
         \/ UNCHANGED <<rows, triggers, causes>> /\ \A c \in Cases : member[c] = Absent /\ member'[c] = Absent,
         TabInv'
  PROVE  IInv'
  <1> USE DEF IInv, Page
  <1>1. TypesOK'
    BY DEF TypesOK, TablesOK, PageOK, DialogOK, OpsOK, OtherOK, Settled
  <1>2. BusyInv'
    BY BusyKeeps DEF Busy
  <1>3. AskedInv'
    <2>1. "tab" \notin causes' => \A t \in Triggers : Stays(t)
      BY DEF Stays
    <2> QED BY <2>1, AskedKeeps DEF TypesOK
  <1>4. ASSUME Calm' PROVE OneOp' /\ TriggerInv' /\ LoadInv' /\ HomeInv' /\ DialogInv'
    <2>1. UNCHANGED <<rows, triggers, causes>>
      BY <1>4, CalmIs
    <2>2. OneOp /\ TriggerInv /\ LoadInv /\ HomeInv /\ DialogInv
      BY <1>4, CalmIs DEF CalmInv
    <2>3. OneOp' /\ LoadInv'
      BY <2>1, <2>2, OneOpKeeps, LoadKeeps DEF Busy, Writing
    <2>4. HomeInv'
      <3>1. Queue' = Queue
        BY DEF Queue, Writing
      <3> QED BY <2>1, <2>2, <3>1, HomeKeeps
    <2>5. TriggerInv'
      <3>1. Rowed' = Rowed /\ (Single <=> Single')
        BY <2>1 DEF Rowed, Live, Single
      <3>2. \A o \in Ops : Clears(ops[o])'
        BY <2>1, <2>2 DEF TriggerInv, Clears, Live
      <3>3. Knows(dialog)'
        BY <2>2, <3>1 DEF TriggerInv, Knows
      <3> QED BY <2>2, <3>1, <3>2, <3>3 DEF TriggerInv
    <2>6. DialogInv'
      BY <2>2 DEF DialogInv, Busy
    <2> QED BY <2>3, <2>4, <2>5, <2>6
  <1> QED BY <1>1, <1>2, <1>3, <1>4 DEF CalmInv

LEMMA MemberCauses ==
  ASSUME IInv, NEW c \in Cases, member[c] # Absent
  PROVE  "tab" \in causes /\ member[c] \in Members
  BY DEF IInv, TypesOK, OtherOK, BusyInv

LEMMA TabLoadKeeps ==
  ASSUME IInv, TabLoad
  PROVE  IInv'
  <1> USE DEF IInv, TypesOK
  <1>1. /\ \A c \in Cases : member[c] = Absent
        /\ shown' = [shown EXCEPT !.ids = Here]
        /\ UNCHANGED Page /\ UNCHANGED <<budget, rows, triggers, member, causes>>
    BY DEF TabLoad, Here
  <1>2. shown.suite \in Suites /\ Here \in SUBSET Cases
    BY DEF OtherOK, TablesOK, Rows, Here
  <1>3. shown' \in [suite: Suites, ids: SUBSET Cases] /\ shown'.suite = shown.suite /\ shown'.ids = Here
    BY <1>1, <1>2 DEF OtherOK
  <1>4. TabInv'
    BY <1>1, <1>3 DEF TabInv, Here
  <1> QED BY <1>1, <1>3, <1>4, TabStep DEF TablesOK, OtherOK, PageOK

LEMMA AskMemberKeeps ==
  ASSUME IInv, NEW c \in Cases, AskMember(c)
  PROVE  IInv'
  <1> USE DEF IInv, TypesOK
  <1>1. /\ budget > 0 /\ budget' = budget - 1 /\ member[c] = Absent
        /\ member' = [member EXCEPT ![c] = [op |-> Offered(c), step |-> "read", ids |-> {}]]
        /\ causes' = causes \cup {"tab"} \cup
              (IF \A d \in Cases: member[d] = Absent THEN {} ELSE {"overlap"})
        /\ UNCHANGED Page /\ UNCHANGED <<rows, triggers, shown>>
    BY DEF AskMember, Tab
  <1>2. [op |-> Offered(c), step |-> "read", ids |-> {}] \in Members
    BY DEF Offered, Members
  <1>3. causes \subseteq causes' /\ causes' \subseteq Causes /\ "tab" \in causes' /\ budget' \in Nat
    BY <1>1 DEF PageOK, Causes
  <1>4. member' \in [Cases -> {Absent} \cup Members]
    BY <1>1, <1>2 DEF OtherOK
  <1>5. ASSUME causes' \subseteq {"tab"}
        PROVE  /\ \A d \in Cases : member[d] = Absent
               /\ \A d \in Cases : d # c => member'[d] = Absent
               /\ member'[c].step = "read"
    <2>1. \A d \in Cases : member[d] = Absent
      BY <1>1, <1>5
    <2> QED BY <1>1, <2>1 DEF OtherOK
  <1>6. TabInv'
    BY <1>1, <1>3, <1>5 DEF TabInv, Here
  <1> QED BY <1>1, <1>3, <1>4, <1>6, TabStep DEF TablesOK, OtherOK, PageOK

LEMMA MemberReadKeeps ==
  ASSUME IInv, NEW c \in Cases, MemberRead(c)
  PROVE  IInv'
  <1> USE DEF IInv, TypesOK
  <1>1. /\ member[c] # Absent /\ member[c].step = "read"
        /\ UNCHANGED Page /\ UNCHANGED <<budget, rows, triggers, shown, causes>>
    BY DEF MemberRead
  <1>2. "tab" \in causes /\ member[c] \in Members
    BY <1>1, MemberCauses
  <1>3. PICK x : /\ x \in {Absent} \cup Members
                 /\ member' = [member EXCEPT ![c] = x]
                 /\ x # Absent => x.step # "answer"
    <2>1. Here \in SUBSET Cases
      BY DEF OtherOK, TablesOK, Rows, Here
    <2>2. /\ [member[c] EXCEPT !.step = "write", !.ids = Here \ {c}] \in Members
          /\ [member[c] EXCEPT !.step = "write", !.ids = Here \ {c}].step = "write"
          /\ [member[c] EXCEPT !.step = "write", !.ids = Here \cup {c}] \in Members
          /\ [member[c] EXCEPT !.step = "write", !.ids = Here \cup {c}].step = "write"
      BY <1>2, <2>1 DEF Members
    <2>3. \/ member' = [member EXCEPT ![c] = [member[c] EXCEPT !.step = "write", !.ids = Here \ {c}]]
          \/ member' = [member EXCEPT ![c] = Absent]
          \/ member' = [member EXCEPT ![c] = [member[c] EXCEPT !.step = "write", !.ids = Here \cup {c}]]
      BY DEF MemberRead, Here
    <2> QED BY <2>2, <2>3
  <1>4. member' \in [Cases -> {Absent} \cup Members]
    BY <1>3 DEF OtherOK
  <1>5. \A d \in Cases : member'[d] = IF d = c THEN x ELSE member[d]
    BY <1>3 DEF OtherOK
  <1>6. TabInv'
    <2> SUFFICES ASSUME causes' \subseteq {"tab"} PROVE TabInv'
      BY DEF TabInv
    <2>1. causes \subseteq {"tab"} /\ Here' = Here
      BY <1>1 DEF Here
    <2>2. \A d \in Cases : d # c => member[d] = Absent
      BY <1>1, <2>1 DEF TabInv
    <2>3. shown.ids = Here
      BY <1>1, <2>1, <2>2 DEF TabInv
    <2> QED BY <1>1, <1>3, <1>5, <2>1, <2>2, <2>3 DEF TabInv
  <1> QED BY <1>1, <1>2, <1>4, <1>6, TabStep DEF TablesOK, OtherOK, PageOK

LEMMA MemberWriteKeeps ==
  ASSUME IInv, NEW c \in Cases, MemberWrite(c)
  PROVE  IInv'
  <1> USE DEF IInv, TypesOK
  <1>1. /\ member[c] # Absent /\ member[c].step = "write"
        /\ rows' = [rows EXCEPT ![shown.suite].ids = member[c].ids]
        /\ member' = [member EXCEPT ![c].step = "answer"]
        /\ UNCHANGED Page /\ UNCHANGED <<budget, triggers, shown, causes>>
    BY DEF MemberWrite
  <1>2. "tab" \in causes /\ member[c] \in Members
    BY <1>1, MemberCauses
  <1>3. /\ rows' \in [Suites -> Rows] /\ Here' = member[c].ids
    BY <1>1, <1>2 DEF TablesOK, OtherOK, Rows, Members, Here
  <1>4. PICK x \in Members : /\ member' = [member EXCEPT ![c] = x]
                             /\ x.step = "answer" /\ x.ids = member[c].ids
    <2>1. /\ [member[c] EXCEPT !.step = "answer"] \in Members
          /\ [member[c] EXCEPT !.step = "answer"].step = "answer"
          /\ [member[c] EXCEPT !.step = "answer"].ids = member[c].ids
      BY <1>2 DEF Members
    <2>2. member' = [member EXCEPT ![c] = [member[c] EXCEPT !.step = "answer"]]
      BY <1>1
    <2> QED BY <2>1, <2>2
  <1>5. member' \in [Cases -> {Absent} \cup Members]
    BY <1>4 DEF OtherOK
  <1>6. \A d \in Cases : member'[d] = IF d = c THEN x ELSE member[d]
    BY <1>4 DEF OtherOK
  <1>7. x # Absent
    BY AbsentAssumption
  <1>8. TabInv'
    <2> SUFFICES ASSUME causes' \subseteq {"tab"} PROVE TabInv'
      BY DEF TabInv
    <2>1. causes \subseteq {"tab"}
      BY <1>1
    <2>2. \A d \in Cases : d # c => member[d] = Absent
      BY <1>1, <2>1 DEF TabInv
    <2> QED BY <1>3, <1>4, <1>6, <1>7, <2>2 DEF TabInv
  <1> QED BY <1>1, <1>2, <1>3, <1>5, <1>8, TabStep DEF TablesOK, OtherOK, PageOK

LEMMA MemberAnswerKeeps ==
  ASSUME IInv, NEW c \in Cases, MemberAnswer(c)
  PROVE  IInv'
  <1> USE DEF IInv, TypesOK
  <1>1. /\ member[c] # Absent /\ member[c].step = "answer"
        /\ shown' = [shown EXCEPT !.ids = member[c].ids] /\ member' = [member EXCEPT ![c] = Absent]
        /\ UNCHANGED Page /\ UNCHANGED <<budget, rows, triggers, causes>>
    BY DEF MemberAnswer
  <1>2. "tab" \in causes /\ member[c] \in Members
    BY <1>1, MemberCauses
  <1>3. /\ shown' \in [suite: Suites, ids: SUBSET Cases]
        /\ shown'.suite = shown.suite /\ shown'.ids = member[c].ids
    BY <1>1, <1>2 DEF OtherOK, Members
  <1>4. /\ member' \in [Cases -> {Absent} \cup Members]
        /\ \A d \in Cases : member'[d] = IF d = c THEN Absent ELSE member[d]
    BY <1>1 DEF OtherOK
  <1>5. TabInv'
    <2> SUFFICES ASSUME causes' \subseteq {"tab"} PROVE TabInv'
      BY DEF TabInv
    <2>1. causes \subseteq {"tab"} /\ Here' = Here
      BY <1>1, <1>3 DEF Here
    <2>2. \A d \in Cases : d # c => member[d] = Absent
      BY <1>1, <2>1 DEF TabInv
    <2>3. member[c].ids = Here
      BY <1>1, <2>1 DEF TabInv
    <2> QED BY <1>3, <1>4, <2>1, <2>2, <2>3 DEF TabInv
  <1> QED BY <1>1, <1>2, <1>3, <1>4, <1>5, TabStep DEF TablesOK, OtherOK, PageOK

LEMMA MemberFailsKeeps ==
  ASSUME IInv, NEW c \in Cases, MemberFails(c)
  PROVE  IInv'
  <1> USE DEF IInv, TypesOK
  <1>1. /\ member[c] # Absent /\ member' = [member EXCEPT ![c] = Absent] /\ Failure
        /\ UNCHANGED Page /\ UNCHANGED <<budget, rows, triggers, shown>>
    BY DEF MemberFails
  <1>2. causes \subseteq causes' /\ causes' \subseteq Causes /\ "failure" \in causes' /\ "tab" \in causes'
    BY <1>1, FailureIs, MemberCauses DEF PageOK
  <1>3. member' \in [Cases -> {Absent} \cup Members]
    BY <1>1 DEF OtherOK
  <1>4. TabInv'
    BY <1>2 DEF TabInv
  <1> QED BY <1>1, <1>2, <1>3, <1>4, TabStep DEF TablesOK, OtherOK, PageOK

LEMMA TabScheduleKeeps ==
  ASSUME IInv, TabSchedule
  PROVE  IInv'
  <1> USE DEF IInv, TypesOK
  <1>1. /\ budget > 0 /\ budget' = budget - 1 /\ causes' = Wrote("tab") /\ SetSchedule
        /\ UNCHANGED Page /\ UNCHANGED <<rows, member, shown>>
    BY DEF TabSchedule, Tab
  <1>2. causes \subseteq causes' /\ causes' \subseteq Causes /\ "tab" \in causes' /\ budget' \in Nat
    <2>1. budget' \in Nat
      BY <1>1 DEF PageOK
    <2>2. causes \subseteq causes' /\ "tab" \in causes'
      BY <1>1, HurriedIs
    <2>3. causes' \subseteq Causes
      BY <1>1, HurriedIs DEF PageOK, Causes
    <2> QED BY <2>1, <2>2, <2>3
  <1>3. triggers' \in [Triggers -> Kinds \cup {"none", "gone"}]
    <2>1. "cron" \in Kinds
      BY DEF Kinds
    <2>2. CASE \E t \in UNION {Live(k) : k \in Kinds} : triggers' = [triggers EXCEPT ![t] = "cron"]
      BY <2>1, <2>2 DEF TablesOK, Live
    <2>3. CASE triggers' \in Created("cron")
      BY <2>1, <2>3, CreatedIs
    <2> QED BY <1>1, <2>2, <2>3 DEF SetSchedule
  <1>4. TabInv'
    BY <1>1, <1>2, TabKeeps
  <1> QED BY <1>1, <1>2, <1>3, <1>4, TabStep DEF TablesOK, OtherOK

-----------------------------------------------------------------------------
(* The theorems *)

\* Finite sets with one member at most.
LEMMA OneAtMost ==
  ASSUME NEW S, IsFiniteSet(S)
  PROVE  Cardinality(S) <= 1 <=> \A i, j \in S : i = j
  <1>1. ASSUME Cardinality(S) <= 1 PROVE \A i, j \in S : i = j
    <2>1. Cardinality(S) \in Nat
      BY FS_CardinalityType
    <2>2. S = {} \/ \E x : S = {x}
      BY <1>1, <2>1, FS_EmptySet, FS_Singleton
    <2> QED BY <2>2
  <1>2. ASSUME \A i, j \in S : i = j PROVE Cardinality(S) <= 1
    <2>1. CASE S = {}
      BY <2>1, FS_EmptySet
    <2>2. CASE S # {}
      <3>1. PICK i \in S : TRUE
        BY <2>2
      <3>2. \A j \in S : j = i
        BY <1>2, <3>1
      <3>3. S = {i}
        BY <3>1, <3>2, Zenon
      <3> QED BY <3>3, FS_Singleton
    <2> QED BY <2>1, <2>2
  <1> QED BY <1>1, <1>2

LEMMA SingleIs == Single <=> \A k \in Kinds : Cardinality(Live(k)) <= 1
  <1>1. \A k \in Kinds : IsFiniteSet(Live(k))
    BY TriggersAssumption, FS_Subset DEF Live
  <1>2. \A k \in Kinds : Cardinality(Live(k)) <= 1 <=> \A t, u \in Live(k) : t = u
    BY <1>1, OneAtMost
  <1>3. (\A k \in Kinds : \A t, u \in Live(k) : t = u) <=> Single
    BY DEF Live, Single
  <1> QED BY <1>2, <1>3

LEMMA InitHolds ==
  ASSUME Init
  PROVE  IInv
  <1>0. PICK i \in Sessions :
            /\ uses = i.does /\ budget = i.often
            /\ \E home \in [Cases -> i.has \cup {Absent}] :
                  rows = [s \in Suites |-> [state |-> IF s \in i.has THEN "live" ELSE "none",
                                            ids |-> {c \in Cases : home[c] = s}]]
            /\ shown = [suite |-> Scheduled, ids |-> rows[Scheduled].ids]
    BY DEF Init
  <1>1. PICK home \in [Cases -> i.has \cup {Absent}] :
           /\ budget = i.often
           /\ rows = [s \in Suites |-> [state |-> IF s \in i.has THEN "live" ELSE "none",
                                        ids |-> {c \in Cases : home[c] = s}]]
           /\ shown = [suite |-> Scheduled, ids |-> rows[Scheduled].ids]
    BY <1>0
  <1>2. Scheduled \in Suites /\ i.has \subseteq Suites /\ budget \in Nat
    BY <1>1, SessionsAssumption
  <1>3. \A s \in Suites : /\ rows[s].state = IF s \in i.has THEN "live" ELSE "none"
                          /\ rows[s].ids = {c \in Cases : home[c] = s}
    BY <1>1
  <1>4. rows \in [Suites -> Rows]
    BY <1>1 DEF Rows
  <1>5. /\ triggers \in [Triggers -> Kinds \cup {"none"}]
        /\ \A k \in Kinds : Cardinality(Live(k)) <= 1
        /\ view = Nobody /\ dialog = NoDialog /\ creating = FALSE
        /\ ops = [o \in Ops |-> NoOp] /\ member = [c \in Cases |-> Absent]
        /\ asked = {} /\ causes = {}
    BY DEF Init
  <1>6. PICK l \in Loads : loads = [k \in Loads |-> IF k = l THEN Asked ELSE Absent]
    BY DEF Init
  <1>7. \A o \in Ops : ops[o] = NoOp
    BY <1>5
  <1>8. \A c \in Cases : member[c] = Absent
    BY <1>5
  <1>9. TypesOK
    <2>1. TablesOK
      BY <1>4, <1>5 DEF TablesOK
    <2>2. PageOK
      BY <1>2, <1>5, <1>6 DEF PageOK, Views, Nobody
    <2>3. DialogOK
      BY <1>5, DialogsAre DEF DialogOK
    <2>4. OpsOK
      BY <1>5, OpsAre DEF OpsOK, Settled, NoOp
    <2>5. OtherOK
      BY <1>1, <1>2, <1>3, <1>5 DEF OtherOK
    <2> QED BY <2>1, <2>2, <2>3, <2>4, <2>5 DEF TypesOK
  <1>10. BusyInv
    BY <1>7, <1>8 DEF BusyInv, Busy, Broken, NoOp
  <1>11. AskedInv
    BY <1>5, <1>7 DEF AskedInv, Known, Agreed, NoDialog, NoOp
  <1>12. TabInv
    <2>1. shown.ids = Here
      BY <1>1 DEF Here
    <2> QED BY <1>8, <2>1 DEF TabInv
  <1>13. OneOp /\ DialogInv
    BY <1>5, <1>7 DEF OneOp, Busy, DialogInv, NoDialog
  <1>14. TriggerInv
    BY <1>5, <1>7, SingleIs DEF TriggerInv, Knows, Clears, NoDialog, NoOp
  <1>15. LoadInv
    BY <1>6, <1>7, AbsentAssumption DEF LoadInv, Busy
  <1>16. HomeInv
    <2>1. Queue = {}
      BY <1>7 DEF Queue, Writing, NoOp
    <2>2. \A s \in Suites : rows[s].state = "none" => rows[s].ids = {}
      BY <1>1, <1>3, AbsentAssumption
    <2>3. \A s, t \in Suites, a, b \in SUBSET Cases :
            s # t /\ Will(s, a, {}) /\ Will(t, b, {}) => a \cap b = {}
      BY <1>3 DEF Will
    <2> QED BY <2>1, <2>2, <2>3 DEF HomeInv, Home
  <1> QED BY <1>9, <1>10, <1>11, <1>12, <1>13, <1>14, <1>15, <1>16 DEF IInv, CalmInv

LEMMA StutterKeeps ==
  ASSUME IInv, UNCHANGED vars
  PROVE  IInv'
  <1>1. UNCHANGED Page /\ UNCHANGED <<rows, triggers, member, shown, budget, causes>>
    BY DEF vars, Page
  <1>2. (view = view' /\ loads = loads' /\ creating = creating' /\ ops = ops' /\ asked = asked' /\ dialog = dialog')
    BY DEF vars
  <1>3. Knows(dialog') <=> Knows(dialog)
    BY <1>2
  <1>4. Known(dialog') = Known(dialog)
    BY <1>2
  <1>5. Calm' => Knows(dialog')
    BY <1>1, <1>3 DEF IInv, CalmInv, TriggerInv, Calm
  <1> QED BY <1>1, <1>2, <1>4, <1>5, DialogStep DEF IInv, TypesOK, PageOK, DialogOK

LEMMA StepKeeps ==
  ASSUME IInv, [Next]_vars
  PROVE  IInv'
  <1>1. CASE \E l \in Loads : LoadRead(l) \/ LoadArrives(l) \/ LoadFails(l)
    BY <1>1, LoadReadKeeps, LoadArrivesKeeps, LoadFailsKeeps
  <1>2. CASE \/ \E kind \in {"create", "manage", "move", "run"} : Open(kind)
             \/ Dismiss
             \/ \E c \in Cases : Toggle(c)
             \/ \E s \in Suites : Aim(s)
    BY <1>2, OpenKeeps, DismissKeeps, ToggleKeeps, AimKeeps
  <1>3. ASSUME NEW o \in Ops,
               \/ SaveManage(o) \/ SaveMove(o) \/ SubmitCreate(o)
               \/ \E s \in Suites : ClickDelete(o, s) \/ CreateDone(o, s)
               \/ \E p \in Puts : PutDone(o, p) \/ PutFails(o, p)
               \/ DeleteDone(o) \/ CreateOrDeleteFails(o)
        PROVE  IInv'
    BY <1>3, SaveManageKeeps, SaveMoveKeeps, SubmitCreateKeeps, ClickDeleteKeeps, CreateDoneKeeps,
       PutDoneKeeps, PutFailsKeeps, DeleteDoneKeeps, CreateOrDeleteFailsKeeps
  <1>4. ASSUME NEW o \in Ops,
               \/ Confirm(o) \/ Override(o)
               \/ \E t \in Triggers : Drop(o, t) \/ ReplaceDone(o, t) \/ ReplaceFails(o, t)
               \/ DropDone(o) \/ DropFails(o)
               \/ SaveDone(o) \/ RunDone(o) \/ SaveFails(o)
        PROVE  IInv'
    BY <1>4, ConfirmKeeps, OverrideKeeps, DropKeeps, ReplaceDoneKeeps, ReplaceFailsKeeps,
       DropDoneKeeps, DropFailsKeeps, SaveDoneKeeps, RunDoneKeeps, SaveFailsKeeps
  <1>5. CASE ListRead \/ ListArrives \/ Back \/ \E m \in Modes : SetMode(m)
    BY <1>5, ListReadKeeps, ListArrivesKeeps, BackKeeps, SetModeKeeps
  <1>6. CASE \E c \in Cases : \/ AskMember(c) \/ MemberRead(c) \/ MemberWrite(c)
                              \/ MemberAnswer(c) \/ MemberFails(c)
    BY <1>6, AskMemberKeeps, MemberReadKeeps, MemberWriteKeeps, MemberAnswerKeeps, MemberFailsKeeps
  <1>7. CASE TabLoad \/ TabSchedule
    BY <1>7, TabLoadKeeps, TabScheduleKeeps
  <1>8. CASE UNCHANGED vars
    BY <1>8, StutterKeeps
  <1> QED BY <1>1, <1>2, <1>3, <1>4, <1>5, <1>6, <1>7, <1>8 DEF Next

\* The variables keep their types, and no handler of the page is left over: one
\* whose deletes are all answered and one of which failed is gone.
THEOREM TypeCorrect == Spec => []TypeOK
  <1>1. Init => IInv
    BY InitHolds
  <1>2. IInv /\ [Next]_vars => IInv'
    BY StepKeeps
  <1>3. IInv => TypeOK
    BY DEF IInv, TypesOK, TablesOK, PageOK, DialogOK, OpsOK, OtherOK, Settled, Causes, TypeOK
  <1> QED BY <1>1, <1>2, <1>3, PTL DEF Spec

\* While nothing failed, nothing overlapped and no other tab wrote, the two
\* requests of handleSaveTestCases and of handleMoveTc, in any order, leave
\* every test case in one suite, and the page shows what is stored.
THEOREM CasesHaveOneHome == Spec => []OneHome
  <1>1. Init => IInv
    BY InitHolds
  <1>2. IInv /\ [Next]_vars => IInv'
    BY StepKeeps
  <1>3. IInv => OneHome
    <2> SUFFICES ASSUME IInv, Quiet, Calm PROVE OneHome
      BY DEF OneHome, Calm
    <2>1. TypesOK /\ CalmInv
      BY DEF IInv
    <2> QED BY <2>1, ListIs DEF OneHome
  <1> QED BY <1>1, <1>2, <1>3, PTL DEF Spec

\* Alone, the tab of the suite page shows what is stored once its requests are
\* answered: each takes its new list from the one it was asked about.
THEOREM TabStaysExact == Spec => []TabIsExact
  <1>1. Init => IInv
    BY InitHolds
  <1>2. IInv /\ [Next]_vars => IInv'
    BY StepKeeps
  <1>3. IInv => TabIsExact
    BY QuietIs DEF IInv, TabInv, TabIsExact, Here
  <1> QED BY <1>1, <1>2, <1>3, PTL DEF Spec

\* RunSuiteModal deletes every row of its kind before it creates one, as long as
\* the list it opened with is the table's.
THEOREM TriggersStaySingle == Spec => []OneTriggerPerKind
  <1>1. Init => IInv
    BY InitHolds
  <1>2. IInv /\ [Next]_vars => IInv'
    BY StepKeeps
  <1>3. IInv => OneTriggerPerKind
    BY SingleIs DEF IInv, CalmInv, TriggerInv, OneTriggerPerKind, Calm
  <1> QED BY <1>1, <1>2, <1>3, PTL DEF Spec

LEMMA CronGoes ==
  ASSUME IInv, [Next]_vars, NEW t \in Triggers, triggers[t] = "cron", triggers'[t] = "gone"
  PROVE  t \in asked \/ "tab" \in causes
  <1>1. triggers' # triggers
    OBVIOUS
  <1>2. TablesOK /\ OpsOK /\ \A o \in Ops : Agreed(ops[o])
    BY DEF IInv, TypesOK, AskedInv
  <1>3. \A o \in Ops : \A u \in Triggers :
          /\ ops[o].kind = "drop" /\ u = ops[o].row => u \in asked
          /\ ops[o].kind = "run" /\ u \in ops[o].drops /\ triggers[u] = "cron" => u \in asked \/ "tab" \in causes
    BY <1>2 DEF Agreed
  <1>4. ASSUME NEW u \in Triggers, triggers' = Deleted(u) PROVE u = t
    BY <1>2, <1>4 DEF TablesOK, Deleted
  <1>5. ASSUME NEW k \in Kinds, triggers' \in Created(k) PROVE FALSE
    BY <1>2, <1>5 DEF TablesOK, Created, Live, Kinds
  <1>6. ASSUME NEW o \in Ops, DropDone(o) \/ DropFails(o) PROVE t \in asked
    <2>1. ops[o].kind = "drop" /\ triggers' = Deleted(ops[o].row)
      BY <1>1, <1>6 DEF DropDone, DropFails
    <2>2. ops[o].row \in Triggers
      BY <1>2, <2>1, OpKinds DEF OpsOK, DropOps
    <2> QED BY <1>3, <1>4, <2>1, <2>2
  <1>7. ASSUME NEW o \in Ops, NEW u \in Triggers, ReplaceDone(o, u) \/ ReplaceFails(o, u)
        PROVE  t \in asked \/ "tab" \in causes
    <2>1. ops[o].kind = "run" /\ u \in ops[o].drops /\ triggers' = Deleted(u)
      BY <1>1, <1>7 DEF ReplaceDone, ReplaceFails
    <2> QED BY <1>3, <1>4, <2>1
  <1>8. ASSUME NEW o \in Ops, SaveDone(o) \/ SaveFails(o) PROVE FALSE
    BY <1>1, <1>5, <1>8 DEF SaveDone, SaveFails
  <1>9. ASSUME TabSchedule PROVE FALSE
    <2>1. \/ \E u \in Triggers : triggers' = [triggers EXCEPT ![u] = "cron"]
          \/ triggers' \in Created("cron")
      BY <1>9 DEF TabSchedule, SetSchedule, Live
    <2>2. "cron" \in Kinds
      BY DEF Kinds
    <2>3. ASSUME NEW u \in Triggers, triggers' = [triggers EXCEPT ![u] = "cron"] PROVE FALSE
      BY <1>2, <2>3 DEF TablesOK
    <2> QED BY <1>5, <2>1, <2>2, <2>3
  <1>10. \/ \E o \in Ops : DropDone(o) \/ DropFails(o) \/ SaveDone(o) \/ SaveFails(o)
         \/ \E o \in Ops, u \in Triggers : ReplaceDone(o, u) \/ ReplaceFails(o, u)
         \/ TabSchedule
    <2>1. ~UNCHANGED vars
      BY <1>1 DEF vars
    <2>2. /\ \A l \in Loads : ~(LoadRead(l) \/ LoadArrives(l) \/ LoadFails(l))
          /\ \A kind \in {"create", "manage", "move", "run"} : ~Open(kind)
          /\ ~Dismiss /\ (\A c \in Cases : ~Toggle(c)) /\ (\A s \in Suites : ~Aim(s))
      BY <1>1 DEF LoadRead, LoadArrives, LoadFails, Open, Dismiss, Toggle, Aim
    <2>3. \A o \in Ops : ~(SaveManage(o) \/ SaveMove(o) \/ SubmitCreate(o))
      BY <1>1 DEF SaveManage, SaveMove, SubmitCreate
    <2>4. \A o \in Ops : \A s \in Suites : ~(ClickDelete(o, s) \/ CreateDone(o, s))
      BY <1>1 DEF ClickDelete, CreateDone
    <2>5. \A o \in Ops : \A p \in Puts : ~(PutDone(o, p) \/ PutFails(o, p))
      BY <1>1 DEF PutDone, PutFails
    <2>6. \A o \in Ops : ~(DeleteDone(o) \/ CreateOrDeleteFails(o) \/ Confirm(o) \/ Override(o) \/ RunDone(o))
      BY <1>1 DEF DeleteDone, CreateOrDeleteFails, Confirm, Override, RunDone
    <2>7. \A o \in Ops : \A u \in Triggers : ~Drop(o, u)
      BY <1>1 DEF Drop
    <2>8. ~ListRead /\ ~ListArrives /\ ~Back /\ (\A m \in Modes : ~SetMode(m)) /\ ~TabLoad
      BY <1>1 DEF ListRead, ListArrives, Back, SetMode, TabLoad
    <2>9. \A c \in Cases : ~(AskMember(c) \/ MemberRead(c) \/ MemberWrite(c) \/ MemberAnswer(c) \/ MemberFails(c))
      BY <1>1 DEF AskMember, MemberRead, MemberWrite, MemberAnswer, MemberFails
    <2> QED BY <2>1, <2>2, <2>3, <2>4, <2>5, <2>6, <2>7, <2>8, <2>9 DEF Next
  <1> QED BY <1>6, <1>7, <1>8, <1>9, <1>10

\* Without another tab no cron row is deleted that the user did not strike or
\* agree to have replaced, through every failure, retry and overlap: what the
\* dialog knows of a row, and what a save is about to delete, stays true of it.
THEOREM CronsAreKept == Spec => CronKeptUnlessAsked
  <1>1. Init => IInv
    BY InitHolds
  <1>2. IInv /\ [Next]_vars => IInv'
    BY StepKeeps
  <1>3. IInv /\ [Next]_vars =>
          [\A t \in Triggers : triggers[t] = "cron" /\ triggers'[t] = "gone"
             => t \in asked \/ "tab" \in causes]_vars
    BY CronGoes
  <1> QED BY <1>1, <1>2, <1>3, PTL DEF Spec, CronKeptUnlessAsked
=============================================================================
