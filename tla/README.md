# Project Hawkeye: a TLA+ verification project

Hawkeye runs browser tests written as goals: an LLM drives a browser in a
sandbox until the goal is reached, refuted or out of budget. Its users write
test cases, group them in suites, start runs and watch them in a web front end.
This directory models the parts of the backend that decide what a run does, the
record and the stream that tell of it, and the pages of the front end together
with the API routes behind them; it model-checks them with TLC and proves the
main safety properties with TLAPS. Paths are relative to `src/Backend` or to
`src/Frontend/hawkeye-web/src` (marked FE).

## 1. Inventory

### How a run flows

1. A user signs in (FE `lib/auth/options.ts`, `lib/api/client.ts`), opens a
   project and starts a run of a test case or suite. `POST /runs`
   (`api/routes/runs.py`), a suite, the trigger webhook or Celery beat hand a
   task to Celery; all but the webhook go through `JobQueue.submit`, which also
   saves a record of the run in Redis.
2. A Celery worker (`api/tasks.py`) marks the record as running, loads the test
   case and calls `RunManager.run`.
3. `RunManager` starts a sandbox container, an MCP subprocess and a CDP session
   and runs the agent graph (`orchestrator/agent/graph.py`): OBSERVE, REASON,
   GUARD_RAILS, ACT, GOAL_CHECK, ERROR_HANDLER, FINALIZE.
4. The graph's nodes call the LLM and the tools, and the trace collector
   publishes what they do; FINALIZE runs the assertions.
5. The worker saves traces, artifacts and the result, and publishes the end of
   the run. Websockets relay this to the page of the run; every other page polls
   `GET /runs` through one shared cache.

### Components

| component | state | operations | hard parts | correct when |
|---|---|---|---|---|
| Agent graph (`agent/graph.py`, `nodes/`, `edges/`) | `AgentState`: status, step, messages, errors, checkpoints | seven nodes, six routing functions | limits checked only in OBSERVE; errors counted across nodes; a verdict written by five nodes | limits hold together, every verdict has its evidence, there always is one |
| LLM call (`nodes/reason.py`) | attempt, schedule, last error | call, classify, sleep, retry | order of the substring tests; change of schedule in mid-loop | bounded calls, no fatal error retried |
| Run record (`api/job_queue.py`, `redis_store.py`, `tasks.py`, `routes/runs.py`) | one JSON value per run in Redis | save, update, cancel, delete | every writer reads, changes and writes in separate commands; late acknowledgement; an error after the announced end | it tells how the run ended and stays deleted |
| Live stream (`routes/ws.py`, `redis_store.py`; FE `lib/api/hooks.ts`, `runs/live/page.tsx`) | subscriptions; the page's two statuses | snapshot, subscribe, relay; poll | events between snapshot and subscription; events that end the socket early; answers out of order | the page shows what is recorded and learns of the end |
| Suites (FE `suites/page.tsx`; `routes/suites.py`, `schedules.py`) | suites with lists of test cases, trigger rows; the page's list and dialogs | create, delete, manage, move, run, schedule | several requests per dialog, each may fail; dialogs dismissed in mid-flight | a test case has one home, a suite one trigger of a kind |
| Test case editor (FE `test-cases/[id]/page.tsx`; `routes/test_cases_crud.py`) | the form, the stored document and its version | load, edit, check URL, save, run | the form stays editable during a save; read-then-write of the version | what is stored passes the checks; no save is lost |
| Run lists, launches, notifications (FE `dashboard`, `artifacts`, `live`, `runs/new`, `hooks.ts`, `feeder.ts`) | run cache, polls, filters, notes | list, page, delete, abort, start, notify | one cache under many instances; change of project with requests under way | no list under a wrong name, one note per run, lists right in the end |
| Projects and members (FE `settings/project`; `routes/projects.py`) | project row, members; rows of the page | save, add, change role, remove, archive; enter, leave, follow a link | check and write in two statements; a current and a saved project per window, set by late answers and by every sidebar | an admin remains, an archived project is idle, a project that was left comes back by late answers only |
| Organisation, secrets, environments, baselines (FE five pages; `orgs.py`, `vault.py`, `environments.py`, `baselines.py`) | tables and the lists of the pages | load, add, change, remove, decide | lists edited by answers in any order; two-statement updates | lists are the tables, one default, decisions stand |
| Session of a tab (FE `client.ts`, `options.ts`, `unified-sidebar.tsx`, `middleware.ts`, `project/store.ts`; `routes/auth.py`) | cookie, session, credentials, current project | sign in, up, out; hold, send, refuse | module variables set by an effect; four-second wait; other tabs | one identity, its own project, no wait for ever |
| Run manager (`runner/run_manager.py`), container pool, sandbox | sandbox, MCP, CDP, pool queue | acquire, run, release, refill | release after partial failure or a kill | every resource released once |
| MCP client, CDP session (`mcp/client.py`, `cdp/session.py`) | pending requests by id | call, timeout, retry, reconnect | late answers; an old receive loop under a new connection | every call has one outcome |
| Scheduler (`tasks_beat.py`, `routes/schedules.py`) | schedules with `last_triggered_at`; each tick's list and time | tick, fire, record; create, update, delete, push | fire before record; overlapping and late ticks; edits and pushes meanwhile | a due minute fires, and once; what is recorded was fired |
| Assertions, message history, YAML loader, webhooks, integrations, artifacts, billing, vision, CLI, public pages | rows, files or nothing | queries, I/O, formatting | trimming of the history | |

`PROJECT.json` lists every component with its status, and under `hazards` each
place where something could go wrong that a test would hardly reach, with the
property that watches it.

## 2. Modules

| module | models | its MC module, its proofs |
|---|---|---|
| `AgentGraph` | the graph of the agent, node by node | `MCAgentGraph`, `AgentGraphProofs` |
| `RunVerdict` | what the graph promises its caller, from outside | (refined by `AgentGraph`) |
| `ReasonRetry` | the retry loop in REASON | `MCReasonRetry`, `AgentGraphProofs` |
| `ReasonErrors` | the errors of REASON that the graph and the loop share | (extended by both) |
| `RunRecord` | the record of a run in Redis and its writers | `MCRunRecord`, `RunRecordProofs` |
| `LiveStream` | the websocket of a run and the page that follows it | `AgentGraphProofs` |
| `SuiteDesk` | the suites page, another tab, suite and schedule routes | `MCSuiteDesk`, `SuiteDeskProofs` |
| `TestCaseEditor` | the form of a test case in several editors, and its routes | `MCTestCaseEditor`, `TestCaseEditorProofs` |
| `RunConsole` | lists of runs, launches and notifications of a tab | `MCRunConsole`, `RunRecordProofs` |
| `ProjectTeam` | the project's settings in several windows, and its routes | `MCProjectTeam`, `ProjectTeamProofs` |
| `SettingsLists` | five pages that keep a list, and their routes | `MCSettingsLists`, `SettingsListsProofs` |
| `TabSession` | sign-in, session, credentials and project of a tab | `MCTabSession`, `TabSessionProofs` |
| `SuiteScheduler` | the table of schedules, its routes and the ticks that fire it | `MCSuiteScheduler`, `SuiteSchedulerProofs` |

Operators with a suffix, such as `OverLimit_Late` or `InsertSecret_Twice`, are
seeded faults: forms of a definition that a plausible bug would give it. Each
property is shown to fail when the one named beside it in `PROJECT.json` replaces
the definition. Some properties are conjunctions of named parts (`Limits`,
`Bookkeeping`, `RecordTells`, ...) which one instance checks together; several of
their parts have seeded faults of their own.

The modules meet at narrow interfaces. `ReasonRetry` shows what `AgentGraph`
assumes of REASON (`OutcomeIsKnown`); `LiveStream` takes the record that
`RunRecord` shows to be right when no update is lost; `RunConsole` starts where
`TabSession` ends, with a known session. The front-end modules each compose a
page, its handlers and the routes they call, since the hazards lie between them.

### AgentGraph

A node of the graph is one or several actions; an action also takes the
conditional edge that leaves the node, since LangGraph applies a node's update
and routes in one superstep. The variable `node` is the node to run next. The
environment chooses what the LLM answers (`Replies`), whether a snapshot or a
tool succeeds and what the page shows, and when the deadline passes
(`Deadline`). `Enter` counts supersteps; `ExceedRecursion` is the runtime's
`GraphRecursionError`, which `RunManager` turns into an errored result.

A message is abstracted to the tool of its first call, how many more calls it
has, whether a navigation in it leaves the site, and the signals the code looks
for in its text. `pending` counts tool calls without a ToolMessage, `dropped` those
of them that a rejection left open: GUARD_RAILS answers the first call of a message
and sends it back to REASON, so that the others are never answered. Of the
trace, only the trailing run of one tool name is kept (`streak`), because ACT
compares names and not inputs. Prompts, screenshots, tokens and cost are left
out. ERROR_HANDLER's `mcp_disconnect` branch is left out because no node produces
that error type.

### RunVerdict

The abstract specification: a run is running, takes a verdict, and may revise it
only from passed to failed before it is reported; or it is aborted.
`ImplementsRunVerdict` maps AgentGraph to it.

### ReasonRetry

One call of REASON. A failure is a set of marks, the substrings that the code
tests for, because one error text may match several tests; the order of the
tests is the code's. `Harden` is the change to the longer schedule.

### RunRecord

Each client of the record holds a copy (`held`) between its GET and its SET.
The clients are the two save tasks of `JobQueue.submit`, the POST handler that
wakes after 50 ms, the worker, its `sandbox_ready` emitter, and the DELETE
requests. `phase` is the worker's progress through `_execute`. The end is announced
(`told`) before the notifications are sent, inside the same `try`: if one of them
fails (`Raise` in the phase `notify`), the exception handler records and announces an
error in place of the result. `lost` becomes
true when a SET overwrites something its GET did not see. The code has no
protection against that, and properties which say "unless an update was lost"
describe exactly what remains true. They exclude lost updates, not
interleavings: any order of commands in which no write overwrites an unseen
change is still allowed, and the seeded faults show they can be broken there.
Left out: the list of run ids, the time to live, publications, Redis failures,
and the pool path of the worker.

### SuiteScheduler

`tick_schedules` keeps the time and the list it read for as long as it takes, so a
tick is a record (`ticks`) that goes through `Begin` (the clock), `ReadSchedules`
(the enabled rows), and for each row of the list `Skip`, or `Fire` and `Save`. The
order of the list is left open. Any number of ticks may be under way; `Die` ends
one anywhere, and the task, which is acknowledged late, begins again. A minute is
a number and a cron expression the set of its minutes; `Prev` is croniter's
`get_prev`, of which there is one for every expression that ever names a date.
The routes change one row each, `Push` stamps those of a branch. `fired`, `twice`
and `excused` are histories. A second is finer than the model: a tick that reads
the clock at the very instant of a minute sees the minute before.

### LiveStream

The page that shows a running test has two sources. `socket` and `wire` are the
websocket handler and what it has sent or buffered; `polled`, `polling` and
`inflight` are `useRun`, its interval and its requests. `Shown` is the status
that `RunDetailPanel` derives from both. The worker is reduced to the order in
which it writes the record and publishes events, with the exception handler that
may follow the announced end (`Raise`, `RecordError`, `AnnounceError`; `overruled` is
the end it replaced); the collector's events are
published by tasks of their own, in any order (`emits`). `DELETE` appears as one
`Cancel` whose revocation may be missed. A socket that subscribes after the last
event waits for ever (pings keep it open), and so does one whose worker was
killed: `SocketEnds` is about the others, and `PageSettles` shows that the page
does not depend on the socket. The page stops asking at the first end it is told, so that
it may stay with an overruled one: both properties allow `overruled` for that reason
and for no other. Left out: the server-sent list of runs, pings, and
unmounting the page.

### SuiteDesk

`rows` and `triggers` are the tables, `view` the list the page last loaded. A
dialog (`dialog`) starts an operation (`ops`) with its set of requests, sent
together and executed in any order; each may fail, before or after the API
executed it. `RunSuiteModal` deletes the rows its mode replaces and then creates
one, from the schedules it has loaded by then. The other tab's member list
(`member`, `shown`) uses the read-change-write routes of `suites.py`. `causes`
and `asked` are histories: which disturbances happened, and which triggers the
user agreed to lose. Names, order, statistics, models and cron texts are left out,
and so is `ScheduleModal`, which nothing mounts.

### TestCaseEditor

A document has the parts the page's checks and its save tell apart: name,
settings, headers, URL, goal and steps; rich texts are empty, cleared (markup
without a word) or worded. Loading numbers the steps anew; saving drops
incomplete headers and sends the whole form while it stays editable; the route
reads the version, then writes document and version. `put` and `check` are the
requests under way, `marks` the histories which the properties except: changes
that do not end the saved view or were made during a save, saves of others seen
before or after the load read its document, saves that overlapped, and saves that
were executed but reported as failed (`unanswered`).
Assertions, uploads and the text of rich fields are values.

### RunConsole

`hook` is the state behind `useProjectRuns`: the module-level cache with its
requests, and each mounted instance. `page` is what is shown, `store` the
current project of the persisted store, `layout` the requests that set it.
Instances are the list of a page and the bell; `Tick` is an interval, `Expire`
the end of the cache's four seconds. Tables filter, page and delete; `notes` is
what the bell added, each marked with whether it was added on the page that is
still shown. A launch remembers the project its answer will open (`launch`).
Init, next-state relation and specification are called `ConsoleInit`, `ConsoleNext`
and `ConsoleSpec`, because one module holds the proofs about this and RunRecord.

### ProjectTeam and SettingsLists

Windows of several users send requests (`calls`); a handler of the API takes the
steps `sent`, `checked` (its SELECTs and tests), then its write, then the answer
arrives at the page, which applies it to its rows and never loads again. Requests
survive the page that sent them (`live`). `apart` names the windows whose rows
may rightly be old, because another window wrote, a request failed or two of
their own requests crossed. In ProjectTeam `raced` says that two handlers passed the
check of the last admin before either wrote; in SettingsLists `crossed` says the
same of two that set the default environment. Those are real gaps in the routes
(section 6); the properties say what holds otherwise.

In ProjectTeam a window also moves: from the list of projects (`List`) into the
project (`Enter`) or another one (`Leave`), and by a link into the project whatever
its state (`Follow`, whose layout asks for it). `store` is what the window keeps of
it: the current project and the one saved for its user, which every sidebar that is
mounted makes current again (`Mounted`), on the way to the list or in the menu of a
narrow window (`OpenMenu`). An archive clears the current project only, so that the
next sidebar brings the archived one back; `ProjectIsLeft` therefore speaks of
windows that entered another project, which replaces both.

### TabSession

`jar` is the cookie that tabs share, `session` and `status` what `useSession`
returns, `auth` and `ready` the module variables of `client.ts`, `store` and
`saved` the persisted project store. The sidebar hands e-mail and token over
only when the e-mail changes. Requests wait until `ready`, at most four seconds
(`Send` allows both), and are answered or refused; a refusal after `ready` signs
the user out. A token is a user and whether it was issued before the expiry.
Another tab may sign in and out. Passwords, the OAuth protocol and the theme are
left out.

## 3. Runs

| run | instance | shows |
|---|---|---|
| `AgentGuided` | 2 checkpoints, 5 steps, 2 tools, up to 2 calls per message, window 2, hard limit 4, recursion limit 27 = 5*5+2 | the limits of a run together, what the nodes hand to each other, the evidence of the verdict, that there always is one |
| `AgentCutShort` | no checkpoints, 5 steps, window 4, hard limit 2, recursion limit 19 | runs that are aborted anywhere, blocked as stuck or completed by the page still implement `RunVerdict` |
| `ReasonRetry` | the delays of `reason.py`, every set of 8 marks | bounded calls, failures classified by their marks alone |
| `RunRecord` | 2 DELETE requests, 2 deliveries | what the record tells under cancellation, deletion, crash and failed notifications; a deleted record stays away; no writer is stuck before the run has settled (deadlock) |
| `SuiteScheduler` | 2 schedules, 2 ticks, minutes 0 to 2, 3 expressions; an edit or push, or 1 or 2 deaths | what is recorded was fired; once, unless ticks overlap or die; every enabled schedule is served in the end |
| `LiveStream` | 2 requests in flight answered in any order, a backlog of 2, a cancellation | what the page shows is recorded, or was until an error replaced it; it and its socket learn of the end |
| `SuiteDesk` | 2 suites, 2 test cases, 3 trigger rows, 2 operations and 2 loads at once, 2 to 3 operations | one home per test case, lists that are exact, one trigger of a kind, no cron schedule lost unasked |
| `TestCaseEditor` | 2 editors, an imported case with foreign step numbers and a header without a name, or a new one, 1 or 2 saves, 1 to 6 edits, 2 steps | stored documents pass the checks, the saved view is what Run executes, the URL said to be reachable answered, no save is lost |
| `RunConsole` | 3 runs of 2 projects, 2 or 3 visits, at most 1 failure, 1 row to a page, 3 notes kept | no list under a wrong project, one note per visit, no empty page, launches open their project, lists are right in the end |
| `ProjectTeam` | 2 windows, 3 users, 4 member ids, 2 requests at once, 3 or 4 operations | an admin remains, rows are the table's, an archived project is idle, and a project that was left comes back by the late answers of a save or of `getProject` only |
| `SettingsLists` | 2 windows, 4 ids per table, 2 requests at once, 3 to 5 operations | rows are the table's, one default environment, decisions on baselines stand |
| `TabSession` | 2 users, 2 projects, 3 or 4 operations, at most 1 failure | one identity per request, the user's own project, pages that get their project, expired tokens left |

Every run ends with no error.

**Sessions.** The modules of the front end, and SuiteScheduler, take a constant
`Sessions`: a set of records that say what exists at the start, what the user
does (`does`, `uses`) and how often (`often`, `visits`, `edits`, `writes`,
`fails`). `Init` chooses one. Each session gathers the actions that touch the
same state, so that their interleavings are explored, instead of every action
with every other; together the sessions of a run use every action. A session
never prescribes an order.

**Why the bounds suffice.** In the graph, five steps let the window, the error
budget of three and the auto-completion at step three all be reached and passed;
two checkpoints are the least for marks out of order; one extra call per message
separates "answers the first" from "answers all". Window and hard limit are 2 and
4 instead of 4 and 10 (the proofs cover all values). A message that is rejected may
have a second call like any other. `CallCap` in ReasonRetry bounds a
history counter one above the proved bound. Two DELETE requests are needed for
one to delete what the other is still cancelling; two deliveries for a worker to
find its predecessor's record. In LiveStream two requests are the least that
overlap; `Backlog` bounds the error events a collector could publish while
nobody reads. In SuiteScheduler two ticks are the least that overlap, and three
minutes the least in which an older time may overwrite a newer one and a third
tick then find the schedule due; one expression names every minute, one only some
and one none, and with two schedules one may be fired while the other waits.

In the front end, two operations under way at once (`Ops`, `Calls`, one request
of a kind in `TabSession`, one save per editor and two editors) are the least
that overlap, and three or four operations leave time to start a third after one
has gone wrong. Two suites are the least to move between; three trigger rows are
one replaced, its successor and one of the other kind. Two steps are the least
to remove the shown one before or after another. In RunConsole a page of one row
makes every deletion a change of pages, and three notes kept are as many as there
are runs. Four ids serve two rows at the start and two additions. Failures are
bounded by one: the properties with exceptions for failures need none, the others
hold with one.

Symmetry is used only in runs without liveness properties: the windows,
editors, requests, test cases and triggers of an instance that no session names.

## 4. Fairness

`AgentGraph`: weak fairness of `Step`. `ainvoke` runs node after node and a node
waits for nothing but its own calls. LLM and CDP calls have no time limit of
their own in the nodes, so this assumes that they return or raise. The deadline
is not fair: `Reported` holds without it. `SuiteScheduler`: the clock goes on,
beat sends a tick every minute as long as it runs (`Begin`), and a worker goes
on with the tick it executes (`Work`); no edit, push or death has to happen.
`LiveStream`: the worker, the socket and the page go on, and requests that the
page repeats are not all lost (strong fairness of `Arrival`). Nobody has to open
the page or meet an error.

`RunConsole`: intervals fire (`Tick`), the cache's time passes (`Expire`),
requests are executed and answered (`Read`, `Answer`). No run has to end, no
layout request to be answered, and the user does nothing on purpose.
`TabSession`: held requests are sent at last, by their own timer of four
seconds; requests, the request for the session and a begun sign-out return;
polls go on. Nobody signs in, and no token has to expire. `ReasonRetry`,
`RunRecord` and the other modules have safety properties only.

Deadlock is checked in the runs of the backend modules, where finished systems
stutter explicitly (`Finished`, `Done`, `Idle`); the scheduler never stops. It
is not checked in those of the front end: a user who has used up the session's
operations stops.

## 5. Proofs

`AgentGraphProofs` proves, for every number of steps, checkpoints, tools and
replies, every window and every limit:

- `LimitsHold`: error budget, repetition, work after the deadline, and that a
  recursion limit of 5 * max_steps + 2 is never hit, each also on its own
  (`ErrorBudgetHolds`, `RepetitionStaysBounded`, `LateWorkStaysBounded`,
  `RuntimeLimitSuffices`);
- `BooksKept`: what the nodes hand to each other, when the hard limit exceeds the
  window; the tool calls that are open when REASON asks the LLM are those of rejected
  messages, exactly; `CurrentStaysFirstOpen`,
  `ActAlwaysStaysOnSite`, `ErrorHandlerAlwaysHasError` and `TypeCorrect` are parts;
- `VerdictAlwaysBacked`, and `RunVerdictImplemented`: `Spec => RV!Spec`.

None of these is inductive. `IInv` adds, node by node, what earlier nodes have
established: verdicts exist only where the run is about to end (`StatusInv`); the
nodes behind REASON have a tool call and no error (`CallInv`); the third error
goes to the handler as a fatal one (`ErrorInv`); five supersteps per step
(`StepInv`); no late call before ACT (`LateInv`); what justifies a verdict stays
true (`EvidenceInv`). `StepIInv` proves its preservation with a step per action;
`InitVerdict` and `StepVerdict` are the refinement.

The module also extends `ReasonRetry` and holds its proofs: `LoopStaysBounded` and
`FailuresStayClassified` for schedules of any equal length of at least two, from a
`LoopInv` whose `LoopCalls` relates the calls made to the attempt and the schedule.
The two modules share `ReasonErrors`, so that `OutcomeIsKnown` says that the loop
leaves an error with which AgentGraph lets REASON fail.

Its third part, about `LiveStream`, proves `PageStaysTrue` for any number of
requests and any backlog: whatever the page knows, or is being told by an answer or
a message on the wire, was true when it was read, and the end of a run stays true or
is the one that a later error has overruled (`RecordInv`, `KnownInv`).

`RunRecordProofs` proves `RecordAlwaysTells` and `DeletedStays` for any number of
requests, results and deliveries. The argument is that a write which loses no
update was made from the very record it replaces, so that only those copies need
an invariant which are more than that (`HeldInv`). `IInv` adds that nobody finds a
record before the first save (`UnsavedInv`), and what each phase of the worker has
established (`WorkerInv`, `FinishedInv`).

The second part of the module is about `RunConsole`. It proves `ListsStayOfProject`,
`NotedOnceAlways`, `RowsStayShown`, `LaunchesOpenTheirProject` and `ConsoleTypesHold`
for any number of runs, projects, visits and failures, any size of a page and any
number of notes kept. What a page shows is copied from the shared cache or from an
answer, so that `ConsoleInv` has to keep the projects apart where no page shows
them: in every entry of the cache and in every answer under way (`HookOK`). It adds
what makes the refetch after a deletion harmless, that a request of the dashboard
which still counts as its own leaves only with it (`DelsInv`), and where a start may
lead (`LaunchInv`). That a run is noted once follows from what the bell has notified
of: every note of the page is of such a run (`Once`), and what it adds is not. For
`RowsStayShown` the invariant gives no more than types; its proof is the arithmetic
of the last page. The attempt showed that the branches of a `CASE` in `Filtered`
overlapped, as those of SettingsLists had.

`ProjectTeamProofs` proves `AdminStaysKept` for any number of windows, users,
members and requests. The invariant says what a handler that passed the check may
still rely on: as long as no two overlapped, there is one such handler at most,
and an admin besides the member it is about (`AdminInv`). `TeamStaysShown` needs a
second invariant, `TInv`: the rows a page shows of a user differ from the table's
row exactly by the answers still to come, and no two requests whose answers could
come in the wrong order are under way. The proof failed for a property that said
a page never has two rows of one user: it has them when a user was removed and
added again and the answer to the addition comes first (section 6).
`ProjectStaysLeft` is an action property: `IdleOK` says that what is active while
a handler archives is what it saw or was started since; that a window in another
project gets this one only by a late answer is shown action by action, since every
other one that sets its store takes it to the list or to another project, or copies
the saved project, which would be a project that is left already.

`SettingsListsProofs` proves `DefaultStaysOne` for any number of windows, rows and
requests: as long as no two overlapped, one request at most is between its two
statements, and once it has taken the default from the other rows none of them has
it (`EnvInv`). `ListsStayShown` says of five tables what `TeamStaysShown` says of
one: `TInv` has, for every row of every page, which request that is under way is
the reason for a difference between the page and its table (`RowOK`), that a load
on its way alone brings the rows of the tab (`LoadOK`), and that a decision not yet
executed is for a baseline that is pending (`DecideOK`). Each action has a lemma
that it preserves this, and they share lemmas about one row that is answered,
written or left alone. `DecisionsStand`, an action property, follows from `DecideOK`.
The branches of two `CASE`s about the default overlapped, which TLC, taking the first
that applies, does not notice; they are disjoint now.

`SuiteDeskProofs` proves all properties of `SuiteDesk` for any number of suites, test
cases, triggers, requests and loads. `IInv` has three parts that hold always: nothing
is under way that is not in `causes` (`BusyInv`); what the dialog knows of a trigger
stays true of it while it is there, and what a save or a cross is about to delete was
agreed to or is a push trigger (`AskedInv`, from which `CronsAreKept` follows through
every failure and overlap); and the tab's one request (`TabInv`). The others hold while
the page is calm, that is while nothing failed, overlapped or was written elsewhere
(`CalmInv`): one operation at a time; the dialog knows every trigger, and a save
deletes all of its kind (`TriggerInv`); a load is under way only when no operation is,
and brings what is stored (`LoadInv`). `CasesHaveOneHome` needs to say where the
requests lead: `Will` is what a suite holds once the requests still to come are
executed, `Home` that these sets are disjoint and that no suite is written twice, and
`PutHome` that a request, whichever comes first, changes nothing about that.

`SuiteSchedulerProofs` proves `FiresOnceAlways` for any number of schedules, ticks
and minutes and any expressions, and `SchedulerIsSound`. The invariant relates
three copies of a schedule's last time, in the table, in what a tick has read and
in the tick that is about to record: as long as neither overlap nor death excuses
the schedule, one tick at most holds it, and each copy that may still be used
covers every minute the schedule was fired for (`FireInv`). That an id is never
given out twice (`UsedInv`) is needed because a tick may hold a schedule that was
deleted. `RecordedAlwaysFired` needs a second invariant, `RecordInv`: a tick works
with the expression the row still has, and the minute that it is about to record
was fired, unless the row is gone or was changed. That `get_prev` has a value
follows from the library's well-founded induction on the distance to the last
minute (`LatestExists`).

`TestCaseEditorProofs` proves `FormsStayWellFormed`, `SavedViewStaysStored`,
`ReachableStaysChecked` and `SavesAreKept` for any number of editors, test cases,
edits and saves. A page enters its saved view by a save and a load, so that the
invariant follows the document on that way: a request has what its form had, and
what it wrote is stored until another editor writes (`PutInv`); what a load has read
is stored until then, and after a save it is what was saved (`LoadInv`); hence what a
saved view shows is stored (`ViewInv`). `ReadInv` says that the version a request has
read is the latest unless two requests overlap. All but `ReadInv` is about one editor
and the rows (`OwnInv`), so that most steps are shown for the editor that takes them
(`AloneSuffices`); a write is the only step that others notice. The first attempt
failed for a reason: a save that is executed but reported as failed drops the
incomplete headers from the row while the page, still in its saved view, shows them.
`SavedViewIsStored` now says so, and the run starts from such a document.

`TabSessionProofs` proves `IdentityStaysOne`, `StoreStaysOfUser` and `TypeCorrect`
for any users and projects. All three need each other: a token is of the user it
comes with in the cookie and in the session (`SessionInv`), and a page of the app
is entered by mounting a sidebar, whose effects set credentials and project from
that session (`MountKeeps`, `GoKeeps`, `LoadKeeps`).

The proofs assume the named ASSUMEs of the modules on their constants and
nothing else; TLC evaluates them in every run. Every safety property of the runs,
invariant or action property, is stated by a theorem. Model-checked only: the liveness
properties (`Reported`, `EndIsLearnt`, `Hydrated`, `ExpiredIsLeft`,
`EventuallyShown`, `EventuallyFired`), which are out of the prover's reach.

## 6. Where code and documents disagree

Met while modelling, each checked by a run of TLC or read off the code. The
properties of section 3 except them by name, so that they hold of the code as it
is; the exceptions are written out in the properties' comments.

Backend:

- `Docs/HLD_LLD.md:451` says ten identical calls block the run. From the fourth
  on the call is skipped, skips are not recorded with a tool name, and the count
  never reaches ten (`act.py:80`).
- A rejected message with several tool calls leaves all but the first unanswered:
  `guard_rails.py:57` answers one and goes back to REASON, against `act.py:167`, which
  answers every call because the API requires it. `Bookkeeping` excepts exactly
  those calls (`dropped`) and shows that no others are open.
- A notification that fails replaces the result of a run by "errored".
  `_fire_notifications` (`tasks.py:288`) follows the record and "complete" (267, 268)
  in the same `try`, and `github_checks.py:103` may raise; the handler (291) then
  overwrites a result that was announced. A page that was told "passed" has stopped
  asking and goes on showing it. `RecordTells`, `PageIsTrue` and `EndIsLearnt` except
  this by name.
- The emergency trim is tested with `attempt == 0` after `attempt += 1`, so a
  prompt that is too long ends the run (`reason.py:158`; HLD:433).
- The task is dispatched before its record is saved; the worker may find none, and
  the later saves reset the status (`job_queue.py:44`; HLD:603).
- The trigger webhook never saves a record, so its runs leave no trace
  (`webhooks.py:77`; HLD:627).
- `README.md:228` says a push triggers suite runs. `github_webhook` starts nothing;
  it stamps `last_triggered_at` of the branch's schedules, which keeps the scheduler
  from firing a minute that was due and not yet fired (`schedules.py:157`).
- A schedule that was never triggered is due at the next tick, for the latest date
  its expression names, however long ago (`tasks_beat.py:88`).
- An older answer that arrives later replaces a terminal one, after polling has
  stopped (`hooks.ts:137`; `runs/live/page.tsx:323`).
- A run that ended between the page's look and the click on abort is deleted for
  good (`runs.py:173`).
- A tool error below the budget goes to GOAL_CHECK and never to ERROR_HANDLER,
  against `error_handler.py:28`; `tests/unit/test_edges.py:66` expects OBSERVE
  after ACT where the code says GOAL_CHECK; an exhausted rate limit is returned as
  not recoverable, against `error_handler.py:32`; the termination reason speaks of
  five snapshot attempts where OBSERVE makes ten; `run_manager.py:343` stores
  `errored` for every run in the database.

Front end and routes:

- `client.ts:283` says requests never go out with empty credentials; after four
  seconds they do. A refusal of such a request that arrives once the session is
  known signs the user out.
- An OAuth token that a later refresh of the session brings is never handed to the
  API client, whose effect depends on the e-mail alone
  (`unified-sidebar.tsx:149`; `options.ts:81` says the exchange is retried until
  it succeeds).
- A lost answer of a sign-up makes its retry fail as a duplicate; the sign-in after
  it is not checked; the login form does not catch a failed request.
- `/app/runs/live`, to which the live page leads in two places, is no page
  (`runs/live/page.tsx:466`, `:479`). The list's event source never reconnects
  (`hooks.ts:65`).
- Archiving takes the user out of a project but not for long: `handleArchive` clears
  the current project, not the saved one, which the next sidebar makes current again
  (`unified-sidebar.tsx:157`); a link opens an archived project as any other, since
  `get_project` serves it (`projects.py:140`, `[projectId]/layout.tsx:24`). The
  confirmation only says that it is hidden from the list.
- A save that is answered late renames whichever project was current at the click,
  also when that is not the page's (`settings/project/page.tsx:143`), and the new name
  is lost with the next sidebar, which takes the saved project with its old one. A
  `getProject` that fails late takes the window to the list from any page.
- An answer for the project left before may be shown and noted under the new one
  (`useProjectRuns`), or make the project left the current one
  (`[projectId]/layout.tsx:21`).
- Archiving a test case says "You can restore it later."; there is no such
  operation, and its runs disappear from every list.
- "Run now" of a suite first deletes its push triggers (`suites/page.tsx:389`).
- A save of a test case clears its assertions, blocked URLs and notifications,
  which the form does not load; a new test case may be created twice, between the
  answer and the change of page; Run is offered for a form with unsaved changes.
- Overlapping requests leave two default environments, and making a deleted one
  the default leaves none; two admins removed at once leave no admin
  (`projects.py:336`); an invitation that was accepted may be revoked
  (`orgs.py:232`); baselines take a decision whatever their status.
- The project's settings show a member twice when the user was removed and added
  again and the answers come in the other order: a row is appended for each addition
  (`settings/project/page.tsx:180`).
- `passRateThreshold` of the settings is never used; a settings page whose load
  fails stays blank; the integrations page calls the API without credentials and is
  always refused; `timed_out` runs match no filter; the list of artifacts does not
  step back from a page that no longer exists.

## 7. Plan and what is not modelled

Left for later modules, the most important first:

1. `McpClient`: an answer resolves the call that asked, late answers are dropped, a
   tool is executed at most once per attempt; it refines an abstract table of
   requests that `CdpSession` (reconnection under an old receive loop) refines too.
2. `RunResources` with `ContainerPool`: sandbox, MCP, CDP and pool handle are
   released exactly once whatever step of `RunManager.run` fails.
3. `Conversation`: calls and answers stay paired under `_trim_messages`.

Theorems to come: with these modules, that both clients implement the abstract table
of requests; and what the code promises across modules, such as that the websocket of
LiveStream shows a page only states that the writers of RunRecord can have left.

Not modelled because there is little state to go wrong: YAML parsing, artifact
files, the store's single statements, billing and usage counters, outgoing
notifications, stateless agent tools, image comparison, prompts and adapters,
reports, the CLI, and static or display components of the front end. Not modelled
within the modelled components: names, texts, statistics and layout; values of
secrets; OAuth and passwords; Redis failures and the time to live of records; the
server-sent list of runs; assertions beyond "one failed".

## 8. Running it

    tlc -config RunRecord.cfg MCRunRecord
    tlc -config LiveStream.cfg LiveStream
    tlc -config SuiteDesk.cfg MCSuiteDesk
    tlapm ProjectTeamProofs.tla

`PROJECT.json` names the module and the configuration of every run, and the
seeded fault of every property.
