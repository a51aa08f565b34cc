--------------------------- MODULE TestCaseEditor ---------------------------
(***************************************************************************)
(* The page of a test case, open in several editors (tabs or people), and  *)
(* the routes that read, create and replace it.  The form is loaded once   *)
(* and again after each save; a save sends the whole form; the row keeps   *)
(* no trace of what a form was loaded from, so the last writer wins.       *)
(*                                                                         *)
(* A document is what the form edits: the name, the settings (browser,     *)
(* limits, captures and so on, which nothing checks), the headers whose    *)
(* values are secrets, the URL, and as rich texts the goal and the steps.  *)
(* A rich text is empty (Blank), or markup without a word (Cleared: what   *)
(* is left when its words are deleted), or has words.                      *)
(***************************************************************************)
EXTENDS Integers, Sequences, FiniteSets, SequencesExt

CONSTANTS
    Editors,    \* pages opened on a test case or on "new"
    Cases,      \* ids of test cases, used and unused
    Names,      \* names, Blank: one that is too short
    Settings,
    Headers,    \* rows of the headers
    Incomplete, \* those without a name or without a secret
    Urls,       \* URLs, Blank: an invalid one
    Texts,      \* rich texts
    Blank, Cleared, Default,
    Stored,     \* the test cases at the start: a row of each, or Absent
    Sessions,   \* what users do, in which pages and how often (bound)
    MaxSteps,   \* steps of a form (bound)
    Absent

ASSUME TextsAssumption ==
    /\ {Blank, Cleared} \subseteq Texts
    /\ Blank \in Names \cap Urls
    /\ Blank # Cleared
    /\ Default \in Settings
ASSUME BoundsAssumption ==
    /\ MaxSteps \in Nat
    /\ \A i \in Sessions: /\ {i.edits, i.writes} \subseteq Nat
                         /\ i.opens \subseteq {Absent} \cup {c \in Cases : Stored[c] # Absent}

VARIABLES
    rows,       \* table test_cases: version and document
    page,       \* the state of each page
    put,        \* its POST or PUT request
    check,      \* its HEAD requests to the target, by URL
    uses,       \* what the users of the session do
    edits,      \* changes still to be made
    saves,      \* saves still to be clicked
    reached,    \* history: URLs that answered its HEAD requests
    marks       \* history: what happened to a page (see the properties)

vars == <<rows, page, put, check, uses, edits, saves, reached, marks>>

Step(n, t) == [id |-> n, text |-> t]
Entries == [id: Nat, text: Texts]
Steps == Seq(Entries)
Docs == [name: Names, settings: Settings, headers: SUBSET Headers,
         url: Urls, goal: Texts, steps: Steps]
TestCases == [version: Nat, doc: Docs]

\* The requests of a save.
Puts == [doc: Docs, case: Cases \cup {Absent}, step: {"asked", "read", "answer"}, version: Nat]

ASSUME StoredAssumption == Stored \in [Cases -> TestCases \cup {Absent}]
ASSUME AbsentAssumption ==
    Absent \notin Cases /\ Absent \notin Docs /\ Absent \notin TestCases /\ Absent \notin Puts

EmptyDoc == [name |-> Blank, settings |-> Default, headers |-> {},
             url |-> Blank, goal |-> Blank, steps |-> << >>]

\* id: `S${j + 1}`.
Renumbered(steps) == [j \in DOMAIN steps |-> [steps[j] EXCEPT !.id = j]]

\* loadTc sets the form from a document: steps are numbered anew.
Loaded(doc) == [doc EXCEPT !.steps = Renumbered(@)]

\* The body of a save, from which incomplete headers are dropped.
Body(doc) == [doc EXCEPT !.headers = @ \ Incomplete]

\* nameValid, urlValid, goalValid and stepsValid, which looks at the markup.
Valid(doc) ==
    /\ doc.name # Blank
    /\ doc.url # Blank
    /\ doc.goal \notin {Blank, Cleared}
    /\ doc.steps # << >>
    /\ \A j \in DOMAIN doc.steps: doc.steps[j].text # Blank

\* A page as it is mounted on a test case (Absent: "new").
Mounted(c) ==
    [case |-> c, phase |-> IF c = Absent THEN "form" ELSE "loading", got |-> Absent,
     doc |-> EmptyDoc, base |-> IF c = Absent THEN EmptyDoc ELSE Absent, active |-> 0,
     view |-> c # Absent, url |-> "idle", run |-> FALSE, goes |-> Absent]

Init ==
    /\ rows = [c \in Cases |-> Stored[c]]
    /\ \E i \in Sessions:
         /\ uses = i.does
         /\ edits = i.edits
         /\ saves = i.writes
         /\ page \in [Editors -> {Mounted(c) : c \in i.opens}]
    /\ put = [e \in Editors |-> Absent]
    /\ check = [e \in Editors |-> {}]
    /\ reached = [e \in Editors |-> {}]
    /\ marks = [e \in Editors |-> {}]

-----------------------------------------------------------------------------
(* Loading *)

\* GET .../test-cases/{id}: the document as stored.
LoadRead(e) ==
    /\ page[e].phase = "loading"
    /\ page[e].got = Absent
    /\ page' = [page EXCEPT ![e].got = rows[page[e].case].doc]
    /\ marks' = [marks EXCEPT ![e] = (@ \ {"other", "typed", "unanswered"}) \cup
                    (IF "other" \in @ THEN {"overtaken"} ELSE {})]
    /\ UNCHANGED <<rows, put, check, edits, saves, reached, uses>>

\* The answer fills the form, over whatever it held; steps are numbered anew.
LoadArrives(e) ==
    /\ page[e].phase = "loading"
    /\ page[e].got # Absent
    /\ LET doc == Loaded(page[e].got) IN
         /\ page' = [page EXCEPT ![e] =
                [@ EXCEPT !.phase = "form", !.got = Absent, !.doc = doc, !.base = doc,
                          !.active = IF doc.steps = << >> THEN 0 ELSE 1]]
         /\ marks' = [marks EXCEPT ![e] = (@ \ {"during", "overtaken"}) \cup
                         (IF doc.url # page[e].doc.url THEN {"moved"} ELSE {})]
    /\ UNCHANGED <<rows, put, check, edits, saves, reached, uses>>

\* Failed to load: back to the list of test cases.
LoadFails(e) ==
    /\ page[e].phase = "loading"
    /\ page' = [page EXCEPT ![e].phase = "left"]
    /\ UNCHANGED <<rows, put, check, edits, saves, marks, reached, uses>>

-----------------------------------------------------------------------------
(* Editing: the form stays editable while a save is under way *)

\* savedView only turns the rich texts to plain view; their Edit button ends it.
EditAll(e) ==
    /\ page[e].phase = "form"
    /\ page[e].view
    /\ page' = [page EXCEPT ![e].view = FALSE]
    /\ UNCHANGED <<rows, put, check, edits, saves, marks, reached, uses>>

\* A change of the form by its user.
Change(e, kind) ==
    /\ page[e].phase = "form"
    /\ ~page[e].run
    /\ kind \in uses
    /\ edits > 0
    /\ edits' = edits - 1
    /\ marks' = [marks EXCEPT ![e] = @ \cup (IF page[e].view THEN {"typed"} ELSE {})
                     \cup (IF put[e] # Absent THEN {"during"} ELSE {})]
    /\ UNCHANGED <<rows, put, check, saves, reached, uses>>

\* The fields that are no rich texts are always editable.
EditName(e, t) ==
    /\ Change(e, "name")
    /\ page[e].doc.name # t
    /\ page' = [page EXCEPT ![e].doc.name = t]

\* The settings, by the part of the page that changes them: priority, suite and
\* tags; browser, viewport and locale; limits; captures.
Set(e, t) ==
    /\ page[e].doc.settings # t
    /\ page' = [page EXCEPT ![e].doc.settings = t]
EditLabels(e, t) == Change(e, "labels") /\ Set(e, t)
EditTarget(e, t) == Change(e, "target") /\ Set(e, t)
EditExecution(e, t) == Change(e, "limits") /\ Set(e, t)
EditCapture(e, t) == Change(e, "capture") /\ Set(e, t)

\* The agent context is written in rich texts.
EditContext(e, t) == Change(e, "context") /\ ~page[e].view /\ Set(e, t)

\* A row of the headers is added or removed; to complete one is to exchange it.
EditHeaders(e, h) ==
    /\ Change(e, "headers")
    /\ page' = [page EXCEPT ![e].doc.headers = IF h \in @ THEN @ \ {h} ELSE @ \cup {h}]

\* A new URL keeps the verdict on the old one.
EditUrl_Kept(e, t) ==
    /\ Change(e, "url")
    /\ page[e].doc.url # t
    /\ page' = [page EXCEPT ![e].doc.url = t]

\* A new URL is not verified yet.
EditUrl(e, t) ==
    /\ Change(e, "url")
    /\ page[e].doc.url # t
    /\ page' = [page EXCEPT ![e].doc.url = t, ![e].url = "idle"]

\* RichTextEditor, not in viewMode: what it reports is markup, never empty.
EditGoal(e, t) ==
    /\ Change(e, "goal")
    /\ ~page[e].view
    /\ t # Blank
    /\ page[e].doc.goal # t
    /\ page' = [page EXCEPT ![e].doc.goal = t]

\* addCheckpoint.
AddStep(e) ==
    /\ Change(e, "steps")
    /\ Len(page[e].doc.steps) < MaxSteps
    /\ LET n == Len(page[e].doc.steps) + 1 IN
         page' = [page EXCEPT ![e].doc.steps = Append(@, Step(n, Blank)), ![e].active = n]

\* updateCheckpoint of the step that is shown.
UpdateStep(e, t) ==
    /\ Change(e, "steps")
    /\ ~page[e].view
    /\ t # Blank
    /\ page[e].active # 0
    /\ page' = [page EXCEPT ![e].doc.steps[page[e].active].text = t]

\* The step that is shown may be the one behind the last.
RemoveStep_Past(e) ==
    /\ Change(e, "steps")
    /\ page[e].active # 0
    /\ LET i == page[e].active
           rest == RemoveAt(page[e].doc.steps, i) IN
         page' = [page EXCEPT ![e].doc.steps = Renumbered(rest),
                              ![e].active = IF rest = << >> THEN 0 ELSE i]

\* The steps behind the removed one keep their numbers.
RemoveStep_Unnumbered(e) ==
    /\ Change(e, "steps")
    /\ page[e].active # 0
    /\ LET i == page[e].active
           rest == RemoveAt(page[e].doc.steps, i) IN
         page' = [page EXCEPT ![e].doc.steps = rest,
                              ![e].active = IF i <= Len(rest) THEN i ELSE Len(rest)]

\* removeCheckpoint of the step that is shown, view or not.
RemoveStep(e) ==
    /\ Change(e, "steps")
    /\ page[e].active # 0
    /\ LET i == page[e].active
           rest == RemoveAt(page[e].doc.steps, i) IN
         page' = [page EXCEPT ![e].doc.steps = Renumbered(rest),
                              ![e].active = IF i <= Len(rest) THEN i ELSE Len(rest)]

SetActive(e, i) ==
    /\ page[e].phase = "form"
    /\ i \in DOMAIN page[e].doc.steps
    /\ page' = [page EXCEPT ![e].active = i]
    /\ UNCHANGED <<rows, put, check, edits, saves, marks, reached, uses>>

\* checkUrl: a HEAD request, offered again once the URL was changed.
Verify(e) ==
    /\ "verify" \in uses
    /\ page[e].phase = "form"
    /\ page[e].doc.url # Blank
    /\ page[e].url # "checking"
    /\ check' = [check EXCEPT ![e] = @ \cup {page[e].doc.url}]
    /\ page' = [page EXCEPT ![e].url = "checking"]
    /\ UNCHANGED <<rows, put, edits, saves, marks, reached, uses>>

\* Its end is the state of whatever URL the form holds by then.
Verified(e, t, ok) ==
    /\ t \in check[e]
    /\ check' = [check EXCEPT ![e] = @ \ {t}]
    /\ page' = [page EXCEPT ![e].url = IF ok THEN "ok" ELSE "error"]
    /\ reached' = [reached EXCEPT ![e] = IF ok THEN @ \cup {t} ELSE @]
    /\ marks' = [marks EXCEPT ![e] = (@ \ {"moved"}) \cup
                    (IF t # page[e].doc.url THEN {"moved"} ELSE {})]
    /\ UNCHANGED <<rows, put, edits, saves, uses>>

-----------------------------------------------------------------------------
(* Saving *)

\* handleSave: the button is disabled while saving and for an invalid form.
Save(e) ==
    /\ page[e].phase = "form"
    /\ ~page[e].run
    /\ put[e] = Absent
    /\ Valid(page[e].doc)
    /\ saves > 0
    /\ saves' = saves - 1
    /\ put' = [put EXCEPT ![e] = [doc |-> Body(page[e].doc), case |-> page[e].case,
                                  step |-> "asked", version |-> 0]]
    /\ marks' = [marks EXCEPT ![e] = @ \ {"during"}]
    /\ UNCHANGED <<rows, page, check, edits, reached, uses>>

\* The others that show the test case show an old one from now on.
Outdated(e, c) ==
    marks' = [f \in Editors |->
        IF page[f].case # c THEN marks[f]
        ELSE IF f = e THEN marks[f] \ {"other"} ELSE marks[f] \cup {"other"}]

\* POST: a new row.  There is nothing to wait for: the id is new.
Create(e, c) ==
    /\ put[e] # Absent
    /\ put[e].case = Absent
    /\ put[e].step = "asked"
    /\ rows[c] = Absent
    /\ rows' = [rows EXCEPT ![c] = [version |-> 1, doc |-> put[e].doc]]
    /\ put' = [put EXCEPT ![e].step = "answer", ![e].case = c]
    /\ UNCHANGED <<page, check, edits, saves, marks, reached, uses>>

\* PUT reads the row, for its version ...
PutRead(e) ==
    /\ put[e] # Absent
    /\ put[e].case # Absent
    /\ put[e].step = "asked"
    /\ put' = [put EXCEPT ![e].step = "read", ![e].version = rows[put[e].case].version]
    /\ IF \E f \in Editors \ {e}: /\ put[f] # Absent
                                  /\ put[f].step = "read"
                                  /\ put[f].case = put[e].case
       THEN marks' = [f \in Editors |-> marks[f] \cup {"overlap"}] ELSE UNCHANGED marks
    /\ UNCHANGED <<rows, page, check, edits, saves, reached, uses>>

\* ... and replaces its document, but for the steps.
PutWrite_KeepsSteps(e) ==
    /\ put[e] # Absent
    /\ put[e].step = "read"
    /\ rows' = [rows EXCEPT ![put[e].case] = [version |-> put[e].version + 1,
                   doc |-> [put[e].doc EXCEPT !.steps = rows[put[e].case].doc.steps]]]
    /\ put' = [put EXCEPT ![e].step = "answer"]
    /\ Outdated(e, put[e].case)
    /\ UNCHANGED <<page, check, edits, saves, reached, uses>>

\* ... and replaces its document.
PutWrite(e) ==
    /\ put[e] # Absent
    /\ put[e].step = "read"
    /\ rows' = [rows EXCEPT ![put[e].case] = [version |-> put[e].version + 1, doc |-> put[e].doc]]
    /\ put' = [put EXCEPT ![e].step = "answer"]
    /\ Outdated(e, put[e].case)
    /\ UNCHANGED <<page, check, edits, saves, reached, uses>>

\* Saved, without loading the test case again.
PutAnswer_NoLoad(e) ==
    /\ put[e] # Absent
    /\ put[e].step = "answer"
    /\ put' = [put EXCEPT ![e] = Absent]
    /\ page' = [page EXCEPT ![e] =
          IF @.phase # "form" THEN @
          ELSE IF @.case = Absent THEN [@ EXCEPT !.goes = put[e].case]
          ELSE [@ EXCEPT !.view = TRUE]]
    /\ UNCHANGED <<rows, check, edits, saves, marks, reached, uses>>

\* The answer: a created test case is navigated to, a saved one loaded again.
PutAnswer(e) ==
    /\ put[e] # Absent
    /\ put[e].step = "answer"
    /\ put' = [put EXCEPT ![e] = Absent]
    /\ page' = [page EXCEPT ![e] =
          IF @.phase # "form" THEN @
          ELSE IF @.case = Absent THEN [@ EXCEPT !.goes = put[e].case]
          ELSE [@ EXCEPT !.view = TRUE, !.phase = "loading"]]
    /\ UNCHANGED <<rows, check, edits, saves, marks, reached, uses>>

\* Failed to save, executed or not: the form stays as it is.
PutFails(e) ==
    /\ put[e] # Absent
    /\ put' = [put EXCEPT ![e] = Absent]
    /\ marks' = [marks EXCEPT ![e] = @ \cup (IF put[e].step = "answer" THEN {"unanswered"} ELSE {})]
    /\ UNCHANGED <<rows, page, check, edits, saves, reached, uses>>

\* router.push takes its time, with the form and its Create button enabled; it
\* does not end while a second creation is under way (bound).
Navigate(e) ==
    /\ page[e].goes # Absent
    /\ put[e] = Absent
    /\ page' = [page EXCEPT ![e] = Mounted(page[e].goes)]
    /\ check' = [check EXCEPT ![e] = {}]
    /\ reached' = [reached EXCEPT ![e] = {}]
    /\ marks' = [marks EXCEPT ![e] = {}]
    /\ UNCHANGED <<rows, put, edits, saves, uses>>

\* The Run button, enabled by savedView: "Save changes before running".
OpenRun(e) ==
    /\ "run" \in uses
    /\ page[e].phase = "form"
    /\ page[e].case # Absent
    /\ page[e].view
    /\ page' = [page EXCEPT ![e].run = TRUE]
    /\ UNCHANGED <<rows, put, check, edits, saves, marks, reached, uses>>

\* NewRunModal: cancelled, failed, or started: then the page of runs is opened.
CloseRun(e, started) ==
    /\ page[e].phase = "form" \/ (started /\ page[e].phase = "loading")
    /\ page[e].run
    /\ page' = [page EXCEPT ![e].run = FALSE, ![e].phase = IF started THEN "left" ELSE @]
    /\ UNCHANGED <<rows, put, check, edits, saves, marks, reached, uses>>

-----------------------------------------------------------------------------
Next == \E e \in Editors:
    \/ LoadRead(e) \/ LoadArrives(e) \/ LoadFails(e)
    \/ EditAll(e) \/ AddStep(e) \/ RemoveStep(e)
    \/ \E t \in Names: EditName(e, t)
    \/ \E t \in Settings: \/ EditLabels(e, t) \/ EditTarget(e, t) \/ EditExecution(e, t)
                         \/ EditCapture(e, t) \/ EditContext(e, t)
    \/ \E h \in Headers: EditHeaders(e, h)
    \/ \E t \in Urls: EditUrl(e, t)
    \/ \E t \in Texts: EditGoal(e, t) \/ UpdateStep(e, t)
    \/ \E i \in 1..MaxSteps: SetActive(e, i)
    \/ Verify(e)
    \/ \E t \in Urls, ok \in BOOLEAN: Verified(e, t, ok)
    \/ Save(e) \/ PutRead(e) \/ PutWrite(e) \/ PutAnswer(e) \/ PutFails(e)
    \/ \E c \in Cases: Create(e, c)
    \/ Navigate(e) \/ OpenRun(e)
    \/ \E started \in BOOLEAN: CloseRun(e, started)

Spec == Init /\ [][Next]_vars

-----------------------------------------------------------------------------
(* Properties *)

Pages == [case: Cases \cup {Absent}, phase: {"loading", "form", "left"},
          got: Docs \cup {Absent}, doc: Docs, base: Docs \cup {Absent}, active: Nat,
          view: BOOLEAN, url: {"idle", "checking", "ok", "error"}, run: BOOLEAN,
          goes: Cases \cup {Absent}]
Marks == {"typed", "during", "other", "overtaken", "overlap", "moved", "unanswered"}

ShowsStep(p) == p.active \in IF p.doc.steps = << >> THEN {0} ELSE DOMAIN p.doc.steps
Numbered(steps) == \A j \in DOMAIN steps: steps[j].id = j

\* Types; the steps of a form are numbered from 1, and one of them is shown
\* unless there is none, however steps were added, removed and loaded.
TypeOK ==
    /\ rows \in [Cases -> TestCases \cup {Absent}]
    /\ page \in [Editors -> Pages]
    /\ put \in [Editors -> Puts \cup {Absent}]
    /\ check \in [Editors -> SUBSET Urls] /\ reached \in [Editors -> SUBSET Urls]
    /\ edits \in Nat /\ saves \in Nat
    /\ marks \in [Editors -> SUBSET Marks]
    /\ \A e \in Editors: ShowsStep(page[e])

\* The routes store what they are sent, the page alone checks it: whatever the
\* editors do and whatever was imported before, a test case that an editor saved
\* passes the page's own checks and its steps are numbered in order.
StoredIsComplete ==
    \A c \in Cases: rows[c] # Absent /\ rows[c] # Stored[c]
        => Valid(rows[c].doc) /\ Numbered(rows[c].doc.steps)

\* Forms and rows are well formed, whoever wrote them.
WellFormed == TypeOK /\ StoredIsComplete

\* A page in its saved view shows what is stored, and so what Run will execute,
\* except after a change that does not end the saved view or was made during a
\* save, or after a save of another editor.  A save that was executed and reported
\* as failed leaves in view the incomplete headers it has dropped.
SavedViewIsStored ==
    \A e \in Editors:
        /\ page[e].phase = "form" /\ page[e].view /\ put[e] = Absent
        /\ marks[e] \cap {"typed", "other", "during"} = {}
        => \/ page[e].doc = Loaded(rows[page[e].case].doc)
           \/ "unanswered" \in marks[e] /\ rows[page[e].case].doc = Body(page[e].doc)

\* The load that follows a save gives back what the user typed (but for headers
\* that are incomplete), unless he went on typing while the save was under way, or
\* another editor saved in between.
NothingReplaced ==
    [][\A e \in Editors:
         page[e].phase = "loading" /\ page'[e].phase = "form" /\ page[e].base # Absent
         => \/ page'[e].doc = Body(page[e].doc)
            \/ marks[e] \cap {"during", "overtaken"} # {}]_vars

\* The version of a test case grows with every save, unless two saves overlap:
\* no other order of requests makes a version lose a save.
VersionsGrow ==
    [][\A c \in Cases: rows[c] # Absent /\ rows'[c] # rows[c]
         => \/ rows'[c].version > rows[c].version
            \/ \E e \in Editors: "overlap" \in marks[e]]_vars

\* No save is lost, neither the user's words in his own page nor the version by
\* which others see that there was one.
NoSaveLost == NothingReplaced /\ VersionsGrow

\* "URL is reachable" (page.tsx:843) is only said of a URL that answered, unless
\* the answer to an earlier URL came late or the form was loaded with another.
ReachableWasChecked ==
    \A e \in Editors: page[e].url = "ok"
        => page[e].doc.url \in reached[e] \/ "moved" \in marks[e]

=============================================================================
