------------------------ MODULE TestCaseEditorProofs ------------------------
(***************************************************************************)
(* What the forms of a test case and its row may be, for any number of     *)
(* editors, test cases, edits and saves.                                   *)
(*                                                                         *)
(* A form in its saved view was loaded, so that the properties follow what *)
(* a load and a save carry: the document that was read (LoadInv), the one  *)
(* that was sent (PutInv), and until when either is that of the row.       *)
(***************************************************************************)
EXTENDS TestCaseEditor, SequenceTheorems, TLAPS

\* Rows are never removed: what a page or a request names is stored.
RowsInv(e) ==
    /\ page[e].case # Absent => rows[page[e].case] # Absent
    /\ page[e].goes # Absent => rows[page[e].goes] # Absent
    /\ put[e] # Absent /\ put[e].case # Absent => rows[put[e].case] # Absent

PageInv(e) ==
    /\ page[e].phase = "loading" => page[e].case # Absent /\ put[e] = Absent
    /\ page[e].phase = "form" => page[e].got = Absent
    /\ page[e].view => page[e].case # Absent
    /\ page[e].phase = "form" /\ page[e].view /\ "during" \in marks[e] => "typed" \in marks[e]
    /\ Numbered(page[e].doc.steps)

\* A request has what its form had, and what it wrote is stored until another
\* editor writes.
PutInv(e) == put[e] # Absent =>
    /\ Valid(put[e].doc) /\ Numbered(put[e].doc.steps)
    /\ \/ put[e].case = page[e].case
       \/ page[e].case = Absent /\ put[e].step = "answer"
    /\ put[e].step # "asked" => put[e].case # Absent
    /\ "during" \notin marks[e] => put[e].doc = Body(page[e].doc)
    /\ put[e].step = "answer" /\ page[e].case # Absent /\ "other" \notin marks[e] =>
          rows[page[e].case].doc = put[e].doc

\* The version a request has read is the latest, or requests overlapped.
ReadInv(e) ==
    put[e] # Absent /\ put[e].step = "read" =>
        /\ put[e].version = rows[put[e].case].version \/ "overlap" \in marks[e]
        /\ \A f \in Editors \ {e} :
              put[f] # Absent /\ put[f].step = "read" /\ put[f].case = put[e].case =>
                  "overlap" \in marks[e]

\* What a load has read is stored until another editor writes, and after a save
\* it is what was saved.
LoadInv(e) == page[e].phase = "loading" =>
    /\ page[e].got # Absent /\ "other" \notin marks[e] => page[e].got = rows[page[e].case].doc
    /\ page[e].base # Absent /\ "during" \notin marks[e] =>
         /\ page[e].got = Absent /\ "other" \notin marks[e] =>
               rows[page[e].case].doc = Body(page[e].doc)
         /\ page[e].got # Absent /\ "overtaken" \notin marks[e] => page[e].got = Body(page[e].doc)

\* SavedViewIsStored, until the page's own save is executed.
ViewInv(e) ==
    /\ page[e].phase = "form" /\ page[e].view /\ marks[e] \cap {"typed", "other"} = {}
    /\ put[e] = Absent \/ put[e].step # "answer"
    => \/ page[e].doc = Loaded(rows[page[e].case].doc)
       \/ "unanswered" \in marks[e] /\ rows[page[e].case].doc = Body(page[e].doc)

\* ReachableWasChecked.
ReachInv(e) ==
    page[e].url = "ok" => page[e].doc.url \in reached[e] \/ "moved" \in marks[e]

\* All of it but ReadInv is about one editor and the rows.
OwnInv(e) == RowsInv(e) /\ PageInv(e) /\ PutInv(e) /\ LoadInv(e) /\ ViewInv(e) /\ ReachInv(e)

IInv == TypeOK /\ StoredIsComplete /\ \A e \in Editors : OwnInv(e) /\ ReadInv(e)

-----------------------------------------------------------------------------
(* Documents *)

LEMMA EmptyDocIsDoc == EmptyDoc \in Docs /\ Numbered(EmptyDoc.steps) /\ EmptyDoc.steps = << >>
  <1>1. << >> \in Steps
    BY EmptySeq DEF Steps
  <1> QED  BY <1>1, TextsAssumption DEF EmptyDoc, Docs, Numbered

LEMMA FunctionIsSeq ==
  ASSUME NEW S, NEW n \in Nat, NEW f \in [1..n -> S]
  PROVE  f \in Seq(S) /\ Len(f) = n
  <1>1. f \in Seq(S)
    BY SeqDef
  <1>2. Len(f) \in Nat /\ DOMAIN f = 1..Len(f) /\ DOMAIN f = 1..n
    BY <1>1, LenProperties
  <1> QED  BY <1>1, <1>2

\* The entries of a form.
LEMMA EntriesOf ==
  ASSUME NEW s \in Steps
  PROVE  /\ s \in Seq(Entries) /\ Len(s) \in Nat /\ DOMAIN s = 1..Len(s)
         /\ \A j \in 1..Len(s) : s[j] \in Entries
         /\ s = << >> <=> Len(s) = 0
  <1>1. s \in Seq(Entries)
    BY DEF Steps
  <1> QED  BY <1>1, LenProperties, ElementOfSeq, EmptySeq

\* Renumbering leaves as many steps as there were.
LEMMA RenumberedSteps ==
  ASSUME NEW s \in Steps
  PROVE  /\ Renumbered(s) \in Steps /\ Numbered(Renumbered(s))
         /\ Len(Renumbered(s)) = Len(s)
         /\ Renumbered(s) = << >> <=> s = << >>
         /\ Numbered(s) => Renumbered(s) = s
  <1>1. Len(s) \in Nat /\ DOMAIN s = 1..Len(s) /\ \A j \in 1..Len(s) : s[j] \in Entries
    BY EntriesOf
  <1>2. \A j \in 1..Len(s) : [s[j] EXCEPT !.id = j] \in Entries /\ [s[j] EXCEPT !.id = j].id = j
    BY <1>1 DEF Entries
  <1>3. Renumbered(s) = [j \in 1..Len(s) |-> [s[j] EXCEPT !.id = j]]
    BY <1>1 DEF Renumbered
  <1>4. Renumbered(s) \in Steps /\ Len(Renumbered(s)) = Len(s)
    <2>1. Renumbered(s) \in [1..Len(s) -> Entries]
      BY <1>2, <1>3
    <2> QED  BY <2>1, <1>1, FunctionIsSeq DEF Steps
  <1>5. Numbered(Renumbered(s))
    BY <1>2, <1>3 DEF Numbered
  <1>6. Renumbered(s) = << >> <=> s = << >>
    BY <1>4, EntriesOf
  <1>7. ASSUME Numbered(s) PROVE Renumbered(s) = s
    <2>1. \A j \in 1..Len(s) : [s[j] EXCEPT !.id = j] = s[j]
      BY <1>1, <1>7 DEF Numbered, Entries
    <2>2. Renumbered(s) = [j \in 1..Len(s) |-> s[j]]
      BY <2>1, <1>3
    <2>3. s \in [1..Len(s) -> Entries]
      BY EntriesOf, LenProperties
    <2> QED  BY <2>2, <2>3
  <1> QED  BY <1>4, <1>5, <1>6, <1>7

\* A load numbers the steps and leaves the rest alone.
LEMMA LoadedDoc ==
  ASSUME NEW d \in Docs
  PROVE  /\ Loaded(d) \in Docs /\ Numbered(Loaded(d).steps)
         /\ Loaded(d).steps = << >> <=> d.steps = << >>
         /\ Loaded(d).url = d.url
         /\ Numbered(d.steps) => Loaded(d) = d
  <1>1. d.steps \in Steps
    BY DEF Docs
  <1>2. Loaded(d) = [d EXCEPT !.steps = Renumbered(d.steps)]
    BY DEF Loaded
  <1>3. Renumbered(d.steps) \in Steps
    BY <1>1, RenumberedSteps
  <1>4. Loaded(d) \in Docs /\ Loaded(d).steps = Renumbered(d.steps) /\ Loaded(d).url = d.url
    BY <1>2, <1>3 DEF Docs
  <1>5. ASSUME Numbered(d.steps) PROVE Loaded(d) = d
    <2>1. Renumbered(d.steps) = d.steps
      BY <1>1, <1>5, RenumberedSteps
    <2> QED  BY <2>1, <1>2 DEF Docs
  <1> QED  BY <1>1, <1>4, <1>5, RenumberedSteps

\* A save drops headers and nothing else.
LEMMA BodyDoc ==
  ASSUME NEW d \in Docs
  PROVE  Body(d) \in Docs /\ Body(d).steps = d.steps /\ (Valid(d) => Valid(Body(d)))
  BY DEF Body, Docs, Valid

\* Removing a step leaves one less.
LEMMA RemovedStep ==
  ASSUME NEW s \in Steps, NEW i \in DOMAIN s
  PROVE  RemoveAt(s, i) \in Steps /\ Len(RemoveAt(s, i)) = Len(s) - 1
  <1>1. Len(s) \in Nat /\ i \in 1..Len(s) /\ \A j \in 1..Len(s) : s[j] \in Entries
    BY EntriesOf
  <1>2. SubSeq(s, 1, i-1) \in Seq(Entries) /\ Len(SubSeq(s, 1, i-1)) = i - 1
    <2>1. \A j \in 1..(i-1) : s[j] \in Entries
      BY <1>1
    <2>2. 1 \in Int /\ i-1 \in Int
      BY <1>1
    <2>3. /\ SubSeq(s, 1, i-1) \in Seq(Entries)
          /\ Len(SubSeq(s, 1, i-1)) = IF 1 <= i-1 THEN i-1-1+1 ELSE 0
      BY <2>1, <2>2, SubSeqProperties
    <2> QED  BY <2>3, <1>1
  <1>3. SubSeq(s, i+1, Len(s)) \in Seq(Entries) /\ Len(SubSeq(s, i+1, Len(s))) = Len(s) - i
    <2>1. \A j \in (i+1)..Len(s) : s[j] \in Entries
      BY <1>1
    <2>2. i+1 \in Int /\ Len(s) \in Int
      BY <1>1
    <2>3. /\ SubSeq(s, i+1, Len(s)) \in Seq(Entries)
          /\ Len(SubSeq(s, i+1, Len(s))) = IF i+1 <= Len(s) THEN Len(s)-(i+1)+1 ELSE 0
      BY <2>1, <2>2, SubSeqProperties
    <2> QED  BY <2>3, <1>1
  <1>4. /\ RemoveAt(s, i) \in Seq(Entries)
        /\ Len(RemoveAt(s, i)) = Len(SubSeq(s, 1, i-1)) + Len(SubSeq(s, i+1, Len(s)))
    <2>1. ASSUME NEW a \in Seq(Entries), NEW b \in Seq(Entries)
          PROVE  a \o b \in Seq(Entries) /\ Len(a \o b) = Len(a) + Len(b)
      BY ConcatProperties
    <2>2. RemoveAt(s, i) = SubSeq(s, 1, i-1) \o SubSeq(s, i+1, Len(s))
      BY DEF RemoveAt
    <2> QED  BY <2>1, <2>2, <1>2, <1>3
  <1>5. Len(RemoveAt(s, i)) = (i - 1) + (Len(s) - i)
    BY <1>2, <1>3, <1>4
  <1>6. i \in Int /\ Len(s) \in Int
    BY <1>1
  <1>7. Len(RemoveAt(s, i)) = Len(s) - 1
    BY <1>5, <1>6
  <1> QED  BY <1>4, <1>7 DEF Steps

LEMMA MountedPage ==
  ASSUME NEW c \in Cases \cup {Absent}
  PROVE  Mounted(c) \in Pages /\ ShowsStep(Mounted(c))
  <1>1. CASE c = Absent
    BY <1>1, EmptyDocIsDoc DEF Mounted, Pages, ShowsStep
  <1>2. CASE c # Absent
    BY <1>2, EmptyDocIsDoc DEF Mounted, Pages, ShowsStep
  <1> QED  BY <1>1, <1>2

-----------------------------------------------------------------------------
(* What one editor does *)

LEMMA Updated ==
  ASSUME NEW S, NEW F \in [Editors -> S], NEW e \in Editors, NEW v \in S
  PROVE  /\ [F EXCEPT ![e] = v] \in [Editors -> S]
         /\ [F EXCEPT ![e] = v][e] = v
         /\ \A f \in Editors \ {e} : [F EXCEPT ![e] = v][f] = F[f]
  OBVIOUS

LEMMA Typed ==
  ASSUME IInv, NEW e \in Editors
  PROVE  /\ page[e] \in Pages /\ ShowsStep(page[e])
         /\ put[e] \in Puts \cup {Absent}
         /\ marks[e] \in SUBSET Marks
         /\ check[e] \in SUBSET Urls /\ reached[e] \in SUBSET Urls
         /\ OwnInv(e) /\ ReadInv(e)
  BY DEF IInv, TypeOK

LEMMA PageFields ==
  ASSUME NEW p \in Pages
  PROVE  /\ p.case \in Cases \cup {Absent} /\ p.phase \in {"loading", "form", "left"}
         /\ p.got \in Docs \cup {Absent} /\ p.doc \in Docs /\ p.base \in Docs \cup {Absent}
         /\ p.active \in Nat /\ p.goes \in Cases \cup {Absent}
         /\ p.view \in BOOLEAN /\ p.run \in BOOLEAN
         /\ p.doc.steps \in Steps
  BY DEF Pages, Docs

LEMMA RowFields ==
  ASSUME IInv, NEW c \in Cases, rows[c] # Absent
  PROVE  rows[c] \in TestCases /\ rows[c].doc \in Docs /\ rows[c].version \in Nat
  BY DEF IInv, TypeOK, TestCases

\* One editor changes its page, its request and its marks, and no row.
Alone(e) ==
    /\ rows' = rows
    /\ \A f \in Editors \ {e} :
         /\ page'[f] = page[f] /\ put'[f] = put[f]
         /\ marks'[f] = marks[f] /\ reached'[f] = reached[f]

LEMMA OthersStay ==
  ASSUME IInv, NEW e \in Editors, NEW f \in Editors \ {e}, Alone(e)
  PROVE  OwnInv(f)'
  <1>1. OwnInv(f)
    BY DEF IInv
  <1>2. /\ page'[f] = page[f] /\ put'[f] = put[f] /\ rows' = rows
        /\ marks'[f] = marks[f] /\ reached'[f] = reached[f]
    BY DEF Alone
  <1> QED  BY <1>1, <1>2 DEF OwnInv, RowsInv, PageInv, PutInv, LoadInv, ViewInv, ReachInv

\* A request that is read stays as it is and remembers that it overlapped.
ReadKept(e) ==
    put'[e] # Absent /\ put'[e].step = "read" =>
        put'[e] = put[e] /\ ("overlap" \in marks[e] => "overlap" \in marks'[e])

LEMMA ReadStays ==
  ASSUME IInv, NEW e \in Editors, Alone(e), ReadKept(e), NEW f \in Editors
  PROVE  ReadInv(f)'
  <1>1. ReadInv(f)
    BY DEF IInv
  <1>2. rows' = rows
    BY DEF Alone
  <1>3. \A g \in Editors : put'[g] # Absent /\ put'[g].step = "read" =>
            put'[g] = put[g] /\ ("overlap" \in marks[g] => "overlap" \in marks'[g])
    BY DEF Alone, ReadKept
  <1> QED  BY <1>1, <1>2, <1>3 DEF ReadInv

\* Then the invariant has to be shown of this editor alone.
LEMMA AloneSuffices ==
  ASSUME IInv, NEW e \in Editors, Alone(e), ReadKept(e), OwnInv(e)', TypeOK'
  PROVE  IInv'
  <1>1. StoredIsComplete'
    BY DEF IInv, StoredIsComplete, Alone
  <1>2. \A f \in Editors : OwnInv(f)'
    BY OthersStay
  <1>3. \A f \in Editors : ReadInv(f)'
    BY ReadStays
  <1> QED  BY <1>1, <1>2, <1>3 DEF IInv

\* The types, when the form of one page changes and no row.
LEMMA TypeStays ==
  ASSUME IInv, NEW e \in Editors, NEW p \in Pages, ShowsStep(p),
         page' = [page EXCEPT ![e] = p], UNCHANGED rows,
         put' \in [Editors -> Puts \cup {Absent}], marks' \in [Editors -> SUBSET Marks],
         check' \in [Editors -> SUBSET Urls], reached' \in [Editors -> SUBSET Urls],
         edits' \in Nat, saves' \in Nat
  PROVE  TypeOK'
  <1>1. page \in [Editors -> Pages] /\ \A f \in Editors : ShowsStep(page[f])
    BY DEF IInv, TypeOK
  <1>2. /\ page' \in [Editors -> Pages]
        /\ \A f \in Editors : page'[f] = page[f] \/ page'[f] = p
    BY <1>1
  <1>3. \A f \in Editors : ShowsStep(page'[f])
    BY <1>1, <1>2
  <1>4. rows' \in [Cases -> TestCases \cup {Absent}]
    BY DEF IInv, TypeOK
  <1> QED  BY <1>2, <1>3, <1>4 DEF TypeOK, ShowsStep

-----------------------------------------------------------------------------
(* Changes of a form *)

\* A page on the same test case, with another form.
SamePage(p, q) ==
    /\ p.case = q.case /\ p.phase = q.phase /\ p.got = q.got /\ p.base = q.base
    /\ p.view = q.view /\ p.goes = q.goes

\* Whatever is changed, the marks except the page from what it breaks.
LEMMA ChangeKeeps ==
  ASSUME IInv, NEW e \in Editors, NEW kind, Change(e, kind), NEW p \in Pages,
         page' = [page EXCEPT ![e] = p], SamePage(p, page[e]),
         Numbered(p.doc.steps), ShowsStep(p),
         p.url = "idle" \/ (p.url = page[e].url /\ p.doc.url = page[e].doc.url)
  PROVE  IInv'
  <1> DEFINE m == marks[e] \cup (IF page[e].view THEN {"typed"} ELSE {})
                     \cup (IF put[e] # Absent THEN {"during"} ELSE {})
  <1>1. /\ page[e] \in Pages /\ marks[e] \in SUBSET Marks /\ put[e] \in Puts \cup {Absent}
        /\ OwnInv(e) /\ m \in SUBSET Marks
    BY Typed DEF Marks
  <1>2. page \in [Editors -> Pages] /\ marks \in [Editors -> SUBSET Marks]
    BY DEF IInv, TypeOK
  <1>3. /\ marks' = [marks EXCEPT ![e] = m] /\ page[e].phase = "form"
        /\ rows' = rows /\ put' = put /\ check' = check /\ reached' = reached /\ saves' = saves
        /\ edits > 0 /\ edits' = edits - 1
    BY Zenon DEF Change
  <1>4. /\ marks' \in [Editors -> SUBSET Marks] /\ marks'[e] = m
        /\ \A f \in Editors \ {e} : marks'[f] = marks[f]
    BY <1>1, <1>2, <1>3, Updated
  <1>5. page'[e] = p /\ \A f \in Editors \ {e} : page'[f] = page[f]
    BY <1>2
  <1>6. Alone(e)
    BY <1>3, <1>4, <1>5 DEF Alone
  <1>7. ReadKept(e)
    BY <1>3, <1>4 DEF ReadKept
  <1>8. TypeOK'
    <2>1. edits' \in Nat /\ saves' \in Nat
      BY <1>3 DEF IInv, TypeOK
    <2>2. /\ put' \in [Editors -> Puts \cup {Absent}] /\ check' \in [Editors -> SUBSET Urls]
          /\ reached' \in [Editors -> SUBSET Urls]
      BY <1>3 DEF IInv, TypeOK
    <2> QED  BY <2>1, <2>2, <1>3, <1>4, TypeStays
  <1>9. OwnInv(e)'
    <2>1. RowsInv(e)'
      BY <1>1, <1>3, <1>5 DEF OwnInv, RowsInv, SamePage
    <2>2. PageInv(e)'
      BY <1>1, <1>3, <1>4, <1>5 DEF OwnInv, PageInv, SamePage
    <2>3. PutInv(e)'
      BY <1>1, <1>3, <1>4, <1>5 DEF OwnInv, PutInv, SamePage
    <2>4. LoadInv(e)'
      BY <1>3, <1>5 DEF LoadInv, SamePage
    <2>5. ViewInv(e)'
      BY <1>4, <1>5 DEF ViewInv, SamePage
    <2>6. ReachInv(e)'
      BY <1>1, <1>3, <1>4, <1>5 DEF OwnInv, ReachInv
    <2> QED  BY <2>1, <2>2, <2>3, <2>4, <2>5, <2>6 DEF OwnInv
  <1> QED  BY <1>6, <1>7, <1>8, <1>9, AloneSuffices

\* A change of the form that leaves its steps and its URL alone.
LEMMA FieldChange ==
  ASSUME IInv, NEW e \in Editors, NEW kind, Change(e, kind), NEW d \in Docs,
         page' = [page EXCEPT ![e].doc = d],
         d.steps = page[e].doc.steps, d.url = page[e].doc.url
  PROVE  IInv'
  <1> DEFINE p == [page[e] EXCEPT !.doc = d]
  <1>1. page[e] \in Pages /\ ShowsStep(page[e]) /\ Numbered(page[e].doc.steps)
    BY Typed DEF OwnInv, PageInv
  <1>2. /\ p \in Pages /\ p.doc = d /\ p.active = page[e].active /\ p.url = page[e].url
        /\ SamePage(p, page[e])
    BY <1>1 DEF Pages, SamePage
  <1>3. page' = [page EXCEPT ![e] = p]
    BY DEF IInv, TypeOK
  <1>4. ShowsStep(p) /\ Numbered(p.doc.steps)
    BY <1>1, <1>2 DEF ShowsStep
  <1> HIDE DEF p
  <1> QED  BY <1>2, <1>3, <1>4, ChangeKeeps

LEMMA EditNameStep == ASSUME IInv, NEW e \in Editors, NEW t \in Names, EditName(e, t) PROVE IInv'
  <1> DEFINE d == [page[e].doc EXCEPT !.name = t]
  <1>1. page[e] \in Pages /\ page[e].doc \in Docs
    BY Typed, PageFields
  <1>2. d \in Docs /\ d.steps = page[e].doc.steps /\ d.url = page[e].doc.url
    BY <1>1 DEF Docs
  <1>3. Change(e, "name") /\ page' = [page EXCEPT ![e].doc.name = t]
    BY DEF EditName
  <1>4. page' = [page EXCEPT ![e].doc = d]
    BY <1>3
  <1> HIDE DEF d
  <1> QED  BY <1>2, <1>3, <1>4, FieldChange

LEMMA SetStep ==
  ASSUME IInv, NEW e \in Editors, NEW t \in Settings, NEW kind, Change(e, kind), Set(e, t)
  PROVE  IInv'
  <1> DEFINE d == [page[e].doc EXCEPT !.settings = t]
  <1>1. page[e] \in Pages /\ page[e].doc \in Docs
    BY Typed, PageFields
  <1>2. d \in Docs /\ d.steps = page[e].doc.steps /\ d.url = page[e].doc.url
    BY <1>1 DEF Docs
  <1>3. page' = [page EXCEPT ![e].doc = d]
    BY DEF Set
  <1> HIDE DEF d
  <1> QED  BY <1>2, <1>3, FieldChange

LEMMA SettingsStep ==
  ASSUME IInv, NEW e \in Editors, NEW t \in Settings,
         \/ EditLabels(e, t) \/ EditTarget(e, t) \/ EditExecution(e, t)
         \/ EditCapture(e, t) \/ EditContext(e, t)
  PROVE  IInv'
  <1>1. PICK kind \in {"labels", "target", "limits", "capture", "context"} :
           Change(e, kind) /\ Set(e, t)
    BY Zenon DEF EditLabels, EditTarget, EditExecution, EditCapture, EditContext
  <1> QED  BY <1>1, SetStep

LEMMA EditHeadersStep ==
  ASSUME IInv, NEW e \in Editors, NEW h \in Headers, EditHeaders(e, h) PROVE IInv'
  <1> DEFINE hs == IF h \in page[e].doc.headers THEN page[e].doc.headers \ {h}
                   ELSE page[e].doc.headers \cup {h}
             d == [page[e].doc EXCEPT !.headers = hs]
  <1>1. page[e] \in Pages /\ page[e].doc \in Docs
    BY Typed, PageFields
  <1>2. hs \in SUBSET Headers
    BY <1>1 DEF Docs
  <1>3. d \in Docs /\ d.steps = page[e].doc.steps /\ d.url = page[e].doc.url
    BY <1>1, <1>2 DEF Docs
  <1>4. Change(e, "headers") /\ page' = [page EXCEPT ![e].doc = d]
    BY DEF EditHeaders
  <1> HIDE DEF d
  <1> QED  BY <1>3, <1>4, FieldChange

LEMMA EditGoalStep == ASSUME IInv, NEW e \in Editors, NEW t \in Texts, EditGoal(e, t) PROVE IInv'
  <1> DEFINE d == [page[e].doc EXCEPT !.goal = t]
  <1>1. page[e] \in Pages /\ page[e].doc \in Docs
    BY Typed, PageFields
  <1>2. d \in Docs /\ d.steps = page[e].doc.steps /\ d.url = page[e].doc.url
    BY <1>1 DEF Docs
  <1>3. Change(e, "goal") /\ page' = [page EXCEPT ![e].doc = d]
    BY DEF EditGoal
  <1> HIDE DEF d
  <1> QED  BY <1>2, <1>3, FieldChange

LEMMA EditUrlStep == ASSUME IInv, NEW e \in Editors, NEW t \in Urls, EditUrl(e, t) PROVE IInv'
  <1> DEFINE d == [page[e].doc EXCEPT !.url = t]
             p == [page[e] EXCEPT !.doc = d, !.url = "idle"]
  <1>1. /\ page[e] \in Pages /\ ShowsStep(page[e]) /\ Numbered(page[e].doc.steps)
        /\ page[e].doc \in Docs
    BY Typed, PageFields DEF OwnInv, PageInv
  <1>2. d \in Docs /\ d.steps = page[e].doc.steps
    BY <1>1 DEF Docs
  <1>3. Change(e, "url") /\ page' = [page EXCEPT ![e] = p]
    BY DEF EditUrl, IInv, TypeOK
  <1> HIDE DEF d
  <1>4. /\ p \in Pages /\ p.doc = d /\ p.active = page[e].active /\ p.url = "idle"
        /\ SamePage(p, page[e])
    BY <1>1, <1>2 DEF Pages, SamePage
  <1>5. p.url = "idle" \/ (p.url = page[e].url /\ p.doc.url = page[e].doc.url)
    BY <1>4
  <1> HIDE DEF p
  <1>6. ShowsStep(p) /\ Numbered(p.doc.steps)
    BY <1>1, <1>2, <1>4 DEF ShowsStep
  <1> QED  BY <1>3, <1>4, <1>5, <1>6, ChangeKeeps

\* The steps of a form are exchanged, and which one is shown.
LEMMA StepsChange ==
  ASSUME IInv, NEW e \in Editors, Change(e, "steps"), NEW s \in Steps, NEW a \in Nat,
         page' = [page EXCEPT ![e].doc.steps = s, ![e].active = a],
         Numbered(s), a \in IF Len(s) = 0 THEN {0} ELSE 1..Len(s)
  PROVE  IInv'
  <1> DEFINE d == [page[e].doc EXCEPT !.steps = s]
             p == [page[e] EXCEPT !.doc = d, !.active = a]
  <1>1. page[e] \in Pages /\ page[e].doc \in Docs
    BY Typed, PageFields
  <1>2. d \in Docs /\ d.steps = s /\ d.url = page[e].doc.url
    BY <1>1 DEF Docs
  <1>3. page' = [page EXCEPT ![e] = p]
    BY DEF IInv, TypeOK
  <1> HIDE DEF d
  <1>4. /\ p \in Pages /\ p.doc = d /\ p.active = a /\ p.url = page[e].url
        /\ SamePage(p, page[e])
    BY <1>1, <1>2 DEF Pages, SamePage
  <1> HIDE DEF p
  <1>5. ShowsStep(p)
    BY <1>2, <1>4, EntriesOf DEF ShowsStep
  <1> QED  BY <1>2, <1>3, <1>4, <1>5, ChangeKeeps

LEMMA AddStepStep == ASSUME IInv, NEW e \in Editors, AddStep(e) PROVE IInv'
  <1> DEFINE s == page[e].doc.steps
             n == Len(s) + 1
             x == Step(n, Blank)
  <1>1. s \in Steps /\ Numbered(s)
    BY Typed, PageFields DEF OwnInv, PageInv
  <1>2. /\ Len(s) \in Nat /\ DOMAIN s = 1..Len(s) /\ s \in Seq(Entries)
        /\ \A j \in 1..Len(s) : s[j].id = j
    BY <1>1, EntriesOf DEF Numbered
  <1>3. x \in Entries /\ x.id = n /\ n \in Nat
    BY <1>2, TextsAssumption DEF Step, Entries
  <1>4. /\ Change(e, "steps")
        /\ page' = [page EXCEPT ![e].doc.steps = Append(s, x), ![e].active = n]
    BY DEF AddStep
  <1> HIDE DEF s, x
  <1>5. /\ Append(s, x) \in Seq(Entries) /\ Len(Append(s, x)) = n
        /\ \A j \in 1..n : Append(s, x)[j] = IF j <= Len(s) THEN s[j] ELSE x
    BY <1>2, <1>3, AppendProperties
  <1>6. Append(s, x) \in Steps /\ DOMAIN Append(s, x) = 1..n
    BY <1>5, EntriesOf DEF Steps
  <1>7. Numbered(Append(s, x))
    BY <1>2, <1>3, <1>5, <1>6 DEF Numbered
  <1>8. n \in IF Len(Append(s, x)) = 0 THEN {0} ELSE 1..Len(Append(s, x))
    BY <1>2, <1>5
  <1> QED  BY <1>3, <1>4, <1>6, <1>7, <1>8, StepsChange

LEMMA UpdateStepStep == ASSUME IInv, NEW e \in Editors, NEW t \in Texts, UpdateStep(e, t) PROVE IInv'
  <1> DEFINE s == page[e].doc.steps
             a == page[e].active
             x == [s[a] EXCEPT !.text = t]
             u == [s EXCEPT ![a] = x]
  <1>1. s \in Steps /\ Numbered(s) /\ a \in Nat /\ ShowsStep(page[e]) /\ page[e] \in Pages
    BY Typed, PageFields DEF OwnInv, PageInv
  <1>2. /\ Len(s) \in Nat /\ DOMAIN s = 1..Len(s) /\ s \in Seq(Entries)
        /\ s = << >> <=> Len(s) = 0
        /\ \A j \in 1..Len(s) : s[j].id = j /\ s[j] \in Entries
    BY <1>1, EntriesOf DEF Numbered
  <1>3. Change(e, "steps") /\ a # 0 /\ page' = [page EXCEPT ![e].doc.steps[a].text = t]
    BY DEF UpdateStep
  <1>4. a \in 1..Len(s)
    BY <1>1, <1>2, <1>3 DEF ShowsStep
  <1>5. x \in Entries /\ x.id = a
    BY <1>2, <1>4 DEF Entries
  <1>6. page' = [page EXCEPT ![e].doc.steps = u, ![e].active = a]
    <2>1. page \in [Editors -> Pages]
      BY DEF IInv, TypeOK
    <2>2. page' = [page EXCEPT ![e] = [page[e] EXCEPT !.doc = [page[e].doc EXCEPT !.steps = u]]]
      BY <1>3
    <2>3. [page[e] EXCEPT !.doc = [page[e].doc EXCEPT !.steps = u]] =
          [page[e] EXCEPT !.doc = [page[e].doc EXCEPT !.steps = u], !.active = a]
      BY <1>1 DEF Pages
    <2> QED  BY <2>1, <2>2, <2>3
  <1> HIDE DEF x
  <1>7. u \in Seq(Entries) /\ Len(u) = Len(s) /\ \A j \in 1..Len(s) : u[j] = IF j = a THEN x ELSE s[j]
    BY <1>2, <1>4, <1>5, ExceptSeq
  <1> HIDE DEF s, u
  <1>8. u \in Steps /\ DOMAIN u = 1..Len(s)
    BY <1>7, EntriesOf DEF Steps
  <1>9. Numbered(u)
    BY <1>2, <1>5, <1>7, <1>8 DEF Numbered
  <1>10. a \in IF Len(u) = 0 THEN {0} ELSE 1..Len(u)
    BY <1>2, <1>4, <1>7
  <1> QED  BY <1>1, <1>3, <1>6, <1>8, <1>9, <1>10, StepsChange

LEMMA RemoveStepStep == ASSUME IInv, NEW e \in Editors, RemoveStep(e) PROVE IInv'
  <1> DEFINE s == page[e].doc.steps
             i == page[e].active
             r == RemoveAt(s, i)
             u == Renumbered(r)
             a == IF i <= Len(r) THEN i ELSE Len(r)
  <1>1. s \in Steps /\ i \in Nat /\ ShowsStep(page[e])
    BY Typed, PageFields
  <1>2. Len(s) \in Nat /\ DOMAIN s = 1..Len(s) /\ (s = << >> <=> Len(s) = 0)
    BY <1>1, EntriesOf
  <1>3. /\ Change(e, "steps") /\ i # 0
        /\ page' = [page EXCEPT ![e].doc.steps = u, ![e].active = a]
    BY Zenon DEF RemoveStep
  <1>4. i \in 1..Len(s)
    BY <1>1, <1>2, <1>3 DEF ShowsStep
  <1>5. r \in Steps /\ Len(r) = Len(s) - 1
    BY <1>1, <1>2, <1>4, RemovedStep
  <1>6. u \in Steps /\ Numbered(u) /\ Len(u) = Len(r)
    BY <1>5, RenumberedSteps
  <1> HIDE DEF s, i, r, u
  <1>7. a \in Nat /\ a \in IF Len(u) = 0 THEN {0} ELSE 1..Len(u)
    BY <1>2, <1>4, <1>5, <1>6
  <1> HIDE DEF a
  <1> QED  BY <1>3, <1>6, <1>7, StepsChange

-----------------------------------------------------------------------------
(* What leaves the form alone *)

\* A page keeps its document, and may leave or end its saved view.
SameForm(p, q) ==
    /\ p.case = q.case /\ p.got = q.got /\ p.base = q.base /\ p.goes = q.goes
    /\ p.doc = q.doc
    /\ p.phase \in {q.phase, "left"}
    /\ p.view => q.view

LEMMA FormKept ==
  ASSUME IInv, NEW e \in Editors, NEW p \in Pages,
         page' = [page EXCEPT ![e] = p], SameForm(p, page[e]), ShowsStep(p),
         NEW m \in SUBSET Marks, marks' = [marks EXCEPT ![e] = m],
         m \cup {"moved"} = marks[e] \cup {"moved"},
         UNCHANGED <<rows, put, edits, saves>>,
         check' \in [Editors -> SUBSET Urls], reached' \in [Editors -> SUBSET Urls],
         \A f \in Editors \ {e} : reached'[f] = reached[f],
         ReachInv(e)'
  PROVE  IInv'
  <1>1. /\ page[e] \in Pages /\ marks[e] \in SUBSET Marks /\ put[e] \in Puts \cup {Absent}
        /\ OwnInv(e)
    BY Typed
  <1>2. page \in [Editors -> Pages] /\ marks \in [Editors -> SUBSET Marks]
    BY DEF IInv, TypeOK
  <1>3. /\ marks' \in [Editors -> SUBSET Marks] /\ marks'[e] = m
        /\ \A f \in Editors \ {e} : marks'[f] = marks[f]
    BY <1>2, Updated
  <1>4. page'[e] = p /\ \A f \in Editors \ {e} : page'[f] = page[f]
    BY <1>2
  <1>5. \A x \in Marks \ {"moved"} : x \in m <=> x \in marks[e]
    OBVIOUS
  <1>6. /\ "during" \in m <=> "during" \in marks[e]
        /\ "typed" \in m <=> "typed" \in marks[e]
        /\ "other" \in m <=> "other" \in marks[e]
        /\ "overtaken" \in m <=> "overtaken" \in marks[e]
        /\ "overlap" \in m <=> "overlap" \in marks[e]
        /\ "unanswered" \in m <=> "unanswered" \in marks[e]
    BY <1>5 DEF Marks
  <1>7. Alone(e)
    BY <1>3, <1>4 DEF Alone
  <1>8. ReadKept(e)
    BY <1>3, <1>6 DEF ReadKept
  <1>9. TypeOK'
    <2>1. put' \in [Editors -> Puts \cup {Absent}] /\ edits' \in Nat /\ saves' \in Nat
      BY DEF IInv, TypeOK
    <2> QED  BY <2>1, <1>3, TypeStays
  <1>10. OwnInv(e)'
    <2>1. RowsInv(e)'
      BY <1>1, <1>4 DEF OwnInv, RowsInv, SameForm
    <2>2. PageInv(e)'
      BY <1>1, <1>3, <1>4, <1>6 DEF OwnInv, PageInv, SameForm
    <2>3. PutInv(e)'
      BY <1>1, <1>3, <1>4, <1>6 DEF OwnInv, PutInv, SameForm
    <2>4. LoadInv(e)'
      BY <1>1, <1>3, <1>4, <1>6 DEF OwnInv, LoadInv, SameForm
    <2>5. ViewInv(e)'
      BY <1>1, <1>3, <1>4, <1>6 DEF OwnInv, ViewInv, SameForm
    <2> QED  BY <2>1, <2>2, <2>3, <2>4, <2>5 DEF OwnInv
  <1> QED  BY <1>7, <1>8, <1>9, <1>10, AloneSuffices

\* The same, when neither marks nor requests change.
LEMMA OnlyPage ==
  ASSUME IInv, NEW e \in Editors, NEW p \in Pages,
         page' = [page EXCEPT ![e] = p], SameForm(p, page[e]), ShowsStep(p),
         UNCHANGED <<rows, put, check, edits, saves, marks, reached, uses>>,
         p.url = "ok" => page[e].url = "ok"
  PROVE  IInv'
  <1>1. marks[e] \in SUBSET Marks /\ OwnInv(e)
    BY Typed
  <1>2. marks' = [marks EXCEPT ![e] = marks[e]] /\ page'[e] = p
    BY DEF IInv, TypeOK
  <1>3. check' \in [Editors -> SUBSET Urls] /\ reached' \in [Editors -> SUBSET Urls]
    BY DEF IInv, TypeOK
  <1>4. ReachInv(e)'
    BY <1>1, <1>2 DEF OwnInv, ReachInv, SameForm
  <1> QED  BY <1>1, <1>2, <1>3, <1>4, FormKept

LEMMA EditAllStep == ASSUME IInv, NEW e \in Editors, EditAll(e) PROVE IInv'
  <1> DEFINE p == [page[e] EXCEPT !.view = FALSE]
  <1>1. page[e] \in Pages /\ ShowsStep(page[e])
    BY Typed
  <1>2. p \in Pages /\ SameForm(p, page[e]) /\ ShowsStep(p) /\ p.url = page[e].url
    BY <1>1 DEF Pages, SameForm, ShowsStep
  <1>3. page' = [page EXCEPT ![e] = p]
    BY DEF EditAll, IInv, TypeOK
  <1> HIDE DEF p
  <1> QED  BY <1>2, <1>3, OnlyPage DEF EditAll

LEMMA SetActiveStep == ASSUME IInv, NEW e \in Editors, NEW i \in 1..MaxSteps, SetActive(e, i) PROVE IInv'
  <1> DEFINE p == [page[e] EXCEPT !.active = i]
  <1>1. page[e] \in Pages /\ page[e].doc.steps \in Steps /\ i \in Nat
    BY Typed, PageFields, BoundsAssumption
  <1>2. p \in Pages /\ SameForm(p, page[e]) /\ p.url = page[e].url /\ p.active = i
    BY <1>1 DEF Pages, SameForm
  <1>3. page' = [page EXCEPT ![e] = p]
    BY DEF SetActive, IInv, TypeOK
  <1> HIDE DEF p
  <1>4. ShowsStep(p)
    BY <1>1, <1>2, EntriesOf DEF ShowsStep, SameForm, SetActive
  <1> QED  BY <1>2, <1>3, <1>4, OnlyPage DEF SetActive

LEMMA LoadFailsStep == ASSUME IInv, NEW e \in Editors, LoadFails(e) PROVE IInv'
  <1> DEFINE p == [page[e] EXCEPT !.phase = "left"]
  <1>1. page[e] \in Pages /\ ShowsStep(page[e])
    BY Typed
  <1>2. p \in Pages /\ SameForm(p, page[e]) /\ ShowsStep(p) /\ p.url = page[e].url
    BY <1>1 DEF Pages, SameForm, ShowsStep
  <1>3. page' = [page EXCEPT ![e] = p]
    BY DEF LoadFails, IInv, TypeOK
  <1> HIDE DEF p
  <1> QED  BY <1>2, <1>3, OnlyPage DEF LoadFails

LEMMA OpenRunStep == ASSUME IInv, NEW e \in Editors, OpenRun(e) PROVE IInv'
  <1> DEFINE p == [page[e] EXCEPT !.run = TRUE]
  <1>1. page[e] \in Pages /\ ShowsStep(page[e])
    BY Typed
  <1>2. p \in Pages /\ SameForm(p, page[e]) /\ ShowsStep(p) /\ p.url = page[e].url
    BY <1>1 DEF Pages, SameForm, ShowsStep
  <1>3. page' = [page EXCEPT ![e] = p]
    BY DEF OpenRun, IInv, TypeOK
  <1> HIDE DEF p
  <1> QED  BY <1>2, <1>3, OnlyPage DEF OpenRun

LEMMA CloseRunStep ==
  ASSUME IInv, NEW e \in Editors, NEW started \in BOOLEAN, CloseRun(e, started) PROVE IInv'
  <1> DEFINE h == IF started THEN "left" ELSE page[e].phase
             p == [page[e] EXCEPT !.run = FALSE, !.phase = h]
  <1>1. page[e] \in Pages /\ ShowsStep(page[e])
    BY Typed
  <1>2. h \in {"loading", "form", "left"} /\ h \in {page[e].phase, "left"}
    BY <1>1, PageFields
  <1>3. page' = [page EXCEPT ![e] = p]
    BY DEF CloseRun, IInv, TypeOK
  <1> HIDE DEF h
  <1>4. p \in Pages /\ SameForm(p, page[e]) /\ ShowsStep(p) /\ p.url = page[e].url
    BY <1>1, <1>2 DEF Pages, SameForm, ShowsStep
  <1> HIDE DEF p
  <1> QED  BY <1>3, <1>4, OnlyPage DEF CloseRun

LEMMA VerifyStep == ASSUME IInv, NEW e \in Editors, Verify(e) PROVE IInv'
  <1> DEFINE p == [page[e] EXCEPT !.url = "checking"]
  <1>1. /\ page[e] \in Pages /\ ShowsStep(page[e]) /\ page[e].doc \in Docs /\ marks[e] \in SUBSET Marks
        /\ check[e] \in SUBSET Urls
    BY Typed, PageFields
  <1>2. p \in Pages /\ SameForm(p, page[e]) /\ ShowsStep(p) /\ p.url = "checking"
    BY <1>1 DEF Pages, SameForm, ShowsStep
  <1>3. page' = [page EXCEPT ![e] = p] /\ marks' = [marks EXCEPT ![e] = marks[e]]
    BY DEF Verify, IInv, TypeOK
  <1> HIDE DEF p
  <1>4. page'[e] = p
    BY <1>3 DEF IInv, TypeOK
  <1>5. ReachInv(e)'
    BY <1>2, <1>4 DEF ReachInv
  <1>6. check' \in [Editors -> SUBSET Urls]
    <2>1. check[e] \cup {page[e].doc.url} \in SUBSET Urls
      BY <1>1 DEF Docs
    <2> QED  BY <2>1 DEF Verify, IInv, TypeOK
  <1>7. reached' \in [Editors -> SUBSET Urls] /\ UNCHANGED <<rows, put, edits, saves, reached>>
    BY DEF Verify, IInv, TypeOK
  <1> QED  BY <1>1, <1>2, <1>3, <1>5, <1>6, <1>7, FormKept

LEMMA VerifiedStep ==
  ASSUME IInv, NEW e \in Editors, NEW t \in Urls, NEW ok \in BOOLEAN, Verified(e, t, ok)
  PROVE  IInv'
  <1> DEFINE u == IF ok THEN "ok" ELSE "error"
             p == [page[e] EXCEPT !.url = u]
             m == (marks[e] \ {"moved"}) \cup (IF t # page[e].doc.url THEN {"moved"} ELSE {})
             rs == IF ok THEN reached[e] \cup {t} ELSE reached[e]
  <1>1. /\ page[e] \in Pages /\ ShowsStep(page[e]) /\ marks[e] \in SUBSET Marks
        /\ check[e] \in SUBSET Urls /\ reached[e] \in SUBSET Urls
    BY Typed
  <1>2. p \in Pages /\ SameForm(p, page[e]) /\ ShowsStep(p) /\ p.url = u /\ p.doc = page[e].doc
    BY <1>1 DEF Pages, SameForm, ShowsStep
  <1>3. /\ page' = [page EXCEPT ![e] = p] /\ marks' = [marks EXCEPT ![e] = m]
        /\ reached' = [reached EXCEPT ![e] = rs] /\ check' = [check EXCEPT ![e] = check[e] \ {t}]
        /\ UNCHANGED <<rows, put, edits, saves>>
    BY DEF Verified, IInv, TypeOK
  <1>4. m \in SUBSET Marks /\ m \cup {"moved"} = marks[e] \cup {"moved"}
    BY <1>1 DEF Marks
  <1>5. rs \in SUBSET Urls /\ check[e] \ {t} \in SUBSET Urls
    BY <1>1
  <1>6. ReachInv(e)'
    <2>1. page'[e] = p /\ marks'[e] = m /\ reached'[e] = rs
      BY <1>3 DEF IInv, TypeOK
    <2>2. CASE ok /\ t = page[e].doc.url
      BY <2>1, <2>2, <1>2 DEF ReachInv
    <2>3. CASE ok /\ t # page[e].doc.url
      BY <2>1, <2>3, <1>2 DEF ReachInv
    <2>4. CASE ~ok
      BY <2>1, <2>4, <1>2 DEF ReachInv
    <2> QED  BY <2>2, <2>3, <2>4
  <1> HIDE DEF p, m, rs
  <1>7. check' \in [Editors -> SUBSET Urls]
    BY <1>3, <1>5 DEF IInv, TypeOK
  <1>8. reached' \in [Editors -> SUBSET Urls] /\ \A f \in Editors \ {e} : reached'[f] = reached[f]
    BY <1>3, <1>5 DEF IInv, TypeOK
  <1> QED  BY <1>2, <1>3, <1>4, <1>6, <1>7, <1>8, FormKept

-----------------------------------------------------------------------------
(* Loading *)

\* A page that is loading has a row to load.
LEMMA LoadsRow ==
  ASSUME IInv, NEW e \in Editors, page[e].phase = "loading"
  PROVE  /\ page[e].case \in Cases /\ rows[page[e].case] # Absent
         /\ rows[page[e].case].doc \in Docs /\ put[e] = Absent
  <1>1. page[e].case \in Cases /\ rows[page[e].case] # Absent /\ put[e] = Absent
    BY Typed, PageFields DEF OwnInv, PageInv, RowsInv
  <1> QED  BY <1>1, RowFields

LEMMA LoadReadStep == ASSUME IInv, NEW e \in Editors, LoadRead(e) PROVE IInv'
  <1> DEFINE d == rows[page[e].case].doc
             p == [page[e] EXCEPT !.got = d]
             m == (marks[e] \ {"other", "typed", "unanswered"}) \cup
                    (IF "other" \in marks[e] THEN {"overtaken"} ELSE {})
  <1>1. /\ page[e] \in Pages /\ ShowsStep(page[e]) /\ marks[e] \in SUBSET Marks /\ OwnInv(e)
        /\ page[e].phase = "loading" /\ page[e].got = Absent
    BY Typed DEF LoadRead
  <1>2. d \in Docs /\ d # Absent /\ put[e] = Absent
    BY <1>1, LoadsRow, AbsentAssumption
  <1>3. page' = [page EXCEPT ![e] = p] /\ marks' = [marks EXCEPT ![e] = m]
    BY DEF LoadRead, IInv, TypeOK
  <1>4. UNCHANGED <<rows, put, check, edits, saves, reached>>
    BY DEF LoadRead
  <1> HIDE DEF d
  <1>5. /\ p \in Pages /\ ShowsStep(p) /\ p.got = d
        /\ p.case = page[e].case /\ p.phase = "loading" /\ p.doc = page[e].doc /\ p.base = page[e].base
        /\ p.view = page[e].view /\ p.goes = page[e].goes /\ p.url = page[e].url
    BY <1>1, <1>2 DEF Pages, ShowsStep
  <1>6. m \in SUBSET Marks
    BY <1>1 DEF Marks
  <1>7. /\ "other" \notin m
        /\ "overtaken" \notin m => "other" \notin marks[e] /\ "overtaken" \notin marks[e]
        /\ "during" \in m <=> "during" \in marks[e]
        /\ "moved" \in m <=> "moved" \in marks[e]
    OBVIOUS
  <1> HIDE DEF p, m
  <1>8. page'[e] = p /\ \A f \in Editors \ {e} : page'[f] = page[f]
    BY <1>3 DEF IInv, TypeOK
  <1>9. /\ marks' \in [Editors -> SUBSET Marks] /\ marks'[e] = m
        /\ \A f \in Editors \ {e} : marks'[f] = marks[f]
    BY <1>3, <1>6 DEF IInv, TypeOK
  <1>10. Alone(e)
    BY <1>4, <1>8, <1>9 DEF Alone
  <1>11. ReadKept(e)
    BY <1>2, <1>4 DEF ReadKept
  <1>12. TypeOK'
    <2>1. /\ put' \in [Editors -> Puts \cup {Absent}] /\ check' \in [Editors -> SUBSET Urls]
          /\ reached' \in [Editors -> SUBSET Urls] /\ edits' \in Nat /\ saves' \in Nat
      BY <1>4 DEF IInv, TypeOK
    <2> QED  BY <2>1, <1>3, <1>4, <1>5, <1>9, TypeStays
  <1>13. OwnInv(e)'
    <2>1. RowsInv(e)'
      BY <1>1, <1>2, <1>4, <1>5, <1>8 DEF OwnInv, RowsInv
    <2>2. PageInv(e)'
      BY <1>1, <1>2, <1>4, <1>5, <1>8 DEF OwnInv, PageInv
    <2>3. PutInv(e)'
      BY <1>2, <1>4 DEF PutInv
    <2>4. LoadInv(e)'
      <3>1. page'[e].got = rows'[page'[e].case].doc
        BY <1>4, <1>5, <1>8 DEF d
      <3>2. ASSUME page[e].base # Absent, "during" \notin marks[e], "other" \notin marks[e]
            PROVE  d = Body(page[e].doc)
        BY <3>2, <1>1 DEF OwnInv, LoadInv, d
      <3> QED  BY <3>1, <3>2, <1>2, <1>5, <1>7, <1>8, <1>9 DEF LoadInv
    <2>5. ViewInv(e)'
      BY <1>5, <1>8 DEF ViewInv
    <2>6. ReachInv(e)'
      BY <1>1, <1>4, <1>5, <1>7, <1>8, <1>9 DEF OwnInv, ReachInv
    <2> QED  BY <2>1, <2>2, <2>3, <2>4, <2>5, <2>6 DEF OwnInv
  <1> QED  BY <1>10, <1>11, <1>12, <1>13, AloneSuffices

\* What an answer to a load brings.
LEMMA Arrived ==
  ASSUME IInv, NEW e \in Editors, LoadArrives(e)
  PROVE  /\ page[e].got \in Docs /\ Loaded(page[e].got) \in Docs
         /\ Numbered(Loaded(page[e].got).steps)
         /\ page'[e].phase = "form" /\ page'[e].doc = Loaded(page[e].got)
         /\ page'[e].case = page[e].case /\ page'[e].view = page[e].view
         /\ page'[e].goes = page[e].goes /\ page'[e].url = page[e].url /\ page'[e].got = Absent
         /\ page'[e] \in Pages /\ ShowsStep(page'[e])
         /\ page' = [page EXCEPT ![e] = page'[e]]
  <1> DEFINE d == Loaded(page[e].got)
             a == IF d.steps = << >> THEN 0 ELSE 1
             p == [page[e] EXCEPT !.phase = "form", !.got = Absent, !.doc = d, !.base = d,
                                  !.active = a]
  <1>1. page[e] \in Pages
    BY Typed
  <1>2. page[e].got \in Docs
    BY <1>1, PageFields DEF LoadArrives
  <1>3. d \in Docs /\ Numbered(d.steps) /\ d.steps \in Steps
    BY <1>2, LoadedDoc DEF Docs
  <1>4. page' = [page EXCEPT ![e] = p]
    BY DEF LoadArrives, IInv, TypeOK
  <1> HIDE DEF d
  <1>5. /\ p \in Pages /\ p.phase = "form" /\ p.doc = d /\ p.got = Absent /\ p.active = a
        /\ p.case = page[e].case /\ p.view = page[e].view /\ p.goes = page[e].goes
        /\ p.url = page[e].url
    BY <1>1, <1>3 DEF Pages
  <1> HIDE DEF p
  <1>6. ShowsStep(p)
    BY <1>3, <1>5, EntriesOf DEF ShowsStep
  <1>7. page'[e] = p
    BY <1>4 DEF IInv, TypeOK
  <1> QED  BY <1>2, <1>3, <1>4, <1>5, <1>6, <1>7 DEF d

LEMMA LoadArrivesStep == ASSUME IInv, NEW e \in Editors, LoadArrives(e) PROVE IInv'
  <1> DEFINE d == Loaded(page[e].got)
             m == (marks[e] \ {"during", "overtaken"}) \cup
                    (IF d.url # page[e].doc.url THEN {"moved"} ELSE {})
  <1>1. /\ page[e] \in Pages /\ marks[e] \in SUBSET Marks /\ OwnInv(e)
        /\ page[e].phase = "loading" /\ page[e].got # Absent
    BY Typed DEF LoadArrives
  <1>2. put[e] = Absent
    BY <1>1, LoadsRow
  <1>3. marks' = [marks EXCEPT ![e] = m] /\ UNCHANGED <<rows, put, check, edits, saves, reached>>
    BY DEF LoadArrives
  <1> HIDE DEF d
  <1>4. m \in SUBSET Marks
    BY <1>1 DEF Marks
  <1>5. /\ "during" \notin m
        /\ "other" \in m <=> "other" \in marks[e]
        /\ "moved" \notin m => d.url = page[e].doc.url /\ "moved" \notin marks[e]
    OBVIOUS
  <1> HIDE DEF m
  <1>6. /\ marks' \in [Editors -> SUBSET Marks] /\ marks'[e] = m
        /\ \A f \in Editors \ {e} : marks'[f] = marks[f]
    BY <1>3, <1>4 DEF IInv, TypeOK
  <1>7. \A f \in Editors \ {e} : page'[f] = page[f]
    BY Arrived DEF IInv, TypeOK
  <1>8. Alone(e)
    BY <1>3, <1>6, <1>7 DEF Alone
  <1>9. ReadKept(e)
    BY <1>2, <1>3 DEF ReadKept
  <1>10. TypeOK'
    <2>1. /\ put' \in [Editors -> Puts \cup {Absent}] /\ check' \in [Editors -> SUBSET Urls]
          /\ reached' \in [Editors -> SUBSET Urls] /\ edits' \in Nat /\ saves' \in Nat
      BY <1>3 DEF IInv, TypeOK
    <2> DEFINE p == page'[e]
    <2>2. p \in Pages /\ ShowsStep(p) /\ page' = [page EXCEPT ![e] = p]
      BY Arrived
    <2> HIDE DEF p
    <2> QED  BY <2>1, <2>2, <1>3, <1>6, TypeStays
  <1>11. OwnInv(e)'
    <2>1. RowsInv(e)'
      BY <1>1, <1>2, <1>3, Arrived DEF OwnInv, RowsInv
    <2>2. PageInv(e)'
      BY <1>1, <1>2, <1>3, <1>5, <1>6, Arrived DEF OwnInv, PageInv
    <2>3. PutInv(e)'
      BY <1>2, <1>3 DEF PutInv
    <2>4. LoadInv(e)'
      BY Arrived DEF LoadInv
    <2>5. ViewInv(e)'
      <3>1. ASSUME "other" \notin m PROVE d = Loaded(rows[page[e].case].doc)
        BY <3>1, <1>1, <1>5 DEF OwnInv, LoadInv, d
      <3>2. page'[e].doc = d /\ page'[e].case = page[e].case
        BY Arrived DEF d
      <3> QED  BY <3>1, <3>2, <1>3, <1>6 DEF ViewInv
    <2>6. ReachInv(e)'
      BY <1>1, <1>3, <1>5, <1>6, Arrived DEF OwnInv, ReachInv, d
    <2> QED  BY <2>1, <2>2, <2>3, <2>4, <2>5, <2>6 DEF OwnInv
  <1> QED  BY <1>8, <1>9, <1>10, <1>11, AloneSuffices

LEMMA NavigateStep == ASSUME IInv, NEW e \in Editors, Navigate(e) PROVE IInv'
  <1> DEFINE c == page[e].goes
             p == Mounted(c)
  <1>1. page[e] \in Pages /\ OwnInv(e) /\ put[e] = Absent /\ c # Absent
    BY Typed DEF Navigate
  <1>2. c \in Cases /\ rows[c] # Absent
    BY <1>1, PageFields DEF OwnInv, RowsInv
  <1> HIDE DEF c
  <1>3. /\ p.case = c /\ p.phase = "loading" /\ p.got = Absent /\ p.doc = EmptyDoc
        /\ p.base = Absent /\ p.goes = Absent /\ p.url = "idle"
    BY <1>1 DEF Mounted
  <1>4. p \in Pages /\ ShowsStep(p)
    BY <1>2, MountedPage
  <1> HIDE DEF p
  <1>5. /\ page' = [page EXCEPT ![e] = p] /\ check' = [check EXCEPT ![e] = {}]
        /\ reached' = [reached EXCEPT ![e] = {}] /\ marks' = [marks EXCEPT ![e] = {}]
        /\ UNCHANGED <<rows, put, edits, saves>>
    BY DEF Navigate, c, p
  <1>6. /\ page'[e] = p /\ marks'[e] = {}
        /\ \A f \in Editors \ {e} :
             page'[f] = page[f] /\ marks'[f] = marks[f] /\ reached'[f] = reached[f]
    BY <1>5 DEF IInv, TypeOK
  <1>7. Alone(e)
    BY <1>5, <1>6 DEF Alone
  <1>8. ReadKept(e)
    BY <1>1, <1>5 DEF ReadKept
  <1>9. TypeOK'
    <2>1. /\ put' \in [Editors -> Puts \cup {Absent}] /\ check' \in [Editors -> SUBSET Urls]
          /\ reached' \in [Editors -> SUBSET Urls] /\ marks' \in [Editors -> SUBSET Marks]
          /\ edits' \in Nat /\ saves' \in Nat
      BY <1>5 DEF IInv, TypeOK
    <2> QED  BY <2>1, <1>4, <1>5, TypeStays
  <1>10. OwnInv(e)'
    <2>1. RowsInv(e)'
      BY <1>1, <1>2, <1>3, <1>5, <1>6 DEF RowsInv
    <2>2. PageInv(e)'
      BY <1>1, <1>2, <1>3, <1>5, <1>6, EmptyDocIsDoc, AbsentAssumption DEF PageInv
    <2>3. PutInv(e)' /\ LoadInv(e)' /\ ViewInv(e)' /\ ReachInv(e)'
      BY <1>1, <1>3, <1>5, <1>6 DEF PutInv, LoadInv, ViewInv, ReachInv
    <2> QED  BY <2>1, <2>2, <2>3 DEF OwnInv
  <1> QED  BY <1>7, <1>8, <1>9, <1>10, AloneSuffices

-----------------------------------------------------------------------------
(* Saving *)

LEMMA PutFields ==
  ASSUME NEW q \in Puts
  PROVE  /\ q.doc \in Docs /\ q.case \in Cases \cup {Absent}
         /\ q.step \in {"asked", "read", "answer"} /\ q.version \in Nat /\ q # Absent
  BY AbsentAssumption DEF Puts

\* The types, when no page and no row changes.
LEMMA TypesWithoutPage ==
  ASSUME IInv, UNCHANGED <<rows, page, check, edits, reached>>, saves' \in Nat,
         put' \in [Editors -> Puts \cup {Absent}], marks' \in [Editors -> SUBSET Marks]
  PROVE  TypeOK'
  BY DEF IInv, TypeOK, ShowsStep

LEMMA SaveStep == ASSUME IInv, NEW e \in Editors, Save(e) PROVE IInv'
  <1> DEFINE q == [doc |-> Body(page[e].doc), case |-> page[e].case, step |-> "asked", version |-> 0]
             m == marks[e] \ {"during"}
  <1>1. /\ page[e] \in Pages /\ marks[e] \in SUBSET Marks /\ OwnInv(e) /\ page[e].doc \in Docs
        /\ page[e].case \in Cases \cup {Absent}
        /\ page[e].phase = "form" /\ put[e] = Absent /\ Valid(page[e].doc) /\ saves > 0
    BY Typed, PageFields DEF Save
  <1>2. /\ Body(page[e].doc) \in Docs /\ Body(page[e].doc).steps = page[e].doc.steps
        /\ Valid(Body(page[e].doc))
    BY <1>1, BodyDoc
  <1>3. /\ q \in Puts /\ q # Absent /\ q.doc = Body(page[e].doc) /\ q.case = page[e].case
        /\ q.step = "asked"
    BY <1>1, <1>2, AbsentAssumption DEF Puts
  <1>4. put' = [put EXCEPT ![e] = q] /\ marks' = [marks EXCEPT ![e] = m] /\ saves' = saves - 1
    BY DEF Save
  <1>5. UNCHANGED <<rows, page, check, edits, reached>>
    BY DEF Save
  <1>6. /\ m \in SUBSET Marks /\ "during" \notin m
        /\ "typed" \in m <=> "typed" \in marks[e]
        /\ "other" \in m <=> "other" \in marks[e]
        /\ "moved" \in m <=> "moved" \in marks[e]
        /\ "unanswered" \in m <=> "unanswered" \in marks[e]
    BY <1>1
  <1> HIDE DEF q, m
  <1>7. /\ put' \in [Editors -> Puts \cup {Absent}] /\ put'[e] = q
        /\ \A f \in Editors \ {e} : put'[f] = put[f]
    BY <1>3, <1>4, Updated DEF IInv, TypeOK
  <1>8. /\ marks' \in [Editors -> SUBSET Marks] /\ marks'[e] = m
        /\ \A f \in Editors \ {e} : marks'[f] = marks[f]
    BY <1>4, <1>6, Updated DEF IInv, TypeOK
  <1>9. Alone(e)
    BY <1>5, <1>7, <1>8 DEF Alone
  <1>10. ReadKept(e)
    BY <1>3, <1>7 DEF ReadKept
  <1>11. saves' \in Nat
    BY <1>1, <1>4 DEF IInv, TypeOK
  <1>12. OwnInv(e)'
    <2>1. RowsInv(e)'
      BY <1>1, <1>3, <1>5, <1>7 DEF OwnInv, RowsInv
    <2>2. PageInv(e)'
      BY <1>1, <1>5, <1>6, <1>8 DEF OwnInv, PageInv
    <2>3. PutInv(e)'
      BY <1>1, <1>2, <1>3, <1>5, <1>7 DEF OwnInv, PageInv, PutInv
    <2>4. LoadInv(e)'
      BY <1>1, <1>5 DEF LoadInv
    <2>5. ViewInv(e)'
      BY <1>1, <1>5, <1>6, <1>8 DEF OwnInv, ViewInv
    <2>6. ReachInv(e)'
      BY <1>1, <1>5, <1>6, <1>8 DEF OwnInv, ReachInv
    <2> QED  BY <2>1, <2>2, <2>3, <2>4, <2>5, <2>6 DEF OwnInv
  <1> QED  BY <1>5, <1>7, <1>8, <1>9, <1>10, <1>11, <1>12, TypesWithoutPage, AloneSuffices

LEMMA PutFailsStep == ASSUME IInv, NEW e \in Editors, PutFails(e) PROVE IInv'
  <1> DEFINE m == marks[e] \cup (IF put[e].step = "answer" THEN {"unanswered"} ELSE {})
  <1>1. /\ page[e] \in Pages /\ marks[e] \in SUBSET Marks /\ OwnInv(e)
        /\ put[e] \in Puts /\ put[e] # Absent
    BY Typed DEF PutFails
  <1>2. put' = [put EXCEPT ![e] = Absent] /\ marks' = [marks EXCEPT ![e] = m]
    BY DEF PutFails
  <1>3. UNCHANGED <<rows, page, check, edits, saves, reached>>
    BY DEF PutFails
  <1>4. /\ m \in SUBSET Marks
        /\ put[e].step = "answer" => "unanswered" \in m
        /\ "unanswered" \in marks[e] => "unanswered" \in m
        /\ "during" \in m <=> "during" \in marks[e]
        /\ "typed" \in m <=> "typed" \in marks[e]
        /\ "other" \in m <=> "other" \in marks[e]
        /\ "moved" \in m <=> "moved" \in marks[e]
    BY <1>1 DEF Marks
  <1> HIDE DEF m
  <1>5. /\ put' \in [Editors -> Puts \cup {Absent}] /\ put'[e] = Absent
        /\ \A f \in Editors \ {e} : put'[f] = put[f]
    BY <1>2, Updated DEF IInv, TypeOK
  <1>6. /\ marks' \in [Editors -> SUBSET Marks] /\ marks'[e] = m
        /\ \A f \in Editors \ {e} : marks'[f] = marks[f]
    BY <1>2, <1>4, Updated DEF IInv, TypeOK
  <1>7. Alone(e)
    BY <1>3, <1>5, <1>6 DEF Alone
  <1>8. ReadKept(e)
    BY <1>5 DEF ReadKept
  <1>9. saves' \in Nat
    BY <1>3 DEF IInv, TypeOK
  <1>10. OwnInv(e)'
    <2>1. RowsInv(e)'
      BY <1>1, <1>3, <1>5 DEF OwnInv, RowsInv
    <2>2. PageInv(e)'
      BY <1>1, <1>3, <1>4, <1>6 DEF OwnInv, PageInv
    <2>3. PutInv(e)'
      BY <1>5 DEF PutInv
    <2>4. LoadInv(e)'
      BY <1>1, <1>3 DEF OwnInv, PageInv, LoadInv
    <2>5. ViewInv(e)'
      <3>1. CASE put[e].step = "answer"
        <4>1. ASSUME page[e].phase = "form", page[e].view, m \cap {"typed", "other"} = {}
              PROVE  rows[page[e].case].doc = Body(page[e].doc)
          <5>1. "typed" \notin marks[e] /\ "other" \notin marks[e] /\ "during" \notin marks[e]
            BY <4>1, <1>1, <1>4 DEF OwnInv, PageInv
          <5>2. page[e].case # Absent
            BY <4>1, <1>1 DEF OwnInv, PageInv
          <5> QED  BY <5>1, <5>2, <3>1, <1>1 DEF OwnInv, PutInv
        <4> QED  BY <4>1, <3>1, <1>3, <1>4, <1>6 DEF ViewInv
      <3>2. CASE put[e].step # "answer"
        <4>1. m \cap {"typed", "other"} = {} => marks[e] \cap {"typed", "other"} = {}
          BY <1>4
        <4> QED  BY <4>1, <3>2, <1>1, <1>3, <1>4, <1>6 DEF OwnInv, ViewInv
      <3> QED  BY <3>1, <3>2
    <2>6. ReachInv(e)'
      BY <1>1, <1>3, <1>4, <1>6 DEF OwnInv, ReachInv
    <2> QED  BY <2>1, <2>2, <2>3, <2>4, <2>5, <2>6 DEF OwnInv
  <1> QED  BY <1>3, <1>5, <1>6, <1>7, <1>8, <1>9, <1>10, TypesWithoutPage, AloneSuffices

\* Where the answer to a save leaves the page.
Answered(e, p) ==
    \/ page[e].phase # "form" /\ p = page[e]
    \/ page[e].phase = "form" /\ page[e].case = Absent /\ p = [page[e] EXCEPT !.goes = put[e].case]
    \/ /\ page[e].phase = "form" /\ page[e].case # Absent
       /\ p = [page[e] EXCEPT !.view = TRUE, !.phase = "loading"]

LEMMA PutAnswerStep == ASSUME IInv, NEW e \in Editors, PutAnswer(e) PROVE IInv'
  <1> DEFINE p == page'[e]
  <1>1. /\ page[e] \in Pages /\ ShowsStep(page[e]) /\ OwnInv(e)
        /\ put[e] \in Puts /\ put[e] # Absent /\ put[e].step = "answer"
    BY Typed DEF PutAnswer
  <1>2. put[e].case \in Cases /\ rows[put[e].case] # Absent
    BY <1>1, PutFields DEF OwnInv, PutInv, RowsInv
  <1>3. put' = [put EXCEPT ![e] = Absent]
    BY DEF PutAnswer
  <1>4. UNCHANGED <<rows, check, edits, saves, marks, reached>>
    BY DEF PutAnswer
  <1>5. /\ page' = [page EXCEPT ![e] = p] /\ Answered(e, p)
        /\ \A f \in Editors \ {e} : page'[f] = page[f]
    BY DEF PutAnswer, Answered, IInv, TypeOK
  <1> HIDE DEF p
  <1>6. p \in Pages /\ ShowsStep(p)
    BY <1>1, <1>2, <1>5 DEF Answered, Pages, ShowsStep
  <1>7. /\ p.case = page[e].case /\ p.doc = page[e].doc /\ p.base = page[e].base /\ p.url = page[e].url
        /\ p.got = page[e].got
    BY <1>1, <1>5 DEF Answered, Pages
  <1>8. page'[e] = p
    BY DEF p
  <1>9. /\ put' \in [Editors -> Puts \cup {Absent}] /\ put'[e] = Absent
        /\ \A f \in Editors \ {e} : put'[f] = put[f]
    BY <1>3, Updated DEF IInv, TypeOK
  <1>10. Alone(e)
    BY <1>4, <1>5, <1>9 DEF Alone
  <1>11. ReadKept(e)
    BY <1>9 DEF ReadKept
  <1>12. TypeOK'
    <2>1. /\ check' \in [Editors -> SUBSET Urls] /\ reached' \in [Editors -> SUBSET Urls]
          /\ marks' \in [Editors -> SUBSET Marks] /\ edits' \in Nat /\ saves' \in Nat
      BY <1>4 DEF IInv, TypeOK
    <2> QED  BY <2>1, <1>4, <1>5, <1>6, <1>9, TypeStays
  <1>13. OwnInv(e)'
    <2>1. PutInv(e)'
      BY <1>9 DEF PutInv
    <2>2. ReachInv(e)'
      BY <1>1, <1>4, <1>7, <1>8 DEF OwnInv, ReachInv
    <2>3. CASE page[e].phase # "form" /\ p = page[e]
      <3>1. RowsInv(e)' /\ PageInv(e)'
        BY <2>3, <1>1, <1>4, <1>8, <1>9 DEF OwnInv, RowsInv, PageInv
      <3>2. LoadInv(e)' /\ ViewInv(e)'
        BY <2>3, <1>1, <1>4, <1>8, <1>9 DEF OwnInv, LoadInv, ViewInv
      <3> QED  BY <3>1, <3>2, <2>1, <2>2 DEF OwnInv
    <2>4. CASE page[e].phase = "form" /\ page[e].case = Absent /\ p = [page[e] EXCEPT !.goes = put[e].case]
      <3>1. p.phase = "form" /\ p.goes = put[e].case /\ p.view = page[e].view
        BY <2>4, <1>1 DEF Pages
      <3>2. RowsInv(e)' /\ PageInv(e)'
        BY <2>4, <3>1, <1>1, <1>2, <1>4, <1>7, <1>8, <1>9 DEF OwnInv, RowsInv, PageInv
      <3>3. LoadInv(e)' /\ ViewInv(e)'
        BY <2>4, <3>1, <1>1, <1>4, <1>7, <1>8, <1>9 DEF OwnInv, PageInv, LoadInv, ViewInv
      <3> QED  BY <3>2, <3>3, <2>1, <2>2 DEF OwnInv
    <2>5. CASE /\ page[e].phase = "form" /\ page[e].case # Absent
               /\ p = [page[e] EXCEPT !.view = TRUE, !.phase = "loading"]
      <3>1. p.phase = "loading" /\ p.goes = page[e].goes
        BY <2>5, <1>1 DEF Pages
      <3>2. p.got = Absent
        BY <2>5, <1>1, <1>7 DEF OwnInv, PageInv
      <3>3. RowsInv(e)' /\ PageInv(e)'
        BY <2>5, <3>1, <1>1, <1>4, <1>7, <1>8, <1>9 DEF OwnInv, RowsInv, PageInv
      <3>4. ASSUME "during" \notin marks[e], "other" \notin marks[e]
            PROVE  rows[page[e].case].doc = Body(page[e].doc)
        BY <2>5, <3>4, <1>1 DEF OwnInv, PutInv
      <3>5. LoadInv(e)'
        BY <3>1, <3>2, <3>4, <1>4, <1>7, <1>8 DEF LoadInv
      <3>6. ViewInv(e)'
        BY <3>1, <1>8 DEF ViewInv
      <3> QED  BY <3>3, <3>5, <3>6, <2>1, <2>2 DEF OwnInv
    <2> QED  BY <2>3, <2>4, <2>5, <1>5 DEF Answered
  <1> QED  BY <1>10, <1>11, <1>12, <1>13, AloneSuffices

LEMMA CreateStep == ASSUME IInv, NEW e \in Editors, NEW c \in Cases, Create(e, c) PROVE IInv'
  <1> DEFINE q == [put[e] EXCEPT !.step = "answer", !.case = c]
             r == [version |-> 1, doc |-> put[e].doc]
  <1>1. /\ OwnInv(e) /\ put[e] \in Puts /\ put[e] # Absent /\ put[e].doc \in Docs
        /\ put[e].case = Absent /\ rows[c] = Absent /\ put[e].step = "asked"
    BY Typed, PutFields DEF Create
  <1>2. /\ q \in Puts /\ q # Absent /\ q.step = "answer" /\ q.case = c /\ q.doc = put[e].doc
    BY <1>1, AbsentAssumption DEF Puts
  <1>3. r \in TestCases /\ r # Absent /\ r.doc = put[e].doc
    BY <1>1, AbsentAssumption DEF TestCases
  <1>4. put' = [put EXCEPT ![e] = q] /\ rows' = [rows EXCEPT ![c] = r]
    BY DEF Create, IInv, TypeOK
  <1>5. UNCHANGED <<page, check, edits, saves, marks, reached>>
    BY DEF Create
  <1> HIDE DEF q, r
  <1>6. /\ put' \in [Editors -> Puts \cup {Absent}] /\ put'[e] = q
        /\ \A f \in Editors \ {e} : put'[f] = put[f]
    BY <1>2, <1>4, Updated DEF IInv, TypeOK
  <1>7. /\ rows' \in [Cases -> TestCases \cup {Absent}] /\ rows'[c] = r
        /\ \A x \in Cases : rows[x] # Absent => rows'[x] = rows[x]
        /\ \A x \in Cases \ {c} : rows'[x] = rows[x]
    BY <1>1, <1>3, <1>4 DEF IInv, TypeOK
  <1>8. TypeOK'
    BY <1>5, <1>6, <1>7 DEF IInv, TypeOK, ShowsStep
  <1>9. StoredIsComplete'
    <2>1. Valid(r.doc) /\ Numbered(r.doc.steps)
      BY <1>1, <1>3 DEF OwnInv, PutInv
    <2>2. \A x \in Cases \ {c} : rows'[x] # Absent /\ rows'[x] # Stored[x]
              => Valid(rows'[x].doc) /\ Numbered(rows'[x].doc.steps)
      BY <1>7 DEF IInv, StoredIsComplete
    <2> QED  BY <2>1, <2>2, <1>7 DEF StoredIsComplete
  <1>10. ASSUME NEW f \in Editors \ {e} PROVE OwnInv(f)'
    <2>1. /\ OwnInv(f) /\ put'[f] = put[f] /\ page[f] \in Pages /\ put[f] \in Puts \cup {Absent}
          /\ page[f].case \in Cases \cup {Absent} /\ page[f].goes \in Cases \cup {Absent}
      BY <1>6, Typed, PageFields
    <2>2. put[f] # Absent => put[f].case \in Cases \cup {Absent}
      BY <2>1, PutFields
    <2>3. page[f].case # Absent => rows[page[f].case] # Absent
      BY <2>1 DEF OwnInv, RowsInv
    <2>4. page[f].case # Absent => rows'[page[f].case] = rows[page[f].case]
      BY <2>1, <2>3, <1>7
    <2>5. RowsInv(f)'
      BY <2>1, <2>2, <1>5, <1>7 DEF OwnInv, RowsInv
    <2>6. PageInv(f)' /\ ReachInv(f)'
      BY <2>1, <1>5 DEF OwnInv, PageInv, ReachInv
    <2>7. PutInv(f)'
      BY <2>1, <2>4, <1>5 DEF OwnInv, PutInv
    <2>8. LoadInv(f)' /\ ViewInv(f)'
      BY <2>1, <2>4, <1>5 DEF OwnInv, PageInv, LoadInv, ViewInv
    <2> QED  BY <2>5, <2>6, <2>7, <2>8 DEF OwnInv
  <1>11. OwnInv(e)'
    <2>1. page[e].case = Absent /\ page[e].goes \in Cases \cup {Absent}
      BY <1>1, Typed, PageFields DEF OwnInv, PutInv
    <2>2. RowsInv(e)'
      BY <2>1, <1>1, <1>2, <1>3, <1>5, <1>6, <1>7 DEF OwnInv, RowsInv
    <2>3. PageInv(e)'
      BY <1>1, <1>5, <1>6 DEF OwnInv, PageInv
    <2>4. PutInv(e)'
      BY <2>1, <1>1, <1>2, <1>5, <1>6, AbsentAssumption DEF OwnInv, PutInv
    <2>5. LoadInv(e)' /\ ViewInv(e)' /\ ReachInv(e)'
      BY <2>1, <1>1, <1>5 DEF OwnInv, PageInv, LoadInv, ViewInv, ReachInv
    <2> QED  BY <2>2, <2>3, <2>4, <2>5 DEF OwnInv
  <1>12. ASSUME NEW f \in Editors PROVE ReadInv(f)'
    <2>1. \A g \in Editors : put'[g] # Absent /\ put'[g].step = "read" => put'[g] = put[g]
      BY <1>2, <1>6
    <2>2. ASSUME put[f] # Absent, put[f].step = "read" PROVE rows'[put[f].case] = rows[put[f].case]
      <3>1. put[f].case \in Cases /\ rows[put[f].case] # Absent
        BY <2>2, Typed, PutFields DEF OwnInv, PutInv, RowsInv
      <3> QED  BY <3>1, <1>7
    <2> QED  BY <2>1, <2>2, <1>5 DEF IInv, ReadInv
  <1> QED  BY <1>8, <1>9, <1>10, <1>11, <1>12 DEF IInv

LEMMA PutReadStep == ASSUME IInv, NEW e \in Editors, PutRead(e) PROVE IInv'
  <1> DEFINE v == rows[put[e].case].version
             q == [put[e] EXCEPT !.step = "read", !.version = v]
  <1>1. /\ OwnInv(e) /\ put[e] \in Puts /\ put[e] # Absent /\ put[e].case \in Cases
        /\ put[e].step = "asked"
    BY Typed, PutFields DEF PutRead
  <1>2. rows[put[e].case] # Absent /\ v \in Nat
    <2>1. rows[put[e].case] # Absent
      BY <1>1, AbsentAssumption DEF OwnInv, RowsInv
    <2> QED  BY <2>1, <1>1, RowFields
  <1>3. put' = [put EXCEPT ![e] = q]
    BY DEF PutRead, IInv, TypeOK
  <1>4. UNCHANGED <<rows, page, check, edits, saves, reached>>
    BY DEF PutRead
  <1> HIDE DEF v
  <1>5. /\ q \in Puts /\ q # Absent /\ q.step = "read" /\ q.case = put[e].case
        /\ q.doc = put[e].doc /\ q.version = v
    BY <1>1, <1>2, AbsentAssumption DEF Puts
  <1> HIDE DEF q
  <1>6. /\ put' \in [Editors -> Puts \cup {Absent}] /\ put'[e] = q
        /\ \A f \in Editors \ {e} : put'[f] = put[f]
    BY <1>3, <1>5, Updated DEF IInv, TypeOK
  <1>7. /\ marks' \in [Editors -> SUBSET Marks]
        /\ \A f \in Editors : /\ marks[f] \subseteq marks'[f]
                              /\ marks'[f] \subseteq marks[f] \cup {"overlap"}
        /\ \A g \in Editors \ {e} :
             put[g] # Absent /\ put[g].step = "read" /\ put[g].case = put[e].case
               => \A f \in Editors : "overlap" \in marks'[f]
    <2> DEFINE overlaps == \E f \in Editors \ {e}: /\ put[f] # Absent
                                                   /\ put[f].step = "read"
                                                   /\ put[f].case = put[e].case
    <2>0. marks \in [Editors -> SUBSET Marks]
      BY DEF IInv, TypeOK
    <2>1. CASE overlaps
      <3>1. marks' = [f \in Editors |-> marks[f] \cup {"overlap"}]
        BY <2>1 DEF PutRead
      <3> QED  BY <3>1, <2>0 DEF Marks
    <2>2. CASE ~overlaps
      <3>1. marks' = marks
        BY <2>2 DEF PutRead
      <3> QED  BY <3>1, <2>0, <2>2
    <2> QED  BY <2>1, <2>2
  <1>8. TypeOK'
    <2>1. saves' \in Nat
      BY <1>4 DEF IInv, TypeOK
    <2> QED  BY <2>1, <1>4, <1>6, <1>7, TypesWithoutPage
  <1>9. StoredIsComplete'
    BY <1>4 DEF IInv, StoredIsComplete
  <1>10. ASSUME NEW f \in Editors PROVE OwnInv(f)'
    <2>1. OwnInv(f)
      BY DEF IInv
    <2>2. /\ "during" \in marks'[f] <=> "during" \in marks[f]
          /\ "typed" \in marks'[f] <=> "typed" \in marks[f]
          /\ "other" \in marks'[f] <=> "other" \in marks[f]
          /\ "overtaken" \in marks'[f] <=> "overtaken" \in marks[f]
          /\ "moved" \in marks'[f] <=> "moved" \in marks[f]
          /\ "unanswered" \in marks'[f] <=> "unanswered" \in marks[f]
      BY <1>7
    <2>3. /\ put'[f] # Absent <=> put[f] # Absent
          /\ put[f] # Absent => /\ put'[f].doc = put[f].doc /\ put'[f].case = put[f].case
                                /\ put'[f].step = "answer" <=> put[f].step = "answer"
                                /\ put'[f].step # "asked" => put[f].step # "asked" \/ put[f].case # Absent
      BY <1>1, <1>5, <1>6, AbsentAssumption
    <2>4. RowsInv(f)'
      BY <2>1, <2>3, <1>4 DEF OwnInv, RowsInv
    <2>5. PageInv(f)'
      BY <2>1, <2>2, <2>3, <1>4 DEF OwnInv, PageInv
    <2>6. PutInv(f)'
      BY <2>1, <2>2, <2>3, <1>4 DEF OwnInv, PutInv
    <2>7. LoadInv(f)'
      BY <2>1, <2>2, <1>4 DEF OwnInv, LoadInv
    <2>8. ViewInv(f)'
      <3>1. marks'[f] \cap {"typed", "other"} = {} => marks[f] \cap {"typed", "other"} = {}
        BY <2>2
      <3> QED  BY <3>1, <2>1, <2>2, <2>3, <1>4 DEF OwnInv, ViewInv
    <2>9. ReachInv(f)'
      BY <2>1, <2>2, <1>4 DEF OwnInv, ReachInv
    <2> QED  BY <2>4, <2>5, <2>6, <2>7, <2>8, <2>9 DEF OwnInv
  <1>11. ASSUME NEW f \in Editors PROVE ReadInv(f)'
    <2>1. CASE f = e
      <3>1. put'[e].version = rows'[put'[e].case].version
        BY <1>4, <1>5, <1>6 DEF v
      <3> QED  BY <3>1, <2>1, <1>5, <1>6, <1>7 DEF ReadInv
    <2>2. CASE f # e
      <3>1. ReadInv(f) /\ put'[f] = put[f] /\ rows' = rows
        BY <2>2, <1>4, <1>6 DEF IInv
      <3>2. "overlap" \in marks[f] => "overlap" \in marks'[f]
        BY <1>7
      <3>3. put[f] # Absent /\ put[f].step = "read" /\ put[f].case = put'[e].case => "overlap" \in marks'[f]
        BY <2>2, <1>5, <1>6, <1>7
      <3>4. \A g \in Editors \ {e} : put'[g] = put[g]
        BY <1>6
      <3> QED  BY <3>1, <3>2, <3>3, <3>4 DEF ReadInv
    <2> QED  BY <2>1, <2>2
  <1> QED  BY <1>8, <1>9, <1>10, <1>11 DEF IInv

\* The save of another editor makes a page old, and the own one makes it new.
LEMMA PutWriteStep == ASSUME IInv, NEW e \in Editors, PutWrite(e) PROVE IInv'
  <1> DEFINE c == put[e].case
             r == [version |-> put[e].version + 1, doc |-> put[e].doc]
             q == [put[e] EXCEPT !.step = "answer"]
  <1>1. /\ OwnInv(e) /\ put[e] \in Puts /\ put[e] # Absent /\ put[e].step = "read"
        /\ put[e].doc \in Docs /\ put[e].version \in Nat /\ put[e].case \in Cases \cup {Absent}
        /\ page[e].case \in Cases \cup {Absent}
    BY Typed, PutFields, PageFields DEF PutWrite
  <1>2. c \in Cases /\ c # Absent /\ page[e].case = c /\ rows[c] # Absent
    BY <1>1, AbsentAssumption DEF OwnInv, PutInv, RowsInv
  <1>3. r \in TestCases /\ r # Absent /\ r.doc = put[e].doc
    BY <1>1, AbsentAssumption DEF TestCases
  <1>4. /\ q \in Puts /\ q # Absent /\ q.step = "answer" /\ q.case = c /\ q.doc = put[e].doc
    BY <1>1, AbsentAssumption DEF Puts
  <1>5. /\ put' = [put EXCEPT ![e] = q] /\ rows' = [rows EXCEPT ![c] = r]
        /\ Outdated(e, c) /\ UNCHANGED <<page, check, edits, saves, reached>>
    BY DEF PutWrite, IInv, TypeOK
  <1> HIDE DEF c, r, q
  <1>6. /\ put' \in [Editors -> Puts \cup {Absent}] /\ put'[e] = q
        /\ \A f \in Editors \ {e} : put'[f] = put[f]
    BY <1>4, <1>5, Updated DEF IInv, TypeOK
  <1>7. /\ rows' \in [Cases -> TestCases \cup {Absent}] /\ rows'[c] = r
        /\ \A x \in Cases : rows[x] # Absent => rows'[x] # Absent
        /\ \A x \in Cases \ {c} : rows'[x] = rows[x]
    BY <1>2, <1>3, <1>5 DEF IInv, TypeOK
  <1>8. /\ marks' \in [Editors -> SUBSET Marks]
        /\ marks'[e] = marks[e] \ {"other"}
        /\ \A f \in Editors \ {e} :
             /\ page[f].case = c => marks'[f] = marks[f] \cup {"other"}
             /\ page[f].case # c => marks'[f] = marks[f]
    BY <1>2, <1>5 DEF Outdated, IInv, TypeOK, Marks
  <1>9. TypeOK'
    BY <1>5, <1>6, <1>7, <1>8 DEF IInv, TypeOK, ShowsStep
  <1>10. StoredIsComplete'
    <2>1. Valid(r.doc) /\ Numbered(r.doc.steps)
      BY <1>1, <1>3 DEF OwnInv, PutInv
    <2>2. \A x \in Cases \ {c} : rows'[x] # Absent /\ rows'[x] # Stored[x]
              => Valid(rows'[x].doc) /\ Numbered(rows'[x].doc.steps)
      BY <1>7 DEF IInv, StoredIsComplete
    <2> QED  BY <2>1, <2>2, <1>7 DEF StoredIsComplete
  <1>11. ASSUME NEW f \in Editors \ {e} PROVE OwnInv(f)'
    <2>1. /\ OwnInv(f) /\ put'[f] = put[f] /\ page[f] \in Pages /\ put[f] \in Puts \cup {Absent}
          /\ page[f].case \in Cases \cup {Absent} /\ page[f].goes \in Cases \cup {Absent}
      BY <1>6, Typed, PageFields
    <2>2. put[f] # Absent => put[f].case \in Cases \cup {Absent}
      BY <2>1, PutFields
    <2>3. RowsInv(f)'
      BY <2>1, <2>2, <1>5, <1>7 DEF OwnInv, RowsInv
    <2>4. PageInv(f)'
      BY <2>1, <1>5, <1>8 DEF OwnInv, PageInv
    <2>5. ReachInv(f)'
      BY <2>1, <1>5, <1>8 DEF OwnInv, ReachInv
    <2>6. CASE page[f].case = c
      <3>1. /\ "other" \in marks'[f]
            /\ \A m \in {"during", "overtaken"} : m \in marks'[f] <=> m \in marks[f]
        BY <2>6, <1>8
      <3>2. PutInv(f)'
        BY <2>1, <3>1, <1>5 DEF OwnInv, PutInv
      <3>3. LoadInv(f)'
        BY <2>1, <3>1, <1>5 DEF OwnInv, LoadInv
      <3>4. ViewInv(f)'
        BY <3>1 DEF ViewInv
      <3> QED  BY <2>3, <2>4, <2>5, <3>2, <3>3, <3>4 DEF OwnInv
    <2>7. CASE page[f].case # c
      <3>1. page[f].case # Absent => rows'[page[f].case] = rows[page[f].case]
        BY <2>1, <2>7, <1>7
      <3>2. marks'[f] = marks[f]
        BY <2>7, <1>8
      <3>3. PutInv(f)'
        BY <2>1, <3>1, <3>2, <1>5 DEF OwnInv, PutInv
      <3>4. LoadInv(f)' /\ ViewInv(f)'
        BY <2>1, <3>1, <3>2, <1>5 DEF OwnInv, PageInv, LoadInv, ViewInv
      <3> QED  BY <2>3, <2>4, <2>5, <3>3, <3>4 DEF OwnInv
    <2> QED  BY <2>6, <2>7
  <1>12. OwnInv(e)'
    <2>0. \A m \in Marks \ {"other"} : m \in marks'[e] <=> m \in marks[e]
      BY <1>8
    <2>1. RowsInv(e)'
      <3>1. page[e].goes \in Cases \cup {Absent}
        BY Typed, PageFields
      <3> QED  BY <3>1, <1>1, <1>2, <1>4, <1>5, <1>6, <1>7 DEF OwnInv, RowsInv
    <2>2. PageInv(e)'
      BY <2>0, <1>1, <1>5, <1>6 DEF OwnInv, PageInv, Marks
    <2>3. PutInv(e)'
      BY <2>0, <1>1, <1>2, <1>3, <1>4, <1>5, <1>6, <1>7 DEF OwnInv, PutInv, Marks
    <2>4. LoadInv(e)'
      BY <1>1, <1>5 DEF OwnInv, PageInv, LoadInv
    <2>5. ViewInv(e)'
      BY <1>4, <1>6 DEF ViewInv
    <2>6. ReachInv(e)'
      BY <2>0, <1>1, <1>5 DEF OwnInv, ReachInv, Marks
    <2> QED  BY <2>1, <2>2, <2>3, <2>4, <2>5, <2>6 DEF OwnInv
  <1>13. ASSUME NEW f \in Editors PROVE ReadInv(f)'
    <2>1. CASE f = e
      BY <2>1, <1>4, <1>6 DEF ReadInv
    <2>2. CASE f # e
      <3>1. ReadInv(f) /\ put'[f] = put[f]
        BY <2>2, <1>6 DEF IInv
      <3>2. "overlap" \in marks[f] => "overlap" \in marks'[f]
        BY <2>2, <1>8
      <3>3. ASSUME put[f] # Absent, put[f].step = "read"
            PROVE  put[f].version = rows'[put[f].case].version \/ "overlap" \in marks'[f]
        <4>1. CASE put[f].case = c
          BY <4>1, <3>1, <3>2, <3>3, <2>2, <1>1 DEF ReadInv, c
        <4>2. CASE put[f].case # c
          <5>1. put[f].case \in Cases
            BY <3>3, Typed, PutFields DEF OwnInv, PutInv
          <5> QED  BY <5>1, <4>2, <3>1, <3>2, <3>3, <1>7 DEF ReadInv
        <4> QED  BY <4>1, <4>2
      <3>4. \A g \in Editors : put'[g] # Absent /\ put'[g].step = "read" => put'[g] = put[g]
        BY <1>4, <1>6
      <3> QED  BY <3>1, <3>2, <3>3, <3>4 DEF ReadInv
    <2> QED  BY <2>1, <2>2
  <1> QED  BY <1>9, <1>10, <1>11, <1>12, <1>13 DEF IInv

-----------------------------------------------------------------------------
(* The invariant *)

LEMMA InitHolds == Init => IInv
  <1> SUFFICES ASSUME Init PROVE IInv
    OBVIOUS
  <1>1. PICK i \in Sessions : /\ edits = i.edits /\ saves = i.writes
                              /\ page \in [Editors -> {Mounted(c) : c \in i.opens}]
    BY DEF Init
  <1>2. /\ edits \in Nat /\ saves \in Nat
        /\ i.opens \subseteq {Absent} \cup {c \in Cases : Stored[c] # Absent}
    BY <1>1, BoundsAssumption
  <1>3. rows \in [Cases -> TestCases \cup {Absent}] /\ \A c \in Cases : rows[c] = Stored[c]
    BY StoredAssumption DEF Init
  <1>4. ASSUME NEW e \in Editors
        PROVE  \E c \in {Absent} \cup {x \in Cases : Stored[x] # Absent} : page[e] = Mounted(c)
    BY <1>1, <1>2
  <1>5. ASSUME NEW e \in Editors
        PROVE  page[e] \in Pages /\ ShowsStep(page[e])
    <2>1. PICK c \in {Absent} \cup {x \in Cases : Stored[x] # Absent} : page[e] = Mounted(c)
      BY <1>4
    <2> QED  BY <2>1, MountedPage
  <1>6. page \in [Editors -> Pages]
    BY <1>1, <1>5
  <1>7. /\ put \in [Editors -> Puts \cup {Absent}]
        /\ check \in [Editors -> SUBSET Urls] /\ reached \in [Editors -> SUBSET Urls]
        /\ marks \in [Editors -> SUBSET Marks]
    BY DEF Init
  <1>8. TypeOK
    BY <1>2, <1>3, <1>5, <1>6, <1>7 DEF TypeOK
  <1>9. StoredIsComplete
    BY <1>3 DEF StoredIsComplete
  <1>10. ASSUME NEW e \in Editors PROVE OwnInv(e) /\ ReadInv(e)
    <2>1. PICK c \in {Absent} \cup {x \in Cases : Stored[x] # Absent} : page[e] = Mounted(c)
      BY <1>4
    <2>2. /\ page[e].case = c /\ page[e].doc = EmptyDoc /\ page[e].got = Absent
          /\ page[e].base = (IF c = Absent THEN EmptyDoc ELSE Absent)
          /\ page[e].phase = (IF c = Absent THEN "form" ELSE "loading")
          /\ page[e].view = (c # Absent) /\ page[e].url = "idle" /\ page[e].goes = Absent
      BY <2>1 DEF Mounted
    <2>3. put[e] = Absent /\ marks[e] = {}
      BY DEF Init
    <2>4. c # Absent => rows[c] # Absent /\ c \in Cases
      BY <1>3
    <2>5. RowsInv(e)
      BY <2>2, <2>3, <2>4 DEF RowsInv
    <2>6. PageInv(e)
      BY <2>2, <2>3, EmptyDocIsDoc DEF PageInv
    <2>7. PutInv(e) /\ ReadInv(e)
      BY <2>3 DEF PutInv, ReadInv
    <2>8. LoadInv(e) /\ ViewInv(e) /\ ReachInv(e)
      BY <2>2 DEF LoadInv, ViewInv, ReachInv
    <2> QED  BY <2>5, <2>6, <2>7, <2>8 DEF OwnInv
  <1> QED  BY <1>8, <1>9, <1>10 DEF IInv

\* What an editor or the server does for it, by kind.
Loads(e) == LoadRead(e) \/ LoadArrives(e) \/ LoadFails(e)
SetsSetting(e, t) ==
    \/ EditLabels(e, t) \/ EditTarget(e, t) \/ EditExecution(e, t)
    \/ EditCapture(e, t) \/ EditContext(e, t)
Edits(e) ==
    \/ AddStep(e) \/ RemoveStep(e)
    \/ \E t \in Names : EditName(e, t)
    \/ \E t \in Settings : SetsSetting(e, t)
    \/ \E h \in Headers : EditHeaders(e, h)
    \/ \E t \in Urls : EditUrl(e, t)
    \/ \E t \in Texts : EditGoal(e, t) \/ UpdateStep(e, t)
Looks(e) ==
    \/ EditAll(e) \/ OpenRun(e)
    \/ \E i \in 1..MaxSteps : SetActive(e, i)
    \/ \E started \in BOOLEAN : CloseRun(e, started)
Verifies(e) == Verify(e) \/ \E t \in Urls, ok \in BOOLEAN : Verified(e, t, ok)
SavesOf(e) ==
    \/ Save(e) \/ PutRead(e) \/ PutWrite(e) \/ PutAnswer(e) \/ PutFails(e)
    \/ \E c \in Cases : Create(e, c)

LEMMA NextIs ==
  ASSUME Next
  PROVE  \E e \in Editors : Loads(e) \/ Edits(e) \/ Looks(e) \/ Verifies(e) \/ SavesOf(e) \/ Navigate(e)
  BY Zenon DEF Next, Loads, Edits, SetsSetting, Looks, Verifies, SavesOf

LEMMA EditsStep == ASSUME IInv, NEW e \in Editors, Edits(e) PROVE IInv'
  <1>1. CASE AddStep(e)
    BY <1>1, AddStepStep
  <1>2. CASE RemoveStep(e)
    BY <1>2, RemoveStepStep
  <1>3. CASE \E t \in Names : EditName(e, t)
    BY <1>3, EditNameStep
  <1>4. CASE \E t \in Settings : SetsSetting(e, t)
    BY <1>4, SettingsStep DEF SetsSetting
  <1>5. CASE \E h \in Headers : EditHeaders(e, h)
    BY <1>5, EditHeadersStep
  <1>6. CASE \E t \in Urls : EditUrl(e, t)
    BY <1>6, EditUrlStep
  <1>7. CASE \E t \in Texts : EditGoal(e, t) \/ UpdateStep(e, t)
    BY <1>7, EditGoalStep, UpdateStepStep
  <1> QED  BY <1>1, <1>2, <1>3, <1>4, <1>5, <1>6, <1>7 DEF Edits

LEMMA StepKeeps == IInv /\ [Next]_vars => IInv'
  <1> SUFFICES ASSUME IInv, [Next]_vars PROVE IInv'
    OBVIOUS
  <1>1. CASE UNCHANGED vars
    <2>1. UNCHANGED <<rows, page, put, check, edits, saves, reached, marks>>
      BY <1>1 DEF vars
    <2>2. TypeOK'
      BY <2>1 DEF IInv, TypeOK, ShowsStep
    <2>3. StoredIsComplete'
      BY <2>1 DEF IInv, StoredIsComplete
    <2>4. \A e \in Editors : OwnInv(e)' /\ ReadInv(e)'
      BY <2>1 DEF IInv, OwnInv, RowsInv, PageInv, PutInv, LoadInv, ViewInv, ReachInv, ReadInv
    <2> QED  BY <2>2, <2>3, <2>4 DEF IInv
  <1>2. CASE Next
    <2>1. PICK e \in Editors : Loads(e) \/ Edits(e) \/ Looks(e) \/ Verifies(e) \/ SavesOf(e) \/ Navigate(e)
      BY <1>2, NextIs
    <2>2. CASE Loads(e)
      BY <2>2, LoadReadStep, LoadArrivesStep, LoadFailsStep DEF Loads
    <2>3. CASE Edits(e)
      BY <2>3, EditsStep
    <2>4. CASE Looks(e)
      BY <2>4, EditAllStep, OpenRunStep, SetActiveStep, CloseRunStep DEF Looks
    <2>5. CASE Verifies(e)
      BY <2>5, VerifyStep, VerifiedStep DEF Verifies
    <2>6. CASE SavesOf(e)
      BY <2>6, SaveStep, PutReadStep, PutWriteStep, PutAnswerStep, PutFailsStep, CreateStep
         DEF SavesOf
    <2>7. CASE Navigate(e)
      BY <2>7, NavigateStep
    <2> QED  BY <2>1, <2>2, <2>3, <2>4, <2>5, <2>6, <2>7
  <1> QED  BY <1>1, <1>2

-----------------------------------------------------------------------------
(* The theorems *)

\* The steps of every form stay numbered and one of them is shown, however they
\* are added, removed and loaded; and although the routes check nothing, what the
\* page has checked is what is stored, whoever else saves.
THEOREM FormsStayWellFormed == Spec => []WellFormed
  <1>1. Init => IInv
    BY InitHolds
  <1>2. IInv /\ [Next]_vars => IInv'
    BY StepKeeps
  <1>3. IInv => WellFormed
    BY DEF IInv, WellFormed
  <1> QED  BY <1>1, <1>2, <1>3, PTL DEF Spec

\* What the Run button will execute is what the page in its saved view shows, but
\* for the changes and the saves that the page does not notice.
THEOREM SavedViewStaysStored == Spec => []SavedViewIsStored
  <1>1. Init => IInv
    BY InitHolds
  <1>2. IInv /\ [Next]_vars => IInv'
    BY StepKeeps
  <1>3. IInv => SavedViewIsStored
    BY DEF IInv, OwnInv, ViewInv, SavedViewIsStored
  <1> QED  BY <1>1, <1>2, <1>3, PTL DEF Spec

\* A URL is not called reachable on the answer of another, unless that answer came
\* late or the form was loaded anew.
THEOREM ReachableStaysChecked == Spec => []ReachableWasChecked
  <1>1. Init => IInv
    BY InitHolds
  <1>2. IInv /\ [Next]_vars => IInv'
    BY StepKeeps
  <1>3. IInv => ReachableWasChecked
    BY DEF IInv, OwnInv, ReachInv, ReachableWasChecked
  <1> QED  BY <1>1, <1>2, <1>3, PTL DEF Spec

\* Whatever an editor does, the pages of the others stay as they are.
LEMMA PagesOfOthers ==
  ASSUME IInv, NEW f \in Editors, NEW e \in Editors \ {f},
         Loads(f) \/ Edits(f) \/ Looks(f) \/ Verifies(f) \/ SavesOf(f) \/ Navigate(f)
  PROVE  page'[e] = page[e]
  <1>1. page \in [Editors -> Pages]
    BY DEF IInv, TypeOK
  <1>2. CASE Loads(f)
    BY <1>1, <1>2 DEF Loads, LoadRead, LoadArrives, LoadFails
  <1>3. CASE Edits(f)
    <2>1. CASE AddStep(f)
      BY <1>1, <2>1 DEF AddStep
    <2>2. CASE RemoveStep(f)
      BY <1>1, <2>2 DEF RemoveStep
    <2>3. CASE \E t \in Names : EditName(f, t)
      BY <1>1, <2>3 DEF EditName
    <2>4. CASE \E t \in Settings : SetsSetting(f, t)
      <3>1. PICK t : Set(f, t)
        BY <2>4, Zenon DEF SetsSetting, EditLabels, EditTarget, EditExecution, EditCapture, EditContext
      <3> QED  BY <1>1, <3>1 DEF Set
    <2>5. CASE \E h \in Headers : EditHeaders(f, h)
      BY <1>1, <2>5 DEF EditHeaders
    <2>6. CASE \E t \in Urls : EditUrl(f, t)
      BY <1>1, <2>6 DEF EditUrl
    <2>7. CASE \E t \in Texts : EditGoal(f, t) \/ UpdateStep(f, t)
      BY <1>1, <2>7 DEF EditGoal, UpdateStep
    <2> QED  BY <1>3, <2>1, <2>2, <2>3, <2>4, <2>5, <2>6, <2>7 DEF Edits
  <1>4. CASE Looks(f)
    BY <1>1, <1>4 DEF Looks, EditAll, OpenRun, SetActive, CloseRun
  <1>5. CASE Verifies(f)
    BY <1>1, <1>5 DEF Verifies, Verify, Verified
  <1>6. CASE SavesOf(f)
    BY <1>1, <1>6 DEF SavesOf, Save, PutRead, PutWrite, PutAnswer, PutFails, Create
  <1>7. CASE Navigate(f)
    BY <1>1, <1>7 DEF Navigate
  <1> QED  BY <1>2, <1>3, <1>4, <1>5, <1>6, <1>7

\* Only a form is edited.
LEMMA EditsForm == ASSUME NEW e \in Editors, Edits(e) PROVE page[e].phase = "form"
  <1>1. \E kind : Change(e, kind)
    BY Zenon DEF Edits, SetsSetting, AddStep, RemoveStep, EditName, EditLabels, EditTarget,
                 EditExecution, EditCapture, EditContext, EditHeaders, EditUrl, EditGoal, UpdateStep
  <1> QED  BY <1>1, Zenon DEF Change

\* The form is shown again only by the answer to its load.
LEMMA OnlyArrivalShows ==
  ASSUME IInv, Next, NEW e \in Editors, page[e].phase = "loading", page'[e].phase = "form"
  PROVE  LoadArrives(e)
  <1>1. PICK f \in Editors : Loads(f) \/ Edits(f) \/ Looks(f) \/ Verifies(f) \/ SavesOf(f) \/ Navigate(f)
    BY NextIs
  <1>2. f = e
    BY <1>1, PagesOfOthers
  <1>3. page \in [Editors -> Pages] /\ page[e] \in Pages
    BY DEF IInv, TypeOK
  <1>4. ~Edits(e)
    BY EditsForm
  <1>5. ~Looks(e)
    BY <1>3 DEF Looks, EditAll, OpenRun, SetActive, CloseRun, Pages
  <1>6. ~Verifies(e)
    BY <1>3 DEF Verifies, Verify, Verified, Pages
  <1>7. ~SavesOf(e)
    BY <1>3 DEF SavesOf, Save, PutRead, PutWrite, PutAnswer, PutFails, Create
  <1>8. ~Navigate(e)
    BY <1>3 DEF Navigate, Mounted
  <1>9. ~LoadRead(e) /\ ~LoadFails(e)
    BY <1>3 DEF LoadRead, LoadFails, Pages
  <1> QED  BY <1>1, <1>2, <1>4, <1>5, <1>6, <1>7, <1>8, <1>9 DEF Loads

\* Only requests write the table.
LEMMA OnlyRequestsWrite ==
  ASSUME Next, rows' # rows
  PROVE  \E e \in Editors : PutWrite(e) \/ \E c \in Cases : Create(e, c)
  <1>1. PICK e \in Editors : Loads(e) \/ Edits(e) \/ Looks(e) \/ Verifies(e) \/ SavesOf(e) \/ Navigate(e)
    BY NextIs
  <1>2. ~Edits(e)
    <2>1. Edits(e) => \E kind : Change(e, kind)
      BY Zenon DEF Edits, SetsSetting, AddStep, RemoveStep, EditName, EditLabels, EditTarget,
                   EditExecution, EditCapture, EditContext, EditHeaders, EditUrl, EditGoal, UpdateStep
    <2> QED  BY <2>1 DEF Change
  <1>3. ~Loads(e) /\ ~Navigate(e)
    BY DEF Loads, LoadRead, LoadArrives, LoadFails, Navigate
  <1>4. ~Looks(e) /\ ~Verifies(e)
    BY DEF Looks, EditAll, OpenRun, SetActive, CloseRun, Verifies, Verify, Verified
  <1>5. ~Save(e) /\ ~PutRead(e) /\ ~PutAnswer(e) /\ ~PutFails(e)
    BY DEF Save, PutRead, PutAnswer, PutFails
  <1> QED  BY <1>1, <1>2, <1>3, <1>4, <1>5 DEF SavesOf

\* What a load brings after a save is what was saved.
LEMMA ArrivalGivesBack ==
  ASSUME IInv, NEW e \in Editors, LoadArrives(e), page[e].base # Absent,
         marks[e] \cap {"during", "overtaken"} = {}
  PROVE  page'[e].doc = Body(page[e].doc)
  <1>1. page[e].phase = "loading" /\ page[e].got # Absent /\ page'[e].doc = Loaded(page[e].got)
    BY Arrived DEF LoadArrives
  <1>2. /\ page[e].doc \in Docs /\ Numbered(page[e].doc.steps)
        /\ page[e].got = Body(page[e].doc)
    BY <1>1, Typed, PageFields DEF OwnInv, PageInv, LoadInv
  <1> QED  BY <1>1, <1>2, BodyDoc, LoadedDoc

\* A version that does not grow was read before another save wrote.
LEMMA WriteGrows ==
  ASSUME IInv, Next, NEW c \in Cases, rows[c] # Absent, rows'[c] # rows[c]
  PROVE  \/ rows'[c].version > rows[c].version
         \/ \E e \in Editors : "overlap" \in marks[e]
  <1>1. rows \in [Cases -> TestCases \cup {Absent}] /\ rows[c].version \in Nat
    BY RowFields DEF IInv, TypeOK
  <1>2. PICK e \in Editors : PutWrite(e) \/ \E x \in Cases : Create(e, x)
    BY OnlyRequestsWrite
  <1>3. ~\E x \in Cases : Create(e, x)
    BY <1>1 DEF Create
  <1>4. PutWrite(e)
    BY <1>2, <1>3
  <1>5. /\ put[e] # Absent /\ put[e].step = "read" /\ put[e].case = c
        /\ rows'[c].version = put[e].version + 1
    BY <1>1, <1>4 DEF PutWrite
  <1>6. put[e].version = rows[c].version \/ "overlap" \in marks[e]
    BY <1>5 DEF IInv, ReadInv
  <1> QED  BY <1>1, <1>5, <1>6

\* A save gives back the words of its user and raises the version that others see,
\* whatever else they do, as long as no two saves overlap.
THEOREM SavesAreKept == Spec => NoSaveLost
  <1>1. Init => IInv
    BY InitHolds
  <1>2. IInv /\ [Next]_vars => IInv'
    BY StepKeeps
  <1>3. IInv /\ [Next]_vars =>
          [\A e \in Editors:
             page[e].phase = "loading" /\ page'[e].phase = "form" /\ page[e].base # Absent
             => \/ page'[e].doc = Body(page[e].doc)
                \/ marks[e] \cap {"during", "overtaken"} # {}]_vars
    BY OnlyArrivalShows, ArrivalGivesBack
  <1>4. IInv /\ [Next]_vars =>
          [\A c \in Cases: rows[c] # Absent /\ rows'[c] # rows[c]
             => \/ rows'[c].version > rows[c].version
                \/ \E e \in Editors: "overlap" \in marks[e]]_vars
    BY WriteGrows
  <1> QED  BY <1>1, <1>2, <1>3, <1>4, PTL DEF Spec, NoSaveLost, NothingReplaced, VersionsGrow
=============================================================================
