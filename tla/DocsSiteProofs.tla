------------------------------ MODULE DocsSiteProofs ------------------------------
(***************************************************************************)
(* What a control of the documentation site says it shows is on the screen *)
(* it leads to, and an empty list says why, for any logs, runs, configs and *)
(* stored records and any number of loads and clicks.                      *)
(***************************************************************************)
EXTENDS DocsSite, ListTheorems

-----------------------------------------------------------------------------
(* Numbers and words *)

\* Of two numbers.
LEMMA MinTwo ==
    ASSUME NEW i \in Int, NEW j \in Int
    PROVE  Min({i, j}) = IF i <= j THEN i ELSE j
<1>1. CASE i <= j
  BY <1>1 DEF Min
<1>2. CASE ~(i <= j)
  BY <1>2 DEF Min
<1> QED BY <1>1, <1>2

LEMMA MaxTwo ==
    ASSUME NEW i \in Int, NEW j \in Int
    PROVE  Max({i, j}) = IF i >= j THEN i ELSE j
<1>1. CASE i >= j
  BY <1>1 DEF Max
<1>2. CASE ~(i >= j)
  BY <1>2 DEF Max
<1> QED BY <1>1, <1>2

\* A search for nothing finds a word, and one for the word or its first part does too.
LEMMA Begins ==
    ASSUME NEW w, w \in Seq(Range(w))
    PROVE  IsPrefix(w, w) /\ IsPrefix(<<>>, w) /\ (w # <<>> => IsPrefix(<<w[1]>>, w))
<1>1. Len(w) \in Nat /\ \A i \in 1..Len(w) : w[i] \in Range(w)
  BY ElementOfSeq
<1>2. Len(<<>>) = 0 /\ SubSeq(<<>>, 1, 0) = <<>> /\ SubSeq(w, 1, 0) = <<>>
  BY SubSeqEmpty
<1>3. IsPrefix(w, w)
  BY <1>1 DEF IsPrefix
<1>4. IsPrefix(<<>>, w)
  BY <1>1, <1>2 DEF IsPrefix
<1>5. ASSUME w # <<>> PROVE IsPrefix(<<w[1]>>, w)
  <2>1. Len(w) >= 1
    BY <1>1, <1>5, EmptySeq
  <2>2. Len(<<w[1]>>) = 1 /\ <<w[1]>>[1] = w[1]
    OBVIOUS
  <2>3. SubSeq(<<w[1]>>, 1, 1) = <<w[1]>>
    <3>1. <<w[1]>> \in Seq({w[1]})
      OBVIOUS
    <3> QED BY <2>2, <3>1, SubSeqFull
  <2>4. w[1] \in Range(w)
    BY <1>1, <2>1
  <2>5. /\ SubSeq(w, 1, 1) \in Seq(Range(w)) /\ Len(SubSeq(w, 1, 1)) = 1
        /\ SubSeq(w, 1, 1)[1] = w[1]
    <3>1. \A i \in 1..1 : w[i] \in Range(w)
      BY <2>4
    <3>2. /\ SubSeq(w, 1, 1) \in Seq(Range(w))
          /\ Len(SubSeq(w, 1, 1)) = IF 1 <= 1 THEN 1 - 1 + 1 ELSE 0
          /\ \A i \in 1..1 - 1 + 1 : SubSeq(w, 1, 1)[i] = w[1 + i - 1]
      BY <3>1, SubSeqProperties
    <3> QED BY <3>2
  <2>6. SubSeq(w, 1, 1) = <<w[1]>>
    <3>1. <<w[1]>> \in Seq(Range(w))
      BY <2>4
    <3>2. \A i \in 1..1 : SubSeq(w, 1, 1)[i] = <<w[1]>>[i]
      BY <2>2, <2>5
    <3> HIDE DEF IsPrefix
    <3> QED BY <3>1, <3>2, <2>2, <2>5, SeqEqual
  <2> QED BY <2>1, <2>2, <2>3, <2>6 DEF IsPrefix
<1> QED BY <1>3, <1>4, <1>5

\* So a text with a word in it is found by that word.
LEMMA Found ==
    ASSUME NEW text, NEW w \in text, Text(w)
    PROVE  /\ Includes(text, w) /\ Includes(text, <<>>)
           /\ w # <<>> => Includes(text, baseName(w))
BY Begins DEF Includes, baseName, Text

-----------------------------------------------------------------------------
(* What is loaded *)

\* What the generator and the run tracker wrote.
CatalogOK(c) ==
    /\ \E h \in Histories : c.window = h.window
    /\ \A n \in c.findings \cup c.runtime : Text(n.target)

RunsOK(rs) == rs \subseteq Executions /\ \A x, y \in rs : x.id = y.id => x = y

\* The files, and what the requests returned, are absent or such.
FilesOK ==
    /\ files = [catalog |-> files.catalog, runs |-> files.runs]
    /\ got = [catalog |-> got.catalog, runs |-> got.runs]
    /\ files.catalog = None \/ CatalogOK(files.catalog)
    /\ files.runs = None \/ RunsOK(files.runs)
    /\ got.catalog \in {None, Pending} \/ CatalogOK(got.catalog)
    /\ got.runs \in {None, Pending} \/ RunsOK(got.runs)

\* An event as the page has it: an action its data names is its action.
Event(e) ==
    /\ e.id \in Nat /\ e.time \in Nat \cup {Undated} /\ Text(e.code)
    /\ \A w \in {e.named, e.actionName, e.workflow, e.run} : w = None \/ Word(w)
    /\ e.named # None => e.actionName = e.named

Run(r) ==
    /\ Text(r.id) /\ r.duration \in Nat /\ IsFiniteSet(r.actions)
    /\ \A a \in r.actions : /\ a.dur \in Nat
                            /\ a.start \in Nat \cup {None} /\ a.end \in Nat \cup {None}

DataOK ==
    /\ IsFiniteSet(data.events) /\ \A e \in data.events : Event(e)
    /\ \A e, f \in data.events : e.id = f.id => e = f
    /\ \A r \in data.runs : Run(r)
    /\ \A q, r \in data.runs : q.id = r.id => q = r
    /\ \A g \in data.health.errorGroups \cup data.health.warningGroups : Text(g.target)

\* Until both files are there nothing is on screen.
LoadOK ==
    /\ status \in {"loading", "error", "ready"}
    /\ status # "ready" => screen = NoScreen
    /\ status = "ready" => DataOK

-----------------------------------------------------------------------------
(* What is on a screen *)

LogsOK(s) ==
    /\ DOMAIN s = {"section", "view", "level", "search", "workflow", "range", "trace",
                   "diagnostics", "expanded", "cursor"}
    /\ LogsType(s) /\ (s.range = None \/ s.range \in Int \X Int)

ActionsOK(s) ==
    /\ DOMAIN s = {"section", "search", "type", "workflow", "sort", "issuesOnly", "selected"}
    /\ s.sort \in {"issues", "dur", "wf", "name"}

\* What is opened from a list is in the list, which does not change behind it.
WorkflowsOK(s) ==
    /\ DOMAIN s = {"section", "search", "status", "selected", "tab", "node"}
    /\ s.selected = None => s.tab = "graph" /\ s.node = None
    /\ s.selected # None => \E w \in filteredWorkflows(s) : w.id = s.selected

RunsScreenOK(s) ==
    /\ DOMAIN s = {"section", "search", "status", "selected"}
    /\ s.selected # None => \E r \in filteredRuns(s) : r.id = s.selected

AllSections == {"promptTrace", "inputData", "rawResponse", "actionOutput", "metadata"}

\* The cards are those of the page, or there are none; and beside records of one file what
\* is kept is kept for that file, as it was chosen.
DataScreenOK(s, memory) ==
    /\ DOMAIN s = {"section", "workflow", "node", "search", "page", "view", "cards", "opened",
                   "chosen"}
    /\ s.workflow = None => s.node = None /\ s.search = <<>>
    /\ s.node # None => \E n \in NodesOf(s.workflow) : n.node = s.node
    /\ s.cards \in Seq(SUBSET AllSections)
    /\ s.opened \subseteq DOMAIN s.cards
    /\ s.node # None =>
          /\ s.page \in {0} \cup 0..totalPages(s) - 1
          /\ s.cards = <<>> \/ DOMAIN s.cards = DOMAIN pageRecords(s)
          /\ OneFile(s) => s.chosen = memory.open
                           /\ \A i \in DOMAIN preview(s) : preview(s)[i].file = memory.key

ItemsOK(s) == DOMAIN s = {"section", "search", "selected"}

ScreenOK(s, memory) ==
    /\ s.section \in Sections \/ s = NoScreen
    /\ s.section = "logs" => LogsOK(s)
    /\ s.section = "actions" => ActionsOK(s)
    /\ s.section = "workflows" => WorkflowsOK(s)
    /\ s.section = "runs" => RunsScreenOK(s)
    /\ s.section = "data" => DataScreenOK(s, memory)
    /\ s.section \in Kinds => ItemsOK(s)

KeptOK == DOMAIN kept = {"key", "open"} /\ kept.open \subseteq AllSections

SiteInv == FilesOK /\ LoadOK /\ ScreenOK(screen, kept) /\ KeptOK

-----------------------------------------------------------------------------
(* A screen and the next *)

\* What a screen shows is a matter of its state and the data.
LEMMA LogsCarry ==
    ASSUME NEW STATE s, screen' = s, data' = data
    PROVE  LogsShows(screen)' = LogsShows(s) /\ (LogsOK(screen)' <=> LogsOK(s))
BY DEF LogsShows, Rows, rows, searched, scoped, unranged, Hidden, Within, spans, traceEvents,
       LogsOK, LogsType, workflows

LEMMA ActionsCarry ==
    ASSUME NEW STATE s, screen' = s, data' = data
    PROVE  ActionsShow(screen)' = ActionsShow(s) /\ (ActionsOK(screen)' <=> ActionsOK(s))
<1>1. buildCatalog' = buildCatalog
  BY DEF buildCatalog, ActionEntry, runningPlacements, Having
<1>2. actionRows(screen)' = actionRows(s)
  BY <1>1 DEF actionRows, scopedActions, HasIssues, errorsIn, warningsIn, EventsIn
<1>3. selectedAction(screen)' = selectedAction(s)
  BY <1>2 DEF selectedAction, FirstBy, SortKey, errorsIn, warningsIn, EventsIn
<1>4. ActionsOK(screen)' <=> ActionsOK(s)
  BY DEF ActionsOK
<1> QED BY <1>2, <1>3, <1>4 DEF ActionsShow, Pairs

LEMMA WorkflowsCarry ==
    ASSUME NEW STATE s, screen' = s
    PROVE  WorkflowsShow(screen)' = WorkflowsShow(s) /\ (WorkflowsOK(screen)' <=> WorkflowsOK(s))
BY DEF WorkflowsShow, WorkflowsOK, filteredWorkflows, transformWorkflows, PlacementsOf,
       transformActions, Pairs

LEMMA RunsCarry ==
    ASSUME NEW STATE s, screen' = s, data' = data
    PROVE  RunsShow(screen)' = RunsShow(s) /\ (RunsScreenOK(screen)' <=> RunsScreenOK(s))
BY DEF RunsShow, RunsScreenOK, filteredRuns, Pairs, RunDetail, bar, span

LEMMA RecordsCarry ==
    ASSUME NEW STATE s, screen' = s, NEW STATE memory, kept' = memory
    PROVE  /\ DataShows(screen)' = DataShows(s)
           /\ DataScreenOK(screen, kept)' <=> DataScreenOK(s, memory)
BY DEF DataShows, DataScreenOK, NodesOf, filteredNodes, pageRecords, preview, Stored, totalPages,
       OneFile, Pairs

LEMMA ItemsCarry ==
    ASSUME NEW STATE s, screen' = s
    PROVE  CatalogShows(screen)' = CatalogShows(s) /\ (ItemsOK(screen)' <=> ItemsOK(s))
BY DEF CatalogShows, ItemsOK, filteredItems, listedItems, selectedItem, At, Pairs

\* So a step to a screen that shows what it says keeps the promise.
LEMMA StepShows ==
    ASSUME NEW STATE s, NEW STATE memory, NEW STATE what,
           screen' = s, data' = data, kept' = memory, promised' = what,
           ScreenOK(s, memory), what \subseteq OnScreen(s)
    PROVE  ScreenOK(screen, kept)' /\ Reveals'
<1>1. OnScreen(screen)' = OnScreen(s)
  BY LogsCarry, ActionsCarry, WorkflowsCarry, RunsCarry, RecordsCarry, ItemsCarry DEF OnScreen
<1>2. ScreenOK(screen, kept)' <=> ScreenOK(s, memory)
  BY LogsCarry, ActionsCarry, WorkflowsCarry, RunsCarry, RecordsCarry, ItemsCarry DEF ScreenOK
<1> QED BY <1>1, <1>2 DEF Reveals

-----------------------------------------------------------------------------
(* Loading *)

\* What is made of log lines are events.
LEMMA EventsMade ==
    ASSUME NEW c, CatalogOK(c), NEW events, events = transformLogEvents(c.window)
    PROVE  /\ IsFiniteSet(events) /\ \A e \in events : Event(e)
           /\ \A e, f \in events : e.id = f.id => e = f
<1>1. PICK h \in Histories : c.window = h.window
  BY DEF CatalogOK
<1>2. /\ IsFiniteSet(c.window)
      /\ \A l, m \in c.window : l.seq = m.seq => l = m
      /\ \A l \in c.window :
            /\ l.seq \in Nat /\ l.time \in Nat \cup {Undated} /\ Text(l.code)
            /\ \A w \in {l.named, l.acting, l.wf, l.log, l.run} : w = None \/ Word(w)
  <2>1. h.window \in SUBSET h.log /\ IsFiniteSet(h.log)
    BY LogAssumption
  <2>2. IsFiniteSet(h.window)
    BY <2>1, FS_Subset
  <2> QED BY <1>1, <2>1, <2>2, LogAssumption
<1> DEFINE made(l) ==
      [id |-> l.seq, level |-> normalizeLevel(l.level), diagnostic |-> l.diagnostic,
       code |-> l.code, says |-> l.says, named |-> l.named,
       actionName |-> Orelse(l.named, l.acting), workflow |-> Orelse(l.wf, l.log),
       run |-> l.run, time |-> l.time]
           f == [l \in c.window |-> made(l)]
<1>3. events = {made(l) : l \in c.window}
  BY DEF transformLogEvents
<1>4. IsFiniteSet(events)
  <2>1. DOMAIN f = c.window /\ events = {f[l] : l \in c.window}
    BY <1>3
  <2> HIDE DEF f
  <2> QED BY <1>2, <2>1, FiniteImage
<1>5. ASSUME NEW l \in c.window PROVE Event(made(l)) /\ made(l).id = l.seq
  BY <1>2 DEF Event, Orelse
<1> HIDE DEF made
<1>6. \A e \in events : \E l \in c.window : e = made(l)
  BY <1>3
<1>7. \A e \in events : Event(e)
  BY <1>5, <1>6
<1>8. ASSUME NEW e1 \in events, NEW e2 \in events, e1.id = e2.id PROVE e1 = e2
  <2>1. PICK l \in c.window : e1 = made(l)
    BY <1>6
  <2>2. PICK m \in c.window : e2 = made(m)
    BY <1>6
  <2>3. l.seq = m.seq
    BY <1>5, <1>8, <2>1, <2>2
  <2> QED BY <1>2, <2>1, <2>2, <2>3
<1> QED BY <1>4, <1>7, <1>8

\* What is made of the tracker's records are runs.
LEMMA RunsMade ==
    ASSUME NEW rs, RunsOK(rs), NEW runs, runs = transformRuns(rs)
    PROVE  (\A r \in runs : Run(r)) /\ \A q, r \in runs : q.id = r.id => q = r
<1> DEFINE made(x) == [id |-> x.id, wf |-> x.wf, status |-> normalizeRunStatus(x.status),
                       duration |-> x.duration, actions |-> x.actions]
<1>1. runs = {made(x) : x \in rs}
  BY DEF transformRuns
<1>2. ASSUME NEW x \in rs PROVE Run(made(x)) /\ made(x).id = x.id
  <2>1. x \in Executions
    BY DEF RunsOK
  <2> QED BY <2>1, RunAssumption DEF Run
<1> HIDE DEF made
<1>3. ASSUME NEW q \in runs, NEW r \in runs, q.id = r.id PROVE q = r
  <2>1. PICK x \in rs : q = made(x)
    BY <1>1
  <2>2. PICK y \in rs : r = made(y)
    BY <1>1
  <2>3. x.id = y.id
    BY <1>2, <1>3, <2>1, <2>2
  <2> QED BY <2>1, <2>2, <2>3 DEF RunsOK
<1> QED BY <1>1, <1>2, <1>3

\* A group of problems is of something that has a name.
LEMMA GroupsMade ==
    ASSUME NEW c, CatalogOK(c), NEW health, health = deriveHealth(c.findings, c.runtime),
           NEW g \in health.errorGroups \cup health.warningGroups
    PROVE  Text(g.target)
<1> DEFINE Of(level) == {n \in c.runtime : n.level = level}
           Made(entries, logged) ==
              {[target |-> v.target, count |-> v.count, inEventStream |-> logged] :
                  v \in groupValidationEntries(entries)}
<1>1. health = [errorGroups   |-> Made(c.findings, FALSE) \cup Made(Of("error"), TRUE),
                warningGroups |-> Made(Of("warn"), TRUE)]
  BY DEF deriveHealth
<1>2. \/ g \in Made(c.findings, FALSE)
      \/ g \in Made(Of("error"), TRUE)
      \/ g \in Made(Of("warn"), TRUE)
  <2> HIDE DEF Made, Of
  <2>1. health.errorGroups = Made(c.findings, FALSE) \cup Made(Of("error"), TRUE)
    BY <1>1
  <2>2. health.warningGroups = Made(Of("warn"), TRUE)
    BY <1>1
  <2> QED BY <2>1, <2>2
<1>3. PICK entries \in {c.findings, Of("error"), Of("warn")}, logged \in BOOLEAN :
         g \in Made(entries, logged)
  <2> HIDE DEF Made, Of
  <2> QED BY <1>2
<1>4. PICK v \in groupValidationEntries(entries) : g.target = v.target
  BY <1>3
<1>5. PICK n \in entries : v.target = n.target
  <2>1. PICK t \in {n.target : n \in entries} :
           v = [target |-> t, count |-> Cardinality({n \in entries : n.target = t})]
    BY <1>4, Zenon DEF groupValidationEntries
  <2>2. v.target = t
    BY <2>1
  <2> QED BY <2>1, <2>2
<1>7. g.target = n.target
  BY <1>4, <1>5
<1>8. n \in c.findings \cup c.runtime
  BY <1>3, <1>5
<1> QED BY <1>7, <1>8 DEF CatalogOK

\* So what the page makes of the files is in order.
LEMMA DataMade ==
    ASSUME NEW STATE c, CatalogOK(c), NEW STATE rs, RunsOK(rs), data' = transformAll(c, rs)
    PROVE  DataOK'
<1>1. /\ data'.events = transformLogEvents(c.window)
      /\ data'.runs = transformRuns(rs)
      /\ data'.health = deriveHealth(c.findings, c.runtime)
  BY DEF transformAll
<1>2. /\ IsFiniteSet(data'.events) /\ \A e \in data'.events : Event(e)
      /\ \A e, f \in data'.events : e.id = f.id => e = f
  BY <1>1, EventsMade
<1>3. (\A r \in data'.runs : Run(r)) /\ \A q, r \in data'.runs : q.id = r.id => q = r
  BY <1>1, RunsMade
<1>4. \A g \in data'.health.errorGroups \cup data'.health.warningGroups : Text(g.target)
  BY <1>1, GroupsMade
<1> QED BY <1>2, <1>3, <1>4 DEF DataOK

\* The generator's entries name what they are about.
LEMMA EntriesNamed ==
    ASSUME NEW h \in Histories, NEW rs, rs \subseteq Executions,
           NEW n \in runtimeEntries(h.log, rs)
    PROVE  Text(n.target)
<1>1. \/ \E l \in h.log : n.target = Orelse(l.acting, l.code)
      \/ \E x \in rs : n.target = x.wf
      \/ \E x \in rs : n.target \in Having(x, "failed")
  BY DEF runtimeEntries
<1>2. ASSUME NEW l \in h.log PROVE Text(Orelse(l.acting, l.code))
  BY LogAssumption DEF Orelse, Word
<1>3. ASSUME NEW x \in rs
      PROVE  Text(x.wf) /\ \A a \in Having(x, "failed") : Text(a)
  <2>1. x \in Executions
    BY RunAssumption
  <2> QED BY <2>1, RunAssumption DEF Having
<1> QED BY <1>1, <1>2, <1>3

\* A step that leaves the page alone leaves what it shows.
LEMMA ViewStays ==
    ASSUME SiteInv, Reveals, UNCHANGED view
    PROVE  ScreenOK(screen, kept)' /\ KeptOK' /\ Reveals' /\ (DataOK => DataOK')
<1>1. screen' = screen /\ data' = data /\ kept' = kept /\ promised' = promised
  BY DEF view
<1>2. ScreenOK(screen, kept) /\ promised \subseteq OnScreen(screen) /\ KeptOK
  BY DEF SiteInv, Reveals
<1>3. ScreenOK(screen, kept)' /\ Reveals'
  BY <1>1, <1>2, StepShows
<1>4. KeptOK'
  BY <1>1, <1>2 DEF KeptOK
<1>5. DataOK => DataOK'
  BY <1>1 DEF DataOK
<1> QED BY <1>3, <1>4, <1>5

LEMMA GeneratesKeeps == SiteInv /\ Reveals /\ GenerateDocs => SiteInv' /\ Reveals'
<1> SUFFICES ASSUME SiteInv, Reveals, GenerateDocs PROVE SiteInv' /\ Reveals'
  OBVIOUS
<1>1. PICK h \in Histories :
         files' = [files EXCEPT !.catalog =
              [window |-> h.window, findings |-> h.findings,
               runtime |-> runtimeEntries(h.log, IF files.runs = None THEN {} ELSE files.runs)]]
  BY DEF GenerateDocs
<1> DEFINE rs == IF files.runs = None THEN {} ELSE files.runs
           c  == [window |-> h.window, findings |-> h.findings, runtime |-> runtimeEntries(h.log, rs)]
<1>2. files = [catalog |-> files.catalog, runs |-> files.runs] /\ rs \subseteq Executions
  BY DEF SiteInv, FilesOK, RunsOK
<1>3. CatalogOK(c)
  <2>1. \A n \in h.findings : Text(n.target)
    BY LogAssumption
  <2>2. \A n \in runtimeEntries(h.log, rs) : Text(n.target)
    <3> HIDE DEF rs
    <3> QED BY <1>2, EntriesNamed
  <2>3. c.window = h.window /\ c.findings = h.findings /\ c.runtime = runtimeEntries(h.log, rs)
    OBVIOUS
  <2> HIDE DEF c, rs
  <2> QED BY <2>1, <2>2, <2>3 DEF CatalogOK
<1>4. files' = [catalog |-> c, runs |-> files.runs]
  <2> HIDE DEF rs
  <2>1. files' = [files EXCEPT !.catalog = c]
    BY <1>1 DEF rs
  <2> HIDE DEF c
  <2> QED BY <1>2, <2>1
<1>5. FilesOK'
  <2> HIDE DEF c, rs
  <2>1. files'.catalog = c /\ files'.runs = files.runs
    BY <1>4
  <2>2. got' = got
    BY DEF GenerateDocs
  <2>3. files' = [catalog |-> files'.catalog, runs |-> files'.runs]
    BY <1>4, <2>1
  <2> QED BY <1>3, <2>1, <2>2, <2>3 DEF SiteInv, FilesOK
<1>6. UNCHANGED view /\ status' = status
  BY DEF GenerateDocs
<1>7. LoadOK'
  BY <1>6, ViewStays DEF SiteInv, LoadOK, view
<1> QED BY <1>5, <1>6, <1>7, ViewStays DEF SiteInv

LEMMA RecordsRunsKeeps == SiteInv /\ Reveals /\ RecordRun => SiteInv' /\ Reveals'
<1> SUFFICES ASSUME SiteInv, Reveals, RecordRun PROVE SiteInv' /\ Reveals'
  OBVIOUS
<1> DEFINE rs == IF files.runs = None THEN {} ELSE files.runs
<1>1. PICK x \in Executions :
         files' = [files EXCEPT !.runs = (rs \ {y \in rs : y.id = x.id}) \cup {x}]
  BY DEF RecordRun
<1> DEFINE new == (rs \ {y \in rs : y.id = x.id}) \cup {x}
<1>2. files = [catalog |-> files.catalog, runs |-> files.runs] /\ RunsOK(rs)
  BY DEF SiteInv, FilesOK, RunsOK
<1>3. RunsOK(new)
  <2> HIDE DEF rs
  <2> QED BY <1>2 DEF RunsOK
<1>4. files' = [catalog |-> files.catalog, runs |-> new]
  <2>1. files' = [files EXCEPT !.runs = new]
    BY <1>1
  <2> HIDE DEF new
  <2> QED BY <1>2, <2>1
<1>5. FilesOK'
  <2> HIDE DEF new
  <2>1. files'.catalog = files.catalog /\ files'.runs = new
    BY <1>4
  <2>2. got' = got
    BY DEF RecordRun
  <2>3. files' = [catalog |-> files'.catalog, runs |-> files'.runs]
    BY <1>4, <2>1
  <2> QED BY <1>3, <2>1, <2>2, <2>3 DEF SiteInv, FilesOK
<1>6. UNCHANGED view /\ status' = status
  BY DEF RecordRun
<1>7. LoadOK'
  BY <1>6, ViewStays DEF SiteInv, LoadOK, view
<1> QED BY <1>5, <1>6, <1>7, ViewStays DEF SiteInv

LEMMA FetchKeeps ==
    ASSUME SiteInv, Reveals, NEW file \in {"catalog", "runs"}, Fetch(file)
    PROVE  SiteInv' /\ Reveals'
<1>1. /\ got' = [got EXCEPT ![file] = files[file]] /\ files' = files
      /\ UNCHANGED view /\ status' = status
  BY DEF Fetch
<1>2. FilesOK
  BY DEF SiteInv
<1>3. \/ got' = [catalog |-> files.catalog, runs |-> got.runs]
      \/ got' = [catalog |-> got.catalog, runs |-> files.runs]
  <2>1. CASE file = "catalog"
    BY <1>1, <1>2, <2>1 DEF FilesOK
  <2>2. CASE file = "runs"
    BY <1>1, <1>2, <2>2 DEF FilesOK
  <2> QED BY <2>1, <2>2
<1>4. FilesOK'
  <2>1. got' = [catalog |-> got'.catalog, runs |-> got'.runs]
    BY <1>3
  <2>2. got'.catalog \in {files.catalog, got.catalog} /\ got'.runs \in {files.runs, got.runs}
    BY <1>3
  <2> QED BY <1>1, <1>2, <2>1, <2>2 DEF FilesOK
<1>5. LoadOK'
  BY <1>1, ViewStays DEF SiteInv, LoadOK, view
<1> QED BY <1>1, <1>4, <1>5, ViewStays DEF SiteInv

\* Nothing is promised before a screen is shown.
LEMMA Blank ==
    ASSUME screen' = NoScreen, promised' = {}
    PROVE  ScreenOK(screen, kept)' /\ Reveals'
BY DEF ScreenOK, NoScreen, Kinds, Reveals

LEMMA LoadedKeeps == SiteInv /\ Reveals /\ fetchCatalogData => SiteInv' /\ Reveals'
<1> SUFFICES ASSUME SiteInv, Reveals, fetchCatalogData PROVE SiteInv' /\ Reveals'
  OBVIOUS
<1>1. FilesOK /\ LoadOK /\ KeptOK
  BY DEF SiteInv
<1>2. /\ status = "loading" /\ screen = NoScreen /\ got.catalog # Pending /\ got.runs # Pending
      /\ kept' = kept /\ promised' = promised /\ files' = files
      /\ got' = [catalog |-> Pending, runs |-> Pending]
  BY <1>1 DEF fetchCatalogData, LoadOK
<1>3. promised = {}
  BY <1>2 DEF Reveals, OnScreen, NoScreen, Kinds
<1>4. FilesOK'
  BY <1>1, <1>2 DEF FilesOK
<1>5. KeptOK'
  BY <1>1, <1>2 DEF KeptOK
<1>6. CASE got.catalog = None
  <2>1. status' = "error" /\ screen' = screen /\ data' = data
    BY <1>6 DEF fetchCatalogData
  <2>2. LoadOK'
    BY <1>2, <2>1 DEF LoadOK, NoScreen
  <2> QED BY <1>2, <1>3, <1>4, <1>5, <2>1, <2>2, Blank DEF SiteInv
<1>7. CASE got.catalog # None
  <2> DEFINE rs == IF got.runs = None THEN {} ELSE got.runs
  <2>1. status' = "ready" /\ screen' = NoScreen /\ data' = transformAll(got.catalog, rs)
    BY <1>7 DEF fetchCatalogData
  <2>2. CatalogOK(got.catalog) /\ RunsOK(rs)
    BY <1>1, <1>2, <1>7 DEF FilesOK, RunsOK
  <2>3. DataOK'
    <3> HIDE DEF rs
    <3> QED BY <2>1, <2>2, DataMade
  <2>4. LoadOK'
    BY <2>1, <2>3 DEF LoadOK
  <2> QED BY <1>2, <1>3, <1>4, <1>5, <2>1, <2>4, Blank DEF SiteInv
<1> QED BY <1>6, <1>7

\* A load that fails, and the next.
LEMMA RetriesKeep == SiteInv /\ Reveals /\ (Broken \/ Retry) => SiteInv' /\ Reveals'
<1> SUFFICES ASSUME SiteInv, Reveals, Broken \/ Retry PROVE SiteInv' /\ Reveals'
  OBVIOUS
<1>1. /\ UNCHANGED view /\ files' = files /\ status # "ready" /\ status' \in {"loading", "error"}
      /\ got' = got \/ got' = [catalog |-> Pending, runs |-> Pending]
  BY DEF Broken, Retry
<1>2. FilesOK'
  BY <1>1 DEF SiteInv, FilesOK
<1>3. LoadOK'
  BY <1>1 DEF SiteInv, LoadOK, view, NoScreen
<1> QED BY <1>1, <1>2, <1>3, ViewStays DEF SiteInv

-----------------------------------------------------------------------------
(* Controls: each leads to a screen in order that shows what it says *)

OnPage == DataOK /\ ScreenOK(screen, kept) /\ KeptOK

Goes ==
    \E s, memory, what :
        /\ screen' = s /\ data' = data /\ kept' = memory /\ promised' = what
        /\ ScreenOK(s, memory) /\ what \subseteq OnScreen(s)
        /\ DOMAIN memory = {"key", "open"} /\ memory.open \subseteq AllSections

\* Most controls leave what is kept of the cards alone.
LEMMA GoesThere ==
    ASSUME OnPage, NEW STATE s, NEW STATE what, Shows(s, what),
           ScreenOK(s, kept), what \subseteq OnScreen(s)
    PROVE  Goes
BY DEF Goes, Shows, OnPage, KeptOK

\* Wherever a control leads, the page stays in order.
LEMMA GoesKeeps ==
    ASSUME SiteInv, status = "ready", UNCHANGED loading, Goes
    PROVE  SiteInv' /\ Reveals'
<1>1. PICK s, memory, what :
        /\ screen' = s /\ data' = data /\ kept' = memory /\ promised' = what
        /\ ScreenOK(s, memory) /\ what \subseteq OnScreen(s)
        /\ DOMAIN memory = {"key", "open"} /\ memory.open \subseteq AllSections
  BY DEF Goes
<1>2. ScreenOK(screen, kept)' /\ Reveals'
  BY <1>1, StepShows
<1>3. KeptOK'
  BY <1>1 DEF KeptOK
<1>4. FilesOK'
  BY DEF SiteInv, FilesOK, loading
<1>5. LoadOK'
  BY <1>1 DEF SiteInv, LoadOK, DataOK, loading
<1> QED BY <1>2, <1>3, <1>4, <1>5 DEF SiteInv

\* Which part of what is on screen belongs to a section.
LEMMA LogsSection ==
    ASSUME NEW STATE s, s.section = "logs", NEW STATE memory
    PROVE  OnScreen(s) = LogsShows(s) /\ (LogsOK(s) => ScreenOK(s, memory))
BY DEF OnScreen, ScreenOK, Sections, Kinds

LEMMA ActionsSection ==
    ASSUME NEW STATE s, s.section = "actions", NEW STATE memory
    PROVE  OnScreen(s) = ActionsShow(s) /\ (ActionsOK(s) => ScreenOK(s, memory))
BY DEF OnScreen, ScreenOK, Sections, Kinds

LEMMA WorkflowsSection ==
    ASSUME NEW STATE s, s.section = "workflows", NEW STATE memory
    PROVE  OnScreen(s) = WorkflowsShow(s) /\ (WorkflowsOK(s) => ScreenOK(s, memory))
BY DEF OnScreen, ScreenOK, Sections, Kinds

LEMMA RunsSection ==
    ASSUME NEW STATE s, s.section = "runs", NEW STATE memory
    PROVE  OnScreen(s) = RunsShow(s) /\ (RunsScreenOK(s) => ScreenOK(s, memory))
BY DEF OnScreen, ScreenOK, Sections, Kinds

LEMMA DataSection ==
    ASSUME NEW STATE s, s.section = "data", NEW STATE memory
    PROVE  OnScreen(s) = DataShows(s) /\ (DataScreenOK(s, memory) => ScreenOK(s, memory))
BY DEF OnScreen, ScreenOK, Sections, Kinds

LEMMA ItemsSection ==
    ASSUME NEW STATE s, s.section \in Kinds, NEW STATE memory
    PROVE  OnScreen(s) = CatalogShows(s) /\ (ItemsOK(s) => ScreenOK(s, memory))
BY DEF OnScreen, ScreenOK, Sections, Kinds

-----------------------------------------------------------------------------
(* Logs *)

LEMMA LogsMounts ==
    ASSUME NEW STATE intent, intent.level \in Range(LEVELS) \cup {All}
    PROVE  /\ LogsOK(LogsScreen(intent)) /\ LogsScreen(intent).section = "logs"
           /\ LogsScreen(intent).view = "stream"
           /\ rows(LogsScreen(intent)) =
                 {e \in data.events :
                     /\ e.diagnostic => \E f \in data.events : f.id = linked /\ f.diagnostic
                     /\ Includes(searchIndex(e), intent.q) /\ intent.level \in {All, e.level}}
<1> DEFINE t == LogsScreen(intent)
<1>1. /\ DOMAIN t = {"section", "view", "level", "search", "workflow", "range", "trace",
                     "diagnostics", "expanded", "cursor"}
      /\ t.section = "logs" /\ t.view = "stream" /\ t.level = intent.level
      /\ t.search = intent.q /\ t.workflow = All /\ t.range = None
      /\ t.diagnostics = (\E e \in {f \in data.events : f.id = linked} : e.diagnostic)
      /\ t.expanded = None \/ \E e \in data.events : e.id = t.expanded
      /\ t.cursor = t.expanded
  BY DEF LogsScreen
<1>2. t.diagnostics \in BOOLEAN
  BY <1>1
<1> HIDE DEF t
<1>3. LogsOK(t)
  BY <1>1, <1>2 DEF LogsOK, LogsType
<1>4. t.diagnostics <=> \E f \in data.events : f.id = linked /\ f.diagnostic
  BY <1>1
<1>5. rows(t) = {e \in data.events :
                     /\ e.diagnostic => \E f \in data.events : f.id = linked /\ f.diagnostic
                     /\ Includes(searchIndex(e), intent.q) /\ intent.level \in {All, e.level}}
  BY <1>1, <1>4 DEF rows, searched, scoped, unranged, Hidden
<1> QED BY <1>1, <1>3, <1>5 DEF t

\* Logs opened for a word lists what has the word and is no diagnostic.
LEMMA OpensLogs ==
    ASSUME OnPage, NEW STATE intent, intent.level \in Range(LEVELS) \cup {All}, NEW STATE S,
           openLogs(intent, Rows(S)),
           \A e \in S : /\ e \in data.events /\ ~e.diagnostic
                        /\ Includes(searchIndex(e), intent.q) /\ intent.level \in {All, e.level}
    PROVE  Goes
<1> DEFINE t == LogsScreen(intent)
<1>1. /\ LogsOK(t) /\ t.section = "logs" /\ t.view = "stream" /\ S \subseteq rows(t)
  BY LogsMounts
<1>2. Shows(t, Rows(S))
  BY DEF openLogs
<1> HIDE DEF t
<1>3. Rows(S) \subseteq LogsShows(t)
  BY <1>1 DEF LogsShows, Rows
<1> QED BY <1>1, <1>2, <1>3, LogsSection, GoesThere

\* An event is found by nothing, by its code, its workflow, the action it names, and the
\* name that action has without its version.
LEMMA EventFound ==
    ASSUME NEW e, Event(e)
    PROVE  /\ Includes(searchIndex(e), <<>>) /\ Includes(searchIndex(e), e.code)
           /\ e.workflow # None => Includes(searchIndex(e), e.workflow)
           /\ e.named # None => /\ Includes(searchIndex(e), e.named)
                                /\ Includes(searchIndex(e), baseName(e.named))
                                /\ \A q \in field(e) : Includes(searchIndex(e), q)
<1>1. e.code \in searchIndex(e) /\ Text(e.code)
  BY DEF searchIndex, Event
<1>2. ASSUME e.workflow # None PROVE e.workflow \in searchIndex(e) /\ Text(e.workflow)
  BY <1>2 DEF searchIndex, WordsOf, Event, Word
<1>3. ASSUME e.named # None PROVE e.named \in searchIndex(e) /\ Text(e.named) /\ e.named # <<>>
  BY <1>3 DEF searchIndex, WordsOf, Event, Word
<1>4. ASSUME e.named # None, NEW q \in field(e) PROVE Includes(searchIndex(e), q)
  <2>1. q = <<"action_name">> \o e.named /\ q \in searchIndex(e)
    BY <1>4 DEF searchIndex, field
  <2> DEFINE R == Range(e.named) \cup {"action_name"}
  <2>2. <<"action_name">> \in Seq(R)
    OBVIOUS
  <2>3. e.named \in Seq(R)
    <3>1. e.named \in Seq(Range(e.named))
      BY <1>3, <1>4 DEF Text
    <3> QED BY <3>1
  <2>4. q \in Seq(R)
    <3> HIDE DEF R
    <3> QED BY <2>1, <2>2, <2>3, ConcatProperties
  <2>5. q \in Seq(Range(q))
    <3>1. Len(q) \in Nat /\ DOMAIN q = 1..Len(q) /\ q = [i \in 1..Len(q) |-> q[i]]
      BY <2>4
    <3>2. \A i \in 1..Len(q) : q[i] \in Range(q)
      BY <3>1 DEF Range
    <3> QED BY <3>1, <3>2
  <2> QED BY <2>1, <2>5, Begins DEF Includes
<1> QED BY <1>1, <1>2, <1>3, <1>4, Found

\* What the controls of the screen keep of it.
LEMMA OnLogsOK ==
    ASSUME OnPage, OnLogs
    PROVE  LogsOK(screen) /\ screen.section = "logs" /\ DataOK
BY DEF OnPage, OnLogs, ScreenOK

LEMMA LogsSets ==
    ASSUME OnPage, NEW STATE s, s.section = "logs", LogsOK(s), Sets(s)
    PROVE  Goes
<1>1. ScreenOK(s, kept)
  BY LogsSection
<1>2. Shows(s, {}) /\ {} \subseteq OnScreen(s)
  BY DEF Sets
<1> QED BY <1>1, <1>2, GoesThere

LEMMA LogsRows ==
    ASSUME OnPage, NEW STATE s, s.section = "logs", s.view = "stream", LogsOK(s), NEW STATE S,
           S \subseteq rows(s), Shows(s, Rows(S))
    PROVE  Goes
<1>1. ScreenOK(s, kept) /\ OnScreen(s) = LogsShows(s)
  BY LogsSection
<1>2. Rows(S) \subseteq LogsShows(s)
  BY DEF LogsShows, Rows
<1> QED BY <1>1, <1>2, GoesThere

LEMMA SearchLogsGoes == OnPage /\ SearchLogs => Goes
<1> SUFFICES ASSUME OnPage, SearchLogs PROVE Goes
  OBVIOUS
<1>1. LogsOK(screen) /\ screen.section = "logs"
  BY OnLogsOK DEF SearchLogs
<1>2. PICK q \in Typed : Sets([screen EXCEPT !.search = q])
  BY DEF SearchLogs
<1> DEFINE s == [screen EXCEPT !.search = q]
<1>3. LogsOK(s) /\ s.section = "logs"
  BY <1>1 DEF LogsOK, LogsType
<1> HIDE DEF s
<1> QED BY <1>2, <1>3, LogsSets DEF s

LEMMA ScopeLogsGoes == OnPage /\ ScopeLogs => Goes
<1> SUFFICES ASSUME OnPage, ScopeLogs PROVE Goes
  OBVIOUS
<1>1. LogsOK(screen) /\ screen.section = "logs"
  BY OnLogsOK DEF ScopeLogs
<1>2. ASSUME NEW w \in workflows \cup {All}, Sets([screen EXCEPT !.workflow = w]) PROVE Goes
  <2> DEFINE s == [screen EXCEPT !.workflow = w]
  <2>1. LogsOK(s) /\ s.section = "logs"
    BY <1>1, <1>2 DEF LogsOK, LogsType
  <2>2. Sets(s)
    BY <1>2
  <2> HIDE DEF s
  <2> QED BY <2>1, <2>2, LogsSets
<1>3. ASSUME Sets([screen EXCEPT !.diagnostics = ~@]) PROVE Goes
  <2> DEFINE s == [screen EXCEPT !.diagnostics = ~@]
  <2>1. LogsOK(s) /\ s.section = "logs"
    BY <1>1 DEF LogsOK, LogsType
  <2>2. Sets(s)
    BY <1>3
  <2> HIDE DEF s
  <2> QED BY <2>1, <2>2, LogsSets
<1> QED BY <1>2, <1>3 DEF ScopeLogs

LEMMA LevelChipGoes == OnPage /\ LevelChip => Goes
<1> SUFFICES ASSUME OnPage, LevelChip PROVE Goes
  OBVIOUS
<1>1. LogsOK(screen) /\ screen.section = "logs" /\ screen.view = "stream"
  BY OnLogsOK DEF LevelChip
<1>2. PICK l \in Range(LEVELS) \cup {All} :
         LET t == IF l = All THEN [screen EXCEPT !.level = All] ELSE toggleLevel(screen, l)
         IN Shows(t, Rows({e \in searched(screen) : t.level \in {All, e.level}}))
  BY DEF LevelChip
<1> DEFINE s == IF l = All THEN [screen EXCEPT !.level = All] ELSE toggleLevel(screen, l)
           S == {e \in searched(screen) : s.level \in {All, e.level}}
<1>3. \E k \in Range(LEVELS) \cup {All} : s = [screen EXCEPT !.level = k]
  BY DEF toggleLevel
<1>4. Shows(s, Rows(S))
  BY <1>2
<1> HIDE DEF s, S
<1>5. PICK k \in Range(LEVELS) \cup {All} : s = [screen EXCEPT !.level = k]
  BY <1>3
<1>6. LogsOK(s) /\ s.section = "logs" /\ s.view = "stream"
  BY <1>1, <1>5 DEF LogsOK, LogsType
<1>7. searched(s) = searched(screen)
  BY <1>1, <1>5 DEF searched, scoped, unranged, Hidden, LogsOK
<1>8. S \subseteq rows(s)
  BY <1>7 DEF S, rows
<1> QED BY <1>4, <1>6, <1>8, LogsRows

LEMMA ClearRangeGoes == OnPage /\ ClearRange => Goes
<1> SUFFICES ASSUME OnPage, ClearRange PROVE Goes
  OBVIOUS
<1>1. LogsOK(screen) /\ screen.section = "logs"
  BY OnLogsOK DEF ClearRange
<1> DEFINE s == [screen EXCEPT !.range = None]
<1>2. Sets(s)
  BY DEF ClearRange
<1>3. LogsOK(s) /\ s.section = "logs"
  BY <1>1 DEF LogsOK, LogsType
<1> HIDE DEF s
<1> QED BY <1>2, <1>3, LogsSets

LEMMA CloseTraceGoes == OnPage /\ CloseTrace => Goes
<1> SUFFICES ASSUME OnPage, CloseTrace PROVE Goes
  OBVIOUS
<1>1. LogsOK(screen) /\ screen.section = "logs"
  BY OnLogsOK DEF CloseTrace
<1> DEFINE s == [screen EXCEPT !.trace = None]
<1>2. Sets(s)
  BY DEF CloseTrace
<1>3. LogsOK(s) /\ s.section = "logs"
  BY <1>1 DEF LogsOK, LogsType
<1> HIDE DEF s
<1> QED BY <1>2, <1>3, LogsSets

LEMMA ClearLogsGoes == OnPage /\ ClearLogs => Goes
<1> SUFFICES ASSUME OnPage, ClearLogs PROVE Goes
  OBVIOUS
<1>1. LogsOK(screen) /\ screen.section = "logs"
  BY OnLogsOK DEF ClearLogs
<1> DEFINE s == clearFilters(screen)
<1>2. Sets(s)
  BY DEF ClearLogs
<1>3. LogsOK(s) /\ s.section = "logs"
  BY <1>1 DEF LogsOK, LogsType, clearFilters
<1> HIDE DEF s
<1> QED BY <1>2, <1>3, LogsSets

\* The rows of a group all have its code, so searching for the code lists them.
LEMMA OpenGroupGoes == OnPage /\ OpenGroup => Goes
<1> SUFFICES ASSUME OnPage, OpenGroup PROVE Goes
  OBVIOUS
<1>1. LogsOK(screen) /\ screen.section = "logs" /\ DataOK
  BY OnLogsOK DEF OpenGroup
<1>2. PICK code : Shows([screen EXCEPT !.view = "stream", !.search = code],
                        Rows({e \in rows(screen) : e.code = code}))
  BY DEF OpenGroup
<1> DEFINE s == [screen EXCEPT !.view = "stream", !.search = code]
           S == {e \in rows(screen) : e.code = code}
<1>3. Shows(s, Rows(S))
  BY <1>2
<1>4. /\ LogsOK(s) /\ s.section = "logs" /\ s.view = "stream" /\ s.search = code
      /\ s.level = screen.level /\ scoped(s) = scoped(screen)
  BY <1>1 DEF LogsOK, LogsType, scoped, unranged, Hidden
<1> HIDE DEF s
<1>5. S \subseteq rows(s)
  <2> SUFFICES ASSUME NEW e \in S PROVE e \in rows(s)
    OBVIOUS
  <2>1. e \in scoped(screen) /\ screen.level \in {All, e.level} /\ e.code = code
    BY DEF rows, searched
  <2>2. e \in data.events
    BY <2>1 DEF scoped, unranged
  <2>3. Includes(searchIndex(e), code)
    BY <1>1, <2>1, <2>2, EventFound DEF DataOK
  <2> QED BY <1>4, <2>1, <2>3 DEF rows, searched
<1> HIDE DEF S
<1> QED BY <1>3, <1>4, <1>5, LogsRows

\* So have the rows that name an action its field, and a dated row its place in its run.
LEMMA EventRowGoes == OnPage /\ EventRow => Goes
<1> SUFFICES ASSUME OnPage, EventRow PROVE Goes
  OBVIOUS
<1>1. LogsOK(screen) /\ screen.section = "logs" /\ DataOK /\ screen.view = "stream"
  BY OnLogsOK DEF EventRow
<1>2. PICK e \in rows(screen) :
         \/ Sets([toggleExpanded(screen, e.id) EXCEPT !.cursor = e.id])
         \/ /\ screen.expanded = e.id
            /\ \E q \in field(e) :
                  Shows([screen EXCEPT !.search = q],
                        Rows({f \in rows(screen) : f.named = e.named}))
         \/ /\ screen.expanded = e.id /\ e.run # None
            /\ Shows([screen EXCEPT !.trace = e.run],
                     IF Dated(e) THEN {<<"span", e>>} ELSE {})
  BY DEF EventRow
<1>3. e \in data.events /\ Event(e) /\ ~Hidden(screen, e)
  BY <1>1, <1>2 DEF rows, searched, scoped, unranged, DataOK
<1>4. ASSUME Sets([toggleExpanded(screen, e.id) EXCEPT !.cursor = e.id]) PROVE Goes
  <2> DEFINE s == [toggleExpanded(screen, e.id) EXCEPT !.cursor = e.id]
  <2>1. LogsOK(s) /\ s.section = "logs"
    BY <1>1, <1>3 DEF LogsOK, LogsType, toggleExpanded
  <2>2. Sets(s)
    BY <1>4
  <2> HIDE DEF s
  <2> QED BY <2>1, <2>2, LogsSets
<1>5. ASSUME NEW q \in field(e),
             Shows([screen EXCEPT !.search = q], Rows({f \in rows(screen) : f.named = e.named}))
      PROVE Goes
  <2> DEFINE s == [screen EXCEPT !.search = q]
             S == {f \in rows(screen) : f.named = e.named}
  <2>1. /\ LogsOK(s) /\ s.section = "logs" /\ s.view = "stream" /\ s.search = q
        /\ s.level = screen.level /\ scoped(s) = scoped(screen)
    BY <1>1 DEF LogsOK, LogsType, scoped, unranged, Hidden
  <2>2. Shows(s, Rows(S))
    BY <1>5
  <2> HIDE DEF s
  <2>3. S \subseteq rows(s)
    <3> SUFFICES ASSUME NEW f \in S PROVE f \in rows(s)
      OBVIOUS
    <3>1. f \in scoped(screen) /\ screen.level \in {All, f.level} /\ f.named = e.named
      BY DEF rows, searched
    <3>2. f \in data.events
      BY <3>1 DEF scoped, unranged
    <3>3. f.named # None /\ field(f) = field(e)
      BY <1>5, <3>1 DEF field
    <3>4. Includes(searchIndex(f), q)
      BY <1>1, <1>5, <3>2, <3>3, EventFound DEF DataOK
    <3> QED BY <2>1, <3>1, <3>4 DEF rows, searched
  <2> HIDE DEF S
  <2> QED BY <1>5, <2>1, <2>2, <2>3, LogsRows
<1>6. ASSUME e.run # None,
             Shows([screen EXCEPT !.trace = e.run], IF Dated(e) THEN {<<"span", e>>} ELSE {})
      PROVE Goes
  <2> DEFINE s    == [screen EXCEPT !.trace = e.run]
             what == IF Dated(e) THEN {<<"span", e>>} ELSE {}
  <2>1. LogsOK(s) /\ s.section = "logs" /\ s.trace = e.run /\ s.diagnostics = screen.diagnostics
    BY <1>1 DEF LogsOK, LogsType
  <2>2. Shows(s, what)
    BY <1>6
  <2> HIDE DEF s
  <2>3. ASSUME Dated(e) PROVE e \in spans(s)
    BY <1>3, <1>6, <2>1, <2>3 DEF spans, traceEvents, Hidden
  <2>4. what \subseteq LogsShows(s)
    BY <2>3 DEF LogsShows
  <2> HIDE DEF what
  <2> QED BY <2>1, <2>2, <2>4, LogsSection, GoesThere
<1> QED BY <1>2, <1>4, <1>5, <1>6

\* Whole division, and products of what is in order.
LEMMA Divided ==
    ASSUME NEW k \in Nat, NEW d \in Nat \ {0}
    PROVE  k \div d \in Nat /\ (k \div d) * d <= k /\ k < (k \div d + 1) * d
<1>1. k \div d \in Int /\ k \div d >= 0
  OBVIOUS
<1>2. (k \div d) * d <= k /\ k < (k \div d + 1) * d
  OBVIOUS
<1> QED BY <1>1, <1>2

LEMMA Product ==
    ASSUME NEW i \in Int, NEW j \in Int, i <= j, NEW d \in Nat
    PROVE  i * d <= j * d
<1> DEFINE more == j - i
<1>1. more \in Int /\ more >= 0
  OBVIOUS
<1>2. j * d = i * d + more * d /\ i * d \in Int
  OBVIOUS
<1> HIDE DEF more
<1>3. more * d >= 0 /\ more * d \in Int
  BY <1>1
<1> QED BY <1>2, <1>3

\* The range of a bucket is not empty, and has every time that is counted in it.
LEMMA BucketRange ==
    ASSUME NEW B \in Nat \ {0}, NEW min \in Nat, NEW max \in Nat, min <= max,
           NEW width, width = IF 1 >= max - min THEN 1 ELSE max - min, NEW i \in 0..B - 1,
           NEW hi, hi = IF i = B - 1 THEN (max + 1) * B ELSE min * B + (i + 1) * width
    PROVE  /\ min * B + i * width \in Int /\ hi \in Int /\ min * B + i * width < hi
           /\ \A t \in Nat : /\ min <= t /\ t <= max
                             /\ i = IF B - 1 <= ((t - min) * B) \div width THEN B - 1
                                    ELSE ((t - min) * B) \div width
                             => min * B + i * width <= t * B /\ t * B < hi
<1>1. width \in Nat \ {0} /\ i \in Nat /\ (max = min \/ width = max - min)
  <2>1. max - min \in Nat /\ i \in Nat
    OBVIOUS
  <2>2. CASE 1 >= max - min
    <3>1. width = 1
      BY <2>2
    <3> QED BY <2>1, <2>2, <3>1
  <2>3. CASE ~(1 >= max - min)
    <3>1. width = max - min
      BY <2>3
    <3> QED BY <2>1, <2>3, <3>1
  <2> QED BY <2>2, <2>3
<1> DEFINE low == i * width  next == (i + 1) * width
<1>2. /\ low \in Int /\ next \in Int /\ next = low + width
      /\ min * B \in Int /\ max * B \in Int /\ (max + 1) * B = max * B + B
  BY <1>1
<1>3. hi \in Int
  BY <1>2
<1>4. min * B + low < hi
  <2>1. CASE i # B - 1
    <3> HIDE DEF low, next
    <3>1. hi = min * B + next
      BY <2>1 DEF next
    <3> QED BY <3>1, <1>1, <1>2
  <2>2. CASE i = B - 1
    <3>1. low = B * width - width
      BY <2>2, <1>1
    <3>2. hi = max * B + B
      BY <2>2, <1>2
    <3>3. B * width < max * B - min * B + B + width
      <4>1. CASE max = min
        <5>1. width = 1
          BY <4>1
        <5> QED BY <4>1, <5>1, <1>2
      <4>2. CASE width = max - min
        <5>1. B * width = max * B - min * B
          BY <4>2
        <5> QED BY <5>1, <1>1, <1>2
      <4> QED BY <1>1, <4>1, <4>2
    <3> DEFINE all == B * width  first == min * B  last == max * B
    <3>4. all \in Int /\ first \in Int /\ last \in Int
      BY <1>1
    <3>5. low = all - width /\ hi = last + B /\ all < last - first + B + width
      BY <3>1, <3>2, <3>3
    <3> HIDE DEF low, next, all, first, last
    <3>6. first + low < hi
      BY <1>1, <3>4, <3>5
    <3> QED BY <3>6 DEF first
  <2> QED BY <2>1, <2>2
<1>5. ASSUME NEW t \in Nat, min <= t, t <= max,
             i = IF B - 1 <= ((t - min) * B) \div width THEN B - 1
                 ELSE ((t - min) * B) \div width
      PROVE  min * B + low <= t * B /\ t * B < hi
  <2> DEFINE k == (t - min) * B  q == k \div width
  <2>1. k = t * B - min * B /\ t * B \in Int
    OBVIOUS
  <2>2. k \in Nat
    <3>1. t - min \in Nat /\ B \in Nat
      BY <1>5
    <3> QED BY <3>1
  <2>3. i = IF B - 1 <= q THEN B - 1 ELSE q
    BY <1>5
  <2> HIDE DEF k
  <2>4. q \in Nat /\ q * width <= k /\ k < (q + 1) * width
    BY <1>1, <2>2, Divided
  <2> HIDE DEF q
  <2>5. i <= q
    BY <2>3, <2>4, <1>1
  <2>6. low <= q * width /\ q * width \in Int
    BY <1>1, <2>4, <2>5, Product
  <2>7. min * B + low <= t * B
    <3> HIDE DEF low, next
    <3> QED BY <1>2, <2>1, <2>2, <2>4, <2>6
  <2>8. t * B < hi
    <3>1. CASE i = B - 1
      <4>1. hi = max * B + B
        BY <3>1, <1>2
      <4>2. t * B <= max * B
        BY <1>5, Product
      <4> QED BY <4>1, <4>2, <2>1, <1>2
    <3>2. CASE i # B - 1
      <4>1. q = i
        BY <2>3, <3>2
      <4>2. hi = min * B + next /\ k < next
        BY <3>2, <4>1, <2>4
      <4> HIDE DEF next, low
      <4> QED BY <4>2, <2>1, <2>2, <1>2
    <3> QED BY <3>1, <3>2
  <2> QED BY <2>7, <2>8
<1> QED BY <1>2, <1>3, <1>4, <1>5

\* The dates of what the histogram plots.
LEMMA TimesOf ==
    ASSUME DataOK, NEW STATE s
    PROVE  /\ IsFiniteSet(Times(s)) /\ Times(s) \subseteq Nat
           /\ \A e \in unranged(s) : Dated(e) => e.time \in Times(s)
<1> DEFINE dated == {e \in unranged(s) : Dated(e)}
           f     == [e \in dated |-> e.time]
<1>1. dated \in SUBSET data.events
  BY DEF unranged
<1>2. IsFiniteSet(dated)
  BY <1>1, FS_Subset DEF DataOK
<1>3. \A e \in dated : e.time \in Nat
  BY <1>1 DEF DataOK, Event, Dated
<1>4. Times(s) = {e.time : e \in dated}
  BY DEF Times
<1>5. IsFiniteSet(Times(s))
  <2>1. DOMAIN f = dated /\ Times(s) = {f[e] : e \in dated}
    BY <1>4
  <2> HIDE DEF f, dated
  <2> QED BY <1>2, <2>1, FiniteImage
<1> QED BY <1>3, <1>4, <1>5

\* A bar selects a range that is not empty and has the rows it counts in it.
LEMMA BarSelects ==
    ASSUME DataOK, NEW STATE s, NEW picked \in Bars(s)
    PROVE  /\ picked.range \in Int \X Int /\ picked.range[1] < picked.range[2]
           /\ picked.counts \subseteq unranged(s) /\ \A e \in picked.counts : Within(e, picked.range)
<1> DEFINE times == Times(s)
           min   == Min(times)
           max   == Max(times)
           width  == Max({1, max - min})
<1>1. times # {} /\ \E i \in 0..Buckets - 1 : picked = bucket(s, i)
  BY DEF Bars
<1>2. PICK i \in 0..Buckets - 1 : picked = bucket(s, i)
  BY <1>1
<1>3. /\ min \in Nat /\ max \in Nat /\ min <= max
      /\ \A e \in unranged(s) : Dated(e) => e.time \in Nat /\ min <= e.time /\ e.time <= max
  <2>1. IsFiniteSet(times) /\ times \subseteq Int /\ times \subseteq Nat
    BY TimesOf
  <2> HIDE DEF times
  <2>2. min \in times /\ \A t \in times : min <= t
    BY <1>1, <2>1, MinOf
  <2>3. max \in times /\ \A t \in times : t <= max
    BY <1>1, <2>1, MaxOf
  <2> QED BY <2>1, <2>2, <2>3, TimesOf DEF times
<1> HIDE DEF min, max
<1>4. width = IF 1 >= max - min THEN 1 ELSE max - min
  BY <1>3, MaxTwo
<1> DEFINE low == min * Buckets + i * width
           hi  == IF i = Buckets - 1 THEN (max + 1) * Buckets
                  ELSE min * Buckets + (i + 1) * width
<1>5. /\ picked.range = <<low, hi>>
      /\ picked.counts = {e \in unranged(s) : Dated(e) /\
                          Min({Buckets - 1, ((e.time - min) * Buckets) \div width}) = i}
  BY <1>2 DEF bucket, min, max
<1> HIDE DEF width
<1>6. /\ low \in Int /\ hi \in Int /\ low < hi
      /\ \A t \in Nat : /\ min <= t /\ t <= max
                        /\ i = IF Buckets - 1 <= ((t - min) * Buckets) \div width THEN Buckets - 1
                               ELSE ((t - min) * Buckets) \div width
                        => low <= t * Buckets /\ t * Buckets < hi
  BY <1>3, <1>4, BucketsAssumption, BucketRange
<1> HIDE DEF low, hi
<1>7. ASSUME NEW e \in picked.counts PROVE e \in unranged(s) /\ Within(e, picked.range)
  <2>1. /\ e \in unranged(s) /\ Dated(e)
        /\ Min({Buckets - 1, ((e.time - min) * Buckets) \div width}) = i
    BY <1>5
  <2>2. e.time \in Nat /\ min <= e.time /\ e.time <= max
    BY <1>3, <2>1
  <2> DEFINE t == e.time  q == ((t - min) * Buckets) \div width
  <2>3. q \in Int
    <3>1. width \in Nat \ {0}
      BY <1>3, <1>4
    <3>2. (t - min) * Buckets \in Nat
      <4>1. t - min \in Nat
        BY <1>3, <2>2
      <4> QED BY <4>1, BucketsAssumption
    <3> QED BY <3>1, <3>2, Divided
  <2>4. i = IF Buckets - 1 <= q THEN Buckets - 1 ELSE q
    <3>1. Buckets - 1 \in Int /\ Min({Buckets - 1, q}) = i
      BY <2>1, BucketsAssumption
    <3> HIDE DEF q
    <3> QED BY <2>3, <3>1, MinTwo
  <2>5. low <= t * Buckets /\ t * Buckets < hi
    BY <1>6, <2>2, <2>4
  <2>6. picked.range[1] = low /\ picked.range[2] = hi
    BY <1>5
  <2> QED BY <2>1, <2>5, <2>6 DEF Within
<1> QED BY <1>5, <1>6, <1>7

LEMMA SelectBarGoes == OnPage /\ SelectBar => Goes
<1> SUFFICES ASSUME OnPage, SelectBar PROVE Goes
  OBVIOUS
<1>1. LogsOK(screen) /\ screen.section = "logs" /\ DataOK /\ screen.view = "stream"
  BY OnLogsOK DEF SelectBar
<1>2. PICK picked \in Bars(screen), shift \in BOOLEAN :
          Shows([screen EXCEPT !.range = Selects(screen.range, picked, shift)],
                Rows(picked.counts \cap rows([screen EXCEPT !.range = None])))
  BY DEF SelectBar
<1> DEFINE range == Selects(screen.range, picked, shift)
           s     == [screen EXCEPT !.range = range]
           all   == [screen EXCEPT !.range = None]
           S     == picked.counts \cap rows(all)
<1>3. /\ picked.range \in Int \X Int /\ picked.range[1] < picked.range[2]
      /\ picked.counts \subseteq unranged(screen) /\ \A e \in picked.counts : Within(e, picked.range)
  BY <1>1, BarSelects
<1>4. /\ range \in Int \X Int /\ range[1] < range[2]
      /\ range[1] <= picked.range[1] /\ picked.range[2] <= range[2]
  <2>1. CASE shift /\ screen.range # None
    <3> DEFINE a == screen.range[1]  b == screen.range[2]
               c == picked.range[1]     d == picked.range[2]
    <3>1. a \in Int /\ b \in Int /\ c \in Int /\ d \in Int /\ a < b /\ c < d
      BY <1>1, <1>3, <2>1 DEF LogsOK, LogsType
    <3>2. range = <<Min({a, c}), Max({b, d})>>
      BY <2>1 DEF Selects
    <3> HIDE DEF a, b, c, d, range
    <3>3. range = <<IF a <= c THEN a ELSE c, IF b >= d THEN b ELSE d>>
      BY <3>1, <3>2, MinTwo, MaxTwo
    <3>4. /\ range \in Int \X Int /\ range[1] < range[2]
          /\ range[1] <= c /\ d <= range[2]
      BY <3>1, <3>3
    <3> QED BY <3>4 DEF c, d
  <2>2. CASE ~(shift /\ screen.range # None)
    <3>1. range = picked.range
      BY <2>2 DEF Selects
    <3> HIDE DEF range
    <3> QED BY <1>3, <3>1
  <2> QED BY <2>1, <2>2
<1>5. Shows(s, Rows(S))
  BY <1>2
<1> HIDE DEF range
<1>6. /\ LogsOK(s) /\ s.section = "logs" /\ s.view = "stream" /\ s.range = range
      /\ s.level = screen.level /\ s.search = screen.search
      /\ unranged(s) = unranged(screen)
  BY <1>1, <1>4 DEF LogsOK, LogsType, unranged, Hidden
<1>7. all.level = screen.level /\ all.search = screen.search
  BY <1>1 DEF LogsOK
<1> HIDE DEF s, all
<1>8. S \subseteq rows(s)
  <2> SUFFICES ASSUME NEW e \in S PROVE e \in rows(s)
    OBVIOUS
  <2>1. Includes(searchIndex(e), s.search) /\ s.level \in {All, e.level}
    BY <1>6, <1>7 DEF rows, searched
  <2>2. e \in unranged(s) /\ Within(e, picked.range) /\ e \in data.events
    BY <1>3, <1>6 DEF unranged
  <2>3. e.time * Buckets \in Int
    <3>1. e.time \in Int
      BY <1>1, <2>2 DEF DataOK, Event, Undated
    <3> QED BY <3>1, BucketsAssumption
  <2>4. Within(e, range)
    BY <1>3, <1>4, <2>2, <2>3 DEF Within
  <2> QED BY <1>6, <2>1, <2>2, <2>4 DEF rows, searched, scoped
<1> HIDE DEF S
<1> QED BY <1>5, <1>6, <1>8, LogsRows

\* Of some events one is the newest and one the oldest.
LEMMA NewestOf ==
    ASSUME DataOK, NEW STATE S, S \subseteq data.events, S # {}
    PROVE  Newest(S) \in S /\ Oldest(S) \in S
<1> DEFINE R == {p \in S \X S : Newer(p[1], p[2])}
           Q == {p \in S \X S : Newer(p[2], p[1])}
<1>1. IsFiniteSet(S)
  <2>1. S \in SUBSET data.events
    OBVIOUS
  <2> QED BY <2>1, FS_Subset DEF DataOK
<1>2. \A e \in S : e.time \in Int /\ e.id \in Int
  BY DEF DataOK, Event, Undated
<1>3. \A e, f \in S : e.id = f.id => e = f
  BY DEF DataOK
<1>4. \A e, f \in S : e # f => Newer(e, f) \/ Newer(f, e)
  BY <1>2, <1>3 DEF Newer
<1>5. \A e, f, g \in S : Newer(e, f) /\ Newer(f, g) => Newer(e, g)
  BY <1>2 DEF Newer
<1>6. \A e, f \in S : <<e, f>> \in R <=> Newer(e, f)
  BY DEF Newer
<1>7. \A e, f \in S : <<e, f>> \in Q <=> Newer(f, e)
  BY DEF Newer
<1> HIDE DEF R, Q
<1>8. \E e \in S : \A f \in S \ {e} : <<e, f>> \in R
  <2>1. \A x, y \in S : x # y => <<x, y>> \in R \/ <<y, x>> \in R
    BY <1>4, <1>6
  <2>2. \A x, y, z \in S : <<x, y>> \in R /\ <<y, z>> \in R => <<x, z>> \in R
    BY <1>5, <1>6
  <2>3. S # {}
    OBVIOUS
  <2> QED BY ONLY <1>1, <2>1, <2>2, <2>3, FiniteLeast
<1>9. \E e \in S : \A f \in S \ {e} : <<e, f>> \in Q
  <2>1. \A x, y \in S : x # y => <<x, y>> \in Q \/ <<y, x>> \in Q
    BY <1>4, <1>7
  <2>2. \A x, y, z \in S : <<x, y>> \in Q /\ <<y, z>> \in Q => <<x, z>> \in Q
    BY <1>5, <1>7
  <2>3. S # {}
    OBVIOUS
  <2> QED BY ONLY <1>1, <2>1, <2>2, <2>3, FiniteLeast
<1>10. \E e \in S : \A f \in S \ {e} : Newer(e, f)
  BY <1>6, <1>8
<1>11. \E e \in S : \A f \in S \ {e} : Newer(f, e)
  BY <1>7, <1>9
<1> QED BY <1>10, <1>11 DEF Newest, Oldest

\* So the cursor is on a row that there is.
LEMMA JumpOK ==
    ASSUME DataOK, LogsOK(screen), screen.section = "logs", NEW STATE list,
           list \subseteq data.events, NEW dir \in {1, -1}
    PROVE  LogsOK(jump(screen, list, dir)) /\ jump(screen, list, dir).section = "logs"
<1> DEFINE on   == {f \in list : \E e \in UnderCursor(screen, list) :
                       IF dir = 1 THEN Newer(e, f) ELSE Newer(f, e)}
           from == IF on = {} THEN list ELSE on
           next == IF dir = 1 THEN Newest(from) ELSE Oldest(from)
<1>1. jump(screen, list, dir) =
         IF list = {} THEN screen ELSE [screen EXCEPT !.cursor = next.id]
  BY Zenon DEF jump
<1>2. list # {} => from \subseteq data.events /\ from # {}
  OBVIOUS
<1> HIDE DEF from
<1>3. list # {} => Newest(from) \in data.events /\ Oldest(from) \in data.events
  BY <1>2, NewestOf
<1>4. list # {} => next \in data.events
  BY <1>3
<1> HIDE DEF next
<1> QED BY <1>1, <1>4 DEF LogsOK, LogsType

LEMMA KeyboardGoes == OnPage /\ Keyboard => Goes
<1> SUFFICES ASSUME OnPage, Keyboard PROVE Goes
  OBVIOUS
<1>1. LogsOK(screen) /\ screen.section = "logs" /\ DataOK
  BY OnLogsOK DEF Keyboard
<1>2. rows(screen) \subseteq data.events /\ problems(screen) \subseteq data.events
  BY DEF rows, searched, scoped, unranged, problems
<1>3. ASSUME NEW dir \in {1, -1}, NEW list \in {rows(screen), problems(screen)},
             Sets(jump(screen, list, dir))
      PROVE  Goes
  BY <1>1, <1>2, <1>3, JumpOK, LogsSets
<1>4. ASSUME Sets([screen EXCEPT !.view = IF @ = "stream" THEN "grouped" ELSE "stream"])
      PROVE  Goes
  <2> DEFINE s == [screen EXCEPT !.view = IF @ = "stream" THEN "grouped" ELSE "stream"]
  <2>1. LogsOK(s) /\ s.section = "logs"
    BY <1>1 DEF LogsOK, LogsType
  <2>2. Sets(s)
    BY <1>4
  <2> HIDE DEF s
  <2> QED BY <2>1, <2>2, LogsSets
<1>5. ASSUME NEW l \in {"error", "warn"}, Sets(toggleLevel(screen, l)) PROVE Goes
  <2> DEFINE s == toggleLevel(screen, l)
  <2>1. l \in Range(LEVELS)
    BY DEF LEVELS, Range
  <2>2. LogsOK(s) /\ s.section = "logs"
    BY <1>1, <2>1 DEF LogsOK, LogsType, toggleLevel
  <2>3. Sets(s)
    BY <1>5
  <2> HIDE DEF s
  <2> QED BY <2>2, <2>3, LogsSets
<1>6. ASSUME Sets(tracesRun(screen)) PROVE Goes
  <2> DEFINE s == tracesRun(screen)
  <2>1. s = screen \/ \E r : s = [screen EXCEPT !.trace = r]
    BY DEF tracesRun
  <2>2. Sets(s)
    BY <1>6
  <2> HIDE DEF s
  <2>3. LogsOK(s) /\ s.section = "logs"
    BY <1>1, <2>1 DEF LogsOK, LogsType
  <2> QED BY <2>2, <2>3, LogsSets
<1>7. ASSUME screen.cursor # None, Sets(toggleExpanded(screen, screen.cursor)) PROVE Goes
  <2> DEFINE s == toggleExpanded(screen, screen.cursor)
  <2>1. LogsOK(s) /\ s.section = "logs"
    BY <1>1 DEF LogsOK, LogsType, toggleExpanded
  <2>2. Sets(s)
    BY <1>7
  <2> HIDE DEF s
  <2> QED BY <2>1, <2>2, LogsSets
<1>8. ASSUME Sets(backsOut(screen)) PROVE Goes
  <2> DEFINE s == backsOut(screen)
  <2>1. \/ s = [screen EXCEPT !.trace = None]
        \/ s = [screen EXCEPT !.expanded = None]
        \/ s = [screen EXCEPT !.range = None]
    BY DEF backsOut
  <2>2. Sets(s)
    BY <1>8
  <2> HIDE DEF s
  <2>3. LogsOK(s) /\ s.section = "logs"
    BY <1>1, <2>1 DEF LogsOK, LogsType
  <2> QED BY <2>2, <2>3, LogsSets
<1> QED BY <1>3, <1>4, <1>5, <1>6, <1>7, <1>8 DEF Keyboard

LEMMA LogsNextGoes == OnPage /\ LogsNext => Goes
BY SearchLogsGoes, ScopeLogsGoes, LevelChipGoes, SelectBarGoes, ClearRangeGoes, OpenGroupGoes,
   EventRowGoes, CloseTraceGoes, ClearLogsGoes, KeyboardGoes DEF LogsNext

-----------------------------------------------------------------------------
(* Actions *)

\* Sequences of numbers compare as in a dictionary.
LEMMA Dictionary ==
    ASSUME NEW n \in Nat, NEW p \in [1..n -> Int], NEW q \in [1..n -> Int],
           NEW r \in [1..n -> Int]
    PROVE  /\ p # q => Precedes(p, q) \/ Precedes(q, p)
           /\ Precedes(p, q) /\ Precedes(q, r) => Precedes(p, r)
<1>1. ASSUME p # q PROVE Precedes(p, q) \/ Precedes(q, p)
  <2> DEFINE D == {i \in 1..n : p[i] # q[i]}
  <2>1. D # {} /\ D \subseteq Int /\ D \in SUBSET (1..n)
    <3>1. p = [i \in 1..n |-> p[i]] /\ q = [i \in 1..n |-> q[i]]
      OBVIOUS
    <3>2. \E i \in 1..n : p[i] # q[i]
      BY <1>1, <3>1
    <3>3. D # {}
      BY <3>2
    <3>4. D \subseteq 1..n
      OBVIOUS
    <3> HIDE DEF D
    <3>5. D \subseteq Int
      BY <3>4
    <3> QED BY <3>3, <3>4, <3>5
  <2>2. IsFiniteSet(1..n)
    <3>1. 1 \in Int /\ n \in Int
      OBVIOUS
    <3> QED BY <3>1, FS_Interval
  <2>3. IsFiniteSet(D)
    BY <2>1, <2>2, FS_Subset
  <2> DEFINE i == Min(D)
  <2>4. i \in D /\ \A j \in D : i <= j
    <3> HIDE DEF D
    <3> QED BY <2>1, <2>3, MinOf
  <2> HIDE DEF i
  <2>5. /\ i \in DOMAIN p /\ i \in DOMAIN q /\ p[i] \in Int /\ q[i] \in Int /\ p[i] # q[i]
        /\ i \in 1..n
    BY <2>4
  <2>6. \A j \in 1..i - 1 : p[j] = q[j] /\ q[j] = p[j]
    <3> TAKE j \in 1..i - 1
    <3>1. j \in 1..n /\ ~(i <= j)
      BY <2>5
    <3> QED BY <2>4, <3>1
  <2>7. p[i] < q[i] \/ q[i] < p[i]
    BY <2>5
  <2> QED BY <2>5, <2>6, <2>7 DEF Precedes
<1>2. ASSUME Precedes(p, q), Precedes(q, r) PROVE Precedes(p, r)
  <2>1. PICK i \in 1..n : p[i] < q[i] /\ \A j \in 1..i - 1 : p[j] = q[j]
    BY <1>2 DEF Precedes
  <2>2. PICK k \in 1..n : q[k] < r[k] /\ \A j \in 1..k - 1 : q[j] = r[j]
    BY <1>2 DEF Precedes
  <2>3. \A j \in 1..n : p[j] \in Int /\ q[j] \in Int /\ r[j] \in Int
    OBVIOUS
  <2>4. DOMAIN p = 1..n
    OBVIOUS
  <2>5. CASE i <= k
    <3>1. p[i] < r[i]
      <4>1. q[i] = r[i] \/ i = k
        BY <2>2, <2>5
      <4> QED BY <2>1, <2>2, <2>3, <4>1
    <3>2. \A j \in 1..i - 1 : p[j] = r[j]
      BY <2>1, <2>2, <2>5
    <3> QED BY <2>4, <3>1, <3>2 DEF Precedes
  <2>6. CASE k < i
    <3>1. p[k] < r[k]
      BY <2>1, <2>2, <2>3, <2>6
    <3>2. \A j \in 1..k - 1 : p[j] = r[j]
      BY <2>1, <2>2, <2>6
    <3> QED BY <2>4, <3>1, <3>2 DEF Precedes
  <2> QED BY <2>5, <2>6
<1> QED BY <1>1, <1>2

\* The placements, and the ranks of names.
LEMMA PlacementsFinite ==
    /\ DOMAIN Placements = 1..Len(Placements) /\ Len(Placements) \in Nat
    /\ IsFiniteSet(DOMAIN Placements)
<1>1. DOMAIN Placements = 1..Len(Placements) /\ Len(Placements) \in Nat
  BY ConfigAssumption
<1>2. IsFiniteSet(1..Len(Placements))
  BY <1>1, FS_Interval
<1> QED BY <1>1, <1>2

LEMMA Ranked ==
    ASSUME NEW x \in Range(Alphabet)
    PROVE  Rank(x) \in Int /\ Alphabet[Rank(x)] = x
<1>1. DOMAIN Alphabet \subseteq Int
  BY NamesAssumption
<1>2. \E i \in DOMAIN Alphabet : Alphabet[i] = x
  BY DEF Range
<1> QED BY <1>1, <1>2 DEF Rank

\* An entry of the catalog of actions: it is the only one of its name and the only one of
\* its place.
Entry(c) ==
    /\ c.name \in Range(Alphabet) /\ c.sec \in Int /\ c.place \in DOMAIN Placements
    /\ c.name = baseName(Placements[c.place].name)
    /\ Cardinality(c.wfs) \in Int
    /\ c.events \subseteq data.events
    /\ \A e \in c.events : e.actionName # None /\ baseName(e.actionName) = c.name
    /\ c = ActionEntry(c.name)

LEMMA EntriesOf ==
    ASSUME DataOK
    PROVE  IsFiniteSet(buildCatalog) /\ \A c \in buildCatalog : Entry(c)
<1> DEFINE bases == {baseName(p.name) : p \in Range(Placements)}
           g     == [i \in DOMAIN Placements |-> baseName(Placements[i].name)]
           f     == [base \in bases |-> ActionEntry(base)]
<1>1. IsFiniteSet(bases)
  <2>1. bases = {g[i] : i \in DOMAIN Placements} /\ DOMAIN g = DOMAIN Placements
    BY DEF Range
  <2>2. IsFiniteSet(DOMAIN Placements)
    BY PlacementsFinite
  <2> HIDE DEF bases, g
  <2> QED BY <2>1, <2>2, FiniteImage
<1>2. IsFiniteSet(buildCatalog)
  <2>1. buildCatalog = {f[base] : base \in bases} /\ DOMAIN f = bases
    BY DEF buildCatalog
  <2> HIDE DEF bases, f
  <2> QED BY <1>1, <2>1, FiniteImage
<1>3. ASSUME NEW base \in bases PROVE Entry(ActionEntry(base))
  <2> DEFINE at      == {i \in DOMAIN Placements : baseName(Placements[i].name) = base}
             members == {Placements[i] : i \in at}
             wfs     == {p.wf : p \in members}
             secs    == {p.sec : p \in members}
             c       == ActionEntry(base)
             h       == [i \in at |-> Placements[i]]
             w       == [p \in members |-> p.wf]
             k       == [p \in members |-> p.sec]
  <2>1. at # {} /\ at \in SUBSET (DOMAIN Placements) /\ at \subseteq Int
    <3>1. \E i \in DOMAIN Placements : baseName(Placements[i].name) = base
      BY DEF Range
    <3>2. DOMAIN Placements \subseteq Int
      BY PlacementsFinite
    <3> QED BY <3>1, <3>2
  <2>2. IsFiniteSet(at)
    <3>1. IsFiniteSet(DOMAIN Placements)
      BY PlacementsFinite
    <3> HIDE DEF at
    <3> QED BY <2>1, <3>1, FS_Subset
  <2>3. IsFiniteSet(members)
    <3>1. DOMAIN h = at /\ members = {h[i] : i \in at}
      OBVIOUS
    <3> HIDE DEF members, h, at
    <3> QED BY <2>2, <3>1, FiniteImage
  <2>4. members # {} /\ members \subseteq Range(Placements)
    BY <2>1 DEF Range
  <2>5. IsFiniteSet(wfs)
    <3>1. DOMAIN w = members /\ wfs = {w[p] : p \in members}
      OBVIOUS
    <3> HIDE DEF members, w, wfs
    <3> QED BY <2>3, <3>1, FiniteImage
  <2>6. IsFiniteSet(secs)
    <3>1. DOMAIN k = members /\ secs = {k[p] : p \in members}
      OBVIOUS
    <3> HIDE DEF members, k, secs
    <3> QED BY <2>3, <3>1, FiniteImage
  <2>7. secs # {} /\ secs \subseteq Int
    <3> HIDE DEF members
    <3>1. \A p \in members : p.sec \in Int
      BY <2>4, ConfigAssumption
    <3> QED BY <2>4, <3>1
  <2>8. Min(at) \in at
    <3> HIDE DEF at
    <3> QED BY <2>1, <2>2, MinOf
  <2>9. Max(secs) \in Int
    <3> HIDE DEF secs
    <3> QED BY <2>6, <2>7, MaxOf
  <2>10. Cardinality(wfs) \in Int
    <3> HIDE DEF wfs
    <3>1. Cardinality(wfs) \in Nat
      BY <2>5, FS_CardinalityType
    <3> QED BY <3>1
  <2>11. /\ c.name = base /\ c.wfs = wfs /\ c.place = Min(at) /\ c.sec = Max(secs)
         /\ c.events = {e \in data.events : /\ e.actionName # None /\ e.workflow \in wfs
                                            /\ baseName(e.actionName) = base}
    BY DEF ActionEntry
  <2>12. base \in Range(Alphabet)
    BY NamesAssumption
  <2>13. c = ActionEntry(c.name)
    BY <2>11
  <2>14. Min(at) \in DOMAIN Placements /\ baseName(Placements[Min(at)].name) = base
    BY <2>8
  <2> HIDE DEF at, secs, wfs, c, bases
  <2> QED BY <2>9, <2>10, <2>11, <2>12, <2>13, <2>14 DEF Entry, c
<1> HIDE DEF bases
<1>4. \A c \in buildCatalog : \E base \in bases : c = ActionEntry(base)
  BY DEF buildCatalog, bases
<1> QED BY <1>2, <1>3, <1>4

\* What orders the list tells any two of its entries apart.
LEMMA Sorted ==
    ASSUME DataOK, NEW STATE s, s.sort \in {"issues", "dur", "wf", "name"}
    PROVE  \E n \in Nat :
              /\ \A c \in buildCatalog : SortKey(c, s) \in [1..n -> Int]
              /\ \A c, d \in buildCatalog : SortKey(c, s) = SortKey(d, s) => c = d
<1>1. \A c \in buildCatalog :
         /\ Entry(c) /\ Rank(c.name) \in Int /\ Alphabet[Rank(c.name)] = c.name
         /\ c.place \in Int /\ errorsIn(c, s.workflow) \in Int /\ warningsIn(c, s.workflow) \in Int
  <2> TAKE c \in buildCatalog
  <2>1. Entry(c)
    BY EntriesOf
  <2>2. Rank(c.name) \in Int /\ Alphabet[Rank(c.name)] = c.name
    BY <2>1, Ranked DEF Entry
  <2>3. c.place \in Int
    BY <2>1, PlacementsFinite DEF Entry
  <2> DEFINE failing == {e \in EventsIn(c, s.workflow) : e.level = "error"}
             warning == {e \in EventsIn(c, s.workflow) : e.level = "warn"}
  <2>4. failing \in SUBSET data.events /\ warning \in SUBSET data.events
    BY <2>1 DEF EventsIn, Entry
  <2> HIDE DEF failing, warning
  <2>5. IsFiniteSet(failing) /\ IsFiniteSet(warning)
    BY <2>4, FS_Subset DEF DataOK
  <2>6. Cardinality(failing) \in Nat /\ Cardinality(warning) \in Nat
    BY <2>5, FS_CardinalityType
  <2>7. errorsIn(c, s.workflow) \in Int /\ warningsIn(c, s.workflow) \in Int
    BY <2>6 DEF errorsIn, warningsIn, failing, warning
  <2> QED BY <2>1, <2>2, <2>3, <2>7
<1>2. ASSUME NEW c \in buildCatalog, NEW d \in buildCatalog,
             Rank(c.name) = Rank(d.name) \/ c.place = d.place
      PROVE  c = d
  <2>1. c.name = d.name
    BY <1>1, <1>2 DEF Entry
  <2>2. c = ActionEntry(c.name) /\ d = ActionEntry(d.name)
    BY <1>1 DEF Entry
  <2> QED BY <2>1, <2>2
<1>3. CASE s.sort = "issues"
  <2>1. \A c \in buildCatalog :
           /\ SortKey(c, s) = <<-errorsIn(c, s.workflow), -warningsIn(c, s.workflow),
                                IF c.running THEN 0 ELSE 1, Rank(c.name)>>
           /\ SortKey(c, s) \in [1..4 -> Int] /\ SortKey(c, s)[4] = Rank(c.name)
    BY <1>1, <1>3 DEF SortKey
  <2>2. \A c, d \in buildCatalog : SortKey(c, s) = SortKey(d, s) => c = d
    BY <1>2, <2>1
  <2>3. \A c \in buildCatalog : SortKey(c, s) \in [1..4 -> Int]
    BY <2>1
  <2>4. 4 \in Nat
    OBVIOUS
  <2> QED BY <2>2, <2>3, <2>4
<1>4. CASE s.sort = "dur"
  <2>1. \A c \in buildCatalog :
           /\ SortKey(c, s) = <<-c.sec, c.place>>
           /\ SortKey(c, s) \in [1..2 -> Int] /\ SortKey(c, s)[2] = c.place
    BY <1>1, <1>4 DEF SortKey, Entry
  <2>2. \A c, d \in buildCatalog : SortKey(c, s) = SortKey(d, s) => c = d
    BY <1>2, <2>1
  <2>3. \A c \in buildCatalog : SortKey(c, s) \in [1..2 -> Int]
    BY <2>1
  <2>4. 2 \in Nat
    OBVIOUS
  <2> QED BY <2>2, <2>3, <2>4
<1>5. CASE s.sort = "wf"
  <2>1. \A c \in buildCatalog :
           /\ SortKey(c, s) = <<-Cardinality(c.wfs), Rank(c.name)>>
           /\ SortKey(c, s) \in [1..2 -> Int] /\ SortKey(c, s)[2] = Rank(c.name)
    BY <1>1, <1>5 DEF SortKey, Entry
  <2>2. \A c, d \in buildCatalog : SortKey(c, s) = SortKey(d, s) => c = d
    BY <1>2, <2>1
  <2>3. \A c \in buildCatalog : SortKey(c, s) \in [1..2 -> Int]
    BY <2>1
  <2>4. 2 \in Nat
    OBVIOUS
  <2> QED BY <2>2, <2>3, <2>4
<1>6. CASE s.sort = "name"
  <2>1. \A c \in buildCatalog :
           /\ SortKey(c, s) = <<Rank(c.name)>>
           /\ SortKey(c, s) \in [1..1 -> Int] /\ SortKey(c, s)[1] = Rank(c.name)
    BY <1>1, <1>6 DEF SortKey
  <2>2. \A c, d \in buildCatalog : SortKey(c, s) = SortKey(d, s) => c = d
    BY <1>2, <2>1
  <2>3. \A c \in buildCatalog : SortKey(c, s) \in [1..1 -> Int]
    BY <2>1
  <2>4. 1 \in Nat
    OBVIOUS
  <2> QED BY <2>2, <2>3, <2>4
<1> QED BY <1>3, <1>4, <1>5, <1>6

\* So a list that is not empty has a first entry, and the panel is of an entry of it.
LEMMA Selected ==
    ASSUME DataOK, NEW STATE s, ActionsOK(s), actionRows(s) # {}
    PROVE  /\ selectedAction(s) \in actionRows(s)
           /\ \A c \in actionRows(s) : c.name = s.selected => selectedAction(s).name = s.selected
<1> DEFINE S == actionRows(s)
           R == {p \in S \X S : Precedes(SortKey(p[1], s), SortKey(p[2], s))}
<1>1. S \in SUBSET buildCatalog /\ S # {}
  BY DEF actionRows, scopedActions
<1>2. PICK n \in Nat :
         /\ \A c \in buildCatalog : SortKey(c, s) \in [1..n -> Int]
         /\ \A c, d \in buildCatalog : SortKey(c, s) = SortKey(d, s) => c = d
  BY Sorted DEF ActionsOK
<1>3. IsFiniteSet(S)
  <2> HIDE DEF S
  <2>1. IsFiniteSet(buildCatalog)
    BY EntriesOf
  <2> QED BY <1>1, <2>1, FS_Subset
<1>4. \A c, d \in S : <<c, d>> \in R <=> Precedes(SortKey(c, s), SortKey(d, s))
  <2> HIDE DEF S
  <2> QED OBVIOUS
<1> HIDE DEF R, S
<1>5. \A c, d \in S : c # d => <<c, d>> \in R \/ <<d, c>> \in R
  <2> TAKE c, d \in S
  <2> HAVE c # d
  <2>1. /\ SortKey(c, s) \in [1..n -> Int] /\ SortKey(d, s) \in [1..n -> Int]
        /\ SortKey(c, s) # SortKey(d, s)
    BY <1>1, <1>2
  <2>2. Precedes(SortKey(c, s), SortKey(d, s)) \/ Precedes(SortKey(d, s), SortKey(c, s))
    BY <2>1, Dictionary
  <2> QED BY <1>4, <2>2
<1>6. \A c, d, e \in S : <<c, d>> \in R /\ <<d, e>> \in R => <<c, e>> \in R
  <2> TAKE c, d, e \in S
  <2> HAVE <<c, d>> \in R /\ <<d, e>> \in R
  <2>1. /\ SortKey(c, s) \in [1..n -> Int] /\ SortKey(d, s) \in [1..n -> Int]
        /\ SortKey(e, s) \in [1..n -> Int]
    BY <1>1, <1>2
  <2>2. Precedes(SortKey(c, s), SortKey(d, s)) /\ Precedes(SortKey(d, s), SortKey(e, s))
    BY <1>4
  <2>3. Precedes(SortKey(c, s), SortKey(e, s))
    BY <2>1, <2>2, Dictionary
  <2> QED BY <1>4, <2>3
<1>7. \E c \in S : \A d \in S \ {c} : <<c, d>> \in R
  BY ONLY <1>1, <1>3, <1>5, <1>6, FiniteLeast
<1>8. \E c \in S : \A d \in S \ {c} : Precedes(SortKey(c, s), SortKey(d, s))
  BY <1>4, <1>7
<1> DEFINE first == {c \in S : \A d \in S \ {c} : Precedes(SortKey(c, s), SortKey(d, s))}
<1>9. FirstBy(LAMBDA d : SortKey(d, s), actionRows(s)) = first
  BY DEF FirstBy, S
<1>10. first # {} /\ first \subseteq S
  BY <1>8
<1> HIDE DEF first
<1>11. selectedAction(s) =
          CASE \E c \in S : c.name = s.selected -> CHOOSE c \in S : c.name = s.selected
            [] S = {} -> None
            [] OTHER -> CHOOSE c \in first : TRUE
  BY <1>9 DEF selectedAction, S
<1>12. CASE \E c \in S : c.name = s.selected
  <2>1. selectedAction(s) = CHOOSE c \in S : c.name = s.selected
    BY <1>1, <1>11, <1>12
  <2>2. selectedAction(s) \in S /\ selectedAction(s).name = s.selected
    BY <1>12, <2>1
  <2> QED BY <2>2 DEF S
<1>13. CASE ~\E c \in S : c.name = s.selected
  <2>1. selectedAction(s) = CHOOSE c \in first : TRUE
    BY <1>1, <1>11, <1>13
  <2>2. selectedAction(s) \in S
    BY <1>10, <2>1
  <2> QED BY <1>13, <2>2 DEF S
<1> QED BY <1>12, <1>13

LEMMA ActionsSets ==
    ASSUME OnPage, NEW STATE s, s.section = "actions", ActionsOK(s), Sets(s)
    PROVE  Goes
<1>1. ScreenOK(s, kept)
  BY ActionsSection
<1>2. Shows(s, {}) /\ {} \subseteq OnScreen(s)
  BY DEF Sets
<1> QED BY <1>1, <1>2, GoesThere

LEMMA ActionsLists ==
    ASSUME OnPage, NEW STATE s, s.section = "actions", ActionsOK(s), NEW STATE S,
           S \subseteq actionRows(s), Shows(s, Pairs("action", {c.name : c \in S}))
    PROVE  Goes
<1>1. ScreenOK(s, kept) /\ OnScreen(s) = ActionsShow(s)
  BY ActionsSection
<1>2. Pairs("action", {c.name : c \in S}) \subseteq ActionsShow(s)
  BY DEF ActionsShow, Pairs
<1> QED BY <1>1, <1>2, GoesThere

\* An entry of the list that is chosen is the one whose detail opens.
LEMMA ActionsOpens ==
    ASSUME OnPage, NEW STATE s, s.section = "actions", ActionsOK(s), NEW c, c \in actionRows(s),
           s.selected = c.name, Shows(s, {<<"detail", c.name>>})
    PROVE  Goes
<1>1. ScreenOK(s, kept) /\ OnScreen(s) = ActionsShow(s)
  BY ActionsSection
<1>2. selectedAction(s).name = c.name /\ actionRows(s) # {}
  BY Selected DEF OnPage
<1>3. {<<"detail", c.name>>} \subseteq ActionsShow(s)
  BY <1>2 DEF ActionsShow
<1> QED BY <1>1, <1>3, GoesThere

LEMMA OnActionsOK ==
    ASSUME OnPage, OnActions
    PROVE  ActionsOK(screen) /\ screen.section = "actions" /\ DataOK
BY DEF OnPage, OnActions, ScreenOK

LEMMA FilterActionsGoes == OnPage /\ FilterActions => Goes
<1> SUFFICES ASSUME OnPage, FilterActions PROVE Goes
  OBVIOUS
<1>1. ActionsOK(screen) /\ screen.section = "actions"
  BY OnActionsOK DEF FilterActions
<1>2. ASSUME NEW q, Sets([screen EXCEPT !.search = q]) PROVE Goes
  <2> DEFINE s == [screen EXCEPT !.search = q]
  <2>1. ActionsOK(s) /\ s.section = "actions" /\ Sets(s)
    BY <1>1, <1>2 DEF ActionsOK
  <2> HIDE DEF s
  <2> QED BY <2>1, ActionsSets
<1>3. ASSUME NEW w, Sets([screen EXCEPT !.workflow = w]) PROVE Goes
  <2> DEFINE s == [screen EXCEPT !.workflow = w]
  <2>1. ActionsOK(s) /\ s.section = "actions" /\ Sets(s)
    BY <1>1, <1>3 DEF ActionsOK
  <2> HIDE DEF s
  <2> QED BY <2>1, ActionsSets
<1>4. ASSUME NEW o \in {"issues", "dur", "wf", "name"}, Sets([screen EXCEPT !.sort = o]) PROVE Goes
  <2> DEFINE s == [screen EXCEPT !.sort = o]
  <2>1. ActionsOK(s) /\ s.section = "actions" /\ Sets(s)
    BY <1>1, <1>4 DEF ActionsOK
  <2> HIDE DEF s
  <2> QED BY <2>1, ActionsSets
<1>5. ASSUME Sets([screen EXCEPT !.issuesOnly = ~@]) PROVE Goes
  <2> DEFINE s == [screen EXCEPT !.issuesOnly = ~@]
  <2>1. ActionsOK(s) /\ s.section = "actions" /\ Sets(s)
    BY <1>1, <1>5 DEF ActionsOK
  <2> HIDE DEF s
  <2> QED BY <2>1, ActionsSets
<1>6. ASSUME NEW t, Shows([screen EXCEPT !.type = t],
                          Pairs("action", {c.name : c \in {d \in scopedActions(screen) :
                                                              t \in {All, d.type}}}))
      PROVE  Goes
  <2> DEFINE s == [screen EXCEPT !.type = t]
             S == {d \in scopedActions(screen) : t \in {All, d.type}}
  <2>1. ActionsOK(s) /\ s.section = "actions" /\ s.type = t
    BY <1>1 DEF ActionsOK
  <2>2. scopedActions(s) = scopedActions(screen)
    BY <1>1 DEF ActionsOK, scopedActions
  <2>3. Shows(s, Pairs("action", {c.name : c \in S}))
    BY <1>6
  <2> HIDE DEF s
  <2>4. S \subseteq actionRows(s)
    BY <2>1, <2>2 DEF actionRows
  <2> HIDE DEF S
  <2> QED BY <2>1, <2>3, <2>4, ActionsLists
<1> QED BY <1>2, <1>3, <1>4, <1>5, <1>6 DEF FilterActions

\* Choosing an entry changes no filter.
LEMMA Choosing ==
    ASSUME ActionsOK(screen), screen.section = "actions", NEW name, NEW STATE s,
           s = [screen EXCEPT !.selected = name]
    PROVE  /\ ActionsOK(s) /\ s.section = "actions" /\ s.selected = name
           /\ actionRows(s) = actionRows(screen)
BY DEF ActionsOK, actionRows, scopedActions

LEMMA SelectActionGoes == OnPage /\ SelectAction => Goes
<1> SUFFICES ASSUME OnPage, SelectAction PROVE Goes
  OBVIOUS
<1>1. ActionsOK(screen) /\ screen.section = "actions"
  BY OnActionsOK DEF SelectAction
<1>2. PICK c \in actionRows(screen) :
         Shows([screen EXCEPT !.selected = c.name], {<<"detail", c.name>>})
  BY DEF SelectAction
<1> DEFINE s == [screen EXCEPT !.selected = c.name]
<1>3. /\ ActionsOK(s) /\ s.section = "actions" /\ s.selected = c.name
      /\ actionRows(s) = actionRows(screen)
  BY <1>1, Choosing
<1>4. Shows(s, {<<"detail", c.name>>})
  BY <1>2
<1> HIDE DEF s
<1> QED BY <1>2, <1>3, <1>4, ActionsOpens

LEMMA SummaryCardGoes == OnPage /\ SummaryCard => Goes
<1> SUFFICES ASSUME OnPage, SummaryCard PROVE Goes
  OBVIOUS
<1>1. ActionsOK(screen) /\ screen.section = "actions"
  BY OnActionsOK DEF SummaryCard
<1>2. ASSUME NEW c, Shows([screen EXCEPT !.selected = c.name],
                          IF c \in actionRows(screen) THEN {<<"detail", c.name>>} ELSE {})
      PROVE  Goes
  <2> DEFINE s == [screen EXCEPT !.selected = c.name]
  <2>1. /\ ActionsOK(s) /\ s.section = "actions" /\ s.selected = c.name
        /\ actionRows(s) = actionRows(screen)
    BY <1>1, Choosing
  <2>2. Shows(s, IF c \in actionRows(screen) THEN {<<"detail", c.name>>} ELSE {})
    BY <1>2
  <2> HIDE DEF s
  <2>3. CASE c \in actionRows(screen)
    BY <2>1, <2>2, <2>3, ActionsOpens
  <2>4. CASE c \notin actionRows(screen)
    BY <2>1, <2>2, <2>4, ActionsSets DEF Sets
  <2> QED BY <2>3, <2>4
<1>3. ASSUME Shows([screen EXCEPT !.issuesOnly = TRUE],
                   Pairs("action", {c.name : c \in {d \in actionRows(screen) :
                                                        HasIssues(d, screen.workflow)}}))
      PROVE  Goes
  <2> DEFINE s == [screen EXCEPT !.issuesOnly = TRUE]
             S == {d \in actionRows(screen) : HasIssues(d, screen.workflow)}
  <2>1. /\ ActionsOK(s) /\ s.section = "actions" /\ s.workflow = screen.workflow
        /\ s.search = screen.search /\ s.type = screen.type
    BY <1>1 DEF ActionsOK
  <2>2. Shows(s, Pairs("action", {c.name : c \in S}))
    BY <1>3
  <2> HIDE DEF s
  <2>3. S \subseteq actionRows(s)
    BY <2>1 DEF actionRows, scopedActions
  <2> HIDE DEF S
  <2> QED BY <2>1, <2>2, <2>3, ActionsLists
<1> QED BY <1>2, <1>3 DEF SummaryCard

LEMMA ClearActionsGoes == OnPage /\ ClearActions => Goes
<1> SUFFICES ASSUME OnPage, ClearActions PROVE Goes
  OBVIOUS
<1>1. ActionsOK(screen) /\ screen.section = "actions"
  BY OnActionsOK DEF ClearActions
<1> DEFINE s == clearActions(screen)
<1>2. ActionsOK(s) /\ s.section = "actions"
  BY <1>1 DEF ActionsOK, clearActions
<1>3. Sets(s)
  BY DEF ClearActions
<1> HIDE DEF s
<1> QED BY <1>2, <1>3, ActionsSets

\* An action's events are found in Logs by its name.
LEMMA ActionInLogsGoes == OnPage /\ ActionInLogs => Goes
<1> SUFFICES ASSUME OnPage, ActionInLogs PROVE Goes
  OBVIOUS
<1>1. ActionsOK(screen) /\ screen.section = "actions" /\ DataOK /\ actionRows(screen) # {}
  BY OnActionsOK DEF ActionInLogs
<1> DEFINE c == selectedAction(screen)
           S == {e \in EventsIn(c, screen.workflow) : ~e.diagnostic /\ e.named # None}
<1>2. openLogs(LookFor(c.name), Rows(S))
  BY DEF ActionInLogs, Findable
<1>3. c \in buildCatalog
  BY <1>1, Selected DEF actionRows, scopedActions
<1>4. Entry(c)
  BY <1>1, <1>3, EntriesOf
<1> HIDE DEF c
<1>5. LookFor(c.name).level = All /\ LookFor(c.name).q = c.name
  BY DEF LookFor, NoIntent
<1>6. ASSUME NEW e \in S
      PROVE  e \in data.events /\ ~e.diagnostic /\ Includes(searchIndex(e), c.name)
  <2>1. e \in c.events /\ ~e.diagnostic /\ e.named # None
    BY DEF EventsIn
  <2>2. e \in data.events /\ baseName(e.actionName) = c.name
    BY <1>4, <2>1 DEF Entry
  <2>3. Event(e)
    BY <1>1, <2>2 DEF DataOK
  <2>4. e.actionName = e.named
    BY <2>1, <2>3 DEF Event
  <2> QED BY <2>1, <2>2, <2>3, <2>4, EventFound
<1> HIDE DEF S
<1> DEFINE intent == LookFor(c.name)
<1>7. intent.level \in Range(LEVELS) \cup {All}
  BY <1>5
<1>8. \A e \in S : /\ e \in data.events /\ ~e.diagnostic
                   /\ Includes(searchIndex(e), intent.q) /\ intent.level \in {All, e.level}
  BY <1>5, <1>6
<1> HIDE DEF intent
<1>9. openLogs(intent, Rows(S))
  BY <1>2 DEF intent
<1> QED BY <1>7, <1>8, <1>9, OpensLogs

-----------------------------------------------------------------------------
(* Workflows *)

LEMMA WorkflowsGo ==
    ASSUME OnPage, NEW STATE s, s.section = "workflows", WorkflowsOK(s), NEW STATE what,
           what \subseteq WorkflowsShow(s), Shows(s, what)
    PROVE  Goes
BY WorkflowsSection, GoesThere

LEMMA OnWorkflowsOK ==
    ASSUME OnPage, screen.section = "workflows"
    PROVE  WorkflowsOK(screen) /\ DataOK
BY DEF OnPage, ScreenOK

\* A workflow that is listed has an identity.
LEMMA Identified ==
    ASSUME NEW STATE s, NEW w \in filteredWorkflows(s)
    PROVE  w.id # None
BY ConfigAssumption DEF filteredWorkflows, transformWorkflows

LEMMA FilterWorkflowsGoes == OnPage /\ FilterWorkflows => Goes
<1> SUFFICES ASSUME OnPage, FilterWorkflows PROVE Goes
  OBVIOUS
<1>1. WorkflowsOK(screen) /\ screen.section = "workflows" /\ screen.selected = None
  BY OnWorkflowsOK DEF FilterWorkflows, OnWorkflows
<1>2. ASSUME NEW STATE s, s.section = "workflows", WorkflowsOK(s), Sets(s) PROVE Goes
  BY <1>2, WorkflowsGo DEF Sets
<1>3. ASSUME NEW q, Sets([screen EXCEPT !.search = q]) PROVE Goes
  <2> DEFINE s == [screen EXCEPT !.search = q]
  <2>1. s.section = "workflows" /\ WorkflowsOK(s) /\ Sets(s)
    BY <1>1, <1>3 DEF WorkflowsOK
  <2> HIDE DEF s
  <2> QED BY <1>2, <2>1
<1>4. ASSUME NEW t, Sets([screen EXCEPT !.status = t]) PROVE Goes
  <2> DEFINE s == [screen EXCEPT !.status = t]
  <2>1. s.section = "workflows" /\ WorkflowsOK(s) /\ Sets(s)
    BY <1>1, <1>4 DEF WorkflowsOK
  <2> HIDE DEF s
  <2> QED BY <1>2, <2>1
<1>5. ASSUME Sets(clearWorkflows(screen)) PROVE Goes
  <2> DEFINE s == clearWorkflows(screen)
  <2>1. s.section = "workflows" /\ WorkflowsOK(s) /\ Sets(s)
    BY <1>1, <1>5 DEF WorkflowsOK, clearWorkflows
  <2> HIDE DEF s
  <2> QED BY <1>2, <2>1
<1> QED BY <1>3, <1>4, <1>5 DEF FilterWorkflows

LEMMA WorkflowCardGoes == OnPage /\ WorkflowCard => Goes
<1> SUFFICES ASSUME OnPage, WorkflowCard PROVE Goes
  OBVIOUS
<1>1. WorkflowsOK(screen) /\ screen.section = "workflows" /\ screen.selected = None
  BY OnWorkflowsOK DEF WorkflowCard, OnWorkflows
<1>2. PICK w \in filteredWorkflows(screen) :
         Shows([screen EXCEPT !.selected = w.id], Pairs("node", PlacementsOf(w.id)))
  BY DEF WorkflowCard
<1> DEFINE s == [screen EXCEPT !.selected = w.id]
<1>3. w.id # None
  BY <1>2, Identified
<1>4. s.section = "workflows" /\ WorkflowsOK(s) /\ s.selected = w.id /\ s.tab = "graph"
  BY <1>1, <1>2 DEF WorkflowsOK, filteredWorkflows
<1>5. Shows(s, Pairs("node", PlacementsOf(w.id)))
  BY <1>2
<1> HIDE DEF s
<1>6. Pairs("node", PlacementsOf(w.id)) \subseteq WorkflowsShow(s)
  BY <1>3, <1>4 DEF WorkflowsShow
<1> QED BY <1>4, <1>5, <1>6, WorkflowsGo

LEMMA BackToWorkflowsGoes == OnPage /\ BackToWorkflows => Goes
<1> SUFFICES ASSUME OnPage, BackToWorkflows PROVE Goes
  OBVIOUS
<1>1. WorkflowsOK(screen) /\ screen.section = "workflows" /\ screen.selected # None
  BY OnWorkflowsOK DEF BackToWorkflows, InWorkflow
<1> DEFINE s == Listing(screen)
<1>2. /\ s.section = "workflows" /\ WorkflowsOK(s) /\ s.selected = None
      /\ filteredWorkflows(s) = filteredWorkflows(screen)
  BY <1>1 DEF WorkflowsOK, Listing, filteredWorkflows
<1>3. Shows(s, Pairs("workflow", {screen.selected}))
  BY DEF BackToWorkflows
<1> HIDE DEF s
<1>4. Pairs("workflow", {screen.selected}) \subseteq WorkflowsShow(s)
  BY <1>1, <1>2 DEF WorkflowsShow, Pairs, WorkflowsOK
<1> QED BY <1>2, <1>3, <1>4, WorkflowsGo

\* Inside a workflow the tab and the panel may change.
LEMMA Inside ==
    ASSUME OnPage, InWorkflow, NEW x
    PROVE  /\ [screen EXCEPT !.tab = x].section = "workflows"
           /\ WorkflowsOK([screen EXCEPT !.tab = x])
           /\ [screen EXCEPT !.node = x].section = "workflows"
           /\ WorkflowsOK([screen EXCEPT !.node = x])
           /\ [screen EXCEPT !.node = x].node = x
           /\ [screen EXCEPT !.node = x].selected # None
<1>1. WorkflowsOK(screen) /\ screen.section = "workflows" /\ screen.selected # None
  BY OnWorkflowsOK DEF InWorkflow
<1> QED BY <1>1 DEF WorkflowsOK, filteredWorkflows

LEMMA PanelGoes ==
    ASSUME OnPage, InWorkflow, NEW key, NEW S, S \subseteq {key} \cap DOMAIN transformActions,
           Shows([screen EXCEPT !.node = key], Pairs("panel", S))
    PROVE  Goes
<1> DEFINE s == [screen EXCEPT !.node = key]
<1>1. s.section = "workflows" /\ WorkflowsOK(s) /\ s.node = key /\ s.selected # None
  BY Inside
<1>2. Shows(s, Pairs("panel", S))
  OBVIOUS
<1> HIDE DEF s
<1>3. Pairs("panel", S) \subseteq WorkflowsShow(s)
  BY <1>1 DEF WorkflowsShow, Pairs
<1> QED BY <1>1, <1>2, <1>3, WorkflowsGo

LEMMA WorkflowTabGoes == OnPage /\ WorkflowTab => Goes
<1> SUFFICES ASSUME OnPage, WorkflowTab PROVE Goes
  OBVIOUS
<1>1. PICK t : Sets([screen EXCEPT !.tab = t])
  BY DEF WorkflowTab
<1> DEFINE s == [screen EXCEPT !.tab = t]
<1>2. s.section = "workflows" /\ WorkflowsOK(s)
  BY Inside DEF WorkflowTab
<1>3. Shows(s, {})
  BY <1>1 DEF Sets
<1> HIDE DEF s
<1> QED BY <1>2, <1>3, WorkflowsGo

LEMMA ClickNodeGoes == OnPage /\ (ClickNode \/ ClickRow) => Goes
<1> SUFFICES ASSUME OnPage, ClickNode \/ ClickRow PROVE Goes
  OBVIOUS
<1>1. InWorkflow /\ \E key \in PlacementsOf(screen.selected) : Traces(key)
  BY DEF ClickNode, ClickRow
<1>2. PICK key \in PlacementsOf(screen.selected) : Traces(key)
  BY <1>1
<1>3. key \in DOMAIN transformActions
  BY DEF PlacementsOf
<1>4. screen.section = "workflows" /\ WorkflowsOK(screen)
  BY <1>1, OnWorkflowsOK DEF InWorkflow
<1>5. CASE screen.node = key
  <2>1. Shows([screen EXCEPT !.node = None], {})
    BY <1>2, <1>4, <1>5 DEF Traces, WorkflowsOK
  <2>2. Shows([screen EXCEPT !.node = None], Pairs("panel", {}))
    BY <2>1 DEF Pairs
  <2> QED BY <1>1, <2>2, PanelGoes
<1>6. CASE screen.node # key
  <2>1. Shows([screen EXCEPT !.node = key], {<<"panel", key>>})
    BY <1>2, <1>4, <1>6 DEF Traces, WorkflowsOK
  <2>2. Shows([screen EXCEPT !.node = key], Pairs("panel", {key}))
    BY <2>1 DEF Pairs
  <2> QED BY <1>1, <1>3, <2>2, PanelGoes
<1> QED BY <1>5, <1>6

LEMMA ClickDependencyGoes == OnPage /\ ClickDependency => Goes
<1> SUFFICES ASSUME OnPage, ClickDependency PROVE Goes
  OBVIOUS
<1>1. InWorkflow
  BY DEF ClickDependency
<1>2. ASSUME NEW key, Shows([screen EXCEPT !.node = key],
                            Pairs("panel", {key} \cap DOMAIN transformActions))
      PROVE  Goes
  BY <1>1, <1>2, PanelGoes
<1>3. ASSUME NEW key \in dependents(screen.node),
             Shows([screen EXCEPT !.node = key], {<<"panel", key>>})
      PROVE  Goes
  <2>1. key \in DOMAIN transformActions
    BY DEF dependents, PlacementsOf
  <2>2. Shows([screen EXCEPT !.node = key], Pairs("panel", {key}))
    BY <1>3 DEF Pairs
  <2> QED BY <1>1, <2>1, <2>2, PanelGoes
<1>4. ASSUME Sets([screen EXCEPT !.node = None]) PROVE Goes
  <2>1. Shows([screen EXCEPT !.node = None], Pairs("panel", {}))
    BY <1>4 DEF Pairs, Sets
  <2> QED BY <1>1, <2>1, PanelGoes
<1> QED BY <1>2, <1>3, <1>4 DEF ClickDependency

\* Logs opened for a word that the events have.
LEMMA LooksFor ==
    ASSUME OnPage, NEW STATE q, NEW STATE S, openLogs(LookFor(q), Rows(S)),
           \A e \in S : e \in data.events /\ ~e.diagnostic /\ Includes(searchIndex(e), q)
    PROVE  Goes
<1> DEFINE intent == LookFor(q)
<1>1. intent.level = All /\ intent.q = q
  BY DEF LookFor, NoIntent
<1>2. openLogs(intent, Rows(S))
  OBVIOUS
<1> HIDE DEF intent
<1> QED BY <1>1, <1>2, OpensLogs

LEMMA WorkflowInLogsGoes == OnPage /\ WorkflowInLogs => Goes
<1> SUFFICES ASSUME OnPage, WorkflowInLogs PROVE Goes
  OBVIOUS
<1>1. DataOK /\ screen.selected # None
  BY DEF OnPage, WorkflowInLogs, InWorkflow
<1> DEFINE here == {e \in data.events : e.workflow = screen.selected}
<1>2. ASSUME openLogs(LookFor(screen.selected), Rows({e \in here : ~e.diagnostic})) PROVE Goes
  <2> DEFINE S == {e \in here : ~e.diagnostic}
  <2>1. \A e \in S : /\ e \in data.events /\ ~e.diagnostic
                     /\ Includes(searchIndex(e), screen.selected)
    BY <1>1, EventFound DEF DataOK
  <2>2. openLogs(LookFor(screen.selected), Rows(S))
    BY <1>2
  <2> HIDE DEF S
  <2> QED BY <2>1, <2>2, LooksFor
<1>3. ASSUME openLogs(LookFor(screen.node[2]),
                      Findable({e \in here : e.actionName = screen.node[2]}))
      PROVE  Goes
  <2> DEFINE S == {e \in {f \in here : f.actionName = screen.node[2]} :
                      ~e.diagnostic /\ e.named # None}
  <2>1. ASSUME NEW e \in S
        PROVE  e \in data.events /\ ~e.diagnostic /\ Includes(searchIndex(e), screen.node[2])
    <3>1. e \in data.events /\ Event(e) /\ e.named # None /\ e.actionName = screen.node[2]
      BY <1>1 DEF DataOK
    <3>2. e.named = screen.node[2]
      BY <3>1 DEF Event
    <3> QED BY <3>1, <3>2, EventFound
  <2>2. openLogs(LookFor(screen.node[2]), Rows(S))
    BY <1>3 DEF Findable
  <2> HIDE DEF S
  <2> QED BY <2>1, <2>2, LooksFor
<1> QED BY <1>2, <1>3 DEF WorkflowInLogs

-----------------------------------------------------------------------------
(* Runs *)

LEMMA RunsGo ==
    ASSUME OnPage, NEW STATE s, s.section = "runs", RunsScreenOK(s), NEW STATE what,
           what \subseteq RunsShow(s), Shows(s, what)
    PROVE  Goes
BY RunsSection, GoesThere

LEMMA FilterRunsGoes == OnPage /\ FilterRuns => Goes
<1> SUFFICES ASSUME OnPage, FilterRuns PROVE Goes
  OBVIOUS
<1>1. RunsScreenOK(screen) /\ screen.section = "runs" /\ screen.selected = None
  BY DEF FilterRuns, OnRuns, OnPage, ScreenOK
<1>2. ASSUME NEW STATE s, s.section = "runs", RunsScreenOK(s), Sets(s) PROVE Goes
  BY <1>2, RunsGo DEF Sets
<1>3. ASSUME NEW q, Sets([screen EXCEPT !.search = q]) PROVE Goes
  <2> DEFINE s == [screen EXCEPT !.search = q]
  <2>1. s.section = "runs" /\ RunsScreenOK(s) /\ Sets(s)
    BY <1>1, <1>3 DEF RunsScreenOK
  <2> HIDE DEF s
  <2> QED BY <1>2, <2>1
<1>4. ASSUME NEW t, Sets([screen EXCEPT !.status = t]) PROVE Goes
  <2> DEFINE s == [screen EXCEPT !.status = t]
  <2>1. s.section = "runs" /\ RunsScreenOK(s) /\ Sets(s)
    BY <1>1, <1>4 DEF RunsScreenOK
  <2> HIDE DEF s
  <2> QED BY <1>2, <2>1
<1>5. ASSUME Sets(clearRuns(screen)) PROVE Goes
  <2> DEFINE s == clearRuns(screen)
  <2>1. s.section = "runs" /\ RunsScreenOK(s) /\ Sets(s)
    BY <1>1, <1>5 DEF RunsScreenOK, clearRuns
  <2> HIDE DEF s
  <2> QED BY <1>2, <2>1
<1> QED BY <1>3, <1>4, <1>5 DEF FilterRuns

\* The axis of a run is as long as its longest bar.
LEMMA Axis ==
    ASSUME NEW r, Run(r)
    PROVE  /\ span(r) \in Int
           /\ \A a \in r.actions : /\ bar(a).start # None /\ bar(a).end # None
                                   => bar(a).end \in Int /\ bar(a).end <= span(r)
<1> DEFINE f     == [a \in r.actions |-> bar(a)]
           bars  == {bar(a) : a \in r.actions}
           whole == {c \in bars : None \notin {c.start, c.end}}
           g     == [b \in whole |-> b.end]
           ends  == {b.end : b \in whole}
           all   == {1, r.duration} \cup ends
<1>1. IsFiniteSet(bars)
  <2>1. DOMAIN f = r.actions /\ bars = {f[a] : a \in r.actions} /\ IsFiniteSet(r.actions)
    BY DEF Run
  <2> HIDE DEF f, bars
  <2> QED BY <2>1, FiniteImage
<1>2. IsFiniteSet(whole)
  <2>1. whole \in SUBSET bars
    OBVIOUS
  <2> HIDE DEF whole, bars
  <2> QED BY <1>1, <2>1, FS_Subset
<1>3. IsFiniteSet(ends)
  <2>1. DOMAIN g = whole /\ ends = {g[b] : b \in whole}
    OBVIOUS
  <2> HIDE DEF g, whole, ends
  <2> QED BY <1>2, <2>1, FiniteImage
<1>4. \A a \in r.actions : bar(a).end # None => bar(a).end \in Int
  BY RunAssumption DEF bar, Run
<1>5. ends \subseteq Int
  BY <1>4
<1>6. IsFiniteSet(all) /\ all # {} /\ all \subseteq Int
  <2>1. IsFiniteSet({1, r.duration})
    <3>1. IsFiniteSet({1}) /\ IsFiniteSet({r.duration})
      BY FS_Singleton
    <3>2. {1, r.duration} = {1} \cup {r.duration}
      OBVIOUS
    <3> QED BY <3>1, <3>2, FS_Union
  <2>2. {1, r.duration} \subseteq Int
    BY DEF Run
  <2> HIDE DEF ends
  <2>3. IsFiniteSet(all)
    BY <1>3, <2>1, FS_Union
  <2> QED BY <1>5, <2>2, <2>3
<1> HIDE DEF all
<1>7. Max(all) \in Int /\ \A k \in all : k <= Max(all)
  BY <1>6, MaxOf
<1>8. span(r) = Max(all)
  BY DEF span, all
<1>9. \A a \in r.actions : bar(a).start # None /\ bar(a).end # None => bar(a).end \in all
  BY DEF all
<1> QED BY <1>4, <1>7, <1>8, <1>9

\* So an action that took time, or has no times, has its bar on it.
LEMMA Drawn ==
    ASSUME NEW r, Run(r), NEW a \in r.actions, HasBar(a)
    PROVE  bar(a).start = None \/ bar(a).start < span(r)
<1>1. /\ a.dur \in Int /\ a.dur >= 0 /\ a.start \in Nat \cup {None} /\ a.end \in Nat \cup {None}
      /\ None \notin Int /\ Nat \subseteq Int
  BY RunAssumption DEF Run
<1>2. bar(a).start = None \/ /\ bar(a).start \in Int /\ bar(a).end \in Int
                             /\ bar(a).start < bar(a).end
  <2>1. CASE a.start = None /\ a.end = None
    BY <1>1, <2>1 DEF bar
  <2>2. CASE a.start = None /\ a.end # None
    <3>1. CASE a.dur > 0
      <4>1. bar(a).start = a.end - a.dur /\ bar(a).end = a.end
        BY <2>2, <3>1 DEF bar
      <4> QED BY <1>1, <2>2, <3>1, <4>1
    <3>2. CASE ~(a.dur > 0)
      BY <2>2, <3>2 DEF bar
    <3> QED BY <3>1, <3>2
  <2>3. CASE a.start # None /\ a.end = None
    <3>1. a.dur > 0
      BY <2>3 DEF HasBar
    <3>2. bar(a).start = a.start /\ bar(a).end = a.start + a.dur
      BY <2>3, <3>1 DEF bar
    <3> QED BY <1>1, <2>3, <3>1, <3>2
  <2>4. CASE a.start # None /\ a.end # None
    <3>1. a.start < a.end
      BY <2>4 DEF HasBar
    <3>2. bar(a).start = a.start /\ bar(a).end = a.end
      BY <2>4 DEF bar
    <3> QED BY <1>1, <2>4, <3>1, <3>2
  <2> QED BY <2>1, <2>2, <2>3, <2>4
<1>3. CASE bar(a).start # None
  <2>1. bar(a).end # None
    BY <1>1, <1>2, <1>3
  <2>2. span(r) \in Int /\ bar(a).end \in Int /\ bar(a).end <= span(r)
    BY <1>3, <2>1, Axis
  <2> QED BY <1>2, <1>3, <2>2
<1> QED BY <1>3

LEMMA OpenRunGoes == OnPage /\ OpenRun => Goes
<1> SUFFICES ASSUME OnPage, OpenRun PROVE Goes
  OBVIOUS
<1>1. DataOK /\ screen.section = "runs" /\ RunsScreenOK(screen)
  BY DEF OpenRun, OnRuns, OnPage, ScreenOK
<1>2. ASSUME NEW r \in filteredRuns(screen),
             Shows([screen EXCEPT !.selected = r.id],
                   {<<"run detail", r.id>>} \cup
                   {<<"bar", a.name>> : a \in {b \in r.actions : HasBar(b)}})
      PROVE  Goes
  <2> DEFINE s    == [screen EXCEPT !.selected = r.id]
             what == {<<"run detail", r.id>>} \cup
                     {<<"bar", a.name>> : a \in {b \in r.actions : HasBar(b)}}
  <2>1. r \in data.runs
    BY DEF filteredRuns
  <2>2. Run(r) /\ r.id # None
    BY <1>1, <2>1 DEF DataOK, Run, Text
  <2>3. s.section = "runs" /\ RunsScreenOK(s) /\ s.selected = r.id
    BY <1>1, <1>2 DEF RunsScreenOK, filteredRuns
  <2>4. Shows(s, what)
    BY <1>2
  <2> HIDE DEF s
  <2>5. RunsShow(s) = RunDetail(r)
    <3>1. (CHOOSE x \in data.runs : x.id = s.selected) = r
      BY <1>1, <2>1, <2>3 DEF DataOK
    <3> QED BY <2>2, <2>3, <3>1 DEF RunsShow
  <2>6. ASSUME NEW a \in r.actions, HasBar(a) PROVE <<"bar", a.name>> \in RunDetail(r)
    <3>1. bar(a).start = None \/ bar(a).start < span(r)
      BY <2>2, <2>6, Drawn
    <3>2. bar(a).name = a.name
      BY DEF bar
    <3> QED BY <3>1, <3>2 DEF RunDetail
  <2>7. <<"run detail", r.id>> \in RunDetail(r)
    BY DEF RunDetail
  <2>8. what \subseteq RunsShow(s)
    BY <2>5, <2>6, <2>7
  <2> HIDE DEF what
  <2> QED BY <2>3, <2>4, <2>8, RunsGo
<1>3. ASSUME screen.selected # None,
             Shows([screen EXCEPT !.selected = None], {<<"run", screen.selected>>})
      PROVE  Goes
  <2> DEFINE s == [screen EXCEPT !.selected = None]
  <2>1. /\ s.section = "runs" /\ RunsScreenOK(s) /\ s.selected = None
        /\ filteredRuns(s) = filteredRuns(screen)
    BY <1>1 DEF RunsScreenOK, filteredRuns
  <2>2. Shows(s, {<<"run", screen.selected>>})
    BY <1>3
  <2> HIDE DEF s
  <2>3. {<<"run", screen.selected>>} \subseteq RunsShow(s)
    BY <1>1, <1>3, <2>1 DEF RunsShow, RunsScreenOK, Pairs
  <2> QED BY <2>1, <2>2, <2>3, RunsGo
<1> QED BY <1>2, <1>3 DEF OpenRun

-----------------------------------------------------------------------------
(* Schemas, prompts, tools *)

LEMMA ItemsGo ==
    ASSUME OnPage, NEW STATE s, s.section \in Kinds, ItemsOK(s), NEW STATE what,
           what \subseteq CatalogShows(s), Shows(s, what)
    PROVE  Goes
BY ItemsSection, GoesThere

LEMMA ItemControlsGo == OnPage /\ (SearchItems \/ SelectItem) => Goes
<1> SUFFICES ASSUME OnPage, SearchItems \/ SelectItem PROVE Goes
  OBVIOUS
<1>1. ItemsOK(screen) /\ screen.section \in Kinds
  BY DEF SearchItems, SelectItem, OnPage, ScreenOK
<1>2. ASSUME NEW q, Sets([screen EXCEPT !.search = q]) PROVE Goes
  <2> DEFINE s == [screen EXCEPT !.search = q]
  <2>1. s.section \in Kinds /\ ItemsOK(s)
    BY <1>1 DEF ItemsOK
  <2>2. Shows(s, {})
    BY <1>2 DEF Sets
  <2> HIDE DEF s
  <2> QED BY <2>1, <2>2, ItemsGo
<1>3. ASSUME NEW x \in At(screen.section, filteredItems(screen)),
             Shows([screen EXCEPT !.selected = x.id], {<<"item detail", x.id>>})
      PROVE  Goes
  <2> DEFINE s == [screen EXCEPT !.selected = x.id]
  <2>1. /\ s.section = screen.section /\ s.selected = x.id /\ ItemsOK(s)
        /\ filteredItems(s) = filteredItems(screen)
    BY <1>1 DEF ItemsOK, filteredItems
  <2>2. Shows(s, {<<"item detail", x.id>>})
    BY <1>3
  <2> HIDE DEF s
  <2> DEFINE found == {y \in At(s.section, filteredItems(s)) : y.id = s.selected}
  <2>3. x \in found
    BY <2>1
  <2>4. selectedItem(s) = CHOOSE y \in found : TRUE
    BY <2>3 DEF selectedItem
  <2>5. selectedItem(s).id = x.id
    <3>1. \A y \in found : y.id = x.id
      BY <2>1
    <3> HIDE DEF found
    <3> QED BY <2>3, <2>4, <3>1
  <2>6. filteredItems(s) # {}
    BY <2>1 DEF At
  <2>7. {<<"item detail", x.id>>} \subseteq CatalogShows(s)
    BY <2>5, <2>6 DEF CatalogShows
  <2> QED BY <1>1, <2>1, <2>2, <2>7, ItemsGo
<1> QED BY <1>2, <1>3 DEF SearchItems, SelectItem

-----------------------------------------------------------------------------
(* Moves between screens *)

\* A section that opens is in order and shows everything there is to show.
LEMMA ActionsWhole ==
    ASSUME DataOK, NEW STATE s,
           s.search = <<>>, s.type = All, s.workflow = All, ~s.issuesOnly
    PROVE  actionRows(s) = buildCatalog
<1>2. ASSUME NEW c \in buildCatalog
      PROVE  Includes(c.words \cup {c.name} \cup c.wfs, <<>>)
  <2>1. Entry(c)
    BY EntriesOf
  <2>2. c.name \in Seq(Range(c.name))
    <3>1. c.name = <<Placements[c.place].name[1]>>
      BY <2>1 DEF Entry, baseName
    <3> DEFINE x == Placements[c.place].name[1]
    <3>2. <<x>> \in Seq(Range(<<x>>))
      <4>1. <<x>> \in Seq({x}) /\ DOMAIN <<x>> = 1..1 /\ <<x>>[1] = x
        OBVIOUS
      <4>2. Range(<<x>>) = {x}
        BY <4>1 DEF Range
      <4> QED BY <4>1, <4>2
    <3> QED BY <3>1, <3>2
  <2>3. IsPrefix(<<>>, c.name)
    BY <2>2, Begins
  <2> QED BY <2>3 DEF Includes
<1>3. actionRows(s) = buildCatalog
  BY <1>2 DEF actionRows, scopedActions
<1> QED BY <1>3

LEMMA WorkflowsWhole ==
    ASSUME NEW STATE s, s.search = <<>>, s.status = All
    PROVE  filteredWorkflows(s) = transformWorkflows
<1>1. ASSUME NEW w \in transformWorkflows PROVE Includes(w.words, <<>>)
  <2>1. PICK v \in Workflows : w.words = v.words
    BY DEF transformWorkflows
  <2>2. PICK word \in v.words : Text(word)
    BY ConfigAssumption
  <2> QED BY <2>1, <2>2, Found
<1> QED BY <1>1 DEF filteredWorkflows

LEMMA Listed == {w.id : w \in transformWorkflows} = {w.id : w \in Workflows}
<1> DEFINE made(w) == [id |-> w.id, words |-> w.words,
                       manifestStatus |-> statusFromManifest(w.status)]
<1>1. transformWorkflows = {made(w) : w \in Workflows}
  BY DEF transformWorkflows
<1>2. \A w \in Workflows : made(w).id = w.id
  OBVIOUS
<1> HIDE DEF made
<1> QED BY <1>1, <1>2

LEMMA RunsWhole ==
    ASSUME DataOK, NEW STATE s, s.search = <<>>, s.status = All
    PROVE  filteredRuns(s) = data.runs
<1>1. ASSUME NEW r \in data.runs PROVE Includes({r.id, r.wf}, <<>>)
  <2>1. Text(r.id)
    BY DEF DataOK, Run
  <2> QED BY <2>1, Found
<1> QED BY <1>1 DEF filteredRuns

LEMMA ItemsWhole ==
    ASSUME NEW STATE s, s.section \in Kinds, s.search = <<>>
    PROVE  filteredItems(s) = listedItems(s.section)
<1>1. ASSUME NEW i \in listedItems(s.section) PROVE Includes(Items[s.section][i].words, <<>>)
  <2>1. Items[s.section][i] \in Range(Items[s.section])
    BY DEF listedItems, Range
  <2>2. PICK word \in Items[s.section][i].words : Text(word)
    BY <2>1, ItemsAssumption
  <2> QED BY <2>2, Found
<1> QED BY <1>1 DEF filteredItems

LEMMA Opened ==
    /\ Mount("workflows") = WorkflowsScreen /\ Mount("actions") = ActionsScreen
    /\ Mount("runs") = RunsScreen /\ Mount("data") = DataScreen
    /\ Mount("logs") = LogsScreen(NoIntent)
    /\ Whole("workflows") = Pairs("workflow", {w.id : w \in Workflows})
    /\ Whole("actions") = Pairs("action", {c.name : c \in buildCatalog})
    /\ Whole("runs") = Pairs("run", {r.id : r \in data.runs})
    /\ Whole("data") = Pairs("workflow", {n.wf : n \in Nodes})
    /\ Whole("logs") = Rows({e \in data.events : ~e.diagnostic})
    /\ \A kind \in Kinds :
          /\ Mount(kind) = CatalogScreen(kind)
          /\ Whole(kind) = Pairs("item", {x.id : x \in At(kind, listedItems(kind))})
<1>1. /\ Mount("workflows") = WorkflowsScreen /\ Mount("actions") = ActionsScreen
      /\ Mount("runs") = RunsScreen /\ Mount("data") = DataScreen
      /\ Mount("logs") = LogsScreen(NoIntent)
  BY DEF Mount
<1>2. /\ Whole("workflows") = Pairs("workflow", {w.id : w \in Workflows})
      /\ Whole("actions") = Pairs("action", {c.name : c \in buildCatalog})
      /\ Whole("runs") = Pairs("run", {r.id : r \in data.runs})
      /\ Whole("data") = Pairs("workflow", {n.wf : n \in Nodes})
      /\ Whole("logs") = Rows({e \in data.events : ~e.diagnostic})
  BY DEF Whole, Kinds
<1>3. ASSUME NEW kind \in Kinds
      PROVE  /\ Mount(kind) = CatalogScreen(kind)
             /\ Whole(kind) = Pairs("item", {x.id : x \in At(kind, listedItems(kind))})
  BY DEF Mount, Whole, Kinds
<1> QED BY <1>1, <1>2, <1>3

LEMMA MountsWhole ==
    ASSUME DataOK, NEW section \in Sections
    PROVE  ScreenOK(Mount(section), kept) /\ Whole(section) \subseteq OnScreen(Mount(section))
<1> DEFINE s == Mount(section)
<1>1. CASE section = "home"
  <2>1. s = HomeScreen /\ Whole(section) = {} /\ HomeScreen.section = "home"
    BY <1>1 DEF Mount, Whole, HomeScreen, Kinds
  <2> HIDE DEF s
  <2>2. ScreenOK(s, kept)
    BY <2>1 DEF ScreenOK, Sections, Kinds
  <2> QED BY <2>1, <2>2 DEF s
<1>2. CASE section = "workflows"
  <2>1. s = WorkflowsScreen /\ Whole(section) = Pairs("workflow", {w.id : w \in Workflows})
    BY <1>2, Opened
  <2> HIDE DEF s
  <2>2. s.section = "workflows" /\ WorkflowsOK(s) /\ s.selected = None
        /\ s.search = <<>> /\ s.status = All
    BY <2>1 DEF WorkflowsScreen, WorkflowsOK
  <2>3. {w.id : w \in filteredWorkflows(s)} = {w.id : w \in Workflows}
    <3>1. filteredWorkflows(s) = transformWorkflows
      BY <2>2, WorkflowsWhole
    <3> QED BY <3>1, Listed
  <2>4. WorkflowsShow(s) = Whole(section)
    BY <2>1, <2>2, <2>3 DEF WorkflowsShow
  <2> QED BY <2>2, <2>4, WorkflowsSection DEF s
<1>3. CASE section = "actions"
  <2>1. /\ s = ActionsScreen /\ Whole(section) = Pairs("action", {c.name : c \in buildCatalog})
        /\ s.section = "actions" /\ ActionsOK(s)
        /\ s.search = <<>> /\ s.type = All /\ s.workflow = All /\ s.issuesOnly = FALSE
    BY <1>3, Opened DEF ActionsScreen, ActionsOK
  <2> HIDE DEF s
  <2>2. actionRows(s) = buildCatalog
    BY <2>1, ActionsWhole
  <2>3. Whole(section) \subseteq ActionsShow(s)
    BY <2>1, <2>2 DEF ActionsShow
  <2> QED BY <2>1, <2>3, ActionsSection DEF s
<1>4. CASE section = "runs"
  <2>1. /\ s = RunsScreen /\ Whole(section) = Pairs("run", {r.id : r \in data.runs})
    BY <1>4, Opened
  <2> HIDE DEF s
  <2>2. /\ s.section = "runs" /\ RunsScreenOK(s) /\ s.selected = None
        /\ s.search = <<>> /\ s.status = All
    BY <2>1 DEF RunsScreen, RunsScreenOK
  <2>3. RunsShow(s) = Whole(section)
    BY <2>1, <2>2, RunsWhole DEF RunsShow
  <2> QED BY <2>2, <2>3, RunsSection DEF s
<1>5. CASE section = "data"
  <2>1. s = DataScreen /\ Whole(section) = Pairs("workflow", {n.wf : n \in Nodes})
    BY <1>5, Opened
  <2> HIDE DEF s
  <2>2. s.section = "data" /\ DataScreenOK(s, kept) /\ s.workflow = None
    BY <2>1 DEF DataScreen, DataScreenOK
  <2>3. DataShows(s) = Whole(section)
    BY <2>1, <2>2 DEF DataShows
  <2> QED BY <2>2, <2>3, DataSection DEF s
<1>6. CASE section = "logs"
  <2>1. s = LogsScreen(NoIntent) /\ Whole(section) = Rows({e \in data.events : ~e.diagnostic})
    BY <1>6, Opened
  <2>2. NoIntent.level = All /\ NoIntent.q = <<>>
    BY DEF NoIntent
  <2> HIDE DEF s
  <2>3. /\ LogsOK(s) /\ s.section = "logs" /\ s.view = "stream"
        /\ rows(s) = {e \in data.events :
              /\ e.diagnostic => \E f \in data.events : f.id = linked /\ f.diagnostic
              /\ Includes(searchIndex(e), NoIntent.q) /\ NoIntent.level \in {All, e.level}}
    BY <2>1, <2>2, LogsMounts
  <2>4. \A e \in data.events : Includes(searchIndex(e), <<>>)
    BY EventFound DEF DataOK
  <2>5. {e \in data.events : ~e.diagnostic} \subseteq rows(s)
    BY <2>2, <2>3, <2>4
  <2>6. Whole(section) \subseteq LogsShows(s)
    BY <2>1, <2>3, <2>5 DEF LogsShows, Rows
  <2> QED BY <2>3, <2>6, LogsSection DEF s
<1>7. CASE section \in Kinds
  <2>1. /\ s = CatalogScreen(section)
        /\ Whole(section) = Pairs("item", {x.id : x \in At(section, listedItems(section))})
    BY <1>7, Opened
  <2> HIDE DEF s
  <2>2. s.section = section /\ ItemsOK(s) /\ s.search = <<>>
    BY <2>1 DEF CatalogScreen, ItemsOK
  <2>3. filteredItems(s) = listedItems(section)
    BY <1>7, <2>2, ItemsWhole
  <2>4. Whole(section) \subseteq CatalogShows(s)
    BY <2>1, <2>2, <2>3 DEF CatalogShows
  <2> QED BY <1>7, <2>2, <2>4, ItemsSection DEF s
<1> QED BY <1>1, <1>2, <1>3, <1>4, <1>5, <1>6, <1>7 DEF Sections

\* So going to a section keeps the page in order, whatever of it is promised.
LEMMA MountGoes ==
    ASSUME OnPage, NEW section \in Sections, NEW STATE what, what \subseteq Whole(section),
           Shows(Mount(section), what)
    PROVE  Goes
<1> DEFINE s == Mount(section)
<1>1. ScreenOK(s, kept) /\ Whole(section) \subseteq OnScreen(s)
  BY MountsWhole DEF OnPage
<1> HIDE DEF s
<1>2. Shows(s, what)
  BY DEF s
<1> QED BY <1>1, <1>2, GoesThere

LEMMA NavigateGoes ==
    ASSUME OnPage, NEW section \in Sections, handleNavigate(section)
    PROVE  Goes
BY MountGoes DEF handleNavigate

\* An entry of the palette is of a section that shows it.
LEMMA CommandSearchGoes == OnPage /\ CommandSearch => Goes
<1> SUFFICES ASSUME OnPage, CommandSearch PROVE Goes
  OBVIOUS
<1>1. PICK entry \in Entries : Shows(Mount(entry.section), entry.shows)
  BY DEF CommandSearch
<1>2. entry.section \in Sections /\ entry.shows \subseteq Whole(entry.section)
  <2>1. CASE entry \in {[section |-> section, shows |-> {}] : section \in Sections}
    BY <2>1
  <2>2. CASE entry \in {[section |-> "workflows", shows |-> {<<"workflow", w.id>>}] :
                           w \in Workflows}
    <3>1. PICK w \in Workflows :
             entry.section = "workflows" /\ entry.shows = {<<"workflow", w.id>>}
      BY <2>2
    <3> QED BY <3>1, Opened DEF Pairs, Sections
  <2>3. CASE entry \in {[section |-> "actions", shows |-> {<<"action", baseName(p.name)>>}] :
                           p \in Range(Placements)}
    <3>1. PICK p \in Range(Placements) :
             entry.section = "actions" /\ entry.shows = {<<"action", baseName(p.name)>>}
      BY <2>3
    <3>2. ActionEntry(baseName(p.name)) \in buildCatalog
      BY DEF buildCatalog
    <3>3. ActionEntry(baseName(p.name)).name = baseName(p.name)
      BY DEF ActionEntry
    <3>4. Whole("actions") = Pairs("action", {c.name : c \in buildCatalog})
      BY Opened
    <3> QED BY <3>1, <3>2, <3>3, <3>4 DEF Pairs, Sections
  <2>4. CASE \E kind \in Kinds :
                entry \in {[section |-> kind, shows |-> {<<"item", x.id>>} \cap Whole(kind)] :
                              x \in Range(Items[kind])}
    <3>1. PICK kind \in Kinds : entry.section = kind /\ entry.shows \subseteq Whole(kind)
      BY <2>4
    <3> QED BY <3>1 DEF Sections
  <2> QED BY <2>1, <2>2, <2>3, <2>4 DEF Entries
<1> DEFINE section == entry.section  what == entry.shows
<1>3. section \in Sections /\ what \subseteq Whole(section) /\ Shows(Mount(section), what)
  BY <1>1, <1>2
<1> HIDE DEF section, what
<1> QED BY <1>3, MountGoes

LEMMA PasteLinkGoes == OnPage /\ PasteLink => Goes
<1> SUFFICES ASSUME OnPage, PasteLink PROVE Goes
  OBVIOUS
<1>1. screen' = screen /\ data' = data /\ kept' = kept /\ promised' = {}
  BY DEF PasteLink
<1> QED BY <1>1 DEF Goes, OnPage, KeptOK

LEMMA ShowErrorsGoes == OnPage /\ ShowErrors => Goes
<1> SUFFICES ASSUME OnPage, ShowErrors PROVE Goes
  OBVIOUS
<1>1. CASE errorsOf(data.health) > 0
  <2> DEFINE intent == [NoIntent EXCEPT !.level = "error"]
             S      == {e \in data.events : e.level = "error" /\ ~e.diagnostic}
  <2>1. openLogs(intent, Rows(S))
    BY <1>1 DEF ShowErrors
  <2>2. intent.level = "error" /\ intent.q = <<>>
    BY DEF NoIntent
  <2>3. intent.level \in Range(LEVELS) \cup {All}
    <3>1. "error" \in Range(LEVELS)
      BY DEF LEVELS, Range
    <3> QED BY <2>2, <3>1
  <2> HIDE DEF intent
  <2>4. \A e \in S : /\ e \in data.events /\ ~e.diagnostic
                     /\ Includes(searchIndex(e), intent.q) /\ intent.level \in {All, e.level}
    BY <2>2, EventFound DEF OnPage, DataOK
  <2> HIDE DEF S
  <2> QED BY <2>1, <2>3, <2>4, OpensLogs
<1>2. CASE ~(errorsOf(data.health) > 0)
  <2>1. handleNavigate("logs")
    BY <1>2 DEF ShowErrors
  <2> QED BY <2>1, NavigateGoes DEF Sections
<1> QED BY <1>1, <1>2

LEMMA HomeLinkGoes == OnPage /\ HomeLink => Goes
<1> SUFFICES ASSUME OnPage, HomeLink PROVE Goes
  OBVIOUS
<1>1. ASSUME NEW section \in {"workflows", "actions", "runs", "logs"}, handleNavigate(section)
      PROVE  Goes
  BY <1>1, NavigateGoes DEF Sections
<1>2. ASSUME NEW r \in data.runs, Shows(RunsScreen, {<<"run", r.id>>}) PROVE Goes
  <2> DEFINE what == {<<"run", r.id>>}
  <2>1. Shows(Mount("runs"), what) /\ what \subseteq Whole("runs")
    BY <1>2, Opened DEF Pairs
  <2> HIDE DEF what
  <2>2. "runs" \in Sections
    BY DEF Sections
  <2> QED BY <2>1, <2>2, MountGoes
<1> QED BY <1>1, <1>2 DEF HomeLink

LEMMA HealthItemGoes == OnPage /\ HealthItem => Goes
<1> SUFFICES ASSUME OnPage, HealthItem PROVE Goes
  OBVIOUS
<1>1. PICK g \in data.health.errorGroups \cup data.health.warningGroups :
          openLogs(LookFor(g.target),
                   Rows({e \in data.events : /\ ~e.diagnostic
                                             /\ g.target \in {e.named, e.code, e.workflow}}))
  BY DEF HealthItem
<1> DEFINE q == g.target
           S == {e \in data.events : ~e.diagnostic /\ q \in {e.named, e.code, e.workflow}}
<1>2. Text(q)
  BY DEF OnPage, DataOK
<1>3. ASSUME NEW e \in S PROVE Includes(searchIndex(e), q)
  <2>1. Event(e) /\ q # None
    BY <1>2 DEF OnPage, DataOK, Text
  <2> QED BY <1>3, <2>1, EventFound
<1>4. openLogs(LookFor(q), Rows(S))
  BY <1>1
<1>5. \A e \in S : e \in data.events /\ ~e.diagnostic /\ Includes(searchIndex(e), q)
  BY <1>3
<1> HIDE DEF S, q
<1> QED BY <1>4, <1>5, LooksFor

\* The page opens in order on whatever its address names.
LEMMA DashboardGoes == OnPage /\ Dashboard => Goes
<1> SUFFICES ASSUME OnPage, Dashboard PROVE Goes
  OBVIOUS
<1>1. CASE linked = None
  <2>1. Shows(Mount("home"), {})
    BY <1>1 DEF Dashboard, Mount
  <2> QED BY <2>1, MountGoes DEF Sections
<1>2. CASE linked # None
  <2> DEFINE S == {e \in data.events : e.id = linked}
             s == LogsScreen(NoIntent)
  <2>1. Shows(s, Rows(S))
    BY <1>2 DEF Dashboard
  <2>2. NoIntent.level = All /\ NoIntent.q = <<>>
    BY DEF NoIntent
  <2>3. /\ LogsOK(s) /\ s.section = "logs" /\ s.view = "stream"
        /\ rows(s) = {e \in data.events :
              /\ e.diagnostic => \E f \in data.events : f.id = linked /\ f.diagnostic
              /\ Includes(searchIndex(e), NoIntent.q) /\ NoIntent.level \in {All, e.level}}
    BY <2>2, LogsMounts
  <2>4. \A e \in data.events : Includes(searchIndex(e), <<>>)
    BY EventFound DEF OnPage, DataOK
  <2> HIDE DEF s
  <2>5. S \subseteq rows(s)
    BY <2>2, <2>3, <2>4
  <2> HIDE DEF S
  <2> QED BY <2>1, <2>3, <2>5, LogsRows
<1> QED BY <1>1, <1>2

-----------------------------------------------------------------------------
(* Data *)

\* The last page ends with the last record, and every page has one.
LEMMA Pages ==
    ASSUME NEW L \in Nat, NEW P \in Nat \ {0}, NEW p \in 0..(L + P - 1) \div P - 1
    PROVE  /\ p \in Nat /\ p * P \in Nat /\ (p + 1) * P \in Nat /\ (p + 1) * P = p * P + P
           /\ p * P + 1 <= L
<1> DEFINE k == L + P - 1  q == k \div P
<1>1. k \in Nat
  OBVIOUS
<1>2. q \in Nat /\ q * P <= k
  <2> HIDE DEF k
  <2> QED BY <1>1, Divided
<1>3. p \in 0..q - 1
  OBVIOUS
<1> HIDE DEF q
<1>4. p \in Nat /\ p + 1 <= q /\ p + 1 \in Int
  BY <1>2, <1>3
<1>5. (p + 1) * P <= q * P
  BY <1>2, <1>4, Product
<1> DEFINE low == p * P  next == (p + 1) * P  all == q * P
<1>6. low \in Nat /\ next \in Nat /\ next = low + P /\ all \in Nat
  BY <1>2, <1>4
<1>7. next <= all /\ all <= L + P - 1
  BY <1>2, <1>5
<1> HIDE DEF low, next, all, k
<1>8. low + 1 <= L
  BY <1>6, <1>7
<1> QED BY <1>4, <1>6, <1>8 DEF low, next

\* The records of a page are the stored ones from its first place on.
LEMMA PageOf ==
    ASSUME NEW STATE s, preview(s) \in Seq(Range(preview(s))),
           s.page \in {0} \cup 0..totalPages(s) - 1
    PROVE  /\ pageRecords(s) \in Seq(Range(preview(s)))
           /\ preview(s) = <<>> => pageRecords(s) = <<>>
           /\ preview(s) # <<>> => s.page \in 0..totalPages(s) - 1 /\ pageRecords(s) # <<>>
<1> DEFINE r == preview(s)  L == Len(r)
<1>1. L \in Nat /\ r \in Seq(Range(r)) /\ (r = <<>> <=> L = 0) /\ \A i \in 1..L : r[i] \in Range(r)
  BY EmptySeq, ElementOfSeq
<1>2. totalPages(s) = (L + PageSize - 1) \div PageSize
  BY DEF totalPages
<1>3. pageRecords(s) = SubSeq(r, s.page * PageSize + 1, Min({(s.page + 1) * PageSize, L}))
  BY DEF pageRecords
<1> HIDE DEF r, L
<1>4. PageSize \in Nat \ {0}
  BY NamesAssumption
<1>5. CASE L = 0
  <2>1. L + PageSize - 1 \in Nat /\ L + PageSize - 1 < PageSize
    BY <1>4, <1>5
  <2>2. totalPages(s) = 0
    BY <1>2, <1>4, <2>1
  <2>3. s.page = 0
    BY <2>2
  <2>4. Min({PageSize, 0}) = 0
    BY <1>4, MinTwo
  <2>5. s.page * PageSize + 1 = 1 /\ (s.page + 1) * PageSize = PageSize
    BY <1>4, <2>3
  <2>6. pageRecords(s) = SubSeq(r, 1, 0)
    BY <1>3, <1>5, <2>4, <2>5
  <2>7. SubSeq(r, 1, 0) = <<>>
    BY SubSeqEmpty
  <2> QED BY <1>1, <1>5, <2>6, <2>7 DEF r
<1>6. CASE L # 0
  <2> DEFINE p == s.page  first == p * PageSize  next == (p + 1) * PageSize
  <2>1. p \in 0..(L + PageSize - 1) \div PageSize - 1
    <3>1. CASE p = 0
      <4>1. L + PageSize - 1 \in Nat /\ L + PageSize - 1 >= PageSize
        BY <1>1, <1>4, <1>6
      <4>2. (L + PageSize - 1) \div PageSize >= 1 /\ (L + PageSize - 1) \div PageSize \in Int
        BY <1>4, <4>1
      <4> QED BY <3>1, <4>2
    <3>2. CASE p # 0
      BY <1>2, <3>2
    <3> QED BY <3>1, <3>2
  <2>2. /\ p \in Nat /\ first \in Nat /\ next \in Nat /\ next = first + PageSize
        /\ first + 1 <= L
    BY <1>1, <1>4, <2>1, Pages
  <2>3. s.page \in 0..totalPages(s) - 1
    BY <1>2, <2>1
  <2> DEFINE last == Min({next, L})
  <2>4. pageRecords(s) = SubSeq(r, first + 1, last)
    BY <1>3
  <2> HIDE DEF first, next, p
  <2>5. last = IF next <= L THEN next ELSE L
    BY <1>1, <2>2, MinTwo
  <2>6. last \in Nat /\ last <= L /\ first + 1 <= last
    BY <1>1, <1>4, <2>2, <2>5
  <2> HIDE DEF last
  <2> DEFINE m == first + 1
  <2>7. m \in Int /\ last \in Int /\ \A i \in m..last : r[i] \in Range(r)
    <3>1. m..last \subseteq 1..L
      BY <1>1, <2>2, <2>6
    <3> QED BY <1>1, <2>2, <2>6, <3>1
  <2>8. m <= last /\ m \in Nat
    BY <2>2, <2>6
  <2> HIDE DEF m
  <2>9. /\ SubSeq(r, m, last) \in Seq(Range(r))
        /\ Len(SubSeq(r, m, last)) = IF m <= last THEN last - m + 1 ELSE 0
    BY <2>7, SubSeqProperties
  <2> DEFINE page == SubSeq(r, m, last)
  <2>10. Len(page) >= 1 /\ page \in Seq(Range(r))
    BY <2>6, <2>8, <2>9
  <2>11. page # <<>>
    <3> HIDE DEF page
    <3> QED BY <2>10, EmptySeq
  <2>12. pageRecords(s) = SubSeq(r, m, last)
    BY <2>4 DEF m
  <2> QED BY <1>1, <1>6, <2>3, <2>9, <2>11, <2>12 DEF r
<1> QED BY <1>5, <1>6

\* The cards of a page, and what is kept once they are there.
LEMMA CardsMounted ==
    ASSUME NEW STATE memory, DOMAIN memory = {"key", "open"}, memory.open \subseteq AllSections,
           NEW STATE R, NEW STATE records, records \in Seq(R),
           NEW STATE m, m = Mounted(memory, records)
    PROVE  /\ m.cards \in Seq(SUBSET AllSections) /\ DOMAIN m.cards = DOMAIN records
           /\ DOMAIN m.memory = {"key", "open"} /\ m.memory.open \subseteq AllSections
<1> DEFINE KeyBefore(i) == IF i = 1 THEN memory.key ELSE records[i - 1].file
           Finds(i)     == KeyBefore(i) = records[i].file
           fresh == [key |-> Last(records).file, open |-> DEFAULT_SECTION_STATE]
           all   == records = <<>> \/ \A i \in DOMAIN records : Finds(i)
           cards == [i \in DOMAIN records |-> IF Finds(i) THEN Rendered(memory, records[i])
                                              ELSE DEFAULT_SECTION_STATE]
<1>1. m.memory = (IF all THEN memory ELSE fresh) /\ m.cards = cards
  BY DEF Mounted
<1>2. DEFAULT_SECTION_STATE \subseteq AllSections
  BY DEF DEFAULT_SECTION_STATE, AllSections
<1>3. DOMAIN records = 1..Len(records) /\ Len(records) \in Nat
  OBVIOUS
<1>4. \A i \in DOMAIN records : cards[i] \in SUBSET AllSections
  BY <1>2 DEF Rendered
<1>5. cards \in Seq(SUBSET AllSections) /\ DOMAIN cards = DOMAIN records
  <2>1. cards \in [1..Len(records) -> SUBSET AllSections]
    BY <1>3, <1>4
  <2> HIDE DEF cards
  <2> QED BY <1>3, <2>1
<1>6. /\ DOMAIN fresh = {"key", "open"} /\ fresh.open = DEFAULT_SECTION_STATE
      /\ fresh.key = Last(records).file
  OBVIOUS
<1> HIDE DEF fresh
<1>7. DOMAIN m.memory = {"key", "open"} /\ m.memory.open \subseteq AllSections
  <2> HIDE DEF all
  <2> QED BY <1>1, <1>2, <1>6
<1> QED BY <1>1, <1>5, <1>7

\* Beside records of one file the first card has what is then kept for that file.
LEMMA FileMounted ==
    ASSUME NEW STATE memory, NEW STATE R, NEW STATE records, records \in Seq(R),
           NEW STATE m, m = Mounted(memory, records), NEW STATE f, records # <<>>,
           \A i \in DOMAIN records : records[i].file = f
    PROVE  /\ m.memory.key = f /\ m.memory.open = Rendered(memory, records[1])
           /\ 1 \in DOMAIN records /\ m.cards[1] = m.memory.open
<1> DEFINE KeyBefore(i) == IF i = 1 THEN memory.key ELSE records[i - 1].file
           Finds(i)     == KeyBefore(i) = records[i].file
           fresh == [key |-> Last(records).file, open |-> DEFAULT_SECTION_STATE]
           all   == records = <<>> \/ \A i \in DOMAIN records : Finds(i)
           cards == [i \in DOMAIN records |-> IF Finds(i) THEN Rendered(memory, records[i])
                                              ELSE DEFAULT_SECTION_STATE]
<1>1. m.memory = (IF all THEN memory ELSE fresh) /\ m.cards = cards
  BY DEF Mounted
<1>2. DOMAIN records = 1..Len(records) /\ Len(records) \in Nat
  OBVIOUS
<1>3. fresh.open = DEFAULT_SECTION_STATE /\ fresh.key = Last(records).file
  OBVIOUS
<1> HIDE DEF fresh
<1>4. Len(records) >= 1 /\ 1 \in DOMAIN records
  BY <1>2, EmptySeq
<1>5. Last(records).file = f
  BY <1>2, <1>4 DEF Last
<1>6. CASE memory.key = f
  <2>1. \A i \in DOMAIN records : Finds(i)
    <3> TAKE i \in DOMAIN records
    <3>1. CASE i = 1
      BY <1>6, <3>1
    <3>2. CASE i # 1
      <4>1. i - 1 \in DOMAIN records
        BY <1>2, <3>2
      <4> QED BY <3>2, <4>1
    <3> QED BY <3>1, <3>2
  <2>2. m.memory = memory
    BY <1>1, <2>1
  <2>3. cards[1] = Rendered(memory, records[1])
    BY <1>4, <2>1
  <2>4. Rendered(memory, records[1]) = memory.open
    BY <1>4, <1>6 DEF Rendered
  <2> QED BY <1>1, <1>4, <1>6, <2>2, <2>3, <2>4
<1>7. CASE memory.key # f
  <2>1. ~Finds(1)
    BY <1>4, <1>7
  <2>2. m.memory = fresh
    BY <1>1, <1>4, <2>1
  <2>3. cards[1] = DEFAULT_SECTION_STATE
    BY <1>4, <2>1
  <2>4. Rendered(memory, records[1]) = DEFAULT_SECTION_STATE
    BY <1>4, <1>7 DEF Rendered
  <2> QED BY <1>1, <1>3, <1>4, <1>5, <2>2, <2>3, <2>4
<1> QED BY <1>6, <1>7

\* The node that is open, and what it stores.
Opens(s) ==
    /\ DOMAIN s = {"section", "workflow", "node", "search", "page", "view", "cards", "opened",
                   "chosen"}
    /\ s.section = "data" /\ s.workflow # None /\ s.node # None
    /\ \E n \in NodesOf(s.workflow) : n.node = s.node
    /\ s.page \in {0} \cup 0..totalPages(s) - 1

LEMMA PreviewOf ==
    ASSUME NEW STATE s, Opens(s)
    PROVE  /\ preview(s) \in Seq(Range(preview(s)))
           /\ pageRecords(s) \in Seq(Range(preview(s)))
           /\ preview(s) = <<>> => pageRecords(s) = <<>>
           /\ preview(s) # <<>> => s.page \in 0..totalPages(s) - 1 /\ pageRecords(s) # <<>>
<1>1. \E n \in NodesOf(s.workflow) : n.node = s.node
  BY DEF Opens
<1>2. Stored(s) \in Nodes
  BY <1>1 DEF Stored, NodesOf
<1>3. preview(s) \in Seq(Range(preview(s)))
  BY <1>2, ConfigAssumption DEF preview
<1> QED BY <1>3, PageOf DEF Opens

LEMMA OneFileMeans ==
    ASSUME NEW STATE s, preview(s) \in Seq(Range(preview(s))), OneFile(s)
    PROVE  /\ preview(s) # <<>>
           /\ \E f : \A r \in Range(preview(s)) : r.file = f
<1> DEFINE P     == preview(s)
           D     == DOMAIN P
           g     == [i \in D |-> P[i].file]
           paths == {r.file : r \in Range(P)}
<1>1. IsFiniteSet(paths)
  <2>1. DOMAIN g = D /\ paths = {g[i] : i \in D}
    BY DEF Range
  <2>2. IsFiniteSet(D)
    <3>1. D = 1..Len(P) /\ Len(P) \in Nat
      OBVIOUS
    <3> HIDE DEF D, P
    <3>2. IsFiniteSet(1..Len(P))
      BY <3>1, FS_Interval
    <3> QED BY <3>1, <3>2
  <2> HIDE DEF g, paths, D
  <2> QED BY <2>1, <2>2, FiniteImage
<1>2. Cardinality(paths) = 1
  BY DEF OneFile
<1> HIDE DEF paths
<1>3. PICK f : paths = {f}
  BY <1>1, <1>2, FS_Singleton
<1>4. \A r \in Range(P) : r.file = f
  BY <1>3 DEF paths
<1>5. P # <<>>
  BY <1>3 DEF paths, Range
<1> QED BY <1>4, <1>5

\* What a page promises: the record it begins with, and beside records of one file the
\* sections of the card that opens.
Promises(s) ==
    (IF preview(s) = <<>> THEN {} ELSE {<<"record", s.page * PageSize + 1>>})
    \cup (IF s.view = "card" /\ OneFile(s)
          THEN {<<"card", i, s.chosen>> : i \in {1} \cap DOMAIN pageRecords(s)} ELSE {})

\* The record a page begins with is on it.
LEMMA FirstRecord ==
    ASSUME NEW STATE s, Opens(s), preview(s) # <<>>
    PROVE  1 \in DOMAIN pageRecords(s) /\ <<"record", s.page * PageSize + 1>> \in DataShows(s)
<1>1. pageRecords(s) \in Seq(Range(preview(s))) /\ pageRecords(s) # <<>>
  BY PreviewOf
<1> DEFINE r == pageRecords(s)
<1>2. 1 \in DOMAIN r
  <2>1. DOMAIN r = 1..Len(r) /\ Len(r) \in Nat /\ Len(r) # 0
    BY <1>1, EmptySeq
  <2> QED BY <2>1
<1> HIDE DEF r
<1>3. <<"record", s.page * PageSize + 1>> \in
         {<<"record", s.page * PageSize + i>> : i \in DOMAIN r}
  BY <1>2
<1>4. s.workflow # None /\ s.node # None
  BY DEF Opens
<1> QED BY <1>2, <1>3, <1>4 DEF DataShows, r

LEMMA DataGo ==
    ASSUME OnPage, NEW STATE s, s.section = "data", DataScreenOK(s, kept), NEW STATE what,
           what \subseteq DataShows(s), Shows(s, what)
    PROVE  Goes
BY DataSection, GoesThere

\* Cards that mount show what was chosen.
LEMMA CardsGo ==
    ASSUME OnPage, NEW STATE s, Opens(s), s.view = "card",
           OneFile(s) => s.chosen = Rendered(kept, Head(preview(s))),
           NEW STATE what, what \subseteq Promises(s), MountsCards(s, what)
    PROVE  Goes
<1> DEFINE records == pageRecords(s)
           m == Mounted(kept, records)
           t == [s EXCEPT !.cards = m.cards, !.opened = {1} \cap DOMAIN m.cards]
<1>1. screen' = t /\ kept' = m.memory /\ promised' = what /\ data' = data
  BY DEF MountsCards
<1>2. /\ preview(s) \in Seq(Range(preview(s))) /\ records \in Seq(Range(preview(s)))
      /\ preview(s) # <<>> => records # <<>>
  BY PreviewOf
<1>3. DOMAIN kept = {"key", "open"} /\ kept.open \subseteq AllSections
  BY DEF OnPage, KeptOK
<1> HIDE DEF records
<1>13. m = Mounted(kept, records)
  OBVIOUS
<1> DEFINE memory == m.memory  cards == m.cards
<1>4. /\ cards \in Seq(SUBSET AllSections) /\ DOMAIN cards = DOMAIN records
      /\ DOMAIN memory = {"key", "open"} /\ memory.open \subseteq AllSections
  <2> DEFINE R == Range(preview(s))
  <2>1. records \in Seq(R)
    BY <1>2
  <2> HIDE DEF m, R
  <2> QED BY <1>3, <1>13, <2>1, CardsMounted
<1> DEFINE opened == {1} \cap DOMAIN cards
<1>5. t = [s EXCEPT !.cards = cards, !.opened = opened]
  OBVIOUS
<1> HIDE DEF m, memory, cards, opened, t
<1>6. /\ DOMAIN t = DOMAIN s /\ t.cards = cards /\ t.opened = opened /\ t.section = "data"
      /\ t.workflow = s.workflow /\ t.node = s.node /\ t.page = s.page /\ t.view = s.view
      /\ t.chosen = s.chosen
  BY <1>5 DEF Opens
<1>7. preview(t) = preview(s) /\ totalPages(t) = totalPages(s) /\ pageRecords(t) = records
      /\ (OneFile(t) <=> OneFile(s)) /\ NodesOf(t.workflow) = NodesOf(s.workflow)
  BY <1>6 DEF preview, Stored, totalPages, pageRecords, OneFile, records
<1>8. ASSUME OneFile(s)
      PROVE  /\ s.chosen = memory.open /\ \A i \in DOMAIN preview(s) : preview(s)[i].file = memory.key
             /\ 1 \in DOMAIN records /\ cards[1] = memory.open
  <2>1. preview(s) # <<>> /\ \E f : \A r \in Range(preview(s)) : r.file = f
    BY <1>2, <1>8, OneFileMeans
  <2>2. PICK f : \A r \in Range(preview(s)) : r.file = f
    BY <2>1
  <2>3. \A i \in DOMAIN preview(s) : preview(s)[i].file = f
    BY <2>2 DEF Range
  <2>4. \A i \in DOMAIN records : records[i].file = f
    <3>1. \A i \in DOMAIN records : records[i] \in Range(preview(s))
      BY <1>2
    <3> QED BY <2>2, <3>1
  <2>5. /\ memory.key = f /\ memory.open = Rendered(kept, records[1])
        /\ 1 \in DOMAIN records /\ cards[1] = memory.open
    <3> DEFINE R == Range(preview(s))
    <3>1. records \in Seq(R) /\ records # <<>>
      BY <1>2, <2>1
    <3> HIDE DEF R
    <3>2. /\ m.memory.key = f /\ m.memory.open = Rendered(kept, records[1])
          /\ 1 \in DOMAIN records /\ m.cards[1] = m.memory.open
      BY ONLY <1>13, <2>4, <3>1, FileMounted
    <3> QED BY <3>2 DEF memory, cards
  <2>6. Rendered(kept, Head(preview(s))) = Rendered(kept, records[1])
    <3>1. Head(preview(s)).file = f
      <4>1. 1 \in DOMAIN preview(s) /\ Head(preview(s)) = preview(s)[1]
        <5> DEFINE P == preview(s)
        <5>1. P \in Seq(Range(P)) /\ P # <<>>
          BY <1>2, <2>1
        <5> HIDE DEF P
        <5>2. DOMAIN P = 1..Len(P) /\ Len(P) \in Nat /\ Len(P) # 0
          BY <5>1, EmptySeq
        <5>3. 1 \in DOMAIN P /\ Head(P) = P[1]
          BY <5>1, <5>2
        <5> QED BY <5>3 DEF P
      <4> QED BY <2>3, <4>1
    <3>2. records[1].file = f
      BY <2>4, <2>5
    <3> QED BY <3>1, <3>2 DEF Rendered
  <2> QED BY <1>8, <2>3, <2>5, <2>6
<1>9. DataScreenOK(t, memory)
  BY <1>4, <1>6, <1>7, <1>8 DEF DataScreenOK, Opens, opened
<1>10. what \subseteq DataShows(t)
  <2>1. Opens(t)
    BY <1>6, <1>7 DEF Opens
  <2>2. ASSUME preview(s) # <<>> PROVE <<"record", s.page * PageSize + 1>> \in DataShows(t)
    BY <1>6, <1>7, <2>1, <2>2, FirstRecord
  <2>3. ASSUME OneFile(s) PROVE <<"card", 1, s.chosen>> \in DataShows(t)
    <3>1. 1 \in opened /\ cards[1] = s.chosen
      BY <1>4, <1>8, <2>3 DEF opened
    <3>2. t.workflow # None /\ t.node # None
      BY <2>1 DEF Opens
    <3> QED BY <1>6, <3>1, <3>2 DEF DataShows
  <2> QED BY <2>2, <2>3 DEF Promises
<1>11. ScreenOK(t, memory) /\ OnScreen(t) = DataShows(t)
  BY <1>6, <1>9, DataSection
<1>12. kept' = memory
  BY <1>1 DEF memory
<1> QED BY <1>1, <1>4, <1>10, <1>11, <1>12 DEF Goes

\* A page that is turned, or shown another way.
LEMMA ShowsRecordsGo ==
    ASSUME OnPage, NEW STATE s, Opens(s),
           OneFile(s) => /\ s.chosen = kept.open
                         /\ \A i \in DOMAIN preview(s) : preview(s)[i].file = kept.key,
           NEW STATE what, what \subseteq Promises(s), ShowsRecords(s, what)
    PROVE  Goes
<1>1. CASE s.view = "card"
  <2>1. MountsCards(s, what)
    BY <1>1 DEF ShowsRecords
  <2>2. OneFile(s) => s.chosen = Rendered(kept, Head(preview(s)))
    <3> HAVE OneFile(s)
    <3> DEFINE P == preview(s)
    <3>1. P \in Seq(Range(P)) /\ P # <<>>
      BY PreviewOf, OneFileMeans
    <3>2. \A i \in DOMAIN P : P[i].file = kept.key
      OBVIOUS
    <3> HIDE DEF P
    <3>3. DOMAIN P = 1..Len(P) /\ Len(P) \in Nat /\ Len(P) # 0
      BY <3>1, EmptySeq
    <3>4. 1 \in DOMAIN P /\ Head(P) = P[1]
      BY <3>1, <3>3
    <3>5. Head(P).file = kept.key
      BY <3>2, <3>4
    <3> QED BY <3>5 DEF Rendered, P
  <2> QED BY <1>1, <2>1, <2>2, CardsGo
<1>2. CASE s.view # "card"
  <2> DEFINE t == [s EXCEPT !.cards = <<>>, !.opened = {}]
  <2>1. Shows(t, what)
    BY <1>2 DEF ShowsRecords
  <2>2. /\ DOMAIN t = DOMAIN s /\ t.cards = <<>> /\ t.opened = {} /\ t.section = "data"
        /\ t.workflow = s.workflow /\ t.node = s.node /\ t.page = s.page /\ t.chosen = s.chosen
    BY DEF Opens
  <2> HIDE DEF t
  <2>3. /\ preview(t) = preview(s) /\ totalPages(t) = totalPages(s)
        /\ (OneFile(t) <=> OneFile(s)) /\ NodesOf(t.workflow) = NodesOf(s.workflow)
    BY <2>2 DEF preview, Stored, totalPages, OneFile
  <2>4. DataScreenOK(t, kept)
    <3>1. <<>> \in Seq(SUBSET AllSections)
      OBVIOUS
    <3> QED BY <2>2, <2>3, <3>1 DEF DataScreenOK, Opens
  <2>5. Opens(t)
    BY <2>2, <2>3 DEF Opens
  <2>6. what \subseteq DataShows(t)
    BY <1>2, <2>2, <2>3, <2>5, FirstRecord DEF Promises
  <2> QED BY <2>1, <2>2, <2>4, <2>6, DataGo
<1> QED BY <1>1, <1>2

\* What is known while a node is open.
LEMMA InNodeOK ==
    ASSUME OnPage, InNode
    PROVE  /\ Opens(screen) /\ DataScreenOK(screen, kept)
           /\ OneFile(screen) =>
                 /\ screen.chosen = kept.open
                 /\ \A i \in DOMAIN preview(screen) : preview(screen)[i].file = kept.key
<1>1. screen.section = "data" /\ screen.node # None /\ DataScreenOK(screen, kept)
  BY DEF InNode, OnPage, ScreenOK
<1> QED BY <1>1 DEF DataScreenOK, Opens

LEMMA DataSets ==
    ASSUME OnPage, NEW STATE s, s.section = "data", DataScreenOK(s, kept), Sets(s)
    PROVE  Goes
BY DataGo DEF Sets

LEMMA OpenDataGoes == OnPage /\ OpenData => Goes
<1> SUFFICES ASSUME OnPage, OpenData PROVE Goes
  OBVIOUS
<1>1. screen.section = "data" /\ screen.workflow = None /\ DataScreenOK(screen, kept)
  BY DEF OpenData, OnPage, ScreenOK
<1>2. PICK wf \in {n.wf : n \in Nodes} :
         Shows([screen EXCEPT !.workflow = wf], Pairs("node", {n.node : n \in NodesOf(wf)}))
  BY DEF OpenData
<1> DEFINE s == [screen EXCEPT !.workflow = wf]
<1>3. wf # None
  BY ConfigAssumption
<1>4. /\ s.section = "data" /\ s.workflow = wf /\ s.node = None /\ s.search = <<>>
      /\ DataScreenOK(s, kept)
  BY <1>1, <1>3 DEF DataScreenOK
<1>5. Shows(s, Pairs("node", {n.node : n \in NodesOf(wf)}))
  BY <1>2
<1> HIDE DEF s
<1>6. filteredNodes(s) = NodesOf(wf)
  <2>1. ASSUME NEW n \in NodesOf(wf) PROVE Includes({n.node} \cup n.files, <<>>)
    BY ConfigAssumption, Found DEF NodesOf
  <2> QED BY <1>4, <2>1 DEF filteredNodes
<1>7. Pairs("node", {n.node : n \in NodesOf(wf)}) \subseteq DataShows(s)
  BY <1>3, <1>4, <1>6 DEF DataShows
<1> QED BY <1>4, <1>5, <1>7, DataGo

LEMMA InWorkflowDataGoes == OnPage /\ InWorkflowData => Goes
<1> SUFFICES ASSUME OnPage, InWorkflowData PROVE Goes
  OBVIOUS
<1>1. /\ screen.section = "data" /\ screen.workflow # None /\ screen.node = None
      /\ DataScreenOK(screen, kept)
  BY DEF InWorkflowData, OnPage, ScreenOK
<1>2. ASSUME NEW q, Sets([screen EXCEPT !.search = q]) PROVE Goes
  <2> DEFINE s == [screen EXCEPT !.search = q]
  <2>1. s.section = "data" /\ DataScreenOK(s, kept) /\ Sets(s)
    BY <1>1, <1>2 DEF DataScreenOK
  <2> HIDE DEF s
  <2> QED BY <2>1, DataSets
<1>3. ASSUME Sets(DataScreen) PROVE Goes
  <2> DEFINE s == DataScreen
  <2>1. s.section = "data" /\ DataScreenOK(s, kept) /\ Sets(s)
    BY <1>3 DEF DataScreenOK, DataScreen
  <2> HIDE DEF s
  <2> QED BY <2>1, DataSets
<1> QED BY <1>2, <1>3 DEF InWorkflowData

LEMMA SelectNodeGoes == OnPage /\ SelectNode => Goes
<1> SUFFICES ASSUME OnPage, SelectNode PROVE Goes
  OBVIOUS
<1>1. /\ screen.section = "data" /\ screen.workflow # None /\ DataScreenOK(screen, kept)
  BY DEF SelectNode, OnPage, ScreenOK
<1>2. PICK n \in filteredNodes(screen) :
         LET s == [screen EXCEPT !.node = n.node, !.page = 0, !.view = "card"]
         IN MountsCards([s EXCEPT !.chosen = IF preview(s) = <<>> THEN @
                                             ELSE Rendered(kept, Head(preview(s)))],
                        IF preview(s) = <<>> THEN {} ELSE {<<"record", 1>>})
  BY DEF SelectNode
<1> DEFINE s == [screen EXCEPT !.node = n.node, !.page = 0, !.view = "card"]
           t == [s EXCEPT !.chosen = IF preview(s) = <<>> THEN @
                                     ELSE Rendered(kept, Head(preview(s)))]
           what == IF preview(s) = <<>> THEN {} ELSE {<<"record", 1>>}
<1>3. MountsCards(t, what)
  BY <1>2
<1>4. n \in NodesOf(screen.workflow) /\ n.node # None
  BY ConfigAssumption DEF filteredNodes, NodesOf, Text
<1>5. /\ DOMAIN s = DOMAIN screen /\ s.section = "data" /\ s.workflow = screen.workflow
      /\ s.node = n.node /\ s.page = 0 /\ s.view = "card"
  BY <1>1 DEF DataScreenOK
<1> HIDE DEF s
<1>6. /\ DOMAIN t = DOMAIN s /\ t.section = "data" /\ t.workflow = s.workflow
      /\ t.node = s.node /\ t.page = 0 /\ t.view = "card"
      /\ preview(s) # <<>> => t.chosen = Rendered(kept, Head(preview(s)))
  BY <1>1, <1>5 DEF DataScreenOK
<1> HIDE DEF t
<1>7. preview(t) = preview(s)
  BY <1>6 DEF preview, Stored
<1>8. Opens(t)
  BY <1>1, <1>4, <1>5, <1>6 DEF Opens, DataScreenOK
<1>9. OneFile(t) => t.chosen = Rendered(kept, Head(preview(t)))
  <2> HAVE OneFile(t)
  <2>1. preview(t) # <<>>
    BY <1>8, PreviewOf, OneFileMeans
  <2> QED BY <1>6, <1>7, <2>1
<1>10. what \subseteq Promises(t)
  <2>1. t.page * PageSize + 1 = 1
    BY <1>6, NamesAssumption
  <2> QED BY <1>7, <2>1 DEF Promises
<1> HIDE DEF what
<1> QED BY <1>3, <1>6, <1>8, <1>9, <1>10, CardsGo

LEMMA BackToNodesGoes == OnPage /\ BackToNodes => Goes
<1> SUFFICES ASSUME OnPage, BackToNodes PROVE Goes
  OBVIOUS
<1>1. Opens(screen)
  BY InNodeOK DEF BackToNodes
<1> DEFINE s == [DataScreen EXCEPT !.workflow = screen.workflow]
<1>2. Shows(s, {<<"node", screen.node>>})
  BY DEF BackToNodes
<1>3. /\ s.section = "data" /\ s.workflow = screen.workflow /\ s.node = None /\ s.search = <<>>
      /\ s.workflow # None /\ DataScreenOK(s, kept)
  BY <1>1 DEF DataScreen, DataScreenOK, Opens
<1> HIDE DEF s
<1>4. PICK n \in NodesOf(screen.workflow) : n.node = screen.node
  BY <1>1 DEF Opens
<1>5. Includes({n.node} \cup n.files, <<>>)
  BY ConfigAssumption, Found DEF NodesOf
<1>6. {<<"node", screen.node>>} \subseteq DataShows(s)
  BY <1>3, <1>4, <1>5 DEF DataShows, Pairs, filteredNodes
<1> QED BY <1>2, <1>3, <1>6, DataGo

LEMMA TurnPageGoes == OnPage /\ TurnPage => Goes
<1> SUFFICES ASSUME OnPage, TurnPage PROVE Goes
  OBVIOUS
<1>1. /\ Opens(screen) /\ totalPages(screen) > 1
      /\ OneFile(screen) =>
            /\ screen.chosen = kept.open
            /\ \A i \in DOMAIN preview(screen) : preview(screen)[i].file = kept.key
  BY InNodeOK DEF TurnPage
<1>2. /\ preview(screen) \in Seq(Range(preview(screen)))
      /\ preview(screen) # <<>> => screen.page \in 0..totalPages(screen) - 1
  BY <1>1, PreviewOf
<1>3. preview(screen) # <<>> /\ totalPages(screen) \in Int
  <2> DEFINE L == Len(preview(screen))
  <2>1. L \in Nat /\ (preview(screen) = <<>> => L = 0)
    BY <1>2
  <2>2. totalPages(screen) = (L + PageSize - 1) \div PageSize
    BY DEF totalPages
  <2> HIDE DEF L
  <2>3. L = 0 => totalPages(screen) = 0
    <3> HAVE L = 0
    <3>1. L + PageSize - 1 \in Nat /\ L + PageSize - 1 < PageSize
      BY NamesAssumption
    <3> QED BY <2>2, <3>1, NamesAssumption
  <2>4. totalPages(screen) \in Int
    <3>1. L + PageSize - 1 \in Nat
      BY <2>1, NamesAssumption
    <3> QED BY <2>2, <3>1, NamesAssumption, Divided
  <2> QED BY <1>1, <2>1, <2>3, <2>4
<1>4. PICK p \in {Max({0, screen.page - 1}), Min({totalPages(screen) - 1, screen.page + 1})}
                 \cup 0..totalPages(screen) - 1 :
         LET s == [screen EXCEPT !.page = p]
         IN ShowsRecords(s, {<<"record", p * PageSize + 1>>} \cup Keeps(s))
  BY DEF TurnPage
<1>5. p \in 0..totalPages(screen) - 1
  <2> DEFINE last == totalPages(screen) - 1
  <2>1. screen.page \in 0..last /\ last \in Int
    BY <1>2, <1>3
  <2>2. Max({0, screen.page - 1}) = IF 0 >= screen.page - 1 THEN 0 ELSE screen.page - 1
    BY <2>1, MaxTwo
  <2>3. Min({last, screen.page + 1}) = IF last <= screen.page + 1 THEN last ELSE screen.page + 1
    <3> HIDE DEF last
    <3> QED BY <2>1, MinTwo
  <2>4. p \in {Max({0, screen.page - 1}), Min({last, screen.page + 1})} \cup 0..last
    BY <1>4
  <2> HIDE DEF last
  <2>5. p \in 0..last
    BY <2>1, <2>2, <2>3, <2>4
  <2> QED BY <2>5 DEF last
<1> DEFINE s    == [screen EXCEPT !.page = p]
           what == {<<"record", p * PageSize + 1>>} \cup Keeps(s)
<1>6. ShowsRecords(s, what)
  BY <1>4
<1>7. /\ DOMAIN s = DOMAIN screen /\ s.section = "data" /\ s.workflow = screen.workflow
      /\ s.node = screen.node /\ s.page = p /\ s.chosen = screen.chosen
  BY <1>1 DEF Opens
<1> HIDE DEF s
<1>8. /\ preview(s) = preview(screen) /\ totalPages(s) = totalPages(screen)
      /\ (OneFile(s) <=> OneFile(screen)) /\ NodesOf(s.workflow) = NodesOf(screen.workflow)
  BY <1>7 DEF preview, Stored, totalPages, OneFile
<1>9. Opens(s)
  BY <1>1, <1>5, <1>7, <1>8 DEF Opens
<1>10. what \subseteq Promises(s)
  BY <1>3, <1>7, <1>8 DEF Promises, Keeps
<1> HIDE DEF what
<1> QED BY <1>1, <1>6, <1>7, <1>8, <1>9, <1>10, ShowsRecordsGo

LEMMA ViewModeGoes == OnPage /\ ViewMode => Goes
<1> SUFFICES ASSUME OnPage, ViewMode PROVE Goes
  OBVIOUS
<1>1. /\ Opens(screen)
      /\ OneFile(screen) =>
            /\ screen.chosen = kept.open
            /\ \A i \in DOMAIN preview(screen) : preview(screen)[i].file = kept.key
  BY InNodeOK DEF ViewMode
<1>2. PICK v : LET s == [screen EXCEPT !.view = v] IN ShowsRecords(s, Keeps(s))
  BY DEF ViewMode
<1> DEFINE s == [screen EXCEPT !.view = v]  what == Keeps(s)
<1>3. ShowsRecords(s, what)
  BY <1>2
<1>4. /\ DOMAIN s = DOMAIN screen /\ s.section = "data" /\ s.workflow = screen.workflow
      /\ s.node = screen.node /\ s.page = screen.page /\ s.chosen = screen.chosen
  BY <1>1 DEF Opens
<1> HIDE DEF s
<1>5. /\ preview(s) = preview(screen) /\ totalPages(s) = totalPages(screen)
      /\ (OneFile(s) <=> OneFile(screen)) /\ NodesOf(s.workflow) = NodesOf(screen.workflow)
  BY <1>4 DEF preview, Stored, totalPages, OneFile
<1>6. Opens(s)
  BY <1>1, <1>4, <1>5 DEF Opens
<1>7. what \subseteq Promises(s)
  BY DEF Promises, Keeps
<1> HIDE DEF what
<1> QED BY <1>1, <1>3, <1>4, <1>5, <1>6, <1>7, ShowsRecordsGo

LEMMA ToggleRecordGoes == OnPage /\ ToggleRecord => Goes
<1> SUFFICES ASSUME OnPage, ToggleRecord PROVE Goes
  OBVIOUS
<1>1. Opens(screen) /\ DataScreenOK(screen, kept)
  BY InNodeOK DEF ToggleRecord
<1>2. PICK i \in DOMAIN screen.cards :
         LET s == [screen EXCEPT !.opened = SymDiff(@, {i})]
         IN Shows(s, IF i \in s.opened THEN {<<"card", i, s.cards[i]>>} ELSE {})
  BY DEF ToggleRecord
<1> DEFINE s    == [screen EXCEPT !.opened = SymDiff(@, {i})]
           what == IF i \in s.opened THEN {<<"card", i, s.cards[i]>>} ELSE {}
<1>3. Shows(s, what)
  BY <1>2
<1>4. /\ DOMAIN s = DOMAIN screen /\ s.section = "data" /\ s.workflow = screen.workflow
      /\ s.node = screen.node /\ s.page = screen.page /\ s.chosen = screen.chosen
      /\ s.cards = screen.cards /\ s.opened \subseteq DOMAIN screen.cards
      /\ s.search = screen.search
  BY <1>1, <1>2 DEF Opens, DataScreenOK, SymDiff
<1> HIDE DEF s
<1>5. /\ preview(s) = preview(screen) /\ totalPages(s) = totalPages(screen)
      /\ (OneFile(s) <=> OneFile(screen)) /\ NodesOf(s.workflow) = NodesOf(screen.workflow)
      /\ pageRecords(s) = pageRecords(screen)
  BY <1>4 DEF preview, Stored, totalPages, OneFile, pageRecords
<1>6. DataScreenOK(s, kept)
  BY <1>1, <1>4, <1>5 DEF DataScreenOK
<1>7. s.workflow # None /\ s.node # None
  BY <1>1, <1>4 DEF Opens
<1>8. what \subseteq DataShows(s)
  BY <1>7 DEF DataShows
<1> HIDE DEF what
<1> QED BY <1>3, <1>4, <1>6, <1>8, DataGo

\* A section that is toggled stays as it was left, beside records of one file for the next.
LEMMA ToggleSectionGoes == OnPage /\ ToggleSection => Goes
<1> SUFFICES ASSUME OnPage, ToggleSection PROVE Goes
  OBVIOUS
<1>1. Opens(screen) /\ DataScreenOK(screen, kept)
  BY InNodeOK DEF ToggleSection
<1>2. DOMAIN kept = {"key", "open"} /\ kept.open \subseteq AllSections
  BY DEF OnPage, KeptOK
<1>3. PICK i \in screen.opened : \E section \in sectionsOf(pageRecords(screen)[i]) :
         LET open == SymDiff(screen.cards[i], {section})
         IN /\ screen' = [screen EXCEPT !.cards[i] = open, !.chosen = open]
            /\ kept' = [kept EXCEPT !.open = open]
            /\ promised' = {<<"card", i, open>>} /\ UNCHANGED <<data, linked>>
  BY DEF ToggleSection
<1>4. PICK section \in sectionsOf(pageRecords(screen)[i]) :
         LET open == SymDiff(screen.cards[i], {section})
         IN /\ screen' = [screen EXCEPT !.cards[i] = open, !.chosen = open]
            /\ kept' = [kept EXCEPT !.open = open]
            /\ promised' = {<<"card", i, open>>} /\ UNCHANGED <<data, linked>>
  BY <1>3
<1> DEFINE open   == SymDiff(screen.cards[i], {section})
           s      == [screen EXCEPT !.cards[i] = open, !.chosen = open]
           memory == [kept EXCEPT !.open = open]
           cards  == [screen.cards EXCEPT ![i] = open]
           what   == {<<"card", i, open>>}
<1>5. screen' = s /\ kept' = memory /\ promised' = what /\ data' = data
  BY <1>4
<1>6. open \subseteq AllSections
  <2>1. section \in AllSections
    BY DEF sectionsOf, AllSections
  <2>2. i \in DOMAIN screen.cards /\ screen.cards \in Seq(SUBSET AllSections)
    BY <1>1, <1>3 DEF DataScreenOK
  <2>3. screen.cards[i] \subseteq AllSections
    BY <2>2
  <2> QED BY <2>1, <2>3 DEF SymDiff
<1> HIDE DEF open
<1>7. cards \in Seq(SUBSET AllSections) /\ DOMAIN cards = DOMAIN screen.cards /\ cards[i] = open
  <2>1. i \in DOMAIN screen.cards /\ screen.cards \in Seq(SUBSET AllSections)
    BY <1>1, <1>3 DEF DataScreenOK
  <2> DEFINE C == screen.cards
  <2>2. DOMAIN C = 1..Len(C) /\ Len(C) \in Nat /\ C \in [1..Len(C) -> SUBSET AllSections]
    BY <2>1
  <2>3. cards \in [1..Len(C) -> SUBSET AllSections]
    BY <1>6, <2>2
  <2> QED BY <2>1, <2>2, <2>3
<1>8. DOMAIN memory = {"key", "open"} /\ memory.open = open /\ memory.key = kept.key
  BY <1>2
<1>9. /\ DOMAIN s = DOMAIN screen /\ s.section = "data" /\ s.workflow = screen.workflow
      /\ s.node = screen.node /\ s.page = screen.page /\ s.chosen = open
      /\ s.cards = cards /\ s.opened = screen.opened /\ s.search = screen.search
  BY <1>1 DEF Opens
<1> HIDE DEF s, memory, cards
<1>10. /\ preview(s) = preview(screen) /\ totalPages(s) = totalPages(screen)
       /\ (OneFile(s) <=> OneFile(screen)) /\ NodesOf(s.workflow) = NodesOf(screen.workflow)
       /\ pageRecords(s) = pageRecords(screen)
  BY <1>9 DEF preview, Stored, totalPages, OneFile, pageRecords
<1>11. DataScreenOK(s, memory)
  <2>1. cards = <<>> => screen.cards = <<>>
    <3> HAVE cards = <<>>
    <3>1. DOMAIN screen.cards = {}
      BY <1>7
    <3> QED BY <1>3, <1>1, <3>1 DEF DataScreenOK
  <2>2. screen.cards # <<>>
    BY <1>1, <1>3 DEF DataScreenOK
  <2> QED BY <1>1, <1>7, <1>8, <1>9, <1>10, <2>2 DEF DataScreenOK
<1>12. what \subseteq DataShows(s)
  <2>1. s.workflow # None /\ s.node # None
    BY <1>1, <1>9 DEF Opens
  <2>2. <<"card", i, open>> \in {<<"card", j, s.cards[j]>> : j \in s.opened}
    BY <1>3, <1>7, <1>9
  <2> QED BY <2>1, <2>2 DEF DataShows
<1>13. ScreenOK(s, memory) /\ OnScreen(s) = DataShows(s)
  BY <1>9, <1>11, DataSection
<1> HIDE DEF what
<1> QED BY <1>5, <1>6, <1>8, <1>12, <1>13 DEF Goes

-----------------------------------------------------------------------------
(* The steps together *)

LEMMA UseGoes == OnPage /\ Use => Goes
<1>1. OnPage /\ (Navigate \/ CommandSearch \/ PasteLink \/ ShowErrors \/ HomeLink \/ HealthItem)
      => Goes
  BY NavigateGoes, CommandSearchGoes, PasteLinkGoes, ShowErrorsGoes, HomeLinkGoes, HealthItemGoes
     DEF Navigate
<1>2. OnPage /\ (FilterActions \/ SelectAction \/ SummaryCard \/ ActionInLogs \/ ClearActions)
      => Goes
  BY FilterActionsGoes, SelectActionGoes, SummaryCardGoes, ActionInLogsGoes, ClearActionsGoes
<1>3. OnPage /\ (\/ FilterWorkflows \/ WorkflowCard \/ BackToWorkflows \/ WorkflowTab \/ ClickNode
                 \/ ClickRow \/ ClickDependency \/ WorkflowInLogs) => Goes
  BY FilterWorkflowsGoes, WorkflowCardGoes, BackToWorkflowsGoes, WorkflowTabGoes, ClickNodeGoes,
     ClickDependencyGoes, WorkflowInLogsGoes
<1>4. OnPage /\ (\/ OpenData \/ InWorkflowData \/ SelectNode \/ BackToNodes \/ TurnPage \/ ViewMode
                 \/ ToggleRecord \/ ToggleSection) => Goes
  BY OpenDataGoes, InWorkflowDataGoes, SelectNodeGoes, BackToNodesGoes, TurnPageGoes, ViewModeGoes,
     ToggleRecordGoes, ToggleSectionGoes
<1>5. OnPage /\ (FilterRuns \/ OpenRun \/ SearchItems \/ SelectItem \/ LogsNext) => Goes
  BY FilterRunsGoes, OpenRunGoes, ItemControlsGo, LogsNextGoes
<1> QED BY <1>1, <1>2, <1>3, <1>4, <1>5 DEF Use

LEMMA SiteStarts == Init => SiteInv /\ Reveals
<1> SUFFICES ASSUME Init PROVE SiteInv /\ Reveals
  OBVIOUS
<1>1. FilesOK
  BY DEF Init, FilesOK
<1>2. LoadOK
  BY DEF Init, LoadOK
<1>3. ScreenOK(screen, kept)
  BY DEF Init, ScreenOK, NoScreen, Kinds
<1>4. KeptOK
  BY DEF Init, KeptOK, DEFAULT_SECTION_STATE, AllSections
<1>5. Reveals
  BY DEF Init, Reveals
<1> QED BY <1>1, <1>2, <1>3, <1>4, <1>5 DEF SiteInv

LEMMA SiteSteps == SiteInv /\ Reveals /\ [Next]_vars => SiteInv' /\ Reveals'
<1> SUFFICES ASSUME SiteInv, Reveals, [Next]_vars PROVE SiteInv' /\ Reveals'
  OBVIOUS
<1>1. CASE GenerateDocs
  BY <1>1, GeneratesKeeps
<1>2. CASE RecordRun
  BY <1>2, RecordsRunsKeeps
<1>3. CASE Fetch("catalog") \/ Fetch("runs")
  BY <1>3, FetchKeeps
<1>4. CASE Broken \/ Retry
  BY <1>4, RetriesKeep
<1>5. CASE fetchCatalogData
  BY <1>5, LoadedKeeps
<1>6. CASE status = "ready" /\ Dashboard /\ UNCHANGED <<loading, clicks>>
  <2>1. OnPage
    BY <1>6 DEF SiteInv, LoadOK, OnPage
  <2>2. Goes
    BY <1>6, <2>1, DashboardGoes
  <2> QED BY <1>6, <2>2, GoesKeeps
<1>7. CASE status = "ready" /\ Use /\ UNCHANGED loading
  <2>1. OnPage
    BY <1>7 DEF SiteInv, LoadOK, OnPage
  <2>2. Goes
    BY <1>7, <2>1, UseGoes
  <2> QED BY <1>7, <2>2, GoesKeeps
<1>8. CASE UNCHANGED vars
  <2>1. UNCHANGED view /\ files' = files /\ got' = got /\ status' = status
    BY <1>8 DEF vars, view, loading
  <2>2. FilesOK'
    BY <2>1 DEF SiteInv, FilesOK
  <2>3. LoadOK'
    BY <2>1, ViewStays DEF SiteInv, LoadOK, view
  <2> QED BY <2>1, <2>2, <2>3, ViewStays DEF SiteInv
<1> QED BY <1>1, <1>2, <1>3, <1>4, <1>5, <1>6, <1>7, <1>8 DEF Next

\* The page is in order after any loads and clicks.
THEOREM SiteSound == Spec => [](SiteInv /\ Reveals)
<1>1. Init => SiteInv /\ Reveals
  BY SiteStarts
<1>2. (SiteInv /\ Reveals) /\ [Next]_vars => (SiteInv /\ Reveals)'
  BY SiteSteps
<1> QED BY <1>1, <1>2, PTL DEF Spec

\* What a control says it shows is on the screen it leads to, for any logs, runs, workflows,
\* stored records, pages and buckets, whatever was filtered, selected or linked before.
THEOREM Revealed == Spec => []Reveals
<1>1. SiteInv /\ Reveals => Reveals
  OBVIOUS
<1> QED BY <1>1, SiteSound, PTL

-----------------------------------------------------------------------------
(* Types *)

Bounds   == {MaxClicks[x] : x \in Sections}
ClicksOK == clicks \in 0..Max(Bounds)

\* The bound of every section is at most the greatest of them.
LEMMA ClicksBound ==
    Max(Bounds) \in Nat /\ \A section \in Sections : MaxClicks[section] <= Max(Bounds)
<1>1. IsFiniteSet(Sections)
  <2>1. /\ IsFiniteSet({"home", "workflows", "actions"}) /\ IsFiniteSet({"runs", "data", "logs"})
        /\ IsFiniteSet({"schemas", "prompts", "tools"})
    <3>1. \A x, y, z : IsFiniteSet({x, y, z})
      <4> TAKE x, y, z
      <4>1. IsFiniteSet({x}) /\ IsFiniteSet({y}) /\ IsFiniteSet({z})
        BY FS_Singleton
      <4>2. IsFiniteSet({x} \cup {y})
        BY <4>1, FS_Union
      <4>3. IsFiniteSet(({x} \cup {y}) \cup {z})
        BY <4>1, <4>2, FS_Union
      <4>4. {x, y, z} = ({x} \cup {y}) \cup {z}
        OBVIOUS
      <4> QED BY <4>3, <4>4
    <3> QED BY <3>1
  <2>2. IsFiniteSet({"home", "workflows", "actions"} \cup {"runs", "data", "logs"})
    BY <2>1, FS_Union
  <2>3. IsFiniteSet(({"home", "workflows", "actions"} \cup {"runs", "data", "logs"})
                    \cup {"schemas", "prompts", "tools"})
    BY <2>1, <2>2, FS_Union
  <2>4. Sections = ({"home", "workflows", "actions"} \cup {"runs", "data", "logs"})
                   \cup {"schemas", "prompts", "tools"}
    BY DEF Sections, Kinds
  <2> QED BY <2>3, <2>4
<1>2. IsFiniteSet(Bounds)
  <2>1. DOMAIN MaxClicks = Sections
    BY BoundsAssumption
  <2> QED BY <1>1, <2>1, FiniteImage DEF Bounds
<1>3. Bounds \subseteq Nat /\ Bounds # {} /\ \A section \in Sections : MaxClicks[section] \in Bounds
  BY BoundsAssumption DEF Bounds, Sections
<1>4. Bounds \subseteq Int
  BY <1>3
<1>5. Max(Bounds) \in Bounds /\ \A b \in Bounds : b <= Max(Bounds)
  BY <1>2, <1>3, <1>4, MaxOf
<1> QED BY <1>3, <1>5

LEMMA ClicksSteps == SiteInv /\ ClicksOK /\ [Next]_vars => ClicksOK'
<1> SUFFICES ASSUME SiteInv, ClicksOK, [Next]_vars PROVE ClicksOK'
  OBVIOUS
<1>1. Max(Bounds) \in Nat /\ clicks \in 0..Max(Bounds)
  BY ClicksBound DEF ClicksOK
<1>2. CASE clicks' = clicks
  BY <1>2 DEF ClicksOK, Bounds
<1>3. CASE screen # NoScreen /\ clicks < MaxClicks[screen.section] /\ clicks' = clicks + 1
  <2>1. screen.section \in Sections
    BY <1>3 DEF SiteInv, ScreenOK
  <2>2. MaxClicks[screen.section] <= Max(Bounds) /\ MaxClicks[screen.section] \in Nat
    BY <2>1, ClicksBound, BoundsAssumption
  <2>3. clicks' \in 0..Max(Bounds)
    BY <1>1, <1>3, <2>2
  <2> QED BY <2>3 DEF ClicksOK, Bounds
<1> QED BY <1>2, <1>3 DEF Next, GenerateDocs, RecordRun, Fetch, Broken, fetchCatalogData, Retry, vars

LEMMA TypesFollow == SiteInv /\ ClicksOK => TypeOK
<1> SUFFICES ASSUME SiteInv, ClicksOK PROVE TypeOK
  OBVIOUS
<1>1. status \in {"loading", "error", "ready"}
  BY DEF SiteInv, LoadOK
<1>2. clicks \in 0..Max({MaxClicks[x] : x \in Sections})
  BY DEF ClicksOK, Bounds
<1>3. screen.section \in Sections \cup {"none"}
  BY DEF SiteInv, ScreenOK, NoScreen
<1>4. screen.section = "logs" => LogsType(screen)
  BY DEF SiteInv, ScreenOK, LogsOK
<1>5. ASSUME InNode, preview(screen) # <<>>
      PROVE  /\ screen.page \in 0..totalPages(screen) - 1 /\ pageRecords(screen) # <<>>
             /\ Len(screen.cards) \in {0, Len(pageRecords(screen))}
  <2>1. DataScreenOK(screen, kept)
    BY <1>5 DEF SiteInv, ScreenOK, InNode
  <2>2. Opens(screen)
    BY <1>5, <2>1 DEF DataScreenOK, Opens, InNode
  <2>3. /\ pageRecords(screen) \in Seq(Range(preview(screen)))
        /\ screen.page \in 0..totalPages(screen) - 1 /\ pageRecords(screen) # <<>>
    BY <1>5, <2>2, PreviewOf
  <2>4. /\ screen.cards \in Seq(SUBSET AllSections)
        /\ screen.cards = <<>> \/ DOMAIN screen.cards = DOMAIN pageRecords(screen)
    BY <1>5, <2>1 DEF DataScreenOK, InNode
  <2> DEFINE C == screen.cards  R == pageRecords(screen)
  <2>5. /\ DOMAIN C = 1..Len(C) /\ Len(C) \in Nat /\ DOMAIN R = 1..Len(R) /\ Len(R) \in Nat
        /\ (C = <<>> => Len(C) = 0)
    BY <2>3, <2>4
  <2>6. DOMAIN C = DOMAIN R => Len(C) = Len(R)
    <3> DEFINE m == Len(C)  n == Len(R)
    <3>1. m \in Nat /\ n \in Nat /\ DOMAIN C = 1..m /\ DOMAIN R = 1..n
      BY <2>5
    <3> HIDE DEF C, R, m, n
    <3>2. ASSUME 1..m = 1..n PROVE m <= n
      <4>1. CASE m = 0
        BY <3>1, <4>1
      <4>2. CASE m # 0
        <5>1. m \in 1..m
          BY <3>1, <4>2
        <5>2. m \in 1..n
          BY <3>2, <5>1
        <5> QED BY <3>1, <5>2
      <4> QED BY <4>1, <4>2
    <3>3. ASSUME 1..m = 1..n PROVE n <= m
      <4>1. CASE n = 0
        BY <3>1, <4>1
      <4>2. CASE n # 0
        <5>1. n \in 1..n
          BY <3>1, <4>2
        <5>2. n \in 1..m
          BY <3>3, <5>1
        <5> QED BY <3>1, <5>2
      <4> QED BY <4>1, <4>2
    <3>4. DOMAIN C = DOMAIN R => m = n
      BY <3>1, <3>2, <3>3
    <3> QED BY <3>4 DEF m, n
  <2> QED BY <2>3, <2>4, <2>5, <2>6
<1>6. kept.open \subseteq {"promptTrace", "inputData", "rawResponse", "actionOutput", "metadata"}
  BY DEF SiteInv, KeptOK, AllSections
<1> QED BY <1>1, <1>2, <1>3, <1>4, <1>5, <1>6 DEF TypeOK

\* Every screen keeps the form it is drawn from: a range has a beginning before its end, the
\* cursor is on an event, a page has records and as many cards as records, or none.
THEOREM SiteTyped == Spec => []TypeOK
<1>1. Init => ClicksOK
  BY ClicksBound DEF Init, ClicksOK
<1>2. (SiteInv /\ Reveals) /\ ClicksOK /\ [Next]_vars => ClicksOK'
  BY ClicksSteps
<1>3. (SiteInv /\ Reveals) /\ ClicksOK => TypeOK
  BY TypesFollow
<1> QED BY <1>1, <1>2, <1>3, SiteSound, PTL DEF Spec

-----------------------------------------------------------------------------
(* Empty lists *)

\* A list that nothing narrows is whole, so an empty one has a filter on.
LEMMA EmptyFollows == SiteInv => EmptyExplained
<1> SUFFICES ASSUME SiteInv PROVE EmptyExplained
  OBVIOUS
<1>1. screen = NoScreen \/ DataOK
  BY DEF SiteInv, LoadOK
<1>2. ASSUME screen.section = "logs"
      PROVE  Emptied(rows(screen), rows(clearFilters(screen)), data.events, filtersActive(screen))
  <2>1. DataOK /\ LogsOK(screen)
    BY <1>1, <1>2 DEF NoScreen, SiteInv, ScreenOK
  <2>2. ASSUME NEW STATE s, s.level = All, s.search = <<>>, s.workflow = All, s.range = None,
               s.diagnostics
        PROVE  rows(s) = data.events
    <3>1. \A e \in data.events : Includes(searchIndex(e), <<>>)
      BY <2>1, EventFound DEF DataOK
    <3> QED BY <2>2, <3>1 DEF rows, searched, scoped, unranged, Hidden
  <2>3. rows(clearFilters(screen)) = data.events
    <3> DEFINE s == clearFilters(screen)
    <3>1. /\ s.level = All /\ s.search = <<>> /\ s.workflow = All /\ s.range = None
          /\ s.diagnostics
      BY <2>1 DEF LogsOK, clearFilters
    <3> HIDE DEF s
    <3>2. rows(s) = data.events
      BY <2>2, <3>1
    <3> QED BY <3>2 DEF s
  <2>4. ~filtersActive(screen) => rows(screen) = data.events
    BY <2>2 DEF filtersActive
  <2> QED BY <2>3, <2>4 DEF Emptied
<1>3. ASSUME screen.section = "actions"
      PROVE  Emptied(actionRows(screen), actionRows(clearActions(screen)), buildCatalog,
                     actionFilters(screen))
  <2>1. DataOK /\ ActionsOK(screen)
    BY <1>1, <1>3 DEF NoScreen, SiteInv, ScreenOK
  <2>2. actionRows(clearActions(screen)) = buildCatalog
    <3> DEFINE s == clearActions(screen)
    <3>1. s.search = <<>> /\ s.type = All /\ s.workflow = All /\ ~s.issuesOnly
      BY <2>1 DEF ActionsOK, clearActions
    <3> HIDE DEF s
    <3>2. actionRows(s) = buildCatalog
      BY <2>1, <3>1, ActionsWhole
    <3> QED BY <3>2 DEF s
  <2>3. ~actionFilters(screen) => actionRows(screen) = buildCatalog
    BY <2>1, ActionsWhole DEF actionFilters
  <2> QED BY <2>2, <2>3 DEF Emptied
<1>4. ASSUME OnWorkflows
      PROVE  Emptied(filteredWorkflows(screen), filteredWorkflows(clearWorkflows(screen)),
                     transformWorkflows, TRUE)
  <2>1. WorkflowsOK(screen)
    BY <1>4 DEF OnWorkflows, SiteInv, ScreenOK
  <2> DEFINE s == clearWorkflows(screen)
  <2>2. s.search = <<>> /\ s.status = All
    BY <2>1 DEF WorkflowsOK, clearWorkflows
  <2> HIDE DEF s
  <2>3. filteredWorkflows(s) = transformWorkflows
    BY <2>2, WorkflowsWhole
  <2> QED BY <2>3 DEF Emptied, s
<1>5. ASSUME OnRuns
      PROVE  Emptied(filteredRuns(screen), filteredRuns(clearRuns(screen)), data.runs, TRUE)
  <2>1. DataOK /\ RunsScreenOK(screen)
    BY <1>1, <1>5 DEF OnRuns, NoScreen, SiteInv, ScreenOK
  <2> DEFINE s == clearRuns(screen)
  <2>2. s.search = <<>> /\ s.status = All
    BY <2>1 DEF RunsScreenOK, clearRuns
  <2> HIDE DEF s
  <2>3. filteredRuns(s) = data.runs
    BY <2>1, <2>2, RunsWhole
  <2> QED BY <2>3 DEF Emptied, s
<1> QED BY <1>2, <1>3, <1>4, <1>5 DEF EmptyExplained

\* An empty list says that filters emptied it, and clearing them brings everything back: a
\* search for nothing finds whatever is listed, for everything listed has a word.
THEOREM EmptyTells == Spec => []EmptyExplained
<1>1. SiteInv /\ Reveals => EmptyExplained
  BY EmptyFollows
<1> QED BY <1>1, SiteSound, PTL

=============================================================================
