------------------------------- MODULE DocsSite -------------------------------
(***************************************************************************)
(* The documentation site as a whole (app/page.tsx, lib/catalog-*.ts(x),   *)
(* app-sidebar.tsx, command-search.tsx, screens/home-screen.tsx): it loads *)
(* catalog.json and runs.json, each as it is when it is read, and moves    *)
(* between screens.  Every control that says what it shows is held to it.  *)
(***************************************************************************)
EXTENDS DocsRecords

CONSTANTS
    MaxWrites,    \* writes of the two files while they are loaded
    MaxFailures,  \* loads that fail
    MaxClicks,    \* controls used before one of a section, for each section
    Pending

VARIABLES
    files,        \* catalog.json and runs.json, None if there is none
    got,          \* what the two requests of this load returned
    status,       \* of the catalog: loading, error, ready
    writes, failures, clicks

loading == <<files, got, status, writes, failures>>
vars    == <<data, screen, promised, linked, kept, loading, clicks>>
view    == <<data, screen, promised, kept>>

NoScreen == [section |-> "none"]

-----------------------------------------------------------------------------
(* Loading *)

\* Generating the docs reads the runs there are.
GenerateDocs ==
    /\ status # "ready" /\ writes < MaxWrites /\ writes' = writes + 1
    /\ \E h \in Histories :
          files' = [files EXCEPT !.catalog =
              [window |-> h.window, findings |-> h.findings,
               runtime |-> runtimeEntries(h.log, IF files.runs = None THEN {} ELSE files.runs)]]
    /\ UNCHANGED <<view, linked, got, status, failures, clicks>>

\* A run is recorded when it starts, and its record follows it until it ends.
RecordRun ==
    /\ status # "ready" /\ writes < MaxWrites /\ writes' = writes + 1
    /\ \E x \in Executions :
          LET runs == IF files.runs = None THEN {} ELSE files.runs
              same == {y \in runs : y.id = x.id}
          IN /\ \A y \in same : y.status = "RUNNING"
             /\ files' = [files EXCEPT !.runs = (runs \ same) \cup {x}]
    /\ UNCHANGED <<view, linked, got, status, failures, clicks>>

\* The two requests are answered in any order, with what is there then.
Fetch(file) ==
    /\ status = "loading" /\ got[file] = Pending
    /\ got' = [got EXCEPT ![file] = files[file]]
    /\ UNCHANGED <<view, linked, files, status, writes, failures, clicks>>

\* A request that fails, or an answer cut off in the middle of a write.
Broken ==
    /\ status = "loading" /\ failures < MaxFailures /\ failures' = failures + 1
    /\ status' = "error"
    /\ UNCHANGED <<view, linked, files, got, writes, clicks>>

\* There has to be a catalog; there need not be runs.  The bounds are those of one load.
fetchCatalogData ==
    /\ status = "loading" /\ got.catalog # Pending /\ got.runs # Pending
    /\ UNCHANGED <<linked, kept, promised, files, clicks>>
    /\ got' = [catalog |-> Pending, runs |-> Pending]
    /\ IF got.catalog = None
       THEN status' = "error" /\ UNCHANGED <<data, screen, writes, failures>>
       ELSE /\ status' = "ready" /\ writes' = 0 /\ failures' = 0
            /\ data' = transformAll(got.catalog, IF got.runs = None THEN {} ELSE got.runs)
            /\ screen' = NoScreen

Retry ==
    /\ status = "error"
    /\ status' = "loading" /\ got' = [catalog |-> Pending, runs |-> Pending]
    /\ UNCHANGED <<view, linked, files, writes, failures, clicks>>

-----------------------------------------------------------------------------
(* Screens *)

HomeScreen == [section |-> "home"]

Mount(section) ==
    CASE section = "home"      -> HomeScreen
      [] section = "workflows" -> WorkflowsScreen
      [] section = "actions"   -> ActionsScreen
      [] section = "runs"      -> RunsScreen
      [] section = "data"      -> DataScreen
      [] section = "logs"      -> LogsScreen(NoIntent)
      [] OTHER                 -> CatalogScreen(section)

Sections == {"home", "workflows", "actions", "runs", "data", "logs"} \cup Kinds

ASSUME BoundsAssumption == MaxClicks \in [Sections -> Nat]

\* What a section shows that nothing has narrowed.
Whole(section) ==
    CASE section = "workflows" -> Pairs("workflow", {w.id : w \in Workflows})
      [] section = "actions"   -> Pairs("action", {c.name : c \in buildCatalog})
      [] section = "runs"      -> Pairs("run", {r.id : r \in data.runs})
      [] section = "data"      -> Pairs("workflow", {n.wf : n \in Nodes})
      [] section = "logs"      -> Rows({e \in data.events : ~e.diagnostic})
      [] section \in Kinds     -> Pairs("item", {x.id : x \in At(section, listedItems(section))})
      [] OTHER                 -> {}

\* A section opens whole, the one that is open included; an intent for Logs is dropped.
handleNavigate(section) == Shows(Mount(section), Whole(section))

\* The page opens on Home, or on Logs if its address names an event.
Dashboard ==
    /\ screen = NoScreen
    /\ IF linked = None THEN Shows(HomeScreen, {})
       ELSE Shows(LogsScreen(NoIntent), Rows({e \in data.events : e.id = linked}))

Navigate == \E section \in Sections : handleNavigate(section)

\* What the palette lists.  A tool that no user defined is in it, and nowhere else.
Entries ==
    {[section |-> section, shows |-> {}] : section \in Sections}
    \cup {[section |-> "workflows", shows |-> {<<"workflow", w.id>>}] : w \in Workflows}
    \cup {[section |-> "actions", shows |-> {<<"action", baseName(p.name)>>}] :
             p \in Range(Placements)}
    \cup UNION {{[section |-> kind, shows |-> {<<"item", x.id>>} \cap Whole(kind)] :
             x \in Range(Items[kind])} : kind \in Kinds}

\* Choosing an entry opens its section and no more: which entry it was is dropped.
CommandSearch == \E entry \in Entries : Shows(Mount(entry.section), entry.shows)

\* The sidebar's alarm opens Logs on errors, and the label of a count of problems is not
\* the count of those rows.
ShowErrors ==
    IF errorsOf(data.health) > 0
    THEN openLogs([NoIntent EXCEPT !.level = "error"],
                  Rows({e \in data.events : e.level = "error" /\ ~e.diagnostic}))
    ELSE handleNavigate("logs")

\* The tiles of Home lead to whole sections, each of the latest runs to the list it is in.
HomeLink ==
    /\ screen.section = "home"
    /\ \/ \E section \in {"workflows", "actions", "runs", "logs"} : handleNavigate(section)
       \/ \E r \in data.runs : Shows(RunsScreen, {<<"run", r.id>>})

\* A group of problems opens in Logs what names its target there.  A run that failed has
\* no row of its own, whatever the group says.
HealthItem ==
    /\ screen.section = "home"
    /\ \E g \in data.health.errorGroups \cup data.health.warningGroups :
          /\ g.inEventStream
          /\ openLogs(LookFor(g.target),
                      Rows({e \in data.events : /\ ~e.diagnostic
                                                /\ g.target \in {e.named, e.code, e.workflow}}))

\* A link to an event pasted over the address of the open page: nothing listens for that,
\* the next time Logs is mounted reads it.
PasteLink ==
    /\ \E e \in data.events : linked' = e.id
    /\ promised' = {} /\ UNCHANGED <<data, screen, kept>>

Use == \/ Navigate \/ CommandSearch \/ PasteLink \/ ShowErrors \/ HomeLink \/ HealthItem
       \/ LogsNext
       \/ FilterActions \/ SelectAction \/ SummaryCard \/ ActionInLogs \/ ClearActions
       \/ FilterWorkflows \/ WorkflowCard \/ BackToWorkflows \/ WorkflowTab \/ ClickNode
       \/ ClickRow \/ ClickDependency \/ WorkflowInLogs \/ FilterRuns \/ OpenRun
       \/ OpenData \/ InWorkflowData \/ SelectNode \/ BackToNodes \/ TurnPage \/ ViewMode
       \/ ToggleRecord \/ ToggleSection \/ SearchItems \/ SelectItem

Init ==
    /\ files = [catalog |-> None, runs |-> None]
    /\ got = [catalog |-> Pending, runs |-> Pending] /\ status = "loading"
    /\ linked \in {l.seq : l \in UNION {h.log : h \in Histories}} \cup {None}
    /\ data = None /\ screen = NoScreen /\ promised = {}
    /\ kept = [key |-> None, open |-> DEFAULT_SECTION_STATE]
    /\ writes = 0 /\ failures = 0 /\ clicks = 0

Next ==
    \/ GenerateDocs \/ RecordRun \/ Fetch("catalog") \/ Fetch("runs") \/ Broken
    \/ fetchCatalogData \/ Retry
    \/ status = "ready" /\ Dashboard /\ UNCHANGED <<loading, clicks>>
    \/ /\ status = "ready" /\ screen # NoScreen /\ Use
       /\ clicks < MaxClicks[screen.section] /\ clicks' = clicks + 1 /\ UNCHANGED loading

Spec == Init /\ [][Next]_vars

-----------------------------------------------------------------------------
(* Properties *)

OnScreen(s) ==
    CASE s.section = "logs"      -> LogsShows(s)
      [] s.section = "actions"   -> ActionsShow(s)
      [] s.section = "workflows" -> WorkflowsShow(s)
      [] s.section = "runs"      -> RunsShow(s)
      [] s.section = "data"      -> DataShows(s)
      [] s.section \in Kinds     -> CatalogShows(s)
      [] OTHER                   -> {}

TypeOK ==
    /\ status \in {"loading", "error", "ready"} /\ clicks \in 0..Max({MaxClicks[x] : x \in Sections})
    /\ screen.section \in Sections \cup {"none"}
    /\ screen.section = "logs" => LogsType(screen)
    /\ InNode /\ preview(screen) # <<>> =>
          /\ screen.page \in 0..totalPages(screen) - 1 /\ pageRecords(screen) # <<>>
          /\ Len(screen.cards) \in {0, Len(pageRecords(screen))}
    /\ kept.open \subseteq {"promptTrace", "inputData", "rawResponse", "actionOutput", "metadata"}

\* What a control says it shows is on the screen it leads to, whatever was filtered,
\* selected, paged or linked before: the rows a chip, a bar, a group or a field counts, the
\* events behind "Show these events in Logs" and behind a permalink, the panel of a node, the
\* whole section behind an entry of the sidebar, the record a page begins with, the
\* sections left open on the cards of one file.
Reveals == promised \subseteq OnScreen(screen)

\* Every list that can be narrowed, what it lists, and what clearing its filters lists.
Emptied(listed, cleared, whole, offered) ==
    listed = {} /\ whole # {} => offered /\ cleared = whole

\* A list that is empty although the catalog has something for it says that filters do
\* that, and the button it offers brings everything back.
EmptyExplained ==
    /\ screen.section = "logs" => LET s == clearFilters(screen) IN
          Emptied(rows(screen), rows(s), data.events, filtersActive(screen))
    /\ screen.section = "actions" => LET s == clearActions(screen) IN
          Emptied(actionRows(screen), actionRows(s), buildCatalog, actionFilters(screen))
    /\ OnWorkflows => LET s == clearWorkflows(screen) IN
          Emptied(filteredWorkflows(screen), filteredWorkflows(s), transformWorkflows, TRUE)
    /\ OnRuns => LET s == clearRuns(screen) IN
          Emptied(filteredRuns(screen), filteredRuns(s), data.runs, TRUE)

=============================================================================
