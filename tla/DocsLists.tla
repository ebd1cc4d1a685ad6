------------------------------ MODULE DocsLists ------------------------------
(***************************************************************************)
(* The lists of actions, of workflows with what is inside one, and of runs *)
(* (screens/actions-screen.tsx, workflows-screen.tsx, runs-screen.tsx).     *)
(***************************************************************************)
EXTENDS DocsLogs

CONSTANTS
    Alphabet,     \* base names of actions in the order of their names
    PageSize      \* RECORDS_PER_PAGE

ASSUME NamesAssumption ==
    /\ PageSize \in Nat \ {0}
    /\ Alphabet \in Seq(Range(Alphabet))
    /\ \A p \in Range(Placements) : baseName(p.name) \in Range(Alphabet)

Pairs(kind, S) == {<<kind, x>> : x \in S}
Rank(name)     == CHOOSE i \in DOMAIN Alphabet : Alphabet[i] = name

-----------------------------------------------------------------------------
(* Actions: placements by the name they have without their version *)

runningPlacements == UNION {{<<r.wf, a>> : a \in Having(r, "running")} :
                            r \in {x \in data.runs : x.status = "running"}}

Described == {"schema", "intent", "impl"}   \* of an action, the texts that are searched

\* Kept of the first placement that has one.
firstText(at, text) ==
    LET having == {i \in at : Placements[i][text] # None}
    IN IF having = {} THEN None ELSE Placements[Min(having)][text]

\* An event counts for an action of a workflow only if it is of that workflow.
ActionEntry(base) ==
    LET at      == {i \in DOMAIN Placements : baseName(Placements[i].name) = base}
        members == {Placements[i] : i \in at}
        wfs     == {p.wf : p \in members}
    IN [name |-> base, wfs |-> wfs, words |-> {firstText(at, text) : text \in Described} \ {None},
        place |-> Min(at), type |-> Placements[Min(at)].type,
        sec  |-> Max({p.sec : p \in members}),
        running |-> \E p \in members : <<p.wf, p.name>> \in runningPlacements,
        events  |-> {e \in data.events : /\ e.actionName # None /\ e.workflow \in wfs
                                         /\ baseName(e.actionName) = base}]

buildCatalog == {ActionEntry(base) : base \in {baseName(p.name) : p \in Range(Placements)}}

EventsIn(c, wf)  == {e \in c.events : wf \in {All, e.workflow}}
errorsIn(c, wf)   == Cardinality({e \in EventsIn(c, wf) : e.level = "error"})
warningsIn(c, wf) == Cardinality({e \in EventsIn(c, wf) : e.level = "warn"})
HasIssues(c, wf) == errorsIn(c, wf) + warningsIn(c, wf) > 0

scopedActions(s) ==
    {c \in buildCatalog : /\ s.workflow \in c.wfs \cup {All}
                          /\ s.issuesOnly => HasIssues(c, s.workflow)
                          /\ Includes(c.words \cup {c.name} \cup c.wfs, s.search)}

actionRows(s) == {c \in scopedActions(s) : s.type \in {All, c.type}}

\* The orders of the list, as what they compare in turn.
SortKey(c, s) ==
    CASE s.sort = "issues" -> <<-errorsIn(c, s.workflow), -warningsIn(c, s.workflow),
                               IF c.running THEN 0 ELSE 1, Rank(c.name)>>
      [] s.sort = "dur"    -> <<-c.sec, c.place>>
      [] s.sort = "wf"     -> <<-Cardinality(c.wfs), Rank(c.name)>>
      [] OTHER             -> <<Rank(c.name)>>

Precedes(p, q) == \E i \in DOMAIN p : p[i] < q[i] /\ \A j \in 1..i - 1 : p[j] = q[j]

FirstBy(key(_), S) == {c \in S : \A d \in S \ {c} : Precedes(key(c), key(d))}

\* The chosen action, or the first of the list while the chosen one is filtered away.
selectedAction(s) ==
    CASE \E c \in actionRows(s) : c.name = s.selected
           -> CHOOSE c \in actionRows(s) : c.name = s.selected
      [] actionRows(s) = {} -> None
      [] OTHER -> CHOOSE c \in FirstBy(LAMBDA d : SortKey(d, s), actionRows(s)) : TRUE

ActionsScreen == [section |-> "actions", search |-> <<>>, type |-> All, workflow |-> All,
                  sort |-> "issues", issuesOnly |-> FALSE, selected |-> None]

ActionsShow(s) ==
    Pairs("action", {c.name : c \in actionRows(s)})
    \cup (IF actionRows(s) = {} THEN {} ELSE {<<"detail", selectedAction(s).name>>})

actionFilters(s) == s.search # <<>> \/ s.type # All \/ s.workflow # All \/ s.issuesOnly
clearActions(s)  == [s EXCEPT !.search = <<>>, !.type = All, !.workflow = All,
                              !.issuesOnly = FALSE]

OnActions == screen.section = "actions"

FilterActions ==
    /\ OnActions
    /\ \/ \E q \in Typed : Sets([screen EXCEPT !.search = q])
       \/ \E w \in {v.id : v \in Workflows} \cup {All} : Sets([screen EXCEPT !.workflow = w])
       \/ \E o \in {"issues", "dur", "wf", "name"} : Sets([screen EXCEPT !.sort = o])
       \/ Sets([screen EXCEPT !.issuesOnly = ~@])
       \/ \E t \in {All, "llm", "tool"} :   \* the tab counts what the other filters leave
             Shows([screen EXCEPT !.type = t],
                   Pairs("action", {c.name : c \in {d \in scopedActions(screen) :
                                                       t \in {All, d.type}}}))

SelectAction ==
    OnActions /\ \E c \in actionRows(screen) :
        Shows([screen EXCEPT !.selected = c.name], {<<"detail", c.name>>})

\* The cards look past the filters: an action that runs, or took longest, may not be in
\* the list, and its detail is then not what opens.
runningNow == FirstBy(LAMBDA c : <<c.place>>, {c \in buildCatalog : c.running})
slowest    == FirstBy(LAMBDA c : <<-c.sec, c.place>>,
                      {c \in buildCatalog : ~c.running /\ c.sec > 0})

SummaryCard ==
    /\ OnActions
    /\ \/ \E c \in runningNow \cup slowest :
             Shows([screen EXCEPT !.selected = c.name],
                      IF c \in actionRows(screen) THEN {<<"detail", c.name>>} ELSE {})
       \/ Shows([screen EXCEPT !.issuesOnly = TRUE],
                Pairs("action", {c.name : c \in {d \in actionRows(screen) :
                                                     HasIssues(d, screen.workflow)}}))

\* The rows behind a link to Logs: not those hidden as diagnostics, nor those that name
\* their action only in what a search does not look in.
Findable(events) == Rows({e \in events : ~e.diagnostic /\ e.named # None})

ActionInLogs ==
    /\ OnActions /\ actionRows(screen) # {}
    /\ LET c == selectedAction(screen) IN
       /\ EventsIn(c, screen.workflow) # {}
       /\ openLogs(LookFor(c.name), Findable(EventsIn(c, screen.workflow)))

ClearActions ==
    OnActions /\ actionRows(screen) = {} /\ actionFilters(screen) /\ Sets(clearActions(screen))

-----------------------------------------------------------------------------
(* Workflows, and inside one its graph, its actions and the panel of a node *)

WorkflowsScreen == [section |-> "workflows", search |-> <<>>, status |-> All,
                    selected |-> None, tab |-> "graph", node |-> None]

Listing(s) == [s EXCEPT !.selected = None, !.tab = "graph", !.node = None]

filteredWorkflows(s) == {w \in transformWorkflows : /\ s.status \in {All, w.manifestStatus}
                                                    /\ Includes(w.words, s.search)}

PlacementsOf(wf) == {key \in DOMAIN transformActions : key[1] = wf}
dependents(key)  == {k \in PlacementsOf(key[1]) : key[2] \in transformActions[k].deps}

WorkflowsShow(s) ==
    IF s.selected = None THEN Pairs("workflow", {w.id : w \in filteredWorkflows(s)})
    ELSE (IF s.tab = "readme" THEN {} ELSE Pairs("node", PlacementsOf(s.selected)))
         \cup Pairs("panel", {s.node} \cap DOMAIN transformActions)

clearWorkflows(s) == [s EXCEPT !.search = <<>>, !.status = All]

OnWorkflows == screen.section = "workflows" /\ screen.selected = None
InWorkflow  == screen.section = "workflows" /\ screen.selected # None
Panel       == screen.node \in DOMAIN transformActions

FilterWorkflows ==
    /\ OnWorkflows
    /\ \/ \E q \in Typed : Sets([screen EXCEPT !.search = q])
       \/ \E t \in {w.manifestStatus : w \in transformWorkflows} \cup {All} :
             Sets([screen EXCEPT !.status = t])
       \/ filteredWorkflows(screen) = {} /\ Sets(clearWorkflows(screen))

WorkflowCard ==
    OnWorkflows /\ \E w \in filteredWorkflows(screen) :
        Shows([screen EXCEPT !.selected = w.id], Pairs("node", PlacementsOf(w.id)))

BackToWorkflows ==
    InWorkflow /\ Shows(Listing(screen), Pairs("workflow", {screen.selected}))

WorkflowTab ==
    /\ InWorkflow
    /\ \E t \in {"graph", "actions"} \cup
              {"readme" : w \in {v \in Workflows : v.id = screen.selected /\ v.readme}} :
          Sets([screen EXCEPT !.tab = t])

\* A node of the graph, or its row, opens its panel and closes it again.
Traces(key) == Shows([screen EXCEPT !.node = IF @ = key THEN None ELSE key],
                     IF screen.node = key THEN {} ELSE {<<"panel", key>>})

ClickNode == /\ InWorkflow /\ screen.tab = "graph"
             /\ \E key \in PlacementsOf(screen.selected) : Traces(key)
ClickRow  == /\ InWorkflow /\ screen.tab = "actions"
             /\ \E key \in PlacementsOf(screen.selected) : Traces(key)

\* A dependency outside the workflow has no panel: choosing it closes the one there is.
ClickDependency ==
    /\ InWorkflow /\ Panel
    /\ \/ \E d \in transformActions[screen.node].deps :
             LET key == <<screen.node[1], d>>
             IN Shows([screen EXCEPT !.node = key],
                      Pairs("panel", {key} \cap DOMAIN transformActions))
       \/ \E key \in dependents(screen.node) :
             Shows([screen EXCEPT !.node = key], {<<"panel", key>>})
       \/ Sets([screen EXCEPT !.node = None])

WorkflowInLogs ==
    /\ InWorkflow
    /\ LET here == {e \in data.events : e.workflow = screen.selected} IN
       \/ openLogs(LookFor(screen.selected), Rows({e \in here : ~e.diagnostic}))
       \/ /\ Panel
          /\ openLogs(LookFor(screen.node[2]),
                      Findable({e \in here : e.actionName = screen.node[2]}))

-----------------------------------------------------------------------------
(* Runs *)

RunsScreen == [section |-> "runs", search |-> <<>>, status |-> All, selected |-> None]

filteredRuns(s) == {r \in data.runs : /\ s.status \in {All, r.status}
                                      /\ Includes({r.id, r.wf}, s.search)}

\* The timeline of a run: a time that was not recorded is worked out from the other and the
\* duration, and an action without either has its bar at the origin.
bar(a) ==
    [name  |-> a.name,
     start |-> IF a.start = None /\ a.end # None /\ a.dur > 0 THEN a.end - a.dur ELSE a.start,
     end   |-> IF a.end = None /\ a.start # None /\ a.dur > 0 THEN a.start + a.dur ELSE a.end]

span(r) == Max({1, r.duration} \cup
               {b.end : b \in {c \in {bar(a) : a \in r.actions} : None \notin {c.start, c.end}}})

\* A bar that starts where the axis ends is cut off with it.
RunDetail(r) ==
    {<<"run detail", r.id>>} \cup
    {<<"bar", b.name>> : b \in {c \in {bar(a) : a \in r.actions} :
                                   c.start = None \/ c.start < span(r)}}

RunsShow(s) == IF s.selected = None THEN Pairs("run", {r.id : r \in filteredRuns(s)})
               ELSE RunDetail(CHOOSE r \in data.runs : r.id = s.selected)

clearRuns(s) == [s EXCEPT !.search = <<>>, !.status = All]

OnRuns == screen.section = "runs" /\ screen.selected = None

FilterRuns ==
    /\ OnRuns
    /\ \/ \E q \in Typed : Sets([screen EXCEPT !.search = q])
       \/ \E t \in {r.status : r \in data.runs} \cup {All} : Sets([screen EXCEPT !.status = t])
       \/ filteredRuns(screen) = {} /\ data.runs # {} /\ Sets(clearRuns(screen))

\* An action known to have taken time, or recorded without its times.
HasBar(a) == CASE a.start = None \/ a.end = None -> a.start = None \/ a.dur > 0
               [] OTHER -> a.start < a.end

OpenRun ==
    \/ OnRuns /\ \E r \in filteredRuns(screen) :
           Shows([screen EXCEPT !.selected = r.id],
                 {<<"run detail", r.id>>} \cup
                 {<<"bar", a.name>> : a \in {b \in r.actions : HasBar(b)}})
    \/ /\ screen.section = "runs" /\ screen.selected # None
       /\ Shows([screen EXCEPT !.selected = None], {<<"run", screen.selected>>})

=============================================================================
