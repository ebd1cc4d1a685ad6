----------------------------- MODULE WorkflowViews -----------------------------
(***************************************************************************)
(* The views of the editor extension that are drawn from the model's list  *)
(* of workflows and find an action in it by name or by path: the diagram   *)
(* panel (views/dagWebview.ts), the links above an action in a config file *)
(* (providers/codeLensProvider.ts) and the badges on output folders        *)
(* (providers/decorationProvider.ts).                                      *)
(***************************************************************************)
EXTENDS Naturals, SequencesExt

CONSTANTS
    Flows,       \* the names of workflows
    actionsOf,   \* the actions of each, in the order of its config
    rootOf,      \* the folder that holds each one's config, and its output folders
    Longer,      \* <<a, b>>: the folder name of b begins with that of a
    MaxRounds,   \* how often the model publishes
    Nil

ASSUME ViewsAssumption ==
    /\ IsFiniteSet(Flows) /\ Nil \notin Flows /\ MaxRounds \in Nat \ {0}
    /\ \A w \in Flows : actionsOf[w] \in Seq(Range(actionsOf[w]))

VARIABLES
    workflows,            \* names, in the order of the model's map
    round,                \* which publication that is
    refreshing,           \* published, its listeners not yet told
    quickPick,            \* what the list of workflows on screen offers, or nothing
    dag,                  \* the panel's title and diagram
    currentWorkflowName

viewsVars == <<workflows, round, refreshing, quickPick, dag, currentWorkflowName>>

-----------------------------------------------------------------------------
(* Looking an action up in the model *)

\* getActionByName: the first workflow that has one of that name.
getActionByName(a) ==
    LET having == {i \in DOMAIN workflows : a \in Range(actionsOf[workflows[i]])}
    IN IF having = {} THEN Nil ELSE <<workflows[Min(having)], a>>

\* The actions of w, by place, whose folder's path begins that of a file in the folder.
Prefixing(w, root, folder) == {i \in DOMAIN actionsOf[w] :
    rootOf[w] = root /\ (actionsOf[w][i] = folder \/ <<actionsOf[w][i], folder>> \in Longer)}

\* getActionByPath: of the first workflow that has one, the first.
getActionByPath(root, folder) ==
    LET having == {i \in DOMAIN workflows : Prefixing(workflows[i], root, folder) # {}}
        w      == workflows[Min(having)]
    IN IF having = {} THEN Nil ELSE <<w, actionsOf[w][Min(Prefixing(w, root, folder))]>>

\* The links above an entry of a config file, whichever workflow's the file is.
provideCodeLenses(a) == getActionByName(a)
\* The badge of a file under agent_io/target.
provideFileDecoration(root, folder) == getActionByPath(root, folder)

-----------------------------------------------------------------------------
(* The diagram panel *)

NoDag == [title |-> Nil, of |-> Nil, drawn |-> 0]

buildMermaidDiagram(p, w) == [p EXCEPT !.of = w, !.drawn = round']

\* MUTANT: the diagram is of the first workflow, whichever was chosen.
updateFirst(p) == IF p = NoDag \/ workflows' = <<>> THEN p
                  ELSE buildMermaidDiagram(p, workflows'[1])

\* With nothing in the model the old diagram stays; when the workflow shown is gone the
\* first takes its place, under the title of the other.
update(p) ==
    CASE p = NoDag \/ workflows' = <<>> -> p
      [] p # NoDag /\ currentWorkflowName' \in Range(workflows') ->
            buildMermaidDiagram(p, currentWorkflowName')
      [] OTHER -> buildMermaidDiagram(p, workflows'[1])

Listings == {s \in UNION {[1..n -> Flows] : n \in 0..Cardinality(Flows)} : IsInjective(s)}

ViewsInit ==
    /\ workflows \in Listings /\ round = 1 /\ refreshing = FALSE
    /\ quickPick = <<>> /\ dag = NoDag /\ currentWorkflowName = Nil

\* refresh: the new list is in place before the listeners hear of it, with an await between.
Publish ==
    /\ ~refreshing /\ round < MaxRounds
    /\ workflows' \in Listings /\ round' = round + 1 /\ refreshing' = TRUE
    /\ UNCHANGED <<quickPick, dag, currentWorkflowName>>

Fire ==
    /\ refreshing /\ refreshing' = FALSE
    /\ UNCHANGED <<workflows, round, quickPick, currentWorkflowName>>
    /\ dag' = update(dag)

ThemeChanges ==
    /\ dag # NoDag
    /\ UNCHANGED <<workflows, round, refreshing, quickPick, currentWorkflowName>>
    /\ dag' = update(dag)

showWorkflow(w) ==
    /\ UNCHANGED <<workflows, round, refreshing>>
    /\ currentWorkflowName' = w
    /\ dag' = update([dag EXCEPT !.title = w])

\* The command asks which workflow when there are several; the list it offers does not
\* change while it is open.
show ==
    /\ quickPick = <<>>
    /\ \/ Len(workflows) = 1 /\ showWorkflow(workflows[1]) /\ UNCHANGED quickPick
       \/ /\ Len(workflows) > 1 /\ quickPick' = workflows
          /\ UNCHANGED <<workflows, round, refreshing, dag, currentWorkflowName>>

Pick(w) == w \in Range(quickPick) /\ quickPick' = <<>> /\ showWorkflow(w)

Dismiss ==
    /\ quickPick # <<>> /\ quickPick' = <<>>
    /\ UNCHANGED <<workflows, round, refreshing, dag, currentWorkflowName>>

Close ==
    /\ dag # NoDag /\ dag' = NoDag /\ currentWorkflowName' = Nil
    /\ UNCHANGED <<workflows, round, refreshing, quickPick>>

ViewsNext == Publish \/ Fire \/ ThemeChanges \/ show \/ Dismiss \/ Close \/ \E w \in Flows : Pick(w)

ViewsSpec == ViewsInit /\ [][ViewsNext]_viewsVars

-----------------------------------------------------------------------------
(* Properties *)

\* Ranges; there is a panel exactly while a workflow is chosen for it.
ViewsTypeOK ==
    /\ workflows \in Listings /\ quickPick \in Listings /\ round \in 1..MaxRounds
    /\ refreshing \in BOOLEAN /\ currentWorkflowName \in Flows \cup {Nil}
    /\ dag \in [title : Flows \cup {Nil}, of : Flows \cup {Nil}, drawn : 0..MaxRounds]
    /\ dag = NoDag <=> currentWorkflowName = Nil

Shared(a) == Cardinality({w \in Range(workflows) : a \in Range(actionsOf[w])}) > 1

Crowded(w, a) == \E v \in Range(workflows) : \E b \in Range(actionsOf[v]) :
    rootOf[v] = rootOf[w] /\ (<<b, a>> \in Longer \/ (b = a /\ v # w))

\* While the workflow chosen for the diagram is in the model, the panel has its name and,
\* once the listeners are told, shows it as last published, however long the choice took and
\* whatever was published, removed or reordered meanwhile.  A link above an action speaks
\* of that action of that workflow unless another workflow has one of its name, and a badge
\* of the action the folder belongs to unless another's folder, of a workflow whose config
\* lies beside it, is the same or has a name that begins its own.
ViewsHonest ==
    /\ dag # NoDag /\ currentWorkflowName \in Range(workflows) =>
          /\ dag.title = currentWorkflowName
          /\ ~refreshing => dag.of = currentWorkflowName /\ dag.drawn = round
    /\ \A w \in Range(workflows) : \A a \in Range(actionsOf[w]) :
          /\ ~Shared(a) => provideCodeLenses(a) = <<w, a>>
          /\ ~Crowded(w, a) => provideFileDecoration(rootOf[w], a) = <<w, a>>

=============================================================================
