---------------------------- MODULE ExecutionOrder ----------------------------
(***************************************************************************)
(* The order and the levels the editor extension gives the actions of a    *)
(* config file before any run has written a manifest (model/yamlParser.ts, *)
(* model/workflowModel.ts).  Kahn's algorithm runs one iteration a step,   *)
(* then the depth-first search for the levels one call or return a step.   *)
(* A name is the place of the entry that defines it, or a number no entry  *)
(* has, and a version, 0 when it has none.                                 *)
(***************************************************************************)
EXTENDS Naturals, FiniteSets, SequencesExt

CONSTANT Configs  \* the files there may be: the entries in order, [versions, deps]

ASSUME ConfigsAssumption == \A file \in Configs :
    /\ file \in Seq(Range(file))
    /\ \A entry \in Range(file) : entry.versions \in Nat /\ entry.deps \in Seq(Nat \X Nat)

VARIABLES
    actions,      \* the actions of the config
    resolved,     \* the dependencies of each
    inDegree, queue, ordered,
    sorted,       \* the order is complete
    levels,       \* the levels given so far
    stack         \* the calls of visit under way

orderVars == <<actions, resolved, inDegree, queue, ordered, sorted, levels, stack>>

-----------------------------------------------------------------------------
(* From the file to the graph *)

\* A set as a sequence in the order of a relation.
ranked(S, R) == [i \in 1..Cardinality(S) |->
    CHOOSE n \in S : Cardinality({m \in S : <<m, n>> \in R}) = i - 1]

Earlier(a, b) == a[1] < b[1] \/ (a[1] = b[1] /\ a[2] < b[2])
inOrder(S)    == ranked(S, {p \in S \X S : Earlier(p[1], p[2])})

\* One action for each version, or the entry as it is.
expandVersions(versions) == IF versions = 0 THEN {0} ELSE 1..versions

parseActions(file) == UNION {{i} \X expandVersions(file[i].versions) : i \in DOMAIN file}

\* The name of an entry with versions stands for them all.
resolveDeps(file, ds) ==
    LET meant(d) == IF d \notin parseActions(file) /\ d[1] \in DOMAIN file /\ d[2] = 0
                    THEN expandVersions(file[d[1]].versions) ELSE {d[2]}
        all == inOrder(UNION {{j} \X meant(ds[j]) : j \in DOMAIN ds})
    IN [k \in DOMAIN all |-> <<ds[all[k][1]][1], all[k][2]>>]

\* What the algorithms work on: the actions, and what they name that is no action.
Nodes == actions \cup UNION {Range(resolved[a]) : a \in actions}

depsOf(n)   == IF n \in actions THEN resolved[n] ELSE <<>>
Reads(n, d) == d \in Range(depsOf(n))

Opened(file) ==
    /\ actions = parseActions(file)
    /\ resolved = [a \in actions |-> resolveDeps(file, file[a[1]].deps)]

-----------------------------------------------------------------------------
(* topoSort *)

\* An action names the one before any names the other.
MetBefore(m, n) == \E a \in actions : \E i \in DOMAIN resolved[a] :
    /\ resolved[a][i] = m
    /\ \A b \in actions : \A j \in DOMAIN resolved[b] :
          resolved[b][j] = n => Earlier(a, b) \/ (a = b /\ i < j)

\* The actions come first, in the order of the file, then the names that are none as met.
Starts ==
    /\ inDegree = [n \in Nodes |-> Len(depsOf(n))]
    /\ queue = inOrder({a \in actions : inDegree[a] = 0}) \o
          ranked(Nodes \ actions, {p \in Nodes \X Nodes : MetBefore(p[1], p[2])})
    /\ ordered = <<>> /\ sorted = FALSE

\* MUTANT: a reader is queued with the first of its dependencies.
ReadiesEarly(a, degree) == Reads(a, Head(queue)) /\ degree + 1 = Len(resolved[a])
Readies(a, degree) == Reads(a, Head(queue)) /\ degree = 0

\* One turn of the loop.
Take ==
    /\ queue # <<>>
    /\ ordered' = Append(ordered, Head(queue))
    /\ inDegree' = [n \in Nodes |-> IF Reads(n, Head(queue)) THEN inDegree[n] - 1 ELSE inDegree[n]]
    /\ queue' = Tail(queue) \o inOrder({a \in actions : Readies(a, inDegree'[a])})
    /\ UNCHANGED <<actions, resolved, sorted, levels, stack>>

\* What a cycle kept out follows in the order of the file.
AddRemaining ==
    /\ queue = <<>> /\ ~sorted /\ sorted' = TRUE
    /\ ordered' = ordered \o inOrder(actions \ Range(ordered))
    /\ UNCHANGED <<actions, resolved, inDegree, queue, levels, stack>>

-----------------------------------------------------------------------------
(* computeLevels: one above the highest dependency *)

\* A dependency being visited, on a cycle, counts as 0.
given(d) == IF d \in DOMAIN levels THEN levels[d] ELSE 0

\* MUTANT: the last dependency decides.
levelAboveLast(ds) == IF ds = <<>> THEN 0 ELSE given(Last(ds)) + 1
levelAbove(ds) == Max({0} \cup {given(d) + 1 : d \in Range(ds)})

\* The dependencies of the call on top that are still to be visited, by their places.
unseen == {i \in DOMAIN depsOf(Last(stack)) :
              depsOf(Last(stack))[i] \notin DOMAIN levels \cup Range(stack)}

Calls(n) == stack' = Append(stack, n)
            /\ UNCHANGED <<actions, resolved, inDegree, queue, ordered, sorted, levels>>

\* The loop over the actions: what has a level keeps it.
VisitNext == /\ sorted /\ stack = <<>> /\ ~(actions \subseteq DOMAIN levels)
             /\ Calls(inOrder(actions \ DOMAIN levels)[1])

VisitDependency == /\ stack # <<>> /\ unseen # {}
                   /\ Calls(depsOf(Last(stack))[Min(unseen)])

Return ==
    /\ stack # <<>> /\ unseen = {} /\ stack' = Front(stack)
    /\ levels' = [n \in DOMAIN levels \cup {Last(stack)} |->
                    IF n = Last(stack) THEN levelAbove(depsOf(n)) ELSE levels[n]]
    /\ UNCHANGED <<actions, resolved, inDegree, queue, ordered, sorted>>

OrderInit == (\E file \in Configs : Opened(file)) /\ Starts /\ levels = <<>> /\ stack = <<>>
OrderNext == Take \/ AddRemaining \/ VisitNext \/ VisitDependency \/ Return
OrderSpec == OrderInit /\ [][OrderNext]_orderVars

-----------------------------------------------------------------------------
(* What the engine makes of the same config: workflow/parallel/action_executor.py *)

\* _direct_dependencies: names outside the workflow are left out.
direct(a) == Range(resolved[a]) \cap actions

\* The loop gets stuck: each of those left waits for another of them.
Circular == \E S \in SUBSET actions : S # {} /\ \A a \in S : direct(a) \cap S # {}

\* Otherwise a level takes all that wait for nothing but lower levels.
compute_execution_levels(level) == \A a \in actions : \A k \in 0..level[a] :
    direct(a) \subseteq {b \in actions : level[b] < k} <=> k = level[a]

-----------------------------------------------------------------------------
(* The rows of the tree under the workflow: providers/treeViewProvider.ts *)

\* buildWorkflow numbers an action by its place in the order.
index(a) == CHOOSE i \in DOMAIN ordered : ordered[i] = a

\* The versions of an entry share a row, which is folded when it has several.
RowOf(a) == {b \in actions : b = a \/ (a[2] # 0 /\ b[2] # 0 /\ a[1] = b[1])}

\* A row stands where the first of its actions does.
foremost(row) == Min({index(a) : a \in row})
buildActionNodes ==
    LET rows == {RowOf(a) : a \in actions}
    IN ranked(rows, {p \in rows \X rows : foremost(p[1]) < foremost(p[2])})

-----------------------------------------------------------------------------
(* Properties *)

OrderTypeOK ==
    /\ queue \in Seq(Nodes) /\ ordered \in Seq(Nodes) /\ stack \in Seq(Nodes)
    /\ inDegree \in [Nodes -> Nat] /\ sorted \in BOOLEAN
    /\ DOMAIN levels \subseteq Nodes /\ \A n \in DOMAIN levels : levels[n] \in Nat

\* No action depends twice on another, by writing it out and by its base name or otherwise.
\* One that does is sorted as if it were on a cycle.
NoneTwice == \A a \in actions : Cardinality(Range(resolved[a])) = Len(resolved[a])

\* Every action is listed once, cycles, versions and unknown names notwithstanding; and an
\* action the engine can run stands after all it depends on, in the order and, whatever
\* versions share a row, in the tree.
ListedInOrder == sorted =>
    /\ \A a \in actions : Cardinality({i \in DOMAIN ordered : ordered[i] = a}) = 1
    /\ ~Circular /\ NoneTwice =>
          LET nodes == buildActionNodes
              Row(a) == CHOOSE i \in DOMAIN nodes : a \in nodes[i]
          IN \A a \in actions : \A d \in direct(a) :
                index(d) < index(a) /\ Row(d) < Row(a)

Leveled == sorted /\ stack = <<>> /\ actions \subseteq DOMAIN levels

\* Before a manifest exists the editor puts an action on the level the engine will run it
\* on, when the engine can run the config and nothing it names is defined elsewhere.
LevelsAgree == Leveled /\ ~Circular /\ Nodes = actions => compute_execution_levels(levels)

=============================================================================
