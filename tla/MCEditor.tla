------------------------------- MODULE MCEditor -------------------------------
(* Small instances of the parts of the editor extension that share nothing: the language  *)
(* server, the preview panel, the diagram panel with the links and badges, the order of a *)
(* config file, the rows of the tree.  A behaviour is one part's.                         *)
EXTENDS LspLifecycle, Preview, WorkflowViews, WorkflowRows, ExecutionOrder, TLC

CONSTANTS n1, n2, n3, n4

VARIABLE part

\* Two workflows have an action n3 and two an action n4; in one of them a folder name begins
\* with another's, and the configs of the other two lie in one folder.
MCactionsOf == (n1 :> <<n1, n2, n3>>) @@ (n2 :> <<n3, n4>>) @@ (n3 :> <<n4>>)
MCrootOf    == (n1 :> n1) @@ (n2 :> n2) @@ (n3 :> n2)
MCLonger    == {<<n1, n2>>}

\* Three entries, the second of which may have two versions; up to two dependencies, in one
\* order, on an entry, on the first version of the second, and on a name that no entry has.
Named     == {<<i, 0>> : i \in 1..4} \cup {<<2, 1>>}
Lists     == {<<>>} \cup {<<d>> : d \in Named}
             \cup {ds \in Named \X Named : ~Earlier(ds[2], ds[1])}
MCConfigs == {<<>>} \cup
    {<<[versions |-> 0, deps |-> a], [versions |-> v, deps |-> b], [versions |-> 0, deps |-> c]>> :
        v \in {0, 2}, a \in Lists, b \in Lists, c \in Lists}

ASSUME NoActions == <<>> \in Configs

vars == <<part, lspVars, previewVars, viewsVars, orderVars, statuses>>

NoServer  == LspInit
NoView    == PreviewInit /\ \A name \in Names : store[name].real = 0
NoDiagram == ViewsInit /\ workflows = <<>>
NoFile    == Opened(<<>>) /\ Starts
NoRows    == statuses = [a \in Shown |-> "pending"]

Init ==
    /\ levels = <<>> /\ stack = <<>>
    /\ \/ part = "server" /\ LspInit /\ NoView /\ NoDiagram /\ NoFile /\ NoRows
       \/ part = "view" /\ PreviewInit /\ NoServer /\ NoDiagram /\ NoFile /\ NoRows
       \/ part = "dag" /\ ViewsInit /\ NoServer /\ NoView /\ NoFile /\ NoRows
       \/ part = "file" /\ OrderInit /\ NoServer /\ NoView /\ NoDiagram /\ NoRows
       \/ part = "rows" /\ RowsInit /\ NoServer /\ NoView /\ NoDiagram /\ NoFile

OfServer(A) ==
    part = "server" /\ A /\ UNCHANGED <<part, previewVars, viewsVars, orderVars, statuses>>

Next ==
    \/ OfServer(LspNext)
    \/ part = "view" /\ PreviewNext /\ UNCHANGED <<part, lspVars, viewsVars, orderVars, statuses>>
    \/ part = "dag" /\ ViewsNext /\ UNCHANGED <<part, lspVars, previewVars, orderVars, statuses>>
    \/ part = "file" /\ OrderNext
       /\ UNCHANGED <<part, lspVars, previewVars, viewsVars, statuses>>
    \/ part = "rows" /\ RowsNext
       /\ UNCHANGED <<part, lspVars, previewVars, viewsVars, orderVars>>

Spec == Init /\ [][Next]_vars

\* Timers and awaits end, and a server that starts comes up or is given up.
FairSpec == Spec /\ WF_vars(OfServer(DebounceFires)) /\ WF_vars(OfServer(Cycle))
                 /\ \A s \in Clients : WF_vars(OfServer(ServerUp(s)))

\* Each part's variables stay in their range.
TypeOK == LspTypeOK /\ PreviewTypeOK /\ ViewsTypeOK /\ OrderTypeOK

=============================================================================
