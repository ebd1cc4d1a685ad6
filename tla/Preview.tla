------------------------------- MODULE Preview -------------------------------
(***************************************************************************)
(* The preview panel of the editor extension: the commands that fetch a    *)
(* page of an action's records (commands/index.ts, utils/storageReader.ts),*)
(* the panel that shows it (views/queryResultsPanel.ts) and the document   *)
(* in its webview (webview/main.tsx).  Panel and document talk over two    *)
(* channels that keep their order and cross each other.                    *)
(***************************************************************************)
EXTENDS Integers, Sequences

CONSTANTS
    Names,       \* actions that can be previewed
    None,
    Limit,       \* previewPageSize
    MaxRecords,  \* records of an action
    MaxAsks,     \* pages asked for in all
    MaxWrites,   \* writes of runs to the store
    MaxMishaps   \* fetches that fail, panels closed

\* The pages there can be, and the documents that show one or none.
Payloads == [name : Names, offset : Nat, total : 0..MaxRecords, records : 0..Limit]
Docs == [kind : {"app", "error"}, shown : Payloads \cup {None}, mounted : BOOLEAN, number : Nat]

\* The sizes are numbers, and None is not a page or a document.
ASSUME Sizes ==
    /\ Limit \in Nat /\ MaxRecords \in Nat /\ MaxAsks \in Nat /\ MaxWrites \in Nat
    /\ MaxMishaps \in Nat /\ None \notin Payloads /\ None \notin Docs

VARIABLES
    store,       \* for each action its records, and how many the backend reports
    asked,       \* requests made so far
    tasks,       \* what each awaits
    panel,       \* the panel is open
    pagination, webviewReady, pendingPayload,
    documents,   \* how often webview.html has been set
    toView,      \* documents and messages on their way to the webview
    page,        \* the document in the webview
    toHost,      \* messages on their way to the extension
    crossed,     \* a document that had been replaced reported ready
    writes, mishaps

host == <<panel, pagination, webviewReady, pendingPayload, documents>>
previewVars == <<store, asked, tasks, host, toView, page, toHost, crossed, writes, mishaps>>

Least(i, j) == IF i < j THEN i ELSE j
Most(i, j)  == IF i > j THEN i ELSE j

Mishap == mishaps < MaxMishaps /\ mishaps' = mishaps + 1

-----------------------------------------------------------------------------
(* Pages *)

\* MUTANT: the offset is past the records of a table that shrank.
PageOfUnclipped(name, offset) ==
    [name |-> name, offset |-> offset, total |-> store[name].reported,
     records |-> Least(store[name].real - offset, Limit)]

\* What the backend returns for a page, and what it says there is in all.
PageOf(name, offset) ==
    [name |-> name, offset |-> offset, total |-> store[name].reported,
     records |-> Least(Most(store[name].real - offset, 0), Limit)]

\* MUTANT: only records nobody reported count as drift.
countDriftOver(p) == p.offset + p.records > p.total

\* buildPayload: the count that was reported disagrees with what was returned.
countDrift(p) ==
    \/ p.offset + p.records > p.total
    \/ p.records < Most(0, p.total - p.offset) /\ p.records < Limit

canPrev(p) == p.offset > 0
canNext(p) == p.offset + p.records < p.total

\* What navigatePreviewPage lets through, and where it goes.
AcceptsPrevious(p) == p.offset # 0
AcceptsNext(p)     == p.offset + Limit < p.total
Accepts(p, to)     == IF to = "next" THEN AcceptsNext(p) ELSE AcceptsPrevious(p)
newOffset(p, to)   == IF to = "next" THEN p.offset + Limit ELSE Most(0, p.offset - Limit)

-----------------------------------------------------------------------------
(* The panel *)

NoPanel == panel = FALSE /\ pagination = None /\ webviewReady = FALSE /\ pendingPayload = None

Html(kind, payload, number) ==
    [kind |-> kind, shown |-> payload, mounted |-> FALSE, number |-> number]
Post(payload) == [kind |-> "message", shown |-> payload]

SetsHtml(kind, payload) ==
    /\ documents' = documents + 1
    /\ toView' = Append(toView, Html(kind, payload, documents'))

\* send: a webview that is ready gets a message, any other a document that holds the page.
showResults(p) ==
    /\ panel' = TRUE /\ pagination' = p
    /\ IF webviewReady
       THEN /\ toView' = Append(toView, Post(p)) /\ pendingPayload' = None
            /\ UNCHANGED documents
       ELSE pendingPayload' = p /\ SetsHtml("app", p)
    /\ UNCHANGED webviewReady

\* MUTANT: the panel still takes its webview to be ready.
showErrorStillReady ==
    /\ panel' = TRUE /\ pagination' = None
    /\ pendingPayload' = None /\ UNCHANGED webviewReady
    /\ SetsHtml("error", None)

showError ==
    /\ panel' = TRUE /\ pagination' = None
    /\ webviewReady' = FALSE /\ pendingPayload' = None
    /\ SetsHtml("error", None)

\* The user closes the panel, or the extension disposes it.
ClosePanel ==
    /\ panel /\ Mishap
    /\ panel' = FALSE /\ pagination' = None /\ webviewReady' = FALSE /\ pendingPayload' = None
    /\ toView' = <<>> /\ toHost' = <<>> /\ page' = None
    /\ UNCHANGED <<store, asked, tasks, documents, crossed, writes>>

-----------------------------------------------------------------------------
(* The commands *)

Asks(name, offset) ==
    /\ asked < MaxAsks /\ asked' = asked + 1
    /\ tasks' = [tasks EXCEPT ![asked + 1] = [at |-> "fetch", name |-> name, offset |-> offset,
                                              page |-> None]]

previewData(name) ==
    /\ Asks(name, 0)
    /\ UNCHANGED <<store, host, toView, page, toHost, crossed, writes, mishaps>>

\* A refused command is one of the outcomes; what is on the panel stays.
navigatePreviewPage(to) ==
    IF pagination # None /\ Accepts(pagination, to)
    THEN Asks(pagination.name, newOffset(pagination, to))
    ELSE UNCHANGED <<asked, tasks>>

PageCommand(to) ==
    /\ navigatePreviewPage(to)
    /\ UNCHANGED <<store, host, toView, page, toHost, crossed, writes, mishaps>>

\* The storage command has answered; the traces are still to come, and may fail in vain.
Fetched(i) ==
    /\ tasks[i].at = "fetch"
    /\ tasks' = [tasks EXCEPT ![i].at = "traces",
                              ![i].page = PageOf(tasks[i].name, tasks[i].offset)]
    /\ UNCHANGED <<store, asked, host, toView, page, toHost, crossed, writes, mishaps>>

\* No output, an error payload, output that does not parse, or thirty seconds gone.
FetchFails(i) ==
    /\ tasks[i].at = "fetch" /\ Mishap
    /\ tasks' = [tasks EXCEPT ![i].at = "over"]
    /\ showError
    /\ UNCHANGED <<store, asked, page, toHost, crossed, writes>>

TracesAttached(i) ==
    /\ tasks[i].at = "traces"
    /\ tasks' = [tasks EXCEPT ![i].at = "over", ![i].page = None]
    /\ showResults(tasks[i].page)
    /\ UNCHANGED <<store, asked, page, toHost, crossed, writes, mishaps>>

\* A run adds or deletes records; record_count need not follow.
RunWrites(name) ==
    /\ writes < MaxWrites /\ writes' = writes + 1
    /\ \E real, reported \in 0..MaxRecords :
          store' = [store EXCEPT ![name] = [real |-> real, reported |-> reported]]
    /\ UNCHANGED <<asked, tasks, host, toView, page, toHost, crossed, mishaps>>

-----------------------------------------------------------------------------
(* The webview *)

Showing == page # None /\ page.mounted /\ page.kind = "app"

\* A document replaces the one there; a message to one that does not listen is lost.
DeliverToView ==
    /\ toView # <<>> /\ toView' = Tail(toView)
    /\ LET item == Head(toView) IN
       page' = CASE item.kind # "message" -> item
                 [] item.kind = "message" /\ Showing -> [page EXCEPT !.shown = item.shown]
                 [] OTHER -> page
    /\ UNCHANGED <<store, asked, tasks, host, toHost, crossed, writes, mishaps>>

\* The document has loaded; the app says it is ready.
Mount ==
    /\ page # None /\ ~page.mounted
    /\ page' = [page EXCEPT !.mounted = TRUE]
    /\ toHost' = IF page.kind = "app"
                 THEN Append(toHost, [type |-> "ready", from |-> page.number]) ELSE toHost
    /\ UNCHANGED <<store, asked, tasks, host, toView, crossed, writes, mishaps>>

Click(to) ==
    /\ Showing /\ asked + Len(toHost) < MaxAsks
    /\ IF to = "next" THEN canNext(page.shown) ELSE canPrev(page.shown)
    /\ toHost' = Append(toHost, [type |-> to, from |-> page.number])
    /\ UNCHANGED <<store, asked, tasks, host, toView, page, crossed, writes, mishaps>>

IsReady ==
    /\ webviewReady' = TRUE /\ pendingPayload' = None
    /\ toView' = IF pendingPayload = None THEN toView ELSE Append(toView, Post(pendingPayload))
    /\ UNCHANGED <<panel, pagination, documents>>

DeliverToHost ==
    /\ toHost # <<>> /\ toHost' = Tail(toHost)
    /\ LET message == Head(toHost) IN
       IF message.type = "ready"
       THEN /\ IsReady
            /\ crossed' = (crossed \/ message.from # documents)
            /\ UNCHANGED <<asked, tasks>>
       ELSE navigatePreviewPage(message.type) /\ UNCHANGED <<host, toView, crossed>>
    /\ UNCHANGED <<store, page, writes, mishaps>>

-----------------------------------------------------------------------------

PreviewInit ==
    /\ store \in [Names -> {[real |-> n, reported |-> n] : n \in 0..MaxRecords}]
    /\ asked = 0
    /\ tasks = [i \in 1..MaxAsks |->
          [at |-> "none", name |-> None, offset |-> 0, page |-> None]]
    /\ NoPanel /\ documents = 0
    /\ toView = <<>> /\ page = None /\ toHost = <<>> /\ crossed = FALSE
    /\ writes = 0 /\ mishaps = 0

PreviewNext ==
    \/ ClosePanel \/ DeliverToView \/ Mount \/ DeliverToHost
    \/ \E name \in Names : previewData(name) \/ RunWrites(name)
    \/ \E to \in {"next", "previous"} : PageCommand(to) \/ Click(to)
    \/ \E i \in 1..MaxAsks : Fetched(i) \/ FetchFails(i) \/ TracesAttached(i)

PreviewSpec == PreviewInit /\ [][PreviewNext]_previewVars

-----------------------------------------------------------------------------
(* Properties *)

\* Ranges; a page never has more records than asked for, nor fewer than none.
PreviewTypeOK ==
    /\ store \in [Names -> [real : 0..MaxRecords, reported : 0..MaxRecords]]
    /\ asked \in 0..MaxAsks /\ writes \in 0..MaxWrites /\ mishaps \in 0..MaxMishaps
    /\ \A i \in 1..MaxAsks :
          /\ tasks[i].at \in {"none", "fetch", "traces", "over"}
          /\ tasks[i].page \in Payloads \cup {None}
    /\ panel \in BOOLEAN /\ webviewReady \in BOOLEAN /\ crossed \in BOOLEAN
    /\ pagination \in Payloads \cup {None} /\ pendingPayload \in Payloads \cup {None}
    /\ page = None \/ page.number \in 1..documents

\* Nothing is on its way, and the document has loaded.
Settled ==
    /\ panel /\ page # None /\ page.mounted /\ toView = <<>>
    /\ \A i \in DOMAIN toHost : toHost[i].type # "ready"

\* Once nothing is on its way the document shows the page the next command pages from, or
\* the error there is nothing to page from after, however answers, errors, closed panels
\* and documents that report ready fell.  A report from a document already replaced is
\* left out: the panel takes it for one of the document that replaced it.
PanelHonest == Settled /\ ~crossed =>
    IF pagination = None THEN page.kind = "error"
    ELSE page.kind = "app" /\ page.shown = pagination

\* A page without the drift mark offers a button exactly when the command behind it is
\* not refused.
ButtonsHonest == Settled /\ ~crossed /\ Showing /\ ~countDrift(page.shown) =>
    /\ canNext(page.shown) <=> AcceptsNext(pagination)
    /\ canPrev(page.shown) <=> AcceptsPrevious(pagination)

=============================================================================
