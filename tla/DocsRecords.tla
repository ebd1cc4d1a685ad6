------------------------------ MODULE DocsRecords ------------------------------
(***************************************************************************)
(* The stored records of a workflow (screens/data-screen.tsx) on cards     *)
(* whose open sections outlive the card (ui/data-card.tsx), and the lists  *)
(* of schemas, prompts and tools (screens/catalog-screens.tsx).             *)
(***************************************************************************)
EXTENDS DocsLists

-----------------------------------------------------------------------------
(* Record cards *)

DEFAULT_SECTION_STATE == {"actionOutput"}

\* The sections a record has: a record nobody answered still says why.
sectionsOf(r) ==
    (IF r.traced THEN {"promptTrace", "inputData", "rawResponse"} ELSE {})
    \cup (IF r.fields \/ r.reason \in {"guard_skip", "upstream_unprocessed"}
          THEN {"actionOutput"} ELSE {})
    \cup {"metadata"}

\* A card renders with the sections that were kept, if they are kept under its file.
Rendered(memory, r) == IF memory.key = r.file THEN memory.open ELSE DEFAULT_SECTION_STATE

\* Cards render together; then one after another each that finds another file's key there
\* puts its own, with the sections it starts from.
Mounted(memory, records) ==
    LET KeyBefore(i) == IF i = 1 THEN memory.key ELSE records[i - 1].file
        Finds(i)     == KeyBefore(i) = records[i].file
    IN [memory |-> IF records = <<>> \/ \A i \in DOMAIN records : Finds(i) THEN memory
                   ELSE [key |-> Last(records).file, open |-> DEFAULT_SECTION_STATE],
        cards  |-> [i \in DOMAIN records |-> IF Finds(i) THEN Rendered(memory, records[i])
                                             ELSE DEFAULT_SECTION_STATE]]

-----------------------------------------------------------------------------
(* Data *)

DataScreen == [section |-> "data", workflow |-> None, node |-> None, search |-> <<>>,
               page |-> 0, view |-> "card", cards |-> <<>>, opened |-> {},
               chosen |-> DEFAULT_SECTION_STATE]

NodesOf(wf)      == {n \in Nodes : n.wf = wf}
filteredNodes(s) == {n \in NodesOf(s.workflow) : Includes({n.node} \cup n.files, s.search)}

Stored(s)     == CHOOSE n \in NodesOf(s.workflow) : n.node = s.node
preview(s)    == Stored(s).preview

\* MUTANT: a last page that is full is followed by an empty one.
totalPagesOver(s) == Len(preview(s)) \div PageSize + 1

totalPages(s) == (Len(preview(s)) + PageSize - 1) \div PageSize

pageRecords(s) ==
    SubSeq(preview(s), s.page * PageSize + 1, Min({(s.page + 1) * PageSize, Len(preview(s))}))

OneFile(s) == Cardinality({r.file : r \in Range(preview(s))}) = 1

DataShows(s) ==
    CASE s.workflow = None -> Pairs("workflow", {n.wf : n \in Nodes})
      [] s.workflow # None /\ s.node = None ->
             Pairs("node", {n.node : n \in filteredNodes(s)})
      [] OTHER -> {<<"record", s.page * PageSize + i>> : i \in DOMAIN pageRecords(s)}
                  \cup {<<"card", i, s.cards[i]>> : i \in s.opened}

\* The first card of a page is open.
MountsCards(s, what) ==
    LET mounted == Mounted(kept, pageRecords(s))
    IN /\ screen' = [s EXCEPT !.cards = mounted.cards, !.opened = {1} \cap DOMAIN mounted.cards]
       /\ kept' = mounted.memory
       /\ promised' = what /\ UNCHANGED <<data, linked>>

ShowsRecords(s, what) ==
    IF s.view = "card" THEN MountsCards(s, what) ELSE Shows([s EXCEPT !.cards = <<>>, !.opened = {}], what)

\* The card that is open, if its node's records are all of one file, opens the sections
\* chosen last.
Keeps(s) ==
    IF s.view = "card" /\ OneFile(s)
    THEN {<<"card", i, s.chosen>> : i \in {1} \cap DOMAIN pageRecords(s)} ELSE {}

InNode == screen.section = "data" /\ screen.node # None

OpenData ==
    /\ screen.section = "data" /\ screen.workflow = None
    /\ \E wf \in {n.wf : n \in Nodes} :
          Shows([screen EXCEPT !.workflow = wf], Pairs("node", {n.node : n \in NodesOf(wf)}))

InWorkflowData ==
    /\ screen.section = "data" /\ screen.workflow # None /\ screen.node = None
    /\ \/ \E q \in Typed : Sets([screen EXCEPT !.search = q])
       \/ filteredNodes(screen) = {} /\ screen.search # <<>>
          /\ Sets([screen EXCEPT !.search = <<>>])
       \/ Sets(DataScreen)

\* A node opens on its first page; what was chosen on another visit may be kept or not.
SelectNode ==
    /\ screen.section = "data" /\ screen.workflow # None /\ screen.node = None
    /\ \E n \in filteredNodes(screen) :
          LET s == [screen EXCEPT !.node = n.node, !.page = 0, !.view = "card"]
          IN MountsCards([s EXCEPT !.chosen = IF preview(s) = <<>> THEN @
                                              ELSE Rendered(kept, Head(preview(s)))],
                         IF preview(s) = <<>> THEN {} ELSE {<<"record", 1>>})

\* Leaving a node unmounts the list it came from, and with it the search there.
BackToNodes ==
    /\ InNode
    /\ Shows([DataScreen EXCEPT !.workflow = screen.workflow], {<<"node", screen.node>>})

\* Previous, next and the number of a page.
TurnPage ==
    /\ InNode /\ totalPages(screen) > 1
    /\ \E p \in {Max({0, screen.page - 1}), Min({totalPages(screen) - 1, screen.page + 1})}
               \cup 0..totalPages(screen) - 1 :
          /\ p # screen.page
          /\ LET s == [screen EXCEPT !.page = p]
             IN ShowsRecords(s, {<<"record", p * PageSize + 1>>} \cup Keeps(s))

ViewMode ==
    /\ InNode
    /\ \E v \in {"card", "json", "table"} \ {screen.view} :
          LET s == [screen EXCEPT !.view = v] IN ShowsRecords(s, Keeps(s))

ToggleRecord ==
    InNode /\ \E i \in DOMAIN screen.cards :
        LET s == [screen EXCEPT !.opened = SymDiff(@, {i})]
        IN Shows(s, IF i \in s.opened THEN {<<"card", i, s.cards[i]>>} ELSE {})

\* The state of the card that is toggled is kept, under whichever file is there.
ToggleSection ==
    /\ InNode
    /\ \E i \in screen.opened : \E section \in sectionsOf(pageRecords(screen)[i]) :
          LET open == SymDiff(screen.cards[i], {section})
          IN /\ screen' = [screen EXCEPT !.cards[i] = open, !.chosen = open]
             /\ kept' = [kept EXCEPT !.open = open]
             /\ promised' = {<<"card", i, open>>} /\ UNCHANGED <<data, linked>>

-----------------------------------------------------------------------------
(* Schemas, prompts, tools *)

Kinds == {"schemas", "prompts", "tools"}

ASSUME ItemsAssumption == \A kind \in Kinds :
    /\ Items[kind] \in Seq(Range(Items[kind]))
    /\ \A x \in Range(Items[kind]) : \E word \in x.words : Text(word)

CatalogScreen(kind) == [section |-> kind, search |-> <<>>, selected |-> None]

\* A list, by the places of its items in the catalog.  Only functions users defined are
\* listed as tools.
listedItems(kind) == {i \in DOMAIN Items[kind] : kind # "tools" \/ Items[kind][i].udf}
filteredItems(s)  ==
    {i \in listedItems(s.section) : Includes(Items[s.section][i].words, s.search)}

At(kind, places)  == {Items[kind][i] : i \in places}

\* The chosen item, or the first of the list.
selectedItem(s) ==
    LET found == {x \in At(s.section, filteredItems(s)) : x.id = s.selected}
    IN IF found # {} THEN CHOOSE x \in found : TRUE
       ELSE Items[s.section][Min(filteredItems(s))]

CatalogShows(s) ==
    Pairs("item", {x.id : x \in At(s.section, filteredItems(s))})
    \cup (IF filteredItems(s) = {} THEN {} ELSE {<<"item detail", selectedItem(s).id>>})

SearchItems ==
    screen.section \in Kinds /\ \E q \in Typed : Sets([screen EXCEPT !.search = q])

SelectItem ==
    /\ screen.section \in Kinds
    /\ \E x \in At(screen.section, filteredItems(screen)) :
          Shows([screen EXCEPT !.selected = x.id], {<<"item detail", x.id>>})

=============================================================================
