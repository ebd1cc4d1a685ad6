------------------------------- MODULE DocsLogs -------------------------------
(***************************************************************************)
(* The Logs screen of the documentation site (screens/logs-screen.tsx): one *)
(* list of events under six filters, a histogram that selects a range of it, *)
(* the trace of a run, the keyboard, and the button that clears the filters. *)
(* Time is counted in units of one Buckets-th, so that a bucket's bounds are *)
(* whole numbers.                                                           *)
(***************************************************************************)
EXTENDS DocsCatalog

CONSTANTS
    Buckets,      \* HISTOGRAM_BUCKETS
    Typed         \* what may be typed into a search field

ASSUME BucketsAssumption == Buckets \in Nat \ {0}

Rows(S) == {<<"row", e>> : e \in S}

Dated(e) == e.time # Undated

-----------------------------------------------------------------------------
(* What is listed *)

Hidden(s, e) == e.diagnostic /\ ~s.diagnostics

unranged(s) == {e \in data.events : ~Hidden(s, e) /\ s.workflow \in {All, e.workflow}}

Within(e, range) == Dated(e) /\ range[1] <= e.time * Buckets /\ e.time * Buckets < range[2]

scoped(s)   == {e \in unranged(s) : s.range = None \/ Within(e, s.range)}
searched(s) == {e \in scoped(s) : Includes(searchIndex(e), s.search)}
rows(s)     == {e \in searched(s) : s.level \in {All, e.level}}

Newer(e, f)  == e.time > f.time \/ (e.time = f.time /\ e.id > f.id)
Newest(S)    == CHOOSE e \in S : \A f \in S \ {e} : Newer(e, f)
Oldest(S)    == CHOOSE e \in S : \A f \in S \ {e} : Newer(f, e)
problems(s)  == {e \in rows(s) : e.level \in {"error", "warn"}}
workflows    == WordsOf({e.workflow : e \in data.events})
UnderCursor(s, S) == {e \in S : e.id = s.cursor}

\* The trace of a run is scoped by the diagnostics toggle alone; a row without a date has
\* no place on its axis.
traceEvents(s) == {e \in data.events : ~Hidden(s, e)}
spans(s)       == {e \in traceEvents(s) : s.trace # None /\ e.run = s.trace /\ Dated(e)}

LogsShows(s) ==
    (IF s.view = "stream" THEN Rows(rows(s)) ELSE {<<"group", e.code>> : e \in rows(s)})
    \cup {<<"span", e>> : e \in spans(s)}

-----------------------------------------------------------------------------
(* The histogram, plotted before the range is applied *)

Times(s) == {e.time : e \in {f \in unranged(s) : Dated(f)}}

\* MUTANT: the last bucket ends where the others would.
bucketShort(s, i) ==
    LET min == Min(Times(s))  max == Max(Times(s))  span == Max({1, max - min})
    IN [range |-> <<min * Buckets + i * span, min * Buckets + (i + 1) * span>>,
        counts |-> {e \in unranged(s) : Dated(e) /\
                        Min({Buckets - 1, ((e.time - min) * Buckets) \div span}) = i}]

\* The rows a bar counts, and the range it selects: half-open, the last one past the
\* newest row, which is clamped into it.
bucket(s, i) ==
    LET min == Min(Times(s))  max == Max(Times(s))  span == Max({1, max - min})
    IN [range |-> <<min * Buckets + i * span,
                    IF i = Buckets - 1 THEN (max + 1) * Buckets
                                       ELSE min * Buckets + (i + 1) * span>>,
        counts |-> {e \in unranged(s) : Dated(e) /\
                        Min({Buckets - 1, ((e.time - min) * Buckets) \div span}) = i}]

Bars(s) == IF Times(s) = {} THEN {} ELSE {bucket(s, i) : i \in 0..Buckets - 1}

\* With shift a bar widens the range there is.
Selects(range, bar, shift) ==
    IF shift /\ range # None
    THEN <<Min({range[1], bar.range[1]}), Max({range[2], bar.range[2]})>> ELSE bar.range

-----------------------------------------------------------------------------
(* The screen *)

\* Mounted from a link to an event, that event is expanded and under the cursor, and a
\* diagnostic one puts the toggle on.
LogsScreen(intent) ==
    LET target == {e \in data.events : e.id = linked}
    IN [section |-> "logs", view |-> "stream", level |-> intent.level, search |-> intent.q,
        workflow |-> All, range |-> None, trace |-> None,
        diagnostics |-> \E e \in target : e.diagnostic,
        expanded |-> IF target = {} THEN None ELSE linked,
        cursor   |-> IF target = {} THEN None ELSE linked]

NoIntent == [level |-> All, q |-> <<>>]

\* A link from another screen mounts Logs with what it looks for.
openLogs(intent, what) == Shows(LogsScreen(intent), what)
LookFor(q)             == [NoIntent EXCEPT !.q = q]

\* MUTANT: a window of nothing but diagnostics stays empty.
clearButDiagnostics(s) ==
    [s EXCEPT !.level = All, !.search = <<>>, !.workflow = All, !.range = None]

clearFilters(s) ==
    [s EXCEPT !.level = All, !.search = <<>>, !.workflow = All, !.range = None,
              !.diagnostics = TRUE]

filtersActive(s) ==
    s.level # All \/ s.search # <<>> \/ s.workflow # All \/ s.range # None \/ ~s.diagnostics

\* Down to the next older row, or up; from an end of the list, or from no row of it, the
\* cursor comes in at the other end.
jump(s, list, dir) ==
    LET Beyond(e, f) == IF dir = 1 THEN Newer(e, f) ELSE Newer(f, e)
        on   == {f \in list : \E e \in UnderCursor(s, list) : Beyond(e, f)}
        from == IF on = {} THEN list ELSE on
        next == IF dir = 1 THEN Newest(from) ELSE Oldest(from)
    IN IF list = {} THEN s ELSE [s EXCEPT !.cursor = next.id]

\* What the row under the cursor, or the newest one, traces.
tracesRun(s) ==
    LET under  == UnderCursor(s, rows(s))
        target == IF under = {} THEN Newest(rows(s)) ELSE CHOOSE e \in under : TRUE
    IN IF rows(s) = {} \/ target.run = None THEN s ELSE [s EXCEPT !.trace = target.run]

backsOut(s) ==
    CASE s.trace # None    -> [s EXCEPT !.trace = None]
      [] s.trace = None /\ s.expanded # None -> [s EXCEPT !.expanded = None]
      [] OTHER             -> [s EXCEPT !.range = None]

toggleExpanded(s, id) == [s EXCEPT !.expanded = IF @ = id THEN None ELSE id]
toggleLevel(s, l)     == [s EXCEPT !.level = IF @ = l THEN All ELSE l]

-----------------------------------------------------------------------------
(* Its controls *)

OnLogs == screen.section = "logs" /\ data.events # {}

SearchLogs == OnLogs /\ \E q \in Typed : Sets([screen EXCEPT !.search = q])

ScopeLogs ==
    /\ OnLogs
    /\ \/ \E w \in workflows \cup {All} : Sets([screen EXCEPT !.workflow = w])
       \/ Sets([screen EXCEPT !.diagnostics = ~@])

\* The chip counts the events of its level that the other filters leave.
LevelChip ==
    /\ OnLogs /\ screen.view = "stream"
    /\ \E l \in Range(LEVELS) \cup {All} :
          LET s == IF l = All THEN [screen EXCEPT !.level = All] ELSE toggleLevel(screen, l)
          IN Shows(s, Rows({e \in searched(screen) : s.level \in {All, e.level}}))

\* The bar shows the rows it counts, as far as level and search let them through.
SelectBar ==
    /\ OnLogs /\ screen.view = "stream"
    /\ \E bar \in Bars(screen), shift \in BOOLEAN :
          Shows([screen EXCEPT !.range = Selects(screen.range, bar, shift)],
                Rows(bar.counts \cap rows([screen EXCEPT !.range = None])))

ClearRange == OnLogs /\ screen.range # None /\ Sets([screen EXCEPT !.range = None])

\* A grouped row promises its events in the stream.
OpenGroup ==
    /\ OnLogs /\ screen.view = "grouped"
    /\ \E code \in {e.code : e \in rows(screen)} :
          Shows([screen EXCEPT !.view = "stream", !.search = code],
                Rows({e \in rows(screen) : e.code = code}))

\* A row opens; an open one offers its fields as filters, its run and a link to itself.
EventRow ==
    /\ OnLogs /\ screen.view = "stream"
    /\ \E e \in rows(screen) :
          \/ Sets([toggleExpanded(screen, e.id) EXCEPT !.cursor = e.id])
          \/ /\ screen.expanded = e.id
             /\ \E q \in field(e) :
                   Shows([screen EXCEPT !.search = q],
                         Rows({f \in rows(screen) : f.named = e.named}))
          \/ /\ screen.expanded = e.id /\ e.run # None
             /\ Shows([screen EXCEPT !.trace = e.run],
                      IF Dated(e) THEN {<<"span", e>>} ELSE {})

CloseTrace == OnLogs /\ screen.trace # None /\ Sets([screen EXCEPT !.trace = None])

ClearLogs ==
    /\ OnLogs /\ rows(screen) = {} /\ filtersActive(screen)
    /\ Sets(clearFilters(screen))

\* j k n N g e w t Enter Escape, outside a field.
Keyboard ==
    /\ OnLogs
    /\ \/ \E dir \in {1, -1} : \/ Sets(jump(screen, rows(screen), dir))
                               \/ Sets(jump(screen, problems(screen), dir))
       \/ Sets([screen EXCEPT !.view = IF @ = "stream" THEN "grouped" ELSE "stream"])
       \/ \E l \in {"error", "warn"} : Sets(toggleLevel(screen, l))
       \/ Sets(tracesRun(screen))
       \/ screen.cursor # None /\ Sets(toggleExpanded(screen, screen.cursor))
       \/ Sets(backsOut(screen))

LogsNext ==
    \/ SearchLogs \/ ScopeLogs \/ LevelChip \/ SelectBar \/ ClearRange \/ OpenGroup
    \/ EventRow \/ CloseTrace \/ ClearLogs \/ Keyboard

LogsType(s) ==
    /\ s.view \in {"stream", "grouped"} /\ s.level \in Range(LEVELS) \cup {All}
    /\ s.workflow \in workflows \cup {All} /\ s.diagnostics \in BOOLEAN
    /\ \A id \in {s.expanded, s.cursor} : id = None \/ \E e \in data.events : e.id = id
    /\ s.range = None \/ s.range[1] < s.range[2]

=============================================================================
