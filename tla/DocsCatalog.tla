---------------------------- MODULE DocsCatalog ----------------------------
(***************************************************************************)
(* What the documentation site makes of catalog.json and runs.json         *)
(* (lib/transformers.ts, lib/health.ts), and what the generator had put    *)
(* there.  A text is the set of the words in it, a word the sequence of its *)
(* parts: a search finds a text when what was typed begins a word, so that *)
(* <<"x">> finds <<"x", "1">> and <<>> finds everything.                   *)
(***************************************************************************)
EXTENDS Integers, FiniteSets, FiniteSetsExt, SequencesExt

CONSTANTS
    Histories,    \* what the docs may be generated from: [log, window, findings], the lines
                  \* in the logs, those a catalog has room for, the validation's complaints
    Executions,   \* what runs.json may record: [id, wf, status, duration, actions], where an
                  \* action is [name, status, start, end, dur], None for a time not recorded
    Placements,   \* the actions of the workflow configs, in catalog order
    Workflows,    \* the workflows: [id, status, words, readme]
    Items,        \* for "schemas", "prompts" and "tools" the words of each item
    Nodes,        \* the stored outputs: [wf, node, files, preview]
    All, None

VARIABLES
    data,         \* what transformAll returned
    screen,       \* the state of the mounted screen
    promised,     \* what the control used last says it shows: pairs <<kind, what>>
    linked,       \* the event the page's address names
    kept          \* the sections of a record card that outlive it: [key, open]

Undated == -1

Text(w) == w # None /\ w \in Seq(Range(w))
Word(w) == Text(w) /\ w # <<>>

\* Lines are told apart by their numbers.
ASSUME LogAssumption == \A h \in Histories :
    /\ IsFiniteSet(h.log) /\ h.window \subseteq h.log
    /\ \A n \in h.findings : Text(n.target)
    /\ \A l, m \in h.log : l.seq = m.seq => l = m
    /\ \A l \in h.log : /\ l.seq \in Nat /\ l.time \in Nat \cup {Undated} /\ Text(l.code)
                        /\ \A w \in {l.named, l.acting, l.wf, l.log, l.run} : w = None \/ Word(w)

ASSUME RunAssumption == None \notin Int /\ \A x \in Executions :
    /\ Text(x.id) /\ Text(x.wf) /\ x.duration \in Nat /\ IsFiniteSet(x.actions)
    /\ \A a \in x.actions : /\ Text(a.name) /\ a.dur \in Nat
                            /\ a.start \in Nat \cup {None} /\ a.end \in Nat \cup {None}

\* Whatever is listed has a name to be found by.
ASSUME ConfigAssumption ==
    /\ Placements \in Seq(Range(Placements))
    /\ \A p \in Range(Placements) : Word(p.name) /\ p.sec \in Nat
    /\ \A w \in Workflows : w.id # None /\ \E word \in w.words : Text(word)
    /\ \A n \in Nodes : n.wf # None /\ Text(n.node) /\ n.preview \in Seq(Range(n.preview))

LEVELS  == <<"error", "warn", "info", "debug">>

Includes(text, q) == \E word \in text : IsPrefix(q, word)
WordsOf(S)        == S \ {None}
baseName(name)    == <<name[1]>>
Orelse(a, b)      == IF a # None THEN a ELSE b

-----------------------------------------------------------------------------
(* Events *)

\* Anything that is no level counts as info.
normalizeLevel(raw) ==
    CASE raw = "warning"      -> "warn"
      [] raw \in Range(LEVELS) -> raw
      [] OTHER                -> "info"

\* A line of a workflow's own log belongs to that workflow even if it does not say so.
transformLogEvents(lines) ==
    {[id |-> l.seq, level |-> normalizeLevel(l.level), diagnostic |-> l.diagnostic,
      code |-> l.code, says |-> l.says, named |-> l.named,
      actionName |-> Orelse(l.named, l.acting), workflow |-> Orelse(l.wf, l.log),
      run |-> l.run, time |-> l.time] : l \in lines}

\* The text of a field of the event's data that names an action.
field(e) == IF e.named = None THEN {} ELSE {<<"action_name">> \o e.named}

\* What a search looks in: not the action that only the event's meta names.
searchIndex(e) == e.says \cup {e.code} \cup field(e) \cup WordsOf({e.named, e.workflow, e.run})

-----------------------------------------------------------------------------
(* Runs, and the problems of the health card *)

normalizeRunStatus(raw) ==
    CASE raw \in {"SUCCESS", "COMPLETED"} -> "SUCCESS"
      [] raw = "FAILED"  -> "FAILED"
      [] raw = "RUNNING" -> "running"
      [] OTHER           -> "PAUSED"

transformRuns(executions) ==
    {[id |-> x.id, wf |-> x.wf, status |-> normalizeRunStatus(x.status),
      duration |-> x.duration, actions |-> x.actions] : x \in executions}

\* The actions of a run that are recorded with a status.
Having(x, s) == {a.name : a \in {b \in x.actions : b.status = s}}

\* CatalogGenerator.generate: warnings and errors the log reports, and what failed.
runtimeEntries(lines, executions) ==
    LET logged == {l \in lines : ~l.diagnostic /\ normalizeLevel(l.level) \in {"error", "warn"}}
    IN {[target |-> Orelse(l.acting, l.code), level |-> normalizeLevel(l.level),
         from |-> <<"log", l.seq>>] : l \in logged}
       \cup {[target |-> x.wf, level |-> "error", from |-> <<"run", x.id>>] :
                x \in {y \in executions : y.status = "FAILED"}}
       \cup UNION {{[target |-> a, level |-> "error", from |-> <<"run", x.id>>] :
                a \in Having(x, "failed")} : x \in executions}

groupValidationEntries(entries) ==
    {[target |-> t, count |-> Cardinality({n \in entries : n.target = t})] :
        t \in {n.target : n \in entries}}

\* What the log reported can be opened in Logs, a finding of the validation cannot.
deriveHealth(findings, runtime) ==
    LET Group(g, logged) == [target |-> g.target, count |-> g.count, inEventStream |-> logged]
        fromValidation(g) == Group(g, FALSE)
        fromLog(g)        == Group(g, TRUE)
        Of(level) == {n \in runtime : n.level = level}
    IN [errorGroups   |-> {fromValidation(g) : g \in groupValidationEntries(findings)}
                          \cup {fromLog(g) : g \in groupValidationEntries(Of("error"))},
        warningGroups |-> {fromLog(g) : g \in groupValidationEntries(Of("warn"))}]

errorsOf(health) == SumSet({g.count : g \in health.errorGroups})

-----------------------------------------------------------------------------
(* The rest of the catalog *)

statusFromManifest(raw) ==
    CASE raw \in {"completed", "success"} -> "completed"
      [] raw \in {"failed", "running"}    -> raw
      [] OTHER                            -> "paused"

transformWorkflows == {[id |-> w.id, words |-> w.words,
                        manifestStatus |-> statusFromManifest(w.status)] : w \in Workflows}

\* The actions by the key "workflow/action".
transformActions == [key \in {<<p.wf, p.name>> : p \in Range(Placements)} |->
    CHOOSE p \in Range(Placements) : <<p.wf, p.name>> = key]

transformAll(catalog, executions) ==
    [events |-> transformLogEvents(catalog.window),
     runs   |-> transformRuns(executions),
     health |-> deriveHealth(catalog.findings, catalog.runtime)]

-----------------------------------------------------------------------------
(* What a control does to the screen it is on, and what it says it shows *)

Shows(s, what) == screen' = s /\ promised' = what /\ UNCHANGED <<data, linked, kept>>
Sets(s)        == Shows(s, {})

=============================================================================
