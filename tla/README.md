# agent-actions in TLA+

`agac` runs a workflow of *actions*: each reads the records its dependencies stored,
answers them (with an LLM, one record at a time or as a provider batch, or with a tool)
and stores the answers. A run may be killed, interrupted or paused for a batch at any
point; the next `agac run` takes up what the disk holds. An editor extension and a
documentation site show the result, from files that change under them. This directory
models the parts that decide what is run, kept, sent again, thrown away and reported, and
what readers outside a run make of it; it checks them with TLC on small instances and
proves most of the invariants with TLAPS for all of them.

Paths below are relative to `src/agent_actions/`, except those that begin with
`src/`; *ext* is `src/vscode-extension/src`, *docs* is
`src/agent_actions/tooling/docs/frontend`.

## 1. Inventory

| part | state it keeps | operations | hard behaviour | what makes it correct |
|---|---|---|---|---|
| **Engine** `workflow/{coordinator,executor,execution_events}.py`, `parallel/action_executor.py`, `managers/state.py` | the status file; in memory the level and the actions in flight | startup resets, `--rerun`, `--fresh`, verification of completed actions, an action's turn, failure, skip, halt | several threads, one event loop; two stores written one after the other; crash, interrupt, pause for a batch | nothing completes on stale input; an action starts on completed input only; halts stand; answers are kept; a run settles what it can; repeated runs finish |
| **Batch manager** `managers/batch.py` | none of its own | poll, collect, lost dispositions | poll races the provider; a pass may collect part | a completed action owes no batch |
| **Batch services** `llm/batch/**` | registry entries, recovery state, context maps | submit, poll, collect, retry and repair rounds, mark collected | crash between any two writes; rounds that replace one another; batches given up | no record is out twice, no answer is lost, rounds are bounded, the action completes and leaves nothing deferred |
| **Run files** `managers/state.py`, `managers/manifest.py` | `.agent_status.json`, `.manifest.json` | written by the run, read by everybody | two files written one after the other; a killed run writes nothing | work is claimed only while somebody does it |
| **Editor: model of the runs** *ext* `model/{workflowModel,status,manifestReader}.ts` | what was last read, refreshes under way, timer, polling | watch, debounce, read, publish, dispose | a write during a refresh; two refreshes; dispose during one | no change lost, none shown out of order, a killed run is noticed |
| **Editor: language server** *ext* `extension.ts` | a promise chain of restarts and stops, the client held | start, stop, restart, give up after ten seconds | starts, restarts and shutdown overlap | no server beside the one held; the one held follows the interpreter |
| **Editor: preview** *ext* `views/queryResultsPanel.ts`, `commands/index.ts`, `webview/main.tsx` | the page, the panel, its document, messages both ways | show, next, previous, error, reload | answers, documents and reports cross | the document shows what the buttons page from |
| **Editor: order, tree, status bar** *ext* `model/yamlParser.ts`, `providers/{treeView,statusBar}Provider.ts` | none | versions, dependencies, topological order, levels, rollup | cycles, versions, unknown names | listed once and in order, on the level the engine uses; a failure is not hidden |
| **Editor: diagram, links, badges** *ext* `views/dagWebview.ts`, `providers/{codeLens,decoration}Provider.ts` | the workflow chosen | choose, draw, redraw | the list changes between choosing and drawing | the panel shows what its title says |
| **Documentation site** *docs* | the catalog and the runs loaded, the state of each screen, the address | load, filter, group, page, link, clear | two files of different instants; filters left on | what a control promises is shown; an empty list says why |
| **Record carrying** `processing/disposition_gate.py`, `workflow/pipeline.py`, checkpoints in `strategies/online_llm.py` | dispositions, checkpoint rows, target rows | filter, carry forward, write, clear checkpoints | answer saved but file not written; rows of two rounds | every input answered once and present in the output |
| **Online processing** `processing/unified.py`, `evaluation/`, `recovery/`, `expectations/` | attempts per record | invoke, retry, reprompt, repair | limits, exhaustion policies | attempts bounded; exhaustion is reported as configured |
| **Record lifecycle** `record/` | `_state` and its history | transition | a long legal sequence reaching an illegal state | only legal transitions, history agrees with the state |
| **Levels** `parallel/action_executor.py` | none | levels, upstream sets | cycles, dependencies outside the run | every dependency in an earlier level |
| **Storage** `storage/` | SQLite rows | set, clear, save, delete | each call alone is atomic; any may fail | (assumed) |
| **`agac retry`** `cli/retry*.py`, `processing/repair_lineage.py` | notes of repaired records | put records and their readers back in play | meets everything above | no reader keeps an answer to a replaced record |
| **Everything else**: guards, prompt, input, output, config, validation, providers, logging, language server, generators and scanners | none that outlives a run | parse, render, validate, report | | |

How they interact: the coordinator calls the executor for each action of a level (a
coroutine per action; the work goes to a worker thread). The executor writes the status
file through the status manager, and dispositions and batch state through the storage
backend; the pipeline on the worker thread writes answers, rows and batch submissions to
the same backend. The batch manager is called by the executor when an action's status is
`batch_submitted`, and calls the batch services, which talk to the provider. Nothing but
disk survives a process. The editor extension reads the run files through watchers, and
the stored records through a command of `agac`; the documentation site reads what the
generator and the run tracker wrote. Neither writes anything a run reads.

`PROJECT.json` lists every component with its sources, and every hazard with its line.

## 2. Plan

| module | what it models | status |
|---|---|---|
| `WorkflowEngine`, `MCWorkflowEngine`, `WorkflowEngineProofs` | the engine over stores that may refuse | done |
| `RunFiles` | what readers of the status file may count on: implemented by the engine and by the run the editor watches | done |
| `BatchRegistry`, `MCBatchRegistry`; `BatchRegistryProofs` ← `BatchSettledProofs` | several files per action, submit / poll / collect / mark, retry and repair rounds, crash points | done |
| `Mirror`, `WorkflowModel`, `MCWorkflowModel`, `WorkflowModelProofs` | the editor's model of the runs; `Mirror` is what a view of changing sources promises | done |
| `LspLifecycle`, `Preview`, `ExecutionOrder`, `WorkflowRows`, `WorkflowViews`, `MCEditor`; `ExecutionOrderProofs` ← `EditorProofs` | the other parts of the editor extension | done |
| `DocsCatalog` ← `DocsLogs` ← `DocsLists` ← `DocsRecords` ← `DocsSite` ← `MCDocs`, `DocsSiteProofs` | the documentation site, each module extending the one before | done |
| `ListTheorems` | facts about finite sets and lists that `ExecutionOrderProofs` and `DocsSiteProofs` share | done |
| `RecordLifecycle` | legal `_state` transitions and the history | later |
| `DispositionGate` | per-record carry-forward, checkpoints, the `mixed` rows of the engine | later |
| evaluation loop; `agac retry` over the gate; engine and batch registry composed | | later |

No module
declares a RECURSIVE operator: the engine's levels and readers are sets closed under a
relation, the editor's search for levels goes a call or a return a step, and the first of a
sequence with a property is the least of its places.

## 3. The models

### `WorkflowEngine`

| variable | in the code |
|---|---|
| `status` | the status file (`managers/state.py`) |
| `node` | the node-level disposition row, by its marker: a failure (`failed`), a halt (`halted`), a failure of every input (`every_input`), a skip |
| `rows` | the action's target data: none, all answering its present input (`fresh`), some row answering a replaced one (`stale`), or `mixed` |
| `answers` | its success dispositions with their checkpoints, and whether they answer the present input |
| `fails` | whether some record is failed or exhausted |
| `deferred` | of the `deferred` marks a submission stamps on the records it sends: `none`, or `sent`; once the collect pass has stored rows whose dispositions the store refused, what those rows say became of the records (`ok`, `some`, `failed`) |
| `batch` | an uncollected registry entry, and whether it was sent the present input |
| `edited` | the actions whose `record_limit` is not the one stamped on their status |
| `phase`, `level`, `todo`, `pc` | where the process is: clearing at startup, wiping, resetting, verifying a level, running it, or waiting for its threads |
| `forgetting`, `reopening` | the rest of `_forget_what_it_did` and the names `reopen` will write |
| `keeps`, `rerun`, `raised` | locals of `_reset_retryable_actions`, the command line, an error on its way out |
| `used` | how often each kind of mishap happened; a bound, not in the code |

The provenance in `rows`, `answers` and `batch` (`stale`, `current`) is not on disk: it
is what the properties are about. Storing new output marks as stale whatever its readers
hold.

A handler between two awaits of the event loop is one action. Where it writes a status
and then a disposition, its disjuncts also let the process die, or the store refuse,
between the two. Long sequences (a startup clear, a wipe, a reset) are one action per
workflow action, so that a crash falls between any two of them.

| actions | code |
|---|---|
| `StartPlain`, `StartRerun`, `StartPlainUnread`, `ClearReset`, `StartupDone` | `_prepare_state`, `_reset_retryable_actions`, `ActionExecutor.rerun` |
| `StartFresh`, `Wipe`, `WipeDone` | `_clear_for_fresh_run` |
| `Forget`, `Reopen` | `reopen_with_readers`, `_forget_what_it_did`, `ActionStateManager.reopen` |
| `VerifyLimits`, `VerifyRefuses`, `VerifyStands`, `VerifySettles`, `BeginLevel` | `verify_completion_status` and what it calls; `execute_level_async` |
| `CheckBatch`, `RefuseHalted`, `DependencySkip`, `Begin`, `StoreGivesOut` | `execute_action_sync` / `execute_action_async` up to the start of work |
| `Answer`, `Write`, `Submit`, `CollectRows`, `MarkCollected` | the pipeline and the batch services, on a worker thread |
| `Complete`, `Submitted`, `RunFails`, `NoInput`, `Collected`, `StillOut`, `BatchFails`, `CheckHalts`, `CheckRaises` | the executor's handlers of a result or an error |
| `NextLevel`, `RunEnds`, `RunRaises`, `Interrupt`, `Exit`, `Crash` | `async_run`, `_run_workflow_with_context`, `execution_events.py` |
| `EditLimit`, `LoseOutput` | the operator, between runs |

The store may refuse the dispositions of a collect pass and take its rows (`Unrecorded`).
Records that were marked as sent then keep the mark, and the action completes with no failure
on record. The next run that verifies it finds, with every batch collected, marks that the
stored rows answer (`Settles`, `lost_dispositions`). It writes the dispositions, then the
status: an action that stood `completed` and held failures is `completed_with_failures`
(`VerifySettles`, `_settle_lost_dispositions`). A store that refuses again leaves all as it
was (`VerifyStands`); one that refuses to clear the marks, or a death, between the two writes
leaves the failures on record under `completed`. A submission whose marks are refused holds
none to find (`Submit`).

What is abstracted:

- One file per action, and its records as a whole: no file limits or truncation. The
  node-level PASSTHROUGH row is folded into the skip.
- `agac retry`, staged inputs that changed (`_reopen_keeping_answers`,
  `_forget_records_no_longer_staged`), the markers of answers kept under an edited
  configuration, events, manifests and the run tracker are left out.
- The marks of a batch as a whole: all its records keep theirs or none does, and a row in no
  settled state, which `lost_dispositions` leaves alone, does not occur. The marks of a
  submission that dies before it stamps them are those of one that is refused.
- `agac retry` settles lost dispositions too (`cli/retry.py:594`), with the same two writes;
  it is left out with the rest of that command.
- Writing the status file succeeds. A storage call may fail.
- A store error raised out of `_forget_what_it_did` is the crash of that step.
- The WHERE skip (`_handle_action_skip`) cannot be configured past validation.
- `--rerun` names one action; a versioned one expands to several.
- An action stopped partway keeps its answers, as if the configuration its run recorded
  at its start were always there.
- `Deps` covers what an action names in its context scope: preflight refuses any name
  that is not upstream through dependencies (`validation/dep_observe_validator.py:124`).
- The order of a level's actions, and of a reset's readers, is left open.
- The node-level row that `_check_prior_output` finds on a completed action is left only
  by stores of older versions or by `agac retry`. `VerifyRefuses` keeps that branch, and
  `NeverCompletedBlocked` proves it is not reached otherwise.

### `RunFiles`

The contract of `.agent_status.json` for anything outside the run: only the process of the
run writes it (`Begin`, `Write`); a status moves only along `Moves`, `completed` to
`completed_with_failures` by failures recorded late among them; a process that ends by
itself writes, last, that nothing is in flight (`Leave`); one that is killed may not have
(`Killed`). The engine implements it (`KeepsTheFiles` of `WorkflowEngine`, with `file` the
status file and `live` the process), and so does the run inside `WorkflowModel`. This is
how the two are composed: what the editor is checked against is what the engine does.

### `BatchRegistry`

| variable | in the code |
|---|---|
| `job` | the files of the action and their records, `retry.max_attempts`, the repair rounds |
| `batches` | what the provider holds: the records of each batch, its status, which answers pass their expectations (`good`) and which do not (`poor`) |
| `registry` | the registry, keyed by file, kind and attempt like `<file>_retry_1`: batch, status as last polled, collected or not |
| `recovery` | the recovery state of a file: retries sent, records missing, answers accumulated, repair round, records held, the pool of graduated answers |
| `mapped` | the context map of a file |
| `outcome` | of a record: its disposition, or the batch whose answer is stored |
| `action`, `todo`, `pass` | the action's status, what the process has yet to submit or read, what the collect pass has met |
| `flaky`, `deaths`, `dead`, `outages` | the provider is failing calls; mishaps used up, a bound |
| `abandoned` | files one of whose rounds an error kept from being read; for the properties only |

| actions | code |
|---|---|
| `BeginRun` | the next run takes the action up (`reset_retryable`) |
| `submit_batch_job`: `SkipFile`, `SendFile`, `RefuseFile`; `Submitted` | `services/submission.py`; `check_batch_submission` |
| `Poll`, `EndPass` | `handle_batch_agent` with `are_all_jobs_completed` and `process_all_batch_results` |
| `ReadEntry`: `process_original_batch`, `handle_retry_recovery`, `handle_repair_recovery`, `DropEntry`, `FailUnreadable`, `Abandons`, `Notes` | one turn of the loop of `process_all_batch_results` |
| `Registers`, `Finalizes`, `Repairs` | `register_recovery_batch` and the state saved after it; `finalize_batch_output` and `cleanup_recovery`; `check_and_submit_repair` |
| `Completes`, `Fails`, `OutageBegins`, `OutageEnds` | the provider |

A handler makes its writes in the code's order: `\E writes \in 0..n` says how many were
made, and `Through` that the process died there unless all were. So a death falls between
any two writes of a submission, a registration or a finalisation, and the next `BeginRun`
meets what is on disk. An outage is a state (`flaky`) in which any call may fail: refused
submissions, a round that does not go out, a batch that cannot be asked about, an error in
the middle of an entry.

`Jobs` has at least one attempt per file, as `retry.max_attempts` does
(`config/schema.py:367`).

Abstracted: an answer with an error counts as none; `on_exhausted` is `return_last`, so no
halts; a repair round sends all it should or nothing; a status the provider reported as
completed stays so; a retry that can never be rebuilt, guards, forced and local batches and
`agac retry` are left out; a store does not refuse (`WorkflowEngine` has the one that refuses
what a collect pass made of the records); an action that failed and a process that died are
both `stopped`. Entries are read in any order (the code: in that of the registry).

`Finalizes` differs from the code in two places. The dispositions and the rows of a file are
one write, where the code makes one after the other. And the
`update_status(batch_id, COMPLETED)` before the stamp (`services/processing_recovery.py:379`)
is left out: it changes the entry only of a round, a retry that was given up or one registered
in the same pass, which the cleanup removes two writes later. So it shows only when a death
falls between them.

Known limits of the code, seen with two mishaps (`MaxMishaps = 2`), outside the runs:

- A death between `mark_collected` and the cleanup, and a repair the provider gives up: the
  dead entry is never removed, `overall_status` stays `partial_failed` and the action waits
  for ever. `Finishes` therefore has one mishap.
- The same death, the file sent again, its new batch cancelled: the old retry round still
  hides the file's entry, and the check of what a pass hands back looks only at batches
  that completed. The action completes with the records deferred.
  `SettledUnlessAbandoned` leaves out a death together with a batch given up.
- Read in the code, and outside the model, which leaves that status out: a death between
  `mark_collected` and the cleanup, the file having been finalized by a retry the provider
  gave up, leaves the retry `completed` in the registry. The next pass asks about it, and
  marks the records of the file failed over the answers it has stored
  (`services/processing.py:423-441`).
- A death after a repair round replaces a retry in the registry and before its state is
  saved loses the retry's answers; a repair given up discards the pool. The code says so
  (`_is_dead_retry`, "Do NOT load recovery state here"); `NoAnswerLost` leaves both out.

### `Mirror` and `WorkflowModel`

`Mirror` says what a view of changing sources promises: it may lag and skip, it never
shows what has not happened, never steps back, and catches up. `WorkflowModel` implements
it: a write of a run is a `Change`, a refresh that publishes a `Look`, and everything else a
stutter (`MirrorsTheFiles`); and it catches up (`CatchesUp`). `mishaps` counts kills, stops,
edits and rejections together; it is a bound.

| actions | code |
|---|---|
| `StartRun`, `PutBack`, `VerifyAction`, `BeginAction`, `EndAction`, `Finalize`, `SweepFile`, `SweepManifest`, `EndRun`, `Kill`, `EditConfig` | the run and its user, as far as its files show: `managers/{state,manifest}.py`, `workflow/{executor,execution_events}.py` |
| `scheduleRefresh`, `TimerFires`, `PollFires`, `RefreshCommand`, `configurePolling`, `dispose` | the watchers' callbacks, the two timers, the commands of *ext* `model/workflowModel.ts` |
| `FindFiles`, `ParseConfig`, `ReadFile`, `ReadFails`, `Publish`, `Release`, `Fire`, `Rejects` | `refresh` and `loadWorkflow`, one action from one `await` to the next |

`buildWorkflow`, `reconcileWithLiveness` and `runLiveness` are the code's decision what a
manifest, a status file and the existence of the pid say together. `written` counts the
writes of a file and `seen` those the model's content comes from; they exist for the
properties. Pids are not reused; a run on another host is in `Foreign`.

### The other parts of the editor extension

| module | variables | actions | code (*ext*) |
|---|---|---|---|
| `LspLifecycle` | the chain of cycles, the client held, the server of each client, the interpreter | `InterpreterChanges`, `DebounceFires`, `RestartCommand`, `deactivate`; a cycle: `Skip`, `BeginCycle`, `Stopped`, `StopFails`, `ResolveServerOptions`, `StartClient`, `Started`, `StartFails`; `ServerUp`, `ServerCloses` | `extension.ts` |
| `Preview` | stored records, fetches, panel, its document, messages each way | `previewData`, `navigatePreviewPage`, `PageCommand`; `Fetched`, `FetchFails`, `TracesAttached`; `DeliverToView`, `Mount`, `Click`, `IsReady`, `ClosePanel`; `RunWrites` | `commands/index.ts`, `utils/storageReader.ts`, `views/queryResultsPanel.ts`, `webview/main.tsx` |
| `ExecutionOrder` | the actions of a config; the queue, the degrees and the list of `topoSort`; the levels given and the calls under way of `computeLevels` | `Take`, one turn of the loop; `AddRemaining`; `VisitNext`, `VisitDependency`, `Return` | `model/yamlParser.ts`, `model/workflowModel.ts`; levels of the engine from `workflow/parallel/action_executor.py` |
| `WorkflowRows` | the statuses of the actions | any status of any action | `model/status.ts`, `providers/treeViewProvider.ts`, `providers/statusBarProvider.ts` |
| `WorkflowViews` | the list published, the choice on screen, the panel | `Publish`, `Fire`, `show`, `Pick`, `Dismiss`, `ThemeChanges`, `Close` | `views/dagWebview.ts`, `providers/codeLensProvider.ts`, `providers/decorationProvider.ts` |

They share no state, and `MCEditor` checks them side by side: `part` says whose behaviour
this is, the variables of the others stand still. The sum of the parts is explored, not
their product, which would say nothing more. All of them are extended, so that their
properties are checked under the names they are proved by; hence the names `LspInit`,
`PreviewNext`, `ViewsSpec`, `OrderSpec` and the like.

A badge asks `getActionByPath` for the first workflow, in the order of the list, that has an
action whose folder's path begins the file's. Folders lie under the directory of a config
(`rootOf`), which several workflows may share; so a badge is another's where a name begins
another, or two workflows beside each other have an action of one name (`Crowded`), and
`ViewsHonest` speaks of the others. A link asks by name alone, and is another's where two
workflows have that name.

In `ExecutionOrder` a name is the place of the entry that defines it and a version, or 0; so
the order of the file is an order of names, in which sets are listed (`inOrder`). What the
engine makes of the file is stated beside it: `Circular`, some actions each of which waits for
another of them, is where the engine's loop gets stuck, and `compute_execution_levels` says
of a map of levels that it is the engine's: an action's dependencies are all below its own
level and not all below any lower one.

### The documentation site

`DocsCatalog` has the data: the events, runs, workflows, actions and health that
`lib/transformers.ts` and `lib/health.ts` make of `catalog.json` and `runs.json`, and the
runtime warnings the generator put there. `DocsLogs`, `DocsLists` and `DocsRecords` have
the screens, a record each (`screen`) whose fields are the component's state; `DocsSite`
has the loading (`GenerateDocs`, `RecordRun`, `Fetch`, `fetchCatalogData`, `Broken`,
`Retry`) and every control of the screens, with sidebar, command palette, home page and
permalinks. What the tracker records of a run replaces what it recorded of it before. A
control that says what it shows puts that into `promised`, with the numbers the screen
printed next to it; `Reveals` compares it with what the next screen lists. A text is the
set of its words; a search finds a word by its beginning. Of an action placed several times
the list keeps, and searches, the first schema, intent and implementation there is. Lists are
sets, and places in them numbers, except where a screen pages or steps through them.

Left out of what `Reveals` promises, because the code is known not to keep it: events that
are diagnostic or name their action only in their metadata; failed runs without rows;
`SummaryCard`'s choice of an action that is filtered out; a dependency outside the
workflow; the cards of a node with several files; tools that are not UDFs in the palette;
pasted links; a bar that starts where the axis ends. `lib/health.ts:4` promises of every
number what `Reveals` does, without these exceptions: the property is weaker than the comment.

## 4. The runs

| run | instance | checks | distinct states |
|---|---|---|---|
| `chain` | chain, parallel; crash, interrupt, trouble, change | `TypeOK`, `NoStaleCompletion`, `PollsABatch`, `AnswersKept` | 42,426 |
| `join` | join, parallel, fair; the same and a store fault | `StartedUpstream`, `NothingLeftInFlight`, `KeepsTheFiles`, `Converges` | 287,051 |
| `sequential` | fork, sequential; interrupt, unreadable halt, trouble, change, `--rerun` | `StartedUpstream`, `EndsSettled`, `HaltStands`, `NoStaleCompletion` | 177,215 |
| `fresh` | chain, parallel; crash, store fault, trouble, `--fresh` | `CompletedOwesNothing`, `CompletedNotBlocked` | 49,590 |
| `rerun_crash` | chain, parallel; crash, `--rerun` | `PollsABatch`, **violated** | |
| `watch` | one workflow, two runs of three writes, one mishap, a batch left by an earlier run | `TypeOK`, `NoLostChange`, `TruthfulFiles`, `MirrorsTheFiles`, `KeepsTheFiles` | 1,578,666 |
| `live` | the same with one run, fair | `CatchesUp`, `KilledIsShown`, `QuietOnceDisposed` | 93,120 |
| `killed` | the same | `KilledIsShownUnasked`, **violated** | |
| `editor` | the five other parts of the extension, fair | `TypeOK`, `NoStray`, `PanelHonest`, `ButtonsHonest`, `ViewsHonest`, `ListedInOrder`, `LevelsAgree`, `RowHonest`, `FollowsInterpreter` | 475,827 |
| `docs` | two workflows, four log lines, two runs, one of them recorded twice, three stored outputs | `TypeOK`, `Reveals`, `EmptyExplained` | 249,104 |
| `batch` | five jobs of two records, fair; one mishap | `TypeOK`, `NeverOutTwice`, `NoAnswerLost`, `SettledUnlessAbandoned`, `RoundsBounded`, `Finishes` | 324,649 |
| `abandoned` | two files of one record; one outage | `CompletedIsSettled`, **violated** | |

Every property has a mutant: the definition it depends on with a plausible bug (marked
MUTANT beside the original), under which the same run fails. That is the evidence that
each property is not vacuous within the bounds.

### Bounds

*Engine.* Three workflows of three actions: a chain `a, b, c`, a join `a, b -> c`, a fork
`a -> b, c`; in all of them `b` is a batch action. A chain of three is the shortest with a
reader of a reader; a join or a fork is the smallest level with two actions. Each bound
(`Crashes`, `Interrupts`, `Faults` for stores that refuse, `Unreads`, `Troubles` for work
that goes wrong, `Changes`, `Reruns`, `Freshes`) is a budget for the whole behaviour; the
number of runs is not bounded. There is no symmetry, since the actions have different
roles. One mishap of each kind is enough for each hazard in `PROJECT.json` and for their
pairs.

*Batches.* `MCJobs` are one file of two records with two retries, with two repairs, and
with one of each, and two files of one record with a retry or a repair. Two records are
the fewest a batch can answer in part; two rounds the fewest where one replaces another;
two files the fewest where one is read while the other is not. A mishap is a death, a
batch given up or an outage; one is enough for every hazard of one cause, and beyond it
the code has the limits named in section 3.

*Watching.* One workflow of one action: the model's map, timers and tasks are shared, and a
second workflow only adds one more file to read. Two runs are enough to confuse one with
its successor; two slots are enough for a refresh that overtakes another.

*Editor.* Four servers, two changes of interpreter, one restart and two mishaps; three
records in pages of two, three requests; no entries or three, one of them in two versions or
in none, with up to two dependencies each, in the order of the names, and a name defined
elsewhere; three actions in every combination of statuses; three workflows of which any two
share an action or none, two with their configs in one directory, and a folder whose name
begins another's.

*Site.* Two workflows that share a base name, versions of an action, log lines of each
level, dated and undated, diagnostic and not; two writes while the site loads; as many
controls used one after another as the deepest way into a section needs
(`MCMaxClicks`).

Deadlock is not checked where the system really stops: an action that has completed, an
extension that is disposed with its runs over, a visitor who clicks no more.

### What they show

- `NoStaleCompletion`: whatever is killed, edited, lost, or still at the provider, a
  completed action never holds output computed from an input that was replaced.
- `StartedUpstream`: no action runs, stops or completes but on completed input.
- `CompletedOwesNothing`, `PollsABatch`: completed actions have no batch out, and an
  action that waits for one has one to wait for. The first rests on one file per action;
  the run `abandoned` is its counterpart for several.
- `HaltStands`: a deliberate halt is undone only deliberately.
- `AnswersKept`: what was answered and paid for is thrown away only with its action.
- `KeepsTheFiles`: what the engine writes to its status file, failures recorded late
  included, is what the editor's model was checked against.
- `NothingLeftInFlight`, `EndsSettled`: how a run may end. `Converges`: repeated runs
  complete the workflow.
- `NeverOutTwice`, `RoundsBounded`: nothing is paid for twice, but for a death between the
  provider's taking a batch and the registry's naming it. `NoAnswerLost`: of the answers of
  original, retry and repair batches, the newest stands. `SettledUnlessAbandoned`: no
  record is left deferred under a completed action, but for a round an error kept from being
  read, which is what `abandoned` is about. `Finishes`: no pass defers for ever.
- `NoLostChange`, `CatchesUp`, `MirrorsTheFiles`: the views miss no write and show none
  twice. `TruthfulFiles`, `KilledIsShown`: what they show as work is work.
- `NoStray`, `FollowsInterpreter`, `PanelHonest`, `ButtonsHonest`, `ListedInOrder`,
  `LevelsAgree`, `RowHonest`, `ViewsHonest`, `Reveals`, `EmptyExplained`: what is on screen
  is what there is, and a control leads where it says.

Not every property holds under every budget, and the runs are chosen accordingly.
`NoStaleCompletion` fails with `--fresh` and a store that refuses to clear both
dispositions and output (the code warns and goes on), and when a halt cannot be read in
the same history as a crash or a refused clear. `AnswersKept` and `PollsABatch` do not
survive store faults; `PollsABatch` does not survive two changes (a limit edited and put
back around a crashed reset).

### Findings

- `rerun_crash`. `workflow/ARCHITECTURE.md:356` says that a process that dies inside a
  reset leaves "the reason for the reset still readable, so the next run does all of it
  again", and lines 364-365 that `--rerun` resets "the same way". A changed limit or a lost
  output is readable; `--rerun` is not. In `rerun_crash`, `b` is waiting on a batch when
  `--rerun a` starts; the process dies when `b`'s batch state is cleared and before the one status
  write; the next plain `agac run` finds `b` in `batch_submitted` and polls an empty
  registry, which fails it.
- `killed`. The extension learns that a process is gone only while it refreshes; it
  refreshes when a file changes or a polling interval is set, which by default it is not.
  A killed run changes no file, so it stays on screen as running, where
  `src/docs.agent-actions/docs/reference/execution/artifacts.md:78-80` promises "rather than
  showing them as running forever". `KilledIsShown` is the same with polling, and holds.
- `abandoned`. An error while a recovery round is read (a provider call that fails) goes to
  `_fail_abandoned_records` under the round's own key, `<file>_retry_1`, which has no
  context map (`llm/batch/services/processing.py:492`). Nothing is marked, the `False` it
  returns is not looked at, and the file is not among the unread. If another file of the
  action was written or collected before, the poll sees every entry completed and nothing
  unread, and the action completes; the round is never read again and its records stay
  deferred, which `CollectPass` says must not happen. `_fail_unreadable_batch`, twenty
  lines further up the same path, passes `entry.parent_file_name or file_name`.

### Fairness

| specification | assumes | because |
|---|---|---|
| `WorkflowEngine` | `WF(Process)`, `WF(StartPlain)`, `SF(Collect)` | the event loop and its threads go on while a process lives; somebody runs `agac run` again; a batch polled again and again is answered in the end (strong, because each poll is a new visit and the provider may answer "still out" to any one) |
| `BatchRegistry` | `WF(Run)`, `WF(Provider)`, `WF(OutageEnds)` | the same somebody; the provider ends every batch it took, one way or the other; outages pass |
| `WorkflowModel` | `WF` of refreshes, of the watcher's notice, of both timers | the editor's event loop |
| `MCEditor` | `WF` of the debounce, of the cycles, of each server's coming up | the same, and a server comes up unless it fails |

No fairness is put on deaths, mishaps, interrupts, users or commands.

## 5. The proofs

Each theorem holds for every value of the constants that satisfies the named ASSUMEs;
where a property does not hold for every budget, the theorem names the budgets it holds
for, and the run that checks it has one of them.

### `WorkflowEngineProofs`

For every finite set of actions, dependency relation and level assignment satisfying the
named ASSUMEs, any batch actions, mode and concurrency limit:

| theorem | says |
|---|---|
| `TypeCorrect` | `Spec => []TypeOK` |
| `EngineSound` | `Spec => []EngineInv`, the invariant the rest follows from |
| `NeverCompletedBlocked` | no completed action carries a node-level failure or skip |
| `NeverCompletedOwing` | no completed action has an uncollected batch |
| `HaltsStand` | only a reset, a wipe or an unreadable store takes a halt away |
| `EndsSwept` | a process that is not killed leaves nothing reading as in flight |
| `EngineKeepsFiles` | the engine implements `RunFiles`, under `HaltsFound` |

None of these invariants is inductive alone. Whether a batch is left at completion
depends on what the worker thread did; whether a row is left depends on when the action
began; a sweep concerns only those in flight. `EngineInv` says of each action that its
status, its node-level row, its batch and the step its thread has reached agree
(`Sound(a)`), and that an error on its way out has a run to end. It is proved preserved
step by step: a step of one action (`Does`) changes the variables at that action and
leaves every other `Elsewhere`, so most of the work is one lemma on a step and one on
what it leaves alone (`Moves`); the startup and verification steps (`QuietKeeps`), the
starts (`StartKeeps`) and the ends of a run (`EndsKeeps`) have lemmas of their own.

The contract needs one thing of late failures: only a `completed` status moves, and only to
`completed_with_failures` (`SettlesBy`, `SettlesFacts`). It is a step of its own beside the
others of the verification, for it alone writes a status without a reset.

`HaltsFound` is needed for `RunFiles` alone: a sequential run that cannot read a halt
begins an action whose status says it failed, and `failed` to `running` within one process
is no move of the contract.

What relates an action to those it reads:

| theorem | says | under |
|---|---|---|
| `InOrderAlways` | `Spec => []OrderInv` | `HaltsRead` |
| `UpstreamFirst` | an action has started only with all it reads complete (`StartedUpstream`) | `HaltsRead` |
| `NeverStale` | nothing completes on a replaced input (`NoStaleCompletion`) | `HaltsRead` |
| `RunsEndSettled` | how a run may end (`EndsSettled`) | `HaltsRead` |
| `AnswersStay` | answers go only with their action (`AnswersKept`) | `StoreAnswers` |
| `BatchesThere` | who waits for a batch has one (`PollsABatch`) | `PollsHold` |

`OrderInv` adds to `EngineInv`, for each action: whatever it holds of its own making (a
status past pending, answers, a batch), everything it reads is complete, and none of it
is out of date (`OnDisk`); output just written is new (`WroteWell`); a halted row goes
with a failed status (`HaltKnown`); and how far the level loop, a reset or a wipe has
come (`InOrder`, `InReset`, `InWipe`). The lemma the rest leans on is `ReadersIdle`:
while an action is not complete, nothing that reads it, directly or through others, has
started or holds anything but rows. So new output, which makes stale what its readers
hold, finds them empty.

The hypotheses are what the model showed to be needed. `HaltsRead`: a halt lifted because
it could not be read leaves its row behind if the process then dies or the store refuses
the clear, and `--fresh` leaves it where the store refuses the wipe; the action then stays
pending, is refused at every turn, and its readers run before it. `StoreAnswers`: without
an answer from the store an output counts as there. `PollsHold`: a reset forgets a whole
chain of batches before it takes the statuses back; cut off, it is found again only if what
it was for is still there, which the finding `rerun_crash` is about.

### `BatchRegistryProofs`, `BatchSettledProofs`

For any files, records, jobs (`JobsAssumption`) and number of mishaps; the second
module builds on the first:

| theorem | says |
|---|---|
| `RegistrySound`, `BatchTypeCorrect` | `Spec => []TypeInv`, and `[]TypeOK` |
| `RoundsAlone` | `Spec => []RoundsInv` |
| `OutOnce` | no record is at the provider twice, but for deaths (`NeverOutTwice`) |
| `PassesCome` | `Spec => []SettledInv` |
| `LeavesSettled` | no record is left deferred under a completed action (`SettledUnlessAbandoned`) |
| `RoundsCounted` | `Spec => []BudgetInv` |
| `RoundsBought` | a file buys a bounded number of rounds (`RoundsBounded`) |
| `AnswersTraced` | `Spec => []AnswersInv` |
| `AnswersHeld` | no answer that came back is lost, and what is stored is the newest (`NoAnswerLost`) |

`TypeInv` is more than ranges: every entry names a batch of its file and kind, and every
pool answers for records of its file from batches that were taken.

*One batch out.* The registry may be behind the provider, but says nothing wrong: what it
calls ended has ended (`EntriesTell`). There are rounds of a file only while its own batch
waits to be read (`RoundsWait`); in a pass the one entry not known to have ended is the
round just sent (`PassAlone`); and a file's own batch is read only if each of its rounds is
a repair that was given up (`PassReads`). So whatever is sent is sent when nothing the
registry names for its file is out (`ReadAlone`), and what is out beside that is a batch a
death kept from being named: as many as there were deaths (`OutBounded`).

*Nothing left.* Until a file is settled its own entry is owed (`OwedOrDone`), and in a pass
one of these is true of it (`Comes`): its entry is still to be read; the round standing over
it is; a round is under way; or the pass ends with something unread or handed back, and then
the action does not complete. That a pass finds the right round needs what `EntriesInv`
says: each entry names a batch of its own, a file has one round at a time and its state
beside it unless the process died, and repairs come after retries unless a batch was given
up. That the newest round exists at all is `NewestOf`, by well-founded induction on the
batch numbers.

*Bounded rounds.* The recovery state counts a file's rounds (`Follows`) and starts again in
two cases: with a death, and when the file's own batch is read anew because its repair was
given up. Each is a *life*. `InBudget` says that what a file bought is at most its `Purse`
(`max_attempts - 1` plus the repair rounds) for each life begun, and the count of this one.
Two things make it inductive. A repair given up counts as a life only once the registry has
forgotten it (`Spare`), for until then it is owed a new start. And a file that has its
output has no state left to count, so `Closed` says why it is sent no more: its entry is
collected, and either the action is complete or the next pass finds the entry and says so,
so that the action is not stopped and begun again before a process dies.

*No answer lost.* `AnswersInv` says, while the process lives and no repair of the file was
given up, where to look for what a record was last sent for (`Traced`): once the file has its
output, or if the record was not sent with its batch, it is what is stored; while the file
has no state, it is at the file's own batch; and beside a round it is at the round's batch if
the round holds the record, and in the state otherwise (`Carries`). In each place, what is
found is the newest batch of the record if that batch answered it, and `Lost` is found only
if it did not (`Right`), so that a place may say nothing but never something old. A pool of
answers is judged as a whole (`Gathers`), and the lemmas on pools say what `pool_records`, a
restriction and a batch's answers make of it. Then reading an entry either leaves it, or
delivers a pool that gathers all the file was sent for, or sends a round with a state that
gathers the rest (`ProcessCarries`); and a batch that completes is the newest only of records
that wait for it, as what is out is named (`OutIsNamed`). Given up, a repair is what its
state's pool no longer has, and the file is read anew; a death leaves a round without its
state. `NoAnswerLost` leaves both out as the code does.

### `WorkflowModelProofs`

For any workflows and actions, any outcomes that are statuses out of flight
(`StatusAssumption`), and an absent file that is not mistaken for one that is there
(`NoFileAssumption`):

| theorem | says |
|---|---|
| `FilesSound` | `Spec => []FilesInv` |
| `FilesTruthful` | work is shown in flight only while its process exists, and work a living process does is never shown as interrupted |
| `FilesKept` | the run implements `RunFiles`: initial states to initial states, every step to a step or a stutter |
| `RefreshSound` | `Spec => []RefreshInv` |
| `ModelTypeCorrect` | `Spec => []TypeOK` |
| `NothingLost` | no write of a run is forgotten (`NoLostChange`) |
| `ModelMirrors` | the extension's model implements `Mirror` |

`TruthfulFiles` reads two files written one after the other, so it is not inductive: what
the manifest says must be related to how far the process has come. `FilesInv` does
that: the process names itself in the manifest before it touches the status file, and says
that it runs until nothing is in flight any more.

`RefreshInv` is about the refreshes. At most one call of `refresh()` is under way and the
flags know of it (`OneCall`), so no two reads of one file can publish in the wrong order.
What the call has taken in of a file was written, and is no older than what is shown once
the call is past the file (`Sound`). And a write that is not shown is `Remembered`: by a
notice, a timer, a pending refresh, or the call under way, which is still to read it.

### `ExecutionOrderProofs`

For any files of entries with any number of versions and any lists of dependencies
(`ConfigsAssumption`):

| theorem | says |
|---|---|
| `OrderSorts` | `OrderSpec => []KahnInv` |
| `ListsActions` | each action once, and what the engine can run after all it depends on, in the order and in the tree (`ListedInOrder`) |
| `OrderLevels` | `OrderSpec => []LevelsInv` |
| `LevelsFollow` | the levels are the engine's (`LevelsAgree`) |
| `OrderTypeCorrect` | `OrderSpec => []OrderTypeOK` |

*Order.* What waits in the queue and what is listed are different names, each there once
(`QueueOK`); a name has as many dependencies left to wait for as are not listed, and waits or
is listed exactly when there are none (`CountsOK`); what is listed comes after all it depends
on (`FollowsOK`). The count is of dependencies as written, the release of them once each: so
an action that depends twice on another is never released, and is added at the end with those
on a cycle. Where there is neither (`NoneTwice`, `~Circular`), an action left when the queue
runs out would wait for another that is left, and these would be a cycle: nothing is left
(`NoneLeft`). In the tree the rows part the actions (`RowsPart`), and the versions of an
entry share its dependencies, so the first of a row's actions stands after the rows of all
the row depends on.

*Levels.* The calls under way are different names without a level, each a dependency of the
one below (`CallsOK`); a level given is one above the highest below it (`HighestOK`). A call
that meets a name under way takes 0 for its level; then the names from there to the top of
the stack wait for each other (`Closed`), so the config is circular and nothing is said of
its levels.

### `EditorProofs`

The language server, the preview, the diagram with links and badges, the rows of the tree,
and all of these with the order of a config file:

| theorem | says |
|---|---|
| `ChainSound` | `LspSpec => []LspInv` |
| `NeverStray` | no server lives beside the one held (`NoStray`) |
| `LspTypeCorrect` | `LspSpec => []LspTypeOK` |
| `PanelAndDocument` | `PreviewSpec => []PreviewInv` |
| `PreviewTypeCorrect` | `PreviewSpec => []PreviewTypeOK` |
| `PreviewHonest` | at rest the document shows what the panel pages from (`PanelHonest`) |
| `ButtonsMeanWhatTheyOffer` | a button is offered exactly when its command is taken (`ButtonsHonest`) |
| `DiagramFollows` | `ViewsSpec => []PanelInv` |
| `ViewsTypeCorrect` | `ViewsSpec => []ViewsTypeOK` |
| `ViewsTell` | the diagram shows the workflow chosen, a link the action it stands at, a badge too unless it is `Crowded` (`ViewsHonest`) |
| `RowsTell` | what a row and the status bar say of the statuses is so (`RowHonest`) |
| `PartsAreApart` | a behaviour of `MCEditor` is one of each part |
| `EditorTypeCorrect` | the variables of all parts stay in their range (`TypeOK`) |
| `EditorSafe` | every safety property of the parts holds of them side by side |

*Servers.* For any number of servers, changes, restarts and mishaps; `LspTypeCorrect` with a
client for every cycle that can start one (`ServersAssumption`). `LspInv` ties the place of
the first cycle to the client held and to the servers alive: past its stop a cycle is a
restart and holds no client before it starts one (`ChainOK`), every other server alive has
been dropped (`ServersOK`), and until the shutdown has had its turn it is in the queue
(`ShutdownOK`). That there is always a client left to make is a count (`NumbersOK`): the
clients made, the cycles waiting and the timer running are never more than what was asked
for.

*Preview.* For any actions, page size, records, requests, writes and mishaps that are
numbers, and a `None` that is not a page or a document (`Sizes`). `PanelHonest` speaks of
the panel at rest; `PreviewInv` of what is on its way. Documents are numbered as they go
out, and the one in the webview is older than all that follow (`ChannelsOK`), so a report
from the newest says that it is loaded and that no document is on its way (`ReportsOK`).
While the panel takes its webview not to be ready, the last thing sent is a document of the
page it keeps as pending, or that document has arrived and, once loaded, its report is on
the way back (`Waits`). Once the webview is ready, only messages are on their way, and the
last of them, or the document when there is none, shows what the panel pages from
(`Listens`). A report of a document already replaced makes the panel ready too soon, and
from then on nothing is said (`crossed`).

*Diagram.* For any finitely many workflows, their actions, folders and publications
(`ViewsAssumption`). `PanelInv` ties the panel to the choice: there is one exactly while the
other is there, and the diagram is of the workflow chosen, as last published, but between a
publication and the listeners' turn. Links and badges are lemmas on the lookups: the first
workflow with an action is the only one, unless two have it; the first folder that begins a
path, of the first workflow that has one, is the action's own, unless it is `Crowded`.

*Rows.* For any finite set of actions that is not empty (`RowsAssumption`) in any statuses.
The row follows from the statuses as they are, so the invariant is only that they are
statuses; the lemmas say which of them the rollup, its rank and the summary can come from.

*Together.* The instance has no more to it than its parts: an initial state of it is one of
each part, a step is a step of one part that the others stutter over. So what is proved of a
part holds of the whole, for every value of the constants.

### `DocsSiteProofs`

For any logs, runs, configs and stored records such as the generator and the tracker write
(`LogAssumption`, `RunAssumption`, `ConfigAssumption`, `ItemsAssumption`: lines are told
apart by their numbers, runs have a duration, whatever is listed has a name), any size of
page and number of buckets above zero, an alphabet that has the names of the actions
(`NamesAssumption`), and any number of writes, failures and clicks:

| theorem | says |
|---|---|
| `SiteSound` | `Spec => [](SiteInv /\ Reveals)` |
| `Revealed` | what a control says it shows is on the screen it leads to (`Reveals`) |
| `SiteTyped` | every screen keeps the form it is drawn from (`TypeOK`) |
| `EmptyTells` | an empty list has filters on, and clearing them brings everything back (`EmptyExplained`) |

`SiteInv` says what is loaded (`FilesOK`, `LoadOK`) and what may be on a screen
(`ScreenOK`): above all, that what is opened from a list is still in the list as it is
filtered, that the cards are those of the page, and that beside records of one file what is
kept of a card is kept of that file, as it was chosen. Nothing but loading changes the data,
and loading leaves no screen, so the invariant is about one screen at a time.

There is a lemma for each control: on a page in order, using it `Goes` to a screen in order
that lists what it promised. Most are about a filter taking away exactly what the control
counted. Those with more to them: the span a bar of the chart selects holds every event it
counts, for any number of buckets (`BucketRange`); the newest event of a set, and the next
from the cursor, exist and are on the list the jump leaves (`NewestOf`, `JumpOK`); the page
that is turned to has a first record (`PageOf`); and a search for nothing, or for a name on
the screen, finds what has that name (`Begins`, `Found`). `Reveals` is proved together with
`SiteInv`, as it says something of the screen only until the next control is used.

### Only model-checked

Liveness (`Converges`, `Finishes`, `CatchesUp`, `KilledIsShown`, `QuietOnceDisposed`,
`FollowsInterpreter`) and ENABLED are out of the prover's reach; so is
induction over data.

## 6. Not modelled

`PROJECT.json` gives the reason for each component. The per-record gate, the record
lifecycle, the evaluation loop and `agac retry` are state and control of the same kind as
what is modelled, and are planned. Guards, prompts, configuration and validation are pure
functions of text; providers are external; logging, generators and scanners print.

Disagreements met while reading that no run shows, because a property about them would
restate one line:

- The diagram's nodes cannot be clicked: `ext views/dagWebview.ts:368` sets Mermaid's
  `securityLevel` to `strict`, which drops the click handlers that
  `src/vscode-extension/README.md:14` promises.
- A code lens and a badge find an action by name or path prefix, the first match winning
  (`providers/codeLensProvider.ts:57`, `model/workflowModel.ts:268`); entries with versions
  get no lens; of two configs with one workflow name the last wins
  (`model/workflowModel.ts:301`).
- The confirmation of a refresh is logged at a level that the default may suppress; the
  provider of preview documents is registered, and nothing opens one.
- A process that takes over the pid of a killed run keeps it on screen (`model/status.ts:109`).

## 7. Running

    tlc -workers 2 -config WorkflowEngine_chain.cfg MCWorkflowEngine.tla
    tlc -workers 2 -config BatchRegistry.cfg MCBatchRegistry.tla
    tlapm WorkflowEngineProofs.tla
