---------------------------- MODULE WorkflowModel ----------------------------
(***************************************************************************)
(* The editor extension's model of the workflows (model/workflowModel.ts)  *)
(* and the runs it watches.  A run writes its manifest and its status file *)
(* and may be killed; the model debounces the watchers' notices, reads the *)
(* files one await at a time, and decides from what it read whether the    *)
(* run is still alive.                                                     *)
(***************************************************************************)
EXTENDS Naturals

CONSTANTS
    Workflows, Actions, \* one config file per workflow, each with these actions
    NoFile,             \* what a read of an absent file gives
    Foreign,            \* workflows run on another host, or without a pid
    Slots,              \* refreshes the editor could have under way at once
    Outcomes,           \* how an action's turn may end
    LeftBehind,         \* what an earlier run may have left an action at
    MaxRuns,            \* how many runs each workflow gets
    MaxTurns,           \* how often a run may write an action's status
    MaxMishaps          \* how many kills, stops, edits and rejections in all

ASSUME BoundsAssumption == MaxRuns \in Nat /\ MaxMishaps \in Nat

VARIABLES
    config,     \* whether each config file parses
    manifest,   \* .manifest.json: the run that wrote it and its status
    file,       \* .agent_status.json: the status of each action
    stage,      \* where the process of the run is; "off" when there is none
    runs,       \* runs started so far, the number of the last being its pid
    kills, rejects, \* processes killed, calls and reads of the editor that failed
    mishaps,    \* kills, stops, edits and rejections in all
    written,    \* how often each file has been written
    notice,     \* a watcher has a change it has not reported
    timer,      \* refreshTimeout is armed
    polling,    \* pollingTimer is set
    inProgress, pendingRefresh,
    tasks,      \* the refresh calls under way
    workflows,  \* this.workflows
    seen,       \* the writes the model's content comes from
    painted,    \* what the views show
    disposed

disk  == <<config, manifest, file, stage, runs, kills, written>>
model == <<timer, polling, inProgress, pendingRefresh, tasks, workflows, seen, painted,
           disposed, rejects>>
vars  == <<disk, notice, model, mishaps>>

Files == {"config", "manifest", "status"}

Mishap == mishaps < MaxMishaps /\ mishaps' = mishaps + 1

-----------------------------------------------------------------------------
(* The runs *)

InFlight == {"running", "checking_batch"}
Waiting  == {"pending", "batch_submitted"}
Retryable == {"failed", "skipped", "interrupted"} \cup InFlight
Completed == {"completed", "completed_with_failures"}
Over     == {"completed", "completed_with_failures", "failed"}
Statuses == InFlight \cup Waiting \cup Over \cup {"skipped", "interrupted"}

\* A turn ends out of flight, and a status file holds statuses only.
ASSUME StatusAssumption ==
    Outcomes \subseteq Statuses \ InFlight /\ LeftBehind \subseteq Statuses

Manifests == [run : Nat, status : {"running", "completed", "failed"}]

\* An absent file is not taken for one that is there.
ASSUME NoFileAssumption == NoFile \notin Manifests \cup [Actions -> Statuses]

\* A status file nobody has written says no more than one that says pending.
Recorded(w) == IF file[w] = NoFile THEN [a \in Actions |-> "pending"] ELSE file[w]
Claims(w)   == {a \in Actions : Recorded(w)[a] \in InFlight}
Marked(w, as, to) == [a \in Actions |-> IF a \in as THEN to ELSE Recorded(w)[a]]

Wrote(w, fs) ==
    /\ written' = [written EXCEPT ![w] = [f \in Files |-> @[f] + (IF f \in fs THEN 1 ELSE 0)]]
    /\ notice' = ~disposed

Goes(w, to) == stage' = [stage EXCEPT ![w] = to]

\* A process starts: it loads the status file and writes a manifest naming itself.
StartRun(w) ==
    /\ stage[w] = "off" /\ runs[w] < MaxRuns
    /\ runs' = [runs EXCEPT ![w] = @ + 1]
    /\ Goes(w, "starting")
    /\ manifest' = [manifest EXCEPT ![w] =
          [run |-> runs[w] + 1, status |-> "running"]]
    /\ Wrote(w, {"manifest"})
    /\ UNCHANGED <<config, file, kills, mishaps, model>>

\* reset_retryable puts back what an earlier run left, in one write.
PutBack(w) ==
    LET back == {a \in Actions : Recorded(w)[a] \in Retryable} IN
    /\ stage[w] = "starting" /\ Goes(w, "running")
    /\ IF back = {} THEN UNCHANGED <<file, written, notice>>
       ELSE file' = [file EXCEPT ![w] = Marked(w, back, "pending")] /\ Wrote(w, {"status"})
    /\ UNCHANGED <<config, manifest, runs, kills, mishaps, model>>

Record(w, a, to) ==
    /\ stage[w] = "running" /\ written[w]["status"] <= MaxTurns
    /\ file' = [file EXCEPT ![w] = Marked(w, {a}, to)]
    /\ Wrote(w, {"status"})
    /\ UNCHANGED <<config, manifest, stage, runs, kills, mishaps, model>>

BeginAction(w, a) ==
    \/ Recorded(w)[a] = "pending" /\ Record(w, a, "running")
    \/ Recorded(w)[a] = "batch_submitted" /\ Record(w, a, "checking_batch")

EndAction(w, a) ==
    /\ a \in Claims(w)
    /\ \E to \in Outcomes : Record(w, a, to)

\* A level that begins verifies what an earlier run completed: failures that could not be
\* recorded then are shown, and what has lost its output is put back.
VerifyAction(w, a) ==
    /\ Claims(w) = {} /\ (runs[w] > 1 \/ LeftBehind \cap Completed # {})
    /\ \/ Recorded(w)[a] = "completed" /\ Record(w, a, "completed_with_failures")
       \/ Recorded(w)[a] \in Completed /\ Record(w, a, "pending")

Says(w, status) == manifest' = [manifest EXCEPT ![w].status = status]

\* Nothing is left to do: finalize_workflow closes the manifest.
Finalize(w) ==
    /\ stage[w] = "running" /\ \A a \in Actions : Recorded(w)[a] \in Over \cup {"skipped"}
    /\ Goes(w, "closing") /\ Says(w, "completed")
    /\ Wrote(w, {"manifest"})
    /\ UNCHANGED <<config, file, runs, kills, mishaps, model>>

\* MUTANT: the manifest is closed first, and the status file swept by whoever comes next.
SweepManifestOnly(w) ==
    /\ stage[w] = "running" /\ Mishap
    /\ Goes(w, "closing") /\ Says(w, "failed")
    /\ Wrote(w, {"manifest"})
    /\ UNCHANGED <<config, file, runs, kills, model>>

\* An error or a Ctrl-C ends the run: the status file is swept before the manifest.
SweepFile(w) ==
    /\ stage[w] = "running" /\ Mishap
    /\ Goes(w, "swept")
    /\ \E to \in {"failed", "interrupted"} :
          file' = [file EXCEPT ![w] = Marked(w, Claims(w), to)]
    /\ Wrote(w, {"status"})
    /\ UNCHANGED <<config, manifest, runs, kills, model>>

SweepManifest(w) ==
    /\ stage[w] = "swept" /\ Goes(w, "closing")
    /\ Says(w, "failed")
    /\ Wrote(w, {"manifest"})
    /\ UNCHANGED <<config, file, runs, kills, mishaps, model>>

\* MUTANT: a process that ends leaves what it was doing as it is.
EndRunWorking(w) ==
    /\ stage[w] \in {"running", "closing"} /\ Goes(w, "off")
    /\ UNCHANGED <<config, manifest, file, runs, kills, written, notice, mishaps, model>>

\* The process is gone.  One that stops for a batch leaves its manifest at "running".
EndRun(w) ==
    /\ \/ stage[w] = "closing"
       \/ stage[w] = "running" /\ Claims(w) = {} /\ \E a \in Actions : Recorded(w)[a] \in Waiting
    /\ Goes(w, "off")
    /\ UNCHANGED <<config, manifest, file, runs, kills, written, notice, mishaps, model>>

\* Killed outright: nothing is written, so no watcher has anything to report.
Kill(w) ==
    /\ stage[w] # "off" /\ Mishap
    /\ kills' = [kills EXCEPT ![w] = @ + 1]
    /\ Goes(w, "off")
    /\ UNCHANGED <<config, manifest, file, runs, written, notice, model>>

\* The user edits a config file into or out of something that parses.
EditConfig(w) ==
    /\ Mishap
    /\ config' = [config EXCEPT ![w] = ~@]
    /\ Wrote(w, {"config"})
    /\ UNCHANGED <<manifest, file, stage, runs, kills, model>>

Runs(w) == \/ StartRun(w) \/ PutBack(w) \/ Finalize(w) \/ SweepManifest(w) \/ EndRun(w)
           \/ \E a \in Actions : BeginAction(w, a) \/ EndAction(w, a)
                                \/ VerifyAction(w, a)

Mishaps(w) == Kill(w) \/ SweepFile(w) \/ EditConfig(w)

-----------------------------------------------------------------------------
(* What the extension makes of the two files: model/status.ts *)

isProcessAlive(w, pid) == stage[w] # "off" /\ runs[w] = pid

\* MUTANT: a manifest that says running is believed.
runLivenessUnprobed(w, m) ==
    CASE m = NoFile -> "unknown"
      [] m # NoFile /\ m.status # "running" -> "dead"
      [] OTHER -> "live"

runLiveness(w, m) ==
    CASE m = NoFile -> "unknown"
      [] m # NoFile /\ m.status # "running" -> "dead"
      [] m # NoFile /\ m.status = "running" /\ w \in Foreign -> "unknown"
      [] OTHER -> IF isProcessAlive(w, m.run) THEN "live" ELSE "dead"

\* MUTANT: a status the union does not list.
reconcileToStopped(status, liveness) ==
    IF liveness = "dead" /\ status \in InFlight THEN "stopped" ELSE status

reconcileWithLiveness(status, liveness) ==
    IF liveness = "dead" /\ status \in InFlight THEN "interrupted" ELSE status

\* The entries of the manifest stay pending until a sweep that reaches the status file first.
resolveActionStatus(f, a) == IF f # NoFile THEN f[a] ELSE "pending"

buildWorkflow(w, m, f) == [a \in Actions |->
    reconcileWithLiveness(resolveActionStatus(f, a), runLiveness(w, m))]

\* What a refresh that read everything in this instant would show.
Now == [w \in Workflows |->
    IF config[w] THEN buildWorkflow(w, manifest[w], file[w]) ELSE NoFile]

-----------------------------------------------------------------------------
(* refresh() *)

Hidden == [w \in Workflows |-> NoFile]
Unseen == [w \in Workflows |-> [f \in Files |-> 0]]

\* A call that awaits findFiles; at "loop" it takes the next config, at "read" it has
\* parsed cur and awaits the files in await, at "context" it has published.
Called == [at |-> "find", left |-> {}, cur |-> NoFile, await |-> {}, m |-> NoFile,
           f |-> NoFile, built |-> Hidden, reads |-> Unseen]
Idle   == [Called EXCEPT !.at = "idle"]

At(t, place) == tasks[t].at = place
Moves(t, to) == tasks' = [tasks EXCEPT ![t] = to]

Free == {t \in Slots : At(t, "idle")}

\* MUTANT: no guard against a refresh in progress.
refreshAlways ==
    /\ inProgress' = TRUE /\ UNCHANGED pendingRefresh
    /\ Free # {} /\ Moves(CHOOSE t \in Free : TRUE, Called)

\* MUTANT: a call made while one is in progress is dropped.
refreshOnce ==
    IF inProgress THEN UNCHANGED <<pendingRefresh, inProgress, tasks>>
    ELSE /\ inProgress' = TRUE /\ UNCHANGED pendingRefresh
         /\ Free # {} /\ Moves(CHOOSE t \in Free : TRUE, Called)

\* A call of refresh() while one is in progress only asks for another.
refresh ==
    IF inProgress THEN pendingRefresh' = TRUE /\ UNCHANGED <<inProgress, tasks>>
    ELSE /\ inProgress' = TRUE /\ UNCHANGED pendingRefresh
         /\ Free # {} /\ Moves(CHOOSE t \in Free : TRUE, Called)

FindFiles(t) ==
    /\ At(t, "find") /\ Moves(t, [tasks[t] EXCEPT !.at = "loop", !.left = Workflows])
    /\ UNCHANGED <<disk, notice, timer, polling, inProgress, pendingRefresh, workflows, seen,
                   painted, disposed, rejects, mishaps>>

\* A config that does not parse is left out, whatever its run has written.
ParseConfig(t, w) ==
    /\ At(t, "loop") /\ w \in tasks[t].left
    /\ LET rest == [tasks[t] EXCEPT !.left = @ \ {w}] IN
       IF config[w]
       THEN Moves(t, [rest EXCEPT !.at = "read", !.cur = w, !.await = {"manifest", "status"},
                                  !.reads[w]["config"] = written[w]["config"]])
       ELSE Moves(t, [rest EXCEPT !.reads[w] = written[w]])
    /\ UNCHANGED <<disk, notice, timer, polling, inProgress, pendingRefresh, workflows, seen,
                   painted, disposed, rejects, mishaps>>

\* The two reads of Promise.all end in either order; with the last the entry is built.
Reads(t, which, content, stamp) ==
    LET task == tasks[t]
        w    == task.cur
        m    == IF which = "manifest" THEN content ELSE task.m
        f    == IF which = "status" THEN content ELSE task.f
        read == [task EXCEPT !.await = @ \ {which}, !.reads[w][which] = stamp]
    IN
    /\ At(t, "read") /\ which \in task.await
    /\ IF read.await # {} THEN Moves(t, [read EXCEPT !.m = m, !.f = f])
       ELSE Moves(t, [read EXCEPT !.at = "loop", !.cur = NoFile, !.m = NoFile, !.f = NoFile,
                                  !.built[w] = buildWorkflow(w, m, f)])
    /\ UNCHANGED <<disk, notice, timer, polling, inProgress, pendingRefresh, workflows, seen,
                   painted, disposed>>

ReadFile(t, which) ==
    LET w == tasks[t].cur IN
    /\ Reads(t, which, IF which = "manifest" THEN manifest[w] ELSE file[w], written[w][which])
    /\ UNCHANGED <<rejects, mishaps>>

\* A read fails: the file counts as absent.
ReadFails(t, which) ==
    /\ Mishap /\ rejects' = rejects + 1
    /\ Reads(t, which, NoFile, seen[tasks[t].cur][which])

\* this.workflows = workflows, before setContext is awaited.
Publish(t) ==
    /\ At(t, "loop") /\ tasks[t].left = {}
    /\ workflows' = tasks[t].built /\ seen' = tasks[t].reads
    /\ Moves(t, [Called EXCEPT !.at = "context"])
    /\ UNCHANGED <<disk, notice, timer, polling, inProgress, pendingRefresh, painted,
                   disposed, rejects, mishaps>>

\* MUTANT: a call asked for meanwhile is forgotten.
ReleaseForgets(t) ==
    /\ inProgress' = FALSE /\ pendingRefresh' = FALSE
    /\ Moves(t, Idle)

\* The finally block: the flag goes down, and a call that was asked for is made.
Release(t) ==
    /\ inProgress' = pendingRefresh /\ pendingRefresh' = FALSE
    /\ Moves(t, IF pendingRefresh THEN Called ELSE Idle)

\* setContext is done: the views are told, and draw what the model holds now.
Fire(t) ==
    /\ At(t, "context")
    /\ painted' = IF disposed THEN painted ELSE workflows
    /\ Release(t)
    /\ UNCHANGED <<disk, notice, timer, polling, workflows, seen, disposed, rejects, mishaps>>

\* findFiles or setContext rejects: nothing is published, or nobody is told.
Rejects(t) ==
    /\ At(t, "find") \/ At(t, "context")
    /\ Mishap /\ rejects' = rejects + 1
    /\ Release(t)
    /\ UNCHANGED <<disk, notice, timer, polling, workflows, seen, painted, disposed>>

Refreshing == \E t \in Slots :
    \/ FindFiles(t) \/ Publish(t) \/ Fire(t)
    \/ \E w \in Workflows : ParseConfig(t, w)
    \/ \E which \in Files : ReadFile(t, which)

-----------------------------------------------------------------------------
(* Watchers and timers *)

Unasked == UNCHANGED <<disk, workflows, seen, painted, rejects, mishaps>>

\* scheduleRefresh: each notice restarts the wait.
scheduleRefresh ==
    /\ notice /\ notice' = FALSE /\ timer' = TRUE
    /\ UNCHANGED <<polling, inProgress, pendingRefresh, tasks, disposed>> /\ Unasked

TimerFires ==
    /\ timer /\ timer' = FALSE /\ refresh
    /\ UNCHANGED <<notice, polling, disposed>> /\ Unasked

PollFires ==
    /\ polling /\ refresh
    /\ UNCHANGED <<notice, timer, polling, disposed>> /\ Unasked

\* The refresh command.
RefreshCommand ==
    /\ ~disposed /\ refresh
    /\ UNCHANGED <<notice, timer, polling, disposed>> /\ Unasked

\* The setting agentActions.refreshInterval is changed; 0 is off.
configurePolling ==
    /\ ~disposed /\ Mishap
    /\ polling' = ~polling
    /\ UNCHANGED <<disk, notice, timer, inProgress, pendingRefresh, tasks, workflows, seen,
                   painted, rejects, disposed>>

\* MUTANT: the interval is left running.
disposeNotPolling ==
    /\ ~disposed /\ disposed' = TRUE
    /\ notice' = FALSE /\ timer' = FALSE
    /\ UNCHANGED <<polling, inProgress, pendingRefresh, tasks>> /\ Unasked

\* Watchers and timers go; a refresh under way goes on.
dispose ==
    /\ ~disposed /\ disposed' = TRUE
    /\ notice' = FALSE /\ timer' = FALSE /\ polling' = FALSE
    /\ UNCHANGED <<inProgress, pendingRefresh, tasks>> /\ Unasked

-----------------------------------------------------------------------------

\* What may be on disk when the window opens: nothing, what a run that was killed at work
\* left, or what one left that waits for its batch.
Left(w, status) ==
    /\ manifest = [Hidden EXCEPT ![w] = [run |-> 0, status |-> "running"]]
    /\ file = [Hidden EXCEPT ![w] = [a \in Actions |-> status]]

Init ==
    /\ config = [w \in Workflows |-> TRUE]
    /\ \/ manifest = Hidden /\ file = Hidden
       \/ \E w \in Workflows, status \in LeftBehind : Left(w, status)
    /\ stage = [w \in Workflows |-> "off"] /\ runs = [w \in Workflows |-> 0]
    /\ kills = [w \in Workflows |-> 0] /\ rejects = 0 /\ mishaps = 0
    /\ written = [w \in Workflows |-> [f \in Files |-> 1]]
    /\ notice = FALSE /\ timer = TRUE /\ polling \in BOOLEAN
    /\ inProgress = FALSE /\ pendingRefresh = FALSE
    /\ tasks = [t \in Slots |-> Idle]
    /\ workflows = Hidden /\ seen = Unseen /\ painted = Hidden
    /\ disposed = FALSE

Watching == Refreshing \/ scheduleRefresh \/ TimerFires \/ PollFires

Next ==
    \/ Watching \/ RefreshCommand \/ configurePolling \/ dispose
    \/ \E t \in Slots : Rejects(t) \/ \E which \in Files : ReadFails(t, which)
    \/ \E w \in Workflows : Runs(w) \/ Mishaps(w)

Spec == Init /\ [][Next]_vars

\* The event loop serves every timer, watcher and await in time.
FairSpec == Spec /\ WF_vars(Refreshing) /\ WF_vars(scheduleRefresh) /\ WF_vars(TimerFires)
                 /\ WF_vars(PollFires)

-----------------------------------------------------------------------------
(* Properties *)

\* Every variable stays in its range.
TypeOK ==
    /\ config \in [Workflows -> BOOLEAN]
    /\ \A w \in Workflows :
          /\ manifest[w] = NoFile \/
                /\ manifest[w].run \in 0..MaxRuns
                /\ manifest[w].status \in {"running", "completed", "failed"}
          /\ file[w] = NoFile \/ file[w] \in [Actions -> Statuses]
          /\ workflows[w] = NoFile \/ workflows[w] \in [Actions -> Statuses]
          /\ painted[w] = NoFile \/ painted[w] \in [Actions -> Statuses]
    /\ stage \in [Workflows -> {"off", "starting", "running", "swept", "closing"}]
    /\ runs \in [Workflows -> 0..MaxRuns] /\ kills \in [Workflows -> Nat]
    /\ rejects \in Nat /\ mishaps \in 0..MaxMishaps
    /\ written \in [Workflows -> [Files -> Nat]] /\ seen \in [Workflows -> [Files -> Nat]]
    /\ notice \in BOOLEAN /\ timer \in BOOLEAN /\ polling \in BOOLEAN
    /\ inProgress \in BOOLEAN /\ pendingRefresh \in BOOLEAN /\ disposed \in BOOLEAN
    /\ \A t \in Slots : tasks[t].at \in {"idle", "find", "loop", "read", "context"}

\* A write the model has not taken in is never forgotten: a watcher still has it to
\* report, a timer is armed, a call is asked for, or the call under way has yet to read
\* the file or has read it since.  Polling is not counted on.
WillRead(t, w, f) ==
    \/ At(t, "find")
    \/ tasks[t].at \in {"loop", "read"} /\
        (w \in tasks[t].left \/ (tasks[t].cur = w /\ f \in tasks[t].await)
            \/ tasks[t].reads[w][f] = written[w][f])

NoLostChange == \A w \in Workflows, f \in Files :
    seen[w][f] # written[w][f] =>
        \/ disposed \/ rejects > 0
        \/ notice \/ timer \/ pendingRefresh
        \/ \E t \in Slots : WillRead(t, w, f)

\* The files never let a reader take a run for another than it is: work is shown in flight
\* only while the process that does it exists, and work a living process is doing is never
\* shown as interrupted.
TruthfulFiles == \A w \in Workflows \ Foreign, a \in Actions :
    /\ buildWorkflow(w, manifest[w], file[w])[a] \in InFlight => stage[w] # "off"
    /\ stage[w] # "off" /\ a \in Claims(w) =>
          buildWorkflow(w, manifest[w], file[w])[a] # "interrupted"

\* The model mirrors the files: every write of a run is one change, and a refresh never
\* replaces the content of a later read by that of an earlier one, nor shows a write that
\* has not happened.
Shown == INSTANCE Mirror WITH
    Sources <- Workflows \X Files,
    written <- [s \in Workflows \X Files |-> written[s[1]][s[2]]],
    seen    <- [s \in Workflows \X Files |-> seen[s[1]][s[2]]]

MirrorsTheFiles == Shown!Spec

\* What the run does to its status file is what the contract of RunFiles allows.
Run == INSTANCE RunFiles WITH
    file  <- [w \in Workflows |-> Recorded(w)],
    live  <- [w \in Workflows |-> stage[w] # "off"]

KeepsTheFiles == Run!Spec

\* Once the files are left alone the model shows what they say, whatever was written while
\* a refresh was under way; a refresh that was rejected is made up for by polling alone.
CatchesUp == Shown!CatchesUp \/ <>disposed \/ (<>(rejects > 0) /\ ~<>[]polling)

\* A killed run does not stay on screen as running while the extension polls.
KilledIsShown == \A w \in Workflows \ Foreign :
    <>[]polling => ((kills[w] > 0 /\ runs[w] = MaxRuns /\ stage[w] = "off") ~>
        [](painted[w] = NoFile \/ \A a \in Actions : painted[w][a] \notin InFlight))

\* The same without polling, which is off by default: "readers use them to check whether
\* that process still exists and report its in-flight actions as interrupted rather than
\* showing them as running forever".
KilledIsShownUnasked == \A w \in Workflows \ Foreign :
    (kills[w] > 0 /\ runs[w] = MaxRuns /\ stage[w] = "off") ~>
        (disposed \/ painted[w] = NoFile \/ \A a \in Actions : painted[w][a] \notin InFlight)

\* After dispose every refresh under way comes to its end and none is started.
QuietOnceDisposed == disposed ~> [](\A t \in Slots : At(t, "idle"))

=============================================================================
