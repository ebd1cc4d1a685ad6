-------------------------- MODULE WorkflowModelProofs --------------------------
(***************************************************************************)
(* What a run writes, read by anybody at any time: it keeps the contract   *)
(* of RunFiles, and the two files together never misrepresent it.  And     *)
(* what the editor extension makes of them: it misses no write, and shows  *)
(* the files in the order they were written.                               *)
(***************************************************************************)
EXTENDS WorkflowModel, TLAPS

-----------------------------------------------------------------------------
(* What holds of a run and of its two files *)

\* The process names itself in the manifest before it touches the status file, and says
\* that it runs until nothing is in flight any more.
RunOK(w) ==
    /\ manifest[w] = NoFile => stage[w] = "off" /\ file[w] = NoFile
    /\ stage[w] \in {"starting", "running"} =>
          manifest[w].status = "running" /\ manifest[w].run = runs[w]
    /\ stage[w] \in {"swept", "closing"} => Claims(w) = {}

FilesTyped ==
    /\ manifest \in [Workflows -> Manifests \cup {NoFile}]
    /\ file \in [Workflows -> [Actions -> Statuses] \cup {NoFile}]
    /\ stage \in [Workflows -> {"off", "starting", "running", "swept", "closing"}]
    /\ runs \in [Workflows -> Nat]
    /\ DOMAIN kills = Workflows

FilesInv == FilesTyped /\ \A w \in Workflows : RunOK(w)

runFiles == <<manifest, file, stage, runs, kills>>

\* What the status file says of an action is a status.
LEMMA RecordedTyped ==
    ASSUME FilesTyped, NEW w \in Workflows
    PROVE  Recorded(w) \in [Actions -> Statuses]
BY DEF FilesTyped, Recorded, Statuses, Waiting

\* What a write of the status file leaves there.
LEMMA MarkedTyped ==
    ASSUME FilesTyped, NEW w \in Workflows, NEW STATE as, NEW to \in Statuses
    PROVE  /\ Marked(w, as, to) \in [Actions -> Statuses]
           /\ \A a \in Actions : Marked(w, as, to)[a] = IF a \in as THEN to ELSE Recorded(w)[a]
BY RecordedTyped DEF Marked

\* Nothing the extension does touches the files of a run.
LEMMA ExtensionReads ==
    ASSUME Watching \/ RefreshCommand \/ configurePolling \/ dispose
           \/ \E t \in Slots : Rejects(t) \/ \E which \in Files : ReadFails(t, which)
    PROVE  UNCHANGED runFiles
<1> USE DEF runFiles, disk
<1>1. ASSUME Refreshing PROVE UNCHANGED runFiles
  <2>1. ASSUME NEW t \in Slots, FindFiles(t) \/ Publish(t) \/ Fire(t) PROVE UNCHANGED runFiles
    BY <2>1 DEF FindFiles, Publish, Fire
  <2>2. ASSUME NEW t \in Slots, NEW w \in Workflows, ParseConfig(t, w) PROVE UNCHANGED runFiles
    BY <2>2 DEF ParseConfig
  <2>3. ASSUME NEW t \in Slots, NEW which \in Files, ReadFile(t, which)
        PROVE  UNCHANGED runFiles
    BY <2>3 DEF ReadFile, Reads
  <2> QED BY <1>1, <2>1, <2>2, <2>3 DEF Refreshing
<1>2. ASSUME scheduleRefresh \/ TimerFires \/ PollFires \/ RefreshCommand \/ dispose
      PROVE  UNCHANGED runFiles
  BY <1>2 DEF scheduleRefresh, TimerFires, PollFires, RefreshCommand, dispose, Unasked
<1>3. ASSUME configurePolling PROVE UNCHANGED runFiles
  BY <1>3 DEF configurePolling
<1>4. ASSUME NEW t \in Slots, Rejects(t) \/ \E which \in Files : ReadFails(t, which)
      PROVE  UNCHANGED runFiles
  BY <1>4 DEF Rejects, ReadFails, Reads
<1> QED BY <1>1, <1>2, <1>3, <1>4 DEF Watching

-----------------------------------------------------------------------------
(* The invariant *)

\* A workflow whose run does not move keeps what holds of it.
LEMMA OthersKeep ==
    ASSUME NEW v \in Workflows, RunOK(v), manifest'[v] = manifest[v], file'[v] = file[v],
           stage'[v] = stage[v], runs'[v] = runs[v]
    PROVE  RunOK(v)'
BY DEF RunOK, Claims, Recorded

\* A process starts.
LEMMA StartKeeps == ASSUME FilesInv, NEW w \in Workflows, StartRun(w) PROVE FilesInv'
<1>1. FilesTyped'
  BY DEF FilesInv, FilesTyped, StartRun, Goes, Manifests
<1>2. RunOK(w)'
  <2>1. manifest'[w] = [run |-> runs[w] + 1, status |-> "running"]
        /\ stage'[w] = "starting" /\ runs'[w] = runs[w] + 1 /\ runs[w] \in Nat
    BY DEF FilesInv, FilesTyped, StartRun, Goes
  <2>2. manifest'[w] # NoFile
    BY <2>1, NoFileAssumption DEF Manifests
  <2> QED BY <2>1, <2>2 DEF RunOK
<1>3. ASSUME NEW v \in Workflows, v # w PROVE RunOK(v)'
  BY <1>3, OthersKeep DEF FilesInv, FilesTyped, StartRun, Goes
<1> QED BY <1>1, <1>2, <1>3 DEF FilesInv

\* A process that runs writes statuses.
LEMMA StatusKeeps ==
    ASSUME FilesInv, NEW w \in Workflows, NEW STATE as, NEW to \in Statuses,
           stage[w] \in {"starting", "running"}, Goes(w, "running"),
           file' = [file EXCEPT ![w] = Marked(w, as, to)],
           UNCHANGED <<manifest, runs, kills>>
    PROVE  FilesInv'
<1>1. FilesTyped'
  BY MarkedTyped DEF FilesInv, FilesTyped, Goes
<1>2. manifest[w] # NoFile
  BY DEF FilesInv, RunOK
<1>3. stage'[w] = "running" /\ manifest'[w] = manifest[w] /\ runs'[w] = runs[w]
  BY DEF FilesInv, FilesTyped, Goes
<1>4. RunOK(w)'
  BY <1>2, <1>3 DEF FilesInv, RunOK
<1>5. ASSUME NEW v \in Workflows, v # w PROVE RunOK(v)'
  BY <1>5, OthersKeep DEF FilesInv, FilesTyped, Goes
<1> QED BY <1>1, <1>4, <1>5 DEF FilesInv

\* A run that an error or a Ctrl-C ends has nothing in flight once its file is swept.
LEMMA SweepKeeps == ASSUME FilesInv, NEW w \in Workflows, SweepFile(w) PROVE FilesInv'
<1>1. PICK to \in {"failed", "interrupted"} : file' = [file EXCEPT ![w] = Marked(w, Claims(w), to)]
  BY DEF SweepFile
<1>2. to \in Statuses /\ to \notin InFlight
  BY DEF Statuses, InFlight, Over
<1> DEFINE row == Marked(w, Claims(w), to)
<1>3. row \in [Actions -> Statuses] /\ \A a \in Actions : row[a] \notin InFlight
  <2>1. \A a \in Actions : row[a] = IF a \in Claims(w) THEN to ELSE Recorded(w)[a]
    BY DEF Marked
  <2>2. row \in [Actions -> Statuses]
    BY <1>2, RecordedTyped DEF FilesInv, Marked
  <2> QED BY <1>2, <2>1, <2>2 DEF Claims
<1>4. file' = [file EXCEPT ![w] = row]
  BY <1>1
<1> HIDE DEF row
<1>5. /\ FilesTyped /\ Goes(w, "swept") /\ stage[w] = "running"
      /\ UNCHANGED <<manifest, runs, kills>>
  BY DEF FilesInv, SweepFile
<1>6. row # NoFile
  BY <1>3, NoFileAssumption
<1>7. file'[w] = row /\ stage'[w] = "swept"
  BY <1>4, <1>5 DEF FilesTyped, Goes
<1>8. FilesTyped'
  BY <1>3, <1>4, <1>5 DEF FilesTyped, Goes
<1>9. RunOK(w)'
  <2>1. Claims(w)' = {}
    BY <1>3, <1>6, <1>7 DEF Claims, Recorded
  <2>2. manifest[w] # NoFile
    BY <1>5 DEF FilesInv, RunOK
  <2> QED BY <1>5, <1>7, <2>1, <2>2 DEF RunOK
<1>10. ASSUME NEW v \in Workflows, v # w PROVE RunOK(v)'
  BY <1>4, <1>5, <1>10, OthersKeep DEF FilesInv, FilesTyped, Goes
<1> QED BY <1>8, <1>9, <1>10 DEF FilesInv

\* A process moves on without writing a status: it ends, it closes its manifest, or it
\* begins with nothing to put back.
LEMMA StageKeeps ==
    ASSUME FilesInv, NEW w \in Workflows, NEW next \in {"off", "running", "closing"},
           Goes(w, next), stage[w] # "off",
           next = "running" => stage[w] = "starting",
           next = "closing" => Claims(w) = {},
           \/ manifest' = manifest
           \/ next = "closing" /\ \E s \in {"completed", "failed"} : Says(w, s),
           UNCHANGED <<file, runs, kills>> \/ (UNCHANGED <<file, runs>> /\ DOMAIN kills' = DOMAIN kills)
    PROVE  FilesInv'
<1>1. manifest[w] \in Manifests
  BY DEF FilesInv, FilesTyped, RunOK
<1>2. FilesTyped' /\ manifest'[w] \in Manifests
  BY <1>1 DEF FilesInv, FilesTyped, Goes, Says, Manifests
<1>3. stage'[w] = next
  BY DEF FilesInv, FilesTyped, Goes
<1>4. RunOK(w)'
  BY <1>2, <1>3, NoFileAssumption DEF FilesInv, RunOK, Claims, Recorded
<1>5. ASSUME NEW v \in Workflows, v # w PROVE RunOK(v)'
  BY <1>5, OthersKeep DEF FilesInv, FilesTyped, Goes, Says
<1> QED BY <1>2, <1>4, <1>5 DEF FilesInv

\* Every step of a run keeps the invariant.
LEMMA RunKeeps ==
    ASSUME FilesInv, NEW w \in Workflows, Runs(w) \/ Mishaps(w)
    PROVE  FilesInv'
<1>1. CASE StartRun(w)
  BY <1>1, StartKeeps
<1>2. CASE PutBack(w)
  <2> DEFINE back == {a \in Actions : Recorded(w)[a] \in Retryable}
  <2>1. CASE back = {}
    BY <1>2, <2>1, StageKeeps DEF PutBack
  <2>2. CASE back # {}
    <3>1. file' = [file EXCEPT ![w] = Marked(w, back, "pending")] /\ Goes(w, "running")
          /\ stage[w] = "starting" /\ UNCHANGED <<manifest, runs, kills>>
      BY <1>2, <2>2 DEF PutBack
    <3>2. "pending" \in Statuses
      BY DEF Statuses, Waiting
    <3> HIDE DEF back
    <3> QED BY <3>1, <3>2, StatusKeeps
  <2> QED BY <2>1, <2>2
<1>3. ASSUME NEW a \in Actions,
             BeginAction(w, a) \/ EndAction(w, a) \/ VerifyAction(w, a)
      PROVE  FilesInv'
  <2>1. PICK to \in Statuses : Record(w, a, to)
    BY <1>3, StatusAssumption DEF BeginAction, EndAction, VerifyAction, Statuses, InFlight,
       Waiting, Over
  <2>2. file' = [file EXCEPT ![w] = Marked(w, {a}, to)] /\ stage[w] = "running"
        /\ UNCHANGED <<manifest, stage, runs, kills>>
    BY <2>1 DEF Record
  <2>3. Goes(w, "running")
    BY <2>2 DEF Goes, FilesInv, FilesTyped
  <2> QED BY <2>2, <2>3, StatusKeeps
<1>4. CASE Finalize(w)
  <2>1. Claims(w) = {}
    BY <1>4 DEF Finalize, Claims, InFlight, Over
  <2> QED BY <1>4, <2>1, StageKeeps DEF Finalize
<1>5. CASE SweepManifest(w)
  <2>1. Claims(w) = {}
    BY <1>5 DEF SweepManifest, FilesInv, RunOK
  <2> QED BY <1>5, <2>1, StageKeeps DEF SweepManifest
<1>6. CASE EndRun(w)
  BY <1>6, StageKeeps DEF EndRun
<1>7. CASE Kill(w)
  <2>1. DOMAIN kills' = DOMAIN kills
    BY <1>7 DEF Kill
  <2> QED BY <1>7, <2>1, StageKeeps DEF Kill
<1>8. CASE SweepFile(w)
  BY <1>8, SweepKeeps
<1>9. CASE EditConfig(w)
  BY <1>9, OthersKeep DEF EditConfig, FilesInv, FilesTyped
<1> QED BY <1>1, <1>2, <1>3, <1>4, <1>5, <1>6, <1>7, <1>8, <1>9 DEF Runs, Mishaps

\* Every step does.
LEMMA StepKeeps == FilesInv /\ [Next]_vars => FilesInv'
<1> SUFFICES ASSUME FilesInv, [Next]_vars PROVE FilesInv'
  OBVIOUS
<1>1. ASSUME UNCHANGED runFiles PROVE FilesInv'
  BY <1>1, OthersKeep DEF FilesInv, FilesTyped, runFiles
<1>2. CASE UNCHANGED vars
  BY <1>1, <1>2 DEF vars, disk, runFiles
<1>3. ASSUME NEW w \in Workflows, Runs(w) \/ Mishaps(w) PROVE FilesInv'
  BY <1>3, RunKeeps
<1> QED BY <1>1, <1>2, <1>3, ExtensionReads DEF Next

\* What may be on disk when the window opens.
LEMMA InitFiles == Init => FilesInv
<1> SUFFICES ASSUME Init PROVE FilesInv
  OBVIOUS
<1>1. CASE manifest = Hidden /\ file = Hidden
  BY <1>1 DEF Init, FilesInv, FilesTyped, RunOK, Hidden
<1>2. ASSUME NEW w \in Workflows, NEW status \in LeftBehind, Left(w, status)
      PROVE  FilesInv
  <2>1. [run |-> 0, status |-> "running"] \in Manifests
        /\ [a \in Actions |-> status] \in [Actions -> Statuses]
    BY StatusAssumption DEF Manifests
  <2>2. FilesTyped
    BY <1>2, <2>1 DEF Init, FilesTyped, Left, Hidden
  <2>3. \A v \in Workflows : RunOK(v)
    BY <1>2, <2>1, NoFileAssumption DEF Init, RunOK, Left, Hidden
  <2> QED BY <2>2, <2>3 DEF FilesInv
<1> QED BY <1>1, <1>2 DEF Init

\* The inductive invariant: where the process of a run is, what its manifest says of it and
\* what its status file claims agree.
THEOREM FilesSound == Spec => []FilesInv
BY InitFiles, StepKeeps, PTL DEF Spec

-----------------------------------------------------------------------------
(* The theorems *)

\* Read at any instant, in whatever stage the run is and however it ended, the two files show
\* nothing in flight once its process is gone and nothing interrupted that it is doing.
THEOREM FilesTruthful == Spec => []TruthfulFiles
<1>1. FilesInv => TruthfulFiles
  <2> SUFFICES ASSUME FilesInv, NEW w \in Workflows \ Foreign, NEW a \in Actions
               PROVE  /\ buildWorkflow(w, manifest[w], file[w])[a] \in InFlight =>
                            stage[w] # "off"
                      /\ stage[w] # "off" /\ a \in Claims(w) =>
                            buildWorkflow(w, manifest[w], file[w])[a] # "interrupted"
    BY DEF TruthfulFiles
  <2> DEFINE live == runLiveness(w, manifest[w])
             says == resolveActionStatus(file[w], a)
  <2>1. buildWorkflow(w, manifest[w], file[w])[a] = reconcileWithLiveness(says, live)
    BY DEF buildWorkflow
  <2>2. says = Recorded(w)[a]
    BY DEF resolveActionStatus, Recorded
  <2>3. RunOK(w) /\ FilesTyped
    BY DEF FilesInv
  <2>4. live = "dead" \/ stage[w] # "off" \/ file[w] = NoFile
    BY <2>3 DEF runLiveness, isProcessAlive, RunOK
  <2>5. stage[w] # "off" /\ a \in Claims(w) => live # "dead"
    BY <2>3 DEF runLiveness, isProcessAlive, RunOK, FilesTyped
  <2>6. file[w] = NoFile => says = "pending"
    BY DEF resolveActionStatus
  <2> HIDE DEF live, says
  <2>7. reconcileWithLiveness(says, live) \in InFlight => stage[w] # "off"
    BY <2>4, <2>6 DEF reconcileWithLiveness, InFlight
  <2>8. stage[w] # "off" /\ a \in Claims(w) => reconcileWithLiveness(says, live) # "interrupted"
    BY <2>2, <2>5 DEF reconcileWithLiveness, InFlight, Claims
  <2> QED BY <2>1, <2>7, <2>8
<1> QED BY <1>1, FilesSound, PTL

-----------------------------------------------------------------------------
(* The run keeps the contract of its files *)

\* What a write of one workflow's file needs in order to be one that the contract allows.
LEMMA WritesAllowed ==
    ASSUME FilesInv, FilesInv', NEW w \in Workflows,
           \A a \in Actions : <<Recorded(w)[a], Recorded(w)'[a]>> \in Run!Moves,
           \A v \in Workflows \ {w} : file'[v] = file[v]
    PROVE  Run!Writes(w)
<1>1. \A v \in Workflows : Recorded(v)' \in [Actions -> Run!Statuses]
  <2>1. \A v \in Workflows : Recorded(v) \in [Actions -> Statuses]
    BY RecordedTyped DEF FilesInv
  <2>2. FilesTyped' => \A v \in Workflows : Recorded(v)' \in [Actions -> Statuses]
    BY DEF FilesTyped, Recorded, Statuses, Waiting
  <2>3. Statuses = Run!Statuses
    BY DEF Statuses, InFlight, Waiting, Over, Run!Statuses, Run!InFlight, Run!Waiting, Run!Ended
  <2> QED BY <2>2, <2>3 DEF FilesInv
<1>2. \A v \in Workflows \ {w} : Recorded(v)' = Recorded(v)
  BY DEF Recorded
<1> QED BY <1>1, <1>2 DEF Run!Writes

\* To leave the files as they are is allowed.
LEMMA NothingWritten ==
    ASSUME FilesInv, FilesInv', NEW w \in Workflows, file' = file
    PROVE  Run!Writes(w) /\ Run!Claims(w)' = Claims(w)
<1>1. Recorded(w)' = Recorded(w)
  BY DEF Recorded
<1>2. \A a \in Actions : Recorded(w)[a] \in Run!Statuses
  BY RecordedTyped DEF FilesInv, Statuses, InFlight, Waiting, Over, Run!Statuses,
     Run!InFlight, Run!Waiting, Run!Ended
<1>3. \A a \in Actions : <<Recorded(w)[a], Recorded(w)'[a]>> \in Run!Moves
  BY <1>1, <1>2 DEF Run!Moves
<1>4. Run!Claims(w)' = Claims(w)
  BY <1>1 DEF Run!Claims, Claims, InFlight, Run!InFlight
<1> QED BY <1>3, <1>4, WritesAllowed

\* The process of the run is there until it goes.
LEMMA LiveFollows ==
    ASSUME FilesInv, NEW w \in Workflows, NEW next, Goes(w, next)
    PROVE  [v \in Workflows |-> stage[v] # "off"]' =
              [[v \in Workflows |-> stage[v] # "off"] EXCEPT ![w] = (next # "off")]
BY DEF FilesInv, FilesTyped, Goes

\* A write of the file of a process that goes on.
LEMMA WriteKept ==
    ASSUME FilesInv, FilesInv', NEW w \in Workflows, NEW next, Goes(w, next),
           stage[w] # "off", next # "off", UNCHANGED kills,
           \A a \in Actions : <<Recorded(w)[a], Recorded(w)'[a]>> \in Run!Moves,
           \A v \in Workflows \ {w} : file'[v] = file[v]
    PROVE  Run!Write(w)
<1>1. [v \in Workflows |-> stage[v] # "off"]' = [v \in Workflows |-> stage[v] # "off"]
  BY LiveFollows
<1> QED BY <1>1, WritesAllowed DEF Run!Write

\* A process goes on and writes nothing.
LEMMA StageKept ==
    ASSUME FilesInv, FilesInv', NEW w \in Workflows, NEW next, Goes(w, next),
           stage[w] # "off", next # "off", UNCHANGED <<kills, file>>
    PROVE  Run!Write(w)
<1>1. [v \in Workflows |-> stage[v] # "off"]' = [v \in Workflows |-> stage[v] # "off"]
  BY LiveFollows
<1>2. [v \in Workflows |-> stage[v] # "off"][w] /\ Run!Writes(w)
  BY NothingWritten
<1> QED BY <1>1, <1>2 DEF Run!Write

\* A write that marks actions moves those and leaves the rest.
LEMMA MarkedMoves ==
    ASSUME FilesInv, NEW w \in Workflows, NEW STATE as, NEW to \in Statuses,
           file' = [file EXCEPT ![w] = Marked(w, as, to)],
           \A a \in Actions : a \in as => <<Recorded(w)[a], to>> \in Run!Moves
    PROVE  /\ \A a \in Actions : <<Recorded(w)[a], Recorded(w)'[a]>> \in Run!Moves
           /\ \A v \in Workflows \ {w} : file'[v] = file[v]
<1> DEFINE row == Marked(w, as, to)
<1>1. row \in [Actions -> Statuses]
      /\ \A a \in Actions : row[a] = IF a \in as THEN to ELSE Recorded(w)[a]
  BY RecordedTyped DEF FilesInv, Marked
<1>2. file' = [file EXCEPT ![w] = row]
  OBVIOUS
<1> HIDE DEF row
<1>3. file'[w] = row /\ row # NoFile
  BY <1>1, <1>2, NoFileAssumption DEF FilesInv, FilesTyped
<1>4. Recorded(w)' = row
  BY <1>3 DEF Recorded
<1>5. \A a \in Actions : Recorded(w)[a] \in Run!Statuses
  BY RecordedTyped DEF FilesInv, Statuses, InFlight, Waiting, Over, Run!Statuses,
     Run!InFlight, Run!Waiting, Run!Ended
<1>6. \A a \in Actions : <<Recorded(w)[a], row[a]>> \in Run!Moves
  BY <1>1, <1>5 DEF Run!Moves
<1> QED BY <1>2, <1>4, <1>6 DEF FilesInv, FilesTyped

\* Every step of a run is one of the contract's, or changes nothing it speaks of.
LEMMA RunStepKept ==
    ASSUME FilesInv, FilesInv', NEW w \in Workflows, Runs(w) \/ Mishaps(w)
    PROVE  Run!Next \/ UNCHANGED Run!vars
<1> SUFFICES Run!Begin(w) \/ Run!Write(w) \/ Run!Leave(w) \/ Run!Killed(w)
             \/ UNCHANGED Run!vars
  BY DEF Run!Next
<1> USE DEF Run!Moves, Run!Statuses, Run!InFlight, Run!Waiting, Run!Ended
<1>1. CASE StartRun(w)
  <2>1. Goes(w, "starting") /\ stage[w] = "off" /\ file' = file /\ UNCHANGED kills
    BY <1>1 DEF StartRun
  <2>2. [v \in Workflows |-> stage[v] # "off"]' =
           [[v \in Workflows |-> stage[v] # "off"] EXCEPT ![w] = TRUE]
    <3>1. [v \in Workflows |-> stage[v] # "off"]' =
             [[v \in Workflows |-> stage[v] # "off"] EXCEPT ![w] = ("starting" # "off")]
      BY <2>1, LiveFollows
    <3>2. ("starting" # "off") = TRUE
      OBVIOUS
    <3> QED BY <3>1, <3>2
  <2>3. ~[v \in Workflows |-> stage[v] # "off"][w]
    BY <2>1
  <2>4. Run!Writes(w)
    BY <2>1, NothingWritten
  <2> QED BY <2>1, <2>2, <2>3, <2>4 DEF Run!Begin
<1>2. CASE PutBack(w)
  <2> DEFINE back == {a \in Actions : Recorded(w)[a] \in Retryable}
  <2>1. Goes(w, "running") /\ stage[w] = "starting" /\ UNCHANGED kills
    BY <1>2 DEF PutBack
  <2>2. CASE back = {}
    <3>1. file' = file
      BY <1>2, <2>2 DEF PutBack
    <3> QED BY <2>1, <3>1, StageKept
  <2>3. CASE back # {}
    <3>1. file' = [file EXCEPT ![w] = Marked(w, back, "pending")]
      BY <1>2, <2>3 DEF PutBack
    <3>2. \A a \in Actions : a \in back => <<Recorded(w)[a], "pending">> \in Run!Moves
      BY RecordedTyped DEF FilesInv, Statuses, InFlight, Waiting, Over
    <3>3. "pending" \in Statuses
      BY DEF Statuses, Waiting
    <3> HIDE DEF back
    <3>4. /\ \A a \in Actions : <<Recorded(w)[a], Recorded(w)'[a]>> \in Run!Moves
          /\ \A v \in Workflows \ {w} : file'[v] = file[v]
      BY <3>1, <3>2, <3>3, MarkedMoves
    <3> QED BY <2>1, <3>4, WriteKept
  <2> QED BY <2>2, <2>3
<1>3. ASSUME NEW a \in Actions,
             BeginAction(w, a) \/ EndAction(w, a) \/ VerifyAction(w, a)
      PROVE  Run!Write(w)
  <2>1. PICK to \in Statuses : Record(w, a, to) /\ <<Recorded(w)[a], to>> \in Run!Moves
    BY <1>3, StatusAssumption DEF BeginAction, EndAction, VerifyAction, Claims, Statuses,
       InFlight, Waiting, Over, Completed
  <2>2. file' = [file EXCEPT ![w] = Marked(w, {a}, to)] /\ stage[w] = "running"
        /\ stage' = stage /\ UNCHANGED kills
    BY <2>1 DEF Record
  <2>3. Goes(w, "running")
    BY <2>2 DEF Goes, FilesInv, FilesTyped
  <2>4. \A b \in Actions : b \in {a} => <<Recorded(w)[b], to>> \in Run!Moves
    BY <2>1
  <2>5. /\ \A b \in Actions : <<Recorded(w)[b], Recorded(w)'[b]>> \in Run!Moves
        /\ \A v \in Workflows \ {w} : file'[v] = file[v]
    <3> DEFINE one == {a}
    <3>1. file' = [file EXCEPT ![w] = Marked(w, one, to)]
          /\ \A b \in Actions : b \in one => <<Recorded(w)[b], to>> \in Run!Moves
      BY <2>2, <2>4
    <3> HIDE DEF one
    <3> QED BY <3>1, MarkedMoves
  <2> QED BY <2>2, <2>3, <2>5, WriteKept
<1>4. CASE Finalize(w) \/ SweepManifest(w)
  <2>1. Goes(w, "closing") /\ stage[w] # "off" /\ file' = file /\ UNCHANGED kills
    BY <1>4 DEF Finalize, SweepManifest
  <2> QED BY <2>1, StageKept
<1>5. CASE EndRun(w)
  <2>1. Goes(w, "off") /\ stage[w] # "off" /\ file' = file /\ UNCHANGED kills
    BY <1>5 DEF EndRun
  <2>2. Claims(w) = {}
    BY <1>5 DEF EndRun, FilesInv, RunOK
  <2> QED BY <2>1, <2>2, LiveFollows, NothingWritten DEF Run!Leave
<1>6. CASE Kill(w)
  <2>1. Goes(w, "off") /\ stage[w] # "off" /\ file' = file
        /\ kills' = [kills EXCEPT ![w] = @ + 1]
    BY <1>6 DEF Kill
  <2> QED BY <2>1, LiveFollows, NothingWritten DEF Run!Killed
<1>7. CASE SweepFile(w)
  <2>1. PICK to \in {"failed", "interrupted"} :
           file' = [file EXCEPT ![w] = Marked(w, Claims(w), to)]
    BY <1>7 DEF SweepFile
  <2>2. Goes(w, "swept") /\ stage[w] = "running" /\ UNCHANGED kills
    BY <1>7 DEF SweepFile
  <2>3. to \in Statuses
    BY DEF Statuses, Over
  <2>4. \A a \in Actions : a \in Claims(w) => <<Recorded(w)[a], to>> \in Run!Moves
    BY DEF Claims, InFlight
  <2> DEFINE working == Claims(w)
  <2>5. file' = [file EXCEPT ![w] = Marked(w, working, to)]
        /\ \A a \in Actions : a \in working => <<Recorded(w)[a], to>> \in Run!Moves
    BY <2>1, <2>4
  <2> HIDE DEF working
  <2>6. /\ \A a \in Actions : <<Recorded(w)[a], Recorded(w)'[a]>> \in Run!Moves
        /\ \A v \in Workflows \ {w} : file'[v] = file[v]
    BY <2>3, <2>5, MarkedMoves
  <2> QED BY <2>2, <2>6, WriteKept
<1>8. CASE EditConfig(w)
  BY <1>8 DEF EditConfig, Run!vars, Recorded
<1> QED BY <1>1, <1>2, <1>3, <1>4, <1>5, <1>6, <1>7, <1>8 DEF Runs, Mishaps

\* The run of the model implements the contract of RunFiles: whatever the extension reads
\* of it, and whenever, is what the engine's own run might have written.
THEOREM FilesKept == Spec => KeepsTheFiles
<1>1. Init => Run!Init
  <2> SUFFICES ASSUME Init PROVE Run!Init
    OBVIOUS
  <2>1. FilesInv
    BY InitFiles
  <2>2. \A w \in Workflows : Recorded(w) \in [Actions -> Run!Statuses]
    BY <2>1, RecordedTyped DEF FilesInv, Statuses, InFlight, Waiting, Over, Run!Statuses,
       Run!InFlight, Run!Waiting, Run!Ended
  <2> QED BY <2>2 DEF Init, Run!Init
<1>2. FilesInv /\ FilesInv' /\ [Next]_vars => [Run!Next]_(Run!vars)
  <2> SUFFICES ASSUME FilesInv, FilesInv', [Next]_vars PROVE Run!Next \/ UNCHANGED Run!vars
    OBVIOUS
  <2>1. ASSUME UNCHANGED runFiles PROVE UNCHANGED Run!vars
    BY <2>1 DEF runFiles, Run!vars, Recorded
  <2>2. CASE UNCHANGED vars
    BY <2>1, <2>2 DEF vars, disk, runFiles
  <2>3. ASSUME NEW w \in Workflows, Runs(w) \/ Mishaps(w)
        PROVE  Run!Next \/ UNCHANGED Run!vars
    BY <2>3, RunStepKept
  <2> QED BY <2>1, <2>2, <2>3, ExtensionReads DEF Next
<1> QED BY <1>1, <1>2, FilesSound, PTL DEF Spec, KeepsTheFiles, Run!Spec

-----------------------------------------------------------------------------
(* The refreshes of the editor extension: notices, timers and calls that await one file at a *)
(* time.  No write of a run is forgotten, and what the model holds mirrors the files in the  *)
(* order they were written.  First the ranges of the variables.                              *)

Places == {"idle", "find", "loop", "read", "context"}
Entries == [Actions -> Statuses] \cup {NoFile}
Stamps == [Workflows -> [Files -> Nat]]

\* What a call of refresh() may hold.
Calls == [at : Places, left : SUBSET Workflows, cur : Workflows \cup {NoFile},
          await : SUBSET Files, m : Manifests \cup {NoFile}, f : Entries,
          built : [Workflows -> Entries], reads : Stamps]

DiskTyped ==
    /\ config \in [Workflows -> BOOLEAN]
    /\ runs \in [Workflows -> 0..MaxRuns] /\ kills \in [Workflows -> Nat]
    /\ \A w \in Workflows : manifest[w] # NoFile => manifest[w].run \in 0..MaxRuns
    /\ written \in Stamps

FlagsTyped ==
    /\ notice \in BOOLEAN /\ timer \in BOOLEAN /\ polling \in BOOLEAN
    /\ inProgress \in BOOLEAN /\ pendingRefresh \in BOOLEAN /\ disposed \in BOOLEAN
    /\ rejects \in Nat /\ mishaps \in 0..MaxMishaps

ViewTyped ==
    /\ tasks \in [Slots -> Calls] /\ seen \in Stamps
    /\ workflows \in [Workflows -> Entries] /\ painted \in [Workflows -> Entries]

Typed == FilesInv /\ DiskTyped /\ FlagsTyped /\ ViewTyped

\* A write is stamped with the next number.
LEMMA WroteStamps ==
    ASSUME DiskTyped, FlagsTyped, NEW w \in Workflows, NEW f \in Files, Wrote(w, {f})
    PROVE  /\ written' = [written EXCEPT ![w][f] = @ + 1] /\ written' \in Stamps
           /\ notice' = ~disposed
<1>1. /\ written' = [written EXCEPT ![w] = [g \in Files |-> @[g] + (IF g \in {f} THEN 1 ELSE 0)]]
      /\ written \in [Workflows -> [Files -> Nat]] /\ notice' = ~disposed
  BY DEF Wrote, DiskTyped, Stamps
<1>2. [g \in Files |-> written[w][g] + (IF g \in {f} THEN 1 ELSE 0)]
         = [written[w] EXCEPT ![f] = @ + 1]
  BY <1>1
<1>3. written' = [written EXCEPT ![w] = [written[w] EXCEPT ![f] = @ + 1]]
  BY <1>1, <1>2
<1>4. written' \in Stamps
  BY <1>1, <1>3 DEF Stamps
<1> QED BY <1>1, <1>3, <1>4

\* What a step of a run does to anything the extension looks at: one write at most, which a
\* watcher notices, and nothing to the model.
LEMMA RunStep ==
    ASSUME Typed, NEW w \in Workflows, Runs(w) \/ Mishaps(w)
    PROVE  /\ UNCHANGED model
           /\ UNCHANGED <<written, notice>> \/ \E f \in Files : Wrote(w, {f})
           /\ config' \in [Workflows -> BOOLEAN]
           /\ runs' \in [Workflows -> 0..MaxRuns] /\ kills' \in [Workflows -> Nat]
           /\ \A v \in Workflows : manifest'[v] # NoFile => manifest'[v].run \in 0..MaxRuns
           /\ mishaps' \in 0..MaxMishaps
<1> USE DEF Typed, DiskTyped, FlagsTyped, Files
<1>0. manifest \in [Workflows -> Manifests \cup {NoFile}] /\ NoFile \notin Manifests
  BY NoFileAssumption DEF FilesInv, FilesTyped
<1> USE <1>0, BoundsAssumption
<1>1. CASE StartRun(w)
  <2>1. runs[w] + 1 \in 0..MaxRuns /\ runs' = [runs EXCEPT ![w] = @ + 1]
    BY <1>1 DEF StartRun
  <2>2. manifest' = [manifest EXCEPT ![w] = [run |-> runs[w] + 1, status |-> "running"]]
    BY <1>1 DEF StartRun
  <2>3. /\ UNCHANGED <<config, kills, mishaps, model>> /\ Wrote(w, {"manifest"})
    BY <1>1 DEF StartRun
  <2> QED BY <2>1, <2>2, <2>3
<1>2. CASE PutBack(w)
  BY <1>2 DEF PutBack
<1>3. ASSUME NEW a \in Actions, BeginAction(w, a) \/ EndAction(w, a) \/ VerifyAction(w, a)
      PROVE  UNCHANGED <<config, manifest, runs, kills, mishaps, model>> /\ Wrote(w, {"status"})
  BY <1>3 DEF BeginAction, EndAction, VerifyAction, Record
<1>4. CASE Finalize(w) \/ SweepManifest(w)
  <2>1. /\ \E s \in {"completed", "failed"} : Says(w, s)
        /\ UNCHANGED <<config, runs, kills, mishaps, model>> /\ Wrote(w, {"manifest"})
    BY <1>4 DEF Finalize, SweepManifest
  <2>2. stage[w] # "off" => manifest[w] # NoFile
    BY DEF FilesInv, RunOK
  <2>3. \A v \in Workflows : manifest'[v] # NoFile => manifest'[v].run \in 0..MaxRuns
    BY <1>4, <2>1, <2>2 DEF Says, Manifests, Finalize, SweepManifest
  <2> QED BY <2>1, <2>3
<1>5. CASE EndRun(w)
  BY <1>5 DEF EndRun
<1>6. CASE Kill(w)
  BY <1>6 DEF Kill, Mishap
<1>7. CASE SweepFile(w)
  BY <1>7 DEF SweepFile, Mishap
<1>8. CASE EditConfig(w)
  BY <1>8 DEF EditConfig, Mishap
<1> QED BY <1>1, <1>2, <1>3, <1>4, <1>5, <1>6, <1>7, <1>8 DEF Runs, Mishaps


-----------------------------------------------------------------------------
(* The invariant *)

\* At most one call of refresh() is under way, and the flags know of it.
OneCall ==
    /\ \A t, u \in Slots : At(t, "idle") \/ At(u, "idle") \/ t = u
    /\ inProgress <=> \E t \in Slots : ~At(t, "idle")
    /\ pendingRefresh => inProgress

\* What a call has taken in of a file is a write that was made, and, once it is past the
\* file, no older than what the model shows of it.
Sound(c) ==
    /\ c.await # {} => c.at = "read"
    /\ c.at = "read" => c.cur \in Workflows
    /\ \A w \in Workflows, f \in Files :
          /\ c.reads[w][f] <= written[w][f]
          /\ \/ c.at \notin {"loop", "read"} \/ w \in c.left \/ (c.cur = w /\ f \in c.await)
             \/ seen[w][f] <= c.reads[w][f]

\* WillRead, of the call itself.
Reaches(c, w, f) ==
    \/ c.at = "find"
    \/ c.at \in {"loop", "read"} /\
          (w \in c.left \/ (c.cur = w /\ f \in c.await) \/ c.reads[w][f] = written[w][f])

\* Somebody is going to look at the file again.
Remembered(w, f) ==
    \/ seen[w][f] = written[w][f]
    \/ disposed \/ rejects > 0
    \/ notice \/ timer \/ pendingRefresh
    \/ \E t \in Slots : Reaches(tasks[t], w, f)

RefreshInv ==
    /\ Typed /\ OneCall
    /\ \A t \in Slots : Sound(tasks[t])
    /\ \A w \in Workflows, f \in Files : seen[w][f] <= written[w][f] /\ Remembered(w, f)

\* What the extension does leaves the disk as it is, and what holds of it.
LEMMA DiskStays ==
    ASSUME Typed, UNCHANGED disk
    PROVE  FilesInv' /\ DiskTyped'
<1>1. FilesInv'
  BY OthersKeep DEF Typed, FilesInv, FilesTyped, disk
<1>2. DiskTyped'
  BY DEF Typed, DiskTyped, disk
<1> QED BY <1>1, <1>2

\* The entry built from what was read.
LEMMA BuiltTyped ==
    ASSUME NEW w \in Workflows, NEW STATE m, NEW STATE f, f \in Entries
    PROVE  buildWorkflow(w, m, f) \in [Actions -> Statuses]
<1> SUFFICES ASSUME NEW a \in Actions
             PROVE  reconcileWithLiveness(resolveActionStatus(f, a), runLiveness(w, m)) \in Statuses
  BY DEF buildWorkflow
<1>1. resolveActionStatus(f, a) \in Statuses
  BY DEF resolveActionStatus, Entries, Statuses, Waiting
<1>2. "interrupted" \in Statuses
  BY DEF Statuses
<1> QED BY <1>1, <1>2 DEF reconcileWithLiveness

\* A call made, and none.
LEMMA CallsTyped ==
    /\ Called \in Calls /\ Idle \in Calls
    /\ Called.at = "find" /\ Idle.at = "idle" /\ Called.await = {} /\ Idle.await = {}
    /\ Called.reads = Unseen /\ Idle.reads = Unseen
<1>1. Hidden \in [Workflows -> Entries] /\ Unseen \in Stamps
  BY DEF Hidden, Entries, Unseen, Stamps
<1>2. Called \in Calls
  BY <1>1 DEF Called, Calls, Places, Entries
<1> QED BY <1>1, <1>2 DEF Called, Idle, Calls, Places, Entries

\* The one call under way goes on.
LEMMA CallGoesOn ==
    ASSUME RefreshInv, NEW t \in Slots, ~At(t, "idle"), NEW STATE c, c \in Calls,
           c.at # "idle", Moves(t, c), Sound(c),
           UNCHANGED <<disk, notice, timer, inProgress, pendingRefresh, workflows, seen,
                       painted, disposed, polling>>,
           \/ UNCHANGED <<rejects, mishaps>>
           \/ rejects' > 0 /\ rejects' \in Nat /\ mishaps' \in 0..MaxMishaps,
           \/ rejects' > 0
           \/ \A w \in Workflows, f \in Files : Reaches(tasks[t], w, f) => Reaches(c, w, f)
    PROVE  RefreshInv'
<1>1. tasks' \in [Slots -> Calls] /\ tasks'[t] = c
      /\ \A u \in Slots : u # t => tasks'[u] = tasks[u] /\ tasks[u].at = "idle"
  BY DEF RefreshInv, Typed, ViewTyped, OneCall, Moves, At
<1>2. Typed'
  <2>1. FilesInv' /\ DiskTyped'
    BY DiskStays DEF RefreshInv
  <2>2. FlagsTyped' /\ ViewTyped'
    BY <1>1 DEF RefreshInv, Typed, FlagsTyped, ViewTyped
  <2> QED BY <2>1, <2>2 DEF Typed
<1>3. OneCall'
  BY <1>1 DEF RefreshInv, OneCall, At
<1>4. written' = written /\ seen' = seen
  BY DEF disk
<1>5. ASSUME NEW u \in Slots PROVE Sound(tasks[u])'
  BY <1>1, <1>4 DEF RefreshInv, Sound
<1>6. ASSUME NEW w \in Workflows, NEW f \in Files PROVE Remembered(w, f)'
  <2>1. \A u \in Slots : Reaches(tasks[u], w, f) => u = t
    BY <1>1 DEF Reaches
  <2>2. Reaches(c, w, f) => Reaches(tasks[t], w, f)'
    BY <1>1, <1>4 DEF Reaches
  <2>3. rejects > 0 => rejects' > 0
    OBVIOUS
  <2> QED BY <1>4, <2>1, <2>2, <2>3 DEF RefreshInv, Remembered
<1> QED BY <1>2, <1>3, <1>4, <1>5, <1>6 DEF RefreshInv

\* The call under way, as the invariant has it.
LEMMA CallHeld ==
    ASSUME RefreshInv, NEW t \in Slots
    PROVE  /\ tasks[t] \in Calls
           /\ tasks[t].at \in Places /\ tasks[t].left \subseteq Workflows
           /\ tasks[t].await \subseteq Files
           /\ tasks[t].cur \in Workflows \cup {NoFile} /\ tasks[t].m \in Manifests \cup {NoFile}
           /\ tasks[t].f \in Entries /\ tasks[t].built \in [Workflows -> Entries]
           /\ tasks[t].reads \in Stamps /\ Sound(tasks[t])
BY DEF RefreshInv, Typed, ViewTyped, Calls

\* findFiles has answered: every config is to be looked at.
LEMMA FindFilesKeeps == ASSUME RefreshInv, NEW t \in Slots, FindFiles(t) PROVE RefreshInv'
<1> DEFINE c == [tasks[t] EXCEPT !.at = "loop", !.left = Workflows]
<1>1. At(t, "find") /\ Moves(t, c)
      /\ UNCHANGED <<disk, notice, timer, inProgress, pendingRefresh, workflows, seen,
                     painted, disposed, polling, rejects, mishaps>>
  BY DEF FindFiles
<1>2. /\ c \in Calls /\ c.at = "loop" /\ c.left = Workflows /\ c.await = tasks[t].await
      /\ c.reads = tasks[t].reads
  BY CallHeld DEF Calls, Places
<1> HIDE DEF c
<1>3. Sound(c)
  BY <1>1, <1>2, CallHeld DEF Sound, At
<1>4. \A w \in Workflows, f \in Files : Reaches(c, w, f)
  BY <1>2 DEF Reaches
<1> QED BY <1>1, <1>2, <1>3, <1>4, CallGoesOn DEF At

\* A config is parsed, and its files are awaited, or it is left out.
LEMMA ParseConfigKeeps ==
    ASSUME RefreshInv, NEW t \in Slots, NEW w \in Workflows, ParseConfig(t, w)
    PROVE  RefreshInv'
<1> DEFINE rest == [tasks[t] EXCEPT !.left = @ \ {w}]
           c == IF config[w]
                THEN [rest EXCEPT !.at = "read", !.cur = w, !.await = {"manifest", "status"},
                                  !.reads[w]["config"] = written[w]["config"]]
                ELSE [rest EXCEPT !.reads[w] = written[w]]
<1>1. At(t, "loop") /\ w \in tasks[t].left /\ Moves(t, c)
      /\ UNCHANGED <<disk, notice, timer, inProgress, pendingRefresh, workflows, seen,
                     painted, disposed, polling, rejects, mishaps>>
  BY DEF ParseConfig
<1>2. written \in Stamps /\ seen \in Stamps
  BY DEF RefreshInv, Typed, DiskTyped, ViewTyped
<1>3. tasks[t].await = {}
  BY <1>1, CallHeld DEF Sound, At
<1>4. /\ c \in Calls /\ c.left = tasks[t].left \ {w} /\ c.at \in {"loop", "read"}
      /\ \A v \in Workflows, f \in Files : v # w => c.reads[v][f] = tasks[t].reads[v][f]
      /\ \A v \in Workflows, f \in Files : v # w => ~(c.cur = v /\ f \in c.await)
      /\ \A f \in Files : (c.cur = w /\ f \in c.await) \/ c.reads[w][f] = written[w][f]
      /\ \A f \in Files : c.reads[w][f] <= written[w][f]
      /\ c.await # {} => c.at = "read"
      /\ c.at = "read" => c.cur = w
  <2>1. CASE config[w]
    <3> DEFINE reads == [tasks[t].reads EXCEPT ![w]["config"] = written[w]["config"]]
    <3>1. c = [tasks[t] EXCEPT !.left = @ \ {w}, !.at = "read", !.cur = w,
                               !.await = {"manifest", "status"}, !.reads = reads]
      BY <2>1
    <3>2. tasks[t].reads \in Stamps /\ "config" \in Files /\ written[w]["config"] \in Nat
      BY <1>2, CallHeld DEF Files, Stamps
    <3>7. reads \in Stamps
      BY <3>2 DEF Stamps
    <3>8. /\ \A v \in Workflows, f \in Files : v # w => reads[v][f] = tasks[t].reads[v][f]
          /\ reads[w]["config"] = written[w]["config"]
          /\ \A f \in Files \ {"config"} : reads[w][f] = tasks[t].reads[w][f]
      BY <3>2 DEF Stamps
    <3> HIDE DEF reads, c
    <3>3. /\ c.at = "read" /\ c.cur = w /\ c.await = {"manifest", "status"}
          /\ c.left = tasks[t].left \ {w} /\ c \in Calls
          /\ c.reads = reads
      BY <3>1, <3>7, CallHeld DEF Calls, Places, Files
    <3>4. /\ \A v \in Workflows, f \in Files : v # w => c.reads[v][f] = tasks[t].reads[v][f]
          /\ c.reads[w]["config"] = written[w]["config"]
          /\ \A f \in Files \ {"config"} : c.reads[w][f] = tasks[t].reads[w][f]
      BY <3>3, <3>8
    <3>5. \A f \in Files : tasks[t].reads[w][f] <= written[w][f]
      BY CallHeld DEF Sound
    <3>6. \A f \in Files : c.reads[w][f] <= written[w][f]
      BY <1>2, <3>4, <3>5 DEF Stamps
    <3> QED BY <3>3, <3>4, <3>6 DEF Files
  <2>2. CASE ~config[w]
    <3> DEFINE reads == [tasks[t].reads EXCEPT ![w] = written[w]]
    <3>1. c = [tasks[t] EXCEPT !.left = @ \ {w}, !.reads = reads]
      BY <2>2
    <3>2. tasks[t].reads \in Stamps
      BY CallHeld
    <3>5. /\ reads \in Stamps /\ reads[w] = written[w]
          /\ \A v \in Workflows : v # w => reads[v] = tasks[t].reads[v]
      BY <1>2, <3>2 DEF Stamps
    <3> HIDE DEF reads, c
    <3>3. /\ c.at = tasks[t].at /\ c.cur = tasks[t].cur /\ c.await = tasks[t].await
          /\ c.left = tasks[t].left \ {w} /\ c \in Calls
          /\ c.reads = reads
      BY <3>1, <3>5, CallHeld DEF Calls
    <3>4. \A f \in Files : c.reads[w][f] = written[w][f] /\ written[w][f] \in Nat
      BY <1>2, <3>3, <3>5 DEF Stamps
    <3> QED BY <1>1, <1>3, <3>3, <3>4, <3>5 DEF At
  <2> QED BY <2>1, <2>2
<1> HIDE DEF c, rest
<1>5. Sound(c)
  <2>1. \A v \in Workflows, f \in Files : seen[v][f] <= written[v][f]
    BY DEF RefreshInv
  <2>2. \A v \in Workflows, f \in Files : tasks[t].reads[v][f] <= written[v][f]
        /\ (v \in tasks[t].left \/ seen[v][f] <= tasks[t].reads[v][f])
    BY <1>1, <1>3, CallHeld DEF Sound, At
  <2> QED BY <1>4, <2>1, <2>2 DEF Sound
<1>6. \A v \in Workflows, f \in Files : Reaches(tasks[t], v, f) => Reaches(c, v, f)
  BY <1>1, <1>3, <1>4 DEF Reaches, At
<1> QED BY <1>1, <1>4, <1>5, <1>6, CallGoesOn DEF At

\* A read ends; what it gave is stamped no earlier than what the model shows, and with the
\* last write unless it failed.
LEMMA ReadsKeeps ==
    ASSUME RefreshInv, NEW t \in Slots, NEW which \in Files, NEW STATE content, NEW STATE stamp,
           Reads(t, which, content, stamp),
           which = "manifest" => content \in Manifests \cup {NoFile},
           which = "status" => content \in Entries,
           stamp \in Nat, tasks[t].cur \in Workflows =>
              seen[tasks[t].cur][which] <= stamp /\ stamp <= written[tasks[t].cur][which],
           \/ UNCHANGED <<rejects, mishaps>>
           \/ rejects' > 0 /\ rejects' \in Nat /\ mishaps' \in 0..MaxMishaps,
           rejects' > 0 \/ stamp = written[tasks[t].cur][which]
    PROVE  RefreshInv'
<1> DEFINE task == tasks[t]
           w    == task.cur
           m    == IF which = "manifest" THEN content ELSE task.m
           f    == IF which = "status" THEN content ELSE task.f
           read == [task EXCEPT !.await = @ \ {which}, !.reads[w][which] = stamp]
           c    == IF read.await # {} THEN [read EXCEPT !.m = m, !.f = f]
                   ELSE [read EXCEPT !.at = "loop", !.cur = NoFile, !.m = NoFile, !.f = NoFile,
                                     !.built[w] = buildWorkflow(w, m, f)]
<1>1. At(t, "read") /\ which \in task.await /\ Moves(t, c)
      /\ UNCHANGED <<disk, notice, timer, inProgress, pendingRefresh, workflows, seen,
                     painted, disposed, polling>>
  BY DEF Reads
<1>2. w \in Workflows /\ written \in Stamps /\ seen \in Stamps
  BY <1>1, CallHeld DEF Sound, At, RefreshInv, Typed, DiskTyped, ViewTyped
<1> DEFINE reads == [task.reads EXCEPT ![w][which] = stamp]
<1>3. /\ reads \in Stamps /\ reads[w][which] = stamp
      /\ \A v \in Workflows, g \in Files : v # w \/ g # which => reads[v][g] = task.reads[v][g]
  BY <1>2, CallHeld DEF Stamps
<1>4. read = [task EXCEPT !.await = @ \ {which}, !.reads = reads]
  OBVIOUS
<1> HIDE DEF reads
<1>5. /\ read \in Calls /\ read.at = "read" /\ read.cur = w /\ read.left = task.left
      /\ read.await = task.await \ {which} /\ read.built = task.built
      /\ read.reads = reads
  BY <1>1, <1>3, <1>4, CallHeld DEF Calls, At
<1> HIDE DEF read
<1>6. m \in Manifests \cup {NoFile} /\ f \in Entries
  BY CallHeld
<1> HIDE DEF m, f
<1>7. /\ c \in Calls /\ c.left = task.left /\ c.reads = reads
      /\ c.await = task.await \ {which} /\ c.at \in {"read", "loop"}
      /\ c.await # {} => c.at = "read"
      /\ c.at = "read" => c.cur = w
  <2>1. CASE read.await # {}
    <3>1. c = [read EXCEPT !.m = m, !.f = f]
      BY <2>1
    <3> QED BY <1>5, <1>6, <3>1 DEF Calls
  <2>2. CASE read.await = {}
    <3>1. c = [read EXCEPT !.at = "loop", !.cur = NoFile, !.m = NoFile, !.f = NoFile,
                           !.built = [read.built EXCEPT ![w] = buildWorkflow(w, m, f)]]
      BY <2>2
    <3>2. buildWorkflow(w, m, f) \in Entries
      BY <1>2, <1>6, BuiltTyped DEF Entries
    <3> DEFINE entry == buildWorkflow(w, m, f)
               built == [task.built EXCEPT ![w] = entry]
    <3> HIDE DEF entry
    <3>3. built \in [Workflows -> Entries]
      BY <3>2, CallHeld DEF entry
    <3>4. c = [read EXCEPT !.at = "loop", !.cur = NoFile, !.m = NoFile, !.f = NoFile,
                           !.built = built]
      BY <1>5, <3>1 DEF entry
    <3> HIDE DEF built
    <3> QED BY <1>5, <2>2, <3>3, <3>4 DEF Calls, Places, Entries
  <2> QED BY <2>1, <2>2
<1> HIDE DEF c
<1>8. c.await # {} => c.cur = w
  BY <1>7
<1>9. Sound(c)
  <2> SUFFICES ASSUME NEW v \in Workflows, NEW g \in Files
               PROVE  /\ c.reads[v][g] <= written[v][g]
                      /\ v \in c.left \/ (c.cur = v /\ g \in c.await) \/ seen[v][g] <= c.reads[v][g]
    BY <1>2, <1>7 DEF Sound
  <2>1. CASE v = w /\ g = which
    BY <1>2, <1>3, <1>7, <2>1
  <2>2. CASE v # w \/ g # which
    <3>1. c.reads[v][g] = task.reads[v][g]
      BY <1>3, <1>7, <2>2
    <3>2. /\ task.reads[v][g] <= written[v][g]
          /\ v \in task.left \/ (w = v /\ g \in task.await) \/ seen[v][g] <= task.reads[v][g]
      BY <1>1, CallHeld DEF Sound, At
    <3> QED BY <1>7, <1>8, <2>2, <3>1, <3>2
  <2> QED BY <2>1, <2>2
<1>10. rejects' > 0 \/ \A v \in Workflows, g \in Files : Reaches(task, v, g) => Reaches(c, v, g)
  <2> SUFFICES ASSUME stamp = written[w][which], NEW v \in Workflows, NEW g \in Files,
                      Reaches(task, v, g)
               PROVE  Reaches(c, v, g)
    OBVIOUS
  <2>1. CASE v = w /\ g = which
    BY <1>3, <1>7, <2>1 DEF Reaches
  <2>2. CASE v # w \/ g # which
    BY <1>1, <1>3, <1>7, <1>8, <2>2 DEF Reaches, At
  <2> QED BY <2>1, <2>2
<1> QED BY <1>1, <1>7, <1>9, <1>10, CallGoesOn DEF At

LEMMA ReadFileKeeps ==
    ASSUME RefreshInv, NEW t \in Slots, NEW which \in Files,
           ReadFile(t, which) \/ ReadFails(t, which)
    PROVE  RefreshInv'
<1> DEFINE w == tasks[t].cur
<1>1. w \in Workflows
  <2>1. At(t, "read")
    BY DEF ReadFile, ReadFails, Reads
  <2> QED BY <2>1, CallHeld DEF Sound, At
<1>2. /\ written[w][which] \in Nat /\ seen[w][which] \in Nat
      /\ seen[w][which] <= written[w][which]
  BY <1>1 DEF RefreshInv, Typed, DiskTyped, ViewTyped, Stamps
<1>3. manifest[w] \in Manifests \cup {NoFile} /\ file[w] \in Entries
  BY <1>1 DEF RefreshInv, Typed, FilesInv, FilesTyped, Entries
<1>4. CASE ReadFile(t, which)
  <2> DEFINE content == IF which = "manifest" THEN manifest[w] ELSE file[w]
             stamp == written[w][which]
  <2>1. Reads(t, which, content, stamp) /\ UNCHANGED <<rejects, mishaps>>
    BY <1>4 DEF ReadFile
  <2>2. /\ which = "manifest" => content \in Manifests \cup {NoFile}
        /\ which = "status" => content \in Entries
    BY <1>3
  <2>3. stamp \in Nat /\ seen[w][which] <= stamp /\ stamp <= written[w][which]
    BY <1>2
  <2> HIDE DEF content
  <2> QED BY <2>1, <2>2, <2>3, ReadsKeeps
<1>5. CASE ReadFails(t, which)
  <2>1. Reads(t, which, NoFile, seen[w][which]) /\ Mishap /\ rejects' = rejects + 1
    BY <1>5 DEF ReadFails
  <2>2. rejects' > 0 /\ rejects' \in Nat /\ mishaps' \in 0..MaxMishaps
    BY <2>1, BoundsAssumption DEF RefreshInv, Typed, FlagsTyped, Mishap
  <2>3. NoFile \in Entries /\ seen[w][which] <= seen[w][which]
    BY <1>2 DEF Entries
  <2> QED BY <1>2, <2>1, <2>2, <2>3, ReadsKeeps
<1> QED BY <1>4, <1>5

\* The whole list is published: what the model shows now was read no earlier than what it
\* showed before, and whatever was written since somebody has still to report.
LEMMA PublishKeeps ==
    ASSUME RefreshInv, NEW t \in Slots, Publish(t)
    PROVE  /\ RefreshInv'
           /\ \A w \in Workflows, f \in Files :
                 seen[w][f] <= seen'[w][f] /\ seen'[w][f] <= written[w][f]
<1> DEFINE c == [Called EXCEPT !.at = "context"]
<1>1. /\ tasks[t].at = "loop" /\ tasks[t].left = {} /\ tasks' = [tasks EXCEPT ![t] = c]
      /\ workflows' = tasks[t].built /\ seen' = tasks[t].reads
      /\ UNCHANGED <<disk, notice, timer, polling, inProgress, pendingRefresh, painted,
                     disposed, rejects, mishaps>>
  BY DEF Publish, At, Moves
<1>2. c \in Calls /\ c.at = "context" /\ c.await = {} /\ c.reads = Unseen
  BY CallsTyped DEF Calls, Places
<1> HIDE DEF c
<1>3. tasks[t].await = {}
  BY <1>1, CallHeld DEF Sound
<1>4. /\ tasks' \in [Slots -> Calls] /\ tasks'[t] = c
      /\ \A u \in Slots : u # t => tasks'[u] = tasks[u] /\ tasks[u].at = "idle"
  BY <1>1, <1>2 DEF RefreshInv, Typed, ViewTyped, OneCall, At
<1>5. written' = written
  BY <1>1 DEF disk
<1>6. \A w \in Workflows, f \in Files :
         seen[w][f] <= seen'[w][f] /\ seen'[w][f] <= written[w][f]
  BY <1>1, <1>3, CallHeld DEF Sound
<1>7. Typed'
  <2>1. FilesInv' /\ DiskTyped'
    BY <1>1, DiskStays DEF RefreshInv
  <2>2. FlagsTyped' /\ ViewTyped'
    BY <1>1, <1>4, CallHeld DEF RefreshInv, Typed, FlagsTyped, ViewTyped
  <2> QED BY <2>1, <2>2 DEF Typed
<1>8. OneCall'
  BY <1>1, <1>2, <1>4 DEF RefreshInv, OneCall, At
<1>9. ASSUME NEW u \in Slots PROVE Sound(tasks[u])'
  <2>1. CASE u = t
    <3>1. \A w \in Workflows, f \in Files : Unseen[w][f] <= written'[w][f]
      BY <1>5 DEF Unseen, RefreshInv, Typed, DiskTyped, Stamps
    <3> QED BY <1>2, <1>4, <2>1, <3>1 DEF Sound
  <2>2. CASE u # t
    BY <1>4, <1>5, <2>2 DEF RefreshInv, Sound
  <2> QED BY <2>1, <2>2
<1>10. ASSUME NEW w \in Workflows, NEW f \in Files PROVE Remembered(w, f)'
  <2>1. seen[w][f] \in Nat /\ seen'[w][f] \in Nat /\ written[w][f] \in Nat
    BY <1>1, CallHeld DEF RefreshInv, Typed, ViewTyped, DiskTyped, Stamps
  <2>2. CASE seen[w][f] = written[w][f]
    BY <1>5, <1>6, <2>1, <2>2 DEF Remembered
  <2>3. CASE disposed \/ rejects > 0 \/ notice \/ timer \/ pendingRefresh
    BY <1>1, <2>3 DEF Remembered
  <2>4. CASE \E u \in Slots : Reaches(tasks[u], w, f)
    <3>1. Reaches(tasks[t], w, f)
      BY <1>4, <2>4 DEF Reaches
    <3>2. tasks[t].reads[w][f] = written[w][f]
      BY <1>1, <1>3, <3>1 DEF Reaches
    <3> QED BY <1>1, <1>5, <3>2 DEF Remembered
  <2> QED BY <2>2, <2>3, <2>4 DEF RefreshInv, Remembered
<1> QED BY <1>5, <1>6, <1>7, <1>8, <1>9, <1>10 DEF RefreshInv

\* No call is under way, or one that has looked its last: it ends, and another takes over
\* if it was asked for.
LEMMA CallChanges ==
    ASSUME RefreshInv, NEW t \in Slots, NEW on \in BOOLEAN,
           rejects' > 0 \/ \A u \in Slots : tasks[u].at \notin {"find", "loop", "read"},
           \A u \in Slots : u # t => tasks[u].at = "idle",
           Moves(t, IF on THEN Called ELSE Idle), inProgress' = on, pendingRefresh' = FALSE,
           UNCHANGED <<disk, workflows, seen, disposed>>,
           pendingRefresh => on, timer => on \/ timer', notice => notice',
           timer' \in BOOLEAN /\ notice' \in BOOLEAN /\ polling' \in BOOLEAN,
           painted' \in [Workflows -> Entries],
           rejects' \in Nat /\ rejects' >= rejects /\ mishaps' \in 0..MaxMishaps
    PROVE  RefreshInv'
<1> DEFINE c == IF on THEN Called ELSE Idle
<1>1. c \in Calls /\ c.await = {} /\ c.reads = Unseen /\ (on <=> c.at # "idle")
      /\ c.at \in {"find", "idle"}
  BY CallsTyped
<1>2. tasks' = [tasks EXCEPT ![t] = c]
  BY DEF Moves
<1> HIDE DEF c
<1>3. /\ tasks' \in [Slots -> Calls] /\ tasks'[t] = c
      /\ \A u \in Slots : u # t => tasks'[u] = tasks[u] /\ tasks[u].at = "idle"
  BY <1>1, <1>2 DEF RefreshInv, Typed, ViewTyped
<1>4. written' = written
  BY DEF disk
<1>5. Typed'
  <2>1. FilesInv' /\ DiskTyped'
    BY DiskStays DEF RefreshInv
  <2>2. FlagsTyped' /\ ViewTyped'
    BY <1>3 DEF RefreshInv, Typed, FlagsTyped, ViewTyped
  <2> QED BY <2>1, <2>2 DEF Typed
<1>6. OneCall'
  BY <1>1, <1>3 DEF OneCall, At
<1>7. ASSUME NEW u \in Slots PROVE Sound(tasks[u])'
  <2>1. CASE u = t
    <3>1. \A w \in Workflows, f \in Files : Unseen[w][f] <= written'[w][f]
      BY <1>4 DEF Unseen, RefreshInv, Typed, DiskTyped, Stamps
    <3> QED BY <1>1, <1>3, <2>1, <3>1 DEF Sound
  <2>2. CASE u # t
    BY <1>3, <1>4, <2>2 DEF RefreshInv, Sound
  <2> QED BY <2>1, <2>2
<1>8. ASSUME NEW w \in Workflows, NEW f \in Files PROVE Remembered(w, f)'
  <2>1. rejects' > 0 \/ \A u \in Slots : ~Reaches(tasks[u], w, f)
    BY DEF Reaches
  <2>2. rejects > 0 => rejects' > 0
    BY DEF RefreshInv, Typed, FlagsTyped
  <2>3. on => Reaches(tasks[t], w, f)'
    BY <1>1, <1>3 DEF Reaches
  <2> QED BY <1>4, <2>1, <2>2, <2>3 DEF RefreshInv, Remembered
<1> QED BY <1>4, <1>5, <1>6, <1>7, <1>8 DEF RefreshInv

\* A call is through with its context, or it is rejected.
LEMMA ReleaseKeeps ==
    ASSUME RefreshInv, NEW t \in Slots, Fire(t) \/ Rejects(t)
    PROVE  RefreshInv'
<1> USE DEF RefreshInv, Typed, FlagsTyped, ViewTyped
<1>1. /\ \A u \in Slots : u # t => tasks[u].at = "idle"
      /\ pendingRefresh \in BOOLEAN
      /\ Moves(t, IF pendingRefresh THEN Called ELSE Idle)
      /\ inProgress' = pendingRefresh /\ pendingRefresh' = FALSE
      /\ UNCHANGED <<disk, notice, timer, polling, workflows, seen, disposed>>
  BY DEF Fire, Rejects, Release, OneCall, At
<1>2. timer' \in BOOLEAN /\ notice' \in BOOLEAN /\ polling' \in BOOLEAN
  BY <1>1
<1>3. CASE Fire(t)
  <2>1. tasks[t].at = "context" /\ painted' \in [Workflows -> Entries]
        /\ UNCHANGED <<rejects, mishaps>>
    BY <1>3 DEF Fire, At
  <2>2. rejects' \in Nat /\ rejects' >= rejects /\ mishaps' \in 0..MaxMishaps
    BY <2>1
  <2> QED BY <1>1, <1>2, <2>1, <2>2, CallChanges
<1>4. CASE Rejects(t)
  <2>1. tasks[t].at \in {"find", "context"} /\ painted' = painted
        /\ Mishap /\ rejects' = rejects + 1
    BY <1>4 DEF Rejects, At
  <2>2. rejects' \in Nat /\ rejects' > 0 /\ rejects' >= rejects /\ mishaps' \in 0..MaxMishaps
    BY <2>1, BoundsAssumption DEF Mishap
  <2> QED BY <1>1, <1>2, <2>1, <2>2, CallChanges
<1> QED BY <1>3, <1>4

\* refresh() is called.
LEMMA RefreshKeeps ==
    ASSUME RefreshInv, refresh,
           UNCHANGED <<disk, workflows, seen, painted, disposed, rejects, mishaps>>,
           UNCHANGED <<notice, polling>>, timer' \in BOOLEAN
    PROVE  RefreshInv'
<1> USE DEF RefreshInv, Typed, FlagsTyped, ViewTyped
<1>1. CASE inProgress
  <2>1. pendingRefresh' = TRUE /\ UNCHANGED <<inProgress, tasks>>
    BY <1>1 DEF refresh
  <2>2. FilesInv' /\ DiskTyped' /\ written' = written
    BY DiskStays DEF disk
  <2>3. FlagsTyped' /\ ViewTyped'
    BY <2>1
  <2>4. OneCall' /\ \A t \in Slots : Sound(tasks[t])'
    BY <1>1, <2>1, <2>2 DEF OneCall, At, Sound
  <2>5. \A w \in Workflows, f \in Files : Remembered(w, f)'
    BY <2>1 DEF Remembered
  <2> QED BY <2>2, <2>3, <2>4, <2>5
<1>2. CASE ~inProgress
  <2>1. /\ inProgress' = TRUE /\ pendingRefresh' = pendingRefresh
        /\ Free # {} /\ Moves(CHOOSE t \in Free : TRUE, Called)
    BY <1>2 DEF refresh
  <2>2. PICK t \in Slots : Moves(t, Called)
    BY <2>1 DEF Free
  <2>3. \A u \in Slots : tasks[u].at = "idle"
    BY <1>2 DEF OneCall, At
  <2>4. pendingRefresh = FALSE /\ pendingRefresh' = FALSE
    BY <1>2, <2>1 DEF OneCall
  <2>5. Moves(t, IF TRUE THEN Called ELSE Idle) /\ inProgress' = TRUE
    BY <2>1, <2>2
  <2>6. notice' \in BOOLEAN /\ polling' \in BOOLEAN /\ painted' \in [Workflows -> Entries]
        /\ rejects' \in Nat /\ rejects' >= rejects /\ mishaps' \in 0..MaxMishaps
    OBVIOUS
  <2> QED BY <2>3, <2>4, <2>5, <2>6, CallChanges
<1> QED BY <1>1, <1>2

\* Nothing is read, written or shown: a flag or a timer changes.
LEMMA FlagsKeep ==
    ASSUME RefreshInv, UNCHANGED <<disk, workflows, seen, painted, tasks, inProgress,
                                   pendingRefresh, rejects>>,
           notice' \in BOOLEAN /\ timer' \in BOOLEAN /\ polling' \in BOOLEAN,
           disposed' \in BOOLEAN /\ mishaps' \in 0..MaxMishaps,
           disposed => disposed', notice \/ timer => notice' \/ timer' \/ disposed'
    PROVE  RefreshInv'
<1> USE DEF RefreshInv, Typed, FlagsTyped, ViewTyped
<1>1. FilesInv' /\ DiskTyped' /\ written' = written
  BY DiskStays DEF disk
<1>2. FlagsTyped' /\ ViewTyped'
  OBVIOUS
<1>3. OneCall' /\ \A t \in Slots : Sound(tasks[t])'
  BY <1>1 DEF OneCall, At, Sound
<1>4. \A w \in Workflows, f \in Files : Remembered(w, f)'
  BY <1>1 DEF Remembered, Reaches
<1> QED BY <1>1, <1>2, <1>3, <1>4

\* A run moves: what it writes a watcher has to report.
LEMMA RunsKeep ==
    ASSUME RefreshInv, NEW w \in Workflows, Runs(w) \/ Mishaps(w)
    PROVE  RefreshInv'
<1>1. Typed /\ FilesInv
  BY DEF RefreshInv, Typed
<1>2. FilesInv'
  BY <1>1, RunKeeps
<1>3. UNCHANGED model /\ (UNCHANGED <<written, notice>> \/ \E f \in Files : Wrote(w, {f}))
  BY <1>1, RunStep
<1>4. /\ written' \in Stamps /\ notice' \in BOOLEAN
      /\ \A v \in Workflows, f \in Files : written[v][f] <= written'[v][f]
      /\ UNCHANGED <<written, notice>> \/ notice' \/ disposed
  <2>1. CASE UNCHANGED <<written, notice>>
    BY <1>1, <2>1 DEF Typed, DiskTyped, FlagsTyped, Stamps
  <2>2. ASSUME NEW f \in Files, Wrote(w, {f})
        PROVE  /\ written' \in Stamps /\ notice' = ~disposed
               /\ \A v \in Workflows, g \in Files : written[v][g] <= written'[v][g]
    <3>1. written' = [written EXCEPT ![w][f] = @ + 1] /\ written' \in Stamps
          /\ notice' = ~disposed
      BY <1>1, <2>2, WroteStamps DEF Typed
    <3>2. \A v \in Workflows, g \in Files : written[v][g] <= written'[v][g]
      BY <1>1, <3>1 DEF Typed, DiskTyped, Stamps
    <3> QED BY <3>1, <3>2
  <2>3. disposed \in BOOLEAN
    BY <1>1 DEF Typed, FlagsTyped
  <2> QED BY <1>3, <2>1, <2>2, <2>3
<1>5. Typed'
  <2>1. DiskTyped' /\ mishaps' \in 0..MaxMishaps
    BY <1>1, <1>4, RunStep DEF DiskTyped
  <2>2. FlagsTyped' /\ ViewTyped'
    BY <1>1, <1>3, <1>4, <2>1 DEF Typed, FlagsTyped, ViewTyped, model
  <2> QED BY <1>2, <2>1, <2>2 DEF Typed
<1>6. OneCall'
  BY <1>3 DEF RefreshInv, OneCall, At, model
<1>7. ASSUME NEW t \in Slots PROVE Sound(tasks[t])'
  <2>1. tasks[t].reads \in Stamps /\ written \in Stamps
    BY CallHeld DEF RefreshInv, Typed, DiskTyped
  <2>2. \A v \in Workflows, f \in Files : tasks[t].reads[v][f] <= written'[v][f]
    BY <1>4, <2>1 DEF RefreshInv, Sound, Stamps
  <2> QED BY <1>3, <2>2 DEF RefreshInv, Sound, model
<1>8. ASSUME NEW v \in Workflows, NEW f \in Files
      PROVE  seen'[v][f] <= written'[v][f] /\ Remembered(v, f)'
  <2>1. seen'[v][f] <= written'[v][f]
    BY <1>3, <1>4 DEF RefreshInv, Typed, ViewTyped, DiskTyped, Stamps, model
  <2>2. CASE UNCHANGED <<written, notice>>
    BY <1>3, <2>1, <2>2 DEF RefreshInv, Remembered, Reaches, model
  <2>3. CASE notice' \/ disposed
    BY <1>3, <2>1, <2>3 DEF Remembered, model
  <2> QED BY <1>4, <2>1, <2>2, <2>3
<1> QED BY <1>5, <1>6, <1>7, <1>8 DEF RefreshInv

\* Every step keeps the invariant.
LEMMA RefreshStep == RefreshInv /\ [Next]_vars => RefreshInv'
<1> SUFFICES ASSUME RefreshInv, [Next]_vars PROVE RefreshInv'
  OBVIOUS
<1>0. /\ notice \in BOOLEAN /\ timer \in BOOLEAN /\ polling \in BOOLEAN /\ disposed \in BOOLEAN
      /\ mishaps \in 0..MaxMishaps
  BY DEF RefreshInv, Typed, FlagsTyped
<1>1. CASE Refreshing
  <2>1. ASSUME NEW t \in Slots, FindFiles(t) \/ Publish(t) \/ Fire(t) PROVE RefreshInv'
    BY <2>1, FindFilesKeeps, PublishKeeps, ReleaseKeeps
  <2>2. ASSUME NEW t \in Slots, NEW w \in Workflows, ParseConfig(t, w) PROVE RefreshInv'
    BY <2>2, ParseConfigKeeps
  <2>3. ASSUME NEW t \in Slots, NEW which \in Files, ReadFile(t, which) PROVE RefreshInv'
    BY <2>3, ReadFileKeeps
  <2> QED BY <1>1, <2>1, <2>2, <2>3 DEF Refreshing
<1>2. CASE scheduleRefresh
  BY <1>0, <1>2, FlagsKeep DEF scheduleRefresh, Unasked
<1>3. CASE TimerFires \/ PollFires \/ RefreshCommand
  BY <1>0, <1>3, RefreshKeeps DEF TimerFires, PollFires, RefreshCommand, Unasked
<1>4. CASE dispose
  BY <1>0, <1>4, FlagsKeep DEF dispose, Unasked
<1>5. CASE configurePolling
  BY <1>0, <1>5, FlagsKeep, BoundsAssumption DEF configurePolling, Mishap
<1>6. ASSUME NEW t \in Slots, Rejects(t) \/ \E which \in Files : ReadFails(t, which)
      PROVE  RefreshInv'
  BY <1>6, ReleaseKeeps, ReadFileKeeps
<1>7. ASSUME NEW w \in Workflows, Runs(w) \/ Mishaps(w) PROVE RefreshInv'
  BY <1>7, RunsKeep
<1>8. CASE UNCHANGED vars
  BY <1>0, <1>8, FlagsKeep DEF vars, model
<1> QED BY <1>1, <1>2, <1>3, <1>4, <1>5, <1>6, <1>7, <1>8 DEF Next, Watching

\* The window opens with a refresh to be made.
LEMMA InitRefresh == Init => RefreshInv
<1> SUFFICES ASSUME Init PROVE RefreshInv
  OBVIOUS
<1> USE DEF Init
<1>1. FilesInv
  BY InitFiles
<1>2. DiskTyped
  <2>1. ASSUME NEW w \in Workflows, manifest[w] # NoFile PROVE manifest[w].run \in 0..MaxRuns
    <3>1. manifest[w] = [run |-> 0, status |-> "running"]
      BY <2>1 DEF Left, Hidden
    <3> QED BY <3>1, BoundsAssumption
  <2>2. written \in Stamps
    BY DEF Stamps
  <2> QED BY <2>1, <2>2, BoundsAssumption DEF DiskTyped
<1>3. FlagsTyped
  <2>1. /\ notice \in BOOLEAN /\ timer \in BOOLEAN /\ polling \in BOOLEAN
        /\ inProgress \in BOOLEAN /\ pendingRefresh \in BOOLEAN /\ disposed \in BOOLEAN
    OBVIOUS
  <2>2. rejects \in Nat /\ mishaps \in 0..MaxMishaps
    BY BoundsAssumption
  <2> QED BY <2>1, <2>2 DEF FlagsTyped
<1>4. Hidden \in [Workflows -> Entries] /\ Unseen \in Stamps
      /\ \A w \in Workflows, f \in Files : Unseen[w][f] = 0
  BY DEF Hidden, Entries, Unseen, Stamps
<1>5. ViewTyped /\ \A t \in Slots : tasks[t] = Idle
  BY <1>4, CallsTyped DEF ViewTyped
<1>6. OneCall
  BY <1>5, CallsTyped DEF OneCall, At
<1>7. \A t \in Slots : Sound(tasks[t])
  BY <1>4, <1>5, CallsTyped DEF Sound
<1>8. \A w \in Workflows, f \in Files : seen[w][f] <= written[w][f] /\ Remembered(w, f)
  BY <1>4 DEF Remembered
<1> QED BY <1>1, <1>2, <1>3, <1>5, <1>6, <1>7, <1>8 DEF RefreshInv, Typed

\* The inductive invariant: where the one call of refresh() is, what it has read of each file
\* and what a watcher, a timer or a call asked for is still to make up for agree with what was
\* written, however the runs and the editor's calls interleave.
THEOREM RefreshSound == Spec => []RefreshInv
BY InitRefresh, RefreshStep, PTL DEF Spec

-----------------------------------------------------------------------------
(* The theorems *)

\* Every variable keeps its range, for any workflows, actions, slots and budgets.
THEOREM ModelTypeCorrect == Spec => []TypeOK
<1>1. RefreshInv => TypeOK
  <2> SUFFICES ASSUME RefreshInv PROVE TypeOK
    OBVIOUS
  <2>1. FilesTyped /\ DiskTyped /\ FlagsTyped /\ ViewTyped
    BY DEF RefreshInv, Typed, FilesInv
  <2>2. \A w \in Workflows : manifest[w] = NoFile
           \/ (manifest[w].run \in 0..MaxRuns
               /\ manifest[w].status \in {"running", "completed", "failed"})
    BY <2>1 DEF FilesTyped, DiskTyped, Manifests
  <2>3. \A t \in Slots : tasks[t].at \in Places
    BY <2>1 DEF ViewTyped, Calls
  <2> QED BY <2>1, <2>2, <2>3
     DEF TypeOK, FilesTyped, DiskTyped, FlagsTyped, ViewTyped, Entries, Stamps, Places
<1> QED BY <1>1, RefreshSound, PTL

\* A write of a run is never forgotten: until the model has taken it in, a notice, a timer, a
\* call asked for or the call under way is going to, unless the extension is shut down or a
\* call of the editor's failed.
THEOREM NothingLost == Spec => []NoLostChange
<1>1. RefreshInv => NoLostChange
  BY DEF RefreshInv, Remembered, Reaches, NoLostChange, WillRead, At
<1> QED BY <1>1, RefreshSound, PTL

\* The model's content implements Mirror: a write of a run is a change of one source, and a
\* refresh that publishes is a look, which shows no write older than the one shown before and
\* none that was not made.
THEOREM ModelMirrors == Spec => MirrorsTheFiles
<1> DEFINE W == [s \in Workflows \X Files |-> written[s[1]][s[2]]]
           S == [s \in Workflows \X Files |-> seen[s[1]][s[2]]]
<1>1. Init => Shown!Init
  <2> SUFFICES ASSUME Init PROVE Shown!Init
    OBVIOUS
  <2>1. \A s \in Workflows \X Files : written[s[1]][s[2]] = 1 /\ seen[s[1]][s[2]] = 0
    BY DEF Init, Unseen
  <2> QED BY <2>1 DEF Shown!Init
<1>2. RefreshInv /\ [Next]_vars => [Shown!Next]_(Shown!vars)
  <2> SUFFICES ASSUME RefreshInv, [Next]_vars PROVE Shown!Next \/ UNCHANGED Shown!vars
    OBVIOUS
  <2>1. CASE UNCHANGED <<written, seen>>
    BY <2>1 DEF Shown!vars
  <2>2. ASSUME NEW t \in Slots, Publish(t) PROVE Shown!Look
    <3>1. /\ \A w \in Workflows, f \in Files :
                seen[w][f] <= seen'[w][f] /\ seen'[w][f] <= written[w][f]
          /\ RefreshInv' /\ written' = written
      BY <2>2, PublishKeeps DEF Publish, disk
    <3>2. \A s \in Workflows \X Files : seen'[s[1]][s[2]] \in Nat
      BY <3>1 DEF RefreshInv, Typed, ViewTyped, Stamps
    <3> QED BY <3>1, <3>2 DEF Shown!Look
  <2>3. ASSUME NEW w \in Workflows, Runs(w) \/ Mishaps(w)
        PROVE  Shown!Next \/ UNCHANGED Shown!vars
    <3>1. Typed
      BY DEF RefreshInv
    <3>2. seen' = seen
      BY <2>3, <3>1, RunStep DEF model
    <3>3. CASE UNCHANGED written
      BY <2>1, <3>2, <3>3
    <3>4. ASSUME NEW f \in Files, Wrote(w, {f}) PROVE Shown!Change(<<w, f>>)
      <4>1. written' = [written EXCEPT ![w][f] = @ + 1] /\ written \in Stamps
        BY <3>1, <3>4, WroteStamps DEF Typed, DiskTyped
      <4>2. \A s \in Workflows \X Files : written'[s[1]][s[2]] =
               IF s = <<w, f>> THEN written[s[1]][s[2]] + 1 ELSE written[s[1]][s[2]]
        BY <4>1 DEF Stamps
      <4>3. W' = [W EXCEPT ![<<w, f>>] = @ + 1]
        BY <4>2
      <4> QED BY <3>2, <4>3 DEF Shown!Change
    <3> QED BY <2>3, <3>1, <3>3, <3>4, RunStep DEF Shown!Next
  <2>4. ASSUME NEW t \in Slots, \/ FindFiles(t) \/ Fire(t) \/ Rejects(t)
                                \/ \E w \in Workflows : ParseConfig(t, w)
                                \/ \E which \in Files : ReadFile(t, which) \/ ReadFails(t, which)
        PROVE  UNCHANGED <<written, seen>>
    BY <2>4 DEF FindFiles, Fire, Rejects, ParseConfig, ReadFile, ReadFails, Reads, disk
  <2>5. ASSUME scheduleRefresh \/ TimerFires \/ PollFires \/ RefreshCommand
               \/ configurePolling \/ dispose
        PROVE  UNCHANGED <<written, seen>>
    BY <2>5 DEF scheduleRefresh, TimerFires, PollFires, RefreshCommand, configurePolling,
       dispose, Unasked, disk
  <2>6. UNCHANGED vars => UNCHANGED <<written, seen>>
    BY DEF vars, model, disk
  <2> QED BY <2>1, <2>2, <2>3, <2>4, <2>5, <2>6 DEF Next, Watching, Refreshing, Shown!Next
<1> QED BY <1>1, <1>2, RefreshSound, PTL DEF Spec, MirrorsTheFiles, Shown!Spec
=============================================================================
