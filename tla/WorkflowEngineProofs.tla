------------------------ MODULE WorkflowEngineProofs ------------------------
(* Theorems about WorkflowEngine, for every workflow; for every budget where none is named. *)
EXTENDS WorkflowEngine, TLAPS

-----------------------------------------------------------------------------
(* Lemmas on the helpers the actions are built from *)

LEMMA SpendType ==
    ASSUME used \in [Mishaps -> Nat], \A k \in Mishaps : used[k] <= Budget[k],
           NEW K \in SUBSET Mishaps, Spend(K)
    PROVE  used' \in [Mishaps -> Nat] /\ \A k \in Mishaps : used'[k] <= Budget'[k]
  BY BudgetAssumption DEF Spend

LEMMA ReadersType == ReadersOf \in [Actions -> SUBSET Actions]
  BY DEF ReadersOf

LEMMA WithType ==
    ASSUME NEW V, NEW f \in [Actions -> V], NEW S, NEW v \in V
    PROVE  With(f, S, v) \in [Actions -> V]
  BY DEF With

LEMMA StaleType ==
    ASSUME NEW V, "stale" \in V, NEW f \in [Actions -> V], NEW x \in Actions
    PROVE  Stale(f, x) \in [Actions -> V]
  BY DEF Stale

LEMMA GoneType == ASSUME Gone PROVE
    /\ phase' \in Phases /\ level' \in Nat /\ raised' \in BOOLEAN
    /\ pc' \in [Actions -> Steps]
    /\ todo' \in SUBSET Actions /\ forgetting' \in SUBSET Actions
    /\ reopening' \in SUBSET Actions /\ keeps' \in SUBSET Actions /\ rerun' \in SUBSET Actions
  BY DEF Gone, Phases, Steps

-----------------------------------------------------------------------------
(* Type correctness *)

LEMMA TypeStart == ASSUME TypeOK, StartPlain \/ StartPlainUnread \/ StartRerun \/ StartFresh
                   PROVE  TypeOK'
  <1>1. ASSUME NEW named \in SUBSET Actions, NEW unread \in SUBSET Actions,
               StartRun(named, unread)
        PROVE  TypeOK'
    <2>1. PutBack(unread) \in SUBSET Actions
      BY DEF PutBack
    <2>2. used' \in [Mishaps -> Nat] /\ \A k \in Mishaps : used'[k] <= Budget'[k]
      BY <1>1, SpendType DEF StartRun, TypeOK, Mishaps
    <2>3. status' \in [Actions -> Statuses]
      BY <1>1, WithType DEF StartRun, TypeOK, Statuses
    <2> QED
      BY <1>1, <2>1, <2>2, <2>3 DEF StartRun, TypeOK, stores, Phases
  <1>2. CASE StartFresh
    <2>1. used' \in [Mishaps -> Nat] /\ \A k \in Mishaps : used'[k] <= Budget'[k]
      BY <1>2, SpendType DEF StartFresh, TypeOK, Mishaps
    <2> QED
      BY <1>2, <2>1 DEF StartFresh, TypeOK, stores, Phases
  <1> QED
    BY <1>1, <1>2 DEF StartPlain, StartPlainUnread, StartRerun

LEMMA TypeStartup == ASSUME TypeOK, Startup PROVE TypeOK'
  <1>1. CASE StartupDone
    BY <1>1, ReadersType DEF StartupDone, TypeOK, stores, Phases, AtLevel
  <1>2. CASE WipeDone
    BY <1>2 DEF WipeDone, EnterLevel, TypeOK, stores, Phases, AtLevel, Statuses
  <1>3. ASSUME NEW a \in Actions, ClearReset(a) PROVE TypeOK'
    <2>1. used' \in [Mishaps -> Nat] /\ \A k \in Mishaps : used'[k] <= Budget'[k]
      BY <1>3, SpendType DEF ClearReset, TypeOK, Mishaps
    <2> QED
      BY <1>3, <2>1 DEF ClearReset, TypeOK, Held, Blocking, Deferred
  <1>4. ASSUME NEW a \in Actions, NEW refused, Wipe(a, refused) PROVE TypeOK'
    <2>1. used' \in [Mishaps -> Nat] /\ \A k \in Mishaps : used'[k] <= Budget'[k]
      BY <1>4, SpendType DEF Wipe, TypeOK, Mishaps
    <2> QED
      BY <1>4, <2>1 DEF Wipe, TypeOK, Held, Blocking, Rows, Deferred
  <1> QED
    BY <1>1, <1>2, <1>3, <1>4 DEF Startup

\* What settling the lost answers of a does, by how far it gets.
Settling(a, fate) ==
    /\ Spend(fate \cup IF node[a] \in Blocking THEN {"store"} ELSE {})
    /\ IF "crash" \in fate THEN Gone
       ELSE /\ todo' = todo \ {a}
            /\ UNCHANGED <<phase, level, pc, forgetting, reopening, keeps, rerun, raised>>
    /\ status' = IF fate = {} THEN [status EXCEPT ![a] = SettledStatus(a)] ELSE status

LEMMA SettlesBy ==
    ASSUME NEW a \in Actions, VerifySettles(a)
    PROVE  \E fate \in {{}, {"store"}, {"crash"}} : Settling(a, fate)
  BY DEF VerifySettles, Settling

LEMMA TypeVerify == ASSUME TypeOK, Verify PROVE TypeOK'
  <1>1. CASE Reopen
    BY <1>1, WithType DEF Reopen, TypeOK, stores, Phases, Statuses
  <1>2. CASE BeginLevel
    BY <1>2 DEF BeginLevel, TypeOK, stores, Phases, AtLevel
  <1>3. ASSUME NEW a \in Actions, Forget(a) PROVE TypeOK'
    <2>1. used' \in [Mishaps -> Nat] /\ \A k \in Mishaps : used'[k] <= Budget'[k]
      BY <1>3, SpendType DEF Forget, TypeOK, Mishaps
    <2>2. /\ phase' \in Phases /\ level' \in Nat /\ raised' \in BOOLEAN
          /\ pc' \in [Actions -> Steps] /\ todo' \in SUBSET Actions
          /\ forgetting' \in SUBSET Actions /\ reopening' \in SUBSET Actions
          /\ keeps' \in SUBSET Actions /\ rerun' \in SUBSET Actions
      BY <1>3, GoneType DEF Forget, TypeOK
    <2> QED
      BY <1>3, <2>1, <2>2 DEF Forget, TypeOK, Held, Deferred
  <1>4. ASSUME NEW a \in Actions, NEW F \in SUBSET Actions, ResetFrom(a, F) PROVE TypeOK'
    BY <1>4, ReadersType DEF ResetFrom, TypeOK, stores, Phases
  <1>5. ASSUME NEW a \in Actions, VerifyLimits(a) PROVE TypeOK'
    BY <1>4, <1>5, ReadersType DEF VerifyLimits
  <1>6. ASSUME NEW a \in Actions, VerifyRefuses(a) PROVE TypeOK'
    <2>1. CASE node[a] \in Blocking
      BY <1>6, <2>1 DEF VerifyRefuses, TypeOK, Statuses
    <2>2. CASE node[a] \notin Blocking
      BY <1>4, <1>6, <2>2, ReadersType DEF VerifyRefuses
    <2> QED
      BY <2>1, <2>2
  <1>7. ASSUME NEW a \in Actions, VerifyStands(a) PROVE TypeOK'
    <2>1. used' \in [Mishaps -> Nat] /\ \A k \in Mishaps : used'[k] <= Budget'[k]
      BY <1>7, SpendType DEF VerifyStands, TypeOK, Mishaps
    <2> QED
      BY <1>7, <2>1 DEF VerifyStands, TypeOK, stores
  <1>8. ASSUME NEW a \in Actions, VerifySettles(a) PROVE TypeOK'
    <2>1. PICK fate \in {{}, {"store"}, {"crash"}} : Settling(a, fate)
      BY <1>8, SettlesBy
    <2>2. used' \in [Mishaps -> Nat] /\ \A k \in Mishaps : used'[k] <= Budget'[k]
      <3>1. fate \cup (IF node[a] \in Blocking THEN {"store"} ELSE {}) \in SUBSET Mishaps
        BY DEF Mishaps
      <3> QED BY <2>1, <3>1, SpendType DEF Settling, TypeOK
    <2>3. /\ phase' \in Phases /\ level' \in Nat /\ raised' \in BOOLEAN
          /\ pc' \in [Actions -> Steps] /\ todo' \in SUBSET Actions
          /\ forgetting' \in SUBSET Actions /\ reopening' \in SUBSET Actions
          /\ keeps' \in SUBSET Actions /\ rerun' \in SUBSET Actions
      BY <2>1, GoneType DEF Settling, TypeOK
    <2>4. status' \in [Actions -> Statuses]
      BY <2>1 DEF Settling, TypeOK, SettledStatus, Statuses, Terminal, Completed
    <2>5. /\ answers' \in [Actions -> Held] /\ fails' \in [Actions -> BOOLEAN]
          /\ deferred' \in [Actions -> Deferred]
      BY <1>8 DEF VerifySettles, TypeOK, Held, Deferred
    <2> QED
      BY <1>8, <2>2, <2>3, <2>4, <2>5 DEF VerifySettles, TypeOK
  <1> QED
    BY <1>1, <1>2, <1>3, <1>5, <1>6, <1>7, <1>8 DEF Verify

\* What is in memory, and the budgets, are well typed: TypeOK of memory and used.
MemoryType ==
    /\ phase \in Phases /\ level \in Nat /\ raised \in BOOLEAN
    /\ pc \in [Actions -> Steps]
    /\ todo \in SUBSET Actions /\ forgetting \in SUBSET Actions
    /\ reopening \in SUBSET Actions /\ keeps \in SUBSET Actions /\ rerun \in SUBSET Actions
    /\ used \in [Mishaps -> Nat] /\ \A k \in Mishaps : used[k] <= Budget[k]

LEMMA StepType ==
    ASSUME TypeOK, NEW a \in Actions, NEW s \in Steps, Step(a, s), raised' \in BOOLEAN,
           NEW K \in SUBSET Mishaps, Spend(K)
    PROVE  MemoryType'
  <1>1. used' \in [Mishaps -> Nat] /\ \A k \in Mishaps : used'[k] <= Budget'[k]
    BY SpendType DEF TypeOK
  <1> QED
    BY <1>1 DEF MemoryType, Step, TypeOK

LEMMA EndsType ==
    ASSUME TypeOK, NEW a \in Actions, NEW K \in SUBSET Mishaps, Ends(a, K)
    PROVE  MemoryType'
  <1>1. used' \in [Mishaps -> Nat] /\ \A k \in Mishaps : used'[k] <= Budget'[k]
    BY SpendType DEF TypeOK, Ends
  <1>2. CASE "crash" \in K
    BY <1>1, <1>2, GoneType DEF MemoryType, Ends
  <1>3. CASE "crash" \notin K
    BY <1>3, StepType DEF Ends, TypeOK, Steps
  <1> QED
    BY <1>2, <1>3

LEMMA FailWithType ==
    ASSUME TypeOK, NEW a \in Actions, NEW marker \in Failures, NEW why \in SUBSET Mishaps,
           FailWith(a, marker, why)
    PROVE  /\ MemoryType'
           /\ status' \in [Actions -> Statuses]
           /\ node' \in [Actions -> Blocking \cup {"none"}]
  <1>1. PICK fate \in {{}, {"store"}, {"crash"}} :
            /\ Ends(a, why \cup fate)
            /\ node' = IF fate = {} THEN [node EXCEPT ![a] = marker] ELSE node
    BY DEF FailWith
  <1>2. why \cup fate \in SUBSET Mishaps
    BY DEF Mishaps
  <1> QED
    BY <1>1, <1>2, EndsType DEF FailWith, TypeOK, Statuses, Terminal, Blocking

LEMMA SkipType ==
    ASSUME TypeOK, NEW a \in Actions, NEW drops \in SUBSET {a}, NEW cleared,
           NEW why \in SUBSET Mishaps, Skip(a, drops, cleared, why)
    PROVE  TypeOK'
  <1> DEFINE Forgets(fate) == IF fate.drop = "none" THEN {} ELSE drops
  <1>1. PICK fate \in SkipFates :
            /\ Ends(a, why \cup fate.cost)
            /\ node' = [With(node, cleared \cup Forgets(fate), "none") EXCEPT
                            ![a] = IF fate.row THEN "skipped" ELSE @]
            /\ answers' = With(answers, Forgets(fate), "none")
            /\ fails' = With(fails, Forgets(fate), FALSE)
            /\ deferred' = With(deferred, Forgets(fate), "none")
            /\ batch' = With(batch, Forgets(fate), "none")
            /\ rows' = IF fate.drop = "all" THEN With(rows, drops, "none") ELSE rows
    BY DEF Skip
  <1>2. why \cup fate.cost \in SUBSET Mishaps
    BY DEF Mishaps, SkipFates
  <1>3. MemoryType'
    BY <1>1, <1>2, EndsType
  <1>4. With(node, cleared \cup Forgets(fate), "none") \in [Actions -> Blocking \cup {"none"}]
    BY WithType DEF TypeOK
  <1>5. node' \in [Actions -> Blocking \cup {"none"}]
    BY <1>1, <1>4 DEF Blocking
  <1>6. answers' \in [Actions -> Held] /\ batch' \in [Actions -> Held]
        /\ fails' \in [Actions -> BOOLEAN] /\ rows' \in [Actions -> Rows]
        /\ deferred' \in [Actions -> Deferred]
    BY <1>1, WithType DEF TypeOK, Held, Rows, Deferred
  <1>7. status' \in [Actions -> Statuses] /\ edited' \in SUBSET Actions
    BY <1>1 DEF Skip, TypeOK, Statuses, Terminal
  <1> QED
    BY <1>3, <1>5, <1>6, <1>7 DEF TypeOK, MemoryType

LEMMA TypeTurn == ASSUME TypeOK, Turn PROVE TypeOK'
  <1>1. ASSUME NEW a \in Actions, StoreGivesOut(a) PROVE TypeOK'
    <2>1. MemoryType'
      BY <1>1, StepType DEF StoreGivesOut, Steps, Mishaps
    <2> QED
      BY <1>1, <2>1 DEF StoreGivesOut, TypeOK, MemoryType, stores, Statuses, Terminal
  <1>2. ASSUME NEW a \in Actions, CheckBatch(a) PROVE TypeOK'
    BY <1>2 DEF CheckBatch, Step, TypeOK, stores, Steps, Statuses, InFlight
  <1>3. ASSUME NEW a \in Actions, RefuseHalted(a) PROVE TypeOK'
    BY <1>3 DEF RefuseHalted, Step, TypeOK, stores, Steps
  <1>4. ASSUME NEW a \in Actions, DependencySkip(a) PROVE TypeOK'
    <2>1. HaltUnread(a) \in SUBSET Mishaps
      BY DEF HaltUnread, Mishaps
    <2> QED
      BY <1>4, <2>1, SkipType DEF DependencySkip
  <1>5. ASSUME NEW a \in Actions, Begin(a) PROVE TypeOK'
    <2>1. HaltUnread(a) \in SUBSET Mishaps
      BY DEF HaltUnread, Mishaps
    <2>2. MemoryType'
      BY <1>5, <2>1, StepType DEF Begin, Steps, TypeOK
    <2>3. node' \in [Actions -> Blocking \cup {"none"}]
      BY <1>5, WithType DEF Begin, TypeOK
    <2> QED
      BY <1>5, <2>2, <2>3 DEF Begin, TypeOK, MemoryType, Statuses, InFlight
  <1> QED
    BY <1>1, <1>2, <1>3, <1>4, <1>5 DEF Turn

LEMMA WrittenType ==
    ASSUME NEW a, NEW carries PROVE Written(a, carries) \in {"fresh", "stale", "mixed"}
  BY DEF Written

\* What is written of the stores is in range, and paid for.
StoreTyped ==
    /\ rows' \in [Actions -> Rows] /\ answers' \in [Actions -> Held]
    /\ fails' \in [Actions -> BOOLEAN] /\ deferred' \in [Actions -> Deferred]
    /\ node' \in [Actions -> Blocking \cup {"none"}]
    /\ \E K \in SUBSET Mishaps : Spend(K)

LEMMA StoreType ==
    ASSUME TypeOK, NEW a \in Actions, NEW outcome \in {"ok", "some", "failed", "filtered"},
           NEW new \in {"fresh", "stale", "mixed"}, Store(a, outcome, new)
    PROVE  StoreTyped
  <1>1. Stale(rows, a) \in [Actions -> Rows] /\ Stale(answers, a) \in [Actions -> Held]
    BY StaleType DEF TypeOK, Rows, Held
  <1>2. PICK r : /\ r \in CASE outcome \in {"ok", "some"} -> {new}
                           [] outcome = "failed" -> {rows[a], "fresh"}
                           [] outcome = "filtered" -> {"none"}
                 /\ rows' = [Stale(rows, a) EXCEPT ![a] = r]
    BY DEF Store
  <1>3. r \in Rows
    BY <1>2 DEF Rows, TypeOK
  <1> QED
    BY <1>1, <1>2, <1>3
       DEF Store, StoreTyped, TypeOK, Rows, Held, Blocking, Mishaps, Deferred

LEMMA UnrecordedType ==
    ASSUME TypeOK, NEW a \in Actions, NEW outcome \in {"ok", "some", "failed"},
           NEW new \in {"fresh", "stale", "mixed"}, Unrecorded(a, outcome, new)
    PROVE  StoreTyped
  <1>1. Stale(rows, a) \in [Actions -> Rows] /\ Stale(answers, a) \in [Actions -> Held]
    BY StaleType DEF TypeOK, Rows, Held
  <1>2. rows' \in [Actions -> Rows] /\ answers' \in [Actions -> Held]
    BY <1>1 DEF Unrecorded, Rows
  <1>3. deferred' \in [Actions -> Deferred]
    BY DEF Unrecorded, TypeOK, Deferred, Lost
  <1>4. \E K \in SUBSET Mishaps : Spend(K)
    <2>1. Spend({"store"} \cup IF outcome = "ok" THEN {} ELSE {"trouble"})
      BY DEF Unrecorded
    <2>2. {"store"} \cup (IF outcome = "ok" THEN {} ELSE {"trouble"}) \in SUBSET Mishaps
      BY DEF Mishaps
    <2> QED BY <2>1, <2>2
  <1> QED
    BY <1>2, <1>3, <1>4 DEF Unrecorded, StoreTyped, TypeOK

LEMMA TypeWork == ASSUME TypeOK, Work \/ Collect PROVE TypeOK'
  <1>1. ASSUME NEW a \in Actions, Answer(a) PROVE TypeOK'
    BY <1>1 DEF Answer, TypeOK, memory, Held
  <1>2. ASSUME NEW a \in Actions, Submit(a) PROVE TypeOK'
    <2>1. batch' \in [Actions -> Held] /\ fails' \in [Actions -> BOOLEAN]
          /\ deferred' \in [Actions -> Deferred]
      BY <1>2 DEF Submit, TypeOK, Held, Deferred
    <2>2. Step(a, "ran") /\ raised' = raised /\ (Spend({}) \/ Spend({"store"}))
      BY <1>2 DEF Submit
    <2>3. MemoryType'
      <3>1. raised' \in BOOLEAN
        BY <2>2 DEF TypeOK
      <3>2. "ran" \in Steps /\ {} \in SUBSET Mishaps /\ {"store"} \in SUBSET Mishaps
        BY DEF Steps, Mishaps
      <3> QED BY <2>2, <3>1, <3>2, StepType
    <2> QED
      BY <1>2, <2>1, <2>3 DEF Submit, TypeOK, MemoryType
  <1>3. ASSUME NEW a \in Actions, MarkCollected(a) PROVE TypeOK'
    BY <1>3 DEF MarkCollected, Step, TypeOK, Held, Steps
  <1>4. ASSUME NEW a \in Actions, NEW outcome \in {"ok", "some", "failed", "filtered"},
               Write(a, outcome)
        PROVE  TypeOK'
    <2>1. Store(a, outcome, Written(a, pc[a] = "carrying"))
      BY <1>4 DEF Write
    <2>2. batch' \in [Actions -> Held]
      BY <1>4, StaleType DEF Write, TypeOK, Held
    <2>3. MemoryType'
      BY <1>4, <2>1, StoreType, WrittenType, StepType DEF Write, Steps, TypeOK, StoreTyped
    <2> QED
      BY <1>4, <2>1, <2>2, <2>3, StoreType, WrittenType
         DEF Write, TypeOK, MemoryType, StoreTyped
  <1>5. ASSUME NEW a \in Actions, NEW outcome \in {"ok", "some", "failed"},
               CollectRows(a, outcome)
        PROVE  TypeOK'
    <2> DEFINE new == IF batch[a] = "stale" THEN "stale" ELSE Written(a, answers[a] # "none")
    <2>1. /\ Store(a, outcome, new) \/ Unrecorded(a, outcome, new)
          /\ new \in {"fresh", "stale", "mixed"}
      BY <1>5, WrittenType DEF CollectRows
    <2>2. batch' \in [Actions -> Held]
      BY <1>5, StaleType DEF CollectRows, TypeOK, Held
    <2> HIDE DEF new
    <2>3. StoreTyped
      BY <2>1, StoreType, UnrecordedType
    <2>4. MemoryType'
      BY <1>5, <2>3, StepType DEF CollectRows, Steps, TypeOK, StoreTyped
    <2> QED
      BY <1>5, <2>2, <2>3, <2>4 DEF CollectRows, TypeOK, MemoryType, StoreTyped
  <1> QED
    BY <1>1, <1>2, <1>3, <1>4, <1>5 DEF Work, Collect

LEMMA FinishType ==
    ASSUME TypeOK, NEW a \in Actions, NEW stamped, Finish(a, stamped)
    PROVE  TypeOK'
  <1>1. CASE Resolution(a) = "failed"
    <2>1. PICK marker \in {"failed", "every_input"} : FailWith(a, marker, {})
      BY <1>1 DEF Finish
    <2>2. MemoryType' /\ status' \in [Actions -> Statuses]
          /\ node' \in [Actions -> Blocking \cup {"none"}]
      BY <2>1, FailWithType DEF Failures
    <2> QED
      BY <1>1, <2>2 DEF Finish, TypeOK, MemoryType
  <1>2. CASE Resolution(a) # "failed"
    <2>1. MemoryType'
      BY <1>2, EndsType DEF Finish
    <2>2. Resolution(a) \in Statuses
      BY DEF Resolution, Statuses, Terminal, Completed
    <2> QED
      BY <1>2, <2>1, <2>2 DEF Finish, TypeOK, MemoryType
  <1> QED
    BY <1>1, <1>2

LEMMA TypeHandle == ASSUME TypeOK, Handle PROVE TypeOK'
  <1>1. ASSUME NEW a \in Actions, Complete(a) \/ Collected(a) PROVE TypeOK'
    BY <1>1, FinishType DEF Complete, Collected
  <1>2. ASSUME NEW a \in Actions, Submitted(a) \/ StillOut(a) PROVE TypeOK'
    <2>1. MemoryType'
      BY <1>2, EndsType DEF Submitted, StillOut
    <2> QED
      BY <1>2, <2>1 DEF Submitted, StillOut, TypeOK, MemoryType, stores, Statuses
  <1>3. ASSUME NEW a \in Actions, RunFails(a) \/ CheckHalts(a) PROVE TypeOK'
    <2>1. PICK marker \in Failures : FailWith(a, marker, {"trouble"})
      BY <1>3 DEF RunFails, CheckHalts, Failures
    <2>2. MemoryType' /\ status' \in [Actions -> Statuses]
          /\ node' \in [Actions -> Blocking \cup {"none"}]
      BY <2>1, FailWithType DEF Mishaps
    <2> QED
      BY <1>3, <2>2 DEF RunFails, CheckHalts, TypeOK, MemoryType
  <1>4. ASSUME NEW a \in Actions, NoInput(a) PROVE TypeOK'
    BY <1>4, SkipType DEF NoInput, Mishaps
  <1>5. ASSUME NEW a \in Actions, BatchFails(a) PROVE TypeOK'
    <2>1. PICK K \in SUBSET Mishaps : FailWith(a, "failed", K)
      BY <1>5 DEF BatchFails, Mishaps
    <2>2. MemoryType' /\ status' \in [Actions -> Statuses]
          /\ node' \in [Actions -> Blocking \cup {"none"}]
      BY <2>1, FailWithType DEF Failures
    <2> QED
      BY <1>5, <2>2 DEF BatchFails, TypeOK, MemoryType, Held
  <1>6. ASSUME NEW a \in Actions, CheckRaises(a) PROVE TypeOK'
    <2>1. MemoryType'
      BY <1>6, StepType DEF CheckRaises, Steps, Mishaps
    <2> QED
      BY <1>6, <2>1 DEF CheckRaises, TypeOK, MemoryType, Blocking, Failures
  <1> QED
    BY <1>1, <1>2, <1>3, <1>4, <1>5, <1>6 DEF Handle

\* An action that changes neither a store nor the limits, and the statuses only in range.
LEMMA TypeEnds ==
    ASSUME TypeOK, NextLevel \/ RunEnds \/ RunRaises \/ Interrupt \/ Exit \/ Crash
    PROVE  TypeOK'
  <1>1. CASE NextLevel
    BY <1>1 DEF NextLevel, EnterLevel, TypeOK, stores, Phases, AtLevel
  <1>2. CASE RunEnds \/ Exit
    BY <1>2, GoneType DEF RunEnds, Exit, TypeOK, stores
  <1>3. ASSUME NEW to \in Statuses, Sweep(to) PROVE status' \in [Actions -> Statuses]
    BY <1>3, WithType DEF Sweep, TypeOK
  <1>4. CASE RunRaises
    BY <1>3, <1>4, GoneType DEF RunRaises, TypeOK, stores, Statuses, Terminal
  <1>5. CASE Interrupt
    <2>1. used' \in [Mishaps -> Nat] /\ \A k \in Mishaps : used'[k] <= Budget'[k]
      BY <1>5, SpendType DEF Interrupt, TypeOK, Mishaps
    <2>2. status' \in [Actions -> Statuses]
      BY <1>3, <1>5 DEF Interrupt, Statuses, Terminal
    <2> QED
      BY <1>5, <2>1, <2>2, GoneType DEF Interrupt, TypeOK, stores, Phases
  <1>6. CASE Crash
    <2>1. used' \in [Mishaps -> Nat] /\ \A k \in Mishaps : used'[k] <= Budget'[k]
      BY <1>6, SpendType DEF Crash, TypeOK, Mishaps
    <2> QED
      BY <1>6, <2>1, GoneType DEF Crash, TypeOK, stores
  <1> QED
    BY <1>1, <1>2, <1>4, <1>5, <1>6

LEMMA TypeChange ==
    ASSUME TypeOK, NEW a \in Actions, EditLimit(a) \/ LoseOutput(a)
    PROVE  TypeOK'
  <1>1. used' \in [Mishaps -> Nat] /\ \A k \in Mishaps : used'[k] <= Budget'[k]
    BY SpendType DEF EditLimit, LoseOutput, TypeOK, Mishaps
  <1> QED
    BY <1>1 DEF EditLimit, LoseOutput, TypeOK, stores, memory, Rows, Held

LEMMA TypeStep == ASSUME TypeOK, [Next]_vars PROVE TypeOK'
  <1>1. CASE UNCHANGED vars
    BY <1>1 DEF vars, stores, memory, TypeOK
  <1>2. CASE Process
    BY <1>2, TypeStartup, TypeVerify, TypeTurn, TypeWork, TypeHandle, TypeEnds DEF Process
  <1>3. CASE Operator
    BY <1>3, TypeStart, TypeEnds, TypeChange DEF Operator
  <1>4. CASE Crash
    BY <1>4, TypeEnds
  <1> QED
    BY <1>1, <1>2, <1>3, <1>4 DEF Next

LEMMA TypeInit == Init => TypeOK
  <1> SUFFICES ASSUME Init PROVE TypeOK
    OBVIOUS
  <1>1. used \in [Mishaps -> Nat] /\ \A k \in Mishaps : used[k] <= Budget[k]
    BY BudgetAssumption DEF Init
  <1>2. status \in [Actions -> Statuses] /\ node \in [Actions -> Blocking \cup {"none"}]
    BY DEF Init, Statuses
  <1>3. /\ rows \in [Actions -> Rows] /\ answers \in [Actions -> Held]
        /\ fails \in [Actions -> BOOLEAN] /\ batch \in [Actions -> Held]
        /\ deferred \in [Actions -> Deferred]
    BY DEF Init, Rows, Held, Deferred
  <1>4. /\ phase \in Phases /\ level \in Nat /\ raised \in BOOLEAN
        /\ pc \in [Actions -> Steps]
    BY DEF Init, Phases, Steps
  <1>5. /\ edited \in SUBSET Actions /\ todo \in SUBSET Actions
        /\ forgetting \in SUBSET Actions /\ reopening \in SUBSET Actions
        /\ keeps \in SUBSET Actions /\ rerun \in SUBSET Actions
    BY DEF Init
  <1> QED
    BY <1>1, <1>2, <1>3, <1>4, <1>5 DEF TypeOK

\* TypeOK holds of every workflow: no handler, mishap or command takes a status, a
\* node-level row or anything in memory out of its range, or spends past a budget.
THEOREM TypeCorrect == Spec => []TypeOK
  BY TypeInit, TypeStep, PTL DEF Spec

-----------------------------------------------------------------------------
(* The inductive invariant behind the safety theorems.  What a completed action may hold *)
(* is decided while its work is under way, and what its work may assume is decided when   *)
(* it begins: so the invariant follows each action through its turn.                      *)

\* One action, wherever it has got to.
Sound(a) ==
    /\ pc[a] # "idle" =>
          /\ phase \in {"run", "drain"}
          /\ status[a] \in InFlight \cup {"interrupted"}
          /\ node[a] \in {"none", "skipped"}
          /\ pc[a] = "collected" => batch[a] = "none"
    /\ Done(a) => node[a] = "none" /\ ~Owes(a)
    /\ status[a] = "batch_submitted" => node[a] \in {"none", "skipped"}
    /\ status[a] \in InFlight =>
          phase \in {"off", "wipe"} \/ (phase = "run" /\ (raised \/ pc[a] # "idle"))
    /\ a \in todo => /\ phase = "run" => pc[a] = "idle"
                     /\ phase = "clear" => status[a] = "pending"

EngineInv ==
    /\ TypeOK
    /\ raised => phase = "run"
    /\ \A a \in Actions : Sound(a)

\* What a step of the turn of a does to the other actions,
Elsewhere(a) == \A x \in Actions \ {a} :
    /\ status'[x] = status[x]
    /\ node'[x] = node[x] \/ (node'[x] = "none" /\ ~Halted(x))
    /\ batch'[x] = "none" <=> batch[x] = "none"

\* to the run,
Moves(a) ==
    \/ Gone /\ used'["crash"] # used["crash"]
    \/ /\ phase' = phase /\ todo' \subseteq todo
       /\ raised => raised'
       /\ raised' => raised \/ phase = "run"
       /\ \A x \in Actions \ {a} : pc'[x] = pc[x]

\* and to a itself.
Does(a) ==
    /\ phase \in {"run", "drain"}
    /\ Elsewhere(a) /\ Moves(a) /\ Sound(a)'
    /\ Halted(a) => Halted(a)' \/ used'["unread"] > used["unread"]

LEMMA SpendCounts ==
    ASSUME used \in [Mishaps -> Nat], NEW K \in SUBSET Mishaps, Spend(K)
    PROVE  \A k \in Mishaps : used'[k] = IF k \in K THEN used[k] + 1 ELSE used[k]
  BY DEF Spend

\* Settling the lost answers of a, it stays complete and keeps its output; a process killed
\* on the way leaves its status as it was.
LEMMA SettlesFacts ==
    ASSUME TypeOK, NEW a \in Actions, VerifySettles(a)
    PROVE  /\ phase = "verify" /\ Done(a) /\ UNCHANGED <<node, rows, batch, edited>>
           /\ \E K \in SUBSET Mishaps : Spend(K)
           /\ \/ Gone /\ used'["crash"] = used["crash"] + 1 /\ "crash" \in Mishaps
                  /\ Budget["crash"] # 0
              \/ /\ todo' = todo \ {a} /\ used'["crash"] = used["crash"]
                 /\ UNCHANGED <<phase, level, pc, forgetting, reopening, keeps, rerun, raised>>
           /\ \A x \in Actions :
                 /\ \/ status'[x] = status[x]
                    \/ status[x] = "completed" /\ status'[x] = "completed_with_failures"
                 /\ \/ answers'[x] = answers[x]
                    \/ x = a /\ answers[x] = "none" /\ answers'[x] \in {"current", "stale"}
                       /\ (rows[x] # "stale" => answers'[x] = "current")
           /\ Settles(a)
  <1>1. PICK fate \in {{}, {"store"}, {"crash"}} : Settling(a, fate)
    BY SettlesBy
  <1> DEFINE K == fate \cup (IF node[a] \in Blocking THEN {"store"} ELSE {})
  <1>2. Spend(K) /\ K \in SUBSET Mishaps /\ ("crash" \in K <=> "crash" \in fate)
    BY <1>1 DEF Settling, Mishaps
  <1> HIDE DEF K
  <1>3. used'["crash"] = IF "crash" \in fate THEN used["crash"] + 1 ELSE used["crash"]
    BY <1>2, SpendCounts DEF TypeOK, Mishaps
  <1>4. \/ Gone /\ used'["crash"] = used["crash"] + 1 /\ "crash" \in Mishaps
           /\ Budget["crash"] # 0
        \/ /\ todo' = todo \ {a} /\ used'["crash"] = used["crash"]
           /\ UNCHANGED <<phase, level, pc, forgetting, reopening, keeps, rerun, raised>>
    <2>1. CASE "crash" \in fate
      <3>1. used["crash"] < Budget["crash"] /\ used["crash"] \in Nat /\ "crash" \in Mishaps
        BY <1>2, <2>1 DEF Spend, TypeOK, Mishaps
      <3>2. Budget["crash"] # 0
        BY <3>1, BudgetAssumption
      <3>3. Gone
        BY <1>1, <2>1 DEF Settling
      <3> QED BY <1>3, <2>1, <3>1, <3>2, <3>3
    <2>2. CASE "crash" \notin fate
      BY <1>1, <1>3, <2>2 DEF Settling
    <2> QED BY <2>1, <2>2
  <1>5. \A x \in Actions :
            \/ status'[x] = status[x]
            \/ status[x] = "completed" /\ status'[x] = "completed_with_failures"
    BY <1>1 DEF Settling, SettledStatus, TypeOK
  <1>6. \A x \in Actions :
            \/ answers'[x] = answers[x]
            \/ x = a /\ answers[x] = "none" /\ answers'[x] \in {"current", "stale"}
               /\ (rows[x] # "stale" => answers'[x] = "current")
    BY DEF VerifySettles, TypeOK
  <1> QED
    BY <1>2, <1>4, <1>5, <1>6 DEF VerifySettles, Verifying

LEMMA DoesKeeps ==
    ASSUME EngineInv, TypeOK', NEW a \in Actions, Does(a)
    PROVE  EngineInv'
  <1>1. raised' => phase' = "run"
    BY DEF EngineInv, Does, Moves, Gone
  <1>2. ASSUME NEW x \in Actions \ {a} PROVE Sound(x)'
    <2>1. CASE Gone
      BY <2>1 DEF Gone, EngineInv, Does, Elsewhere, Sound, Done, Owes
    <2>2. CASE ~Gone
      BY <2>2 DEF EngineInv, Does, Elsewhere, Moves, Sound, Done, Owes
    <2> QED
      BY <2>1, <2>2
  <1> QED
    BY <1>1, <1>2 DEF EngineInv, Does

LEMMA StepMoves ==
    ASSUME NEW a \in Actions, NEW s, TypeOK, Step(a, s),
           raised => raised', raised' => raised \/ phase = "run"
    PROVE  Moves(a) /\ phase' = phase /\ pc'[a] = s /\ a \notin todo'
  BY DEF Step, Moves, TypeOK

LEMMA EndsMoves ==
    ASSUME TypeOK, NEW a \in Actions, NEW K \in SUBSET Mishaps, Ends(a, K)
    PROVE  /\ Moves(a) /\ pc'[a] = "idle" /\ a \notin todo'
           /\ phase' \in {phase, "off"}
  <1>1. CASE "crash" \in K
    BY <1>1, SpendCounts DEF Ends, Moves, Gone, TypeOK, Mishaps
  <1>2. CASE "crash" \notin K
    BY <1>2, StepMoves DEF Ends
  <1> QED
    BY <1>1, <1>2

\* An action failed in its turn is sound, however far the failure got.
LEMMA FailWithDoes ==
    ASSUME EngineInv, NEW a \in Actions, NEW marker \in Failures, NEW why \in SUBSET Mishaps,
           phase = "run", pc[a] # "idle", FailWith(a, marker, why),
           \A x \in Actions \ {a} : batch'[x] = "none" <=> batch[x] = "none"
    PROVE  Does(a)
  <1>1. PICK fate \in {{}, {"store"}, {"crash"}} :
            /\ Ends(a, why \cup fate)
            /\ node' = IF fate = {} THEN [node EXCEPT ![a] = marker] ELSE node
    BY DEF FailWith
  <1>2. why \cup fate \in SUBSET Mishaps
    BY DEF Mishaps
  <1>3. Moves(a) /\ pc'[a] = "idle" /\ a \notin todo'
    BY <1>1, <1>2, EndsMoves DEF EngineInv
  <1>4. status'[a] = "failed"
    BY DEF FailWith, EngineInv, TypeOK
  <1>5. Elsewhere(a)
    BY <1>1 DEF FailWith, Elsewhere, EngineInv, TypeOK
  <1>6. Sound(a)'
    BY <1>3, <1>4 DEF Sound, Done, Completed, InFlight
  <1>7. ~Halted(a)
    BY DEF EngineInv, Sound, Halted, InFlight
  <1> QED
    BY <1>3, <1>5, <1>6, <1>7 DEF Does

\* So is one skipped: a halt it held was lost only if the store could not be asked for it.
LEMMA SkipDoes ==
    ASSUME EngineInv, NEW a \in Actions, NEW drops \in SUBSET {a}, NEW cleared,
           NEW why \in SUBSET Mishaps, Skip(a, drops, cleared, why),
           phase = "run", \A d \in cleared : ~Halted(d),
           Halted(a) => "unread" \in why
    PROVE  Does(a)
  <1> DEFINE Forgets(fate) == IF fate.drop = "none" THEN {} ELSE drops
  <1>1. PICK fate \in SkipFates :
            /\ Ends(a, why \cup fate.cost)
            /\ node' = [With(node, cleared \cup Forgets(fate), "none") EXCEPT
                            ![a] = IF fate.row THEN "skipped" ELSE @]
            /\ batch' = With(batch, Forgets(fate), "none")
    BY DEF Skip
  <1>2. why \cup fate.cost \in SUBSET Mishaps
    BY DEF Mishaps, SkipFates
  <1>3. Moves(a) /\ pc'[a] = "idle" /\ a \notin todo'
    BY <1>1, <1>2, EndsMoves DEF EngineInv
  <1>4. /\ status'[a] = "skipped"
        /\ \A x \in Actions \ {a} : status'[x] = status[x]
    BY DEF Skip, EngineInv, TypeOK
  <1>5. Elsewhere(a)
    <2> SUFFICES ASSUME NEW x \in Actions \ {a}
                 PROVE  /\ node'[x] = node[x] \/ (node'[x] = "none" /\ ~Halted(x))
                        /\ batch'[x] = "none" <=> batch[x] = "none"
      BY <1>4 DEF Elsewhere
    <2>1. x \notin Forgets(fate)
      OBVIOUS
    <2> HIDE DEF Forgets
    <2>2. node'[x] = IF x \in cleared THEN "none" ELSE node[x]
      BY <1>1, <2>1 DEF With
    <2>3. batch'[x] = batch[x]
      BY <1>1, <2>1 DEF With
    <2> QED
      BY <2>2, <2>3
  <1>6. Sound(a)'
    BY <1>3, <1>4 DEF Sound, Done, Completed, InFlight
  <1>7. Halted(a) => used'["unread"] > used["unread"]
    BY <1>1, <1>2, SpendCounts DEF Ends, EngineInv, TypeOK, Mishaps
  <1> QED
    BY <1>3, <1>5, <1>6, <1>7 DEF Does

LEMMA HaltUnreadPays ==
    ASSUME NEW a \in Actions
    PROVE  HaltUnread(a) \in SUBSET Mishaps /\ (Halted(a) => "unread" \in HaltUnread(a))
  BY DEF HaltUnread, Halted, Mishaps

LEMMA TurnDoes == ASSUME EngineInv, Turn PROVE \E a \in Actions : Does(a)
  <1>1. ASSUME NEW a \in Actions, StoreGivesOut(a) PROVE Does(a)
    <2>1. phase = "run" /\ Step(a, "idle") /\ raised'
      BY <1>1 DEF StoreGivesOut, CanStart, Back, PastHalt
    <2>2. Moves(a) /\ phase' = phase /\ pc'[a] = "idle" /\ a \notin todo'
      BY <2>1, StepMoves DEF EngineInv
    <2>3. status'[a] \in {"failed", status[a]} /\ node'[a] = node[a] /\ batch'[a] = batch[a]
      BY <1>1 DEF StoreGivesOut, EngineInv, TypeOK, stores
    <2>4. Elsewhere(a)
      BY <1>1 DEF StoreGivesOut, Elsewhere, EngineInv, TypeOK, stores
    <2>5. Sound(a)'
      BY <2>1, <2>2, <2>3 DEF EngineInv, Sound, Done, Owes, Completed, InFlight
    <2> QED
      BY <2>1, <2>2, <2>3, <2>4, <2>5 DEF Does, Halted
  <1>2. ASSUME NEW a \in Actions, CheckBatch(a) PROVE Does(a)
    <2>1. phase = "run" /\ Step(a, "checking") /\ raised' = raised
      BY <1>2 DEF CheckBatch, CanStart
    <2>2. Moves(a) /\ phase' = phase /\ pc'[a] = "checking" /\ a \notin todo'
      BY <2>1, StepMoves DEF EngineInv
    <2>3. status'[a] = "checking_batch" /\ node'[a] = node[a] /\ status[a] = "batch_submitted"
      BY <1>2 DEF CheckBatch, EngineInv, TypeOK, stores
    <2>4. Elsewhere(a)
      BY <1>2 DEF CheckBatch, Elsewhere, EngineInv, TypeOK, stores
    <2>5. Sound(a)'
      BY <2>1, <2>2, <2>3 DEF EngineInv, Sound, Done, Completed, InFlight
    <2> QED
      BY <2>1, <2>2, <2>3, <2>4, <2>5 DEF Does, Halted
  <1>3. ASSUME NEW a \in Actions, RefuseHalted(a) PROVE Does(a)
    <2>1. phase = "run" /\ Step(a, "idle") /\ raised' = raised /\ a \in todo
      BY <1>3 DEF RefuseHalted, CanStart
    <2>2. Moves(a) /\ phase' = phase /\ pc'[a] = "idle" /\ a \notin todo'
      BY <2>1, StepMoves DEF EngineInv
    <2>3. Elsewhere(a)
      BY <1>3 DEF RefuseHalted, Elsewhere, EngineInv, TypeOK, stores
    <2>4. Sound(a)'
      BY <1>3, <2>1, <2>2 DEF RefuseHalted, EngineInv, Sound, Done, Owes, stores
    <2> QED
      BY <1>3, <2>1, <2>2, <2>3, <2>4 DEF Does, Halted, RefuseHalted, stores
  <1>4. \A a \in Actions : \A d \in Outlived(a) : ~Halted(d)
    BY DEF Outlived, Blocks, Halted
  <1>5. ASSUME NEW a \in Actions, DependencySkip(a) PROVE Does(a)
    <2> DEFINE drops == IF \E d \in Deps[a] : rows[d] = "none" THEN {a} ELSE {}
    <2>1. PICK cleared \in SUBSET Outlived(a) : Skip(a, drops, cleared, HaltUnread(a))
      BY <1>5 DEF DependencySkip
    <2>2. phase = "run" /\ drops \in SUBSET {a}
      BY <1>5 DEF DependencySkip, PastHalt, CanStart
    <2>3. \A d \in cleared : ~Halted(d)
      BY <1>4
    <2> HIDE DEF drops
    <2> QED
      BY <2>1, <2>2, <2>3, HaltUnreadPays, SkipDoes
  <1>6. ASSUME NEW a \in Actions, Begin(a) PROVE Does(a)
    <2>1. /\ phase = "run" /\ raised' = raised /\ Spend(HaltUnread(a))
          /\ Step(a, IF answers[a] = "none" THEN "asking" ELSE "carrying")
      BY <1>6 DEF Begin, PastHalt, CanStart
    <2>2. /\ Moves(a) /\ phase' = phase /\ a \notin todo'
          /\ pc'[a] \in {"asking", "carrying"}
      BY <2>1, StepMoves DEF EngineInv
    <2>3. status'[a] = "running" /\ node'[a] = "none"
      BY <1>6 DEF Begin, With, EngineInv, TypeOK
    <2>4. Elsewhere(a)
      BY <1>4, <1>6 DEF Begin, With, Elsewhere, EngineInv, TypeOK
    <2>5. Sound(a)'
      BY <2>1, <2>2, <2>3 DEF EngineInv, Sound, Done, Completed, InFlight
    <2>6. Halted(a) => used'["unread"] > used["unread"]
      <3>1. HaltUnread(a) \in SUBSET Mishaps /\ (Halted(a) => "unread" \in HaltUnread(a))
        BY HaltUnreadPays
      <3>2. used \in [Mishaps -> Nat] /\ "unread" \in Mishaps
        BY DEF EngineInv, TypeOK, Mishaps
      <3>3. used'["unread"] = IF "unread" \in HaltUnread(a) THEN used["unread"] + 1
                              ELSE used["unread"]
        BY <2>1, <3>1, <3>2, SpendCounts
      <3> QED
        BY <3>1, <3>2, <3>3
    <2> QED
      BY <2>1, <2>2, <2>4, <2>5, <2>6 DEF Does
  <1> QED
    BY <1>1, <1>2, <1>3, <1>5, <1>6 DEF Turn

\* The work goes on, in a run or past an interrupt, without settling anything.
LEMMA WorkDoes == ASSUME EngineInv, Work \/ Collect PROVE \E a \in Actions : Does(a)
  <1>1. ASSUME NEW a \in Actions, At(a, {"asking", "carrying", "checking", "collecting"}),
               NEW s \in Steps \ {"idle"}, Step(a, s), UNCHANGED <<status, raised>>,
               s = "collected" => batch'[a] = "none",
               \A x \in Actions \ {a} : batch'[x] = "none" <=> batch[x] = "none",
               node' = node \/ node' = [node EXCEPT ![a] = "skipped"]
        PROVE  Does(a)
    <2>1. /\ pc[a] # "idle" /\ phase \in {"run", "drain"}
          /\ status[a] \in InFlight \cup {"interrupted"} /\ node[a] \in {"none", "skipped"}
      BY <1>1 DEF At, EngineInv, Sound
    <2>2. Moves(a) /\ phase' = phase /\ pc'[a] = s /\ a \notin todo'
      BY <1>1, StepMoves DEF EngineInv
    <2>3. node'[a] \in {"none", "skipped"} /\ status'[a] = status[a]
      BY <1>1, <2>1 DEF EngineInv, TypeOK
    <2>4. Elsewhere(a)
      BY <1>1 DEF Elsewhere, EngineInv, TypeOK
    <2>5. ~Done(a)' /\ ~Halted(a) /\ status'[a] # "batch_submitted"
      BY <2>1, <2>3 DEF Done, Halted, Completed, InFlight
    <2>6. Sound(a)'
      BY <1>1, <2>1, <2>2, <2>3, <2>5 DEF EngineInv, Sound
    <2> QED
      BY <2>1, <2>2, <2>4, <2>5, <2>6 DEF Does
  <1>2. \A a, x \in Actions : Stale(batch, a)[x] = "none" <=> batch[x] = "none"
    BY DEF Stale
  <1>3. ASSUME NEW a \in Actions, Answer(a) PROVE Does(a)
    <2>1. phase \in {"run", "drain"} /\ pc[a] # "idle"
      BY <1>3 DEF Answer, Working, At
    <2>2. UNCHANGED <<status, node, batch, memory>>
      BY <1>3 DEF Answer
    <2>3. Sound(a)'
      BY <2>2 DEF EngineInv, Sound, Done, Owes, memory
    <2>4. ~Halted(a)
      BY <2>1 DEF EngineInv, Sound, Halted, InFlight
    <2> QED
      BY <2>1, <2>2, <2>3, <2>4 DEF Does, Elsewhere, Moves, memory
  <1>4. ASSUME NEW a \in Actions, Submit(a) PROVE Does(a)
    BY <1>1, <1>4 DEF Submit, Working, At, Steps, EngineInv, TypeOK
  <1>5. ASSUME NEW a \in Actions, MarkCollected(a) PROVE Does(a)
    BY <1>1, <1>5 DEF MarkCollected, At, Steps, EngineInv, TypeOK
  <1>6. ASSUME NEW a \in Actions, NEW outcome, Write(a, outcome) PROVE Does(a)
    <2>1. node' = node \/ node' = [node EXCEPT ![a] = "skipped"]
      BY <1>6 DEF Write, Store
    <2> QED
      BY <1>1, <1>2, <1>6, <2>1 DEF Write, Working, At, Steps
  <1>7. ASSUME NEW a \in Actions, NEW outcome, CollectRows(a, outcome) PROVE Does(a)
    <2>1. node' = node \/ node' = [node EXCEPT ![a] = "skipped"]
      BY <1>7 DEF CollectRows, Store, Unrecorded
    <2> QED
      BY <1>1, <1>2, <1>7, <2>1 DEF CollectRows, At, Steps
  <1> QED
    BY <1>3, <1>4, <1>5, <1>6, <1>7 DEF Work, Collect

\* Work that ends well completes an action only without a marker and with no batch left.
LEMMA FinishDoes ==
    ASSUME EngineInv, NEW a \in Actions, NEW stamped, Finish(a, stamped),
           phase = "run", pc[a] # "idle", ~Owes(a)
    PROVE  Does(a)
  <1>1. CASE Resolution(a) = "failed"
    <2>1. PICK marker \in {"failed", "every_input"} : FailWith(a, marker, {})
      BY <1>1 DEF Finish
    <2> QED
      BY <1>1, <2>1, FailWithDoes DEF Finish, Failures
  <1>2. CASE Resolution(a) # "failed"
    <2>1. Moves(a) /\ pc'[a] = "idle" /\ a \notin todo'
      BY <1>2, EndsMoves DEF Finish, EngineInv
    <2>2. status'[a] = Resolution(a) /\ Resolution(a) \in Completed \cup {"skipped"}
      BY <1>2 DEF Finish, EngineInv, TypeOK, Resolution, Completed
    <2>3. node[a] \in {"none", "skipped"}
      BY DEF EngineInv, Sound
    <2>4. Resolution(a) # "skipped" => node'[a] = "none"
      BY <1>2, <2>3 DEF Finish, EngineInv, TypeOK
    <2>5. batch' = batch
      BY <1>2 DEF Finish
    <2>6. Elsewhere(a)
      BY <1>2, <2>5 DEF Finish, Elsewhere, EngineInv, TypeOK
    <2>7. Sound(a)'
      BY <2>1, <2>2, <2>4, <2>5 DEF Sound, Done, Owes, Completed, InFlight
    <2>8. ~Halted(a)
      BY DEF EngineInv, Sound, Halted, InFlight
    <2> QED
      BY <2>1, <2>6, <2>7, <2>8 DEF Does
  <1> QED
    BY <1>1, <1>2

LEMMA HandleDoes == ASSUME EngineInv, Handle PROVE \E a \in Actions : Does(a)
  <1>1. ASSUME NEW a \in Actions, Complete(a) PROVE Does(a)
    BY <1>1, FinishDoes DEF Complete, Back
  <1>2. ASSUME NEW a \in Actions, Collected(a) PROVE Does(a)
    <2>1. phase = "run" /\ pc[a] = "collected" /\ Finish(a, {})
      BY <1>2 DEF Collected, Back
    <2>2. ~Owes(a)
      BY <2>1 DEF EngineInv, Sound, Owes
    <2> QED
      BY <2>1, <2>2, FinishDoes
  <1>3. ASSUME NEW a \in Actions, Submitted(a) \/ StillOut(a) PROVE Does(a)
    <2>1. /\ phase = "run" /\ pc[a] # "idle" /\ Ends(a, {}) /\ UNCHANGED stores
          /\ status' = [status EXCEPT ![a] = "batch_submitted"]
      BY <1>3 DEF Submitted, StillOut, Back
    <2>2. Moves(a) /\ pc'[a] = "idle" /\ a \notin todo'
      BY <2>1, EndsMoves DEF EngineInv
    <2>3. node'[a] \in {"none", "skipped"} /\ status'[a] = "batch_submitted" /\ ~Halted(a)
      BY <2>1 DEF EngineInv, TypeOK, Sound, Halted, InFlight, stores
    <2>4. Elsewhere(a)
      BY <2>1 DEF Elsewhere, EngineInv, TypeOK, stores
    <2>5. Sound(a)'
      BY <2>2, <2>3 DEF Sound, Done, Completed, InFlight
    <2> QED
      BY <2>1, <2>2, <2>3, <2>4, <2>5 DEF Does
  <1>4. ASSUME NEW a \in Actions, RunFails(a) \/ CheckHalts(a) PROVE Does(a)
    <2>1. /\ phase = "run" /\ pc[a] # "idle" /\ batch' = batch
          /\ \E marker \in Failures : FailWith(a, marker, {"trouble"})
      BY <1>4 DEF RunFails, CheckHalts, Back, Failures
    <2> QED
      BY <2>1, FailWithDoes DEF Mishaps
  <1>5. ASSUME NEW a \in Actions, NoInput(a) PROVE Does(a)
    <2>1. phase = "run" /\ pc[a] # "idle"
      BY <1>5 DEF NoInput, Back
    <2>2. PICK K \in SUBSET Mishaps : Skip(a, {a}, {}, K)
      BY <1>5 DEF NoInput, Mishaps
    <2>3. ~Halted(a)
      BY <2>1 DEF EngineInv, Sound, Halted, InFlight
    <2> QED
      BY <2>1, <2>2, <2>3, SkipDoes
  <1>6. ASSUME NEW a \in Actions, BatchFails(a) PROVE Does(a)
    <2>1. /\ phase = "run" /\ pc[a] # "idle" /\ batch' = [batch EXCEPT ![a] = "none"]
          /\ \E K \in SUBSET Mishaps : FailWith(a, "failed", K)
      BY <1>6 DEF BatchFails, Back, Mishaps
    <2>2. \A x \in Actions \ {a} : batch'[x] = "none" <=> batch[x] = "none"
      BY <2>1 DEF EngineInv, TypeOK
    <2> QED
      BY <2>1, <2>2, FailWithDoes DEF Failures
  <1>7. ASSUME NEW a \in Actions, CheckRaises(a) PROVE Does(a)
    <2>1. /\ phase = "run" /\ pc[a] \in {"checking", "collecting", "collected"}
          /\ Step(a, "idle") /\ raised' /\ UNCHANGED <<status, batch>>
          /\ node' = node \/ node' = [node EXCEPT ![a] = "failed"]
      BY <1>7 DEF CheckRaises, Back
    <2>2. Moves(a) /\ phase' = phase /\ pc'[a] = "idle" /\ a \notin todo'
      BY <2>1, StepMoves DEF EngineInv
    <2>3. Elsewhere(a)
      BY <2>1 DEF Elsewhere, EngineInv, TypeOK
    <2>4. status[a] \in InFlight \cup {"interrupted"}
      BY <2>1 DEF EngineInv, Sound
    <2>5. ~Halted(a) /\ ~Done(a)' /\ status'[a] # "batch_submitted"
      BY <2>1, <2>4 DEF Halted, Done, Completed, InFlight
    <2>6. Sound(a)'
      BY <2>1, <2>2, <2>5 DEF Sound
    <2> QED
      BY <2>1, <2>2, <2>3, <2>5, <2>6 DEF Does
  <1> QED
    BY <1>1, <1>2, <1>3, <1>4, <1>5, <1>6, <1>7 DEF Handle

\* Between turns every action is idle.
LEMMA Idle == ASSUME EngineInv, phase \notin {"run", "drain"}
              PROVE  (\A a \in Actions : pc[a] = "idle") /\ ~raised
  BY DEF EngineInv, Sound

LEMMA StartKeeps ==
    ASSUME EngineInv, TypeOK', StartPlain \/ StartPlainUnread \/ StartRerun \/ StartFresh
    PROVE  EngineInv'
  <1>1. ASSUME NEW named, NEW unread, StartRun(named, unread) PROVE EngineInv'
    <2>1. /\ phase = "off" /\ phase' = "clear" /\ todo' = PutBack(unread)
          /\ UNCHANGED <<node, batch, pc, raised>>
          /\ \A x \in Actions : status'[x] = IF x \in PutBack(unread) THEN "pending" ELSE status[x]
      BY <1>1 DEF StartRun, stores, With
    <2>2. (\A x \in Actions : pc[x] = "idle") /\ ~raised
      BY <2>1, Idle
    <2>3. \A x \in Actions : status[x] \in InFlight => x \in PutBack(unread)
      BY DEF PutBack, InFlight, Retryable, MidProcessing, Halted
    <2>4. ASSUME NEW x \in Actions PROVE Sound(x)'
      BY <2>1, <2>2, <2>3 DEF EngineInv, Sound, Done, Owes, Completed, InFlight
    <2> QED
      BY <2>1, <2>2, <2>4 DEF EngineInv
  <1>2. CASE StartFresh
    <2>1. phase = "off" /\ phase' = "wipe" /\ UNCHANGED <<status, node, batch, pc, raised>>
      BY <1>2 DEF StartFresh, stores
    <2>2. (\A x \in Actions : pc[x] = "idle") /\ ~raised
      BY <2>1, Idle
    <2>3. ASSUME NEW x \in Actions PROVE Sound(x)'
      BY <2>1, <2>2 DEF EngineInv, Sound, Done, Owes
    <2> QED
      BY <2>1, <2>2, <2>3 DEF EngineInv
  <1> QED
    BY <1>1, <1>2 DEF StartPlain, StartPlainUnread, StartRerun

\* A store cleared, or an action put back to pending, between turns.
LEMMA QuietKeeps ==
    ASSUME EngineInv, TypeOK', phase \notin {"off", "run", "drain"},
           \/ Gone
           \/ /\ phase' \in {"reset", "verify"} \/ phase' = phase
              /\ phase = "wipe" => phase' = "wipe" \/ \A x \in Actions : status'[x] = "pending"
              /\ pc' = pc /\ raised' = raised
              /\ phase' = "clear" => todo' \subseteq todo,
           \A x \in Actions : /\ \/ status'[x] \in {status[x], "pending"}
                                 \/ Done(x) /\ Done(x)'
                              /\ node'[x] \in {node[x], "none"}
                              /\ batch'[x] \in {batch[x], "none"}
    PROVE  EngineInv'
  <1>1. (\A x \in Actions : pc[x] = "idle") /\ ~raised
    BY Idle
  <1>2. ~raised' /\ (\A x \in Actions : pc'[x] = "idle")
    BY <1>1 DEF Gone
  <1>3. ASSUME NEW x \in Actions PROVE Sound(x)'
    <2>1. CASE Gone
      BY <1>1, <1>2, <2>1 DEF EngineInv, Sound, Done, Owes, Completed, InFlight, Gone
    <2>2. CASE ~Gone
      BY <1>1, <1>2, <2>2 DEF EngineInv, Sound, Done, Owes, Completed, InFlight
    <2> QED
      BY <2>1, <2>2
  <1> QED
    BY <1>2, <1>3 DEF EngineInv

LEMMA StartupKeeps == ASSUME EngineInv, TypeOK', Startup PROVE EngineInv'
  <1>1. CASE StartupDone
    BY <1>1, QuietKeeps DEF StartupDone, stores
  <1>2. CASE WipeDone
    BY <1>2, QuietKeeps DEF WipeDone, EnterLevel, stores
  <1>3. ASSUME NEW a \in Actions, ClearReset(a) PROVE EngineInv'
    <2>1. \A x \in Actions : node'[x] \in {node[x], "none"}
      BY <1>3 DEF ClearReset, EngineInv, TypeOK
    <2> QED
      BY <1>3, <2>1, QuietKeeps DEF ClearReset
  <1>4. ASSUME NEW a \in Actions, NEW refused, Wipe(a, refused) PROVE EngineInv'
    <2>1. \A x \in Actions : node'[x] \in {node[x], "none"} /\ batch'[x] \in {batch[x], "none"}
      BY <1>4 DEF Wipe, EngineInv, TypeOK
    <2> QED
      BY <1>4, <2>1, QuietKeeps DEF Wipe
  <1> QED
    BY <1>1, <1>2, <1>3, <1>4 DEF Startup

LEMMA VerifyKeeps == ASSUME EngineInv, TypeOK', Verify PROVE EngineInv'
  <1>1. CASE Reopen
    <2>1. \A x \in Actions : status'[x] \in {status[x], "pending"}
      BY <1>1 DEF Reopen, With
    <2> QED
      BY <1>1, <2>1, QuietKeeps DEF Reopen, stores
  <1>2. CASE BeginLevel
    <2>1. phase = "verify" /\ phase' = "run" /\ UNCHANGED <<status, node, batch, pc, raised>>
      BY <1>2 DEF BeginLevel, stores
    <2>2. (\A x \in Actions : pc[x] = "idle") /\ ~raised
      BY <2>1, Idle
    <2>3. ASSUME NEW x \in Actions PROVE Sound(x)'
      BY <2>1, <2>2 DEF EngineInv, Sound, Done, Owes
    <2> QED
      BY <2>1, <2>2, <2>3 DEF EngineInv
  <1>3. ASSUME NEW a \in Actions, Forget(a) PROVE EngineInv'
    <2>1. \A x \in Actions : node'[x] \in {node[x], "none"} /\ batch'[x] \in {batch[x], "none"}
      BY <1>3 DEF Forget, EngineInv, TypeOK
    <2> QED
      BY <1>3, <2>1, QuietKeeps DEF Forget
  <1>4. ASSUME NEW a \in Actions, VerifyLimits(a) \/ VerifyStands(a) PROVE EngineInv'
    BY <1>4, QuietKeeps DEF VerifyLimits, VerifyStands, Verifying, ResetFrom, stores
  <1>5. ASSUME NEW a \in Actions, VerifyRefuses(a) PROVE EngineInv'
    <2>1. CASE node[a] \in Blocking
      <3>1. \A x \in Actions : status'[x] \in {status[x], "pending"} /\ node'[x] \in {node[x], "none"}
        BY <1>5, <2>1 DEF VerifyRefuses, EngineInv, TypeOK
      <3> QED
        BY <1>5, <2>1, <3>1, QuietKeeps DEF VerifyRefuses, Verifying
    <2>2. CASE node[a] \notin Blocking
      BY <1>5, <2>2, QuietKeeps DEF VerifyRefuses, Verifying, ResetFrom, stores
    <2> QED
      BY <2>1, <2>2
  <1>6. ASSUME NEW a \in Actions, VerifySettles(a) PROVE EngineInv'
    <2>1. \A x \in Actions : status'[x] = status[x] \/ (Done(x) /\ Done(x)')
      BY <1>6, SettlesFacts DEF EngineInv, Done, Completed
    <2>2. phase = "verify" /\ UNCHANGED <<node, batch>>
      BY <1>6, SettlesFacts DEF EngineInv
    <2>3. Gone \/ UNCHANGED <<phase, pc, raised>>
      BY <1>6, SettlesFacts DEF EngineInv
    <2> QED
      BY <2>1, <2>2, <2>3, QuietKeeps
  <1> QED
    BY <1>1, <1>2, <1>3, <1>4, <1>5, <1>6 DEF Verify

\* What every way out of a run does.
LEMMA EndsKeeps ==
    ASSUME EngineInv, TypeOK', NextLevel \/ RunEnds \/ RunRaises \/ Interrupt \/ Exit \/ Crash
    PROVE  EngineInv'
  <1>1. CASE NextLevel
    <2>1. phase = "run" /\ phase' = "verify" /\ ~raised /\ UNCHANGED <<status, node, batch, pc, raised>>
      BY <1>1 DEF NextLevel, LevelOver, EnterLevel, stores
    <2>2. \A x \in Actions : pc[x] = "idle"
      BY <1>1 DEF NextLevel, LevelOver, Busy
    <2>3. ASSUME NEW x \in Actions PROVE Sound(x)'
      BY <2>1, <2>2 DEF EngineInv, Sound, Done, Owes
    <2> QED
      BY <2>1, <2>3 DEF EngineInv
  <1>2. ASSUME Gone, UNCHANGED <<node, batch>>,
               \A x \in Actions : status'[x] = status[x] \/ status'[x] \in {"failed", "interrupted"}
        PROVE  EngineInv'
    <2>1. ASSUME NEW x \in Actions PROVE Sound(x)'
      BY <1>2 DEF Gone, EngineInv, Sound, Done, Owes, Completed, InFlight
    <2> QED
      BY <1>2, <2>1 DEF Gone, EngineInv
  <1>3. CASE RunEnds \/ Exit \/ Crash
    BY <1>2, <1>3 DEF RunEnds, Exit, Crash, stores
  <1>4. ASSUME NEW to, Sweep(to)
        PROVE  \A x \in Actions : status'[x] = IF status[x] \in InFlight THEN to ELSE status[x]
    BY <1>4 DEF Sweep, With
  <1>5. CASE RunRaises
    BY <1>2, <1>4, <1>5 DEF RunRaises, stores
  <1>6. CASE Interrupt
    <2>1. CASE Sequential \/ Busy = {}
      BY <1>2, <1>4, <1>6, <2>1 DEF Interrupt, stores
    <2>2. CASE ~(Sequential \/ Busy = {})
      <3>1. phase' = "drain" /\ todo' = {} /\ ~raised' /\ UNCHANGED <<node, batch, pc>>
        BY <1>6, <2>2 DEF Interrupt, stores
      <3>2. \A x \in Actions : status'[x] = IF status[x] \in InFlight THEN "interrupted" ELSE status[x]
        BY <1>4, <1>6 DEF Interrupt
      <3>3. ASSUME NEW x \in Actions PROVE Sound(x)'
        BY <3>1, <3>2 DEF EngineInv, Sound, Done, Owes, Completed, InFlight
      <3> QED
        BY <3>1, <3>3 DEF EngineInv
    <2> QED
      BY <2>1, <2>2
  <1> QED
    BY <1>1, <1>3, <1>5, <1>6

LEMMA InvStep == ASSUME EngineInv, [Next]_vars PROVE EngineInv'
  <1>1. TypeOK'
    BY TypeStep DEF EngineInv
  <1>2. CASE UNCHANGED vars
    BY <1>1, <1>2 DEF vars, stores, memory, EngineInv, Sound, Done, Owes
  <1>3. CASE Startup
    BY <1>1, <1>3, StartupKeeps
  <1>4. CASE Verify
    BY <1>1, <1>4, VerifyKeeps
  <1>5. CASE Turn \/ Work \/ Collect \/ Handle
    BY <1>1, <1>5, TurnDoes, WorkDoes, HandleDoes, DoesKeeps
  <1>6. CASE NextLevel \/ RunEnds \/ RunRaises \/ Interrupt \/ Exit \/ Crash
    BY <1>1, <1>6, EndsKeeps
  <1>7. CASE StartPlain \/ StartPlainUnread \/ StartRerun \/ StartFresh
    BY <1>1, <1>7, StartKeeps
  <1>8. ASSUME NEW a \in Actions, EditLimit(a) \/ LoseOutput(a) PROVE EngineInv'
    BY <1>1, <1>8 DEF EditLimit, LoseOutput, stores, memory, EngineInv, Sound, Done, Owes
  <1> QED
    BY <1>2, <1>3, <1>4, <1>5, <1>6, <1>7, <1>8 DEF Next, Process, Operator

THEOREM EngineSound == Spec => []EngineInv
  <1>1. Init => EngineInv
    <2>1. Init => TypeOK
      BY TypeInit
    <2> QED
      BY <2>1 DEF Init, EngineInv, Sound, Done, Completed, InFlight
  <1> QED
    BY <1>1, InvStep, PTL DEF Spec

\* CompletedNotBlocked: no completed action carries a node-level failure or skip, which its
\* readers and the next run would take for its state.
THEOREM NeverCompletedBlocked == Spec => []CompletedNotBlocked
  <1>1. EngineInv => CompletedNotBlocked
    BY DEF EngineInv, Sound, CompletedNotBlocked, Blocking, Failures
  <1> QED
    BY <1>1, EngineSound, PTL

\* CompletedOwesNothing: a completed action has no batch at the provider no run collects.
THEOREM NeverCompletedOwing == Spec => []CompletedOwesNothing
  <1>1. EngineInv => CompletedOwesNothing
    BY DEF EngineInv, Sound, CompletedOwesNothing
  <1> QED
    BY <1>1, EngineSound, PTL

\* HaltStands: a halt is lifted only by a reset, --fresh, or a store that cannot be read.
THEOREM HaltsStand == Spec => HaltStands
  <1> DEFINE Lifted(a) == Halted(a) /\ ~(Halted(a))'
             Allowed == phase \in {"reset", "wipe"} \/ used'["unread"] > used["unread"]
  <1>1. ASSUME EngineInv, [Next]_vars, NEW a \in Actions, Lifted(a) PROVE Allowed
    <2>1. CASE UNCHANGED <<status, node>>
      BY <1>1, <2>1 DEF Halted
    <2>2. CASE Startup
      <3>1. CASE phase = "clear"
        BY <1>1, <2>2, <3>1 DEF Startup, StartupDone, WipeDone, ClearReset, Wipe, stores,
                                Halted, EngineInv, Sound, TypeOK
      <3>2. CASE phase # "clear"
        BY <2>2, <3>2 DEF Startup, StartupDone, WipeDone, ClearReset, Wipe
      <3> QED
        BY <3>1, <3>2
    <2>3. CASE Verify
      <3>1. ASSUME NEW x \in Actions, VerifyRefuses(x) PROVE Allowed
        BY <1>1, <3>1 DEF VerifyRefuses, Verifying, ResetFrom, stores, Halted, Done, Completed,
                          EngineInv, TypeOK
      <3>2. ASSUME NEW x \in Actions, VerifyLimits(x) \/ VerifyStands(x) PROVE Allowed
        BY <2>1, <3>2 DEF VerifyLimits, VerifyStands, ResetFrom, stores
      <3>3. CASE BeginLevel
        BY <2>1, <3>3 DEF BeginLevel, stores
      <3>4. ASSUME NEW x \in Actions, Reopen \/ Forget(x) PROVE Allowed
        BY <3>4 DEF Reopen, Forget
      <3>5. CASE Reopen
        BY <3>5 DEF Reopen
      <3>6. ASSUME NEW x \in Actions, VerifySettles(x) PROVE Allowed
        <4>1. Halted(a)'
          BY <1>1, <3>6, SettlesFacts DEF Halted, EngineInv
        <4> QED BY <1>1, <4>1
      <3> QED
        BY <2>3, <3>1, <3>2, <3>3, <3>4, <3>5, <3>6 DEF Verify
    <2>4. CASE Turn \/ Work \/ Collect \/ Handle
      <3>1. PICK x \in Actions : Does(x)
        BY <1>1, <2>4, TurnDoes, WorkDoes, HandleDoes
      <3> QED
        BY <1>1, <3>1 DEF Does, Elsewhere, Halted
    <2>5. CASE NextLevel \/ RunEnds \/ Exit \/ Crash
      BY <2>1, <2>5 DEF NextLevel, RunEnds, Exit, Crash, stores
    <2>6. CASE RunRaises \/ Interrupt
      <3>1. node' = node /\ (status[a] \notin InFlight => status'[a] = status[a])
        BY <2>6 DEF RunRaises, Interrupt, Sweep, With, stores
      <3> QED
        BY <1>1, <3>1 DEF Halted, InFlight
    <2>7. ASSUME NEW named, NEW unread, StartRun(named, unread),
                 unread = {} \/ used'["unread"] > used["unread"]
          PROVE  Allowed
      BY <1>1, <2>7 DEF StartRun, PutBack, With, stores, Halted
    <2>8. ASSUME NEW named \in SUBSET Actions, NEW unread \in SUBSET Actions, StartRun(named, unread)
          PROVE  unread = {} \/ used'["unread"] > used["unread"]
      <3>1. used \in [Mishaps -> Nat] /\ "unread" \in Mishaps
        BY <1>1 DEF EngineInv, TypeOK, Mishaps
      <3>2. PICK K \in SUBSET Mishaps : Spend(K) /\ (unread # {} => "unread" \in K)
        BY <2>8 DEF StartRun, Mishaps
      <3> QED
        BY <3>1, <3>2, SpendCounts
    <2>9. CASE StartPlain \/ StartPlainUnread \/ StartRerun
      BY <2>7, <2>8, <2>9 DEF StartPlain, StartPlainUnread, StartRerun
    <2>10. CASE StartFresh \/ \E x \in Actions : EditLimit(x) \/ LoseOutput(x)
      BY <2>1, <2>10 DEF StartFresh, EditLimit, LoseOutput, stores
    <2>11. CASE UNCHANGED vars
      BY <2>1, <2>11 DEF vars, stores
    <2> QED
      BY <1>1, <2>2, <2>3, <2>4, <2>5, <2>6, <2>9, <2>10, <2>11 DEF Next, Process, Operator
  <1>2. EngineInv /\ [Next]_vars =>
          [\A a \in Actions : Halted(a) /\ ~(Halted(a))' =>
              phase \in {"reset", "wipe"} \/ used'["unread"] > used["unread"]]_vars
    BY <1>1
  <1> QED
    BY <1>2, EngineSound, PTL DEF Spec, HaltStands

LEMMA SweptStep ==
    ASSUME EngineInv, [Next]_vars, phase # "off", phase' = "off", used'["crash"] = used["crash"]
    PROVE  \A x \in Actions : status'[x] \notin InFlight
  <1> DEFINE Swept == \A x \in Actions : status'[x] \notin InFlight
  <1>1. CASE Startup
    BY <1>1 DEF Startup, StartupDone, WipeDone, EnterLevel, ClearReset, Wipe
  <1>2. CASE Verify
    <2>1. ASSUME NEW x \in Actions, Forget(x) PROVE Swept
      BY <2>1, SpendCounts DEF Forget, EngineInv, TypeOK, Mishaps
    <2>2. ASSUME NEW x \in Actions, VerifySettles(x) PROVE Swept
      <3>1. used["crash"] \in Nat
        BY DEF EngineInv, TypeOK, Mishaps
      <3>2. TypeOK
        BY DEF EngineInv
      <3> QED BY <2>2, <3>1, <3>2, SettlesFacts
    <2> QED
      BY <1>2, <2>1, <2>2 DEF Verify, Reopen, BeginLevel, VerifyLimits, VerifyRefuses,
                              VerifyStands, Verifying, ResetFrom
  <1>3. CASE Turn \/ Work \/ Collect \/ Handle
    BY <1>3, TurnDoes, WorkDoes, HandleDoes DEF Does, Moves
  <1>4. CASE RunEnds
    BY <1>4 DEF RunEnds, LevelOver, Busy, EngineInv, Sound
  <1>5. CASE Exit
    BY <1>5 DEF Exit, EngineInv, Sound
  <1>6. CASE RunRaises \/ Interrupt
    BY <1>6 DEF RunRaises, Interrupt, Sweep, With, InFlight
  <1>7. CASE Crash
    BY <1>7, SpendCounts DEF Crash, EngineInv, TypeOK, Mishaps
  <1>8. CASE NextLevel \/ Operator \/ UNCHANGED vars
    BY <1>6, <1>8 DEF NextLevel, EnterLevel, Operator, StartPlain, StartPlainUnread,
          StartRerun, StartRun, StartFresh, EditLimit, LoseOutput, vars, memory
  <1> QED
    BY <1>1, <1>2, <1>3, <1>4, <1>5, <1>6, <1>7, <1>8 DEF Next, Process

\* NothingLeftInFlight: a process that ends, by whatever way but being killed, leaves no
\* action reading as running or being checked.
THEOREM EndsSwept == Spec => NothingLeftInFlight
  <1>1. EngineInv /\ [Next]_vars =>
          [phase # "off" /\ phase' = "off" /\ used'["crash"] = used["crash"]
              => \A a \in Actions : status'[a] \notin InFlight]_vars
    BY SweptStep
  <1> QED
    BY <1>1, EngineSound, PTL DEF Spec, NothingLeftInFlight

-----------------------------------------------------------------------------
(* The status file, read from outside: the engine implements RunFiles.                    *)

LEMMA UsedCounts ==
    ASSUME TypeOK, [Next]_vars
    PROVE  \A k \in Mishaps : used'[k] \in {used[k], used[k] + 1}
  <1> SUFFICES used' = used \/ \E K \in SUBSET Mishaps : Spend(K)
    BY SpendCounts DEF TypeOK
  <1> USE DEF Mishaps
  <1>1. CASE Startup
    BY <1>1 DEF Startup, StartupDone, WipeDone, ClearReset, Wipe
  <1>2. CASE Verify
    BY <1>2, SettlesFacts
    DEF Verify, Reopen, BeginLevel, Forget, VerifyLimits, VerifyRefuses, VerifyStands, ResetFrom
  <1>3. ASSUME NEW a \in Actions, NEW why \in SUBSET Mishaps, NEW marker, FailWith(a, marker, why)
        PROVE  \E K \in SUBSET Mishaps : Spend(K)
    <2>1. PICK fate \in {{}, {"store"}, {"crash"}} : Ends(a, why \cup fate)
      BY <1>3 DEF FailWith
    <2>2. why \cup fate \in SUBSET Mishaps
      OBVIOUS
    <2> QED
      BY <2>1, <2>2 DEF Ends
  <1>4. ASSUME NEW a \in Actions, NEW why \in SUBSET Mishaps, NEW drops, NEW cleared,
               Skip(a, drops, cleared, why)
        PROVE  \E K \in SUBSET Mishaps : Spend(K)
    <2>1. PICK fate \in SkipFates : Ends(a, why \cup fate.cost)
      BY <1>4 DEF Skip
    <2>2. why \cup fate.cost \in SUBSET Mishaps
      BY DEF SkipFates
    <2> QED
      BY <2>1, <2>2 DEF Ends
  <1>5. CASE Turn
    <2>1. ASSUME NEW a \in Actions, DependencySkip(a) PROVE \E K \in SUBSET Mishaps : Spend(K)
      BY <1>4, <2>1 DEF DependencySkip, HaltUnread
    <2> QED
      BY <1>5, <2>1 DEF Turn, StoreGivesOut, CheckBatch, RefuseHalted, Begin, HaltUnread
  <1>6. CASE Work \/ Collect
    <2>1. ASSUME NEW a \in Actions, NEW outcome, NEW new,
                 Store(a, outcome, new) \/ Unrecorded(a, outcome, new)
          PROVE  \E K \in SUBSET Mishaps : Spend(K)
      <3>1. \/ Spend(IF outcome = "ok" THEN {} ELSE {"trouble"})
            \/ Spend({"store"} \cup IF outcome = "ok" THEN {} ELSE {"trouble"})
        BY <2>1 DEF Store, Unrecorded
      <3>2. /\ (IF outcome = "ok" THEN {} ELSE {"trouble"}) \in SUBSET Mishaps
            /\ ({"store"} \cup IF outcome = "ok" THEN {} ELSE {"trouble"}) \in SUBSET Mishaps
        OBVIOUS
      <3> QED BY <3>1, <3>2
    <2> QED
      BY <1>6, <2>1 DEF Work, Collect, Answer, Submit, MarkCollected, Write, CollectRows
  <1>7. CASE Handle
    <2>1. ASSUME NEW a \in Actions, NEW stamped, Finish(a, stamped)
          PROVE  \E K \in SUBSET Mishaps : Spend(K)
      BY <1>3, <2>1 DEF Finish, Ends
    <2>2. ASSUME NEW a \in Actions, NoInput(a) PROVE \E K \in SUBSET Mishaps : Spend(K)
      BY <1>4, <2>2 DEF NoInput
    <2>3. ASSUME NEW a \in Actions, RunFails(a) \/ CheckHalts(a) \/ BatchFails(a)
          PROVE  \E K \in SUBSET Mishaps : Spend(K)
      BY <1>3, <2>3 DEF RunFails, CheckHalts, BatchFails
    <2> QED
      BY <1>7, <2>1, <2>2, <2>3
      DEF Handle, Complete, Collected, Submitted, StillOut, CheckRaises, Ends
  <1>8. CASE StartPlain \/ StartPlainUnread \/ StartRerun \/ StartFresh
    BY <1>8 DEF StartPlain, StartPlainUnread, StartRerun, StartRun, StartFresh
  <1>9. CASE NextLevel \/ RunEnds \/ RunRaises \/ Interrupt \/ Exit \/ Crash
    BY <1>9 DEF NextLevel, RunEnds, RunRaises, Interrupt, Exit, Crash
  <1>10. CASE UNCHANGED vars \/ \E a \in Actions : EditLimit(a) \/ LoseOutput(a)
    BY <1>10 DEF vars, EditLimit, LoseOutput
  <1> QED
    BY <1>1, <1>2, <1>5, <1>6, <1>7, <1>8, <1>9, <1>10 DEF Next, Process, Operator

\* What a step of an action's turn does to the run and to the statuses: only an action under
\* way, or whose turn comes, has its status written.
Turned ==
    /\ \/ Gone
       \/ /\ phase' = phase /\ level' = level /\ todo' \subseteq todo
          /\ used'["crash"] = used["crash"]
          /\ \A x \in Actions : pc'[x] # "idle" => pc[x] # "idle" \/ x \in todo
    /\ \A x \in Actions : status'[x] # status[x] =>
          /\ phase = "run" /\ (x \in todo \/ pc[x] # "idle") /\ x \notin todo'
          /\ status'[x] # "interrupted"

\* The write of a step of the turn of a, and what it leaves of the run.
Marks(a) == \E s \in Statuses \ {"interrupted"} : phase = "run" /\ status' = [status EXCEPT ![a] = s]

LEMMA StepTurned ==
    ASSUME TypeOK, NEW a \in Actions, NEW s, Step(a, s), used'["crash"] = used["crash"],
           pc[a] # "idle" \/ a \in todo, UNCHANGED status \/ Marks(a)
    PROVE  Turned
  <1>1. /\ phase' = phase /\ level' = level /\ todo' = todo \ {a}
        /\ \A x \in Actions \ {a} : pc'[x] = pc[x]
    BY DEF Step, TypeOK
  <1>2. \A x \in Actions : status'[x] # status[x] =>
            x = a /\ phase = "run" /\ status'[x] # "interrupted"
    BY DEF Marks, TypeOK
  <1> QED
    BY <1>1, <1>2 DEF Turned

LEMMA EndsTurned ==
    ASSUME TypeOK, NEW a \in Actions, NEW K \in SUBSET Mishaps, Ends(a, K),
           pc[a] # "idle" \/ a \in todo, Marks(a)
    PROVE  Turned
  <1>1. CASE "crash" \in K
    BY <1>1 DEF Ends, Gone, Turned, Marks, TypeOK
  <1>2. CASE "crash" \notin K
    BY <1>2, StepTurned, SpendCounts DEF Ends, TypeOK, Mishaps
  <1> QED
    BY <1>1, <1>2

LEMMA FailWithTurned ==
    ASSUME TypeOK, NEW a \in Actions, NEW marker, NEW why \in SUBSET Mishaps,
           FailWith(a, marker, why), phase = "run", pc[a] # "idle"
    PROVE  Turned
  <1>1. PICK fate \in {{}, {"store"}, {"crash"}} : Ends(a, why \cup fate)
    BY DEF FailWith
  <1>2. why \cup fate \in SUBSET Mishaps
    BY DEF Mishaps
  <1>3. Marks(a)
    BY DEF FailWith, Marks, Statuses, Terminal
  <1> QED
    BY <1>1, <1>2, <1>3, EndsTurned

LEMMA SkipTurned ==
    ASSUME TypeOK, NEW a \in Actions, NEW drops, NEW cleared, NEW why \in SUBSET Mishaps,
           Skip(a, drops, cleared, why), phase = "run", pc[a] # "idle" \/ a \in todo
    PROVE  Turned
  <1>1. PICK fate \in SkipFates : Ends(a, why \cup fate.cost)
    BY DEF Skip
  <1>2. why \cup fate.cost \in SUBSET Mishaps
    BY DEF Mishaps, SkipFates
  <1>3. Marks(a)
    BY DEF Skip, Marks, Statuses, Terminal
  <1> QED
    BY <1>1, <1>2, <1>3, EndsTurned

LEMMA TurnTurned == ASSUME TypeOK, Turn \/ Work \/ Collect \/ Handle PROVE Turned
  <1>1. \A s \in {"failed", "checking_batch", "running", "batch_submitted", "skipped",
                  "completed", "completed_with_failures"} : s \in Statuses \ {"interrupted"}
    BY DEF Statuses, Terminal, Completed, InFlight
  <1>2. ASSUME NEW K \in SUBSET (Mishaps \ {"crash"}), Spend(K) PROVE used'["crash"] = used["crash"]
    BY <1>2, SpendCounts DEF TypeOK, Mishaps
  <1>3. ASSUME NEW a \in Actions, StoreGivesOut(a) PROVE Turned
    BY <1>1, <1>2, <1>3, StepTurned DEF StoreGivesOut, CanStart, PastHalt, Back, Marks, Mishaps
  <1>4. ASSUME NEW a \in Actions, CheckBatch(a) \/ RefuseHalted(a) PROVE Turned
    BY <1>1, <1>4, StepTurned DEF CheckBatch, RefuseHalted, CanStart, Marks
  <1>5. ASSUME NEW a \in Actions, DependencySkip(a) PROVE Turned
    <2>1. HaltUnread(a) \in SUBSET Mishaps
      BY DEF HaltUnread, Mishaps
    <2> QED
      BY <1>5, <2>1, SkipTurned DEF DependencySkip, PastHalt, CanStart
  <1>6. ASSUME NEW a \in Actions, Begin(a) PROVE Turned
    <2>1. used'["crash"] = used["crash"]
      BY <1>2, <1>6 DEF Begin, HaltUnread, Mishaps
    <2> QED
      BY <1>1, <1>6, <2>1, StepTurned DEF Begin, PastHalt, CanStart, Marks
  <1>7. ASSUME NEW a \in Actions, Answer(a) \/ Submit(a) \/ MarkCollected(a) PROVE Turned
    <2>1. CASE Answer(a)
      BY <2>1 DEF Answer, memory, Turned
    <2>2. CASE Submit(a)
      <3>1. /\ pc[a] # "idle" /\ Step(a, "ran") /\ status' = status
            /\ Spend({}) \/ Spend({"store"})
        BY <2>2 DEF Submit, Working, At
      <3>2. used'["crash"] = used["crash"]
        BY <1>2, <3>1 DEF Mishaps
      <3> QED BY <3>1, <3>2, StepTurned
    <2>3. CASE MarkCollected(a)
      BY <2>3, StepTurned DEF MarkCollected, At
    <2> QED
      BY <1>7, <2>1, <2>2, <2>3
  <1>8. ASSUME NEW a \in Actions, NEW outcome, Write(a, outcome) \/ CollectRows(a, outcome)
        PROVE  Turned
    <2>1. used'["crash"] = used["crash"]
      <3>1. \/ Spend(IF outcome = "ok" THEN {} ELSE {"trouble"})
            \/ Spend({"store"} \cup IF outcome = "ok" THEN {} ELSE {"trouble"})
        BY <1>8 DEF Write, CollectRows, Store, Unrecorded
      <3>2. /\ (IF outcome = "ok" THEN {} ELSE {"trouble"}) \in SUBSET (Mishaps \ {"crash"})
            /\ ({"store"} \cup IF outcome = "ok" THEN {} ELSE {"trouble"})
                  \in SUBSET (Mishaps \ {"crash"})
        BY DEF Mishaps
      <3> QED BY <1>2, <3>1, <3>2
    <2> QED
      BY <1>8, <2>1, StepTurned DEF Write, CollectRows, Working, At
  <1>9. ASSUME NEW a \in Actions, NEW stamped, Finish(a, stamped), phase = "run", pc[a] # "idle"
        PROVE  Turned
    <2>1. CASE Resolution(a) = "failed"
      BY <1>9, <2>1, FailWithTurned DEF Finish
    <2>2. CASE Resolution(a) # "failed"
      <3>1. Marks(a) /\ Ends(a, {})
        BY <1>1, <1>9, <2>2 DEF Finish, Resolution, Marks
      <3> QED
        BY <1>9, <3>1, EndsTurned
    <2> QED
      BY <2>1, <2>2
  <1>10. ASSUME NEW a \in Actions, Submitted(a) \/ StillOut(a) PROVE Turned
    BY <1>1, <1>10, EndsTurned DEF Submitted, StillOut, Back, Marks
  <1>11. ASSUME NEW a \in Actions, RunFails(a) \/ CheckHalts(a) \/ BatchFails(a) PROVE Turned
    BY <1>11, FailWithTurned DEF RunFails, CheckHalts, BatchFails, Back, Mishaps
  <1>12. ASSUME NEW a \in Actions, NoInput(a) PROVE Turned
    BY <1>12, SkipTurned DEF NoInput, Back, Mishaps
  <1>13. ASSUME NEW a \in Actions, CheckRaises(a) PROVE Turned
    BY <1>2, <1>13, StepTurned DEF CheckRaises, Back, Mishaps
  <1> QED
    BY <1>3, <1>4, <1>5, <1>6, <1>7, <1>8, <1>9, <1>10, <1>11, <1>12, <1>13
    DEF Turn, Work, Collect, Handle, Complete, Collected, Back

\* A halt is found wherever the statuses a process begins from could let it be passed.
HaltsFound == ~Sequential \/ Budget["unread"] = 0

\* The run has still to come to x.
Unreached(x) ==
    \/ phase = "clear"
    \/ phase \in {"reset", "verify"} /\ Level[x] >= level
    \/ phase = "run" /\ (Level[x] > level \/ x \in todo)

\* What is still to come was put back at startup, or is halted, or is being reset.
Unanswered(x) ==
    \/ status[x] \in Completed \cup {"pending", "batch_submitted"}
    \/ Halted(x)
    \/ status[x] = "failed" /\ phase = "reset" /\ x \in reopening

Reached(x) ==
    /\ status[x] = "interrupted" => phase \in {"off", "wipe", "drain"}
    /\ phase \in {"reset", "verify", "run"} /\ x \in todo => Level[x] = level
    /\ phase = "run" /\ pc[x] # "idle" => Level[x] = level
    /\ phase = "run" /\ x \in todo =>
          IF Sequential THEN ~Done(x) ELSE status[x] \in {"pending", "batch_submitted"}
    /\ phase = "reset" /\ x \in forgetting => x \in reopening
    /\ Sequential /\ Unreached(x) => Unanswered(x)

WritesInv == EngineInv /\ \A x \in Actions : Reached(x)

LEMMA TurnedReached ==
    ASSUME HaltsFound, WritesInv, [Next]_vars, EngineInv', Turn \/ Work \/ Collect \/ Handle,
           NEW x \in Actions
    PROVE  Reached(x)'
  <1>1. TypeOK /\ Turned /\ level \in Nat /\ Level[x] \in Nat
    BY TurnTurned, LevelAssumption DEF WritesInv, EngineInv, TypeOK
  <1>2. phase \in {"run", "drain"}
    BY TurnDoes, WorkDoes, HandleDoes DEF WritesInv, Does
  <1>3. status'[x] = "interrupted" => status[x] = "interrupted"
    BY <1>1 DEF Turned
  <1>4. CASE Gone
    BY <1>4 DEF Gone, Reached, Unreached
  <1>5. CASE ~Gone
    <2>1. /\ phase' = phase /\ level' = level /\ todo' \subseteq todo
          /\ pc'[x] # "idle" => pc[x] # "idle" \/ x \in todo
      BY <1>1, <1>5 DEF Turned
    <2>2. phase = "run" /\ (x \in todo' \/ Level[x] > level) => status'[x] = status[x]
      BY <1>1 DEF Turned, WritesInv, Reached
    <2>3. ASSUME Sequential, Halted(x) PROVE Halted(x)'
      <3>1. PICK a \in Actions : Does(a)
        BY TurnDoes, WorkDoes, HandleDoes DEF WritesInv
      <3>2. used'["unread"] = used["unread"]
        BY <1>1, <2>3 DEF HaltsFound, TypeOK, Mishaps, WritesInv, EngineInv
      <3> QED
        BY <1>1, <2>3, <3>1, <3>2 DEF Does, Elsewhere, Halted, TypeOK, Mishaps
    <2>4. phase = "run" => ~Unreached(x)' \/ (Unreached(x) /\ status'[x] = status[x])
      BY <2>1, <2>2 DEF Unreached
    <2> QED
      BY <1>2, <1>3, <2>1, <2>2, <2>3, <2>4
      DEF WritesInv, Reached, Unreached, Unanswered, Done, Halted
  <1> QED
    BY <1>4, <1>5

LEMMA ReachedStep == ASSUME HaltsFound, WritesInv, [Next]_vars PROVE WritesInv'
  <1>1. EngineInv'
    BY InvStep DEF WritesInv
  <1> SUFFICES ASSUME NEW x \in Actions PROVE Reached(x)'
    BY <1>1 DEF WritesInv
  <1>2. TypeOK /\ TypeOK' /\ Reached(x) /\ Sound(x) /\ level \in Nat /\ Level[x] \in Nat
    BY <1>1, LevelAssumption DEF WritesInv, EngineInv, TypeOK
  <1>3. CASE UNCHANGED vars
    BY <1>2, <1>3 DEF vars, stores, memory, Reached, Unreached, Unanswered, Done, Halted
  <1>4. CASE Turn \/ Work \/ Collect \/ Handle
    BY <1>1, <1>4, TurnedReached
  <1>5. CASE Startup
    <2>1. CASE StartupDone
      BY <1>2, <2>1 DEF StartupDone, AtLevel, stores, Reached, Unreached, Unanswered, Halted
    <2>2. CASE WipeDone
      BY <1>2, <2>2 DEF WipeDone, EnterLevel, AtLevel, Reached, Unreached, Unanswered
    <2>3. ASSUME NEW a \in Actions, ClearReset(a) PROVE Reached(x)'
      <3>1. /\ phase = "clear" /\ phase' = "clear" /\ UNCHANGED status
            /\ x # a => node'[x] = node[x]
            /\ x = a => status[x] = "pending"
        BY <1>2, <2>3 DEF ClearReset, TypeOK, Sound
      <3> QED
        BY <1>2, <3>1 DEF Reached, Unreached, Unanswered, Halted
    <2>4. ASSUME NEW a \in Actions, NEW refused, Wipe(a, refused) PROVE Reached(x)'
      BY <1>2, <2>4 DEF Wipe, Reached, Unreached
    <2> QED
      BY <1>5, <2>1, <2>2, <2>3, <2>4 DEF Startup
  <1>6. CASE Verify
    <2>1. CASE Reopen
      BY <1>2, <2>1 DEF Reopen, With, stores, Reached, Unreached, Unanswered, Halted
    <2>2. CASE BeginLevel
      <3>1. status[x] \in Statuses /\ status[x] \notin InFlight /\ pc[x] = "idle"
        BY <1>2, <2>2 DEF BeginLevel, Sound, TypeOK
      <3> QED
        BY <1>2, <2>2, <3>1 DEF BeginLevel, AtLevel, Pending, Statuses, stores, Reached,
              Unreached, Unanswered, Done, Halted
    <2>3. ASSUME NEW a \in Actions, Forget(a) PROVE Reached(x)'
      <3>1. CASE Gone
        BY <1>2, <2>3, <3>1 DEF Forget, Gone, Reached, Unreached
      <3>2. CASE ~Gone
        <4>1. /\ phase = "reset" /\ a \in forgetting /\ forgetting' = forgetting \ {a}
              /\ UNCHANGED <<status, phase, level, todo, pc, reopening>>
              /\ x # a => node'[x] = node[x]
          BY <1>2, <2>3, <3>2 DEF Forget, TypeOK
        <4> QED
          BY <1>2, <4>1 DEF Reached, Unreached, Unanswered, Halted
      <3> QED
        BY <3>1, <3>2
    <2>4. ASSUME NEW a \in Actions, NEW F \in {ReadersOf[a], ReadersOf[a] \cup {a}},
                 Verifying(a), ResetFrom(a, F)
          PROVE  Reached(x)'
      BY <1>2, <2>4 DEF Verifying, ResetFrom, stores, Reached, Unreached, Unanswered, Halted
    <2>5. ASSUME NEW a \in Actions, VerifyLimits(a) \/ VerifyRefuses(a) PROVE Reached(x)'
      <3>1. Verifying(a) => node[a] \notin Blocking
        BY DEF Verifying, WritesInv, EngineInv, Sound, Blocking, Failures
      <3> QED
        BY <2>4, <2>5, <3>1 DEF VerifyLimits, VerifyRefuses
    <2>6. ASSUME NEW a \in Actions, VerifyStands(a) PROVE Reached(x)'
      BY <1>2, <2>6 DEF VerifyStands, Verifying, stores, Reached, Unreached, Unanswered, Halted
    <2>7. ASSUME NEW a \in Actions, VerifySettles(a) PROVE Reached(x)'
      <3>1. /\ phase = "verify" /\ node' = node
            /\ status'[x] = status[x] \/ {status[x], status'[x]} \subseteq Completed
        BY <1>2, <2>7, SettlesFacts DEF Completed
      <3>2. CASE Gone
        BY <1>2, <3>1, <3>2 DEF Gone, Reached, Unreached, Completed
      <3>3. CASE ~Gone
        <4>1. todo' = todo \ {a} /\ UNCHANGED <<phase, level, pc, forgetting, reopening>>
          BY <1>2, <2>7, <3>3, SettlesFacts
        <4> QED BY <1>2, <3>1, <4>1 DEF Reached, Unreached, Unanswered, Halted, Completed
      <3> QED BY <3>2, <3>3
    <2> QED
      BY <1>6, <2>1, <2>2, <2>3, <2>5, <2>6, <2>7 DEF Verify
  <1>7. CASE NextLevel
    <2>1. /\ phase = "run" /\ phase' = "verify" /\ level' = level + 1 /\ todo' = AtLevel(level + 1)
          /\ UNCHANGED <<status, stores>>
      BY <1>7 DEF NextLevel, LevelOver, EnterLevel
    <2> QED
      BY <1>2, <2>1 DEF AtLevel, stores, Reached, Unreached, Unanswered, Halted
  <1>8. CASE RunEnds \/ RunRaises \/ Interrupt \/ Exit \/ Crash
    BY <1>2, <1>8 DEF RunEnds, RunRaises, Interrupt, Exit, Crash, Gone, Sweep, With, LevelOver,
          Reached, Unreached
  <1>9. ASSUME NEW named \in SUBSET Actions, NEW unread \in SUBSET Actions,
               StartRun(named, unread)
        PROVE  Reached(x)'
    <2>1. Sequential => unread = {}
      <3>1. PICK K \in SUBSET Mishaps : Spend(K) /\ (unread # {} => "unread" \in K)
        BY <1>9 DEF StartRun, Mishaps
      <3>2. unread # {} => used["unread"] < Budget["unread"]
        BY <3>1 DEF Spend
      <3> QED
        BY <1>2, <3>2 DEF HaltsFound, TypeOK, Mishaps
    <2>2. /\ phase' = "clear" /\ node' = node
          /\ status'[x] = IF x \in PutBack(unread) THEN "pending" ELSE status[x]
      BY <1>9 DEF StartRun, With, stores
    <2>3. x \notin PutBack(unread) => status[x] # "interrupted"
      BY DEF PutBack, Halted, Retryable, MidProcessing
    <2>4. Sequential /\ x \notin PutBack(unread) => Unanswered(x)
      BY <1>2, <2>1 DEF PutBack, Retryable, MidProcessing, Unanswered, TypeOK, Statuses, Terminal,
            InFlight
    <2> QED
      BY <1>9, <2>2, <2>3, <2>4 DEF StartRun, Reached, Unanswered, Halted
  <1>10. CASE StartFresh \/ \E a \in Actions : EditLimit(a) \/ LoseOutput(a)
    BY <1>2, <1>10 DEF StartFresh, EditLimit, LoseOutput, stores, memory, Reached, Unreached
  <1> QED
    BY <1>3, <1>4, <1>5, <1>6, <1>7, <1>8, <1>9, <1>10
    DEF Next, Process, Operator, StartPlain, StartPlainUnread, StartRerun

\* Every write of the status file is one RunFiles allows.
LEMMA WritesAllowed ==
    ASSUME HaltsFound, WritesInv, WritesInv', [Next]_vars, NEW x \in Actions
    PROVE  <<status[x], status'[x]>> \in Files!Moves
  <1>1. TypeOK /\ Reached(x) /\ Sound(x) /\ Sound(x)'
        /\ status[x] \in Statuses /\ status'[x] \in Statuses
    BY DEF WritesInv, EngineInv, TypeOK
  <1>2. \A s \in Statuses : s \in Files!Statuses
    BY DEF Statuses, Terminal, Completed, InFlight, Files!Statuses, Files!InFlight,
           Files!Waiting, Files!Ended
  <1> DEFINE allowed(s, t) ==
          \/ s = t \/ t = "pending"
          \/ s \in InFlight
          \/ s = "completed" /\ t = "completed_with_failures"
          \/ s \in {"pending", "batch_submitted"} /\ t # "interrupted"
  <1>3. \A s, t \in Statuses : allowed(s, t) => <<s, t>> \in Files!Moves
    BY <1>2 DEF Files!Moves, Files!InFlight, Files!Waiting, InFlight
  <1> SUFFICES status'[x] # status[x] /\ status'[x] # "pending" => allowed(status[x], status'[x])
    BY <1>1, <1>3
  <1>4. CASE Turn \/ Work \/ Collect \/ Handle
    <2> SUFFICES ASSUME status'[x] # status[x] PROVE allowed(status[x], status'[x])
      OBVIOUS
    <2>1. /\ phase = "run" /\ (x \in todo \/ pc[x] # "idle") /\ x \notin todo'
          /\ status'[x] # "interrupted"
      BY <1>1, <1>4, TurnTurned DEF Turned
    <2>2. CASE pc[x] # "idle"
      BY <1>1, <2>1, <2>2 DEF Sound, Reached
    <2>3. CASE x \in todo /\ ~Sequential
      BY <1>1, <2>1, <2>3 DEF Reached
    <2>4. CASE x \in todo /\ Sequential
      <3>1. status[x] \in {"pending", "batch_submitted"} \/ Halted(x)
        BY <1>1, <2>1, <2>4 DEF Reached, Unreached, Unanswered, Done
      <3>2. ~Halted(x)
        <4> SUFFICES ASSUME Halted(x) PROVE Halted(x)'
          BY DEF Halted
        <4>1. PICK a \in Actions : Does(a)
          BY <1>4, TurnDoes, WorkDoes, HandleDoes DEF WritesInv
        <4>2. used'["unread"] = used["unread"]
          BY <2>4 DEF HaltsFound, TypeOK, Mishaps, WritesInv, EngineInv
        <4> QED
          BY <1>1, <4>1, <4>2 DEF Does, Elsewhere, Halted, TypeOK, Mishaps
      <3> QED
        BY <2>1, <3>1, <3>2
    <2> QED
      BY <2>1, <2>2, <2>3, <2>4
  <1>5. CASE RunRaises \/ Interrupt
    BY <1>5 DEF RunRaises, Interrupt, Sweep, With
  <1>6. CASE \/ Startup \/ Verify \/ StartFresh \/ NextLevel \/ RunEnds \/ Exit \/ Crash
             \/ UNCHANGED vars
             \/ \E a \in Actions : EditLimit(a) \/ LoseOutput(a)
    <2>1. ASSUME NEW a \in Actions, VerifySettles(a) PROVE allowed(status[x], status'[x])
      BY <1>1, <2>1, SettlesFacts
    <2>2. status'[x] \in {status[x], "pending"} \/ \E a \in Actions : VerifySettles(a)
      BY <1>1, <1>6
      DEF Startup, StartupDone, WipeDone, ClearReset, Wipe, Verify, Reopen, With, BeginLevel,
          Forget, VerifyLimits, VerifyRefuses, VerifyStands, ResetFrom, StartFresh, NextLevel,
          RunEnds, Exit, Crash, vars, EditLimit, LoseOutput, TypeOK
    <2> QED
      BY <2>1, <2>2
  <1>7. CASE StartPlain \/ StartPlainUnread \/ StartRerun
    BY <1>7 DEF StartPlain, StartPlainUnread, StartRerun, StartRun, With
  <1> QED
    BY <1>4, <1>5, <1>6, <1>7 DEF Next, Process, Operator

\* A process starts without being killed, and is killed no more than once.
LEMMA KillsCount ==
    ASSUME EngineInv, [Next]_vars
    PROVE  \/ used'["crash"] = used["crash"]
           \/ used'["crash"] = used["crash"] + 1 /\ phase # "off" /\ phase' = "off"
  <1>1. TypeOK /\ used'["crash"] \in {used["crash"], used["crash"] + 1}
    BY UsedCounts DEF EngineInv, Mishaps
  <1> SUFFICES used'["crash"] = used["crash"] \/ (phase # "off" /\ phase' = "off")
    BY <1>1
  <1>2. ASSUME NEW K \in SUBSET (Mishaps \ {"crash"}), Spend(K) PROVE used'["crash"] = used["crash"]
    BY <1>1, <1>2, SpendCounts DEF TypeOK, Mishaps
  <1> USE DEF Mishaps
  <1>3. CASE Startup
    BY <1>2, <1>3 DEF Startup, StartupDone, WipeDone, ClearReset, Wipe
  <1>4. CASE Verify
    <2>1. ASSUME NEW a \in Actions, VerifySettles(a)
          PROVE  used'["crash"] = used["crash"] \/ (phase # "off" /\ phase' = "off")
      <3>1. phase = "verify" /\ (Gone \/ used'["crash"] = used["crash"])
        BY <1>1, <2>1, SettlesFacts
      <3> QED BY <3>1 DEF Gone
    <2> QED
      BY <1>2, <1>4, <2>1 DEF Verify, Reopen, BeginLevel, Forget, Gone, VerifyLimits,
                              VerifyRefuses, VerifyStands, ResetFrom
  <1>5. CASE Turn \/ Work \/ Collect \/ Handle
    <2>1. phase # "off"
      BY <1>5, TurnDoes, WorkDoes, HandleDoes DEF Does
    <2> QED
      BY <1>1, <1>5, <2>1, TurnTurned DEF Turned, Gone
  <1>6. CASE NextLevel \/ RunEnds \/ RunRaises \/ Interrupt \/ Exit \/ Crash
    BY <1>2, <1>6 DEF NextLevel, RunEnds, RunRaises, Interrupt, Exit, Crash, Gone
  <1>7. CASE StartPlain \/ StartPlainUnread \/ StartRerun \/ StartFresh
    BY <1>2, <1>7 DEF StartPlain, StartPlainUnread, StartRerun, StartRun, StartFresh
  <1>8. CASE UNCHANGED vars \/ \E a \in Actions : EditLimit(a) \/ LoseOutput(a)
    BY <1>2, <1>8 DEF vars, EditLimit, LoseOutput
  <1> QED
    BY <1>3, <1>4, <1>5, <1>6, <1>7, <1>8 DEF Next, Process, Operator

\* KeepsTheFiles: the engine implements RunFiles, of which the editor extension's model of a
\* run is the other implementation: what reads the status file sees it change as the contract
\* allows, whenever it looks and however the process ends.
THEOREM EngineKeepsFiles == ASSUME HaltsFound PROVE Spec => KeepsTheFiles
  <1>1. Init => Files!Init
    <2> SUFFICES ASSUME Init PROVE Files!Init
      OBVIOUS
    <2>1. status \in [Actions -> Files!Statuses]
      BY DEF Init, Files!Statuses, Files!Waiting
    <2>2. phase = "off" /\ used["crash"] = 0
      BY DEF Init, Mishaps
    <2> QED
      BY <2>1, <2>2 DEF Files!Init
  <1>2. Init => WritesInv
    <2> SUFFICES ASSUME Init PROVE WritesInv
      OBVIOUS
    <2>1. EngineInv
      BY TypeInit DEF Init, EngineInv, Sound, Done, Completed, InFlight
    <2> QED
      BY <2>1 DEF WritesInv, Reached, Unreached, Init
  <1>3. WritesInv /\ [Next]_vars => WritesInv'
    BY ReachedStep
  <1>4. WritesInv /\ WritesInv' /\ [Next]_vars => [Files!Next]_(Files!vars)
    <2> SUFFICES ASSUME WritesInv, WritesInv', [Next]_vars
                 PROVE  Files!Next \/ UNCHANGED Files!vars
      OBVIOUS
    <2>1. Files!Writes("workflow")
      <3>1. status' \in [Actions -> Files!Statuses]
        BY DEF WritesInv, EngineInv, TypeOK, Statuses, Terminal, Completed, InFlight,
               Files!Statuses, Files!InFlight, Files!Waiting, Files!Ended
      <3>2. \A x \in Actions : <<status[x], status'[x]>> \in Files!Moves
        BY WritesAllowed
      <3> QED
        BY <3>1, <3>2 DEF Files!Writes
    <2>2. \/ used'["crash"] = used["crash"]
          \/ used'["crash"] = used["crash"] + 1 /\ phase # "off" /\ phase' = "off"
      BY KillsCount DEF WritesInv
    <2>3. CASE used'["crash"] # used["crash"]
      BY <2>1, <2>2, <2>3 DEF Files!Next, Files!Killed
    <2>4. CASE used'["crash"] = used["crash"] /\ phase # "off" /\ phase' # "off"
      BY <2>1, <2>4 DEF Files!Next, Files!Write
    <2>5. CASE used'["crash"] = used["crash"] /\ phase # "off" /\ phase' = "off"
      <3>1. Files!Claims("workflow")' = {}
        BY <2>5, SweptStep DEF WritesInv, Files!Claims, Files!InFlight, InFlight
      <3> QED
        BY <2>1, <2>5, <3>1 DEF Files!Next, Files!Leave
    <2>6. CASE used'["crash"] = used["crash"] /\ phase = "off" /\ phase' # "off"
      BY <2>1, <2>6 DEF Files!Next, Files!Begin
    <2>7. CASE used'["crash"] = used["crash"] /\ phase = "off" /\ phase' = "off"
      <3>1. status' = status
        BY <2>7, TurnDoes, WorkDoes, HandleDoes
        DEF WritesInv, Does, Next, Process, Startup, StartupDone, WipeDone, ClearReset, Wipe,
            Verify, Reopen, BeginLevel, Forget, VerifyLimits, VerifyRefuses, VerifyStands,
            VerifySettles, Verifying, NextLevel, RunEnds, RunRaises, LevelOver, Exit, Crash, Interrupt, Operator,
            StartPlain, StartPlainUnread, StartRerun, StartRun, StartFresh, EditLimit, LoseOutput,
            vars
      <3> QED
        BY <2>7, <3>1 DEF Files!vars
    <2> QED
      BY <2>3, <2>4, <2>5, <2>6, <2>7
  <1> QED
    BY <1>1, <1>2, <1>3, <1>4, PTL DEF Spec, KeepsTheFiles, Files!Spec

-----------------------------------------------------------------------------
(* Order: no action works, or holds what it made, before what it reads is complete; so    *)
(* nothing it completed with is ever replaced under it, and a run that comes to its end   *)
(* has settled everything.                                                                *)

\* The budgets under which a halt is always found where it was left.  Lifted because it
\* could not be read, it leaves its row behind if the process then dies or the store refuses
\* the clear; and --fresh leaves it where the store refuses to wipe it.  The action then
\* stays pending, refused at every turn, and its readers run before it.
HaltsRead ==
    /\ Budget["unread"] = 0 \/ (Budget["store"] = 0 /\ Budget["crash"] = 0)
    /\ Budget["fresh"] = 0 \/ Budget["store"] = 0

-----------------------------------------------------------------------------
(* Lemmas on the readers of an action *)

LEMMA ReadersWithin ==
    ASSUME NEW a \in Actions, NEW S \in SUBSET Actions, Reads(a, S)
    PROVE  ReadersOf[a] \subseteq S
  BY DEF ReadersOf

LEMMA ReadersClosed ==
    ASSUME NEW a \in Actions, NEW r \in Actions,
           Deps[r] \cap (ReadersOf[a] \cup {a}) # {}
    PROVE  r \in ReadersOf[a]
  <1> SUFFICES ASSUME NEW S \in SUBSET Actions, Reads(a, S) PROVE r \in S
    BY DEF ReadersOf
  <1>1. ReadersOf[a] \subseteq S
    BY ReadersWithin
  <1> QED
    BY <1>1 DEF Reads

LEMMA ReadersAbove ==
    ASSUME NEW a \in Actions
    PROVE  \A r \in ReadersOf[a] : r \in Actions /\ Level[a] < Level[r]
  <1> DEFINE Above == {r \in Actions : Level[a] < Level[r]}
  <1>1. ASSUME NEW r \in Actions, NEW d \in Deps[r], d \in Above \cup {a} PROVE r \in Above
    <2>1. d \in Actions /\ Level[d] < Level[r]
      BY DepsAssumption, LevelAssumption
    <2>2. Level[a] \in Nat /\ Level[d] \in Nat /\ Level[r] \in Nat
      BY <2>1, LevelAssumption
    <2> QED
      BY <1>1, <2>1, <2>2
  <1>2. Reads(a, Above)
    BY <1>1 DEF Reads
  <1>3. ReadersOf[a] \subseteq Above
    BY <1>2, ReadersWithin
  <1> QED
    BY <1>3

LEMMA DepsBelow ==
    ASSUME NEW a \in Actions, NEW d \in Deps[a]
    PROVE  d \in Actions /\ d # a /\ Level[d] < Level[a] /\ Level[d] \in Nat /\ Level[a] \in Nat
  BY DepsAssumption, LevelAssumption

LEMMA SpendNeeds ==
    ASSUME used \in [Mishaps -> Nat], NEW K \in SUBSET Mishaps, NEW k \in K, Spend(K)
    PROVE  Budget[k] # 0
  BY BudgetAssumption DEF Spend

-----------------------------------------------------------------------------
(* The inductive invariant *)

Upstream(x) == \A d \in Deps[x] : Done(d)
Started(x)  == status[x] \notin {"pending", "skipped"}
Settled     == Completed \cup {"failed", "skipped"}

\* Whatever an action holds of its own making, everything it read is complete; so nothing
\* of it is out of date.
OnDisk(x) ==
    /\ Started(x) => Upstream(x)
    /\ answers[x] # "none" => answers[x] = "current" /\ Upstream(x)
    /\ batch[x] # "none" => batch[x] = "current" /\ Upstream(x)
    /\ Done(x) => rows[x] # "stale"

\* The output of x is written, and its handler is still to say what to make of it.
Wrote(x) == (pc[x] = "ran" /\ ~Owes(x)) \/ pc[x] \in {"collecting", "collected"}

\* It is new, or there is none and the handler will not complete it.
WroteWell(x) == Wrote(x) =>
    \/ rows[x] \in {"fresh", "mixed"}
    \/ rows[x] = "none" /\ node[x] = "skipped"
    \/ fails[x] /\ answers[x] = "none"

\* A halt is on disk as a failure, except while a startup that could not read it lifts it.
HaltKnown(x) == node[x] = "halted" =>
    \/ status[x] = "failed"
    \/ phase = "clear" /\ x \in todo /\ Budget["unread"] # 0

\* The levels below the one a run is in are settled, and so is what has had its turn.
InOrder(x) ==
    /\ status[x] = "interrupted" => phase \in {"off", "wipe", "drain"}
    /\ phase \in {"reset", "verify", "run"} =>
          /\ Level[x] < level => status[x] \in Settled
          /\ x \in todo => Level[x] = level
    /\ phase = "run" /\ x \in todo => ~Done(x)
    /\ phase = "run" /\ pc[x] # "idle" => Level[x] = level
    /\ phase = "run" /\ Level[x] = level /\ x \notin todo =>
          pc[x] # "idle" \/ raised \/ status[x] \in Settled \cup {"batch_submitted"}

\* A reset takes back whole chains of readers, and has forgotten what they made before it
\* takes back anything they read.
InReset(x) ==
    phase = "reset" /\ x \in reopening =>
        /\ level <= Level[x]
        /\ \A r \in Actions : x \in Deps[r] => r \in reopening
        /\ x \notin forgetting =>
              /\ node[x] # "halted"
              /\ Deps[x] \cap reopening # {} => answers[x] = "none" /\ batch[x] = "none"

\* --fresh has wiped what it has passed.
InWipe(x) ==
    phase = "wipe" =>
        /\ Budget["store"] = 0
        /\ x \notin todo => node[x] = "none" /\ answers[x] = "none" /\ batch[x] = "none"

Ordered(x) ==
    OnDisk(x) /\ WroteWell(x) /\ HaltKnown(x) /\ InOrder(x) /\ InReset(x) /\ InWipe(x)

OrderInv == EngineInv /\ \A x \in Actions : Ordered(x)

\* While a is not complete nothing that reads it, directly or through others, is under way
\* or holds anything but rows.
LEMMA ReadersIdle ==
    ASSUME OrderInv, NEW a \in Actions, ~Done(a), NEW r \in ReadersOf[a]
    PROVE  /\ r \in Actions /\ ~Started(r) /\ ~Done(r)
           /\ answers[r] = "none" /\ batch[r] = "none" /\ pc[r] = "idle"
  <1> DEFINE Waiting == {x \in Actions : ~Upstream(x)}
  <1>1. ASSUME NEW x \in Actions, NEW d \in Deps[x], d \in Waiting \cup {a} PROVE x \in Waiting
    <2>1. ~Done(d)
      BY <1>1 DEF OrderInv, Ordered, OnDisk, Started, Done, Completed
    <2> QED
      BY <2>1 DEF Upstream
  <1>2. Reads(a, Waiting)
    BY <1>1 DEF Reads
  <1>3. r \in Waiting
    BY <1>2, ReadersWithin
  <1>4. ~Started(r) /\ answers[r] = "none" /\ batch[r] = "none"
    BY <1>3 DEF OrderInv, Ordered, OnDisk
  <1>5. pc[r] = "idle" /\ ~Done(r)
    BY <1>3, <1>4 DEF OrderInv, EngineInv, Sound, Started, Done, Completed, InFlight
  <1> QED
    BY <1>3, <1>4, <1>5

-----------------------------------------------------------------------------
(* An action's turn *)

\* What the turn of a leaves of the others: all but a node-level row it outlived, and the
\* output of what reads a.
Beside(a) == \A x \in Actions \ {a} :
    /\ status'[x] = status[x] /\ answers'[x] = answers[x] /\ fails'[x] = fails[x]
    /\ batch'[x] = batch[x]
    /\ node'[x] = node[x] \/ (node'[x] = "none" /\ pc[x] = "idle")
    /\ rows'[x] = rows[x] \/ (x \in ReadersOf[a] /\ rows[x] # "none" /\ rows'[x] = "stale")

\* Skipped, an action holds no answer that a later run would throw away.
Spared(x) == Deps[x] = {} \/ answers[x] = "none" \/ rows[x] = "none"

\* So the turn of a leaves it, unless a finds nothing to read where all it reads is complete.
SparedBy(a) ==
    \/ Spared(a)'
    \/ status[a] = "skipped" /\ answers'[a] = answers[a] /\ rows'[a] = rows[a]
    \/ phase = "run" /\ Level[a] = level /\ Upstream(a) /\ ~HasInput(a)

\* A step of the turn of a, with what it makes of a itself.
Acts(a) ==
    /\ phase \in {"run", "drain"} /\ ~Done(a)
    /\ Beside(a) /\ Moves(a) /\ (Gone \/ (level' = level /\ todo \ {a} \subseteq todo'))
    /\ Started(a)' => Upstream(a)
    /\ answers'[a] # "none" => answers'[a] = "current" /\ Upstream(a)
    /\ batch'[a] # "none" => batch'[a] = "current" /\ Upstream(a)
    /\ answers'[a] = "none" => answers[a] = "none" \/ status'[a] = "skipped"
    /\ batch'[a] # "none" => batch[a] # "none" \/ a \in BatchActions
    /\ Done(a)' => rows'[a] \in {"fresh", "mixed"}
    /\ WroteWell(a)'
    /\ status'[a] = "skipped" => SparedBy(a)
    /\ status'[a] = "batch_submitted" =>
          \/ batch'[a] # "none"
          \/ status[a] = "batch_submitted" /\ batch'[a] = batch[a]
    /\ edited' \in {edited, edited \ {a}}
    /\ node'[a] = "halted" => status'[a] = "failed"
    /\ status'[a] = "interrupted" => phase = "drain"
    /\ phase = "run" =>
          /\ Level[a] = level /\ a \notin todo'
          /\ \/ Gone \/ pc'[a] # "idle" \/ raised'
             \/ status'[a] \in Settled \cup {"batch_submitted"}

LEMMA ActsKeeps ==
    ASSUME OrderInv, EngineInv', NEW a \in Actions, Acts(a)
    PROVE  OrderInv'
  <1>1. phase' \in {phase, "off"} /\ phase \in {"run", "drain"}
    BY DEF Acts, Moves, Gone
  <1>2. ASSUME NEW x \in Actions, Upstream(x) PROVE Upstream(x)'
    BY <1>2, DepsAssumption DEF Upstream, Acts, Beside, Done
  <1>3. ASSUME NEW x \in Actions \ {a} PROVE Ordered(x)'
    <2>1. rows'[x] = rows[x] \/ (~Done(x) /\ pc[x] = "idle")
      BY <1>3, ReadersIdle DEF Acts, Beside
    <2>2. OnDisk(x)'
      BY <1>2, <1>3, <2>1 DEF Acts, Beside, OrderInv, Ordered, OnDisk, Started, Done
    <2>3. WroteWell(x)'
      <3>1. pc'[x] \in {pc[x], "idle"}
        BY <1>3 DEF Acts, Moves, Gone
      <3>2. Wrote(x)' => Wrote(x) /\ pc[x] # "idle"
        BY <1>3, <3>1 DEF Wrote, Acts, Beside, Owes
      <3>3. Wrote(x)' => node'[x] = node[x] /\ rows'[x] = rows[x]
        BY <1>3, <2>1, <3>2 DEF Acts, Beside
      <3> QED
        BY <1>3, <3>2, <3>3 DEF WroteWell, Acts, Beside, OrderInv, Ordered
    <2>4. HaltKnown(x)'
      BY <1>1, <1>3 DEF HaltKnown, Acts, Beside, OrderInv, Ordered
    <2>5. InOrder(x)'
      <3>1. CASE Gone
        BY <1>1, <1>3, <3>1 DEF Gone, InOrder
      <3>2. CASE ~Gone
        BY <1>1, <1>3, <3>2 DEF Acts, Moves, Beside, InOrder, OrderInv, Ordered, Done
      <3> QED
        BY <3>1, <3>2
    <2> QED
      BY <1>1, <2>2, <2>3, <2>4, <2>5 DEF Ordered, InReset, InWipe
  <1>4. Ordered(a)'
    <2>1. OnDisk(a)'
      BY <1>2 DEF Acts, OnDisk
    <2>2. InOrder(a)'
      <3>1. CASE Gone
        BY <1>1, <3>1 DEF Gone, InOrder, Acts
      <3>2. CASE ~Gone
        BY <1>1, <3>2, LevelAssumption DEF Acts, Moves, InOrder, OrderInv, EngineInv, TypeOK
      <3> QED
        BY <3>1, <3>2
    <2> QED
      BY <1>1, <2>1, <2>2 DEF Acts, Ordered, HaltKnown, InReset, InWipe
  <1> QED
    BY <1>3, <1>4 DEF OrderInv

\* An action under way has what it reads complete.
LEMMA UnderWay ==
    ASSUME OrderInv, NEW a \in Actions, pc[a] # "idle"
    PROVE  /\ phase \in {"run", "drain"} /\ Started(a) /\ Upstream(a) /\ ~Done(a)
           /\ status[a] \in InFlight \cup {"interrupted"}
           /\ node[a] \in {"none", "skipped"}
           /\ status[a] = "interrupted" => phase = "drain"
           /\ phase = "run" => Level[a] = level /\ a \notin todo
  <1>1. /\ phase \in {"run", "drain"} /\ status[a] \in InFlight \cup {"interrupted"}
        /\ node[a] \in {"none", "skipped"} /\ (phase = "run" => a \notin todo)
    BY DEF OrderInv, EngineInv, Sound
  <1>2. Started(a) /\ ~Done(a)
    BY <1>1 DEF Started, Done, Completed, InFlight
  <1>3. Upstream(a) /\ (phase = "run" => status[a] # "interrupted")
    BY <1>2 DEF OrderInv, Ordered, OnDisk, InOrder
  <1>4. phase = "run" => Level[a] = level
    BY DEF OrderInv, Ordered, InOrder
  <1> QED
    BY <1>1, <1>2, <1>3, <1>4

\* An action whose turn comes is not complete, and what it reads has had its turn.
LEMMA TurnComes ==
    ASSUME OrderInv, NEW a \in Actions, CanStart(a)
    PROVE  /\ phase = "run" /\ a \in todo /\ ~Done(a) /\ Level[a] = level /\ pc[a] = "idle"
           /\ status[a] # "interrupted"
           /\ \A d \in Deps[a] : /\ d \in Actions \ {a} /\ status[d] \in Settled
                                 /\ pc[d] = "idle" /\ (~Blocks(d) => Done(d))
           /\ (\A d \in Deps[a] : ~Blocks(d)) => Upstream(a)
  <1>1. phase = "run" /\ a \in todo /\ ~Done(a) /\ Level[a] = level /\ pc[a] = "idle"
        /\ status[a] # "interrupted"
    BY DEF CanStart, OrderInv, Ordered, InOrder, EngineInv, Sound
  <1>2. ASSUME NEW d \in Deps[a]
        PROVE  /\ d \in Actions \ {a} /\ status[d] \in Settled
               /\ pc[d] = "idle" /\ (~Blocks(d) => Done(d))
    <2>1. d \in Actions \ {a} /\ Level[d] < level
      BY <1>1, DepsBelow
    <2>2. status[d] \in Settled
      BY <1>1, <2>1 DEF OrderInv, Ordered, InOrder
    <2>3. pc[d] = "idle"
      BY <2>1, <2>2 DEF OrderInv, EngineInv, Sound, Settled, Completed, InFlight
    <2> QED
      BY <2>1, <2>2, <2>3 DEF Blocks, Settled, Done
  <1> QED
    BY <1>1, <1>2, LevelAssumption DEF Upstream

LEMMA StepStays ==
    ASSUME NEW a \in Actions, NEW s, TypeOK, Step(a, s),
           raised => raised', raised' => raised \/ phase = "run"
    PROVE  /\ Moves(a) /\ pc'[a] = s /\ a \notin todo'
           /\ level' = level /\ todo \ {a} \subseteq todo'
  BY StepMoves DEF Step

LEMMA EndsStays ==
    ASSUME TypeOK, NEW a \in Actions, NEW K \in SUBSET Mishaps, Ends(a, K)
    PROVE  /\ Moves(a) /\ pc'[a] = "idle" /\ a \notin todo'
           /\ Gone \/ (level' = level /\ todo \ {a} \subseteq todo')
  BY EndsMoves DEF Ends, Step

LEMMA FailWithActs ==
    ASSUME OrderInv, NEW a \in Actions, NEW marker, NEW why \in SUBSET Mishaps,
           phase = "run", pc[a] # "idle", FailWith(a, marker, why),
           UNCHANGED <<rows, answers, fails, edited>>,
           batch' = batch \/ batch' = [batch EXCEPT ![a] = "none"]
    PROVE  Acts(a)
  <1>1. PICK fate \in {{}, {"store"}, {"crash"}} :
            /\ Ends(a, why \cup fate)
            /\ node' = IF fate = {} THEN [node EXCEPT ![a] = marker] ELSE node
    BY DEF FailWith
  <1>2. why \cup fate \in SUBSET Mishaps
    BY DEF Mishaps
  <1>3. /\ Moves(a) /\ pc'[a] = "idle" /\ a \notin todo'
        /\ Gone \/ (level' = level /\ todo \ {a} \subseteq todo')
    BY <1>1, <1>2, EndsStays DEF OrderInv, EngineInv
  <1>4. /\ Started(a) /\ Upstream(a) /\ ~Done(a) /\ Level[a] = level
    BY UnderWay
  <1>5. status'[a] = "failed"
    BY DEF FailWith, OrderInv, EngineInv, TypeOK
  <1>6. Beside(a)
    BY <1>1 DEF FailWith, Beside, OrderInv, EngineInv, TypeOK
  <1>7. /\ answers'[a] # "none" => answers'[a] = "current"
        /\ batch'[a] # "none" => batch'[a] = "current" /\ batch[a] # "none"
    BY DEF OrderInv, EngineInv, TypeOK, Ordered, OnDisk
  <1>8. ~Done(a)' /\ WroteWell(a)'
    BY <1>3, <1>5 DEF Done, Completed, WroteWell, Wrote
  <1> QED
    BY <1>3, <1>4, <1>5, <1>6, <1>7, <1>8 DEF Acts, Settled

\* An action skipped loses its own halt only with what Spend({"unread"}) pays for.
LEMMA SkipActs ==
    ASSUME HaltsRead, OrderInv, NEW a \in Actions, NEW drops \in SUBSET {a}, NEW cleared,
           NEW why \in SUBSET Mishaps, Skip(a, drops, cleared, why),
           phase = "run", ~Done(a), Level[a] = level,
           \A d \in cleared : pc[d] = "idle" /\ d # a,
           node[a] = "halted" => "unread" \in why,
           Deps[a] = {} \/ answers[a] = "none" \/ (Upstream(a) /\ ~HasInput(a))
    PROVE  Acts(a)
  <1> DEFINE Forgets(fate) == IF fate.drop = "none" THEN {} ELSE drops
  <1>1. PICK fate \in SkipFates :
            /\ Ends(a, why \cup fate.cost)
            /\ node' = [With(node, cleared \cup Forgets(fate), "none") EXCEPT
                            ![a] = IF fate.row THEN "skipped" ELSE @]
            /\ answers' = With(answers, Forgets(fate), "none")
            /\ fails' = With(fails, Forgets(fate), FALSE)
            /\ batch' = With(batch, Forgets(fate), "none")
            /\ rows' = IF fate.drop = "all" THEN With(rows, drops, "none") ELSE rows
    BY DEF Skip
  <1>2. why \cup fate.cost \in SUBSET Mishaps
    BY DEF Mishaps, SkipFates
  <1>3. /\ Moves(a) /\ pc'[a] = "idle" /\ a \notin todo'
        /\ Gone \/ (level' = level /\ todo \ {a} \subseteq todo')
    BY <1>1, <1>2, EndsStays DEF OrderInv, EngineInv
  <1>4. /\ status'[a] = "skipped"
        /\ \A x \in Actions \ {a} : status'[x] = status[x]
    BY DEF Skip, OrderInv, EngineInv, TypeOK
  <1>5. Forgets(fate) \subseteq {a}
    OBVIOUS
  <1> HIDE DEF Forgets
  <1>6. Beside(a)
    <2> SUFFICES ASSUME NEW x \in Actions \ {a}
                 PROVE  /\ answers'[x] = answers[x] /\ fails'[x] = fails[x] /\ batch'[x] = batch[x]
                        /\ node'[x] = node[x] \/ (node'[x] = "none" /\ pc[x] = "idle")
                        /\ rows'[x] = rows[x]
      BY <1>4 DEF Beside
    <2>1. x \notin Forgets(fate) /\ x \notin drops
      BY <1>5
    <2> QED
      BY <1>1, <2>1 DEF With
  <1>7. /\ answers'[a] # "none" => answers'[a] = "current" /\ Upstream(a)
        /\ batch'[a] # "none" => batch'[a] = "current" /\ Upstream(a)
    BY <1>1 DEF With, OrderInv, Ordered, OnDisk
  <1>8. node'[a] # "halted"
    <2>1. CASE fate.row
      BY <1>1, <2>1 DEF With
    <2>2. CASE ~fate.row
      <3>1. "store" \in fate.cost \/ "crash" \in fate.cost
        BY <2>2 DEF SkipFates
      <3>2. node[a] # "halted"
        <4>1. used \in [Mishaps -> Nat] /\ Spend(why \cup fate.cost)
          BY <1>1 DEF OrderInv, EngineInv, TypeOK, Ends
        <4>2. \A k \in why \cup fate.cost : Budget[k] # 0
          BY <1>2, <4>1, SpendNeeds
        <4> QED
          BY <3>1, <4>2 DEF HaltsRead
      <3> QED
        BY <1>1, <2>2, <3>2 DEF With
    <2> QED
      BY <2>1, <2>2
  <1>9. ~Started(a)' /\ ~Done(a)' /\ WroteWell(a)'
    BY <1>3, <1>4 DEF Started, Done, Completed, WroteWell, Wrote
  <1>10. SparedBy(a) /\ (batch'[a] # "none" => batch[a] # "none") /\ edited' = edited
    BY <1>1 DEF SparedBy, Spared, With, Skip
  <1> QED
    BY <1>3, <1>4, <1>6, <1>7, <1>8, <1>9, <1>10 DEF Acts, Settled

LEMMA TurnActs == ASSUME HaltsRead, OrderInv, Turn PROVE \E a \in Actions : Acts(a)
  <1>0. /\ TypeOK
        /\ \A x \in Actions : /\ answers[x] # "none" => answers[x] = "current" /\ Upstream(x)
                              /\ batch[x] # "none" => batch[x] = "current" /\ Upstream(x)
                              /\ Started(x) => Upstream(x)
    BY DEF OrderInv, EngineInv, Ordered, OnDisk
  <1>1. ASSUME NEW a \in Actions, StoreGivesOut(a) PROVE Acts(a)
    <2>1. /\ phase = "run" /\ ~Done(a) /\ Level[a] = level /\ status[a] # "interrupted"
          /\ status'[a] = "failed" => Upstream(a)
      <3>1. CASE CanStart(a)
        BY <1>0, <1>1, <3>1, TurnComes DEF StoreGivesOut, Back, PastHalt, Started
      <3>2. CASE Back(a, {"ran", "collected"})
        BY <3>2, UnderWay DEF Back
      <3> QED
        BY <1>1, <3>1, <3>2 DEF StoreGivesOut, PastHalt
    <2>2. Step(a, "idle") /\ raised' /\ UNCHANGED stores
      BY <1>1 DEF StoreGivesOut
    <2>3. /\ Moves(a) /\ pc'[a] = "idle" /\ a \notin todo'
          /\ level' = level /\ todo \ {a} \subseteq todo'
      BY <1>0, <2>1, <2>2, StepStays
    <2>4. status' = status \/ status' = [status EXCEPT ![a] = "failed"]
      BY <1>1 DEF StoreGivesOut
    <2>5. Beside(a) /\ (status'[a] = status[a] \/ status'[a] = "failed")
      BY <1>0, <2>2, <2>4 DEF Beside, stores, TypeOK
    <2>6. node'[a] = "halted" => status'[a] = "failed"
      BY <2>1, <2>2, <2>5 DEF OrderInv, Ordered, HaltKnown, stores
    <2>7. ~Done(a)' /\ WroteWell(a)' /\ (Started(a)' => Upstream(a))
      BY <1>0, <2>1, <2>3, <2>5 DEF Done, Completed, WroteWell, Wrote, Started
    <2>8. edited' = edited /\ (status'[a] = "skipped" => SparedBy(a))
      BY <1>1, <2>5 DEF StoreGivesOut, SparedBy, stores
    <2> QED
      BY <1>0, <2>1, <2>2, <2>3, <2>5, <2>6, <2>7, <2>8 DEF Acts, stores
  <1>2. ASSUME NEW a \in Actions, CheckBatch(a) PROVE Acts(a)
    <2>1. phase = "run" /\ ~Done(a) /\ Level[a] = level /\ Upstream(a) /\ node[a] # "halted"
      BY <1>0, <1>2, TurnComes DEF CheckBatch, Started, OrderInv, Ordered, HaltKnown
    <2>2. Step(a, "checking") /\ raised' = raised /\ UNCHANGED stores
      BY <1>2 DEF CheckBatch
    <2>3. /\ Moves(a) /\ pc'[a] = "checking" /\ a \notin todo'
          /\ level' = level /\ todo \ {a} \subseteq todo'
      BY <1>0, <2>2, StepStays
    <2>4. Beside(a) /\ status'[a] = "checking_batch" /\ edited' = edited
      BY <1>0, <1>2, <2>2 DEF CheckBatch, Beside, stores, TypeOK
    <2>5. ~Done(a)' /\ WroteWell(a)'
      BY <2>3, <2>4 DEF Done, Completed, WroteWell, Wrote
    <2> QED
      BY <1>0, <2>1, <2>2, <2>3, <2>4, <2>5 DEF Acts, stores
  <1>3. ASSUME NEW a \in Actions, RefuseHalted(a) PROVE Acts(a)
    <2>1. phase = "run" /\ ~Done(a) /\ Level[a] = level /\ status[a] = "failed"
      BY <1>3, TurnComes DEF RefuseHalted, OrderInv, Ordered, HaltKnown
    <2>2. Step(a, "idle") /\ raised' = raised /\ UNCHANGED <<status, stores, edited>>
      BY <1>3 DEF RefuseHalted
    <2>3. /\ Moves(a) /\ pc'[a] = "idle" /\ a \notin todo'
          /\ level' = level /\ todo \ {a} \subseteq todo'
      BY <1>0, <2>2, StepStays
    <2>4. Beside(a) /\ ~Done(a)' /\ WroteWell(a)' /\ (Started(a)' <=> Started(a))
      BY <2>1, <2>2, <2>3 DEF Beside, stores, Done, WroteWell, Wrote, Started
    <2> QED
      BY <1>0, <2>1, <2>2, <2>3, <2>4 DEF Acts, stores, Settled
  <1>4. ASSUME NEW a \in Actions, DependencySkip(a) PROVE Acts(a)
    <2> DEFINE drops == IF \E d \in Deps[a] : rows[d] = "none" THEN {a} ELSE {}
    <2>1. PICK cleared \in SUBSET Outlived(a) : Skip(a, drops, cleared, HaltUnread(a))
      BY <1>4 DEF DependencySkip
    <2>2. CanStart(a) /\ drops \in SUBSET {a}
      BY <1>4 DEF DependencySkip, PastHalt
    <2>3. \A d \in cleared : pc[d] = "idle" /\ d # a
      BY <2>2, TurnComes DEF Outlived
    <2>4. HaltUnread(a) \in SUBSET Mishaps /\ (node[a] = "halted" => "unread" \in HaltUnread(a))
      BY DEF HaltUnread, Mishaps
    <2>5. answers[a] = "none"
      <3>1. PICK d \in Deps[a] : Blocks(d)
        BY <1>4 DEF DependencySkip
      <3>2. d \in Actions
        BY DepsBelow
      <3>3. ~Done(d)
        BY <3>1, <3>2 DEF Blocks, Blocking, Failures, Done, Completed, OrderInv, EngineInv, Sound
      <3> QED
        BY <3>3, <1>0 DEF Upstream
    <2> HIDE DEF drops
    <2> QED
      BY <2>1, <2>2, <2>3, <2>4, <2>5, TurnComes, SkipActs
  <1>5. ASSUME NEW a \in Actions, Begin(a) PROVE Acts(a)
    <2>1. phase = "run" /\ ~Done(a) /\ Level[a] = level /\ Upstream(a)
      BY <1>5, TurnComes DEF Begin, PastHalt
    <2>2. /\ Step(a, IF answers[a] = "none" THEN "asking" ELSE "carrying")
          /\ raised' = raised
      BY <1>5 DEF Begin
    <2>3. /\ Moves(a) /\ pc'[a] \in {"asking", "carrying"} /\ a \notin todo'
          /\ level' = level /\ todo \ {a} \subseteq todo'
      BY <1>0, <2>2, StepStays
    <2>4. \A d \in Outlived(a) : d # a /\ pc[d] = "idle"
      BY <1>5, TurnComes DEF Begin, PastHalt, Outlived
    <2>5. Beside(a) /\ status'[a] = "running" /\ node'[a] = "none"
      BY <1>0, <1>5, <2>4 DEF Begin, With, Beside, TypeOK
    <2>6. ~Done(a)' /\ WroteWell(a)'
      BY <2>3, <2>5 DEF Done, Completed, WroteWell, Wrote
    <2> QED
      BY <1>0, <1>5, <2>1, <2>3, <2>5, <2>6 DEF Acts, Begin
  <1> QED
    BY <1>1, <1>2, <1>3, <1>4, <1>5 DEF Turn

\* Work that writes an output finds nothing stale to write it from, and leaves nothing of its
\* readers behind but rows.
LEMMA StoreActs ==
    ASSUME OrderInv, NEW a \in Actions, pc[a] # "idle",
           NEW outcome \in {"ok", "some", "failed", "filtered"}, NEW new \in {"fresh", "mixed"},
           Store(a, outcome, new), batch' = Stale(batch, a), status' = status
    PROVE  /\ Beside(a) /\ batch'[a] = batch[a]
           /\ answers'[a] \in {answers[a], "current"} /\ node'[a] \in {node[a], "skipped"}
           /\ \/ rows'[a] \in {"fresh", "mixed"}
              \/ rows'[a] = "none" /\ node'[a] = "skipped"
              \/ fails'[a] /\ answers'[a] = "none"
  <1>0. TypeOK
    BY DEF OrderInv, EngineInv
  <1>1. \A x \in ReadersOf[a] : answers[x] = "none" /\ batch[x] = "none"
    BY UnderWay, ReadersIdle
  <1>2. a \notin ReadersOf[a]
    BY ReadersAbove, LevelAssumption
  <1>3. \A x \in Actions : Stale(answers, a)[x] = answers[x] /\ Stale(batch, a)[x] = batch[x]
    BY <1>1 DEF Stale
  <1>4. \A x \in Actions : Stale(rows, a)[x] = rows[x]
            \/ (x \in ReadersOf[a] /\ rows[x] # "none" /\ Stale(rows, a)[x] = "stale")
    BY DEF Stale
  <1>5. PICK r : /\ r \in CASE outcome \in {"ok", "some"} -> {new}
                           [] outcome = "failed" -> {rows[a], "fresh"}
                           [] outcome = "filtered" -> {"none"}
                 /\ rows' = [Stale(rows, a) EXCEPT ![a] = r]
    BY DEF Store
  <1>6. /\ rows'[a] = r
        /\ \A x \in Actions \ {a} : rows'[x] = Stale(rows, a)[x]
    BY <1>5 DEF Stale
  <1>7. /\ answers'[a] = IF outcome \in {"ok", "some"} /\ answers[a] = "none"
                         THEN "current" ELSE answers[a]
        /\ \A x \in Actions \ {a} : answers'[x] = answers[x]
    BY <1>3 DEF Store, Stale
  <1>8. /\ fails'[a] = (outcome \in {"some", "failed"})
        /\ node'[a] = IF outcome = "filtered" THEN "skipped" ELSE node[a]
        /\ \A x \in Actions \ {a} : fails'[x] = fails[x] /\ node'[x] = node[x]
    BY <1>0 DEF Store, TypeOK
  <1>9. Beside(a) /\ batch'[a] = batch[a]
    BY <1>3, <1>4, <1>6, <1>7, <1>8 DEF Beside
  <1>10. \/ rows'[a] \in {"fresh", "mixed"}
         \/ rows'[a] = "none" /\ node'[a] = "skipped"
         \/ fails'[a] /\ answers'[a] = "none"
    <2>1. CASE outcome \in {"ok", "some"}
      BY <1>5, <1>6, <2>1
    <2>2. CASE outcome = "failed"
      BY <1>7, <1>8, <2>2 DEF Store
    <2>3. CASE outcome = "filtered"
      BY <1>5, <1>6, <1>8, <2>3
    <2> QED
      BY <2>1, <2>2, <2>3
  <1> QED
    BY <1>7, <1>8, <1>9, <1>10

\* Nor does work the store refuses to record.
LEMMA UnrecordedActs ==
    ASSUME OrderInv, NEW a \in Actions, pc[a] # "idle", NEW outcome, NEW new \in {"fresh", "mixed"},
           Unrecorded(a, outcome, new), batch' = Stale(batch, a), status' = status
    PROVE  /\ Beside(a) /\ batch'[a] = batch[a]
           /\ answers'[a] = answers[a] /\ node'[a] = node[a]
           /\ rows'[a] \in {"fresh", "mixed"}
  <1>0. TypeOK
    BY DEF OrderInv, EngineInv
  <1>1. \A x \in ReadersOf[a] : answers[x] = "none" /\ batch[x] = "none"
    BY UnderWay, ReadersIdle
  <1>2. \A x \in Actions : Stale(answers, a)[x] = answers[x] /\ Stale(batch, a)[x] = batch[x]
    BY <1>1 DEF Stale
  <1>3. \A x \in Actions : Stale(rows, a)[x] = rows[x]
            \/ (x \in ReadersOf[a] /\ rows[x] # "none" /\ Stale(rows, a)[x] = "stale")
    BY DEF Stale
  <1>4. rows'[a] = new /\ \A x \in Actions \ {a} : rows'[x] = Stale(rows, a)[x]
    BY DEF Unrecorded, Stale
  <1>5. UNCHANGED <<node, fails>> /\ answers' = Stale(answers, a)
    BY DEF Unrecorded
  <1> QED
    BY <1>2, <1>3, <1>4, <1>5 DEF Beside

LEMMA WorkActs == ASSUME OrderInv, Work \/ Collect PROVE \E a \in Actions : Acts(a)
  <1>0. /\ TypeOK
        /\ \A x \in Actions : /\ answers[x] # "none" => answers[x] = "current"
                              /\ batch[x] # "none" => batch[x] = "current"
    BY DEF OrderInv, EngineInv, Ordered, OnDisk
  \* Whatever a step of the work writes, it holds well if its parts do.
  <1>1. ASSUME NEW a \in Actions, pc[a] # "idle", Beside(a), UNCHANGED <<status, edited, raised>>,
               \/ UNCHANGED memory
               \/ \E s \in Steps \ {"idle"} : Step(a, s),
               answers'[a] \in {answers[a], "current"},
               \/ batch'[a] \in {batch[a], "none"}
               \/ batch'[a] = "current" /\ a \in BatchActions,
               node'[a] # "halted", WroteWell(a)'
        PROVE  Acts(a)
    <2>1. /\ phase \in {"run", "drain"} /\ Started(a) /\ Upstream(a) /\ ~Done(a)
          /\ status[a] \in InFlight \cup {"interrupted"}
          /\ (status[a] = "interrupted" => phase = "drain")
          /\ (phase = "run" => Level[a] = level /\ a \notin todo)
      BY <1>1, UnderWay
    <2>2. /\ Moves(a) /\ pc'[a] # "idle" /\ level' = level
          /\ todo \ {a} \subseteq todo' /\ todo' \subseteq todo
      <3>1. CASE UNCHANGED memory
        BY <1>1, <3>1 DEF memory, Moves
      <3>2. CASE \E s \in Steps \ {"idle"} : Step(a, s)
        BY <1>0, <1>1, <3>2, StepStays DEF Step
      <3> QED
        BY <1>1, <3>1, <3>2
    <2>3. ~Done(a)' /\ status'[a] \notin {"skipped", "batch_submitted"}
      BY <1>1, <2>1 DEF Done, InFlight
    <2> QED
      BY <1>0, <1>1, <2>1, <2>2, <2>3 DEF Acts
  <1>2. ASSUME NEW a \in Actions, pc[a] # "idle"
        PROVE  node[a] # "halted" /\ ~Done(a)
    BY <1>2, UnderWay
  <1>3. ASSUME NEW a \in Actions, Answer(a) PROVE Acts(a)
    <2>1. pc[a] \in {"asking", "carrying"} /\ UNCHANGED <<status, edited, raised, node, batch, memory>>
      BY <1>3 DEF Answer, Working, At, memory
    <2>2. Beside(a) /\ answers'[a] = "current"
      BY <1>0, <1>3 DEF Answer, Beside, TypeOK
    <2>3. WroteWell(a)'
      BY <2>1 DEF WroteWell, Wrote, memory
    <2> QED
      BY <1>0, <1>1, <1>2, <2>1, <2>2, <2>3
  <1>4. ASSUME NEW a \in Actions, Submit(a) PROVE Acts(a)
    <2>1. /\ pc[a] \in {"asking", "carrying"} /\ Step(a, "ran") /\ a \in BatchActions
          /\ UNCHANGED <<status, edited, raised, node, rows, answers>>
      BY <1>4 DEF Submit, Working, At
    <2>2. Beside(a) /\ batch'[a] = "current"
      BY <1>0, <1>4 DEF Submit, Beside, TypeOK
    <2>3. WroteWell(a)'
      BY <1>0, <2>1, <2>2 DEF WroteWell, Wrote, Owes, Step, TypeOK
    <2> QED
      BY <1>0, <1>1, <1>2, <2>1, <2>2, <2>3 DEF Steps
  <1>5. ASSUME NEW a \in Actions, MarkCollected(a) PROVE Acts(a)
    <2>1. /\ pc[a] = "collecting" /\ Step(a, "collected")
          /\ UNCHANGED <<status, edited, raised, node, rows, answers, fails>>
      BY <1>5 DEF MarkCollected, At
    <2>2. Beside(a) /\ batch'[a] = "none"
      BY <1>0, <1>5 DEF MarkCollected, Beside, TypeOK
    <2>3. WroteWell(a)'
      BY <2>1 DEF WroteWell, Wrote, OrderInv, Ordered
    <2> QED
      BY <1>0, <1>1, <1>2, <2>1, <2>2, <2>3 DEF Steps
  <1>6. \A a \in Actions, carries \in BOOLEAN : Written(a, carries) \in {"fresh", "mixed"}
    BY <1>0 DEF Written
  <1>7. ASSUME NEW a \in Actions, NEW outcome \in {"ok", "some", "failed", "filtered"},
               Write(a, outcome)
        PROVE  Acts(a)
    <2>1. /\ pc[a] \in {"asking", "carrying"} /\ Step(a, "ran") /\ UNCHANGED <<status, edited, raised>>
          /\ Store(a, outcome, Written(a, pc[a] = "carrying")) /\ batch' = Stale(batch, a)
      BY <1>7 DEF Write, Working, At
    <2>2. /\ Beside(a) /\ batch'[a] = batch[a]
          /\ answers'[a] \in {answers[a], "current"} /\ node'[a] \in {node[a], "skipped"}
          /\ \/ rows'[a] \in {"fresh", "mixed"}
             \/ rows'[a] = "none" /\ node'[a] = "skipped"
             \/ fails'[a] /\ answers'[a] = "none"
      BY <1>6, <2>1, StoreActs
    <2> QED
      BY <1>0, <1>1, <1>2, <2>1, <2>2 DEF Steps, WroteWell, TypeOK, Held
  <1>8. ASSUME NEW a \in Actions, NEW outcome \in {"ok", "some", "failed"},
               CollectRows(a, outcome)
        PROVE  Acts(a)
    <2> DEFINE new == IF batch[a] = "stale" THEN "stale" ELSE Written(a, answers[a] # "none")
    <2>1. /\ pc[a] = "checking" /\ Step(a, "collecting") /\ UNCHANGED <<status, edited, raised>>
          /\ Store(a, outcome, new) \/ Unrecorded(a, outcome, new)
          /\ batch' = Stale(batch, a)
      BY <1>8 DEF CollectRows, At
    <2>2. new \in {"fresh", "mixed"}
      BY <1>0, <1>6
    <2> HIDE DEF new
    <2>3. /\ Beside(a) /\ batch'[a] = batch[a]
          /\ answers'[a] \in {answers[a], "current"} /\ node'[a] \in {node[a], "skipped"}
          /\ \/ rows'[a] \in {"fresh", "mixed"}
             \/ rows'[a] = "none" /\ node'[a] = "skipped"
             \/ fails'[a] /\ answers'[a] = "none"
      BY <2>1, <2>2, StoreActs, UnrecordedActs
    <2> QED
      BY <1>0, <1>1, <1>2, <2>1, <2>3 DEF Steps, WroteWell, TypeOK, Held
  <1> QED
    BY <1>3, <1>4, <1>5, <1>7, <1>8 DEF Work, Collect

LEMMA FinishActs ==
    ASSUME OrderInv, NEW a \in Actions, NEW stamped \in SUBSET {a}, Finish(a, stamped),
           phase = "run", Wrote(a)
    PROVE  Acts(a)
  <1>0. TypeOK /\ pc[a] # "idle"
    BY DEF OrderInv, EngineInv, Wrote
  <1>1. CASE Resolution(a) = "failed"
    <2>1. PICK marker \in {"failed", "every_input"} : FailWith(a, marker, {})
      BY <1>1 DEF Finish
    <2> QED
      BY <1>0, <1>1, <2>1, FailWithActs DEF Finish
  <1>2. CASE Resolution(a) # "failed"
    <2>1. /\ Moves(a) /\ pc'[a] = "idle" /\ a \notin todo'
          /\ Gone \/ (level' = level /\ todo \ {a} \subseteq todo')
      BY <1>0, <1>2, EndsStays DEF Finish
    <2>2. /\ status' = [status EXCEPT ![a] = Resolution(a)]
          /\ UNCHANGED <<rows, answers, fails, batch>>
          /\ node' = node \/ node' = [node EXCEPT ![a] = "none"]
      BY <1>2 DEF Finish
    <2>3. status'[a] = Resolution(a) /\ Resolution(a) \in Completed \cup {"skipped"}
      BY <1>0, <1>2, <2>2 DEF TypeOK, Resolution, Completed
    <2>4. Beside(a) /\ node'[a] \in {node[a], "none"}
      BY <1>0, <2>2 DEF Beside, TypeOK
    <2>5. Upstream(a) /\ ~Done(a) /\ node[a] # "halted" /\ Level[a] = level
      BY <1>0, UnderWay
    <2>6. /\ Done(a)' => rows'[a] \in {"fresh", "mixed"}
          /\ status'[a] = "skipped" => SparedBy(a)
      BY <2>2, <2>3 DEF Done, Completed, Resolution, WroteWell, OrderInv, Ordered, SparedBy, Spared
    <2>7. WroteWell(a)'
      BY <2>1 DEF WroteWell, Wrote
    <2>8. status'[a] \in Settled /\ status'[a] \notin {"interrupted", "batch_submitted"}
      BY <2>3 DEF Settled, Completed
    <2>9. /\ answers[a] # "none" => answers[a] = "current"
          /\ batch[a] # "none" => batch[a] = "current"
      BY DEF OrderInv, Ordered, OnDisk
    <2>10. edited' \in {edited, edited \ {a}}
      BY <1>2 DEF Finish
    <2> QED
      BY <1>0, <2>1, <2>2, <2>4, <2>5, <2>6, <2>7, <2>8, <2>9, <2>10 DEF Acts
  <1> QED
    BY <1>1, <1>2

LEMMA HandleActs == ASSUME HaltsRead, OrderInv, Handle PROVE \E a \in Actions : Acts(a)
  <1>0. /\ TypeOK
        /\ \A x \in Actions : /\ answers[x] # "none" => answers[x] = "current"
                              /\ batch[x] # "none" => batch[x] = "current"
    BY DEF OrderInv, EngineInv, Ordered, OnDisk
  <1>1. ASSUME NEW a \in Actions, Complete(a) \/ Collected(a) PROVE Acts(a)
    BY <1>1, FinishActs DEF Complete, Collected, Back, Wrote
  <1>2. ASSUME NEW a \in Actions, Submitted(a) \/ StillOut(a) PROVE Acts(a)
    <2>1. /\ phase = "run" /\ pc[a] # "idle" /\ Ends(a, {}) /\ UNCHANGED stores
          /\ status' = [status EXCEPT ![a] = "batch_submitted"]
      BY <1>2 DEF Submitted, StillOut, Back
    <2>2. /\ Moves(a) /\ pc'[a] = "idle" /\ a \notin todo'
          /\ Gone \/ (level' = level /\ todo \ {a} \subseteq todo')
      BY <1>0, <2>1, EndsStays
    <2>3. Upstream(a) /\ ~Done(a) /\ node[a] # "halted" /\ Level[a] = level
      BY <2>1, UnderWay
    <2>4. Beside(a) /\ status'[a] = "batch_submitted"
      BY <1>0, <2>1 DEF Beside, stores, TypeOK
    <2>5. ~Done(a)' /\ WroteWell(a)'
      BY <2>2, <2>4 DEF Done, Completed, WroteWell, Wrote
    <2>6. edited' \in {edited, edited \ {a}} /\ batch[a] # "none"
      BY <1>2 DEF Submitted, StillOut, Owes
    <2> QED
      BY <1>0, <2>1, <2>2, <2>3, <2>4, <2>5, <2>6 DEF Acts, stores
  <1>3. ASSUME NEW a \in Actions, RunFails(a) \/ CheckHalts(a) PROVE Acts(a)
    <2>1. /\ phase = "run" /\ pc[a] # "idle" /\ UNCHANGED <<rows, answers, fails, batch, edited>>
          /\ \E marker : FailWith(a, marker, {"trouble"})
      BY <1>3 DEF RunFails, CheckHalts, Back
    <2> QED
      BY <2>1, FailWithActs DEF Mishaps
  <1>4. ASSUME NEW a \in Actions, BatchFails(a) PROVE Acts(a)
    <2>1. /\ phase = "run" /\ pc[a] # "idle" /\ UNCHANGED <<rows, answers, fails, edited>>
          /\ batch' = [batch EXCEPT ![a] = "none"]
          /\ \E K \in SUBSET Mishaps : FailWith(a, "failed", K)
      BY <1>4 DEF BatchFails, Back, Mishaps
    <2> QED
      BY <2>1, FailWithActs
  <1>5. ASSUME NEW a \in Actions, NoInput(a) PROVE Acts(a)
    <2>1. phase = "run" /\ pc[a] # "idle"
      BY <1>5 DEF NoInput, Back
    <2>2. /\ ~Done(a) /\ Level[a] = level /\ node[a] # "halted"
          /\ Deps[a] = {} \/ (Upstream(a) /\ ~HasInput(a))
      BY <1>5, <2>1, UnderWay DEF NoInput
    <2>3. PICK K \in SUBSET Mishaps : Skip(a, {a}, {}, K)
      BY <1>5 DEF NoInput, Mishaps
    <2> QED
      BY <2>1, <2>2, <2>3, SkipActs
  <1>6. ASSUME NEW a \in Actions, CheckRaises(a) PROVE Acts(a)
    <2>1. /\ phase = "run" /\ pc[a] # "idle" /\ Step(a, "idle") /\ raised'
          /\ UNCHANGED <<status, rows, answers, fails, batch, edited>>
          /\ node' = node \/ node' = [node EXCEPT ![a] = "failed"]
      BY <1>6 DEF CheckRaises, Back
    <2>2. /\ Moves(a) /\ pc'[a] = "idle" /\ a \notin todo'
          /\ level' = level /\ todo \ {a} \subseteq todo'
      BY <1>0, <2>1, StepStays
    <2>3. /\ Upstream(a) /\ ~Done(a) /\ node[a] # "halted" /\ Level[a] = level
          /\ status[a] \in InFlight
      BY <2>1, UnderWay
    <2>4. Beside(a) /\ node'[a] \in {node[a], "failed"}
      BY <1>0, <2>1 DEF Beside, TypeOK
    <2>5. ~Done(a)' /\ WroteWell(a)'
      BY <2>1, <2>2, <2>3 DEF Done, WroteWell, Wrote
    <2> QED
      BY <1>0, <2>1, <2>2, <2>3, <2>4, <2>5 DEF Acts, InFlight
  <1> QED
    BY <1>1, <1>2, <1>3, <1>4, <1>5, <1>6 DEF Handle

-----------------------------------------------------------------------------
(* Startup, resets, and the ends of a run *)

LEMMA AtRest ==
    ASSUME OrderInv, phase \notin {"run", "drain"}, pc' = pc \/ Gone
    PROVE  \A x \in Actions : WroteWell(x)' /\ pc[x] = "idle"
  <1>1. \A x \in Actions : pc[x] = "idle" /\ pc'[x] = "idle"
    BY Idle DEF OrderInv, Gone
  <1> QED
    BY <1>1 DEF WroteWell, Wrote

LEMMA StartOrder ==
    ASSUME HaltsRead, OrderInv, EngineInv', StartPlain \/ StartPlainUnread \/ StartRerun \/ StartFresh
    PROVE  OrderInv'
  <1>1. ASSUME NEW named \in SUBSET Actions, NEW unread \in SUBSET Actions,
               StartRun(named, unread)
        PROVE  OrderInv'
    <2>1. /\ phase = "off" /\ phase' = "clear" /\ todo' = PutBack(unread)
          /\ UNCHANGED <<stores, pc>>
          /\ \A x \in Actions : status'[x] = IF x \in PutBack(unread) THEN "pending" ELSE status[x]
      BY <1>1 DEF StartRun, With
    <2>2. \A x \in PutBack(unread) : ~Done(x)
      BY DEF PutBack, Done, Retryable, MidProcessing, Completed
    <2>3. unread # {} => Budget["unread"] # 0
      <3>1. PICK K \in SUBSET Mishaps : Spend(K) /\ (unread # {} => "unread" \in K)
        BY <1>1 DEF StartRun, Mishaps
      <3> QED
        BY <3>1, SpendNeeds DEF OrderInv, EngineInv, TypeOK
    <2>4. ASSUME NEW x \in Actions PROVE Ordered(x)'
      <3>1. Upstream(x) => Upstream(x)'
        BY <2>1, <2>2, DepsAssumption DEF Upstream, Done
      <3>2. OnDisk(x)'
        BY <2>1, <3>1 DEF OrderInv, Ordered, OnDisk, Started, Done, Completed, stores
      <3>3. HaltKnown(x)'
        BY <2>1, <2>3 DEF OrderInv, Ordered, HaltKnown, stores, PutBack, Halted
      <3>4. status'[x] # "interrupted"
        BY <2>1 DEF PutBack, Halted, Retryable, MidProcessing
      <3> QED
        BY <2>1, <3>2, <3>3, <3>4, AtRest DEF Ordered, InOrder, InReset, InWipe
    <2> QED
      BY <2>4 DEF OrderInv
  <1>2. CASE StartFresh
    <2>1. phase = "off" /\ phase' = "wipe" /\ todo' = Actions /\ UNCHANGED <<status, stores, pc>>
      BY <1>2 DEF StartFresh
    <2>2. Budget["store"] = 0
      BY <1>2, SpendNeeds DEF StartFresh, HaltsRead, OrderInv, EngineInv, TypeOK, Mishaps
    <2>3. ASSUME NEW x \in Actions PROVE Ordered(x)'
      BY <2>1, <2>2, AtRest DEF OrderInv, Ordered, OnDisk, Started, Upstream, Done, stores,
                                HaltKnown, InOrder, InReset, InWipe
    <2> QED
      BY <2>3 DEF OrderInv
  <1> QED
    BY <1>1, <1>2 DEF StartPlain, StartPlainUnread, StartRerun

LEMMA StartupOrder == ASSUME HaltsRead, OrderInv, EngineInv', Startup PROVE OrderInv'
  <1>1. CASE StartupDone
    <2>1. /\ phase = "clear" /\ todo = {} /\ phase' \in {"verify", "reset"}
          /\ level' = 0 /\ todo' = AtLevel(0) /\ UNCHANGED <<status, stores, pc>>
          /\ forgetting' = reopening'
          /\ reopening' = UNION {ReadersOf[y] \cup {y} : y \in rerun}
      BY <1>1 DEF StartupDone
    <2>2. rerun \subseteq Actions
      BY DEF OrderInv, EngineInv, TypeOK
    <2>3. ASSUME NEW x \in Actions, NEW r \in Actions, x \in reopening', x \in Deps[r]
          PROVE  r \in reopening'
      <3>1. PICK y \in rerun : x \in ReadersOf[y] \cup {y}
        BY <2>1, <2>3
      <3>2. r \in ReadersOf[y]
        BY <2>2, <2>3, <3>1, ReadersClosed
      <3> QED
        BY <2>1, <3>2
    <2>4. ASSUME NEW x \in Actions PROVE Ordered(x)'
      <3>1. OnDisk(x)' /\ HaltKnown(x)'
        BY <2>1 DEF OrderInv, Ordered, OnDisk, Started, Upstream, Done, stores, HaltKnown
      <3>2. InOrder(x)'
        BY <2>1, LevelAssumption DEF OrderInv, Ordered, InOrder, AtLevel
      <3>3. InReset(x)'
        BY <2>1, <2>3, LevelAssumption DEF InReset
      <3> QED
        BY <2>1, <3>1, <3>2, <3>3, AtRest DEF Ordered, InWipe
    <2> QED
      BY <2>4 DEF OrderInv
  <1>2. CASE WipeDone
    <2>1. /\ phase = "wipe" /\ todo = {} /\ phase' = "verify" /\ level' = 0
          /\ todo' = AtLevel(0) /\ UNCHANGED <<stores, pc>>
          /\ \A x \in Actions : status'[x] = "pending"
      BY <1>2 DEF WipeDone, EnterLevel
    <2>2. ASSUME NEW x \in Actions PROVE Ordered(x)'
      BY <2>1, AtRest, LevelAssumption
      DEF OrderInv, Ordered, InWipe, OnDisk, Started, Done, Completed, stores, HaltKnown,
          InOrder, InReset, AtLevel
    <2> QED
      BY <2>2 DEF OrderInv
  <1>3. ASSUME NEW a \in Actions, ClearReset(a) PROVE OrderInv'
    <2>1. /\ phase = "clear" /\ phase' = "clear" /\ todo' = todo \ {a}
          /\ UNCHANGED <<status, rows, batch, pc>>
          /\ \A x \in Actions : /\ answers'[x] \in {answers[x], "none"}
                                /\ node'[x] \in {node[x], "none"}
      BY <1>3 DEF ClearReset, OrderInv, EngineInv, TypeOK
    <2>2. node'[a] = "halted" => Budget["unread"] = 0
      <3>1. CASE Spend({"store"})
        BY <3>1, SpendNeeds DEF HaltsRead, OrderInv, EngineInv, TypeOK, Mishaps
      <3>2. CASE ~Spend({"store"})
        BY <1>3, <3>2 DEF ClearReset, Failures, OrderInv, EngineInv, TypeOK
      <3> QED
        BY <3>1, <3>2
    <2>3. ASSUME NEW x \in Actions PROVE Ordered(x)'
      <3>1. OnDisk(x)'
        BY <2>1 DEF OrderInv, Ordered, OnDisk, Started, Upstream, Done
      <3>2. HaltKnown(x)'
        BY <2>1, <2>2 DEF OrderInv, Ordered, HaltKnown
      <3> QED
        BY <2>1, <3>1, <3>2, AtRest DEF OrderInv, Ordered, InOrder, InReset, InWipe
    <2> QED
      BY <2>3 DEF OrderInv
  <1>4. ASSUME NEW a \in Actions, NEW refused, Wipe(a, refused) PROVE OrderInv'
    <2>1. phase = "wipe" /\ phase' = "wipe" /\ a \in todo /\ todo' = todo \ {a}
          /\ UNCHANGED <<status, pc>>
      BY <1>4 DEF Wipe
    <2>2. refused = {}
      <3>1. Budget["store"] = 0
        BY <2>1 DEF OrderInv, Ordered, InWipe
      <3> QED
        BY <1>4, <3>1, SpendNeeds DEF Wipe, OrderInv, EngineInv, TypeOK, Mishaps
    <2>3. /\ rows' = [rows EXCEPT ![a] = "none"] /\ batch' = [batch EXCEPT ![a] = "none"]
          /\ answers' = [answers EXCEPT ![a] = "none"] /\ node' = [node EXCEPT ![a] = "none"]
      BY <1>4, <2>2 DEF Wipe
    <2>4. ASSUME NEW x \in Actions PROVE Ordered(x)'
      <3>1. IF x = a THEN rows'[x] = "none" /\ batch'[x] = "none" /\ answers'[x] = "none" /\ node'[x] = "none"
            ELSE rows'[x] = rows[x] /\ batch'[x] = batch[x] /\ answers'[x] = answers[x] /\ node'[x] = node[x]
        BY <2>3 DEF OrderInv, EngineInv, TypeOK
      <3> QED
        BY <2>1, <3>1, AtRest DEF OrderInv, Ordered, OnDisk, Started, Upstream, Done, HaltKnown,
                                  InOrder, InReset, InWipe
    <2> QED
      BY <2>4 DEF OrderInv
  <1> QED
    BY <1>1, <1>2, <1>3, <1>4 DEF Startup

\* A reset takes a whole chain of readers, from an action of the level at hand.
LEMMA ResetOrder ==
    ASSUME OrderInv, EngineInv', NEW a \in Actions, Verifying(a),
           NEW F \in {ReadersOf[a], ReadersOf[a] \cup {a}}, ResetFrom(a, F)
    PROVE  OrderInv'
  <1>1. /\ phase = "verify" /\ phase' = "reset" /\ todo' = todo \ {a} /\ forgetting' = F
        /\ reopening' = ReadersOf[a] \cup {a} /\ UNCHANGED <<status, stores, level, pc>>
        /\ a \in todo /\ Done(a)
    BY DEF ResetFrom, Verifying
  <1>2. Level[a] = level /\ node[a] = "none"
    BY <1>1 DEF OrderInv, Ordered, InOrder, EngineInv, Sound
  <1>3. Deps[a] \cap (ReadersOf[a] \cup {a}) = {}
    BY ReadersClosed, ReadersAbove, LevelAssumption
  <1>4. ASSUME NEW x \in Actions PROVE Ordered(x)'
    <2>1. OnDisk(x)' /\ HaltKnown(x)'
      BY <1>1 DEF OrderInv, Ordered, OnDisk, Started, Upstream, Done, stores, HaltKnown
    <2>2. InOrder(x)'
      BY <1>1 DEF OrderInv, Ordered, InOrder
    <2>3. InReset(x)'
      <3>1. \A r \in Actions : x \in reopening' /\ x \in Deps[r] => r \in reopening'
        BY <1>1, ReadersClosed
      <3>2. x \in reopening' => level' <= Level[x]
        BY <1>1, <1>2, ReadersAbove, LevelAssumption
      <3>3. x \in reopening' \ forgetting' => x = a
        BY <1>1
      <3>4. node'[a] # "halted" /\ Deps[a] \cap reopening' = {}
        BY <1>1, <1>2, <1>3 DEF stores
      <3> QED
        BY <3>1, <3>2, <3>3, <3>4 DEF InReset
    <2> QED
      BY <1>1, <2>1, <2>2, <2>3, AtRest DEF Ordered, InWipe
  <1> QED
    BY <1>4 DEF OrderInv

LEMMA VerifyOrder == ASSUME HaltsRead, OrderInv, EngineInv', Verify PROVE OrderInv'
  <1>1. CASE Reopen
    <2>1. /\ phase = "reset" /\ forgetting = {} /\ phase' = "verify"
          /\ UNCHANGED <<stores, level, todo, pc>>
          /\ \A x \in Actions : status'[x] = IF x \in reopening THEN "pending" ELSE status[x]
      BY <1>1 DEF Reopen, With
    <2>2. ASSUME NEW x \in Actions PROVE Ordered(x)'
      <3>1. ASSUME Upstream(x), Deps[x] \cap reopening = {} PROVE Upstream(x)'
        BY <2>1, <3>1, DepsAssumption DEF Upstream, Done
      <3>2. /\ x \notin reopening => Deps[x] \cap reopening = {}
            /\ answers[x] # "none" \/ batch[x] # "none" => Deps[x] \cap reopening = {}
        BY <2>1, DepsAssumption DEF OrderInv, Ordered, InReset
      <3>3. OnDisk(x)'
        BY <2>1, <3>1, <3>2 DEF OrderInv, Ordered, OnDisk, Started, Done, Completed, stores
      <3>4. HaltKnown(x)'
        BY <2>1 DEF OrderInv, Ordered, HaltKnown, InReset, stores
      <3>5. InOrder(x)'
        BY <2>1, LevelAssumption DEF OrderInv, EngineInv, TypeOK, Ordered, InOrder, InReset
      <3> QED
        BY <2>1, <3>3, <3>4, <3>5, AtRest DEF Ordered, InReset, InWipe
    <2> QED
      BY <2>2 DEF OrderInv
  <1>2. CASE BeginLevel
    <2>1. /\ phase = "verify" /\ phase' = "run" /\ todo' = {a \in AtLevel(level) : Pending(a)}
          /\ UNCHANGED <<status, stores, level, pc>>
      BY <1>2 DEF BeginLevel
    <2>2. ASSUME NEW x \in Actions PROVE Ordered(x)'
      <3>1. OnDisk(x)' /\ HaltKnown(x)'
        BY <2>1 DEF OrderInv, Ordered, OnDisk, Started, Upstream, Done, stores, HaltKnown
      <3>2. InOrder(x)'
        BY <2>1, AtRest
        DEF OrderInv, Ordered, InOrder, AtLevel, Pending, Done, Terminal, Settled, Completed
      <3> QED
        BY <2>1, <3>1, <3>2, AtRest DEF Ordered, InReset, InWipe
    <2> QED
      BY <2>2 DEF OrderInv
  <1>3. ASSUME NEW a \in Actions, Forget(a) PROVE OrderInv'
    <2>1. /\ phase = "reset" /\ UNCHANGED <<status, rows>>
          /\ node' = [node EXCEPT ![a] = "none"] /\ answers' = [answers EXCEPT ![a] = "none"]
          /\ \/ /\ batch' = [batch EXCEPT ![a] = "none"] /\ forgetting' = forgetting \ {a}
                /\ UNCHANGED <<phase, level, todo, pc, reopening>>
             \/ Gone /\ batch' = batch
      BY <1>3 DEF Forget
    <2>2. ASSUME NEW x \in Actions PROVE Ordered(x)'
      <3>1. /\ answers'[x] = IF x = a THEN "none" ELSE answers[x]
            /\ node'[x] = IF x = a THEN "none" ELSE node[x]
            /\ batch'[x] \in {batch[x], "none"} /\ (~Gone /\ x = a => batch'[x] = "none")
        BY <2>1 DEF OrderInv, EngineInv, TypeOK
      <3>2. OnDisk(x)'
        BY <2>1, <3>1 DEF OrderInv, Ordered, OnDisk, Started, Upstream, Done
      <3>3. HaltKnown(x)'
        BY <2>1, <3>1 DEF OrderInv, Ordered, HaltKnown
      <3>4. CASE Gone
        BY <2>1, <3>2, <3>3, <3>4, AtRest DEF Gone, Ordered, InOrder, InReset, InWipe
      <3>5. CASE ~Gone
        <4>1. InOrder(x)'
          BY <2>1, <3>5 DEF OrderInv, Ordered, InOrder
        <4>2. InReset(x)'
          BY <2>1, <3>1, <3>5 DEF OrderInv, Ordered, InReset
        <4> QED
          BY <2>1, <3>2, <3>3, <3>5, <4>1, <4>2, AtRest DEF Ordered, InWipe
      <3> QED
        BY <3>4, <3>5
    <2> QED
      BY <2>2 DEF OrderInv
  <1>4. ASSUME NEW a \in Actions, VerifyLimits(a) PROVE OrderInv'
    BY <1>4, ResetOrder DEF VerifyLimits
  <1>5. ASSUME NEW a \in Actions, VerifyRefuses(a) PROVE OrderInv'
    <2>1. node[a] \notin Blocking
      BY <1>5 DEF VerifyRefuses, Verifying, OrderInv, EngineInv, Sound, Blocking, Failures
    <2> QED
      BY <1>5, <2>1, ResetOrder DEF VerifyRefuses
  <1>6. ASSUME NEW a \in Actions, VerifyStands(a) PROVE OrderInv'
    <2>1. phase = "verify" /\ todo' = todo \ {a} /\ UNCHANGED <<status, stores, phase, level, pc>>
      BY <1>6 DEF VerifyStands, Verifying
    <2>2. ASSUME NEW x \in Actions PROVE Ordered(x)'
      BY <2>1, AtRest DEF OrderInv, Ordered, OnDisk, Started, Upstream, Done, stores, HaltKnown,
                          InOrder, InReset, InWipe
    <2> QED
      BY <2>2 DEF OrderInv
  <1>7. ASSUME NEW a \in Actions, VerifySettles(a) PROVE OrderInv'
    <2>0. TypeOK
      BY DEF OrderInv, EngineInv
    <2>1. /\ phase = "verify" /\ UNCHANGED <<node, rows, batch>> /\ Done(a)
          /\ Gone \/ (todo' = todo \ {a} /\ UNCHANGED <<phase, level, pc>>)
      BY <1>7, <2>0, SettlesFacts
    <2>2. \A x \in Actions : /\ Done(x)' <=> Done(x)
                             /\ status'[x] = status[x] \/ (Done(x) /\ Done(x)')
      BY <1>7, <2>0, SettlesFacts DEF Done, Completed
    <2>3. \A x \in Actions : \/ answers'[x] = answers[x]
                             \/ x = a /\ answers'[x] = "current"
      BY <1>7, <2>0, <2>1, SettlesFacts DEF OrderInv, Ordered, OnDisk
    <2>4. ASSUME NEW x \in Actions PROVE Ordered(x)'
      <3>1. Started(x)' <=> Started(x)
        BY <2>2 DEF Started, Done, Completed
      <3>2. Upstream(x)' <=> Upstream(x)
        BY <2>2, DepsAssumption DEF Upstream
      <3>3. Upstream(a)
        BY <2>1 DEF OrderInv, Ordered, OnDisk, Started, Done, Completed
      <3>4. OnDisk(x)'
        BY <2>1, <2>2, <2>3, <3>1, <3>2, <3>3 DEF OrderInv, Ordered, OnDisk
      <3>5. HaltKnown(x)'
        BY <2>1, <2>2 DEF OrderInv, Ordered, HaltKnown, Done, Completed
      <3>6. CASE Gone
        BY <2>1, <3>4, <3>5, <3>6, AtRest DEF Gone, Ordered, InOrder, InReset, InWipe
      <3>7. CASE ~Gone
        <4>1. status'[x] \in Settled <=> status[x] \in Settled
          BY <2>2 DEF Settled, Done
        <4>2. status'[x] = "interrupted" => status[x] = "interrupted"
          BY <2>2 DEF Done, Completed
        <4>3. InOrder(x)'
          BY <2>1, <3>7, <4>1, <4>2 DEF OrderInv, Ordered, InOrder
        <4> QED
          BY <2>1, <3>4, <3>5, <3>7, <4>3, AtRest DEF Ordered, InReset, InWipe
      <3> QED
        BY <3>6, <3>7
    <2> QED
      BY <2>4, <1>7 DEF OrderInv
  <1> QED
    BY <1>1, <1>2, <1>3, <1>4, <1>5, <1>6, <1>7 DEF Verify

\* A level that is over, with no error and no batch out, is settled.
LEMMA LevelSettled ==
    ASSUME OrderInv, LevelOver, ~raised, ~BatchOut
    PROVE  \A x \in Actions : Level[x] <= level => status[x] \in Settled
  <1>1. phase = "run" /\ (\A x \in Actions : pc[x] = "idle") /\ todo = {}
    BY DEF LevelOver, Busy, BatchOut, Stopped
  <1> SUFFICES ASSUME NEW x \in Actions, Level[x] <= level PROVE status[x] \in Settled
    OBVIOUS
  <1>2. Level[x] \in Nat /\ level \in Nat
    BY LevelAssumption DEF OrderInv, EngineInv, TypeOK
  <1>3. CASE Level[x] < level
    BY <1>1, <1>3 DEF OrderInv, Ordered, InOrder
  <1>4. CASE Level[x] = level
    BY <1>1, <1>4 DEF OrderInv, Ordered, InOrder, BatchOut, AtLevel
  <1> QED
    BY <1>2, <1>3, <1>4

LEMMA EndsOrder ==
    ASSUME OrderInv, EngineInv', NextLevel \/ RunEnds \/ RunRaises \/ Interrupt \/ Exit \/ Crash,
           HaltsRead
    PROVE  OrderInv'
  <1>1. CASE NextLevel
    <2>1. /\ LevelOver /\ ~raised /\ ~BatchOut /\ phase' = "verify" /\ level' = level + 1
          /\ todo' = AtLevel(level + 1) /\ UNCHANGED <<status, stores, pc>>
      BY <1>1 DEF NextLevel, EnterLevel
    <2>2. phase = "run" /\ \A x \in Actions : pc[x] = "idle"
      BY <2>1 DEF LevelOver, Busy
    <2>3. ASSUME NEW x \in Actions PROVE Ordered(x)'
      <3>1. Level[x] < level' => Level[x] <= level
        BY <2>1, LevelAssumption DEF OrderInv, EngineInv, TypeOK
      <3>2. InOrder(x)'
        BY <2>1, <2>2, <3>1, LevelSettled DEF OrderInv, Ordered, InOrder, AtLevel
      <3> QED
        BY <2>1, <2>2, <3>2 DEF OrderInv, Ordered, OnDisk, Started, Upstream, Done, stores,
                 HaltKnown, WroteWell, Wrote, InReset, InWipe
    <2> QED
      BY <2>3 DEF OrderInv
  \* The process ends, or waits for its threads: a sweep changes nothing else on disk.
  <1>2. ASSUME NEW to \in {"failed", "interrupted"}, UNCHANGED stores,
               \/ Sweep(to)
               \/ UNCHANGED status,
               \/ Gone
               \/ phase' = "drain" /\ pc' = pc,
               phase = "clear" => Budget["unread"] = 0
        PROVE  OrderInv'
    <2>1. \A x \in Actions : \/ status'[x] = status[x]
                             \/ status[x] \in InFlight /\ status'[x] = to
      BY <1>2 DEF Sweep, With
    <2>2. \A x \in Actions : (Done(x)' <=> Done(x)) /\ (Started(x)' <=> Started(x))
      BY <2>1 DEF Done, Started, Completed, InFlight
    <2>3. ASSUME NEW x \in Actions PROVE Ordered(x)'
      <3>1. Upstream(x)' <=> Upstream(x)
        BY <2>2, DepsAssumption DEF Upstream
      <3>2. OnDisk(x)'
        BY <1>2, <2>2, <3>1 DEF OrderInv, Ordered, OnDisk, stores
      <3>3. HaltKnown(x)'
        BY <1>2, <2>1 DEF OrderInv, Ordered, HaltKnown, stores, InFlight
      <3>4. WroteWell(x)'
        BY <1>2 DEF Gone, OrderInv, Ordered, WroteWell, Wrote, Owes, stores
      <3>5. phase' \in {"off", "drain"}
        BY <1>2 DEF Gone
      <3> QED
        BY <3>2, <3>3, <3>4, <3>5 DEF Ordered, InOrder, InReset, InWipe
    <2> QED
      BY <2>3 DEF OrderInv
  <1>3. CASE RunEnds \/ RunRaises \/ Exit
    BY <1>2, <1>3 DEF RunEnds, RunRaises, Exit, LevelOver
  <1>4. CASE Interrupt
    BY <1>2, <1>4 DEF Interrupt
  <1>5. CASE Crash
    <2>1. phase = "clear" => Budget["unread"] = 0
      BY <1>5, SpendNeeds DEF Crash, HaltsRead, OrderInv, EngineInv, TypeOK, Mishaps
    <2> QED
      BY <1>2, <1>5, <2>1 DEF Crash
  <1> QED
    BY <1>1, <1>3, <1>4, <1>5

LEMMA OrderStep == ASSUME HaltsRead, OrderInv, [Next]_vars PROVE OrderInv'
  <1>1. EngineInv'
    BY InvStep DEF OrderInv
  <1>2. CASE UNCHANGED vars
    BY <1>1, <1>2 DEF vars, stores, memory, OrderInv, Ordered, OnDisk, Started, Upstream, Done,
          WroteWell, Wrote, Owes, HaltKnown, InOrder, InReset, InWipe
  <1>3. CASE Turn \/ Work \/ Collect \/ Handle
    BY <1>1, <1>3, TurnActs, WorkActs, HandleActs, ActsKeeps
  <1>4. ASSUME NEW a \in Actions, EditLimit(a) \/ LoseOutput(a) PROVE OrderInv'
    <2>1. /\ phase = "off" /\ UNCHANGED <<status, node, batch, memory>>
          /\ \A x \in Actions : /\ answers'[x] \in {answers[x], "none"}
                                /\ rows'[x] \in {rows[x], "none"}
      BY <1>4 DEF EditLimit, LoseOutput, stores, OrderInv, EngineInv, TypeOK
    <2>2. ASSUME NEW x \in Actions PROVE Ordered(x)'
      BY <2>1, AtRest DEF memory, OrderInv, Ordered, OnDisk, Started, Upstream, Done,
            HaltKnown, InOrder, InReset, InWipe
    <2> QED
      BY <1>1, <2>2 DEF OrderInv
  <1> QED
    BY <1>1, <1>2, <1>3, <1>4, StartOrder, StartupOrder, VerifyOrder, EndsOrder
    DEF Next, Process, Operator

LEMMA OrderInit == ASSUME Init PROVE OrderInv
  <1>1. EngineInv
    BY TypeInit DEF Init, EngineInv, Sound, Done, Completed, InFlight
  <1>2. ASSUME NEW x \in Actions PROVE Ordered(x)
    BY <1>1 DEF Init, Ordered, OnDisk, Started, Done, Completed, WroteWell, Wrote, HaltKnown,
                InOrder, InReset, InWipe
  <1> QED
    BY <1>1, <1>2 DEF OrderInv

\* OrderInv holds of every workflow whose halts are always found where they were left.
THEOREM InOrderAlways == ASSUME HaltsRead PROVE Spec => []OrderInv
  <1>1. Init => OrderInv
    BY OrderInit
  <1>2. OrderInv /\ [Next]_vars => OrderInv'
    BY OrderStep
  <1> QED
    BY <1>1, <1>2, PTL DEF Spec

\* StartedUpstream: an action starts, and is counted as started on whatever disk a dead
\* process leaves, only with everything it reads complete.
THEOREM UpstreamFirst == ASSUME HaltsRead PROVE Spec => []StartedUpstream
  <1>1. OrderInv => StartedUpstream
    BY DEF OrderInv, Ordered, OnDisk, Started, Upstream, StartedUpstream
  <1> QED
    BY <1>1, InOrderAlways, PTL

\* NoStaleCompletion: a completed action never holds output computed from an output that has
\* been replaced since.
THEOREM NeverStale == ASSUME HaltsRead PROVE Spec => []NoStaleCompletion
  <1>1. OrderInv => NoStaleCompletion
    BY DEF OrderInv, Ordered, OnDisk, NoStaleCompletion
  <1> QED
    BY <1>1, InOrderAlways, PTL

\* EndsSettled: a run that reaches its last level and waits on no batch has settled all.
THEOREM RunsEndSettled == ASSUME HaltsRead PROVE Spec => EndsSettled
  <1>1. ASSUME OrderInv, RunEnds, ~BatchOut, NEW a \in Actions PROVE status[a] \in Terminal
    <2>1. LevelOver /\ ~raised /\ Level[a] <= level
      BY <1>1 DEF RunEnds
    <2> QED
      BY <1>1, <2>1, LevelSettled DEF Settled, Terminal
  <1>2. OrderInv /\ [Next]_vars =>
          [RunEnds /\ ~BatchOut => \A a \in Actions : status[a] \in Terminal]_vars
    BY <1>1
  <1> QED
    BY <1>2, InOrderAlways, PTL DEF Spec, EndsSettled


-----------------------------------------------------------------------------
(* Answers kept: an action skipped holds none that a later run would throw away, because  *)
(* a run whose store answers it has seen the output of all it passes.                     *)

StoreAnswers == HaltsRead /\ Budget["store"] = 0

\* The run has looked at x, and left it where it was.
Passed(x) ==
    /\ phase \in {"reset", "verify", "run"} /\ ~(phase = "reset" /\ x \in reopening)
    /\ \/ Level[x] < level
       \/ Level[x] = level /\ (phase = "run" \/ x \notin todo)

Kept(x) ==
    /\ Passed(x) /\ Done(x) => rows[x] # "none"
    /\ status[x] = "skipped" => Spared(x)
    /\ phase = "clear" /\ x \in todo \ keeps => Spared(x)

KeptInv == OrderInv /\ \A x \in Actions : Kept(x)

LEMMA ActsKept ==
    ASSUME KeptInv, NEW a \in Actions, Acts(a), NEW x \in Actions
    PROVE  Kept(x)'
  <1>1. phase' \in {phase, "off"} /\ phase \in {"run", "drain"}
    BY DEF Acts, Moves, Gone
  <1>2. Passed(x)' /\ phase' = phase => Passed(x)
    <2>1. CASE Gone
      BY <1>1, <2>1 DEF Gone
    <2>2. CASE ~Gone
      BY <1>1, <2>2 DEF Acts, Passed
    <2> QED
      BY <2>1, <2>2
  <1>3. CASE x # a
    <2>1. /\ status'[x] = status[x] /\ answers'[x] = answers[x]
          /\ rows'[x] = "none" <=> rows[x] = "none"
      BY <1>3 DEF Acts, Beside
    <2> QED
      BY <1>1, <1>2, <2>1 DEF KeptInv, Kept, Passed, Spared, Done
  <1>4. CASE x = a
    <2>1. ~(phase = "run" /\ Level[a] = level /\ Upstream(a) /\ ~HasInput(a))
      <3> SUFFICES ASSUME phase = "run", Level[a] = level, Upstream(a), Deps[a] # {}
                   PROVE  \E d \in Deps[a] : rows[d] # "none"
        BY DEF HasInput
      <3>1. PICK d \in Deps[a] : TRUE
        OBVIOUS
      <3>2. d \in Actions /\ Level[d] < level /\ Done(d)
        BY DepsBelow DEF Upstream
      <3> QED
        BY <3>2 DEF KeptInv, Kept, Passed
    <2>2. status'[a] = "skipped" => Spared(a)'
      BY <2>1 DEF Acts, SparedBy, KeptInv, Kept, Spared
    <2>3. Done(a)' => rows'[a] # "none"
      BY DEF Acts
    <2> QED
      BY <1>1, <1>4, <2>2, <2>3 DEF Kept
  <1> QED
    BY <1>3, <1>4

LEMMA KeptStep == ASSUME StoreAnswers, KeptInv, [Next]_vars PROVE KeptInv'
  <1>1. OrderInv'
    BY OrderStep DEF StoreAnswers, KeptInv
  <1> SUFFICES ASSUME NEW x \in Actions PROVE Kept(x)'
    BY <1>1 DEF KeptInv
  <1>2. TypeOK /\ Kept(x)
    BY DEF KeptInv, OrderInv, EngineInv
  <1>3. CASE UNCHANGED vars
    BY <1>2, <1>3 DEF vars, stores, memory, Kept, Passed, Done, Spared
  <1>4. CASE Turn \/ Work \/ Collect \/ Handle
    BY <1>4, TurnActs, WorkActs, HandleActs, ActsKept DEF KeptInv, StoreAnswers
  <1>5. CASE Startup
    <2>1. CASE StartupDone \/ WipeDone
      BY <1>2, <2>1, LevelAssumption
      DEF StartupDone, WipeDone, EnterLevel, AtLevel, stores, Kept, Passed, Done, Completed, Spared
    <2>2. ASSUME NEW a \in Actions, ClearReset(a) PROVE Kept(x)'
      <3>1. answers'[x] \in {answers[x], "none"}
        BY <1>2, <2>2 DEF ClearReset, TypeOK
      <3> QED
        BY <1>2, <2>2, <3>1 DEF ClearReset, Kept, Passed, Spared
    <2>3. ASSUME NEW a \in Actions, NEW refused, Wipe(a, refused) PROVE Kept(x)'
      <3>1. answers'[x] \in {answers[x], "none"} /\ rows'[x] \in {rows[x], "none"}
        BY <1>2, <2>3 DEF Wipe, TypeOK
      <3> QED
        BY <1>2, <2>3, <3>1 DEF Wipe, Kept, Passed, Spared
    <2> QED
      BY <1>5, <2>1, <2>2, <2>3 DEF Startup
  <1>6. CASE Verify
    <2>1. CASE Reopen
      BY <1>2, <2>1 DEF Reopen, With, stores, Kept, Passed, Done, Completed, Spared
    <2>2. CASE BeginLevel
      BY <1>2, <2>2 DEF BeginLevel, stores, Kept, Passed, Done, Spared
    <2>3. ASSUME NEW a \in Actions, Forget(a) PROVE Kept(x)'
      <3>1. answers'[x] \in {answers[x], "none"}
        BY <1>2, <2>3 DEF Forget, TypeOK
      <3> QED
        BY <1>2, <2>3, <3>1 DEF Forget, Gone, Kept, Passed, Done, Spared
    <2>4. ASSUME NEW a \in Actions, NEW F, Verifying(a), ResetFrom(a, F) PROVE Kept(x)'
      BY <1>2, <2>4 DEF Verifying, ResetFrom, stores, Kept, Passed, Done, Spared
    <2>5. ASSUME NEW a \in Actions, VerifyLimits(a) \/ VerifyRefuses(a) PROVE Kept(x)'
      <3>1. Verifying(a) => node[a] \notin Blocking
        BY DEF Verifying, KeptInv, OrderInv, EngineInv, Sound, Blocking, Failures
      <3> QED
        BY <2>4, <2>5, <3>1 DEF VerifyLimits, VerifyRefuses
    <2>6. ASSUME NEW a \in Actions, VerifyStands(a) PROVE Kept(x)'
      <3>1. ~Spend({"store"})
        BY <1>2, SpendNeeds DEF StoreAnswers, TypeOK, Mishaps
      <3>2. rows[a] # "none"
        BY <2>6, <3>1 DEF VerifyStands
      <3> QED
        BY <1>2, <2>6, <3>2 DEF VerifyStands, Verifying, stores, Kept, Passed, Done, Spared
    <2>7. ASSUME NEW a \in Actions, VerifySettles(a) PROVE Kept(x)'
      <3>1. /\ phase = "verify" /\ rows' = rows /\ rows[a] # "none" /\ Done(a)
            /\ phase' = "off" \/ (todo' = todo \ {a} /\ UNCHANGED <<phase, level>>)
        BY <1>2, <2>7, SettlesFacts DEF Settles, Gone
      <3>2. /\ Done(x)' <=> Done(x)
            /\ status'[x] = "skipped" => status[x] = "skipped" /\ ~Done(x)
            /\ answers'[x] = answers[x] \/ x = a
        BY <1>2, <2>7, SettlesFacts DEF Done, Completed
      <3> QED
        BY <1>2, <3>1, <3>2 DEF Kept, Passed, Spared
    <2> QED
      BY <1>6, <2>1, <2>2, <2>3, <2>5, <2>6, <2>7 DEF Verify
  <1>7. CASE NextLevel
    <2>1. /\ phase = "run" /\ phase' = "verify" /\ level' = level + 1 /\ todo' = AtLevel(level')
          /\ UNCHANGED <<status, stores>>
      BY <1>7 DEF NextLevel, LevelOver, EnterLevel
    <2>2. Level[x] < level + 1 => Level[x] < level \/ Level[x] = level
      BY <1>2, LevelAssumption DEF TypeOK
    <2> QED
      BY <1>2, <2>1, <2>2 DEF stores, AtLevel, Kept, Passed, Done, Spared
  <1>8. CASE RunEnds \/ RunRaises \/ Interrupt \/ Exit \/ Crash
    <2>1. phase' \in {"off", "drain"} /\ UNCHANGED stores
          /\ (status'[x] = "skipped" => status[x] = "skipped")
      BY <1>8 DEF RunEnds, RunRaises, Interrupt, Exit, Crash, Gone, Sweep, With
    <2> QED
      BY <1>2, <2>1 DEF stores, Kept, Passed, Spared
  <1>9. CASE StartPlain \/ StartPlainUnread \/ StartRerun \/ StartFresh
    <2>1. ASSUME NEW named, NEW unread, StartRun(named, unread) PROVE Kept(x)'
      BY <1>2, <2>1 DEF StartRun, PutBack, Retryable, With, stores, Kept, Passed, Spared
    <2>2. CASE StartFresh
      BY <1>2, <2>2 DEF StartFresh, stores, Kept, Passed, Spared
    <2> QED
      BY <1>9, <2>1, <2>2 DEF StartPlain, StartPlainUnread, StartRerun
  <1>10. ASSUME NEW a \in Actions, EditLimit(a) \/ LoseOutput(a) PROVE Kept(x)'
    <2>1. /\ phase = "off" /\ UNCHANGED <<status, memory>>
          /\ answers'[x] \in {answers[x], "none"} /\ rows'[x] \in {rows[x], "none"}
      BY <1>2, <1>10 DEF EditLimit, LoseOutput, stores, TypeOK
    <2> QED
      BY <1>2, <2>1 DEF memory, Kept, Passed, Spared
  <1> QED
    BY <1>3, <1>4, <1>5, <1>6, <1>7, <1>8, <1>9, <1>10 DEF Next, Process, Operator

\* AnswersKept: what an earlier run had answered goes only with a reset, or when the output
\* or the input it stands on is gone; of every workflow whose store answers it.
THEOREM AnswersStay == ASSUME StoreAnswers PROVE Spec => AnswersKept
  <1> DEFINE Spent(a) == Deps[a] # {} /\ answers[a] = "current" /\ answers'[a] = "none"
             Allowed(a) == \/ phase \in {"reset", "wipe"}
                           \/ status'[a] = "skipped" \/ rows'[a] = "none"
  <1>1. ASSUME KeptInv, [Next]_vars, NEW a \in Actions, Spent(a) PROVE Allowed(a)
    <2>1. CASE Turn \/ Work \/ Collect \/ Handle
      <3>1. PICK y \in Actions : Acts(y)
        BY <1>1, <2>1, TurnActs, WorkActs, HandleActs DEF StoreAnswers, KeptInv
      <3> QED
        BY <1>1, <3>1 DEF Acts, Beside
    <2>2. CASE Startup
      <3>1. ASSUME NEW y \in Actions, ClearReset(y) PROVE Allowed(a)
        <4>1. y = a /\ phase = "clear" /\ a \in todo \ keeps /\ rows' = rows
          BY <1>1, <3>1 DEF ClearReset, KeptInv, OrderInv, EngineInv, TypeOK
        <4> QED
          BY <1>1, <4>1 DEF KeptInv, Kept, Spared
      <3> QED
        BY <1>1, <2>2, <3>1 DEF Startup, StartupDone, WipeDone, Wipe, stores
    <2>3. CASE Verify
      <3>1. TypeOK
        BY <1>1 DEF KeptInv, OrderInv, EngineInv
      <3>2. ASSUME NEW y \in Actions, VerifySettles(y) PROVE Allowed(a)
        BY <1>1, <3>1, <3>2, SettlesFacts
      <3> QED
        BY <1>1, <2>3, <3>2 DEF Verify, Reopen, BeginLevel, Forget, VerifyLimits, VerifyRefuses,
                                VerifyStands, ResetFrom, stores
    <2>4. CASE NextLevel \/ RunEnds \/ RunRaises \/ Interrupt \/ Exit \/ Crash \/ UNCHANGED vars
      BY <1>1, <2>4 DEF NextLevel, RunEnds, RunRaises, Interrupt, Exit, Crash, vars, stores
    <2>5. CASE StartPlain \/ StartPlainUnread \/ StartRerun \/ StartFresh
      BY <1>1, <2>5 DEF StartPlain, StartPlainUnread, StartRerun, StartRun, StartFresh, stores
    <2>6. ASSUME NEW y \in Actions, EditLimit(y) \/ LoseOutput(y) PROVE Allowed(a)
      BY <1>1, <2>6 DEF EditLimit, LoseOutput, stores, KeptInv, OrderInv, EngineInv, TypeOK
    <2> QED
      BY <1>1, <2>1, <2>2, <2>3, <2>4, <2>5, <2>6 DEF Next, Process, Operator
  <1>2. KeptInv /\ [Next]_vars =>
          [\A a \in Actions :
              Deps[a] # {} /\ answers[a] = "current" /\ answers'[a] = "none" =>
                  \/ phase \in {"reset", "wipe"}
                  \/ status'[a] = "skipped" \/ rows'[a] = "none"]_vars
    BY <1>1
  <1>3. Init => KeptInv
    <2> SUFFICES ASSUME Init PROVE KeptInv
      OBVIOUS
    <2>1. OrderInv
      BY OrderInit
    <2> QED
      BY <2>1 DEF KeptInv, Kept, Passed, Init
  <1>4. KeptInv /\ [Next]_vars => KeptInv'
    BY KeptStep
  <1> QED
    BY <1>2, <1>3, <1>4, PTL DEF Spec, AnswersKept

-----------------------------------------------------------------------------
(* Batches polled: a reset forgets the batches of a whole chain of readers before it takes *)
(* their statuses back.  Cut off in between, it leaves actions waiting on nothing; the run *)
(* that follows comes first to the action the reset started from, and starts it again.     *)

\* Either no process is cut off in a reset, or there is one thing at most to reset for.
ResetsFinish ==
    \/ Budget["crash"] = 0 /\ Budget["interrupt"] = 0
    \/ Budget["rerun"] = 0 /\ Budget["fresh"] = 0 /\ Budget["change"] <= 1

Undisturbed == Budget["crash"] = 0 /\ Budget["interrupt"] = 0

\* Complete, and a run that comes to it resets what reads it.
Lapsed(y) == Done(y) /\ (y \in edited \/ rows[y] = "none")

\* The run has y still to come to.
Ahead(y) ==
    \/ phase \notin {"verify", "reset", "run"}
    \/ Level[y] > level
    \/ phase \in {"verify", "reset"} /\ y \in todo

\* The batch of x is forgotten, and its status is going to be put back.
Reopening(x) ==
    \/ phase = "wipe"
    \/ phase = "reset" /\ x \in reopening
    \/ ~Undisturbed /\ \E y \in Actions : x \in ReadersOf[y] /\ Lapsed(y) /\ Ahead(y)

Polls(x) ==
    /\ batch[x] # "none" => x \in BatchActions
    /\ status[x] = "batch_submitted" => Owes(x) \/ Reopening(x)
    /\ phase = "reset" /\ x \in forgetting => x \in reopening
    /\ ~Undisturbed /\ used["change"] = 0 => x \notin edited /\ ~Lapsed(x)

\* Where a reset may be cut off, what it is for is still there to be found.
Rooted == ~Undisturbed =>
    /\ phase # "wipe"
    /\ phase = "clear" => rerun = {}
    /\ phase = "reset" => \E y \in Actions : reopening = ReadersOf[y] \cup {y} /\ Lapsed(y)

PollInv == OrderInv /\ Rooted /\ \A x \in Actions : Polls(x)

PollsHold == StoreAnswers /\ ResetsFinish

LEMMA ActsPolls ==
    ASSUME PollInv, NEW a \in Actions, Acts(a), used'["change"] = 0 => used["change"] = 0
    PROVE  Rooted' /\ \A x \in Actions : Polls(x)'
  <1>1. phase' \in {phase, "off"} /\ phase \in {"run", "drain"}
    BY DEF Acts, Moves, Gone
  <1>2. ASSUME NEW y \in Actions, Lapsed(y) PROVE Lapsed(y)'
    BY <1>2 DEF Lapsed, Acts, Beside, Done
  <1>3. ASSUME NEW y \in Actions, Ahead(y) PROVE Ahead(y)'
    BY <1>1, <1>3 DEF Ahead, Acts, Gone
  <1>4. ASSUME NEW x \in Actions, used["change"] = 0, ~Undisturbed
        PROVE  x \notin edited' /\ ~Lapsed(x)'
    <2>1. x \notin edited /\ ~Lapsed(x) /\ edited' \subseteq edited
      BY <1>4 DEF PollInv, Polls, Acts
    <2>2. Done(x)' => rows'[x] # "none"
      BY <2>1 DEF Lapsed, Acts, Beside, Done
    <2> QED
      BY <2>1, <2>2 DEF Lapsed
  <1>5. ASSUME NEW x \in Actions, Reopening(x) PROVE Reopening(x)'
    BY <1>1, <1>2, <1>3, <1>5 DEF Reopening, Undisturbed
  <1>6. ASSUME NEW x \in Actions, status'[x] = "batch_submitted" PROVE Owes(x)' \/ Reopening(x)'
    <2>1. CASE status[x] = "batch_submitted" /\ batch'[x] = batch[x]
      BY <1>5, <2>1 DEF PollInv, Polls, Owes
    <2>2. CASE x = a /\ batch'[a] # "none"
      BY <2>2 DEF PollInv, Polls, Owes, Acts
    <2> QED
      BY <1>6, <2>1, <2>2 DEF Acts, Beside
  <1>7. ASSUME NEW x \in Actions, batch'[x] # "none" PROVE x \in BatchActions
    BY <1>7 DEF PollInv, Polls, Acts, Beside
  <1> QED
    BY <1>1, <1>4, <1>6, <1>7 DEF Rooted, Polls, Undisturbed

LEMMA PollStep == ASSUME PollsHold, PollInv, [Next]_vars PROVE PollInv'
  <1>1. OrderInv'
    BY OrderStep DEF PollsHold, StoreAnswers, PollInv
  <1>2. TypeOK /\ OrderInv
    BY DEF PollInv, OrderInv, EngineInv
  <1>3. \A k \in Mishaps : used'[k] \in {used[k], used[k] + 1} /\ used[k] \in Nat
    BY <1>2, UsedCounts DEF TypeOK
  <1>4. used'["change"] = 0 => used["change"] = 0
    BY <1>3 DEF Mishaps
  <1> SUFFICES Rooted' /\ \A x \in Actions : Polls(x)'
    BY <1>1 DEF PollInv
  <1>6. ASSUME ~Undisturbed
        PROVE  Budget["rerun"] = 0 /\ Budget["fresh"] = 0 /\ Budget["change"] <= 1
    BY <1>6 DEF PollsHold, ResetsFinish, Undisturbed
  <1>7. ASSUME NEW K \in SUBSET Mishaps, NEW k \in K, Spend(K) PROVE Budget[k] # 0
    BY <1>2, <1>7, SpendNeeds DEF TypeOK
  <1>8. CASE UNCHANGED vars
    BY <1>8 DEF vars, stores, memory, PollInv, Rooted, Polls, Owes, Reopening, Lapsed, Ahead, Done,
                Undisturbed
  <1>9. CASE Turn \/ Work \/ Collect \/ Handle
    BY <1>4, <1>9, TurnActs, WorkActs, HandleActs, ActsPolls DEF PollInv, PollsHold, StoreAnswers
  \* A step that changes no status, output or limit: an action whose batch it leaves waits
  \* for it as before, if what was ahead of the run still is.
  <1>10. ASSUME UNCHANGED <<status, batch, rows, edited>>, phase # "wipe",
                phase = "reset" => UNCHANGED <<phase, reopening>>,
                \A y \in Actions : Lapsed(y) /\ Ahead(y) => Ahead(y)',
                phase' = "reset" => \A x \in Actions : x \in forgetting' => x \in reopening',
                Rooted'
         PROVE  Rooted' /\ \A x \in Actions : Polls(x)'
    <2>1. \A x \in Actions : /\ Lapsed(x)' <=> Lapsed(x)
                             /\ Owes(x)' <=> Owes(x)
      BY <1>10 DEF Lapsed, Done, Owes
    <2>2. \A x \in Actions : Reopening(x) => Reopening(x)'
      BY <1>10, <2>1 DEF Reopening, Undisturbed
    <2>3. \A x \in Actions : ~Undisturbed' => ~Undisturbed
      BY DEF Undisturbed
    <2> QED
      BY <1>4, <1>10, <2>1, <2>2, <2>3 DEF PollInv, Polls
  \* The process ends.  Cut off in a reset, it leaves what the reset started from.
  <1>11. ASSUME UNCHANGED <<batch, rows, edited>>, phase' \in {"off", "drain"},
                phase \in {"wipe", "reset"} => ~Undisturbed,
                \A y \in Actions : /\ Done(y)' <=> Done(y)
                                   /\ status'[y] = "batch_submitted" => status[y] = "batch_submitted"
         PROVE  Rooted' /\ \A x \in Actions : Polls(x)'
    <2>1. \A x \in Actions : /\ Lapsed(x)' <=> Lapsed(x)
                             /\ Owes(x)' <=> Owes(x)
      BY <1>11 DEF Lapsed, Owes
    <2>2. ASSUME NEW x \in Actions, Reopening(x), status[x] = "batch_submitted" PROVE Reopening(x)'
      <3>1. ASSUME NEW y \in Actions, ~Undisturbed, x \in ReadersOf[y], Lapsed(y)
            PROVE  Reopening(x)'
        BY <1>11, <2>1, <3>1 DEF Reopening, Ahead, Undisturbed
      <3>2. ASSUME phase = "reset", x \in reopening PROVE Reopening(x)'
        <4>1. PICK y \in Actions : reopening = ReadersOf[y] \cup {y} /\ Lapsed(y)
          BY <1>11, <3>2 DEF PollInv, Rooted
        <4>2. x # y
          BY <2>2, <4>1 DEF Lapsed, Done, Completed
        <4> QED
          BY <1>11, <3>1, <3>2, <4>1, <4>2
      <3>3. phase # "wipe"
        BY <1>11 DEF PollInv, Rooted
      <3> QED
        BY <2>2, <3>1, <3>2, <3>3 DEF Reopening
    <2> QED
      BY <1>4, <1>11, <2>1, <2>2 DEF PollInv, Rooted, Polls, Undisturbed
  <1>12. CASE Startup
    <2>1. CASE StartupDone
      <3>1. /\ phase = "clear" /\ phase' \in {"verify", "reset"} /\ level' = 0 /\ todo' = AtLevel(0)
            /\ UNCHANGED <<status, stores, edited>> /\ forgetting' = reopening'
            /\ (rerun = {} => phase' = "verify")
        BY <2>1 DEF StartupDone
      <3>2. Rooted'
        BY <3>1 DEF PollInv, Rooted, Undisturbed
      <3>3. \A y \in Actions : Ahead(y)'
        BY <3>1, LevelAssumption DEF Ahead, AtLevel
      <3> QED
        BY <1>10, <3>1, <3>2, <3>3 DEF stores
    <2>2. CASE WipeDone
      BY <2>2 DEF WipeDone, EnterLevel, PollInv, Rooted, Polls, Undisturbed, stores, Owes
    <2>3. ASSUME NEW a \in Actions, ClearReset(a) PROVE Rooted' /\ \A x \in Actions : Polls(x)'
      <3>1. /\ phase = "clear" /\ UNCHANGED <<status, batch, rows, edited, phase, reopening, forgetting, rerun>>
        BY <2>3 DEF ClearReset
      <3> QED
        BY <1>10, <3>1 DEF Ahead, PollInv, Rooted, Undisturbed
    <2>4. ASSUME NEW a \in Actions, NEW refused, Wipe(a, refused)
          PROVE  Rooted' /\ \A x \in Actions : Polls(x)'
      <3>1. /\ phase = "wipe" /\ phase' = "wipe" /\ UNCHANGED <<status, forgetting, reopening>>
            /\ \A x \in Actions : batch'[x] \in {batch[x], "none"}
        BY <1>2, <2>4 DEF Wipe, TypeOK
      <3>2. Undisturbed
        BY <3>1 DEF PollInv, Rooted
      <3> QED
        BY <3>1, <3>2 DEF PollInv, Rooted, Polls, Reopening, Undisturbed
    <2> QED
      BY <1>12, <2>1, <2>2, <2>3, <2>4 DEF Startup
  <1>13. CASE Verify
    <2>1. CASE Reopen
      <3>1. /\ phase = "reset" /\ phase' = "verify" /\ UNCHANGED <<stores, edited, level, todo>>
            /\ \A x \in Actions : status'[x] = IF x \in reopening THEN "pending" ELSE status[x]
        BY <2>1 DEF Reopen, With
      <3>2. ASSUME NEW x \in Actions, NEW y \in Actions, x \in ReadersOf[y], y \in reopening
            PROVE  x \in reopening
        <4>1. Reads(y, reopening)
          BY <3>1, <3>2, DepsAssumption DEF Reads, PollInv, OrderInv, Ordered, InReset
        <4> QED
          BY <1>2, <3>2, <4>1, ReadersWithin DEF TypeOK
      <3>3. \A y \in Actions : /\ Lapsed(y)' => Lapsed(y)
                               /\ Lapsed(y) /\ y \notin reopening => Lapsed(y)'
                               /\ Ahead(y) => Ahead(y)'
        BY <3>1 DEF Lapsed, Done, Completed, stores, Ahead
      <3>4. ASSUME NEW x \in Actions, status'[x] = "batch_submitted" PROVE Owes(x)' \/ Reopening(x)'
        <4>1. status[x] = "batch_submitted" /\ x \notin reopening
          BY <3>1, <3>4
        <4>2. Reopening(x) => Reopening(x)'
          BY <3>1, <3>2, <3>3, <4>1 DEF Reopening, Undisturbed
        <4> QED
          BY <3>1, <4>1, <4>2 DEF PollInv, Polls, Owes, stores
      <3> QED
        BY <1>4, <3>1, <3>3, <3>4 DEF PollInv, Rooted, Polls, Undisturbed, stores
    <2>2. CASE BeginLevel
      <3>1. /\ phase = "verify" /\ phase' = "run" /\ UNCHANGED <<status, stores, edited, level>>
            /\ \A y \in todo : ~Done(y)
        BY <2>2 DEF BeginLevel
      <3>2. \A y \in Actions : Lapsed(y) /\ Ahead(y) => Ahead(y)'
        BY <3>1 DEF Lapsed, Ahead
      <3> QED
        BY <1>10, <3>1, <3>2 DEF stores, Rooted
    <2>3. ASSUME NEW a \in Actions, Forget(a) PROVE Rooted' /\ \A x \in Actions : Polls(x)'
      <3>1. phase = "reset" /\ a \in forgetting /\ UNCHANGED <<status, rows, edited>>
        BY <2>3 DEF Forget
      <3>2. CASE Spend({"crash"}) /\ Gone /\ UNCHANGED batch
        <4>1. ~Undisturbed
          BY <1>7, <3>2 DEF Undisturbed, Mishaps
        <4> QED
          BY <1>11, <3>1, <3>2, <4>1 DEF Gone, Done
      <3>3. CASE /\ batch' = [batch EXCEPT ![a] = "none"] /\ forgetting' = forgetting \ {a}
                 /\ UNCHANGED <<phase, level, todo, reopening>>
        <4>1. /\ a \in reopening
              /\ \A x \in Actions : IF x = a THEN batch'[x] = "none" ELSE batch'[x] = batch[x]
          BY <1>2, <3>1, <3>3 DEF PollInv, Polls, TypeOK
        <4>2. \A x \in Actions : /\ Lapsed(x)' <=> Lapsed(x)
                                 /\ Ahead(x)' <=> Ahead(x)
          BY <3>1, <3>3 DEF Lapsed, Done, Ahead
        <4>3. \A x \in Actions : Reopening(x) => Reopening(x)'
          BY <3>3, <4>2 DEF Reopening, Undisturbed
        <4>4. Reopening(a)'
          BY <3>1, <3>3, <4>1 DEF Reopening
        <4>5. \A x \in Actions : status'[x] = "batch_submitted" => Owes(x)' \/ Reopening(x)'
          BY <3>1, <4>1, <4>3, <4>4 DEF PollInv, Polls, Owes
        <4> QED
          BY <1>4, <3>1, <3>3, <4>1, <4>2, <4>5 DEF PollInv, Rooted, Polls, Undisturbed
      <3> QED
        BY <2>3, <3>2, <3>3 DEF Forget
    <2>4. ASSUME NEW a \in Actions, NEW F \in {ReadersOf[a], ReadersOf[a] \cup {a}},
                 Verifying(a), Lapsed(a), ResetFrom(a, F)
          PROVE  Rooted' /\ \A x \in Actions : Polls(x)'
      <3>1. /\ phase = "verify" /\ phase' = "reset" /\ UNCHANGED <<status, stores, edited, level>>
            /\ todo' = todo \ {a} /\ forgetting' = F /\ reopening' = ReadersOf[a] \cup {a}
        BY <2>4 DEF Verifying, ResetFrom
      <3>2. \A y \in Actions : /\ Lapsed(y)' <=> Lapsed(y)
                               /\ y # a /\ Ahead(y) => Ahead(y)'
                               /\ Owes(y)' <=> Owes(y)
        BY <3>1 DEF Lapsed, Done, Ahead, Owes, stores
      <3>3. \A x \in Actions : Reopening(x) => Reopening(x)'
        BY <3>1, <3>2 DEF Reopening, Undisturbed
      <3>4. Rooted'
        BY <2>4, <3>1, <3>2 DEF Rooted
      <3>5. \A x \in F : x \in reopening'
        BY <3>1
      <3> QED
        BY <1>4, <3>1, <3>2, <3>3, <3>4, <3>5 DEF PollInv, Polls, Undisturbed, stores
    <2>5. ASSUME NEW a \in Actions, VerifyLimits(a) \/ VerifyRefuses(a)
          PROVE  Rooted' /\ \A x \in Actions : Polls(x)'
      <3>1. Verifying(a) => Done(a) /\ node[a] \notin Blocking
        BY DEF Verifying, PollInv, OrderInv, EngineInv, Sound, Blocking, Failures
      <3> QED
        BY <2>4, <2>5, <3>1 DEF VerifyLimits, VerifyRefuses, Lapsed
    <2>6. ASSUME NEW a \in Actions, VerifyStands(a) PROVE Rooted' /\ \A x \in Actions : Polls(x)'
      <3>1. ~Lapsed(a)
        BY <1>7, <2>6 DEF VerifyStands, Lapsed, PollsHold, StoreAnswers, Mishaps
      <3>2. /\ phase = "verify" /\ UNCHANGED <<status, stores, edited, phase, level>>
            /\ todo' = todo \ {a}
        BY <2>6 DEF VerifyStands, Verifying
      <3>3. \A y \in Actions : Lapsed(y) /\ Ahead(y) => Ahead(y)'
        BY <3>1, <3>2 DEF Ahead
      <3> QED
        BY <1>10, <3>2, <3>3 DEF stores, Rooted
    <2>7. ASSUME NEW a \in Actions, VerifySettles(a) PROVE Rooted' /\ \A x \in Actions : Polls(x)'
      <3>1. /\ phase = "verify" /\ UNCHANGED <<rows, batch, edited>>
            /\ Gone \/ (todo' = todo \ {a} /\ UNCHANGED <<phase, level, forgetting>>)
        BY <1>2, <2>7, SettlesFacts
      <3>2. \A x \in Actions : /\ Done(x)' <=> Done(x)
                               /\ status'[x] = "batch_submitted" => status[x] = "batch_submitted"
        BY <1>2, <2>7, SettlesFacts DEF Done, Completed
      <3>3. CASE Gone
        BY <1>11, <3>1, <3>2, <3>3 DEF Gone
      <3>4. CASE ~Gone
        <4>1. \A x \in Actions : /\ Lapsed(x)' <=> Lapsed(x)
                                 /\ Owes(x)' <=> Owes(x)
          BY <3>1, <3>2 DEF Lapsed, Owes
        <4>2. ~Lapsed(a)
          BY <2>7 DEF VerifySettles, Settles, Lapsed
        <4>3. \A y \in Actions : Lapsed(y) /\ Ahead(y) => Ahead(y)'
          BY <3>1, <3>4, <4>2 DEF Ahead
        <4>4. \A x \in Actions : Reopening(x) => Reopening(x)'
          BY <3>1, <3>4, <4>1, <4>3 DEF Reopening, Undisturbed
        <4>5. Rooted'
          BY <3>1, <3>4 DEF Rooted
        <4> QED
          BY <1>4, <3>1, <3>2, <3>4, <4>1, <4>4, <4>5 DEF PollInv, Polls, Undisturbed
      <3> QED BY <3>3, <3>4
    <2> QED
      BY <1>13, <2>1, <2>2, <2>3, <2>5, <2>6, <2>7 DEF Verify
  <1>14. CASE NextLevel
    <2>1. /\ phase = "run" /\ phase' = "verify" /\ level' = level + 1 /\ todo' = AtLevel(level + 1)
          /\ UNCHANGED <<status, stores, edited>>
      BY <1>14 DEF NextLevel, LevelOver, EnterLevel
    <2>2. \A y \in Actions : Ahead(y) => Ahead(y)'
      BY <1>2, <2>1, LevelAssumption DEF Ahead, AtLevel, TypeOK
    <2> QED
      BY <1>10, <2>1, <2>2 DEF stores, Rooted
  <1>15. CASE RunEnds \/ RunRaises \/ Interrupt \/ Exit \/ Crash
    <2>1. /\ phase' \in {"off", "drain"} /\ UNCHANGED <<batch, rows, edited>>
          /\ \A x \in Actions : \/ status'[x] = status[x]
                                \/ status[x] \in InFlight /\ status'[x] \in {"failed", "interrupted"}
      BY <1>15 DEF RunEnds, RunRaises, Interrupt, Exit, Crash, Gone, Sweep, With, stores
    <2>2. Interrupt \/ Crash => ~Undisturbed
      BY <1>7 DEF Interrupt, Crash, Undisturbed, Mishaps
    <2>3. phase \in {"wipe", "reset"} => ~Undisturbed
      BY <1>15, <2>2 DEF RunEnds, RunRaises, LevelOver, Exit
    <2> QED
      BY <1>11, <2>1, <2>3 DEF Done, Completed, InFlight
  <1>16. CASE StartPlain \/ StartPlainUnread \/ StartRerun \/ StartFresh
    <2>1. ASSUME NEW named \in SUBSET Actions, NEW unread \in SUBSET Actions,
                 StartRun(named, unread)
          PROVE  Rooted' /\ \A x \in Actions : Polls(x)'
      <3>1. /\ phase = "off" /\ phase' = "clear" /\ rerun' = named
            /\ UNCHANGED <<batch, rows, edited>>
            /\ \A x \in Actions :
                  status'[x] = IF x \in PutBack(unread) THEN "pending" ELSE status[x]
        BY <2>1 DEF StartRun, With, stores
      <3>2. \A x \in PutBack(unread) : ~Done(x)
        BY DEF PutBack, Retryable, MidProcessing, Done, Completed
      <3>3. named # {} => Budget["rerun"] # 0
        <4>1. PICK K \in SUBSET Mishaps : Spend(K) /\ (named # {} => "rerun" \in K)
          BY <2>1 DEF StartRun, Mishaps
        <4> QED
          BY <1>7, <4>1
      <3>4. Rooted'
        BY <1>6, <3>1, <3>3 DEF Rooted, Undisturbed
      <3>5. \A x \in Actions : /\ Lapsed(x)' <=> Lapsed(x)
                               /\ Ahead(x)'
                               /\ Owes(x)' <=> Owes(x)
        BY <3>1, <3>2 DEF Lapsed, Ahead, Owes, Done, Completed
      <3>6. \A x \in Actions : Reopening(x) => Reopening(x)'
        BY <3>1, <3>5 DEF Reopening, Undisturbed
      <3> QED
        BY <1>4, <3>1, <3>4, <3>5, <3>6 DEF PollInv, Polls, Undisturbed
    <2>2. CASE StartFresh
      <3>1. Undisturbed
        BY <1>6, <1>7, <2>2 DEF StartFresh, Mishaps
      <3> QED
        BY <2>2, <3>1 DEF StartFresh, PollInv, Rooted, Polls, Reopening, Undisturbed, stores
    <2> QED
      BY <1>16, <2>1, <2>2 DEF StartPlain, StartPlainUnread, StartRerun
  <1>17. ASSUME NEW a \in Actions, EditLimit(a) \/ LoseOutput(a)
         PROVE  Rooted' /\ \A x \in Actions : Polls(x)'
    <2>1. /\ phase = "off" /\ UNCHANGED <<status, batch, memory>> /\ Spend({"change"})
      BY <1>17 DEF EditLimit, LoseOutput, stores
    <2>2. used["change"] < Budget["change"] /\ used'["change"] = used["change"] + 1
      BY <1>2, <2>1 DEF Spend, Mishaps, TypeOK
    <2>3. ~Undisturbed => used["change"] = 0
      BY <1>2, <1>3, <1>6, <2>2, BudgetAssumption DEF Mishaps
    <2>4. \A x \in Actions : status[x] = "batch_submitted" => Owes(x)
      BY <2>1, <2>3 DEF PollInv, Polls, Reopening
    <2> QED
      BY <1>3, <2>1, <2>2, <2>4 DEF memory, PollInv, Rooted, Polls, Owes, Undisturbed, Mishaps
  <1> QED
    BY <1>8, <1>9, <1>12, <1>13, <1>14, <1>15, <1>16, <1>17 DEF Next, Process, Operator

\* PollsABatch: a run that comes to an action waiting on a batch finds one in the registry,
\* of every workflow whose store answers it and whose resets finish or have one cause.
THEOREM BatchesThere == ASSUME PollsHold PROVE Spec => []PollsABatch
  <1>1. Init => PollInv
    <2> SUFFICES ASSUME Init PROVE PollInv
      OBVIOUS
    <2>1. OrderInv
      BY OrderInit
    <2> QED
      BY <2>1 DEF PollInv, Rooted, Polls, Lapsed, Done, Completed, Init
  <1>2. PollInv /\ [Next]_vars => PollInv'
    BY PollStep
  <1>3. PollInv => PollsABatch
    <2> SUFFICES ASSUME PollInv, NEW a \in Actions, phase = "run", level = Level[a],
                        status[a] = "batch_submitted"
                 PROVE  Owes(a)
      BY DEF PollsABatch
    <2>1. \A y \in Actions : a \in ReadersOf[y] => Level[y] < level
      BY ReadersAbove
    <2>2. ~Reopening(a)
      BY <2>1, LevelAssumption DEF Reopening, Ahead, PollInv, OrderInv, EngineInv, TypeOK
    <2> QED
      BY <2>2 DEF PollInv, Polls
  <1> QED
    BY <1>1, <1>2, <1>3, PTL DEF Spec

=============================================================================
