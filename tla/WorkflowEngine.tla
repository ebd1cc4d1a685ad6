--------------------------- MODULE WorkflowEngine ---------------------------
(***************************************************************************)
(* The engine behind `agac run`: one process at a time takes a workflow    *)
(* from the state the last process left on disk towards completion, level  *)
(* by level, and may stop, be killed or be started again at any point.     *)
(*                                                                         *)
(* On disk: the status file (status), the storage backend (node, rows,     *)
(* answers, fails, deferred), the batch registry (batch).  In memory: the  *)
(* phase of the run, its level and what its worker threads are doing.      *)
(*                                                                         *)
(* A handler between two awaits of the event loop is one action.  Where it *)
(* writes to two stores, the process may also die, or the second store     *)
(* refuse, between the two writes: the disjuncts that Spend a "crash" or a *)
(* "store" fault.                                                          *)
(***************************************************************************)
EXTENDS Naturals, FiniteSets

CONSTANTS
    Actions,          \* the operational actions of the workflow
    Deps,             \* Deps[a]: the actions a depends on
    Level,            \* Level[a]: the execution level a is assigned
    BatchActions,     \* the actions whose run mode is batch
    Sequential,       \* run() rather than async_run()
    ConcurrencyLimit, \* the semaphore of a parallel level
    Budget            \* how often each kind of mishap may happen (a bound)

\* A process killed, an interrupt, a store that refuses, a halt that cannot be read, work
\* that goes wrong, a limit or an output changed, and the commands --rerun and --fresh.
Mishaps == {"crash", "interrupt", "store", "unread", "trouble", "change", "rerun", "fresh"}

ASSUME ActionsAssumption == IsFiniteSet(Actions) /\ BatchActions \subseteq Actions
ASSUME DepsAssumption == Deps \in [Actions -> SUBSET Actions]
ASSUME LevelAssumption ==
    /\ Level \in [Actions -> Nat]
    /\ \A a \in Actions : \A d \in Deps[a] : Level[d] < Level[a]
ASSUME RunAssumption == Sequential \in BOOLEAN /\ ConcurrencyLimit \in Nat \ {0}
ASSUME BudgetAssumption == Budget \in [Mishaps -> Nat]

VARIABLES
    status,     \* the status file: each action's ActionStatus
    node,       \* the node-level disposition row of each action, with its marker
    rows,       \* the output stored for each action
    answers,    \* the success dispositions of its records, with what they answer
    fails,      \* whether it holds a failed or exhausted record
    batch,      \* what the registry holds uncollected, with what it was sent
    deferred,   \* what stands for the records of a batch that bear no outcome of their own
    edited,     \* the actions whose limit in force is not the one stamped on them
    phase,      \* where the run is; "off" when no process runs
    level,      \* the level the run is in
    todo,       \* the actions the phase has still to handle
    pc,         \* how far each action's work has got in this process
    forgetting, \* the actions a reset has still to clear
    reopening,  \* the actions a reset is going to put back to pending
    keeps,      \* of the actions put back at startup, those keeping their answers
    rerun,      \* the action --rerun names, until it is reset
    raised,     \* an error has escaped an action's run
    used        \* how often each kind of mishap has happened

stores == <<node, rows, answers, fails, batch, deferred>>
memory == <<phase, level, todo, pc, forgetting, reopening, keeps, rerun, raised>>
vars == <<status, stores, edited, memory, used>>

-----------------------------------------------------------------------------
(* The status sets of managers/state.py and the node-level markers *)

Completed == {"completed", "completed_with_failures"}
Terminal  == Completed \cup {"failed", "skipped", "interrupted"}
MidProcessing == {"running", "interrupted", "checking_batch"}
RetryableNotSkipped == {"failed"} \cup MidProcessing   \* MUTANT
Retryable == {"failed", "skipped"} \cup MidProcessing
InFlight  == {"running", "checking_batch"}
Statuses  == Terminal \cup InFlight \cup {"pending", "batch_submitted"}

Failures == {"failed", "halted", "every_input"}   \* DISPOSITION_FAILED, by its detail
Blocking == Failures \cup {"skipped"}
Rows     == {"none", "fresh", "stale", "mixed"}
Held     == {"none", "current", "stale"}
Lost     == {"ok", "some", "failed"}   \* by the rows stored for them, their batch collected
Deferred == Lost \cup {"none", "sent"}
Phases   == {"off", "clear", "wipe", "reset", "verify", "run", "drain"}
Steps    == {"idle", "asking", "carrying", "ran", "checking", "collecting", "collected"}

With(f, S, v) == [a \in Actions |-> IF a \in S THEN v ELSE f[a]]

Reads(x, S) == \A r \in Actions : Deps[r] \cap (S \cup {x}) # {} => r \in S

\* Everything that reads, directly or through others, what x writes.
ReadersOf == [x \in Actions |->
    {r \in Actions : \A S \in SUBSET Actions : Reads(x, S) => r \in S}]

Stale(f, a) == [r \in Actions |->
    IF r \in ReadersOf[a] /\ f[r] # "none" THEN "stale" ELSE f[r]]

AtLevel(l) == {a \in Actions : Level[a] = l}
Done(a)    == status[a] \in Completed
Halted(a)  == status[a] = "failed" /\ node[a] = "halted"
Busy       == {a \in Actions : pc[a] # "idle"}

Spend(kinds) ==
    /\ \A k \in kinds : used[k] < Budget[k]
    /\ used' = [k \in Mishaps |-> IF k \in kinds THEN used[k] + 1 ELSE used[k]]

\* The process is gone: nothing it held in memory survives.
Gone ==
    /\ phase' = "off" /\ level' = 0 /\ raised' = FALSE
    /\ pc' = [a \in Actions |-> "idle"]
    /\ todo' = {} /\ forgetting' = {} /\ reopening' = {} /\ keeps' = {} /\ rerun' = {}

Init ==
    /\ status = [a \in Actions |-> "pending"]
    /\ node = [a \in Actions |-> "none"]
    /\ rows = [a \in Actions |-> "none"]
    /\ answers = [a \in Actions |-> "none"]
    /\ fails = [a \in Actions |-> FALSE]
    /\ batch = [a \in Actions |-> "none"]
    /\ deferred = [a \in Actions |-> "none"]
    /\ edited = {}
    /\ phase = "off" /\ level = 0 /\ raised = FALSE
    /\ pc = [a \in Actions |-> "idle"]
    /\ todo = {} /\ forgetting = {} /\ reopening = {} /\ keeps = {} /\ rerun = {}
    /\ used = [k \in Mishaps |-> 0]

-----------------------------------------------------------------------------
(* Startup: _prepare_state *)

EnterLevel(l) == phase' = "verify" /\ level' = l /\ todo' = AtLevel(l)

\* The statuses a plain run puts back, in one write.  A halt that cannot be read
\* (unread) is taken for an ordinary failure.
PutBack(unread) == {a \in Actions : status[a] \in Retryable /\ (Halted(a) => a \in unread)}

StartRun(named, unread) ==
    /\ phase = "off"
    /\ Spend((IF named = {} THEN {} ELSE {"rerun"})
             \cup (IF unread = {} THEN {} ELSE {"unread"}))
    /\ status' = With(status, PutBack(unread), "pending")
    /\ keeps' = {a \in PutBack(unread) : status[a] \in MidProcessing \cup {"failed"}}
    /\ todo' = PutBack(unread)
    /\ phase' = "clear" /\ rerun' = named
    /\ UNCHANGED <<stores, edited, level, pc, forgetting, reopening, raised>>

StartPlain == StartRun({}, {})
StartPlainUnread == \E unread \in SUBSET {a \in Actions : Halted(a)} :
    unread # {} /\ StartRun({}, unread)
StartRerun == \E a \in Actions : StartRun({a}, {})

\* MUTANT: every disposition of every action put back.
ClearResetAll(a) ==
    /\ phase = "clear" /\ a \in todo /\ todo' = todo \ {a}
    /\ node' = [node EXCEPT ![a] = "none"]
    /\ answers' = [answers EXCEPT ![a] = "none"]
    /\ fails' = [fails EXCEPT ![a] = FALSE]
    /\ deferred' = [deferred EXCEPT ![a] = "none"]
    /\ UNCHANGED <<status, rows, batch, edited, phase, level, pc, forgetting, reopening,
                   keeps, rerun, raised, used>>

\* RUNNING_CLEAR_DISPOSITIONS for an action that keeps, every disposition otherwise.
ClearReset(a) ==
    /\ phase = "clear" /\ a \in todo
    /\ todo' = todo \ {a}
    /\ \/ /\ Spend({})
          /\ fails' = [fails EXCEPT ![a] = FALSE]
          /\ deferred' = [deferred EXCEPT ![a] = "none"]
          /\ node' = IF a \in keeps /\ node[a] \notin Failures
                     THEN node ELSE [node EXCEPT ![a] = "none"]
          /\ answers' = IF a \in keeps THEN answers ELSE [answers EXCEPT ![a] = "none"]
       \/ /\ Spend({"store"})   \* the store refuses: a warning, and the run goes on
          /\ UNCHANGED <<fails, deferred, node, answers>>
    /\ UNCHANGED <<status, rows, batch, edited, phase, level, pc,
                   forgetting, reopening, keeps, rerun, raised>>

\* MUTANT: --rerun resets the action it names and not its readers.
StartupDoneAlone ==
    /\ phase = "clear" /\ todo = {}
    /\ keeps' = {} /\ rerun' = {}
    /\ level' = 0 /\ todo' = AtLevel(0)
    /\ phase' = IF rerun = {} THEN "verify" ELSE "reset"
    /\ forgetting' = rerun /\ reopening' = rerun
    /\ UNCHANGED <<status, stores, edited, pc, raised, used>>

StartupDone ==
    /\ phase = "clear" /\ todo = {}
    /\ keeps' = {} /\ rerun' = {}
    /\ level' = 0 /\ todo' = AtLevel(0)
    /\ phase' = IF rerun = {} THEN "verify" ELSE "reset"
    /\ forgetting' = UNION {ReadersOf[a] \cup {a} : a \in rerun}
    /\ reopening' = UNION {ReadersOf[a] \cup {a} : a \in rerun}
    /\ UNCHANGED <<status, stores, edited, pc, raised, used>>

\* --fresh: every clear warns and goes on when the store refuses it.
StartFresh ==
    /\ phase = "off" /\ Spend({"fresh"})
    /\ phase' = "wipe" /\ todo' = Actions
    /\ UNCHANGED <<status, stores, edited, level, pc, forgetting, reopening, keeps,
                   rerun, raised>>

\* Its answers are checkpoints no output has been written from.
Checkpointed(a) == rows[a] = "none" \/ (rows[a] = "stale" /\ answers[a] = "current")

\* A disposition left behind carries an answer only beside the row or checkpoint it names.
Wipe(a, refused) ==
    /\ phase = "wipe" /\ a \in todo
    /\ Spend(IF refused = {} THEN {} ELSE {"store"})
    /\ todo' = todo \ {a}
    /\ rows' = IF "target" \in refused THEN rows ELSE [rows EXCEPT ![a] = "none"]
    /\ batch' = IF "batch" \in refused THEN batch ELSE [batch EXCEPT ![a] = "none"]
    /\ answers' = IF {"dispositions", IF Checkpointed(a) THEN "checkpoints" ELSE "target"}
                       \subseteq refused
                  THEN answers ELSE [answers EXCEPT ![a] = "none"]
    /\ IF "dispositions" \in refused
       THEN UNCHANGED <<node, fails, deferred>>
       ELSE /\ node' = [node EXCEPT ![a] = "none"] /\ fails' = [fails EXCEPT ![a] = FALSE]
            /\ deferred' = [deferred EXCEPT ![a] = "none"]
    /\ UNCHANGED <<status, edited, phase, level, pc, forgetting, reopening, keeps,
                   rerun, raised>>

WipeDone ==
    /\ phase = "wipe" /\ todo = {}
    /\ status' = [a \in Actions |-> "pending"]
    /\ EnterLevel(0)
    /\ UNCHANGED <<stores, edited, pc, forgetting, reopening, keeps, rerun, raised, used>>

-----------------------------------------------------------------------------
(* A reset: reopen_with_readers and the lost-output route *)

\* MUTANT: the batch state is left.
ForgetNotBatch(a) ==
    /\ phase = "reset" /\ a \in forgetting
    /\ node' = [node EXCEPT ![a] = "none"]
    /\ answers' = [answers EXCEPT ![a] = "none"]
    /\ fails' = [fails EXCEPT ![a] = FALSE]
    /\ deferred' = [deferred EXCEPT ![a] = "none"]
    /\ forgetting' = forgetting \ {a}
    /\ UNCHANGED <<status, rows, batch, edited, phase, level, todo, pc, reopening, keeps,
                   rerun, raised, used>>

\* _forget_what_it_did: dispositions and checkpoints, then the batch state.
Forget(a) ==
    /\ phase = "reset" /\ a \in forgetting
    /\ reopening = ReadersOf[a] \cup {a} => forgetting = {a}   \* readers, then the action
    /\ node' = [node EXCEPT ![a] = "none"]
    /\ answers' = [answers EXCEPT ![a] = "none"]
    /\ fails' = [fails EXCEPT ![a] = FALSE]
    /\ deferred' = [deferred EXCEPT ![a] = "none"]
    /\ \/ /\ batch' = [batch EXCEPT ![a] = "none"]
          /\ forgetting' = forgetting \ {a}
          /\ UNCHANGED <<phase, level, todo, pc, reopening, keeps, rerun, raised, used>>
       \/ Spend({"crash"}) /\ Gone /\ UNCHANGED batch
    /\ UNCHANGED <<status, rows, edited>>

\* ActionStateManager.reopen: every status in one write.
Reopen ==
    /\ phase = "reset" /\ forgetting = {}
    /\ status' = With(status, reopening, "pending")
    /\ reopening' = {} /\ phase' = "verify"
    /\ UNCHANGED <<stores, edited, level, todo, pc, forgetting, keeps, rerun, raised, used>>

-----------------------------------------------------------------------------
(* A level begins: verify_completion_status on each of its completed actions *)

Verifying(a) == phase = "verify" /\ a \in todo /\ Done(a)

\* MUTANT: the new limit is stamped before the stores are cleared.
ResetFromStamped(a, forget) ==
    /\ phase' = "reset" /\ todo' = todo \ {a}
    /\ forgetting' = forget /\ reopening' = ReadersOf[a] \cup {a}
    /\ edited' = edited \ {a}
    /\ UNCHANGED <<status, stores, level, pc, keeps, rerun, raised, used>>

ResetFrom(a, forget) ==
    /\ phase' = "reset" /\ todo' = todo \ {a}
    /\ forgetting' = forget /\ reopening' = ReadersOf[a] \cup {a}
    /\ UNCHANGED <<status, stores, edited, level, pc, keeps, rerun, raised, used>>

VerifyLimits(a) == Verifying(a) /\ a \in edited /\ ResetFrom(a, ReadersOf[a] \cup {a})

\* _check_prior_output refuses what it finds: a node-level failure or skip, or no output.
VerifyRefuses(a) ==
    /\ Verifying(a) /\ a \notin edited
    /\ IF node[a] \in Blocking
       THEN /\ node' = [node EXCEPT ![a] = "none"]
            /\ status' = [status EXCEPT ![a] = "pending"]
            /\ todo' = todo \ {a}
            /\ UNCHANGED <<rows, answers, fails, batch, deferred, edited, phase, level, pc,
                           forgetting, reopening, keeps, rerun, raised, used>>
       ELSE rows[a] = "none" /\ ResetFrom(a, ReadersOf[a])

\* lost_dispositions: with every batch collected, the rows stored for records still deferred
\* say what became of them.
Settles(a) == deferred[a] \in Lost /\ batch[a] = "none" /\ rows[a] # "none"

\* Its output stands, or the store cannot be read and it is left completed.
VerifyStands(a) ==
    /\ Verifying(a) /\ a \notin edited
    /\ IF node[a] \notin Blocking /\ rows[a] # "none" /\ ~Settles(a)
       THEN Spend({}) ELSE Spend({"store"})
    /\ todo' = todo \ {a}
    /\ UNCHANGED <<status, stores, edited, phase, level, pc, forgetting, reopening,
                   keeps, rerun, raised>>

\* MUTANT: a failure found late fails the action.
SettledStatusFailed(a) == IF deferred[a] = "ok" THEN status[a] ELSE "failed"

SettledStatus(a) == IF deferred[a] # "ok" /\ status[a] = "completed"
                    THEN "completed_with_failures" ELSE status[a]

\* _settle_lost_dispositions, of an action left completed: the dispositions are written
\* first.  Where the store refuses to clear the marks, or the process dies, the status stays.
VerifySettles(a) ==
    /\ Verifying(a) /\ a \notin edited /\ Settles(a)
    /\ answers' = [answers EXCEPT ![a] =
          IF deferred[a] = "failed" \/ @ # "none" THEN @
          ELSE IF rows[a] = "stale" THEN "stale" ELSE "current"]
    /\ fails' = [fails EXCEPT ![a] = IF deferred[a] = "ok" THEN @ ELSE TRUE]
    /\ deferred' = [deferred EXCEPT ![a] = "none"]
    /\ \E fate \in {{}, {"store"}, {"crash"}} :
        /\ Spend(fate \cup IF node[a] \in Blocking THEN {"store"} ELSE {})
        /\ IF "crash" \in fate THEN Gone
           ELSE /\ todo' = todo \ {a}
                /\ UNCHANGED <<phase, level, pc, forgetting, reopening, keeps, rerun, raised>>
        /\ status' = IF fate = {} THEN [status EXCEPT ![a] = SettledStatus(a)] ELSE status
    /\ UNCHANGED <<node, rows, batch, edited>>

Pending(a) == IF Sequential THEN ~Done(a) ELSE status[a] \notin Terminal

BeginLevel ==
    /\ phase = "verify" /\ \A a \in todo : ~Done(a)
    /\ phase' = "run" /\ todo' = {a \in AtLevel(level) : Pending(a)}
    /\ UNCHANGED <<status, stores, edited, level, pc, forgetting, reopening, keeps,
                   rerun, raised, used>>

-----------------------------------------------------------------------------
(* An action's turn: execute_action_sync and execute_action_async *)

\* MUTANT: a failed action ends the level as a batch that is out does.
StoppedAtFailure == raised \/ \E a \in AtLevel(level) \ todo :
    status[a] \in {"batch_submitted", "failed"}

Stopped == raised \/ \E a \in AtLevel(level) \ todo : status[a] = "batch_submitted"

CanStart(a) ==
    /\ phase = "run" /\ a \in todo
    /\ IF Sequential THEN Busy = {} /\ ~Stopped ELSE Cardinality(Busy) < ConcurrencyLimit

Step(a, s) ==
    /\ pc' = [pc EXCEPT ![a] = s] /\ todo' = todo \ {a}
    /\ UNCHANGED <<phase, level, forgetting, reopening, keeps, rerun>>

\* The handler of a ends here, or the process dies where "crash" is paid for.
Ends(a, cost) ==
    /\ Spend(cost)
    /\ IF "crash" \in cost THEN Gone ELSE Step(a, "idle") /\ UNCHANGED raised

\* The status is written first, the node-level row after it: the store may refuse
\* the row, or the process may die before it.
FailWith(a, marker, why) ==
    /\ status' = [status EXCEPT ![a] = "failed"]
    /\ \E fate \in {{}, {"store"}, {"crash"}} :
        /\ Ends(a, why \cup fate)
        /\ node' = IF fate = {} THEN [node EXCEPT ![a] = marker] ELSE node

SkipFates ==
    [drop : {"all"}, row : {TRUE}, cost : {{}}]
    \cup [drop : {"none", "forgot"}, row : {TRUE}, cost : {{"store"}}]
    \cup [drop : {"all"}, row : {FALSE}, cost : {{"store"}}]
    \cup [drop : {"none", "forgot", "all"}, row : {FALSE}, cost : {{"crash"}}]

\* Status, then what the action stored (drops is {a} or empty), then the node-level row.
Skip(a, drops, cleared, why) ==
    /\ status' = [status EXCEPT ![a] = "skipped"]
    /\ \E fate \in SkipFates :
        LET forgets == IF fate.drop = "none" THEN {} ELSE drops
        IN  /\ Ends(a, why \cup fate.cost)
            /\ node' = [With(node, cleared \cup forgets, "none") EXCEPT
                            ![a] = IF fate.row THEN "skipped" ELSE @]
            /\ answers' = With(answers, forgets, "none")
            /\ fails' = With(fails, forgets, FALSE)
            /\ deferred' = With(deferred, forgets, "none")
            /\ batch' = With(batch, forgets, "none")
            /\ rows' = IF fate.drop = "all" THEN With(rows, drops, "none") ELSE rows
    /\ UNCHANGED edited

CheckBatch(a) ==
    /\ CanStart(a) /\ status[a] = "batch_submitted"
    /\ status' = [status EXCEPT ![a] = "checking_batch"]
    /\ Step(a, "checking")
    /\ UNCHANGED <<stores, edited, raised, used>>

RefuseHalted(a) ==
    /\ CanStart(a) /\ status[a] # "batch_submitted" /\ node[a] = "halted"
    /\ Step(a, "idle")
    /\ UNCHANGED <<status, stores, edited, raised, used>>

Back(a, steps) == phase = "run" /\ pc[a] \in steps

\* Past the halt: there is none, or the store could not be asked.
PastHalt(a) == CanStart(a) /\ status[a] # "batch_submitted"
HaltUnreadNever(a) == {}   \* MUTANT: nothing is refused
HaltUnread(a) == IF node[a] = "halted" THEN {"unread"} ELSE {}

\* MUTANT: the node-level row alone says that an action failed.
BlocksByRow(d) == node[d] \in Blocking /\ rows[d] = "none"

Blocks(d) == \/ status[d] \in {"failed", "skipped"}
             \/ node[d] \in Blocking /\ rows[d] = "none"
\* A node-level failure beside stored rows is cleared, and the reader goes on.
Outlived(a) == {d \in Deps[a] : ~Blocks(d) /\ node[d] \in Blocking}

DependencySkip(a) ==
    /\ PastHalt(a) /\ \E d \in Deps[a] : Blocks(d)
    /\ \E cleared \in SUBSET Outlived(a) :   \* those looked at before the one that blocks
        Skip(a, IF \E d \in Deps[a] : rows[d] = "none" THEN {a} ELSE {}, cleared, HaltUnread(a))

\* MUTANT: the rows of the round before are left in place.
BeginLeavesRow(a) ==
    /\ PastHalt(a) /\ \A d \in Deps[a] : ~Blocks(d)
    /\ Spend(HaltUnread(a))
    /\ status' = [status EXCEPT ![a] = "running"]
    /\ Step(a, IF answers[a] = "none" THEN "asking" ELSE "carrying")
    /\ UNCHANGED <<stores, edited, raised>>

Begin(a) ==
    /\ PastHalt(a) /\ \A d \in Deps[a] : ~Blocks(d)
    /\ Spend(HaltUnread(a))
    /\ status' = [status EXCEPT ![a] = "running"]
    /\ node' = With(node, Outlived(a) \cup {a}, "none")
    /\ Step(a, IF answers[a] = "none" THEN "asking" ELSE "carrying")
    /\ UNCHANGED <<rows, answers, fails, batch, deferred, edited, raised>>

\* A store that gives out as work begins, or is counted after it, fails the action and
\* ends the run (_record_store_failure); one that gives out while the upstream's health
\* is read ends it with the action left as it was.
StoreGivesOut(a) ==
    /\ \/ /\ CanStart(a)
          /\ status[a] = "batch_submitted" \/ \A d \in Deps[a] : ~Blocks(d)
          /\ status' = [status EXCEPT ![a] = "failed"]
       \/ /\ Back(a, {"ran", "collected"})
          /\ status' = [status EXCEPT ![a] = "failed"]
       \/ /\ PastHalt(a) /\ UNCHANGED status
    /\ Spend({"store"})
    /\ raised' = TRUE
    /\ Step(a, "idle")
    /\ UNCHANGED <<stores, edited>>

-----------------------------------------------------------------------------
(* The work itself, on a worker thread: an interrupt does not stop it *)

At(a, steps) == phase \in {"run", "drain"} /\ pc[a] \in steps
Working(a)   == At(a, {"asking", "carrying"})
HasInput(a)  == Deps[a] = {} \/ \E d \in Deps[a] : rows[d] # "none"

\* What a rewrite of the output holds.  A carried record brings its stored row when there
\* is stored output, and its checkpoint only when there is none.
Written(a, carries) ==
    IF ~carries THEN "fresh"
    ELSE IF answers[a] = "stale" THEN "stale"
    ELSE IF rows[a] \in {"none", "fresh"} THEN "fresh" ELSE "mixed"

\* Store the output of a.  What reads it is stale from here on.
Store(a, outcome, new) ==
    /\ Spend(IF outcome = "ok" THEN {} ELSE {"trouble"})
    /\ outcome \in {"failed", "filtered"} => answers[a] = "none"
    /\ \E r \in CASE outcome \in {"ok", "some"} -> {new}
                  [] outcome = "failed" -> {rows[a], "fresh"}   \* left, or replaced by failures
                  [] outcome = "filtered" -> {"none"} :
        rows' = [Stale(rows, a) EXCEPT ![a] = r]
    /\ answers' = [Stale(answers, a) EXCEPT
                      ![a] = IF outcome \in {"ok", "some"} /\ @ = "none" THEN "current" ELSE @]
    /\ fails' = [fails EXCEPT ![a] = outcome \in {"some", "failed"}]
    /\ deferred' = [deferred EXCEPT ![a] = "none"]
    /\ node' = IF outcome = "filtered" THEN [node EXCEPT ![a] = "skipped"] ELSE node

\* One record answered: its checkpoint and its success disposition.
Answer(a) ==
    /\ Working(a) /\ a \notin BatchActions /\ HasInput(a) /\ answers[a] = "none"
    /\ answers' = [answers EXCEPT ![a] = "current"]
    /\ UNCHANGED <<status, node, rows, fails, batch, deferred, edited, memory, used>>

\* A batch action writes without sending anything only when every record is carried or
\* filtered.
Write(a, outcome) ==
    /\ Working(a) /\ HasInput(a)
    /\ a \in BatchActions => /\ batch[a] = "none"
                             /\ <<pc[a], outcome>> \in {<<"carrying", "ok">>, <<"asking", "filtered">>}
    /\ Store(a, outcome, Written(a, pc[a] = "carrying"))
    /\ batch' = Stale(batch, a)
    /\ Step(a, "ran")
    /\ UNCHANGED <<status, edited, raised>>

\* A batch that is still out, or not collected, is not sent again.  What is sent is stamped
\* deferred, over the failure it held, unless the store refuses the stamps.
Submit(a) ==
    /\ Working(a) /\ a \in BatchActions /\ HasInput(a)
    /\ \/ /\ batch[a] # "none" /\ Spend({})
          /\ UNCHANGED <<batch, fails, deferred>>
       \/ /\ batch[a] = "none"
          /\ batch' = [batch EXCEPT ![a] = "current"]
          /\ \/ /\ Spend({})
                /\ fails' = [fails EXCEPT ![a] = FALSE]
                /\ deferred' = [deferred EXCEPT ![a] = "sent"]
             \/ /\ Spend({"store"}) /\ UNCHANGED fails
                /\ deferred' = [deferred EXCEPT ![a] = "none"]
    /\ Step(a, "ran")
    /\ UNCHANGED <<status, node, rows, answers, edited, raised>>

\* The store refuses what the pass made of the records and takes their rows: those stamped
\* keep the stamp, and their rows alone say what became of them.
Unrecorded(a, outcome, new) ==
    /\ Spend({"store"} \cup IF outcome = "ok" THEN {} ELSE {"trouble"})
    /\ outcome = "failed" => answers[a] = "none"
    /\ rows' = [Stale(rows, a) EXCEPT ![a] = new]
    /\ answers' = Stale(answers, a)
    /\ deferred' = [deferred EXCEPT ![a] = IF @ = "none" THEN @ ELSE outcome]
    /\ UNCHANGED <<node, fails>>

\* The provider has answered: each file's rows are written, then its entry is marked.
CollectRows(a, outcome) ==
    /\ At(a, {"checking"}) /\ batch[a] # "none"
    /\ LET new == IF batch[a] = "stale" THEN "stale" ELSE Written(a, answers[a] # "none")
       IN  Store(a, outcome, new) \/ Unrecorded(a, outcome, new)
    /\ batch' = Stale(batch, a)
    /\ Step(a, "collecting")
    /\ UNCHANGED <<status, edited, raised>>

MarkCollected(a) ==
    /\ At(a, {"collecting"})
    /\ batch' = [batch EXCEPT ![a] = "none"]
    /\ Step(a, "collected")
    /\ UNCHANGED <<status, node, rows, answers, fails, deferred, edited, raised, used>>

-----------------------------------------------------------------------------
(* What the handlers make of it, back on the event loop *)

\* MUTANT: the batch status "passthrough" is written for the completion status.
ResolutionRaw(a) == IF fails[a] THEN "failed" ELSE "passthrough"

\* _resolve_completion_status
Resolution(a) ==
    CASE node[a] = "skipped" /\ rows[a] = "none" -> "skipped"
      [] OTHER -> IF ~fails[a] THEN "completed"
                  ELSE IF answers[a] = "none" THEN "failed" ELSE "completed_with_failures"

Finish(a, stamped) ==
    \/ /\ Resolution(a) = "failed"
       /\ \E marker \in {"failed", "every_input"} : FailWith(a, marker, {})
       /\ UNCHANGED <<rows, answers, fails, batch, deferred, edited>>
    \/ /\ Resolution(a) # "failed"
       /\ status' = [status EXCEPT ![a] = Resolution(a)]
       /\ node' = IF Resolution(a) # "skipped" /\ node[a] = "skipped"
                  THEN [node EXCEPT ![a] = "none"] ELSE node
       /\ edited' = IF Resolution(a) = "skipped" THEN edited ELSE edited \ stamped
       /\ Ends(a, {})
       /\ UNCHANGED <<rows, answers, fails, batch, deferred>>

Owes(a) == a \in BatchActions /\ batch[a] # "none"

CompleteOwing(a) == Back(a, {"ran"}) /\ Finish(a, {a})   \* MUTANT
Complete(a) == Back(a, {"ran"}) /\ ~Owes(a) /\ Finish(a, {a})

Submitted(a) ==
    /\ Back(a, {"ran"}) /\ Owes(a)
    /\ status' = [status EXCEPT ![a] = "batch_submitted"]
    /\ edited' = edited \ {a}
    /\ Ends(a, {})
    /\ UNCHANGED stores

\* An error of its own run, or a halt raised once a file is written.
RunFails(a) ==
    /\ Back(a, {"asking", "carrying", "ran"})
    /\ \E marker \in Failures : FailWith(a, marker, {"trouble"})
    /\ UNCHANGED <<rows, answers, fails, batch, deferred, edited>>

NoInput(a) ==
    /\ Back(a, {"asking", "carrying"})
    /\ Deps[a] # {} => ~HasInput(a)
    /\ Skip(a, {a}, {}, IF Deps[a] = {} THEN {"trouble"} ELSE {})

\* The stamps of a collected batch are those of its submission: edited stays.
Collected(a) == Back(a, {"collected"}) /\ Finish(a, {})

StillOut(a) ==
    /\ Back(a, {"checking"}) /\ batch[a] # "none"
    /\ status' = [status EXCEPT ![a] = "batch_submitted"]
    /\ Ends(a, {})
    /\ UNCHANGED <<stores, edited>>

\* Cancelled, or nothing in the registry.
BatchFails(a) ==
    /\ Back(a, {"checking"})
    /\ FailWith(a, "failed", IF batch[a] = "none" THEN {} ELSE {"trouble"})
    /\ batch' = [batch EXCEPT ![a] = "none"]
    /\ UNCHANGED <<rows, answers, fails, deferred, edited>>

CheckHalts(a) ==
    /\ Back(a, {"collected"})
    /\ FailWith(a, "halted", {"trouble"})
    /\ UNCHANGED <<rows, answers, fails, batch, deferred, edited>>

\* Any other error leaves checking_batch and a failure row, and ends the run.
CheckRaises(a) ==
    /\ Back(a, {"checking", "collecting", "collected"})
    /\ \/ Spend({"trouble"}) /\ node' = [node EXCEPT ![a] = "failed"]
       \/ Spend({"trouble", "store"}) /\ UNCHANGED node
    /\ raised' = TRUE
    /\ Step(a, "idle")
    /\ UNCHANGED <<status, rows, answers, fails, batch, deferred, edited>>

-----------------------------------------------------------------------------
(* How a run ends, and what happens between runs *)

LevelOver ==
    /\ phase = "run" /\ Busy = {}
    /\ todo = {} \/ (Sequential /\ Stopped)

BatchOut == \E a \in AtLevel(level) : status[a] = "batch_submitted"

\* MUTANT: the next level begins past an error.
NextLevelPastError ==
    /\ LevelOver /\ ~BatchOut
    /\ \E a \in Actions : Level[a] > level
    /\ EnterLevel(level + 1)
    /\ UNCHANGED <<status, stores, edited, pc, forgetting, reopening, keeps, rerun,
                   raised, used>>

NextLevel ==
    /\ LevelOver /\ ~raised /\ ~BatchOut
    /\ \E a \in Actions : Level[a] > level
    /\ EnterLevel(level + 1)
    /\ UNCHANGED <<status, stores, edited, pc, forgetting, reopening, keeps, rerun,
                   raised, used>>

RunEnds ==
    /\ LevelOver /\ ~raised
    /\ BatchOut \/ \A a \in Actions : Level[a] <= level
    /\ Gone
    /\ UNCHANGED <<status, stores, edited, used>>

Sweep(to) == status' = With(status, {a \in Actions : status[a] \in InFlight}, to)

\* MUTANT: the error handler sweeps nothing.
RunRaisesUnswept ==
    /\ LevelOver /\ raised
    /\ Gone
    /\ UNCHANGED <<status, stores, edited, used>>

\* handle_workflow_error
RunRaises ==
    /\ LevelOver /\ raised
    /\ Sweep("failed") /\ Gone
    /\ UNCHANGED <<stores, edited, used>>

\* handle_workflow_interrupt.  The process then waits for its worker threads.
Interrupt ==
    /\ phase \in {"reset", "verify", "run"} /\ Spend({"interrupt"})
    /\ Sweep("interrupted")
    /\ IF Sequential \/ Busy = {} THEN Gone
       ELSE /\ phase' = "drain" /\ todo' = {} /\ raised' = FALSE
            /\ UNCHANGED <<level, pc, forgetting, reopening, keeps, rerun>>
    /\ UNCHANGED <<stores, edited>>

\* Its threads have returned, or raised where they were.
Exit ==
    /\ phase = "drain" /\ Gone
    /\ UNCHANGED <<status, stores, edited, used>>

Crash ==
    /\ phase # "off" /\ Spend({"crash"}) /\ Gone
    /\ UNCHANGED <<status, stores, edited>>

\* A limit is changed, or put back to what is stamped.
EditLimit(a) ==
    /\ phase = "off" /\ Spend({"change"})
    /\ status[a] \in Completed \cup {"batch_submitted"}
    /\ edited' = IF a \in edited THEN edited \ {a} ELSE edited \cup {a}
    /\ UNCHANGED <<status, stores, memory>>

\* The stored output goes; no carry finds the rows of its dispositions again.
LoseOutput(a) ==
    /\ phase = "off" /\ Spend({"change"}) /\ rows[a] # "none"
    /\ rows' = [rows EXCEPT ![a] = "none"]
    /\ answers' = [answers EXCEPT ![a] = "none"]
    /\ UNCHANGED <<status, node, fails, batch, deferred, edited, memory>>

-----------------------------------------------------------------------------

Startup == \/ StartupDone \/ WipeDone
           \/ \E a \in Actions : ClearReset(a)
           \/ \E a \in Actions, refused \in
                 SUBSET {"target", "dispositions", "checkpoints", "batch"} : Wipe(a, refused)

Verify == \/ Reopen \/ BeginLevel
          \/ \E a \in Actions : \/ Forget(a) \/ VerifyLimits(a) \/ VerifyRefuses(a)
                                \/ VerifyStands(a) \/ VerifySettles(a)

Turn == \E a \in Actions :
    \/ StoreGivesOut(a) \/ CheckBatch(a) \/ RefuseHalted(a) \/ DependencySkip(a) \/ Begin(a)

Work == \E a \in Actions :
    \/ Answer(a) \/ Submit(a) \/ MarkCollected(a)
    \/ \E outcome \in {"ok", "some", "failed", "filtered"} : Write(a, outcome)

Collect == \E a \in Actions, outcome \in {"ok", "some", "failed"} : CollectRows(a, outcome)

Handle == \E a \in Actions :
    \/ Complete(a) \/ Submitted(a) \/ RunFails(a) \/ NoInput(a) \/ Collected(a)
    \/ StillOut(a) \/ BatchFails(a) \/ CheckHalts(a) \/ CheckRaises(a)

Process == Startup \/ Verify \/ Turn \/ Work \/ Collect \/ Handle
           \/ NextLevel \/ RunEnds \/ RunRaises \/ Exit

Operator == StartPlain \/ StartPlainUnread \/ StartRerun \/ StartFresh \/ Interrupt
            \/ \E a \in Actions : EditLimit(a) \/ LoseOutput(a)

Next == Process \/ Operator \/ Crash

Spec == Init /\ [][Next]_vars

\* The event loop and its threads go on, `agac run` is issued again after each process
\* that ends, and a provider polled again and again answers in the end.
FairSpec == Spec /\ WF_vars(Process) /\ WF_vars(StartPlain) /\ SF_vars(Collect)

-----------------------------------------------------------------------------
(* Properties *)

\* Every variable stays in its range: the statuses are ActionStatus members, a node-level
\* row is one of the kinds the executor writes, and no budget is overdrawn.
TypeOK ==
    /\ status \in [Actions -> Statuses]
    /\ node \in [Actions -> Blocking \cup {"none"}]
    /\ rows \in [Actions -> Rows]
    /\ answers \in [Actions -> Held]
    /\ fails \in [Actions -> BOOLEAN]
    /\ batch \in [Actions -> Held] /\ deferred \in [Actions -> Deferred]
    /\ edited \in SUBSET Actions
    /\ phase \in Phases /\ level \in Nat /\ raised \in BOOLEAN
    /\ pc \in [Actions -> Steps]
    /\ todo \in SUBSET Actions /\ forgetting \in SUBSET Actions
    /\ reopening \in SUBSET Actions /\ keeps \in SUBSET Actions /\ rerun \in SUBSET Actions
    /\ used \in [Mishaps -> Nat] /\ \A k \in Mishaps : used[k] <= Budget[k]

\* "A reset reaches everything that reads it": a completed action never holds output
\* computed from an upstream output that has been replaced since, whatever was killed,
\* interrupted or left out at the provider on the way.
NoStaleCompletion == \A a \in Actions : Done(a) => rows[a] # "stale"

\* What a completed action read is complete too, at every moment and on every disk a
\* dead process can leave; likewise what a started, stopped or failed one read.
StartedUpstream == \A a \in Actions : \A d \in Deps[a] :
    status[a] \notin {"pending", "skipped"} => Done(d)

\* No completed action carries a node-level failure or skip ("Nothing leaves that state
\* behind").
CompletedNotBlocked == \A a \in Actions : Done(a) => node[a] \notin Blocking

\* A completed action has no batch left at the provider that no run will collect.
CompletedOwesNothing == \A a \in Actions : Done(a) => ~Owes(a)

\* An action waiting on a batch has one to wait for whenever a run reaches it: a run never
\* polls a registry that a half-done reset emptied.
PollsABatch == \A a \in Actions :
    phase = "run" /\ level = Level[a] /\ status[a] = "batch_submitted" => Owes(a)

\* An action halted on purpose stays halted: only a reset of it (a limit changed, --rerun,
\* --fresh) takes it out, or a store that cannot be asked whether it is.
HaltStands == [][\A a \in Actions :
    Halted(a) /\ ~(Halted(a))' =>
        phase \in {"reset", "wipe"} \/ used'["unread"] > used["unread"]]_vars

\* A run never throws away what an earlier run had answered and paid for: the answers go
\* only with a reset, or when the output or the input they stand on is gone.
AnswersKept == [][\A a \in Actions :
    Deps[a] # {} /\ answers[a] = "current" /\ answers'[a] = "none" =>
        \/ phase \in {"reset", "wipe"}
        \/ status'[a] = "skipped" \/ rows'[a] = "none"]_vars

\* However a process ends, short of being killed, it leaves no action reading as running.
NothingLeftInFlight == [][
    phase # "off" /\ phase' = "off" /\ used'["crash"] = used["crash"]
        => \A a \in Actions : status'[a] \notin InFlight]_vars

\* A run that reaches its last level and waits on no batch has settled every action.
EndsSettled == [][
    RunEnds /\ ~BatchOut => \A a \in Actions : status[a] \in Terminal]_vars

\* Once mishaps stop, running the workflow again and again completes it: every action is
\* completed for good, but for those halted on purpose and what reads them.
Converges == <>[](\A a \in Actions :
    Done(a) \/ Halted(a) \/ \E h \in Actions : Halted(h) /\ a \in ReadersOf[h])

\* What reads the status file from outside sees what the contract of RunFiles allows: it is
\* written by the process of the run alone, and a process that ends by itself leaves no
\* action claiming work nobody does.
Files == INSTANCE RunFiles WITH
    Workflows <- {"workflow"},
    file  <- [w \in {"workflow"} |-> status],
    live  <- [w \in {"workflow"} |-> phase # "off"],
    kills <- [w \in {"workflow"} |-> used["crash"]]

KeepsTheFiles == Files!Spec

=============================================================================
