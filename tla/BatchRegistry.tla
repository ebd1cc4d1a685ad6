---------------------------- MODULE BatchRegistry ----------------------------
(***************************************************************************)
(* The batches of one action (llm/batch/).  The records of each input      *)
(* file go out as one batch; what it leaves unanswered goes out again in   *)
(* retry rounds, and what fails its expectations in repair rounds.  The    *)
(* registry names the batches still owed something, the recovery state of  *)
(* a file holds the answers gathered so far, and the two are written one   *)
(* after the other by a process that may die between any two writes.       *)
(***************************************************************************)
EXTENDS Integers, Sequences, FiniteSets

CONSTANTS
    Files, Records,  \* the input files of the action, the records they may hold
    Jobs,            \* what the action may be asked to do: the records each file holds,
                     \* retry.max_attempts (the original batch included) and the repair
                     \* rounds the expectations allow
    MaxMishaps       \* deaths of the process, batches given up, outages of the provider

ASSUME JobsAssumption ==
    Jobs \subseteq [inputs : [Files -> SUBSET Records], attempts : Nat \ {0}, rounds : Nat]

VARIABLES
    job,       \* the job at hand
    batches,   \* the batches the provider has taken, by their number
    registry,  \* the entries: the batch each names, its status as last polled
    recovery,  \* the recovery state of each file, if it has one
    mapped,    \* the context map of each file: the records its batch was sent
    outcome,   \* of each record: its disposition, or the batch whose answer is stored
    action,    \* the action's status, as far as its batches are concerned
    todo,      \* files still to submit, or entries still to read, in this process
    pass,      \* what the collect pass has met with so far
    flaky,     \* calls to the provider may fail
    abandoned, \* files one of whose recovery rounds an error kept from being read
    deaths, dead, outages

disk == <<batches, registry, recovery, mapped, outcome>>
around == <<job, flaky, abandoned, deaths, dead, outages>>
vars == <<disk, action, todo, pass, around>>

None == [none |-> TRUE]
Lost == 0   \* the answer of a record a repair round did not return

Kinds == {"original", "retry", "repair"}
Dead  == {"failed", "cancelled"}
Verdicts == {"answered", "failed", "exhausted"}

Restricted(f, S) == [x \in DOMAIN f \cap S |-> f[x]]
\* The answers of new stand over those of old: pool_records.
Over(new, old) == [r \in DOMAIN new \cup DOMAIN old |->
    IF r \in DOMAIN new THEN new[r] ELSE old[r]]
NoAnswers == [r \in {} |-> Lost]

Stored(n)  == [is |-> "answered", from |-> n]
Without(d) == [is |-> d, from |-> Lost]
HasAnswer(f, r) == outcome[f][r].is = "answered"

Key(f, kind, attempt) == [file |-> f, kind |-> kind, attempt |-> attempt]
Original(f) == Key(f, "original", 0)
Named(k) == batches[registry[k].batch]

Answered(b) == b.good \cup b.poor
Answers(n)  == [r \in Answered(batches[n]) |-> n]
IsPoor(r, n) == n # Lost /\ r \in batches[n].poor

-----------------------------------------------------------------------------
(* The registry *)

InFlight(e)  == e.status \notin {"completed"} \cup Dead
Awaits(e)    == e.status = "completed" /\ ~e.collected
Settled(e)   == e.status \in Dead /\ e.collected
Owed(reg)    == \E k \in DOMAIN reg : ~reg[k].collected

overall_status(reg) ==
    LET In(S) == {k \in DOMAIN reg : reg[k].status \in S}
        done  == {k \in DOMAIN reg : reg[k].status = "completed" \/ Settled(reg[k])}
    IN CASE reg = <<>> -> "no_batches"
         [] reg # <<>> /\ done = DOMAIN reg -> "completed"
         [] reg # <<>> /\ done # DOMAIN reg /\ done \cup In({"cancelled"}) = DOMAIN reg ->
               IF done # {} THEN "completed" ELSE "cancelled"
         [] OTHER -> IF In({"failed"}) \ done # {} THEN "partial_failed" ELSE "in_progress"

is_dead_retry(k, e) == k.kind = "retry" /\ e.status \in Dead

\* A live recovery stands for its file, the newest of several; a dead retry does when none
\* is live, and a dead repair never.  What they stand over is not read.
superseded_entries(reg) ==
    LET rounds(f) == {k \in DOMAIN reg : k.file = f /\ k.kind # "original"}
        live(f) == {k \in rounds(f) : reg[k].status = "completed" \/ InFlight(reg[k])}
        spent(f) == {k \in rounds(f) : is_dead_retry(k, reg[k])}
        ranked(f) == IF live(f) # {} THEN live(f) ELSE spent(f)
        stands(f) == {k \in ranked(f) : \A j \in ranked(f) : reg[j].batch <= reg[k].batch}
    IN UNION {({Original(f)} \cup rounds(f)) \ stands(f) : f \in {g \in Files : ranked(g) # {}}}

-----------------------------------------------------------------------------
(* What goes wrong *)

Mishap == deaths + dead + outages < MaxMishaps

\* The process dies, or the action fails: either way the next run begins with the action.
Stops == action' = "stopped" /\ todo' = {} /\ pass' = None

\* A handler makes its writes in order, and goes on after the last; killed, it has made some.
Through(writes, last, goesOn) ==
    /\ UNCHANGED <<job, flaky, abandoned, dead, outages>>
    /\ IF writes = last THEN goesOn /\ UNCHANGED deaths
       ELSE Stops /\ Mishap /\ deaths' = deaths + 1

OutageBegins ==
    /\ ~flaky /\ Mishap
    /\ flaky' = TRUE /\ outages' = outages + 1
    /\ UNCHANGED <<disk, action, todo, pass, job, abandoned, deaths, dead>>

OutageEnds ==
    /\ flaky /\ flaky' = FALSE
    /\ UNCHANGED <<disk, action, todo, pass, job, abandoned, deaths, dead, outages>>

-----------------------------------------------------------------------------
(* Submission: services/submission.py *)

\* A run starts with the action: reset_retryable clears what is not an answer.
BeginRun ==
    /\ action \in {"pending", "stopped"} /\ action' = "submitting"
    /\ outcome' = [f \in Files |-> [r \in job.inputs[f] |->
          IF HasAnswer(f, r) THEN outcome[f][r] ELSE Without("none")]]
    /\ todo' = Files
    /\ UNCHANGED <<batches, registry, recovery, mapped, pass, around>>

\* MUTANT: a batch still out is sent again.
ReusesFinished(f) == Original(f) \in DOMAIN registry /\ Awaits(registry[Original(f)])

\* A batch still out, or one whose results are owed, is not sent again.
Reuses(f) ==
    /\ Original(f) \in DOMAIN registry
    /\ InFlight(registry[Original(f)]) \/ Awaits(registry[Original(f)])

Unfinished(f) == {r \in job.inputs[f] : ~HasAnswer(f, r)}

Takes(f, kind, holds) ==
    batches' = Append(batches, [file |-> f, kind |-> kind, holds |-> holds, status |-> "out",
                                good |-> {}, poor |-> {}])

\* MUTANT: the entry names the batch before the one taken.
NewEntryBefore == [batch |-> Len(batches), status |-> "out", collected |-> FALSE]

NewEntry == [batch |-> Len(batches) + 1, status |-> "out", collected |-> FALSE]

\* The registry names the batch just taken.
Naming(k) == [j \in DOMAIN registry \cup {k} |-> IF j = k THEN NewEntry ELSE registry[j]]

SkipFile(f) ==
    /\ Reuses(f) \/ Unfinished(f) = {}
    /\ todo' = todo \ {f}
    /\ UNCHANGED <<disk, action, pass, around>>

\* The provider takes the batch, the context map is saved, the registry names it, and the
\* records are stamped deferred.
SendFile(f) ==
    /\ ~Reuses(f) /\ Unfinished(f) # {}
    /\ \E writes \in 0..4 :
          /\ IF writes >= 1 THEN Takes(f, "original", Unfinished(f)) ELSE UNCHANGED batches
          /\ mapped' = IF writes >= 2 THEN [mapped EXCEPT ![f] = Unfinished(f)] ELSE mapped
          /\ registry' = IF writes >= 3 THEN Naming(Original(f)) ELSE registry
          /\ outcome' = IF writes = 4
                THEN [outcome EXCEPT ![f] = [r \in job.inputs[f] |->
                        IF r \in Unfinished(f) THEN Without("deferred") ELSE @[r]]]
                ELSE outcome
          /\ Through(writes, 4, todo' = todo \ {f} /\ UNCHANGED <<action, pass>>)
    /\ UNCHANGED recovery

\* The provider refuses the batch: fatal to the action.
RefuseFile(f) ==
    /\ ~Reuses(f) /\ Unfinished(f) # {} /\ flaky
    /\ Stops /\ UNCHANGED <<disk, around>>

submit_batch_job(f) ==
    action = "submitting" /\ f \in todo /\ (SkipFile(f) \/ SendFile(f) \/ RefuseFile(f))

\* check_batch_submission: with nothing owed the action has its output.
Submitted ==
    /\ action = "submitting" /\ todo = {}
    /\ action' = IF Owed(registry) THEN "batch_submitted" ELSE "completed"
    /\ UNCHANGED <<disk, todo, pass, around>>

-----------------------------------------------------------------------------
(* The provider *)

Becomes(n, status, good, poor) == batches' =
    [batches EXCEPT ![n].status = status, ![n].good = good, ![n].poor = poor]

\* A batch ends: with answers that pass, answers that do not, and records left out.
Completes(n) ==
    /\ batches[n].status = "out"
    /\ \E good \in SUBSET batches[n].holds : \E poor \in SUBSET (batches[n].holds \ good) :
          Becomes(n, "completed", good, poor)
    /\ UNCHANGED <<registry, recovery, mapped, outcome, action, todo, pass, around>>

Fails(n) ==
    /\ batches[n].status = "out"
    /\ Mishap /\ dead' = dead + 1
    /\ \E status \in Dead : Becomes(n, status, {}, {})
    /\ UNCHANGED <<registry, recovery, mapped, outcome, action, todo, pass, job, flaky,
                   abandoned, deaths, outages>>

-----------------------------------------------------------------------------
(* The poll: handle_batch_agent *)

\* are_all_jobs_completed asks about every entry not ended and keeps what it is told.
polled == [k \in DOMAIN registry |->
    IF InFlight(registry[k]) THEN [registry[k] EXCEPT !.status = Named(k).status]
    ELSE registry[k]]

NewPass(reg) == [superseded |-> superseded_entries(reg), wrote |-> FALSE,
                 collectedBefore |-> FALSE, unread |-> FALSE]

BeginPass(reg) ==
    /\ action' = "checking_batch"
    /\ pass' = NewPass(reg) /\ todo' = DOMAIN reg \ pass'.superseded

Poll ==
    /\ action = "batch_submitted"
    /\ CASE overall_status(registry) = "completed" ->
              BeginPass(registry) /\ UNCHANGED registry
         [] overall_status(registry) \in {"in_progress", "partial_failed"} ->
              /\ registry' = polled
              /\ IF \E k \in DOMAIN polled : InFlight(polled[k])
                 THEN UNCHANGED <<action, todo, pass>> ELSE BeginPass(polled)
         [] overall_status(registry) \in {"cancelled", "no_batches"} ->
              Stops /\ UNCHANGED registry
    /\ UNCHANGED <<batches, recovery, mapped, outcome, around>>

-----------------------------------------------------------------------------
(* Sending a round: register_recovery_batch, then the state *)

Round(sent, missing, accumulated, attempt, held, pool) ==
    [sent |-> sent, missing |-> missing, accumulated |-> accumulated,
     round |-> attempt, held |-> held, pool |-> pool]

Handled(k) == todo' = todo \ {k} /\ UNCHANGED action

\* The provider takes the round, the registry names it, the entries it replaces are removed,
\* and the state it is read against is saved.
Registers(k, kind, attempt, holds, state) ==
    LET f     == k.file
        key   == Key(f, kind, attempt)
        named == Naming(key)
        Replaced(j) == j.file = f /\ j.kind # "original" /\ j # key
    IN \E writes \in 1..4 :
          /\ Takes(f, kind, holds)
          /\ registry' = CASE writes = 1 -> registry
                           [] writes = 2 -> named
                           [] writes >= 3 -> Restricted(named, {j \in DOMAIN named : ~Replaced(j)})
          /\ recovery' = IF writes = 4 THEN [recovery EXCEPT ![f] = state] ELSE recovery
          /\ Through(writes, 4, Handled(k) /\ UNCHANGED pass)
          /\ UNCHANGED <<mapped, outcome>>

\* finalize_batch_output and cleanup_recovery: the state goes, dispositions and rows are
\* written, the file is marked collected, the entries of its rounds are removed.
Finalizes(k, results, exhausted) ==
    LET f == k.file
        Result(r) == IF r \in DOMAIN results /\ results[r] # Lost THEN Stored(results[r])
                     ELSE Without(IF r \in exhausted THEN "exhausted" ELSE "failed")
        marked == [registry EXCEPT ![Original(f)].collected = TRUE]
    IN \E writes \in 1..4 :
          /\ recovery' = [recovery EXCEPT ![f] = None]
          /\ outcome' = IF writes = 1 THEN outcome ELSE [outcome EXCEPT ![f] = [r \in job.inputs[f] |->
                            IF r \in mapped[f] THEN Result(r) ELSE @[r]]]
          /\ registry' = CASE writes <= 2 -> registry
                           [] writes = 3 -> marked
                           [] writes = 4 -> Restricted(marked,
                                 {j \in DOMAIN marked : j.file # f \/ j.kind = "original"})
          /\ Through(writes, 4, Handled(k) /\ pass' = [pass EXCEPT !.wrote = TRUE])
          /\ UNCHANGED <<batches, mapped>>

Leaves(k) == Handled(k) /\ UNCHANGED <<disk, around>>
Defers(k) == Leaves(k) /\ UNCHANGED pass
Notes(k, flag) == Leaves(k) /\ pass' = [pass EXCEPT ![flag] = TRUE]

-----------------------------------------------------------------------------
(* Reading an entry: process_all_batch_results *)

\* MUTANT: a registered round counts as running, whatever the provider says.
repair_round_in_flightRegistered(f) == \E j \in DOMAIN registry :
    j.file = f /\ j.kind = "repair"

\* A repair round the provider has not given up owns the records it holds.
repair_round_in_flight(f) == \E j \in DOMAIN registry :
    j.file = f /\ j.kind = "repair" /\ Named(j).status \notin Dead

\* check_and_submit_repair: the pool stands over what the file's batch said.
Repairs(k, answers, known, exhausted) ==
    LET f      == k.file
        state  == IF known # None THEN known
                  ELSE IF recovery[f] # None THEN recovery[f]
                  ELSE Round(0, {}, NoAnswers, 0, {}, NoAnswers)
        pooled == Over(state.pool, answers)
        poor   == {r \in DOMAIN pooled : IsPoor(r, pooled[r])}
    IN IF state.held \cap poor # {} /\ repair_round_in_flight(f) THEN Defers(k)
       ELSE IF poor = {} \/ state.round >= job.rounds THEN Finalizes(k, pooled, exhausted)
       ELSE Registers(k, "repair", state.round + 1, poor,
                [state EXCEPT !.round = @ + 1, !.held = poor,
                              !.pool = Restricted(Over(pooled, @), Records \ poor)])

\* MUTANT: the original batch is no attempt.
retries_leftAfterward(sent) == job.attempts - sent

retries_left(sent) == job.attempts - 1 - sent

\* Nobody retried it yet: what the batch left out is retried, or given up when the batch was
\* the only attempt.  A retry that does not go out is not made up for.
process_original_batch(k) ==
    LET got     == Answers(registry[k].batch)
        missing == mapped[k.file] \ DOMAIN got
    IN IF missing # {} /\ retries_left(0) > 0
       THEN \/ Registers(k, "retry", 1, missing, Round(1, missing, got, 0, {}, NoAnswers))
            \/ flaky /\ Repairs(k, got, None, {})
       ELSE Repairs(k, got, IF missing = {} THEN None
                            ELSE Round(0, missing, NoAnswers, 0, {}, NoAnswers), missing)

\* MUTANT: what came before the retry is forgotten.
process_retry_resultsAlone(got, accumulated) == got

\* What the retry returned, over what the batches before it did.
process_retry_results(got, accumulated) == Over(got, accumulated)

\* A retry that died delivered nothing; its attempt is spent all the same.
handle_retry_recovery(k) ==
    LET state  == recovery[k.file]
        got    == IF registry[k].status \in Dead THEN NoAnswers ELSE Answers(registry[k].batch)
        merged == process_retry_results(got, state.accumulated)
        still  == state.missing \ DOMAIN got
    IN IF still # {} /\ retries_left(state.sent) > 0
       THEN \/ Registers(k, "retry", state.sent + 1, still,
                   [state EXCEPT !.sent = @ + 1, !.missing = still, !.accumulated = merged])
            \/ flaky /\ Repairs(k, merged, [state EXCEPT !.missing = {}], {})
       ELSE Repairs(k, merged, state, still)

\* What comes back passing joins the pool, with what did not come back at all; what fails
\* goes out again while rounds are left.
handle_repair_recovery(k) ==
    LET state   == recovery[k.file]
        got     == Answers(registry[k].batch)
        poor    == {r \in DOMAIN got : IsPoor(r, got[r])}
        dropped == [r \in state.held \ DOMAIN got |-> Lost]
        pool    == Over(dropped, Over(Restricted(got, DOMAIN got \ poor), state.pool))
    IN IF poor # {} /\ state.round < job.rounds
       THEN Registers(k, "repair", state.round + 1, poor,
                [state EXCEPT !.round = @ + 1, !.held = poor,
                              !.pool = Restricted(pool, Records \ poor)])
       ELSE Finalizes(k, Over(got, pool), state.missing)

\* Without its state a round cannot be read; dropped, it hands its file back.
DropEntry(k) ==
    /\ registry' = Restricted(registry, DOMAIN registry \ {k})
    /\ Handled(k) /\ UNCHANGED <<batches, recovery, mapped, outcome, pass, around>>

process_recovery_batch(k) ==
    CASE recovery[k.file] = None -> DropEntry(k)
      [] recovery[k.file] # None /\ k.kind = "retry" -> handle_retry_recovery(k)
      [] OTHER -> handle_repair_recovery(k)

Process(k) == IF k.kind = "original" THEN process_original_batch(k) ELSE process_recovery_batch(k)

Failed(f) == [outcome EXCEPT ![f] = [r \in job.inputs[f] |-> IF r \in mapped[f] THEN Without("failed")
                                              ELSE @[r]]]

\* The provider gave the file's own batch up: its records are failed and it is owed nothing.
FailUnreadable(k) ==
    /\ outcome' = Failed(k.file)
    /\ \E writes \in 1..2 :
          /\ registry' = IF writes = 2 THEN [registry EXCEPT ![k].collected = TRUE] ELSE registry
          /\ Through(writes, 2, Handled(k) /\ UNCHANGED pass)
    /\ UNCHANGED <<batches, recovery, mapped>>

\* An error in the middle: the records of the entry's context map are failed.  A round has
\* no context map under its own name.
Abandons(k) ==
    /\ flaky
    /\ IF k.kind = "original" THEN outcome' = Failed(k.file) /\ UNCHANGED abandoned
       ELSE UNCHANGED outcome /\ abandoned' = abandoned \cup {k.file}
    /\ Handled(k)
    /\ UNCHANGED <<batches, registry, recovery, mapped, pass, job, flaky, deaths, dead, outages>>

\* The provider is asked, whatever the registry says: a round registered in the pass under
\* the name of one that died may have ended already.
Readable(k) == is_dead_retry(k, registry[k]) \/ Named(k).status = "completed"

\* The provider cannot be asked.  A batch last known to be finished is owed all the same.
Unasked(k) ==
    /\ flaky /\ ~is_dead_retry(k, registry[k])
    /\ IF registry[k].status = "completed" THEN Notes(k, "unread") ELSE Defers(k)

ReadEntry(k) ==
    /\ action = "checking_batch" /\ k \in todo
    /\ CASE k \notin DOMAIN registry -> Defers(k)
         [] k \in DOMAIN registry /\ registry[k].collected -> Notes(k, "collectedBefore")
         [] k \in DOMAIN registry /\ ~registry[k].collected ->
              IF k.kind = "original" /\ registry[k].status \in Dead THEN FailUnreadable(k)
              ELSE IF Readable(k) THEN Process(k) \/ Abandons(k) \/ Unasked(k)
              ELSE Defers(k)

\* MUTANT: nobody looks at what a dropped round hands back.
HandedBackUnseen == {}

\* A round dropped in the pass has handed back a file the pass had not read.
HandedBack == {k \in pass.superseded \ superseded_entries(registry) :
    k \in DOMAIN registry /\ Awaits(registry[k])}

EndPass ==
    /\ action = "checking_batch" /\ todo = {}
    /\ LET unread   == pass.unread \/ HandedBack # {}
           nothing  == ~(pass.wrote \/ pass.collectedBefore \/ unread)
           underway == \E k \in DOMAIN registry : InFlight(registry[k])
       IN CASE nothing /\ ~underway -> Stops
            [] ~(nothing /\ ~underway) ->
                 /\ action' = IF overall_status(registry) = "completed" /\ ~unread
                              THEN "completed" ELSE "batch_submitted"
                 /\ pass' = None /\ UNCHANGED todo
    /\ UNCHANGED <<disk, around>>

-----------------------------------------------------------------------------

Init ==
    /\ job \in Jobs
    /\ batches = <<>> /\ registry = <<>>
    /\ recovery = [f \in Files |-> None] /\ mapped = [f \in Files |-> {}]
    /\ outcome = [f \in Files |-> [r \in job.inputs[f] |-> Without("none")]]
    /\ action = "pending" /\ todo = {} /\ pass = None
    /\ flaky = FALSE /\ abandoned = {} /\ deaths = 0 /\ dead = 0 /\ outages = 0

Run ==
    \/ BeginRun \/ Submitted \/ Poll \/ EndPass
    \/ \E f \in Files : submit_batch_job(f)
    \/ \E k \in todo : ReadEntry(k)

Provider == \E n \in DOMAIN batches : Completes(n) \/ Fails(n)

Next == Run \/ Provider \/ OutageBegins \/ OutageEnds

Spec == Init /\ [][Next]_vars

\* Somebody runs the workflow again, the provider ends every batch, and outages pass.
FairSpec == Spec /\ WF_vars(Run) /\ WF_vars(Provider) /\ WF_vars(OutageEnds)

-----------------------------------------------------------------------------
(* Properties *)

\* Every entry and every stored answer names a batch the provider took, and a batch answers
\* for records it holds: submission.py, registry.py.
TypeOK ==
    /\ \A n \in DOMAIN batches : LET b == batches[n] IN
          b.holds \subseteq job.inputs[b.file] /\ Answered(b) \subseteq b.holds /\ b.good \cap b.poor = {}
    /\ \A k \in DOMAIN registry : registry[k].batch \in DOMAIN batches
    /\ \A f \in Files : \A r \in job.inputs[f] : HasAnswer(f, r) => outcome[f][r].from \in DOMAIN batches
    /\ action \in {"pending", "submitting", "batch_submitted", "checking_batch", "stopped",
                   "completed"}
    /\ pass = None <=> action # "checking_batch"

Batches(f, r) == {n \in DOMAIN batches : batches[n].file = f /\ r \in batches[n].holds}
Newest(f, r, n) == \A m \in Batches(f, r) : m <= n

DeadRepairs(f) == {n \in DOMAIN batches :
    batches[n].file = f /\ batches[n].kind = "repair" /\ batches[n].status \in Dead}

\* No record is at the provider twice.  Retried, repaired, polled by another run or taken up
\* where a pass broke off, it goes out once the batch that held it has ended; a death
\* between the provider's taking a batch and the registry's naming it costs one more
\* (submission.py:656).
NeverOutTwice == \A f \in Files : \A r \in job.inputs[f] :
    Cardinality({n \in Batches(f, r) : batches[n].status = "out"}) <= 1 + deaths

\* An answer that came back is kept until a later batch holds its record: an entry still
\* owed names its batch, the recovery state holds it, or it is stored; and what is stored is
\* the newest.  The code gives a file whose repair the provider gave up, or whose process
\* died, back to the original batch, and says so (_is_dead_retry, _process_original_batch).
Kept(f, r, n) ==
    \/ \E k \in DOMAIN registry : registry[k].batch = n /\ ~registry[k].collected
    \/ recovery[f] # None /\ \E part \in {recovery[f].accumulated, recovery[f].pool} :
          r \in DOMAIN part /\ part[r] = n
    \/ outcome[f][r] = Stored(n)

NoAnswerLost == deaths = 0 =>
    \A f \in {g \in Files : DeadRepairs(g) = {}} : \A r \in job.inputs[f] : \A n \in Batches(f, r) :
        /\ Newest(f, r, n) /\ r \in Answered(batches[n]) => Kept(f, r, n)
        /\ outcome[f][r] = Stored(n) => Newest(f, r, n)

\* An action completes once every record has an answer or is marked failed or exhausted,
\* which is what `agac retry` and the next run look for: no record stays deferred on a batch
\* nothing reads (CollectPass).  Two exceptions: a file whose recovery round an error kept
\* from being read, which CompletedIsSettled is about; and a death followed by a batch given
\* up, when the round the death left behind still hides the file's own batch.
SettledUnlessAbandoned == action = "completed" /\ (deaths = 0 \/ dead = 0) =>
    \A f \in Files \ abandoned : \A r \in job.inputs[f] : outcome[f][r].is \in Verdicts

\* The same of every file, with nothing gone wrong but calls to the provider:
\* "completed, the action is not run again and nothing reads that batch" (CollectPass).
CompletedIsSettled == action = "completed" /\ deaths = 0 /\ dead = 0 =>
    \A f \in Files : \A r \in job.inputs[f] : outcome[f][r].is \in Verdicts

\* A file buys a bounded number of rounds, however often its batches are polled and read
\* again: max_attempts and the repair rounds are counted in the recovery state, and the
\* count starts again only with a death or a repair given up.
RoundsBounded == \A f \in Files :
    Cardinality({n \in DOMAIN batches : batches[n].file = f /\ batches[n].kind # "original"})
        <= (job.attempts - 1 + job.rounds) * (1 + deaths + Cardinality(DeadRepairs(f)))

\* Run again, the action completes: no batch is waited for that will not come, and no pass
\* defers to a round that is over (_repair_round_in_flight).
Finishes == <>(action = "completed")

=============================================================================
