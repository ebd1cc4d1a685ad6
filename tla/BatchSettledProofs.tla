--------------------------- MODULE BatchSettledProofs ---------------------------
(***************************************************************************)
(* What is left when the action completes.  A file is settled when each    *)
(* record has an answer or is marked failed or exhausted.  Until it is,    *)
(* its own entry is owed, and a pass comes to it: it reads that entry, or  *)
(* the round standing over it, or sends a round, or ends with something    *)
(* unread, and then the action does not complete.  The rounds sent on the  *)
(* way are counted, and a file buys no more than its retries and repairs;  *)
(* and what each of them answered is followed to where it is stored.       *)
(***************************************************************************)
EXTENDS BatchRegistryProofs, WellFoundedInduction

Rounds(f) == {k \in DOMAIN registry : k.file = f /\ k.kind # "original"}
Done(f) == \A r \in job.inputs[f] : outcome[f][r].is \in Verdicts
Watched(f) == Original(f) \in DOMAIN registry /\ ~registry[Original(f)].collected
Underway(f) == \E k \in DOMAIN registry : k.file = f /\ registry[k].status = "out"

\* Each entry names a batch of its own, and a round is owed until it goes.
EntriesApart ==
    /\ \A j, k \in DOMAIN registry : registry[j].batch = registry[k].batch => j = k
    /\ \A k \in DOMAIN registry : k.kind # "original" => ~registry[k].collected

\* Unless the process died, a file has one round at a time and its state beside it.
StatesSaved == deaths = 0 =>
    \A f \in Files : \A j, k \in Rounds(f) : j = k /\ recovery[f] # None

\* Unless a batch was given up, repairs come after retries.
RepairsLast == dead = 0 =>
    /\ \A n \in 1..Len(batches) : batches[n].status \notin Dead
    /\ \A f \in Files : \A j, k \in Rounds(f) :
          j.kind = "retry" /\ k.kind = "repair" => registry[j].batch < registry[k].batch

\* A file was sent for the records that had no answer.
RestAnswered == \A f \in Files : Original(f) \in DOMAIN registry =>
    \A r \in job.inputs[f] \ mapped[f] : HasAnswer(f, r)

OwedOrDone ==
    /\ action = "submitting" => \A f \in Files \ todo : Unfinished(f) = {} \/ Watched(f)
    /\ action \in {"batch_submitted", "checking_batch"} => \A f \in Files : Done(f) \/ Watched(f)

\* The round k is what a pass reads of f, in place of the file's own batch and older rounds.
Stands(f, k) ==
    /\ k \in Rounds(f) /\ (registry[k].status = "completed" \/ is_dead_retry(k, registry[k]))
    /\ Original(f) \in pass.superseded
    /\ \A j \in Rounds(f) \ {k} : j \in pass.superseded /\ registry[j].batch < registry[k].batch

\* What becomes of f in a pass.
Comes(f) ==
    \/ Done(f) \/ Underway(f) \/ pass.unread \/ Original(f) \in todo
    \/ \E k \in todo : Stands(f, k)
    \/ /\ \E j \in HandedBack : j.file = f
       /\ \A k \in todo \cap DOMAIN registry : k.file # f

PassComes == action = "checking_batch" =>
    /\ todo \cap pass.superseded = {}
    /\ dead = 0 => \A k \in todo \cap DOMAIN registry : k.kind # "original" =>
          \A j \in Rounds(k.file) : registry[j].batch <= registry[k].batch
    /\ deaths = 0 \/ dead = 0 => \A f \in Files \ abandoned : Comes(f)

Finished == action = "completed" /\ (deaths = 0 \/ dead = 0) =>
    \A f \in Files \ abandoned : Done(f)

EntriesInv == EntriesApart /\ StatesSaved /\ RepairsLast
SettledInv == EntriesInv /\ RestAnswered /\ OwedOrDone /\ PassComes /\ Finished

-----------------------------------------------------------------------------
(* The newest of several entries, and what stands over what *)

\* A set whose members have ages among 1..n has an eldest.
LEMMA EldestOf ==
    ASSUME NEW S, S # {}, NEW n \in Nat, NEW age \in [S -> 1..n]
    PROVE  \E k \in S : \A j \in S : age[j] <= age[k]
<1> DEFINE below(k) == n - age[k]
           T == {below(k) : k \in S}
           less == {p \in Nat \X Nat : p[1] < p[2]}
<1>1. T \subseteq Nat /\ T # {}
  OBVIOUS
<1>2. IsWellFoundedOn(less, Nat)
  BY NatLessThanWellFounded, Zenon DEF OpToRel
<1> HIDE DEF T, less
<1>3. PICK x \in T : \A y \in T : ~(<<y, x>> \in less)
  BY <1>1, <1>2, WFMin
<1>4. ASSUME NEW y \in T PROVE x <= y
  <2> DEFINE p == <<y, x>>
  <2>1. p \in Nat \X Nat /\ p[1] = y /\ p[2] = x
    BY <1>1
  <2>2. p \notin less
    BY <1>3
  <2> HIDE DEF p
  <2> QED BY <1>1, <2>1, <2>2 DEF less
<1>5. PICK k \in S : x = below(k)
  BY DEF T
<1>6. ASSUME NEW j \in S PROVE age[j] <= age[k]
  <2>1. below(k) <= below(j)
    BY <1>4, <1>5 DEF T
  <2> QED BY <2>1
<1> QED BY <1>6

LEMMA NewestOf ==
    ASSUME TypeInv, NEW S, S # {}, S \subseteq DOMAIN registry
    PROVE  \E k \in S : \A j \in S : registry[j].batch <= registry[k].batch
<1> DEFINE age == [k \in S |-> registry[k].batch]
<1>1. age \in [S -> 1..Len(batches)] /\ Len(batches) \in Nat
  BY EntryOK DEF TypeInv, DiskOK
<1> HIDE DEF age
<1>2. PICK k \in S : \A j \in S : age[j] <= age[k]
  BY <1>1, EldestOf
<1>3. \A j \in S : age[j] = registry[j].batch
  BY DEF age
<1> QED BY <1>2, <1>3

RoundsOf(reg, f) == {k \in DOMAIN reg : k.file = f /\ k.kind # "original"}
Ranked(reg, f) ==
    LET live == {k \in RoundsOf(reg, f) : reg[k].status = "completed" \/ InFlight(reg[k])}
        spent == {k \in RoundsOf(reg, f) : is_dead_retry(k, reg[k])}
    IN IF live # {} THEN live ELSE spent
Standing(reg, f) == {k \in Ranked(reg, f) : \A j \in Ranked(reg, f) : reg[j].batch <= reg[k].batch}

\* What stands over an entry is of its file.
LEMMA SupersededOf ==
    ASSUME NEW reg, NEW f \in Files, NEW j, j.file = f
    PROVE  j \in superseded_entries(reg)
              <=> Ranked(reg, f) # {} /\ j \in ({Original(f)} \cup RoundsOf(reg, f)) \ Standing(reg, f)
<1> DEFINE over(g) == ({Original(g)} \cup RoundsOf(reg, g)) \ Standing(reg, g)
<1>1. superseded_entries(reg) = UNION {over(g) : g \in {h \in Files : Ranked(reg, h) # {}}}
  BY Zenon DEF superseded_entries, Ranked, Standing, RoundsOf
<1>2. \A g : \A i \in over(g) : i.file = g
  BY DEF RoundsOf, Original, Key
<1> HIDE DEF over
<1>3. j \in superseded_entries(reg) <=> Ranked(reg, f) # {} /\ j \in over(f)
  BY <1>1, <1>2
<1> QED BY <1>3 DEF over

\* What stands over what in a file is for the entries of the file to say.
LEMMA SupersededAlike ==
    ASSUME NEW reg, NEW other, NEW f \in Files,
           \A j : j.file = f => (j \in DOMAIN reg <=> j \in DOMAIN other),
           \A j \in DOMAIN reg : j.file = f => other[j] = reg[j]
    PROVE  \A j : j.file = f => (j \in superseded_entries(reg) <=> j \in superseded_entries(other))
<1>1. RoundsOf(reg, f) = RoundsOf(other, f) /\ \A j \in RoundsOf(reg, f) : other[j] = reg[j]
  BY DEF RoundsOf
<1>2. Ranked(reg, f) = Ranked(other, f)
  BY <1>1 DEF Ranked
<1>3. \A j \in Ranked(reg, f) : j \in RoundsOf(reg, f)
  BY DEF Ranked
<1>4. Standing(reg, f) = Standing(other, f)
  BY <1>1, <1>2, <1>3 DEF Standing
<1> QED BY <1>1, <1>2, <1>4, SupersededOf

-----------------------------------------------------------------------------
(* The entries *)

\* No batch is sent.
LEMMA EntriesStay ==
    ASSUME EntriesInv, Len(batches') = Len(batches),
           \A n \in 1..Len(batches) : batches'[n].status = batches[n].status \/ batches'[n].status \notin Dead
                                      \/ dead' # 0,
           dead' = 0 => dead = 0, deaths' = 0 => deaths = 0,
           \A j \in DOMAIN registry' :
              /\ j \in DOMAIN registry /\ registry'[j].batch = registry[j].batch
              /\ registry'[j].collected = registry[j].collected \/ j.kind = "original",
           deaths' = 0 => \A f \in Files : recovery'[f] = recovery[f] \/ Rounds(f)' = {}
    PROVE  EntriesInv'
<1> USE DEF EntriesInv
<1>1. EntriesApart'
  BY DEF EntriesApart
<1>2. \A f \in Files : Rounds(f)' \subseteq Rounds(f)
  BY DEF Rounds
<1>3. StatesSaved'
  BY <1>2 DEF StatesSaved
<1>4. RepairsLast'
  <2> SUFFICES ASSUME dead' = 0 PROVE RepairsLast'
    BY DEF RepairsLast
  <2>1. \A n \in 1..Len(batches') : batches'[n].status \notin Dead
    BY DEF RepairsLast
  <2>2. \A f \in Files : \A j \in Rounds(f)' : registry'[j].batch = registry[j].batch
    BY DEF Rounds
  <2> QED BY <1>2, <2>1, <2>2 DEF RepairsLast
<1> QED BY <1>1, <1>3, <1>4

\* A batch is sent, and is named or not.
LEMMA EntriesSent ==
    ASSUME TypeInv, EntriesInv, NEW f \in Files, NEW kind, NEW STATE holds, Takes(f, kind, holds),
           NEW key, key.file = f, dead' = dead, deaths' = 0 => deaths = 0,
           \A j \in DOMAIN registry' :
              \/ j = key /\ registry'[j] = NewEntry
              \/ j \in DOMAIN registry /\ registry'[j] = registry[j],
           \A g \in Files : g # f => recovery'[g] = recovery[g],
           deaths' = 0 => \/ key.kind = "original" /\ recovery'[f] = recovery[f]
                          \/ Rounds(f)' \subseteq {key} /\ recovery'[f] # None,
           dead = 0 /\ key.kind = "retry" => \A j \in Rounds(f) : j.kind # "repair"
    PROVE  EntriesInv'
<1> USE DEF EntriesInv
<1>1. /\ Len(batches) \in Nat /\ Len(batches') = Len(batches) + 1
      /\ \A n \in 1..Len(batches) : batches'[n] = batches[n]
      /\ batches'[Len(batches) + 1].status = "out"
  BY ListGrows
<1>2. \A j \in DOMAIN registry' :
         \/ j = key /\ registry'[j].batch = Len(batches) + 1 /\ registry'[j].collected = FALSE
         \/ /\ j \in DOMAIN registry /\ registry'[j] = registry[j]
            /\ registry[j].batch \in 1..Len(batches)
  BY EntryOK DEF NewEntry
<1>3. EntriesApart'
  BY <1>1, <1>2 DEF EntriesApart
<1>4. \A g \in Files : \A j \in Rounds(g)' :
         \/ j = key /\ g = f /\ registry'[j].batch = Len(batches) + 1
         \/ j \in Rounds(g) /\ registry'[j] = registry[j] /\ registry[j].batch \in 1..Len(batches)
  BY <1>2 DEF Rounds
<1>5. StatesSaved'
  <2> SUFFICES ASSUME deaths' = 0, NEW g \in Files, NEW j \in Rounds(g)', NEW k \in Rounds(g)'
               PROVE  j = k /\ recovery'[g] # None
    BY DEF StatesSaved
  <2>1. CASE g # f
    BY <1>4, <2>1 DEF StatesSaved
  <2>2. CASE g = f /\ Rounds(f)' \subseteq {key} /\ recovery'[f] # None
    BY <2>2
  <2>3. CASE g = f /\ key.kind = "original" /\ recovery'[f] = recovery[f]
    <3>1. j \in Rounds(f) /\ k \in Rounds(f)
      BY <1>4, <2>3 DEF Rounds
    <3> QED BY <2>3, <3>1 DEF StatesSaved
  <2> QED BY <2>1, <2>2, <2>3
<1>6. RepairsLast'
  <2> SUFFICES ASSUME dead = 0 PROVE RepairsLast'
    BY DEF RepairsLast
  <2>1. \A n \in 1..Len(batches') : batches'[n].status \notin Dead
    BY <1>1 DEF RepairsLast, Dead
  <2>2. ASSUME NEW g \in Files, NEW j \in Rounds(g)', NEW k \in Rounds(g)',
               j.kind = "retry", k.kind = "repair"
        PROVE  registry'[j].batch < registry'[k].batch
    <3>1. CASE j \in Rounds(g) /\ registry'[j] = registry[j] /\ registry[j].batch \in 1..Len(batches)
      <4>1. CASE k \in Rounds(g) /\ registry'[k] = registry[k]
        BY <2>2, <3>1, <4>1 DEF RepairsLast
      <4>2. CASE registry'[k].batch = Len(batches) + 1
        BY <1>1, <3>1, <4>2
      <4> QED BY <1>4, <4>1, <4>2
    <3>2. CASE j = key /\ g = f
      <4>1. k \in Rounds(f)
        BY <1>4, <2>2, <3>2
      <4> QED BY <2>2, <3>2, <4>1
    <3> QED BY <1>4, <3>1, <3>2
  <2> QED BY <2>1, <2>2 DEF RepairsLast
<1> QED BY <1>3, <1>5, <1>6

-----------------------------------------------------------------------------
(* Outside a pass *)

\* Nothing is sent, polled or removed.
LEMMA DiskRests ==
    ASSUME EntriesInv, RestAnswered, UNCHANGED <<batches, registry, recovery, mapped, job, deaths, dead>>,
           \A f \in Files : \A r \in job.inputs[f] : HasAnswer(f, r) => HasAnswer(f, r)'
    PROVE  EntriesInv' /\ RestAnswered'
<1>1. EntriesInv'
  BY EntriesStay
<1>2. RestAnswered'
  BY DEF RestAnswered
<1> QED BY <1>1, <1>2

\* A file with an answer for each of its records is settled.
LEMMA AnsweredIsDone ==
    /\ \A f \in Files : Unfinished(f) = {} => Done(f)
    /\ "answered" \in Verdicts /\ "failed" \in Verdicts /\ "exhausted" \in Verdicts
  BY DEF Unfinished, Done, HasAnswer, Verdicts

LEMMA BeginRunSettles == ASSUME TypeInv, SettledInv, BeginRun PROVE SettledInv'
<1> USE DEF SettledInv
<1>1. /\ action' = "submitting" /\ todo' = Files
      /\ UNCHANGED <<batches, registry, recovery, mapped, job, deaths, dead>>
      /\ outcome' = [f \in Files |-> [r \in job.inputs[f] |->
            IF HasAnswer(f, r) THEN outcome[f][r] ELSE Without("none")]]
  BY DEF BeginRun, around
<1>2. \A f \in Files : \A r \in job.inputs[f] : HasAnswer(f, r) => HasAnswer(f, r)'
  BY <1>1 DEF HasAnswer
<1>3. EntriesInv' /\ RestAnswered'
  BY <1>1, <1>2, DiskRests
<1> QED BY <1>1, <1>3 DEF OwedOrDone, PassComes, Finished

\* With nothing owed, every file that was to be submitted has its answers.
LEMMA SubmittedSettles == ASSUME TypeInv, SettledInv, Submitted PROVE SettledInv'
<1> USE DEF SettledInv
<1>1. /\ action = "submitting" /\ todo = {}
      /\ action' = IF Owed(registry) THEN "batch_submitted" ELSE "completed"
      /\ UNCHANGED <<batches, registry, recovery, mapped, outcome, job, abandoned, deaths, dead>>
  BY DEF Submitted, around, disk
<1>2. EntriesInv' /\ RestAnswered'
  BY <1>1, DiskRests DEF HasAnswer
<1>3. \A f \in Files : Done(f) \/ Watched(f)
  BY <1>1, AnsweredIsDone DEF OwedOrDone
<1>4. \A f \in Files : Done(f)' = Done(f) /\ Watched(f)' = Watched(f)
  BY <1>1 DEF Done, Watched
<1>5. ~Owed(registry) => \A f \in Files : ~Watched(f)
  BY DEF Owed, Watched
<1> QED BY <1>1, <1>2, <1>3, <1>4, <1>5 DEF OwedOrDone, PassComes, Finished

LEMMA SendFileSettles ==
    ASSUME RoundsInv, SettledInv, NEW f \in Files, SendFile(f), action = "submitting"
    PROVE  SettledInv'
<1> USE DEF SettledInv
<1> DEFINE key == Original(f)
           row == [r \in job.inputs[f] |->
                     IF r \in Unfinished(f) THEN Without("deferred") ELSE outcome[f][r]]
<1>1. PICK writes \in 0..4 :
          /\ IF writes >= 1 THEN Takes(f, "original", Unfinished(f)) ELSE UNCHANGED batches
          /\ mapped' = IF writes >= 2 THEN [mapped EXCEPT ![f] = Unfinished(f)] ELSE mapped
          /\ registry' = IF writes >= 3 THEN Naming(key) ELSE registry
          /\ outcome' = IF writes = 4 THEN [outcome EXCEPT ![f] = row] ELSE outcome
          /\ Through(writes, 4, todo' = todo \ {f} /\ UNCHANGED <<action, pass>>)
          /\ UNCHANGED recovery
  BY DEF SendFile
<1>2. /\ deaths \in Nat /\ dead' = dead /\ job' = job /\ action' \in {"submitting", "stopped"}
      /\ writes = 4 => deaths' = deaths /\ todo' = todo \ {f}
      /\ writes # 4 => deaths' = deaths + 1 /\ action' = "stopped"
  BY <1>1 DEF Through, Stops, RoundsInv, TypeInv, AroundOK
<1>3. key.file = f /\ key.kind = "original" /\ \A g \in Files : g # f => Original(g) # key
  BY DEF Original, Key
<1>4. TypeInv /\ \A g \in Files : \A r \in job.inputs[g] : HasAnswer(g, r) => HasAnswer(g, r)'
  <2>1. TypeInv /\ outcome = [g \in Files |-> [r \in job.inputs[g] |-> outcome[g][r]]]
    BY DEF RoundsInv, TypeInv, DiskOK, OutcomeOK
  <2>2. \A r \in job.inputs[f] : HasAnswer(f, r) => row[r] = outcome[f][r]
    BY DEF Unfinished
  <2>3. outcome' = outcome \/ outcome' = [outcome EXCEPT ![f] = row]
    BY <1>1
  <2> HIDE DEF row
  <2> QED BY <2>1, <2>2, <2>3 DEF HasAnswer
<1>5. /\ \A j \in DOMAIN registry' :
            \/ j = key /\ registry'[j] = NewEntry
            \/ j \in DOMAIN registry /\ registry'[j] = registry[j]
      /\ \A j \in DOMAIN registry : j # key => j \in DOMAIN registry' /\ registry'[j] = registry[j]
      /\ writes = 4 => key \in DOMAIN registry' /\ registry'[key] = NewEntry
  BY <1>1 DEF Naming
<1>6. EntriesInv'
  <2>1. CASE writes = 0
    <3>1. UNCHANGED <<batches, registry, recovery>>
      BY <1>1, <2>1
    <3>2. deaths' = 0 => deaths = 0
      BY <1>2
    <3> QED BY <1>2, <3>1, <3>2, EntriesStay
  <2>2. CASE writes # 0
    <3>1. Takes(f, "original", Unfinished(f)) /\ recovery' = recovery
      BY <1>1, <2>2
    <3>2. deaths' = 0 => deaths = 0
      BY <1>2
    <3> HIDE DEF key
    <3> QED BY <1>2, <1>3, <1>4, <1>5, <3>1, <3>2, EntriesSent
  <2> QED BY <2>1, <2>2
<1>7. RestAnswered'
  <2> SUFFICES ASSUME NEW g \in Files, Original(g) \in DOMAIN registry',
                      NEW r \in job.inputs[g], r \notin mapped'[g]
               PROVE  HasAnswer(g, r)
    BY <1>2, <1>4 DEF RestAnswered
  <2>1. mapped \in [Files -> SUBSET Records]
    BY <1>4 DEF TypeInv, DiskOK
  <2>2. CASE g = f /\ writes >= 2
    <3>1. r \notin Unfinished(f)
      BY <1>1, <2>1, <2>2
    <3> QED BY <2>2, <3>1 DEF Unfinished
  <2>3. CASE g # f \/ ~(writes >= 2)
    <3>1. mapped'[g] = mapped[g] /\ Original(g) \in DOMAIN registry
      <4>1. CASE g # f
        BY <1>1, <1>3, <1>5, <2>1, <4>1
      <4>2. CASE ~(writes >= 2)
        BY <1>1, <4>2
      <4> QED BY <2>3, <4>1, <4>2
    <3> QED BY <3>1 DEF RestAnswered
  <2> QED BY <2>2, <2>3
<1>8. OwedOrDone'
  <2> SUFFICES ASSUME writes = 4, NEW g \in Files, g \notin todo'
               PROVE  Unfinished(g)' = {} \/ Watched(g)'
    BY <1>2 DEF OwedOrDone
  <2>1. CASE g = f
    BY <1>5, <2>1 DEF Watched, NewEntry
  <2>2. CASE g # f
    <3>1. Unfinished(g) = {} \/ Watched(g)
      BY <1>2, <2>2 DEF OwedOrDone
    <3>2. Unfinished(g) = {} => Unfinished(g)' = {}
      BY <1>2, <1>4 DEF Unfinished
    <3>3. Watched(g) => Watched(g)'
      BY <1>3, <1>5, <2>2 DEF Watched
    <3> QED BY <3>1, <3>2, <3>3
  <2> QED BY <2>1, <2>2
<1> QED BY <1>2, <1>6, <1>7, <1>8 DEF PassComes, Finished

LEMMA SubmitSettles ==
    ASSUME RoundsInv, SettledInv, NEW f \in Files, submit_batch_job(f)
    PROVE  SettledInv'
<1> USE DEF SettledInv
<1>1. action = "submitting" /\ (SkipFile(f) \/ SendFile(f) \/ RefuseFile(f))
  BY DEF submit_batch_job
<1>2. ASSUME UNCHANGED <<disk, around>> PROVE EntriesInv' /\ RestAnswered'
  BY <1>2, DiskRests DEF HasAnswer, disk, around
<1>3. CASE SkipFile(f)
  <2>1. Reuses(f) \/ Unfinished(f) = {}
    BY <1>3 DEF SkipFile
  <2>2. todo' = todo \ {f} /\ action' = action /\ UNCHANGED <<disk, around>>
    BY <1>3 DEF SkipFile
  <2>3. Reuses(f) => Watched(f)
    <3>1. Original(f) \in DOMAIN registry => registry[Original(f)].status \in Conditions
      BY EntryOK DEF RoundsInv
    <3> QED BY <3>1 DEF Reuses, Watched, Awaits, InFlight, Conditions, RoundsInv, NamedInv, EntriesTell
  <2>4. \A g \in Files : Unfinished(g)' = Unfinished(g) /\ Watched(g)' = Watched(g)
    BY <2>2 DEF Unfinished, HasAnswer, Watched, disk, around
  <2>5. OwedOrDone'
    BY <1>1, <2>1, <2>2, <2>3, <2>4 DEF OwedOrDone
  <2> QED BY <1>1, <1>2, <2>2, <2>5 DEF PassComes, Finished
<1>4. CASE RefuseFile(f)
  <2>1. action' = "stopped" /\ UNCHANGED <<disk, around>>
    BY <1>4 DEF RefuseFile, Stops
  <2> QED BY <1>2, <2>1 DEF OwedOrDone, PassComes, Finished
<1> QED BY <1>1, <1>3, <1>4, SendFileSettles

\* The provider ends a batch, or gives it up.
LEMMA ProviderSettles == ASSUME RoundsInv, SettledInv, Provider PROVE SettledInv'
<1> USE DEF SettledInv
<1>1. PICK n \in DOMAIN batches : Completes(n) \/ Fails(n)
  BY DEF Provider
<1>2. UNCHANGED <<registry, recovery, mapped, outcome, action, todo, pass, job, abandoned, deaths>>
  BY <1>1 DEF Completes, Fails, around
<1>3. /\ Len(batches') = Len(batches)
      /\ \A m \in 1..Len(batches) : batches'[m].status = batches[m].status
                                    \/ batches'[m].status \notin Dead \/ dead' # 0
      /\ dead' = 0 => dead = 0
  <2>1. batches \in Seq(Taken) /\ Len(batches) \in Nat /\ dead \in Nat
    BY DEF RoundsInv, TypeInv, DiskOK, AroundOK
  <2>2. CASE Completes(n)
    <3>1. PICK good, poor : Becomes(n, "completed", good, poor)
      BY <2>2 DEF Completes
    <3> DEFINE b == [batches[n] EXCEPT !.status = "completed", !.good = good, !.poor = poor]
    <3>2. batches' = [batches EXCEPT ![n] = b]
      BY <3>1 DEF Becomes
    <3>3. b.status = "completed" /\ n \in 1..Len(batches)
      BY <2>1 DEF Taken
    <3>4. dead' = dead
      BY <2>2 DEF Completes, around
    <3> HIDE DEF b
    <3>5. Len(batches') = Len(batches) /\ \A m \in 1..Len(batches) : m # n => batches'[m] = batches[m]
      BY <2>1, <3>2
    <3>6. batches'[n].status \notin Dead
      BY <2>1, <3>2, <3>3 DEF Dead
    <3> QED BY <3>4, <3>5, <3>6
  <2>3. CASE Fails(n)
    <3>1. PICK status \in Dead : Becomes(n, status, {}, {})
      BY <2>3 DEF Fails
    <3>2. Len(batches') = Len(batches)
      BY <2>1, <3>1 DEF Becomes
    <3>3. dead' = dead + 1
      BY <2>3 DEF Fails
    <3> QED BY <2>1, <3>2, <3>3
  <2> QED BY <1>1, <2>2, <2>3
<1>4. EntriesInv'
  BY <1>2, <1>3, EntriesStay
<1>5. RestAnswered' /\ OwedOrDone'
  BY <1>2 DEF RestAnswered, OwedOrDone, HasAnswer, Unfinished, Watched, Done
<1>6. PassComes'
  <2>1. \A f : Comes(f)' = Comes(f) /\ Rounds(f)' = Rounds(f)
    BY <1>2 DEF Comes, Done, Underway, Stands, Rounds, HandedBack
  <2> QED BY <1>2, <1>3, <2>1 DEF PassComes
<1>7. Finished'
  BY <1>2, <1>3 DEF Finished, Done
<1> QED BY <1>4, <1>5, <1>6, <1>7

\* When a pass begins, what a file is owed is in its own entry, or in the newest round of it.
LEMMA PassOpens ==
    ASSUME RoundsInv, SettledInv, NEW STATE reg, DOMAIN reg = DOMAIN registry, BeginPass(reg),
           registry' = reg, UNCHANGED <<batches, outcome, job, abandoned, deaths, dead>>,
           action = "batch_submitted",
           \A k \in DOMAIN reg : /\ reg[k].batch = registry[k].batch
                                 /\ reg[k].status = Named(k).status /\ ~InFlight(reg[k])
    PROVE  PassComes'
<1> USE DEF SettledInv
<1> DEFINE over == superseded_entries(reg)
<1>1. /\ pass'.superseded = over /\ todo' = DOMAIN reg \ over
      /\ TypeInv /\ Len(batches) \in Nat
  BY DEF BeginPass, NewPass, RoundsInv, TypeInv, DiskOK
<1>2. ASSUME NEW k \in DOMAIN reg
      PROVE  /\ reg[k].status \in {"completed"} \cup Dead /\ reg[k].batch \in 1..Len(batches)
             /\ k.kind \in Kinds /\ k.file \in Files
             /\ dead = 0 => reg[k].status = "completed"
  <2>1. /\ reg[k].status \in Conditions /\ reg[k].batch \in 1..Len(batches)
        /\ k.kind \in Kinds /\ k.file \in Files
    BY <1>1, EntryOK
  <2>2. dead = 0 => reg[k].status \notin Dead
    BY <2>1 DEF EntriesInv, RepairsLast, Named
  <2> QED BY <2>1, <2>2 DEF InFlight, Conditions
  \* where a round stands, it is the newest of all
<1>3. ASSUME NEW f \in Files, deaths = 0 \/ dead = 0, NEW k \in Standing(reg, f)
      PROVE  /\ k \in RoundsOf(reg, f)
             /\ \A j \in RoundsOf(reg, f) \ {k} : reg[j].batch < reg[k].batch
  <2>1. k \in RoundsOf(reg, f) /\ k \in Ranked(reg, f)
    BY DEF Standing, Ranked
  <2>2. ASSUME NEW j \in RoundsOf(reg, f), j # k PROVE reg[j].batch < reg[k].batch
    <3>1. deaths # 0
      BY <2>1, <2>2 DEF EntriesInv, StatesSaved, Rounds, RoundsOf
    <3>2. \A i \in RoundsOf(reg, f) : reg[i].status = "completed"
      BY <1>2, <1>3, <3>1 DEF RoundsOf
    <3>3. j \in Ranked(reg, f)
      BY <2>2, <3>2 DEF Ranked
    <3>4. reg[j].batch <= reg[k].batch /\ reg[j].batch # reg[k].batch
      BY <2>1, <2>2, <3>3 DEF Standing, RoundsOf, EntriesInv, EntriesApart
    <3> QED BY <1>2, <2>1, <2>2, <3>4 DEF RoundsOf
  <2> QED BY <2>1, <2>2
<1>4. ASSUME NEW f \in Files, Ranked(reg, f) # {} PROVE Standing(reg, f) # {}
  <2>1. Ranked(reg, f) \subseteq DOMAIN registry
    BY DEF Ranked, RoundsOf
  <2>2. PICK k \in Ranked(reg, f) : \A j \in Ranked(reg, f) : registry[j].batch <= registry[k].batch
    BY <1>1, <1>4, <2>1, NewestOf
  <2> QED BY <2>1, <2>2 DEF Standing
<1>5. todo' \cap pass'.superseded = {}
  BY <1>1
<1>6. ASSUME dead = 0, NEW k \in todo' \cap DOMAIN reg, k.kind # "original",
             NEW j \in DOMAIN reg, j.file = k.file, j.kind # "original"
      PROVE  reg[j].batch <= reg[k].batch
  <2>1. k \in RoundsOf(reg, k.file) /\ j \in RoundsOf(reg, k.file) /\ k.file \in Files
    BY <1>2, <1>6 DEF RoundsOf
  <2>2. Ranked(reg, k.file) # {}
    BY <1>2, <1>6, <2>1 DEF Ranked
  <2>3. k \in Standing(reg, k.file)
    BY <1>1, <1>6, <2>1, <2>2, SupersededOf
  <2>4. j = k \/ reg[j].batch < reg[k].batch
    BY <1>3, <1>6, <2>1, <2>3
  <2> QED BY <1>2, <2>4
<1>7. ASSUME NEW f \in Files, deaths = 0 \/ dead = 0 PROVE Comes(f)'
  <2>1. Done(f)' = Done(f) /\ (Done(f) \/ Watched(f))
    BY DEF Done, OwedOrDone
  <2>2. CASE Original(f) \in over
    <3>1. Original(f).file = f
      BY DEF Original, Key
    <3>2. Ranked(reg, f) # {}
      BY <2>2, <3>1, SupersededOf
    <3>3. PICK k \in Standing(reg, f) : TRUE
      BY <1>4, <3>2
    <3>4. /\ k \in RoundsOf(reg, f)
          /\ \A j \in RoundsOf(reg, f) \ {k} : reg[j].batch < reg[k].batch
      BY <1>3, <1>7, <3>3
    <3>5. k \notin over
      BY <3>3, <3>4, SupersededOf DEF RoundsOf
    <3>6. \A j \in RoundsOf(reg, f) \ {k} : j \in over
      <4> SUFFICES ASSUME NEW j \in RoundsOf(reg, f), j # k PROVE j \in over
        OBVIOUS
      <4>1. j \notin Standing(reg, f)
        <5> SUFFICES ASSUME j \in Standing(reg, f) PROVE FALSE
          OBVIOUS
        <5>1. reg[k].batch < reg[j].batch /\ reg[j].batch < reg[k].batch
          BY <1>3, <1>7, <3>4
        <5> QED BY <1>2, <3>4, <5>1 DEF RoundsOf
      <4> QED BY <3>2, <4>1, SupersededOf DEF RoundsOf
    <3>7. reg[k].status = "completed" \/ is_dead_retry(k, reg[k])
      BY <1>2, <3>3 DEF Standing, Ranked, RoundsOf, InFlight
    <3>8. k \in todo' /\ Stands(f, k)'
      BY <1>1, <2>2, <3>4, <3>5, <3>6, <3>7 DEF Stands, Rounds, RoundsOf
    <3> QED BY <3>8 DEF Comes
  <2>3. CASE Original(f) \notin over
    BY <1>1, <2>1, <2>3 DEF Comes, Watched
  <2> QED BY <2>2, <2>3
<1>8. ASSUME dead = 0, NEW k \in todo' \cap DOMAIN registry', k.kind # "original",
             NEW j \in Rounds(k.file)'
      PROVE  registry'[j].batch <= registry'[k].batch
  BY <1>6, <1>8 DEF Rounds
<1> QED BY <1>5, <1>7, <1>8 DEF PassComes

LEMMA PollSettles == ASSUME RoundsInv, SettledInv, Poll PROVE SettledInv'
<1> USE DEF SettledInv
<1>1. /\ action = "batch_submitted"
      /\ UNCHANGED <<batches, recovery, mapped, outcome, job, abandoned, deaths, dead>>
  BY DEF Poll, around
<1>2. ASSUME NEW k \in DOMAIN registry
      PROVE  /\ registry[k].status \in Conditions /\ registry[k] \in Entries
             /\ registry[k].status # "out" => registry[k].status = Named(k).status
  BY EntryOK DEF RoundsInv, NamedInv, EntriesTell, TypeInv, DiskOK, RegistryOK
<1>3. DOMAIN polled = DOMAIN registry
  BY DEF polled
<1>4. ASSUME NEW k \in DOMAIN registry
      PROVE  /\ polled[k].batch = registry[k].batch /\ polled[k].collected = registry[k].collected
             /\ polled[k].status = Named(k).status
  BY <1>2 DEF polled, Entries, InFlight, Dead
<1>5. /\ DOMAIN registry' = DOMAIN registry
      /\ \A k \in DOMAIN registry : /\ registry'[k].batch = registry[k].batch
                                    /\ registry'[k].collected = registry[k].collected
  <2>1. registry' = registry \/ registry' = polled
    BY DEF Poll, overall_status
  <2> QED BY <1>3, <1>4, <2>1
<1>6. EntriesInv'
  BY <1>1, <1>5, EntriesStay
<1>7. RestAnswered' /\ (action' # "submitting" => OwedOrDone')
  <2>1. \A f \in Files : Watched(f)' = Watched(f) /\ Done(f)' = Done(f)
    BY <1>1, <1>5 DEF Watched, Done, Original, Key
  <2> QED BY <1>1, <1>5, <2>1 DEF RestAnswered, HasAnswer, OwedOrDone
<1>8. action' \in {"stopped", "batch_submitted", "checking_batch"}
  <2>1. overall_status(registry) \in {"completed", "in_progress", "partial_failed", "cancelled", "no_batches"}
    BY DEF overall_status
  <2> QED BY <1>1, <2>1 DEF Poll, Stops, BeginPass
<1>9. ASSUME action' = "checking_batch" PROVE PassComes'
  <2>1. \/ overall_status(registry) = "completed" /\ BeginPass(registry) /\ registry' = registry
        \/ registry' = polled /\ BeginPass(polled) /\ ~\E k \in DOMAIN polled : InFlight(polled[k])
    BY <1>1, <1>9 DEF Poll, Stops, overall_status
  <2>2. CASE overall_status(registry) = "completed" /\ BeginPass(registry) /\ registry' = registry
    <3>1. ASSUME NEW k \in DOMAIN registry
          PROVE  registry[k].status = Named(k).status /\ ~InFlight(registry[k])
      <4>1. ~InFlight(registry[k])
        BY <2>2 DEF overall_status, InFlight, Settled, Dead
      <4> QED BY <1>2, <4>1 DEF InFlight, Dead
    <3> QED BY <1>1, <2>2, <3>1, PassOpens
  <2>3. CASE registry' = polled /\ BeginPass(polled) /\ ~\E k \in DOMAIN polled : InFlight(polled[k])
    <3> HIDE DEF SettledInv
    <3>1. \A k \in DOMAIN polled : /\ polled[k].batch = registry[k].batch
                                   /\ polled[k].status = Named(k).status /\ ~InFlight(polled[k])
      BY <1>3, <1>4, <2>3
    <3> QED BY <1>1, <1>3, <2>3, <3>1, PassOpens
  <2> QED BY <2>1, <2>2, <2>3
<1> QED BY <1>6, <1>7, <1>8, <1>9 DEF PassComes, Finished

\* An action completes when nothing is out, nothing is left unread and nothing handed back.
LEMMA EndPassSettles == ASSUME RoundsInv, SettledInv, EndPass PROVE SettledInv'
<1> USE DEF SettledInv
<1>1. action = "checking_batch" /\ todo = {} /\ UNCHANGED <<disk, around>>
  BY DEF EndPass
<1>2. EntriesInv' /\ RestAnswered'
  BY <1>1, DiskRests DEF HasAnswer, disk, around
<1>3. \A f : Done(f)' = Done(f) /\ Watched(f)' = Watched(f)
  BY <1>1 DEF Done, Watched, disk, around
<1>4. action' \in {"stopped", "completed", "batch_submitted"}
  BY DEF EndPass, Stops
<1>5. ASSUME action' = "completed", deaths = 0 \/ dead = 0, NEW f \in Files \ abandoned
      PROVE  Done(f)
  <2>1. overall_status(registry) = "completed" /\ ~(pass.unread \/ HandedBack # {})
    BY <1>5 DEF EndPass, Stops
  <2>2. ~Underway(f)
    BY <2>1 DEF overall_status, Underway, Settled, Dead
  <2>3. Comes(f)
    BY <1>1, <1>5 DEF PassComes
  <2> QED BY <1>1, <2>1, <2>2, <2>3 DEF Comes
<1>6. OwedOrDone'
  BY <1>1, <1>3, <1>4 DEF OwedOrDone
<1>7. Finished'
  BY <1>1, <1>3, <1>5 DEF Finished, around
<1> QED BY <1>2, <1>4, <1>6, <1>7 DEF PassComes

-----------------------------------------------------------------------------
(* A step of a pass *)

\* What comes to a file is not undone by reading another entry.
LEMMA StillComes ==
    ASSUME NEW f \in Files, NEW k, Comes(f), job' = job, outcome'[f] = outcome[f],
           \A j : j.file = f => (j \in DOMAIN registry <=> j \in DOMAIN registry'),
           \A j \in DOMAIN registry : j.file = f => registry'[j] = registry[j],
           todo' = todo \ {k}, pass'.superseded = pass.superseded, pass.unread => pass'.unread,
           k # Original(f), ~Stands(f, k)
    PROVE  Comes(f)'
<1>1. Rounds(f)' = Rounds(f) /\ \A j \in Rounds(f) : registry'[j] = registry[j]
  BY DEF Rounds
<1>2. Done(f)' = Done(f)
  BY DEF Done
<1>3. Underway(f) => Underway(f)'
  BY DEF Underway
<1>4. \A j \in todo : Stands(f, j) => j \in todo' /\ Stands(f, j)'
  BY <1>1 DEF Stands
<1>5. \A j \in HandedBack : j.file = f => j \in HandedBack'
  <2> SUFFICES ASSUME NEW j \in HandedBack, j.file = f PROVE j \in HandedBack'
    OBVIOUS
  <2>1. j \in superseded_entries(registry) <=> j \in superseded_entries(registry')
    BY SupersededAlike
  <2> QED BY <2>1 DEF HandedBack
<1> QED BY <1>2, <1>3, <1>4, <1>5 DEF Comes

\* A step of a pass at k is right when it is right about the file of k.
LEMMA PassGoesOn ==
    ASSUME RoundsInv, TypeInv', SettledInv, action = "checking_batch", action' = action,
           NEW f \in Files, NEW k \in todo, k.file = f, Handled(k),
           UNCHANGED <<job, deaths, dead>>, abandoned \subseteq abandoned',
           pass'.superseded = pass.superseded, pass.unread => pass'.unread,
           \A g \in Files : g # f => outcome'[g] = outcome[g],
           \A j : j.file # f => (j \in DOMAIN registry <=> j \in DOMAIN registry'),
           \A j \in DOMAIN registry : j.file # f => registry'[j] = registry[j],
           Done(f)' \/ Watched(f)',
           (deaths = 0 \/ dead = 0) /\ f \notin abandoned' => Comes(f)',
           \/ \A j \in Rounds(f)' : j \in Rounds(f) /\ registry'[j].batch = registry[j].batch
           \/ \A i, j \in Rounds(f)' : i = j
    PROVE  OwedOrDone' /\ PassComes' /\ Finished'
<1> USE DEF SettledInv
<1>1. todo' = todo \ {k}
  BY DEF Handled
<1>2. ASSUME NEW g \in Files, g # f PROVE Done(g)' \/ Watched(g)'
  BY <1>2 DEF OwedOrDone, Done, Watched, Original, Key
<1>3. OwedOrDone'
  BY <1>2 DEF OwedOrDone
<1>4. ASSUME NEW g \in Files, g # f, g \notin abandoned', deaths = 0 \/ dead = 0 PROVE Comes(g)'
  <2>1. Comes(g) /\ k # Original(g) /\ ~Stands(g, k)
    BY <1>4 DEF PassComes, Original, Key, Stands, Rounds
  <2> QED BY <1>1, <1>4, <2>1, StillComes
<1>5. ASSUME dead = 0, NEW j \in todo' \cap DOMAIN registry', j.kind # "original",
             NEW i \in Rounds(j.file)'
      PROVE  registry'[i].batch <= registry'[j].batch
  <2>1. i.file = j.file /\ j \in Rounds(j.file)' /\ i \in DOMAIN registry'
    BY <1>5 DEF Rounds
  <2>2. registry'[j].batch \in Nat
    BY <1>5 DEF TypeInv, DiskOK, RegistryOK, Entries
  <2>3. CASE /\ j \in DOMAIN registry /\ i \in Rounds(j.file) /\ registry'[j].batch = registry[j].batch
             /\ registry'[i].batch = registry[i].batch
    BY <1>1, <1>5, <2>3 DEF PassComes
  <2>4. CASE i = j
    BY <2>2, <2>4
  <2>5. CASE j.file # f
    <3>1. j \in DOMAIN registry /\ i \in Rounds(j.file)
      BY <1>5, <2>1, <2>5 DEF Rounds
    <3> QED BY <2>1, <2>3, <2>5, <3>1 DEF Rounds
  <2>6. CASE j.file = f
    BY <1>5, <2>1, <2>3, <2>4, <2>6 DEF Rounds
  <2> QED BY <2>5, <2>6
<1>6. PassComes'
  <2>1. todo' \cap pass'.superseded = {}
    BY <1>1 DEF PassComes
  <2> QED BY <1>4, <1>5, <2>1 DEF PassComes
<1> QED BY <1>3, <1>6 DEF Finished

LEMMA RestStays ==
    ASSUME RestAnswered, UNCHANGED <<mapped, job>>,
           \A g \in Files : Original(g) \in DOMAIN registry' => Original(g) \in DOMAIN registry,
           \A g \in Files : \A r \in job.inputs[g] \ mapped[g] : outcome'[g][r] = outcome[g][r]
    PROVE  RestAnswered'
BY DEF RestAnswered, HasAnswer

\* The records of the file's context map get their verdicts, and the rest have answers.
LEMMA RowSettles ==
    ASSUME TypeInv, RestAnswered, NEW f \in Files, Original(f) \in DOMAIN registry, job' = job,
           NEW row, \A r \in job.inputs[f] \cap mapped[f] : row[r].is \in Verdicts,
           \A r \in job.inputs[f] \ mapped[f] : row[r] = outcome[f][r],
           outcome' = [outcome EXCEPT ![f] = row]
    PROVE  /\ Done(f)' /\ \A g \in Files : g # f => outcome'[g] = outcome[g]
           /\ \A g \in Files : \A r \in job.inputs[g] \ mapped[g] : outcome'[g][r] = outcome[g][r]
<1>1. outcome = [g \in Files |-> outcome[g]]
  BY DEF TypeInv, DiskOK, OutcomeOK
<1>2. outcome'[f] = row /\ \A g \in Files : g # f => outcome'[g] = outcome[g]
  BY <1>1
<1>3. \A r \in job.inputs[f] \ mapped[f] : row[r].is \in Verdicts
  BY AnsweredIsDone DEF RestAnswered, HasAnswer
<1> QED BY <1>2, <1>3 DEF Done

\* An entry is left: it was not what came to its file, or something is left unread.
LEMMA LeavesSettles ==
    ASSUME RoundsInv, TypeInv', SettledInv, action = "checking_batch",
           NEW f \in Files, NEW k \in todo, k.file = f, Leaves(k),
           pass'.superseded = pass.superseded, pass.unread => pass'.unread,
           \/ Done(f) \/ pass'.unread \/ (k # Original(f) /\ ~Stands(f, k))
           \/ ~(deaths = 0 \/ dead = 0)
    PROVE  SettledInv'
<1> USE DEF SettledInv
<1>1. /\ UNCHANGED <<batches, registry, recovery, mapped, outcome, job, abandoned, deaths, dead, action>>
      /\ todo' = todo \ {k} /\ Handled(k)
  BY DEF Leaves, Handled, disk, around
<1>2. EntriesInv' /\ RestAnswered'
  BY <1>1, DiskRests DEF HasAnswer
<1>3. Done(f)' = Done(f) /\ Watched(f)' = Watched(f) /\ Rounds(f)' = Rounds(f)
  BY <1>1 DEF Done, Watched, Rounds
<1>4. Done(f)' \/ Watched(f)'
  BY <1>3 DEF OwedOrDone
<1>5. ASSUME deaths = 0 \/ dead = 0, f \notin abandoned' PROVE Comes(f)'
  <2>1. CASE k # Original(f) /\ ~Stands(f, k)
    <3>1. Comes(f)
      BY <1>1, <1>5 DEF PassComes
    <3> QED BY <1>1, <2>1, <3>1, StillComes
  <2>2. CASE Done(f) \/ pass'.unread
    BY <1>3, <2>2 DEF Comes
  <2> QED BY <1>5, <2>1, <2>2
<1> HIDE DEF SettledInv
<1>6. OwedOrDone' /\ PassComes' /\ Finished'
  BY <1>1, <1>3, <1>4, <1>5, PassGoesOn
<1> QED BY <1>2, <1>6 DEF SettledInv

\* The entry of a file is failed, and its records with it: all are settled.
LEMMA FailUnreadableSettles ==
    ASSUME RoundsInv, TypeInv', SettledInv, action = "checking_batch",
           NEW k \in todo \cap DOMAIN registry, k.kind = "original", FailUnreadable(k)
    PROVE  SettledInv'
<1> USE DEF SettledInv
<1> DEFINE f == k.file
           row == [r \in job.inputs[f] |-> IF r \in mapped[f] THEN Without("failed")
                                           ELSE outcome[f][r]]
<1>1. PICK writes \in 1..2 :
          /\ registry' = IF writes = 2 THEN [registry EXCEPT ![k].collected = TRUE] ELSE registry
          /\ Through(writes, 2, Handled(k) /\ UNCHANGED pass)
          /\ UNCHANGED <<batches, recovery, mapped>>
          /\ outcome' = [outcome EXCEPT ![f] = row]
  BY DEF FailUnreadable, Failed
<1>2. TypeInv /\ f \in Files /\ k = Original(f) /\ deaths \in Nat
  BY EntryOK DEF RoundsInv, TypeInv, AroundOK
<1>3. /\ UNCHANGED <<job, abandoned, dead>>
      /\ writes = 2 => deaths' = deaths /\ Handled(k) /\ UNCHANGED pass
      /\ writes # 2 => deaths' = deaths + 1 /\ action' = "stopped"
  BY <1>1 DEF Through, Stops
<1>4. /\ Done(f)' /\ \A g \in Files : g # f => outcome'[g] = outcome[g]
      /\ \A g \in Files : \A r \in job.inputs[g] \ mapped[g] : outcome'[g][r] = outcome[g][r]
  <2>1. \A r \in job.inputs[f] \cap mapped[f] : row[r].is \in Verdicts
    BY AnsweredIsDone DEF Without
  <2>2. \A r \in job.inputs[f] \ mapped[f] : row[r] = outcome[f][r]
    OBVIOUS
  <2> HIDE DEF row
  <2> QED BY <1>1, <1>2, <1>3, <2>1, <2>2, RowSettles
<1>5. /\ DOMAIN registry' = DOMAIN registry
      /\ \A j \in DOMAIN registry :
            /\ registry'[j].batch = registry[j].batch
            /\ registry'[j].collected = registry[j].collected \/ j = k
            /\ j # k => registry'[j] = registry[j]
  <2>1. registry \in [DOMAIN registry -> Entries]
    BY <1>2 DEF TypeInv, DiskOK, RegistryOK
  <2> QED BY <1>1, <2>1 DEF Entries
<1>6. RestAnswered'
  BY <1>1, <1>3, <1>4, <1>5, RestStays
<1>7. EntriesInv'
  <2>1. deaths' = 0 => deaths = 0
    BY <1>2, <1>3
  <2> QED BY <1>1, <1>3, <1>5, <2>1, EntriesStay
<1>8. OwedOrDone' /\ PassComes' /\ Finished'
  <2>1. CASE writes = 2
    <3>1. \A j \in Rounds(f)' : j \in Rounds(f) /\ registry'[j].batch = registry[j].batch
      BY <1>5 DEF Rounds
    <3>2. Comes(f)'
      BY <1>4 DEF Comes
    <3>3. action' = action
      BY <1>3, <2>1 DEF Handled
    <3> HIDE DEF SettledInv
    <3> QED BY <1>2, <1>3, <1>4, <1>5, <2>1, <3>1, <3>2, <3>3, PassGoesOn
  <2>2. CASE writes # 2
    BY <1>3, <2>2 DEF OwedOrDone, PassComes, Finished
  <2> QED BY <2>1, <2>2
<1> QED BY <1>6, <1>7, <1>8

\* An error in the middle: the file's own records are failed, or the file is given up.
LEMMA AbandonsSettles ==
    ASSUME RoundsInv, TypeInv', SettledInv, action = "checking_batch",
           NEW k \in todo \cap DOMAIN registry, Abandons(k)
    PROVE  SettledInv'
<1> USE DEF SettledInv
<1> DEFINE f == k.file
           row == [r \in job.inputs[f] |-> IF r \in mapped[f] THEN Without("failed")
                                           ELSE outcome[f][r]]
<1>1. /\ Handled(k) /\ UNCHANGED <<batches, registry, recovery, mapped, pass, job, deaths, dead, action>>
      /\ IF k.kind = "original" THEN outcome' = [outcome EXCEPT ![f] = row] /\ abandoned' = abandoned
         ELSE outcome' = outcome /\ abandoned' = abandoned \cup {f}
  BY DEF Abandons, Handled, Failed
<1>2. TypeInv /\ f \in Files /\ (k.kind = "original" => k = Original(f))
  BY EntryOK DEF RoundsInv
<1>3. /\ \A g \in Files : g # f => outcome'[g] = outcome[g]
      /\ \A g \in Files : \A r \in job.inputs[g] \ mapped[g] : outcome'[g][r] = outcome[g][r]
      /\ k.kind = "original" => Done(f)'
      /\ k.kind # "original" => Done(f)' = Done(f)
  <2>1. CASE k.kind = "original"
    <3>1. \A r \in job.inputs[f] \cap mapped[f] : row[r].is \in Verdicts
      BY AnsweredIsDone DEF Without
    <3>2. \A r \in job.inputs[f] \ mapped[f] : row[r] = outcome[f][r]
      OBVIOUS
    <3> HIDE DEF row
    <3> QED BY <1>1, <1>2, <2>1, <3>1, <3>2, RowSettles
  <2>2. CASE k.kind # "original"
    BY <1>1, <2>2 DEF Done
  <2> QED BY <2>1, <2>2
<1>4. RestAnswered'
  BY <1>1, <1>3, RestStays
<1>5. EntriesInv'
  BY <1>1, EntriesStay
<1>6. Done(f)' \/ Watched(f)'
  BY <1>1, <1>2, <1>3 DEF OwedOrDone, Watched
<1>7. f \notin abandoned' => Comes(f)'
  BY <1>1, <1>3 DEF Comes
<1>8. \A j \in Rounds(f)' : j \in Rounds(f) /\ registry'[j].batch = registry[j].batch
  BY <1>1 DEF Rounds
<1>9. OwedOrDone' /\ PassComes' /\ Finished'
  <2>1. abandoned \subseteq abandoned'
    BY <1>1
  <2> HIDE DEF SettledInv
  <2> QED BY <1>1, <1>2, <1>3, <1>6, <1>7, <1>8, <2>1, PassGoesOn
<1> QED BY <1>4, <1>5, <1>9

\* The file gets its output: every record it was sent for has its verdict.
LEMMA FinalizesSettles ==
    ASSUME NEW k, Read(k), TypeInv', SettledInv, NEW results, NEW exhausted,
           Original(k.file) \in DOMAIN registry, Finalizes(k, results, exhausted)
    PROVE  SettledInv'
<1> USE DEF SettledInv
<1> DEFINE f == k.file
           Result(r) == IF r \in DOMAIN results /\ results[r] # Lost THEN Stored(results[r])
                        ELSE Without(IF r \in exhausted THEN "exhausted" ELSE "failed")
           row == [r \in job.inputs[f] |-> IF r \in mapped[f] THEN Result(r) ELSE outcome[f][r]]
           marked == [registry EXCEPT ![Original(f)].collected = TRUE]
           rest == {j \in DOMAIN marked : j.file # f \/ j.kind = "original"}
<1>1. PICK writes \in 1..4 :
          /\ recovery' = [recovery EXCEPT ![f] = None]
          /\ outcome' = IF writes = 1 THEN outcome ELSE [outcome EXCEPT ![f] = row]
          /\ registry' = CASE writes <= 2 -> registry
                           [] writes = 3 -> marked
                           [] writes = 4 -> Restricted(marked, rest)
          /\ Through(writes, 4, Handled(k) /\ pass' = [pass EXCEPT !.wrote = TRUE])
          /\ UNCHANGED <<batches, mapped>>
  BY DEF Finalizes
<1>2. /\ RoundsInv /\ TypeInv /\ f \in Files /\ deaths \in Nat /\ action = "checking_batch"
      /\ k \in todo /\ pass \in Passes
  BY EntryOK DEF Read, RoundsInv, TypeInv, AroundOK, ProcessOK
<1>3. /\ UNCHANGED <<job, abandoned, dead>>
      /\ writes = 4 => /\ deaths' = deaths /\ Handled(k) /\ pass' = [pass EXCEPT !.wrote = TRUE]
                       /\ action' = action
      /\ writes # 4 => deaths' = deaths + 1 /\ action' = "stopped"
  BY <1>1 DEF Through, Stops, Handled
<1>4. /\ \A g \in Files : g # f => outcome'[g] = outcome[g]
      /\ \A g \in Files : \A r \in job.inputs[g] \ mapped[g] : outcome'[g][r] = outcome[g][r]
      /\ writes = 4 => Done(f)'
  <2>1. \A r \in job.inputs[f] \cap mapped[f] : row[r].is \in Verdicts
    BY AnsweredIsDone DEF Without, Stored
  <2>2. \A r \in job.inputs[f] \ mapped[f] : row[r] = outcome[f][r]
    OBVIOUS
  <2> HIDE DEF row
  <2>3. CASE writes # 1
    BY <1>1, <1>2, <1>3, <2>1, <2>2, <2>3, RowSettles
  <2>4. CASE writes = 1
    BY <1>1, <2>4
  <2> QED BY <2>3, <2>4
<1>5. /\ \A j \in DOMAIN registry' :
            /\ j \in DOMAIN registry /\ registry'[j].batch = registry[j].batch
            /\ registry'[j].collected = registry[j].collected \/ j = Original(f)
            /\ j # Original(f) => registry'[j] = registry[j]
      /\ \A j \in DOMAIN registry : j.file # f => j \in DOMAIN registry'
      /\ writes = 4 => \A j \in DOMAIN registry' : j.file = f => j.kind = "original"
  <2>1. registry \in [DOMAIN registry -> Entries]
    BY <1>2 DEF TypeInv, DiskOK, RegistryOK
  <2>2. /\ DOMAIN marked = DOMAIN registry
        /\ \A j \in DOMAIN registry :
              /\ marked[j].batch = registry[j].batch
              /\ marked[j].collected = registry[j].collected \/ j = Original(f)
              /\ j # Original(f) => marked[j] = registry[j]
    BY <2>1 DEF Entries
  <2>3. /\ registry' \in {registry, marked, Restricted(marked, rest)}
        /\ writes = 4 => registry' = Restricted(marked, rest)
    BY <1>1
  <2> HIDE DEF marked
  <2> QED BY <2>2, <2>3 DEF Restricted
<1>6. RestAnswered'
  BY <1>1, <1>3, <1>4, <1>5, RestStays
<1>7. Original(f).file = f /\ Original(f).kind = "original"
  BY DEF Original, Key
<1>8. EntriesInv'
  <2>1. deaths' = 0 => deaths = 0 /\ writes = 4
    BY <1>2, <1>3
  <2>2. recovery' = [recovery EXCEPT ![f] = None] /\ recovery = [g \in Files |-> recovery[g]]
    BY <1>1, <1>2 DEF TypeInv, DiskOK, RecoveryOK
  <2>3. writes = 4 => Rounds(f)' = {}
    BY <1>5 DEF Rounds
  <2>4. deaths' = 0 => \A g \in Files : recovery'[g] = recovery[g] \/ Rounds(g)' = {}
    BY <2>1, <2>2, <2>3
  <2> QED BY <1>1, <1>3, <1>5, <1>7, <2>1, <2>4, EntriesStay
<1>9. OwedOrDone' /\ PassComes' /\ Finished'
  <2>1. CASE writes = 4
    <3>1. pass'.superseded = pass.superseded /\ pass'.unread = pass.unread
      BY <1>2, <1>3, <2>1 DEF Passes
    <3>2. Comes(f)'
      BY <1>4, <2>1 DEF Comes
    <3>3. \A j \in Rounds(f)' : j \in Rounds(f) /\ registry'[j].batch = registry[j].batch
      BY <1>5 DEF Rounds
    <3>4. /\ \A j : j.file # f => (j \in DOMAIN registry <=> j \in DOMAIN registry')
          /\ \A j \in DOMAIN registry : j.file # f => registry'[j] = registry[j]
      BY <1>5, <1>7
    <3> HIDE DEF SettledInv
    <3> QED BY <1>2, <1>3, <1>4, <2>1, <3>1, <3>2, <3>3, <3>4, PassGoesOn
  <2>2. CASE writes # 4
    BY <1>3, <2>2 DEF OwedOrDone, PassComes, Finished
  <2> QED BY <2>1, <2>2
<1> QED BY <1>6, <1>8, <1>9

\* A retry is sent when nothing repairs the file, unless a batch was given up.
LEMMA RetryFirst ==
    ASSUME NEW k, Read(k), SettledInv, k.kind # "repair", dead = 0,
           NEW j \in Rounds(k.file), j.kind = "repair"
    PROVE  FALSE
<1> USE DEF Read, RoundsInv, SettledInv
<1>1. /\ k.file \in Files /\ k.kind \in Kinds /\ (k.kind = "original" => k = Original(k.file))
      /\ j \in DOMAIN registry /\ j.file = k.file /\ j.kind # "original"
      /\ registry[j].batch \in 1..Len(batches) /\ registry[k].batch \in 1..Len(batches)
      /\ Len(batches) \in Nat
  BY EntryOK DEF Rounds, TypeInv, DiskOK
<1>2. CASE k.kind = "original"
  <2>1. Named(j).status \in Dead
    BY <1>1, <1>2 DEF NamedInv, PassReads
  <2> QED BY <1>1, <2>1 DEF EntriesInv, RepairsLast, Named
<1>3. CASE k.kind = "retry"
  <2>1. registry[k].batch < registry[j].batch
    BY <1>1, <1>3 DEF EntriesInv, RepairsLast, Rounds
  <2>2. registry[j].batch <= registry[k].batch
    BY <1>1, <1>3 DEF PassComes
  <2> QED BY <1>1, <2>1, <2>2
<1> QED BY <1>1, <1>2, <1>3 DEF Kinds

\* A round is sent: the file is under way, and has no other.
LEMMA RegistersSettles ==
    ASSUME NEW k, Read(k), TypeInv', SettledInv, NEW kind \in {"retry", "repair"},
           k.kind = "repair" => kind = "repair",
           NEW attempt, NEW holds, NEW state, state # None,
           Registers(k, kind, attempt, holds, state)
    PROVE  SettledInv'
<1> USE DEF SettledInv
<1> DEFINE f     == k.file
           key   == Key(f, kind, attempt)
           named == Naming(key)
           Replaced(j) == j.file = f /\ j.kind # "original" /\ j # key
           rest  == {j \in DOMAIN named : ~Replaced(j)}
<1>1. PICK writes \in 1..4 :
          /\ Takes(f, kind, holds)
          /\ registry' = CASE writes = 1 -> registry
                           [] writes = 2 -> named
                           [] writes >= 3 -> Restricted(named, rest)
          /\ recovery' = IF writes = 4 THEN [recovery EXCEPT ![f] = state] ELSE recovery
          /\ Through(writes, 4, Handled(k) /\ UNCHANGED pass)
          /\ UNCHANGED <<mapped, outcome>>
  BY DEF Registers
<1>2. /\ RoundsInv /\ TypeInv /\ f \in Files /\ deaths \in Nat /\ action = "checking_batch"
      /\ k \in todo /\ key.file = f /\ key.kind = kind /\ kind # "original"
  BY EntryOK DEF Read, RoundsInv, TypeInv, AroundOK, Key
<1>3. /\ UNCHANGED <<job, abandoned, dead>>
      /\ writes = 4 => deaths' = deaths /\ Handled(k) /\ UNCHANGED pass /\ action' = action
      /\ writes # 4 => deaths' = deaths + 1 /\ action' = "stopped"
  BY <1>1 DEF Through, Stops, Handled
<1>4. /\ \A j \in DOMAIN registry' :
            \/ j = key /\ registry'[j] = NewEntry
            \/ j \in DOMAIN registry /\ registry'[j] = registry[j]
      /\ \A j \in DOMAIN registry : j.file # f \/ j.kind = "original"
            => j \in DOMAIN registry' /\ registry'[j] = registry[j]
      /\ writes = 4 => /\ key \in DOMAIN registry' /\ registry'[key] = NewEntry
                       /\ \A j \in DOMAIN registry' : ~Replaced(j)
  <2>1. /\ registry' \in {registry, named, Restricted(named, rest)}
        /\ writes = 4 => registry' = Restricted(named, rest)
    BY <1>1
  <2>2. /\ DOMAIN named = DOMAIN registry \cup {key} /\ named[key] = NewEntry
        /\ \A j \in DOMAIN registry : j # key => named[j] = registry[j]
    BY DEF Naming
  <2> HIDE DEF named
  <2> QED BY <1>2, <2>1, <2>2 DEF Restricted
<1> HIDE DEF key, named, rest
<1>5. EntriesInv'
  <2>1. deaths' = 0 => deaths = 0 /\ writes = 4
    BY <1>2, <1>3
  <2>2. recovery = [g \in Files |-> recovery[g]]
    BY <1>2 DEF TypeInv, DiskOK, RecoveryOK
  <2>3. /\ \A g \in Files : g # f => recovery'[g] = recovery[g]
        /\ writes = 4 => recovery'[f] # None
    BY <1>1, <1>2, <2>2
  <2>4. writes = 4 => Rounds(f)' \subseteq {key}
    BY <1>4 DEF Rounds
  <2>5. dead = 0 /\ key.kind = "retry" => \A j \in Rounds(f) : j.kind # "repair"
    <3> HIDE DEF SettledInv
    <3> QED BY <1>2, RetryFirst
  <2> QED BY <1>1, <1>2, <1>3, <1>4, <2>1, <2>3, <2>4, <2>5, EntriesSent
<1>6. RestAnswered'
  <2>1. \A g : Original(g) # key
    BY <1>2 DEF Original, Key
  <2> QED BY <1>1, <1>3, <1>4, <2>1, RestStays
<1>7. OwedOrDone' /\ PassComes' /\ Finished'
  <2>1. CASE writes = 4
    <3>1. Comes(f)'
      BY <1>2, <1>4, <2>1 DEF Comes, Underway, NewEntry
    <3>2. \A i, j \in Rounds(f)' : i = j
      BY <1>4, <2>1 DEF Rounds
    <3>3. Done(f)' \/ Watched(f)'
      BY <1>1, <1>2, <1>3, <1>4 DEF OwedOrDone, Done, Watched, Original, Key
    <3>4. /\ \A j : j.file # f => (j \in DOMAIN registry <=> j \in DOMAIN registry')
          /\ \A j \in DOMAIN registry : j.file # f => registry'[j] = registry[j]
      BY <1>2, <1>4
    <3> HIDE DEF SettledInv
    <3> QED BY <1>1, <1>2, <1>3, <2>1, <3>1, <3>2, <3>3, <3>4, PassGoesOn
  <2>2. CASE writes # 4
    BY <1>3, <2>2 DEF OwedOrDone, PassComes, Finished
  <2> QED BY <2>1, <2>2
<1> QED BY <1>5, <1>6, <1>7

\* A round without its state hands the file back: to the newest of the rounds left, or to the
\* file's own batch.
LEMMA DropHandsBack ==
    ASSUME NEW k, Read(k), SettledInv, TypeInv', k.kind # "original", recovery[k.file] = None,
           dead = 0, DropEntry(k), Stands(k.file, k)
    PROVE  Comes(k.file)'
<1> USE DEF Read, RoundsInv, SettledInv
<1> DEFINE f == k.file
<1>1. /\ registry' = Restricted(registry, DOMAIN registry \ {k}) /\ todo' = todo \ {k}
      /\ UNCHANGED <<batches, pass, outcome, job>> /\ TypeInv /\ f \in Files
  BY EntryOK DEF DropEntry, Handled, around
<1>2. /\ \A j \in DOMAIN registry' : j \in DOMAIN registry /\ j # k /\ registry'[j] = registry[j]
      /\ \A j \in DOMAIN registry : j # k => j \in DOMAIN registry'
  BY <1>1 DEF Restricted
<1>3. ASSUME NEW j \in DOMAIN registry, j.file = f PROVE registry[j].status = "completed"
  <2>1. registry[j].status \in Conditions
    BY <1>1, EntryOK
  <2>2. registry[j].status # "out"
    BY <1>3 DEF NamedInv, PassAlone
  <2>3. registry[j].status \notin Dead
    BY <1>1, <1>3, EntryOK DEF NamedInv, EntriesTell, EntriesInv, RepairsLast, Named, Dead
  <2> QED BY <2>1, <2>2, <2>3 DEF Conditions
<1>4. Original(f).file = f /\ Original(f).kind = "original" /\ Original(f) # k
  BY DEF Original, Key
<1>5. \A j \in todo' \cap DOMAIN registry' : j.file # f
  <2> SUFFICES ASSUME NEW j \in todo' \cap DOMAIN registry', j.file = f PROVE FALSE
    OBVIOUS
  <2>1. j \in todo /\ j \in DOMAIN registry /\ j # k
    BY <1>1, <1>2
  <2>2. j \in pass.superseded
    BY <1>1, <2>1, EntryOK DEF Stands, Rounds
  <2> QED BY <2>1, <2>2 DEF PassComes
<1> DEFINE left == Rounds(f) \ {k}
<1>6. RoundsOf(registry', f) = left /\ \A j \in left : registry'[j] = registry[j]
  BY <1>2 DEF RoundsOf, Rounds
<1>7. \A j \in left : j \in DOMAIN registry /\ registry[j].status = "completed"
  BY <1>3 DEF Rounds
<1>8. Ranked(registry', f) = left
  BY <1>6, <1>7 DEF Ranked, is_dead_retry, Dead
<1>9. CASE left = {}
  <2>1. Original(f) \notin superseded_entries(registry')
    BY <1>1, <1>4, <1>8, <1>9, SupersededOf
  <2>2. Original(f) \in pass.superseded
    BY DEF Stands
  <2>3. ASSUME Watched(f) PROVE Original(f) \in HandedBack'
    <3>1. Original(f) \in DOMAIN registry' /\ registry'[Original(f)] = registry[Original(f)]
      BY <1>2, <1>4, <2>3 DEF Watched
    <3>2. Awaits(registry[Original(f)])
      BY <1>3, <1>4, <2>3 DEF Watched, Awaits
    <3> QED BY <1>1, <2>1, <2>2, <3>1, <3>2 DEF HandedBack
  <2>4. Done(f) \/ Watched(f)
    BY <1>1 DEF OwedOrDone
  <2>5. Done(f) => Done(f)'
    BY <1>1 DEF Done
  <2> QED BY <1>4, <1>5, <2>3, <2>4, <2>5 DEF Comes
<1>10. CASE left # {}
  <2>1. PICK s \in left : \A j \in left : registry[j].batch <= registry[s].batch
    BY <1>1, <1>7, <1>10, NewestOf
  <2>2. s \in Standing(registry', f)
    BY <1>6, <1>8, <2>1 DEF Standing
  <2>3. s.file = f /\ s \in DOMAIN registry /\ s # k /\ s.kind # "original"
    BY <2>1 DEF Rounds
  <2>4. s \notin superseded_entries(registry')
    BY <1>1, <2>2, <2>3, SupersededOf
  <2>5. s \in pass.superseded
    BY <2>1 DEF Stands
  <2>6. Awaits(registry[s])
    BY <1>7, <2>1, <2>3 DEF Awaits, EntriesInv, EntriesApart
  <2>7. s \in HandedBack'
    BY <1>1, <1>2, <2>3, <2>4, <2>5, <2>6 DEF HandedBack
  <2> QED BY <1>5, <2>3, <2>7 DEF Comes
<1> QED BY <1>9, <1>10

LEMMA DropEntrySettles ==
    ASSUME NEW k, Read(k), SettledInv, TypeInv', k.kind # "original", recovery[k.file] = None,
           DropEntry(k)
    PROVE  SettledInv'
<1> USE DEF SettledInv
<1> DEFINE f == k.file
<1>1. /\ registry' = Restricted(registry, DOMAIN registry \ {k}) /\ todo' = todo \ {k} /\ Handled(k)
      /\ UNCHANGED <<batches, recovery, mapped, outcome, pass, job, abandoned, deaths, dead, action>>
      /\ RoundsInv /\ TypeInv /\ f \in Files /\ action = "checking_batch" /\ k \in todo
  BY EntryOK DEF DropEntry, Handled, around, Read, RoundsInv
<1>2. /\ \A j \in DOMAIN registry' : j \in DOMAIN registry /\ j # k /\ registry'[j] = registry[j]
      /\ \A j \in DOMAIN registry : j # k => j \in DOMAIN registry'
  BY <1>1 DEF Restricted
<1>3. EntriesInv'
  BY <1>1, <1>2, EntriesStay
<1>4. RestAnswered'
  BY <1>1, <1>2, RestStays
<1>5. Done(f)' \/ Watched(f)'
  <2>1. Original(f) # k
    BY DEF Original, Key
  <2> QED BY <1>1, <1>2, <2>1 DEF OwedOrDone, Done, Watched
<1>6. ASSUME deaths = 0 \/ dead = 0, f \notin abandoned' PROVE Comes(f)'
  <2>1. k \in Rounds(f) /\ k \in DOMAIN registry
    BY DEF Rounds, Read
  <2>2. dead = 0
    BY <1>1, <1>6, <2>1 DEF EntriesInv, StatesSaved
  <2>3. ~Underway(f)
    BY DEF Underway, Read, RoundsInv, NamedInv, PassAlone
  <2>4. Comes(f)
    BY <1>1, <1>6 DEF PassComes
  <2>5. CASE Done(f) \/ pass.unread \/ Original(f) \in todo
    <3>1. Done(f)' = Done(f) /\ Original(f) # k
      BY <1>1 DEF Done, Original, Key
    <3> QED BY <1>1, <2>5, <3>1 DEF Comes
  <2>6. ASSUME NEW s \in todo, Stands(f, s) PROVE Comes(f)'
    <3>1. s = k
      BY <1>1, <2>1, <2>6 DEF Stands, PassComes
    <3> HIDE DEF SettledInv
    <3> QED BY <2>2, <2>6, <3>1, DropHandsBack
  <2> QED BY <1>1, <2>1, <2>3, <2>4, <2>5, <2>6 DEF Comes
<1>7. \A j \in Rounds(f)' : j \in Rounds(f) /\ registry'[j].batch = registry[j].batch
  BY <1>2 DEF Rounds
<1>8. /\ \A j : j.file # f => (j \in DOMAIN registry <=> j \in DOMAIN registry')
      /\ \A j \in DOMAIN registry : j.file # f => registry'[j] = registry[j]
  BY <1>2
<1>9. OwedOrDone' /\ PassComes' /\ Finished'
  <2> HIDE DEF SettledInv
  <2> QED BY <1>1, <1>5, <1>6, <1>7, <1>8, PassGoesOn
<1> QED BY <1>3, <1>4, <1>9

\* An entry passed over, with its batch out or its provider silent, is not what comes to its
\* file; nor is a retry that waits for the repair after it.
LEMMA PassedOver ==
    ASSUME RoundsInv, SettledInv, action = "checking_batch", NEW k \in todo \cap DOMAIN registry,
           k.kind = "original" => registry[k].status \notin Dead, deaths = 0 \/ dead = 0,
           \/ ~Readable(k)
           \/ ~is_dead_retry(k, registry[k]) /\ registry[k].status # "completed"
           \/ k.kind # "repair" /\ repair_round_in_flight(k.file)
    PROVE  k # Original(k.file) /\ ~Stands(k.file, k)
<1> USE DEF RoundsInv, SettledInv
<1> DEFINE f == k.file
<1>1. /\ k.file \in Files /\ k.kind \in Kinds /\ registry[k].status \in Conditions
      /\ registry[k].batch \in 1..Len(batches) /\ Len(batches) \in Nat
      /\ k = Original(f) => k.kind = "original"
  BY EntryOK DEF TypeInv, DiskOK, Original, Key
<1>2. registry[k].status = "out" => k.kind # "original"
  BY DEF NamedInv, PassAlone
<1>3. registry[k].status = "completed" => Named(k).status = "completed"
  BY DEF NamedInv, EntriesTell
<1>4. CASE ~Readable(k) \/ (~is_dead_retry(k, registry[k]) /\ registry[k].status # "completed")
  BY <1>1, <1>2, <1>3, <1>4 DEF Stands, Readable, is_dead_retry, Conditions
<1>5. CASE k.kind # "repair" /\ repair_round_in_flight(f)
  <2>1. PICK j \in DOMAIN registry : j.file = f /\ j.kind = "repair" /\ Named(j).status \notin Dead
    BY <1>5 DEF repair_round_in_flight
  <2>2. k # Original(f)
    BY <1>1, <2>1 DEF NamedInv, PassReads
  <2>3. ASSUME Stands(f, k) PROVE FALSE
    <3>1. j \in Rounds(f) /\ k \in Rounds(f) /\ j # k /\ k.kind = "retry"
      BY <1>1, <1>5, <2>1, <2>3 DEF Rounds, Stands, Kinds
    <3>2. registry[j].batch < registry[k].batch
      BY <2>3, <3>1 DEF Stands
    <3>3. dead = 0
      BY <1>1, <3>1 DEF EntriesInv, StatesSaved
    <3>4. registry[k].batch < registry[j].batch /\ registry[j].batch \in 1..Len(batches)
      BY <1>1, <2>1, <3>1, <3>3, EntryOK DEF EntriesInv, RepairsLast
    <3> QED BY <1>1, <3>2, <3>4
  <2> QED BY <2>2, <2>3
<1> QED BY <1>4, <1>5

LEMMA ReadEntrySettles ==
    ASSUME RoundsInv, TypeInv', SettledInv, NEW k \in todo, ReadEntry(k)
    PROVE  SettledInv'
<1> DEFINE f == k.file
<1>1. action = "checking_batch" /\ f \in Files /\ TypeInv /\ pass \in Passes
  BY DEF ReadEntry, RoundsInv, TypeInv, ProcessOK, Keys
<1>2. ASSUME Defers(k), \/ Done(f) \/ (k # Original(f) /\ ~Stands(f, k)) \/ ~(deaths = 0 \/ dead = 0)
      PROVE  SettledInv'
  BY <1>1, <1>2, LeavesSettles DEF Defers
<1>3. CASE k \notin DOMAIN registry
  <2>1. Defers(k) /\ ~Stands(f, k)
    BY <1>3 DEF ReadEntry, Stands, Rounds
  <2>2. k # Original(f) \/ Done(f)
    BY <1>1, <1>3 DEF SettledInv, OwedOrDone, Watched
  <2> QED BY <1>2, <2>1, <2>2
<1>4. CASE k \in DOMAIN registry /\ registry[k].collected
  <2>1. k.kind = "original"
    BY <1>4 DEF SettledInv, EntriesInv, EntriesApart
  <2>2. k = Original(f)
    BY <1>1, <1>4, <2>1, EntryOK
  <2>3. Done(f)
    BY <1>1, <1>4, <2>2 DEF SettledInv, OwedOrDone, Watched
  <2>4. Leaves(k) /\ pass' = [pass EXCEPT !["collectedBefore"] = TRUE]
    BY <1>4 DEF ReadEntry, Notes
  <2>5. pass'.superseded = pass.superseded /\ pass'.unread = pass.unread
    BY <1>1, <2>4 DEF Passes
  <2> QED BY <1>1, <2>3, <2>4, <2>5, LeavesSettles
<1>5. CASE k \in DOMAIN registry /\ ~registry[k].collected /\ k.kind = "original"
           /\ registry[k].status \in Dead
  BY <1>1, <1>5, FailUnreadableSettles DEF ReadEntry
<1> DEFINE reads == k \in DOMAIN registry /\ ~registry[k].collected
                    /\ ~(k.kind = "original" /\ registry[k].status \in Dead)
<1>6. ASSUME reads, ~Readable(k) PROVE SettledInv'
  <2>1. Defers(k)
    BY <1>6 DEF ReadEntry
  <2>2. k \in todo \cap DOMAIN registry /\ (k.kind = "original" => registry[k].status \notin Dead)
    BY <1>6
  <2>3. deaths = 0 \/ dead = 0 => k # Original(f) /\ ~Stands(f, k)
    BY <1>1, <1>6, <2>2, PassedOver
  <2> QED BY <1>2, <2>1, <2>3
<1>7. ASSUME reads, Unasked(k) PROVE SettledInv'
  <2>1. CASE registry[k].status = "completed"
    <3>1. Leaves(k) /\ pass' = [pass EXCEPT !["unread"] = TRUE]
      BY <1>7, <2>1 DEF Unasked, Notes
    <3>2. pass'.superseded = pass.superseded /\ pass'.unread = TRUE
      BY <1>1, <3>1 DEF Passes
    <3> QED BY <1>1, <3>1, <3>2, LeavesSettles
  <2>2. CASE registry[k].status # "completed"
    <3>1. Defers(k) /\ ~is_dead_retry(k, registry[k])
      BY <1>7, <2>2 DEF Unasked
    <3>2. deaths = 0 \/ dead = 0 => k # Original(f) /\ ~Stands(f, k)
      BY <1>1, <1>7, <2>2, <3>1, PassedOver
    <3> QED BY <1>2, <3>1, <3>2
  <2> QED BY <2>1, <2>2
<1>8. ASSUME reads, Abandons(k) PROVE SettledInv'
  BY <1>1, <1>8, AbandonsSettles
<1>9. ASSUME reads, Readable(k), Process(k) PROVE SettledInv'
  <2>1. Read(k)
    BY <1>1, <1>9 DEF Read
  <2>2. CASE k.kind # "original" /\ recovery[f] = None /\ DropEntry(k)
    BY <2>1, <2>2, DropEntrySettles
  <2>3. CASE Defers(k) /\ k.kind # "repair" /\ repair_round_in_flight(f)
    <3>1. deaths = 0 \/ dead = 0 => k # Original(f) /\ ~Stands(f, k)
      BY <1>1, <1>9, <2>3, PassedOver
    <3> QED BY <1>2, <2>3, <3>1
  <2>4. CASE Ends(k) /\ (k.kind = "original" \/ recovery[f] # None)
    <3>1. PICK results, exhausted : Finalizes(k, results, exhausted)
      BY <2>4 DEF Ends
    <3>2. Settling(f)
      BY <1>1, <2>1, <2>4, ReadAlone DEF RoundsInv, NamedInv, RoundsWait
    <3> QED BY <2>1, <3>1, <3>2, FinalizesSettles DEF Settling
  <2>5. CASE Sends(k)
    <3>1. PICK kind \in {"retry", "repair"} : \E attempt, holds, state :
                 /\ state # None /\ (k.kind = "repair" => kind = "repair")
                 /\ Registers(k, kind, attempt, holds, state)
      BY <2>5 DEF Sends
    <3>2. PICK attempt, holds, state :
                 /\ state # None /\ (k.kind = "repair" => kind = "repair")
                 /\ Registers(k, kind, attempt, holds, state)
      BY <3>1
    <3> QED BY <2>1, <3>2, RegistersSettles
  <2> QED BY <1>1, <1>9, <2>2, <2>3, <2>4, <2>5, ProcessActs
<1>10. CASE reads
  <2>1. ~Readable(k) \/ (Readable(k) /\ Process(k)) \/ Abandons(k) \/ Unasked(k)
    BY <1>1, <1>10 DEF ReadEntry
  <2> QED BY <1>6, <1>7, <1>8, <1>9, <1>10, <2>1
<1> QED BY <1>3, <1>4, <1>5, <1>10

-----------------------------------------------------------------------------
(* Every step *)

LEMMA NextSettles ==
    ASSUME RoundsInv, TypeInv', SettledInv, [Next]_vars PROVE SettledInv'
<1>1. CASE UNCHANGED vars \/ OutageBegins \/ OutageEnds
  <2>1. UNCHANGED <<batches, registry, recovery, mapped, outcome, action, todo, pass, job,
                    abandoned, deaths, dead>>
    BY <1>1 DEF vars, OutageBegins, OutageEnds, disk, around
  <2>2. EntriesInv' /\ RestAnswered'
    BY <2>1, DiskRests DEF HasAnswer, SettledInv
  <2>3. \A f : /\ Comes(f)' = Comes(f) /\ Rounds(f)' = Rounds(f) /\ Done(f)' = Done(f)
               /\ Watched(f)' = Watched(f) /\ Unfinished(f)' = Unfinished(f)
    BY <2>1 DEF Comes, Done, Underway, Stands, Rounds, HandedBack, Watched, Unfinished, HasAnswer
  <2>4. OwedOrDone' /\ Finished'
    BY <2>1, <2>3 DEF SettledInv, OwedOrDone, Finished
  <2>5. PassComes'
    BY <2>1, <2>3 DEF SettledInv, PassComes
  <2> QED BY <2>2, <2>4, <2>5 DEF SettledInv
<1>2. TypeInv
  BY DEF RoundsInv
<1> QED BY <1>1, <1>2, BeginRunSettles, SubmittedSettles, SubmitSettles, PollSettles,
           EndPassSettles, ReadEntrySettles, ProviderSettles DEF Next, Run

\* Until a file is settled its own entry is owed and every pass comes to it, for any files,
\* jobs and number of mishaps.
THEOREM PassesCome == Spec => []SettledInv
<1>1. Init => SettledInv
  <2> SUFFICES ASSUME Init PROVE SettledInv
    OBVIOUS
  <2>1. DOMAIN registry = {} /\ action = "pending" /\ Len(batches) = 0
    BY DEF Init
  <2>2. EntriesInv
    BY <2>1 DEF EntriesInv, EntriesApart, StatesSaved, RepairsLast, Rounds
  <2> QED BY <2>1, <2>2 DEF SettledInv, RestAnswered, OwedOrDone, PassComes, Finished
<1>2. RoundsInv /\ RoundsInv' /\ SettledInv /\ [Next]_vars => SettledInv'
  <2>1. RoundsInv' => TypeInv'
    BY DEF RoundsInv
  <2> QED BY <2>1, NextSettles
<1> QED BY <1>1, <1>2, RoundsAlone, PTL DEF Spec

\* An action completes once every record of a file has an answer or is marked failed or
\* exhausted, unless an error kept a round of the file from being read, or the process died
\* and a batch was given up: no record stays deferred on a batch nothing reads.
THEOREM LeavesSettled == Spec => []SettledUnlessAbandoned
<1>1. SettledInv => SettledUnlessAbandoned
  BY DEF SettledInv, Finished, Done, SettledUnlessAbandoned
<1> QED BY <1>1, PassesCome, PTL

-----------------------------------------------------------------------------
(* How many rounds a file buys.  Each round is counted in the recovery state, which starts *)
(* again only when the process died, or when the file's own batch is read anew because its *)
(* repair was given up; and once the file has its output it is not sent again while the    *)
(* process lives.                                                                          *)

Sent(f) == {n \in 1..Len(batches) : batches[n].file = f /\ batches[n].kind # "original"}
GivenUp(f) == {n \in 1..Len(batches) :
    batches[n].file = f /\ batches[n].kind = "repair" /\ batches[n].status \in Dead}

\* The registry names a repair of f that was given up: the next reading of the file's own
\* batch will start the count again for it.
Spare(f) == \E k \in DOMAIN registry : k.file = f /\ k.kind = "repair" /\ Named(k).status \in Dead

\* How often the count may have started again.
Lives(f) == deaths + Cardinality(GivenUp(f)) - (IF Spare(f) THEN 1 ELSE 0)

\* What a file may buy in a life.
Purse == job.attempts - 1 + job.rounds

InBudget(f) == Cardinality(Sent(f)) <= Purse * Lives(f) + Spent(f)

\* The file has its output, and no run of the workflow starts before a process has died.
Closed(f) ==
    /\ Cardinality(Sent(f)) <= Purse * (Lives(f) + 1)
    /\ Original(f) \in DOMAIN registry /\ registry[Original(f)].collected
    /\ registry[Original(f)].status = "completed"
    /\ Rounds(f) = {} /\ recovery[f] = None
    /\ action \in {"batch_submitted", "checking_batch", "completed"}
    /\ action = "checking_batch" => pass.wrote \/ pass.collectedBefore \/ Original(f) \in todo

\* A state stands beside a round, and counts no more than the job allows.
StatesCount == \A f \in Files : Bounded(f) /\ (recovery[f] # None => Rounds(f) # {})

BudgetInv == StatesCount /\ \A f \in Files : InBudget(f) \/ Closed(f)

-----------------------------------------------------------------------------
(* Lives and rounds *)

LEMMA Purses ==
    ASSUME NEW c \in Nat, NEW l \in Int, NEW m \in Int, l <= m
    PROVE  c * l <= c * m /\ c * (l + 1) = c * l + c /\ c * l \in Int
<1>1. c * (l + 1) = c * l + c /\ c * l \in Int /\ c * m \in Int
  OBVIOUS
<1>2. m - l \in Nat /\ c * m = c * l + c * (m - l)
  OBVIOUS
<1>3. c * (m - l) \in Nat
  BY <1>2
<1> QED BY <1>1, <1>2, <1>3

LEMMA Counted ==
    ASSUME TypeInv, NEW f \in Files
    PROVE  /\ IsFiniteSet(Sent(f)) /\ IsFiniteSet(GivenUp(f))
           /\ Cardinality(Sent(f)) \in Nat /\ Cardinality(GivenUp(f)) \in Nat
           /\ Lives(f) \in Nat /\ Lives(f) <= deaths + Cardinality(GivenUp(f))
           /\ Purse \in Nat /\ Spent(f) \in Nat /\ deaths \in Nat
           /\ Bounded(f) => Spent(f) <= Purse
<1>1. Len(batches) \in Nat /\ deaths \in Nat
  BY DEF TypeInv, DiskOK, AroundOK
<1>2. IsFiniteSet(1..Len(batches)) /\ Sent(f) \subseteq 1..Len(batches) /\ GivenUp(f) \subseteq 1..Len(batches)
  BY <1>1, FS_Interval DEF Sent, GivenUp
<1>3. IsFiniteSet(Sent(f)) /\ IsFiniteSet(GivenUp(f))
  BY <1>2, FS_Subset
<1>4. Cardinality(Sent(f)) \in Nat /\ Cardinality(GivenUp(f)) \in Nat
  BY <1>3, FS_CardinalityType
<1>5. Spare(f) => Cardinality(GivenUp(f)) # 0
  <2> SUFFICES ASSUME NEW k \in DOMAIN registry, k.file = f, k.kind = "repair", Named(k).status \in Dead
               PROVE  Cardinality(GivenUp(f)) # 0
    BY DEF Spare
  <2>1. registry[k].batch \in GivenUp(f)
    BY EntryOK DEF GivenUp
  <2> QED BY <1>3, <2>1, FS_EmptySet
<1>6. job.attempts \in Nat \ {0} /\ job.rounds \in Nat
  BY RecoveryIsState
<1>7. Spent(f) \in Nat /\ (Bounded(f) => Spent(f) <= Purse)
  <2>1. recovery[f] # None => recovery[f].sent \in Nat /\ recovery[f].round \in Nat
    BY DEF TypeInv, DiskOK, RecoveryOK, StateOK
  <2> QED BY <1>6, <2>1 DEF Spent, Total, Bounded, Within, Purse
<1> QED BY <1>1, <1>3, <1>4, <1>5, <1>6, <1>7 DEF Lives, Purse

\* The same after a step.
LEMMA Countable ==
    TypeInv => \A f \in Files :
        Cardinality(Sent(f)) \in Nat /\ Lives(f) \in Nat /\ Spent(f) \in Nat /\ Cardinality(GivenUp(f)) \in Nat
BY Counted

LEMMA CountableNext ==
    (TypeInv => \A f \in Files :
        Cardinality(Sent(f)) \in Nat /\ Lives(f) \in Nat /\ Spent(f) \in Nat /\ Cardinality(GivenUp(f)) \in Nat)'
BY Countable, PTL

\* A batch is sent.
LEMMA SentGrows ==
    ASSUME TypeInv, NEW f \in Files, NEW kind, NEW STATE holds, Takes(f, kind, holds), NEW g \in Files
    PROVE  /\ GivenUp(g)' = GivenUp(g)
           /\ g # f \/ kind = "original" => Sent(g)' = Sent(g)
           /\ Cardinality(Sent(g)') \in Nat /\ Cardinality(Sent(g)') <= Cardinality(Sent(g)) + 1
<1>1. /\ Len(batches) \in Nat /\ Len(batches') = Len(batches) + 1
      /\ \A n \in 1..Len(batches) : batches'[n] = batches[n]
      /\ batches'[Len(batches) + 1].file = f /\ batches'[Len(batches) + 1].kind = kind
      /\ batches'[Len(batches) + 1].status = "out"
  BY ListGrows
<1>2. GivenUp(g)' = GivenUp(g)
  BY <1>1 DEF GivenUp, Dead
<1>3. Sent(g)' = Sent(g) \/ (g = f /\ kind # "original" /\ Sent(g)' = Sent(g) \cup {Len(batches) + 1})
  BY <1>1 DEF Sent
<1>4. IsFiniteSet(Sent(g)) /\ Cardinality(Sent(g)) \in Nat
  BY Counted
<1>5. Len(batches) + 1 \notin Sent(g)
  BY <1>1 DEF Sent
<1>6. Cardinality(Sent(g) \cup {Len(batches) + 1}) = Cardinality(Sent(g)) + 1
  BY <1>4, <1>5, FS_AddElement
<1>7. g # f \/ kind = "original" => Sent(g)' = Sent(g)
  BY <1>3
<1>8. Cardinality(Sent(g)') = Cardinality(Sent(g)) \/ Cardinality(Sent(g)') = Cardinality(Sent(g)) + 1
  <2>1. CASE Sent(g)' = Sent(g)
    BY <2>1
  <2>2. CASE Sent(g)' = Sent(g) \cup {Len(batches) + 1}
    BY <1>6, <2>2
  <2> QED BY <1>3, <2>1, <2>2
<1> QED BY <1>2, <1>4, <1>7, <1>8

\* No repair is given up: a life begins with a death, or where the registry forgets a repair.
LEMMA LivesKept ==
    ASSUME TypeInv, TypeInv', NEW f \in Files, deaths' >= deaths, GivenUp(f)' = GivenUp(f),
           \A j \in DOMAIN registry' :
              \/ registry'[j].status = "out" /\ Named(j)'.status = "out"
              \/ j \in DOMAIN registry /\ registry'[j].batch = registry[j].batch,
           \A n \in 1..Len(batches) : batches'[n] = batches[n]
    PROVE  /\ Spare(f)' => Spare(f)
           /\ Lives(f)' >= Lives(f) + (deaths' - deaths)
           /\ Spare(f) /\ ~Spare(f)' => Lives(f)' >= Lives(f) + 1
<1>1. Spare(f)' => Spare(f)
  <2> SUFFICES ASSUME NEW k \in DOMAIN registry', k.file = f, k.kind = "repair", Named(k)'.status \in Dead
               PROVE  Spare(f)
    BY DEF Spare
  <2>1. k \in DOMAIN registry /\ registry'[k].batch = registry[k].batch
    BY DEF Dead
  <2>2. Named(k)' = Named(k)
    BY <2>1, EntryOK DEF Named
  <2> QED BY <2>1, <2>2 DEF Spare
<1>2. deaths \in Nat /\ deaths' \in Nat /\ Cardinality(GivenUp(f)) \in Nat
  BY Counted DEF TypeInv, AroundOK
<1> QED BY <1>1, <1>2 DEF Lives

\* A death pays for what is lost with it.
LEMMA DeathCovers ==
    ASSUME TypeInv, TypeInv', BudgetInv, NEW f \in Files, job' = job, Lives(f)' >= Lives(f) + 1,
           \/ Sent(f)' = Sent(f)
           \/ /\ Cardinality(Sent(f)') <= Cardinality(Sent(f)) + 1 /\ Cardinality(Sent(f)') \in Nat
              /\ InBudget(f) /\ recovery'[f] = recovery[f] /\ Purse > 0
    PROVE  InBudget(f)'
<1> DEFINE bought == Cardinality(Sent(f))
           price == Purse * Lives(f)
           next == Purse * Lives(f)'
<1>1. /\ bought \in Nat /\ Lives(f) \in Nat /\ Purse \in Nat /\ Spent(f) \in Nat
      /\ Spent(f) <= Purse /\ Purse' = Purse
  BY Counted DEF BudgetInv, StatesCount, Purse
<1>2. Lives(f)' \in Nat /\ Spent(f)' \in Nat
  BY CountableNext
<1>3. Purse * (Lives(f) + 1) <= next /\ Purse * (Lives(f) + 1) = price + Purse /\ price \in Int /\ next \in Int
  <2> HIDE DEF Purse
  <2>1. \A l, m \in Int : l <= m => Purse * l <= Purse * m /\ Purse * (l + 1) = Purse * l + Purse
    BY <1>1, Purses
  <2>2. \A l \in Int : Purse * l \in Int
    BY <1>1, Purses
  <2>3. Lives(f) \in Int /\ Lives(f) + 1 \in Int /\ Lives(f)' \in Int
    BY <1>1, <1>2
  <2> QED BY <2>1, <2>2, <2>3
<1>4. InBudget(f) => bought <= price + Spent(f)
  BY DEF InBudget
<1>5. bought <= price + Purse
  BY <1>1, <1>3, <1>4 DEF BudgetInv, Closed
<1>6. CASE Sent(f)' = Sent(f)
  BY <1>1, <1>2, <1>3, <1>5, <1>6 DEF InBudget
<1>7. CASE /\ Cardinality(Sent(f)') <= Cardinality(Sent(f)) + 1 /\ Cardinality(Sent(f)') \in Nat
           /\ InBudget(f) /\ recovery'[f] = recovery[f] /\ Purse > 0
  <2>1. Spent(f)' = Spent(f)
    BY <1>7 DEF Spent, Total
  <2>2. Cardinality(Sent(f)') <= next + Spent(f)
    BY <1>1, <1>2, <1>3, <1>4, <1>7
  <2> QED BY <1>1, <2>1, <2>2 DEF InBudget
<1> QED BY <1>6, <1>7

\* Nothing is sent of f and its count stays, or a round is sent and counted.
LEMMA BudgetStays ==
    ASSUME TypeInv, TypeInv', NEW f \in Files, job' = job, Lives(f)' >= Lives(f), InBudget(f),
           \/ Sent(f)' = Sent(f) /\ Spent(f)' = Spent(f)
           \/ /\ Cardinality(Sent(f)') <= Cardinality(Sent(f)) + 1 /\ Cardinality(Sent(f)') \in Nat
              /\ Spent(f)' = Spent(f) + 1
    PROVE  InBudget(f)'
<1> DEFINE price == Purse * Lives(f)
           next == Purse * Lives(f)'
<1>1. /\ Cardinality(Sent(f)) \in Nat /\ Lives(f) \in Nat /\ Purse \in Nat /\ Spent(f) \in Nat
      /\ Purse' = Purse
  BY Counted DEF Purse
<1>2. Lives(f)' \in Nat
  BY CountableNext
<1>3. price <= next /\ price \in Int /\ next \in Int
  <2> HIDE DEF Purse
  <2>1. \A l, m \in Int : l <= m => Purse * l <= Purse * m /\ Purse * l \in Int /\ Purse * m \in Int
    BY <1>1, Purses
  <2>2. Lives(f) \in Int /\ Lives(f)' \in Int
    BY <1>1, <1>2
  <2> QED BY <2>1, <2>2
<1>4. Cardinality(Sent(f)) <= price + Spent(f)
  BY DEF InBudget
<1>5. Cardinality(Sent(f)') <= next + Spent(f)'
  BY <1>1, <1>3, <1>4
<1> QED BY <1>1, <1>5 DEF InBudget

\* The file that has its output is left alone.
Rests(f) ==
    /\ Original(f) \in DOMAIN registry' /\ registry'[Original(f)] = registry[Original(f)]
    /\ Rounds(f)' = {}
    /\ action' \in {"batch_submitted", "checking_batch", "completed"}
    /\ action' = "checking_batch" => pass'.wrote \/ pass'.collectedBefore \/ Original(f) \in todo'

\* Nothing happens to f.
LEMMA FileStays ==
    ASSUME TypeInv, TypeInv', NEW f \in Files, InBudget(f) \/ Closed(f), job' = job,
           Lives(f)' >= Lives(f), Sent(f)' = Sent(f), recovery'[f] = recovery[f],
           Closed(f) => Rests(f)
    PROVE  (InBudget(f) \/ Closed(f))'
<1>1. CASE InBudget(f)
  <2>1. Spent(f)' = Spent(f)
    BY DEF Spent, Total
  <2> QED BY <1>1, <2>1, BudgetStays
<1>2. CASE Closed(f)
  <2>1. Lives(f) \in Nat /\ Lives(f)' \in Nat /\ Purse \in Nat /\ Purse' = Purse /\ Cardinality(Sent(f)) \in Nat
    BY Counted, CountableNext DEF Purse
  <2>2. Purse * (Lives(f) + 1) <= Purse * (Lives(f)' + 1) /\ Purse * (Lives(f) + 1) \in Int
        /\ Purse * (Lives(f)' + 1) \in Int
    <3> HIDE DEF Purse
    <3>1. Lives(f) + 1 \in Int /\ Lives(f)' + 1 \in Int /\ Lives(f) + 1 <= Lives(f)' + 1
      BY <2>1
    <3>2. \A l, m \in Int : l <= m => Purse * l <= Purse * m /\ Purse * l \in Int /\ Purse * m \in Int
      BY <2>1, Purses
    <3> QED BY <3>1, <3>2
  <2>3. Cardinality(Sent(f)) <= Purse * (Lives(f) + 1)
    BY <1>2 DEF Closed
  <2>4. Cardinality(Sent(f)') <= Purse * (Lives(f)' + 1)
    BY <2>1, <2>2, <2>3
  <2>5. (Cardinality(Sent(f)) <= Purse * (Lives(f) + 1))'
    BY <2>1, <2>4
  <2> QED BY <1>2, <2>5 DEF Closed, Rests
<1> QED BY <1>1, <1>2

\* No batch is sent or ends, and no entry or state changes.
LEMMA NothingBought ==
    ASSUME TypeInv, TypeInv', BudgetInv, UNCHANGED <<batches, registry, recovery, job, deaths>>,
           \A f \in Files : Closed(f) => Rests(f)
    PROVE  BudgetInv'
<1>1. ASSUME NEW f \in Files
      PROVE  /\ Lives(f)' = Lives(f) /\ Sent(f)' = Sent(f) /\ Rounds(f)' = Rounds(f)
             /\ Bounded(f)' = Bounded(f)
  <2>1. GivenUp(f)' = GivenUp(f) /\ Sent(f)' = Sent(f) /\ Rounds(f)' = Rounds(f)
    BY DEF GivenUp, Sent, Rounds
  <2>2. Spare(f)' = Spare(f)
    BY DEF Spare, Named
  <2>3. Bounded(f)' = Bounded(f)
    BY DEF Bounded, Within
  <2> QED BY <2>1, <2>2, <2>3 DEF Lives
<1>2. StatesCount'
  BY <1>1 DEF BudgetInv, StatesCount
<1>3. ASSUME NEW f \in Files PROVE (InBudget(f) \/ Closed(f))'
  <2>1. Lives(f) \in Nat
    BY Counted
  <2> QED BY <1>1, <2>1, FileStays DEF BudgetInv
<1> QED BY <1>2, <1>3 DEF BudgetInv

-----------------------------------------------------------------------------
(* Outside a pass *)

LEMMA BeginRunBuys ==
    ASSUME TypeInv, TypeInv', BudgetInv, BeginRun \/ Submitted PROVE BudgetInv'
<1>1. action \in {"pending", "stopped", "submitting"}
      /\ UNCHANGED <<batches, registry, recovery, job, deaths>>
  BY DEF BeginRun, Submitted, disk, around
<1>2. \A f \in Files : ~Closed(f)
  BY <1>1 DEF Closed
<1> QED BY <1>1, <1>2, NothingBought

\* The file's own batch is sent.
LEMMA SendFileBuys ==
    ASSUME TypeInv, TypeInv', BudgetInv, action = "submitting", NEW f \in Files, SendFile(f)
    PROVE  BudgetInv'
<1>1. PICK writes \in 0..4 :
          /\ IF writes >= 1 THEN Takes(f, "original", Unfinished(f)) ELSE UNCHANGED batches
          /\ registry' = IF writes >= 3 THEN Naming(Original(f)) ELSE registry
          /\ Through(writes, 4, todo' = todo \ {f} /\ UNCHANGED <<action, pass>>)
  BY DEF SendFile
<1>2. recovery' = recovery /\ job' = job
  BY <1>1 DEF SendFile, Through
<1>3. deaths \in Nat /\ (deaths' = deaths \/ deaths' = deaths + 1)
  BY <1>1 DEF Through, TypeInv, AroundOK
<1>4. /\ Len(batches) \in Nat
      /\ \A n \in 1..Len(batches) : batches'[n] = batches[n]
      /\ \A g \in Files : GivenUp(g)' = GivenUp(g) /\ Sent(g)' = Sent(g)
      /\ writes >= 1 => batches'[Len(batches) + 1].status = "out"
  <2>1. CASE writes >= 1
    BY <1>1, <2>1, SentGrows, ListGrows
  <2>2. CASE writes = 0
    BY <1>1, <2>2, Counted DEF GivenUp, Sent, TypeInv, DiskOK
  <2> QED BY <2>1, <2>2
<1>5. \A j \in DOMAIN registry' :
         \/ j = Original(f) /\ registry'[j].status = "out" /\ Named(j)'.status = "out"
         \/ j \in DOMAIN registry /\ registry'[j] = registry[j]
  BY <1>1, <1>4 DEF Naming, NewEntry, Named
<1>6. \A g \in Files : Rounds(g)' = Rounds(g)
  BY <1>1 DEF Rounds, Naming, Original, Key
<1>7. StatesCount'
  BY <1>2, <1>6 DEF BudgetInv, StatesCount, Bounded, Within
<1>8. ASSUME NEW g \in Files PROVE (InBudget(g) \/ Closed(g))'
  <2>1. Lives(g)' >= Lives(g) + (deaths' - deaths)
    BY <1>3, <1>4, <1>5, LivesKept
  <2>2. Lives(g) \in Nat /\ Lives(g)' \in Nat
    BY Counted, CountableNext
  <2>3. CASE deaths' = deaths
    <3>1. Lives(g)' >= Lives(g) /\ ~Closed(g)
      BY <1>3, <2>1, <2>2, <2>3 DEF Closed
    <3> QED BY <1>2, <1>4, <3>1, FileStays DEF BudgetInv
  <2>4. CASE deaths' = deaths + 1
    <3>1. Lives(g)' >= Lives(g) + 1
      BY <1>3, <2>1, <2>2, <2>4
    <3> QED BY <1>2, <1>4, <3>1, DeathCovers
  <2> QED BY <1>3, <2>3, <2>4
<1> QED BY <1>7, <1>8 DEF BudgetInv

LEMMA SubmitBuys ==
    ASSUME TypeInv, TypeInv', BudgetInv, NEW f \in Files, submit_batch_job(f) PROVE BudgetInv'
<1>1. action = "submitting" /\ \A g \in Files : ~Closed(g)
  BY DEF submit_batch_job, Closed
<1>2. CASE SendFile(f)
  BY <1>1, <1>2, SendFileBuys
<1>3. CASE SkipFile(f) \/ RefuseFile(f)
  BY <1>1, <1>3, NothingBought DEF SkipFile, RefuseFile, disk, around
<1> QED BY <1>2, <1>3 DEF submit_batch_job

-----------------------------------------------------------------------------
(* The provider and the poll *)

\* A batch ends: a repair given up makes room for one more life.
LEMMA ProviderBuys == ASSUME TypeInv, TypeInv', BudgetInv, Provider PROVE BudgetInv'
<1>1. PICK n \in DOMAIN batches : Completes(n) \/ Fails(n)
  BY DEF Provider
<1>2. /\ UNCHANGED <<registry, recovery, action, todo, pass, job, deaths>>
      /\ batches[n].status = "out"
      /\ \E status, good, poor : status \in {"completed"} \cup Dead /\ Becomes(n, status, good, poor)
  BY <1>1 DEF Completes, Fails, around
<1>3. /\ Len(batches') = Len(batches) /\ Len(batches) \in Nat /\ n \in 1..Len(batches)
      /\ \A m \in 1..Len(batches) :
            /\ batches'[m].file = batches[m].file /\ batches'[m].kind = batches[m].kind
            /\ m # n => batches'[m] = batches[m]
  <2>1. PICK status, good, poor : Becomes(n, status, good, poor)
    BY <1>2
  <2>2. batches \in Seq(Taken) /\ n \in 1..Len(batches) /\ DOMAIN batches = 1..Len(batches)
    BY DEF TypeInv, DiskOK
  <2>3. DOMAIN batches' = DOMAIN batches /\ Len(batches') = Len(batches)
    BY <2>1, <2>2 DEF Becomes
  <2>4. batches[n] \in Taken
    BY <2>2
  <2>5. batches'[n] = [batches[n] EXCEPT !.status = status, !.good = good, !.poor = poor]
        /\ \A m \in 1..Len(batches) : m # n => batches'[m] = batches[m]
    BY <2>1, <2>2, <2>4 DEF Becomes
  <2>6. batches'[n].file = batches[n].file /\ batches'[n].kind = batches[n].kind
    BY <2>4, <2>5 DEF Taken
  <2>7. ASSUME NEW m \in 1..Len(batches)
        PROVE  batches'[m].file = batches[m].file /\ batches'[m].kind = batches[m].kind
    BY <2>5, <2>6
  <2>8. Len(batches) \in Nat
    BY <2>2
  <2> QED BY <2>2, <2>3, <2>5, <2>7, <2>8
<1>4. ASSUME NEW f \in Files
      PROVE  Sent(f)' = Sent(f) /\ Rounds(f)' = Rounds(f) /\ Bounded(f)' = Bounded(f)
  BY <1>2, <1>3 DEF Sent, Rounds, Bounded, Within
<1>5. StatesCount'
  BY <1>2, <1>4 DEF BudgetInv, StatesCount
<1>6. ASSUME NEW f \in Files PROVE Lives(f)' >= Lives(f)
  <2>1. GivenUp(f)' = GivenUp(f) \/ GivenUp(f)' = GivenUp(f) \cup {n}
    BY <1>2, <1>3 DEF GivenUp, Dead
  <2>2. n \notin GivenUp(f)
    BY <1>2 DEF GivenUp, Dead
  <2>3. Cardinality(GivenUp(f) \cup {n}) = Cardinality(GivenUp(f)) + 1 /\ Cardinality(GivenUp(f)) \in Nat
    BY <2>2, Counted, FS_AddElement
  <2>4. CASE GivenUp(f)' = GivenUp(f) \cup {n}
    <3>1. Cardinality(GivenUp(f)') = Cardinality(GivenUp(f)) + 1
      BY <2>3, <2>4
    <3> QED BY <1>2, <2>3, <3>1, Counted DEF Lives
  <2>5. CASE GivenUp(f)' = GivenUp(f)
    <3>1. ASSUME Spare(f)' PROVE Spare(f)
      <4>1. PICK k \in DOMAIN registry : k.file = f /\ k.kind = "repair" /\ Named(k)'.status \in Dead
        BY <1>2, <3>1 DEF Spare
      <4>2. registry[k].batch \in 1..Len(batches) /\ batches[registry[k].batch] = Named(k)
            /\ Named(k)' = batches'[registry[k].batch] /\ Named(k).file = f /\ Named(k).kind = "repair"
        BY <1>2, <4>1, EntryOK DEF Named
      <4>3. registry[k].batch \in GivenUp(f)'
        BY <1>3, <4>1, <4>2 DEF GivenUp
      <4>4. Named(k).status \in Dead
        BY <2>5, <4>2, <4>3 DEF GivenUp
      <4> QED BY <4>1, <4>4 DEF Spare
    <3> QED BY <1>2, <2>3, <2>5, <3>1, Counted DEF Lives
  <2> QED BY <2>1, <2>4, <2>5
<1>7. ASSUME NEW f \in Files, Closed(f) PROVE Rests(f)
  BY <1>2, <1>4, <1>7 DEF Closed, Rests
<1>8. ASSUME NEW f \in Files PROVE (InBudget(f) \/ Closed(f))'
  BY <1>2, <1>4, <1>6, <1>7, FileStays DEF BudgetInv
<1> QED BY <1>5, <1>8 DEF BudgetInv

LEMMA OutageBuys ==
    ASSUME TypeInv, TypeInv', BudgetInv, OutageBegins \/ OutageEnds \/ UNCHANGED vars PROVE BudgetInv'
<1>1. UNCHANGED <<batches, registry, recovery, action, todo, pass, job, deaths>>
  BY DEF OutageBegins, OutageEnds, vars, disk, around
<1>2. ASSUME NEW f \in Files, Closed(f) PROVE Rests(f)
  BY <1>1, <1>2 DEF Closed, Rests, Rounds
<1> QED BY <1>1, <1>2, NothingBought

\* A pass begins with the batch of a file that has no rounds among those to read.
LEMMA OriginalIsRead ==
    ASSUME NEW f \in Files, NEW reg, Original(f) \in DOMAIN reg, RoundsOf(reg, f) = {}
    PROVE  Original(f) \in DOMAIN reg \ superseded_entries(reg)
<1>1. Ranked(reg, f) = {}
  BY DEF Ranked
<1>2. Original(f).file = f
  BY DEF Original, Key
<1> QED BY <1>1, <1>2, SupersededOf

LEMMA PollBuys == ASSUME TypeInv, TypeInv', BudgetInv, Poll PROVE BudgetInv'
<1>1. /\ action = "batch_submitted" /\ UNCHANGED <<batches, recovery, mapped, outcome, around>>
      /\ job' = job /\ deaths' = deaths
  BY DEF Poll, around
<1>2. \/ overall_status(registry) = "completed" /\ BeginPass(registry) /\ registry' = registry
      \/ registry' = polled /\ UNCHANGED <<action, todo, pass>>
      \/ registry' = polled /\ BeginPass(polled)
      \/ overall_status(registry) \in {"cancelled", "no_batches"} /\ Stops /\ registry' = registry
  <2>1. overall_status(registry) \in {"completed", "cancelled", "no_batches", "in_progress", "partial_failed"}
    BY DEF overall_status
  <2> QED BY <2>1 DEF Poll
<1>3. registry' = registry \/ registry' = polled
  BY <1>2
<1>4. /\ DOMAIN registry' = DOMAIN registry
      /\ \A k \in DOMAIN registry :
            /\ registry'[k].batch = registry[k].batch
            /\ registry[k].status = "completed" => registry'[k] = registry[k]
  BY <1>3, EntryOK DEF polled, InFlight, TypeInv, DiskOK, RegistryOK, Entries
<1>5. ASSUME NEW f \in Files
      PROVE  Sent(f)' = Sent(f) /\ Rounds(f)' = Rounds(f) /\ Bounded(f)' = Bounded(f) /\ Lives(f)' = Lives(f)
  <2>1. GivenUp(f)' = GivenUp(f) /\ Sent(f)' = Sent(f) /\ Rounds(f)' = Rounds(f) /\ Bounded(f)' = Bounded(f)
    BY <1>1, <1>4 DEF GivenUp, Sent, Rounds, Bounded, Within
  <2>2. Spare(f)' = Spare(f)
    BY <1>1, <1>4 DEF Spare, Named
  <2> QED BY <1>1, <2>1, <2>2 DEF Lives
<1>6. StatesCount'
  BY <1>1, <1>5 DEF BudgetInv, StatesCount
<1>7. ASSUME NEW f \in Files, Closed(f) PROVE Rests(f)
  <2>1. /\ Original(f) \in DOMAIN registry /\ registry[Original(f)].status = "completed"
        /\ Rounds(f) = {} /\ registry'[Original(f)] = registry[Original(f)]
    BY <1>4, <1>7 DEF Closed
  <2>2. ~(overall_status(registry) \in {"cancelled", "no_batches"})
    <3>1. registry # <<>>
      BY <2>1
    <3>2. {k \in DOMAIN registry : registry[k].status = "completed" \/ Settled(registry[k])} # {}
      BY <2>1
    <3> QED BY <3>1, <3>2 DEF overall_status
  <2>3. RoundsOf(registry', f) = {} /\ Original(f) \in DOMAIN registry'
    BY <1>4, <2>1 DEF Rounds, RoundsOf
  <2>4. Original(f) \in DOMAIN registry' \ superseded_entries(registry')
    BY <2>3, OriginalIsRead
  <2>5. CASE BeginPass(registry')
    <3>1. action' = "checking_batch" /\ todo' = DOMAIN registry' \ superseded_entries(registry')
      BY <2>5 DEF BeginPass, NewPass
    <3> QED BY <1>5, <2>1, <2>3, <2>4, <3>1 DEF Rests
  <2>6. CASE UNCHANGED <<action, todo, pass>>
    BY <1>1, <1>5, <2>1, <2>3, <2>6 DEF Rests
  <2> QED BY <1>2, <2>2, <2>5, <2>6
<1>8. ASSUME NEW f \in Files PROVE (InBudget(f) \/ Closed(f))'
  <2>1. Lives(f) \in Nat
    BY Counted
  <2> QED BY <1>1, <1>5, <1>7, <2>1, FileStays DEF BudgetInv
<1> QED BY <1>6, <1>8 DEF BudgetInv

\* A pass that found a file with its output does not stop the action.
LEMMA EndPassBuys == ASSUME TypeInv, TypeInv', BudgetInv, EndPass PROVE BudgetInv'
<1>1. action = "checking_batch" /\ todo = {} /\ UNCHANGED <<disk, around>>
  BY DEF EndPass
<1>2. ASSUME NEW f \in Files, Closed(f) PROVE Rests(f)
  <2>1. pass.wrote \/ pass.collectedBefore
    BY <1>1, <1>2 DEF Closed
  <2>2. action' \in {"completed", "batch_submitted"}
    BY <2>1 DEF EndPass
  <2> QED BY <1>1, <1>2, <2>2 DEF Closed, Rests, Rounds, disk
<1> QED BY <1>1, <1>2, NothingBought DEF disk, around

-----------------------------------------------------------------------------
(* Reading an entry *)

\* A file whose entry is still to be read, or which has rounds, does not have its output yet.
LEMMA NotClosed ==
    ASSUME NEW k \in DOMAIN registry, ~registry[k].collected, k.kind = "original" => k = Original(k.file)
    PROVE  ~Closed(k.file)
<1>1. k.kind # "original" => k \in Rounds(k.file)
  BY DEF Rounds
<1> QED BY <1>1 DEF Closed

\* The pass leaves the files of other entries as they are.
LEMMA PassRests ==
    ASSUME NEW k \in todo, action = "checking_batch", action' = action, todo' = todo \ {k},
           NEW g \in Files, Closed(g), k # Original(g),
           registry'[Original(g)] = registry[Original(g)], Original(g) \in DOMAIN registry',
           Rounds(g)' = Rounds(g),
           pass.wrote => pass'.wrote, pass.collectedBefore => pass'.collectedBefore \/ pass'.wrote
    PROVE  Rests(g)
BY DEF Closed, Rests

LEMMA LeavesBuys ==
    ASSUME TypeInv, TypeInv', BudgetInv, NEW k \in todo, action = "checking_batch",
           Defers(k) \/ Abandons(k) \/ Notes(k, "unread") \/ Notes(k, "collectedBefore"),
           k \in DOMAIN registry /\ registry[k].collected => Notes(k, "collectedBefore")
    PROVE  BudgetInv'
<1>1. /\ action = "checking_batch" /\ action' = action /\ todo' = todo \ {k}
      /\ UNCHANGED <<batches, registry, recovery, job, deaths>>
  BY DEF Defers, Notes, Leaves, Abandons, Handled, disk, around
<1>2. ASSUME NEW flag \in {"wrote", "collectedBefore", "unread"}, pass' = [pass EXCEPT ![flag] = TRUE]
      PROVE  /\ pass'[flag] = TRUE
             /\ pass.wrote => pass'.wrote
             /\ pass.collectedBefore => pass'.collectedBefore
  <2>1. pass \in Passes
    BY <1>1 DEF TypeInv, ProcessOK
  <2>2. pass' = [[superseded |-> pass.superseded, wrote |-> pass.wrote,
                  collectedBefore |-> pass.collectedBefore, unread |-> pass.unread] EXCEPT ![flag] = TRUE]
    BY <1>2, <2>1 DEF Passes
  <2> QED BY <2>2
<1>3. (pass.wrote => pass'.wrote) /\ (pass.collectedBefore => pass'.collectedBefore)
  <2>1. pass' = pass \/ pass' = [pass EXCEPT !["unread"] = TRUE]
                     \/ pass' = [pass EXCEPT !["collectedBefore"] = TRUE]
    BY DEF Defers, Notes, Abandons
  <2> QED BY <1>2, <2>1
<1>4. ASSUME NEW f \in Files, Closed(f) PROVE Rests(f)
  <2>1. Rounds(f)' = Rounds(f) /\ Original(f) \in DOMAIN registry /\ registry[Original(f)].collected
    BY <1>1, <1>4 DEF Rounds, Closed
  <2>2. CASE k = Original(f)
    <3>1. Notes(k, "collectedBefore")
      BY <2>1, <2>2
    <3>2. pass'["collectedBefore"] = TRUE
      BY <1>2, <3>1 DEF Notes
    <3> QED BY <1>1, <1>4, <2>1, <3>2 DEF Closed, Rests
  <2>3. CASE k # Original(f)
    BY <1>1, <1>3, <1>4, <2>1, <2>3, PassRests
  <2> QED BY <2>2, <2>3
<1> QED BY <1>1, <1>4, NothingBought

\* Entries are marked or removed, and nothing is sent.
LEMMA NothingSent ==
    ASSUME TypeInv, TypeInv', BudgetInv, UNCHANGED <<batches, job>>,
           deaths' = deaths \/ deaths' = deaths + 1,
           \A j \in DOMAIN registry' : j \in DOMAIN registry /\ registry'[j].batch = registry[j].batch,
           \A f \in Files : \/ recovery'[f] = None
                            \/ recovery'[f] = recovery[f] /\ Rounds(f)' = Rounds(f),
           \A f \in Files : deaths' = deaths =>
              \/ recovery'[f] = recovery[f] /\ (Closed(f) => Rests(f))
              \/ (InBudget(f) \/ Closed(f))'
    PROVE  BudgetInv'
<1>1. StatesCount'
  <2>1. \A f \in Files : recovery'[f] = recovery[f] => Bounded(f)' = Bounded(f)
    BY DEF Bounded, Within
  <2> QED BY <2>1 DEF BudgetInv, StatesCount, Bounded
<1>2. deaths \in Nat /\ Len(batches) \in Nat
  BY DEF TypeInv, AroundOK, DiskOK
<1>3. ASSUME NEW f \in Files PROVE (InBudget(f) \/ Closed(f))'
  <2>1. Sent(f)' = Sent(f) /\ GivenUp(f)' = GivenUp(f)
    BY DEF Sent, GivenUp
  <2>2. Lives(f)' >= Lives(f) + (deaths' - deaths) /\ Lives(f) \in Nat /\ Lives(f)' \in Nat
    BY <1>2, <2>1, LivesKept, Counted, CountableNext
  <2>3. CASE deaths' = deaths
    <3>1. Lives(f)' >= Lives(f)
      BY <1>2, <2>2, <2>3
    <3>2. CASE recovery'[f] = recovery[f] /\ (Closed(f) => Rests(f))
      BY <2>1, <3>1, <3>2, FileStays DEF BudgetInv
    <3> QED BY <2>3, <3>2
  <2>4. CASE deaths' = deaths + 1
    <3>1. Lives(f)' >= Lives(f) + 1
      BY <1>2, <2>2, <2>4
    <3> QED BY <2>1, <3>1, DeathCovers
  <2> QED BY <2>3, <2>4
<1> QED BY <1>1, <1>3 DEF BudgetInv

\* The provider gave a file's own batch up: whatever it was owed, it is not closed.
LEMMA FailUnreadableBuys ==
    ASSUME TypeInv, TypeInv', BudgetInv, action = "checking_batch",
           NEW k \in todo \cap DOMAIN registry, k.kind = "original", ~registry[k].collected,
           FailUnreadable(k)
    PROVE  BudgetInv'
<1>1. PICK writes \in 1..2 :
          /\ registry' = IF writes = 2 THEN [registry EXCEPT ![k].collected = TRUE] ELSE registry
          /\ Through(writes, 2, Handled(k) /\ UNCHANGED pass)
          /\ UNCHANGED <<batches, recovery, mapped>>
  BY DEF FailUnreadable
<1>2. k.file \in Files /\ k = Original(k.file) /\ deaths \in Nat
  BY EntryOK DEF TypeInv, AroundOK
<1>3. /\ job' = job
      /\ writes = 2 => deaths' = deaths /\ Handled(k) /\ pass' = pass
      /\ writes # 2 => deaths' = deaths + 1
  BY <1>1 DEF Through
<1>4. /\ DOMAIN registry' = DOMAIN registry
      /\ \A j \in DOMAIN registry : registry'[j].batch = registry[j].batch /\ (j # k => registry'[j] = registry[j])
  <2>1. registry \in [DOMAIN registry -> Entries]
    BY DEF TypeInv, DiskOK, RegistryOK
  <2> QED BY <1>1, <2>1 DEF Entries
<1>5. \A g \in Files : Rounds(g)' = Rounds(g)
  BY <1>4 DEF Rounds
<1>6. ASSUME NEW g \in Files, Closed(g), deaths' = deaths PROVE Rests(g)
  <2>1. ~Closed(k.file)
    BY <1>2, NotClosed
  <2>2. g # k.file /\ Original(g).file = g
    BY <1>6, <2>1 DEF Original, Key
  <2>3. k # Original(g)
    BY <2>2
  <2>4. Original(g) \in DOMAIN registry
    BY <1>6 DEF Closed
  <2>5. Handled(k) /\ pass' = pass
    BY <1>2, <1>3, <1>6
  <2> QED BY <1>4, <1>5, <1>6, <2>3, <2>4, <2>5, PassRests DEF Handled
<1> QED BY <1>1, <1>3, <1>4, <1>5, <1>6, NothingSent

\* A round without a state goes: its file has bought what it had.
LEMMA DropEntryBuys ==
    ASSUME TypeInv, TypeInv', BudgetInv, action = "checking_batch",
           NEW k \in todo \cap DOMAIN registry, k.kind # "original", ~registry[k].collected,
           recovery[k.file] = None, DropEntry(k)
    PROVE  BudgetInv'
<1>1. /\ registry' = Restricted(registry, DOMAIN registry \ {k}) /\ Handled(k)
      /\ UNCHANGED <<batches, recovery, pass, job, deaths>>
  BY DEF DropEntry, around
<1>2. /\ DOMAIN registry' = DOMAIN registry \ {k}
      /\ \A j \in DOMAIN registry' : registry'[j] = registry[j]
  BY <1>1 DEF Restricted
<1>3. \A g \in Files : g # k.file => Rounds(g)' = Rounds(g)
  BY <1>2 DEF Rounds
<1>4. \A g \in Files : recovery'[g] = None \/ (recovery'[g] = recovery[g] /\ Rounds(g)' = Rounds(g))
  BY <1>1, <1>3
<1>5. ASSUME NEW g \in Files, Closed(g) PROVE Rests(g)
  <2>1. g # k.file
    BY <1>5, NotClosed
  <2>2. Original(g).kind = "original" /\ Original(g) \in DOMAIN registry
    BY <1>5 DEF Original, Key, Closed
  <2>3. k # Original(g)
    BY <2>2
  <2> QED BY <1>1, <1>2, <1>3, <1>5, <2>1, <2>2, <2>3, PassRests DEF Handled
<1> QED BY <1>1, <1>2, <1>4, <1>5, NothingSent

\* A file has its output: what it bought, it bought in the lives it had.
LEMMA FinalizesBuys ==
    ASSUME BudgetInv, TypeInv', NEW k, Read(k), NEW results, NEW exhausted, Settling(k.file),
           Finalizes(k, results, exhausted)
    PROVE  BudgetInv'
<1> USE DEF Read, RoundsInv
<1> DEFINE f == k.file
           marked == [registry EXCEPT ![Original(f)].collected = TRUE]
           rest == {j \in DOMAIN marked : j.file # f \/ j.kind = "original"}
<1>1. PICK writes \in 1..4 :
          /\ recovery' = [recovery EXCEPT ![f] = None]
          /\ registry' = CASE writes <= 2 -> registry
                           [] writes = 3 -> marked
                           [] writes = 4 -> Restricted(marked, rest)
          /\ Through(writes, 4, Handled(k) /\ pass' = [pass EXCEPT !.wrote = TRUE])
          /\ UNCHANGED <<batches, mapped>>
  BY DEF Finalizes
<1>2. /\ f \in Files /\ deaths \in Nat /\ action = "checking_batch" /\ k \in todo /\ pass \in Passes
      /\ k.kind = "original" => k = Original(f)
  BY EntryOK DEF TypeInv, AroundOK, ProcessOK
<1>3. /\ job' = job
      /\ writes = 4 => deaths' = deaths /\ Handled(k) /\ pass' = [pass EXCEPT !.wrote = TRUE]
      /\ writes # 4 => deaths' = deaths + 1
  BY <1>1 DEF Through
<1>4. \A g \in Files : (g = f /\ recovery'[g] = None) \/ (g # f /\ recovery'[g] = recovery[g])
  <2>1. recovery = [g \in Files |-> recovery[g]]
    BY DEF TypeInv, DiskOK, RecoveryOK
  <2> QED BY <1>1, <2>1
<1>5. /\ \A j \in DOMAIN registry' :
            /\ j \in DOMAIN registry /\ registry'[j].batch = registry[j].batch
            /\ j # Original(f) => registry'[j] = registry[j]
      /\ \A j \in DOMAIN registry : j.file # f \/ j.kind = "original" => j \in DOMAIN registry'
      /\ writes = 4 => /\ registry'[Original(f)].status = registry[Original(f)].status
                       /\ registry'[Original(f)].collected
                       /\ Rounds(f)' = {}
  <2>1. registry \in [DOMAIN registry -> Entries] /\ Original(f) \in DOMAIN registry
        /\ Original(f).kind = "original"
    BY DEF TypeInv, DiskOK, RegistryOK, Settling, Original, Key
  <2>2. /\ DOMAIN marked = DOMAIN registry
        /\ \A j \in DOMAIN registry :
              /\ marked[j].batch = registry[j].batch
              /\ j # Original(f) => marked[j] = registry[j]
        /\ marked[Original(f)].status = registry[Original(f)].status
        /\ marked[Original(f)].collected
    BY <2>1 DEF Entries
  <2>3. /\ registry' \in {registry, marked, Restricted(marked, rest)}
        /\ writes = 4 => registry' = Restricted(marked, rest)
    BY <1>1
  <2> HIDE DEF marked
  <2>4. writes = 4 => /\ registry'[Original(f)] = marked[Original(f)]
                      /\ \A j \in DOMAIN registry' : j.file # f \/ j.kind = "original"
    BY <2>1, <2>2, <2>3 DEF Restricted
  <2> QED BY <2>1, <2>2, <2>3, <2>4 DEF Restricted, Rounds
<1>6. Original(f) \in DOMAIN registry /\ registry[Original(f)].status = "completed"
      /\ Original(f).kind = "original"
  BY EntryOK DEF Settling, NamedInv, EntriesTell, PassAlone, Original, Key, Conditions, Dead
<1>7. \A g \in Files : g # f => Rounds(g)' = Rounds(g)
  BY <1>5 DEF Rounds, Original, Key
<1>8. ASSUME deaths' = deaths PROVE Closed(f)'
  <2>1. writes = 4 /\ Handled(k) /\ pass'.wrote /\ action' = "checking_batch"
    BY <1>2, <1>3, <1>8 DEF Passes, Handled
  <2>2. Sent(f)' = Sent(f) /\ GivenUp(f)' = GivenUp(f)
    BY <1>1 DEF Sent, GivenUp
  <2>3. Lives(f)' >= Lives(f) /\ Lives(f) \in Nat /\ Lives(f)' \in Nat
    <3>1. deaths' >= deaths /\ batches' = batches
      BY <1>1, <1>2, <1>8
    <3>2. \A j \in DOMAIN registry' : j \in DOMAIN registry /\ registry'[j].batch = registry[j].batch
      BY <1>5
    <3>3. Lives(f)' >= Lives(f) + (deaths' - deaths)
      BY <1>2, <2>2, <3>1, <3>2, LivesKept
    <3>4. Lives(f) \in Nat /\ Lives(f)' \in Nat
      BY <1>2, Counted, CountableNext
    <3> QED BY <1>2, <1>8, <3>3, <3>4
  <2>4. /\ Cardinality(Sent(f)) \in Nat /\ Purse \in Nat /\ Spent(f) \in Nat /\ Spent(f) <= Purse
        /\ Purse' = Purse
    BY <1>2, <1>3, Counted DEF BudgetInv, StatesCount, Purse
  <2>5. ~Closed(f)
    BY <1>2, NotClosed
  <2>6. Cardinality(Sent(f)) <= Purse * Lives(f) + Spent(f)
    BY <1>2, <2>5 DEF BudgetInv, InBudget
  <2>7. Purse * (Lives(f)' + 1) = Purse * Lives(f)' + Purse /\ Purse * Lives(f) <= Purse * Lives(f)'
        /\ Purse * Lives(f) \in Int /\ Purse * Lives(f)' \in Int
    <3>1. Lives(f) <= Lives(f)'
      BY <2>3
    <3> HIDE DEF Purse
    <3>2. \A l, m \in Int : l <= m => Purse * l <= Purse * m /\ Purse * (m + 1) = Purse * m + Purse
      BY <2>4, Purses
    <3>3. \A l \in Int : Purse * l \in Int
      BY <2>4, Purses
    <3>4. Lives(f) \in Int /\ Lives(f)' \in Int
      BY <2>3
    <3> QED BY <3>1, <3>2, <3>3, <3>4
  <2>8. Cardinality(Sent(f)') <= Purse * (Lives(f)' + 1)
    BY <2>2, <2>4, <2>6, <2>7
  <2>9. (Cardinality(Sent(f)) <= Purse * (Lives(f) + 1))'
    BY <2>4, <2>8
  <2> QED BY <1>2, <1>4, <1>5, <1>6, <2>1, <2>9 DEF Closed
<1>9. ASSUME NEW g \in Files, g # f, Closed(g), deaths' = deaths PROVE Rests(g)
  <2>1. Original(g).file = g /\ Original(g).kind = "original" /\ Original(f).file = f
    BY DEF Original, Key
  <2>2. Original(g) # Original(f) /\ k # Original(g) /\ Original(g) \in DOMAIN registry
    BY <1>9, <2>1 DEF Closed
  <2>3. writes = 4 /\ Handled(k) /\ pass'.wrote
    BY <1>2, <1>3, <1>9 DEF Passes
  <2> QED BY <1>2, <1>5, <1>7, <1>9, <2>1, <2>2, <2>3, PassRests DEF Handled
<1>10. \A g \in Files : deaths' = deaths =>
          \/ recovery'[g] = recovery[g] /\ (Closed(g) => Rests(g))
          \/ (InBudget(g) \/ Closed(g))'
  BY <1>4, <1>8, <1>9
<1>11. \A g \in Files : recovery'[g] = None \/ (recovery'[g] = recovery[g] /\ Rounds(g)' = Rounds(g))
  BY <1>4, <1>7
<1> QED BY <1>1, <1>2, <1>3, <1>5, <1>10, <1>11, NothingSent

\* A round is bought, and counted: over what was counted before or, where the file's own
\* batch is read anew, in a new life.
LEMMA RegistersBuys ==
    ASSUME BudgetInv, TypeInv', NEW k, Read(k), NEW kind \in {"retry", "repair"}, NEW attempt,
           NEW holds, NEW state, state # None, Follows(k, state),
           Registers(k, kind, attempt, holds, state)
    PROVE  BudgetInv'
<1> USE DEF Read, RoundsInv
<1> DEFINE f     == k.file
           key   == Key(f, kind, attempt)
           named == Naming(key)
           Replaced(j) == j.file = f /\ j.kind # "original" /\ j # key
           rest == {j \in DOMAIN named : ~Replaced(j)}
<1>1. PICK writes \in 1..4 :
          /\ Takes(f, kind, holds)
          /\ registry' = CASE writes = 1 -> registry
                           [] writes = 2 -> named
                           [] writes >= 3 -> Restricted(named, rest)
          /\ recovery' = IF writes = 4 THEN [recovery EXCEPT ![f] = state] ELSE recovery
          /\ Through(writes, 4, Handled(k) /\ UNCHANGED pass)
  BY DEF Registers
<1>2. /\ f \in Files /\ key.file = f /\ key.kind = kind /\ kind # "original" /\ deaths \in Nat
      /\ k.kind = "original" => k = Original(f)
  BY EntryOK DEF Key, TypeInv, AroundOK
<1>3. InBudget(f) /\ ~Closed(f)
  BY <1>2, NotClosed DEF BudgetInv
<1>4. /\ Within(state)
      /\ Total(state) = Spent(f) + 1 \/ (k.kind = "original" /\ Total(state) = 1)
      /\ Total(state) \in Nat \ {0} /\ Spent(f) \in Nat /\ Spent(f) <= Purse /\ Purse \in Nat /\ Purse > 0
  <2>1. Within(state) /\ (Total(state) = Spent(f) + 1 \/ (k.kind = "original" /\ Total(state) = 1))
    BY <1>2 DEF Follows, BudgetInv, StatesCount
  <2>2. Spent(f) \in Nat /\ Spent(f) <= Purse /\ Purse \in Nat
    BY <1>2, Counted DEF BudgetInv, StatesCount
  <2>3. Total(state) <= Purse
    BY <1>2, <2>1, RecoveryIsState DEF Within, Total, Purse
  <2>4. Total(state) \in Nat \ {0}
    BY <2>1, <2>2
  <2> QED BY <2>1, <2>2, <2>3, <2>4
<1>5. /\ job' = job
      /\ writes = 4 => deaths' = deaths /\ Handled(k) /\ pass' = pass
      /\ writes # 4 => deaths' = deaths + 1
  BY <1>1 DEF Through
<1>6. /\ \A n \in 1..Len(batches) : batches'[n] = batches[n]
      /\ batches'[Len(batches) + 1].status = "out"
      /\ \A g \in Files : /\ GivenUp(g)' = GivenUp(g)
                          /\ g # f => Sent(g)' = Sent(g)
                          /\ Cardinality(Sent(g)') \in Nat
                          /\ Cardinality(Sent(g)') <= Cardinality(Sent(g)) + 1
  BY <1>1, <1>2, ListGrows, SentGrows
<1>7. /\ \A j \in DOMAIN registry' :
            \/ j = key /\ registry'[j].status = "out" /\ Named(j)'.status = "out"
            \/ j \in DOMAIN registry /\ registry'[j] = registry[j]
      /\ \A j \in DOMAIN registry : j.file # f \/ j.kind = "original" =>
            j \in DOMAIN registry' /\ registry'[j] = registry[j]
      /\ writes = 1 => registry' = registry
      /\ writes # 1 => key \in DOMAIN registry' /\ registry'[key] = NewEntry
      /\ writes = 4 => \A j \in DOMAIN registry' : j.file = f /\ j.kind # "original" => j = key
  <2>1. /\ DOMAIN named = DOMAIN registry \cup {key} /\ named[key] = NewEntry
        /\ \A j \in DOMAIN registry : j # key => named[j] = registry[j]
    BY DEF Naming
  <2>2. /\ writes = 1 => registry' = registry
        /\ writes # 1 => registry' = named \/ registry' = Restricted(named, rest)
        /\ writes = 4 => registry' = Restricted(named, rest)
    BY <1>1
  <2>3. \A j \in DOMAIN registry' : registry'[j] = NewEntry => Named(j)'.status = "out"
    BY <1>6 DEF Named, NewEntry
  <2>4. NewEntry.status = "out"
    BY DEF NewEntry
  <2> HIDE DEF named, key
  <2> QED BY <1>2, <2>1, <2>2, <2>3, <2>4 DEF Restricted
<1>8. /\ \A g \in Files : g # f => Rounds(g)' = Rounds(g)
      /\ writes = 1 => Rounds(f)' = Rounds(f)
      /\ writes # 1 => key \in Rounds(f)'
      /\ writes = 4 => Rounds(f)' = {key}
  BY <1>2, <1>7 DEF Rounds
<1>9. \A g \in Files : recovery'[g] = IF writes = 4 /\ g = f THEN state ELSE recovery[g]
  <2>1. recovery = [g \in Files |-> recovery[g]]
    BY DEF TypeInv, DiskOK, RecoveryOK
  <2> QED BY <1>1, <2>1
<1>10. StatesCount'
  <2>1. ASSUME NEW g \in Files PROVE Bounded(g)' /\ (recovery'[g] # None => Rounds(g)' # {})
    <3>1. Bounded(g) /\ (recovery[g] # None => Rounds(g) # {})
      BY DEF BudgetInv, StatesCount
    <3>2. CASE writes = 4 /\ g = f
      <4>1. recovery'[g] = state
        BY <1>9, <3>2
      <4>2. Rounds(g)' # {}
        BY <1>8, <3>2
      <4>3. (Within(recovery[g]))'
        BY <1>4, <1>5, <4>1 DEF Within
      <4> QED BY <4>2, <4>3 DEF Bounded
    <3>3. CASE ~(writes = 4 /\ g = f)
      <4>1. recovery'[g] = recovery[g] /\ (Rounds(g) # {} => Rounds(g)' # {})
        BY <1>8, <1>9, <3>3
      <4>2. Bounded(g)' = Bounded(g)
        BY <1>5, <4>1 DEF Bounded, Within
      <4> QED BY <3>1, <4>1, <4>2
    <3> QED BY <3>2, <3>3
  <2> QED BY <2>1 DEF StatesCount
<1>11. ASSUME NEW g \in Files
       PROVE  /\ Lives(g)' >= Lives(g) + (deaths' - deaths) /\ Lives(g) \in Nat /\ Lives(g)' \in Nat
              /\ Spare(g) /\ ~Spare(g)' => Lives(g)' >= Lives(g) + 1
  <2>1. deaths' >= deaths
    BY <1>2, <1>5
  <2>2. \A j \in DOMAIN registry' :
           \/ registry'[j].status = "out" /\ Named(j)'.status = "out"
           \/ j \in DOMAIN registry /\ registry'[j].batch = registry[j].batch
    BY <1>7
  <2> QED BY <1>6, <2>1, <2>2, LivesKept, Counted, CountableNext
<1>12. ASSUME NEW g \in Files, deaths' = deaths + 1 PROVE InBudget(g)'
  <2>1. Lives(g)' >= Lives(g) + 1 /\ recovery'[g] = recovery[g]
    BY <1>2, <1>5, <1>9, <1>11, <1>12
  <2>2. CASE g = f
    BY <1>3, <1>4, <1>5, <1>6, <2>1, <2>2, DeathCovers
  <2>3. CASE g # f
    BY <1>5, <1>6, <2>1, <2>3, DeathCovers
  <2> QED BY <2>2, <2>3
<1>13. ASSUME NEW g \in Files, g # f, writes = 4 PROVE (InBudget(g) \/ Closed(g))'
  <2>1. Lives(g)' >= Lives(g) /\ recovery'[g] = recovery[g] /\ Sent(g)' = Sent(g)
    BY <1>2, <1>5, <1>6, <1>9, <1>11, <1>13
  <2>2. ASSUME Closed(g) PROVE Rests(g)
    <3>1. Original(g).file = g /\ Original(g).kind = "original"
      BY DEF Original, Key
    <3>2. Original(g) \in DOMAIN registry /\ k # Original(g)
      BY <1>13, <2>2, <3>1 DEF Closed
    <3> QED BY <1>5, <1>7, <1>8, <1>13, <2>2, <3>1, <3>2, PassRests DEF Handled
  <2> QED BY <1>5, <2>1, <2>2, FileStays DEF BudgetInv
<1>14. ASSUME writes = 4 PROVE InBudget(f)'
  <2>1. Spent(f)' = Total(state) /\ Lives(f)' >= Lives(f)
    BY <1>2, <1>5, <1>9, <1>11, <1>14 DEF Spent, Total
  <2>2. CASE Total(state) = Spent(f) + 1
    BY <1>2, <1>3, <1>5, <1>6, <2>1, <2>2, BudgetStays
  <2>3. CASE k.kind = "original" /\ Total(state) = 1 /\ Spent(f) # 0
    <3>1. recovery[f] # None /\ Rounds(f) # {}
      BY <1>2, <2>3 DEF Spent, BudgetInv, StatesCount
    <3>2. Spare(f)
      BY <1>2, <2>3, <3>1 DEF Spare, Rounds, NamedInv, PassReads
    <3>3. ~Spare(f)'
      <4>1. ASSUME NEW j \in DOMAIN registry', j.file = f, j.kind = "repair" PROVE Named(j)'.status = "out"
        <5>1. j = key /\ registry'[j] = NewEntry
          BY <1>7, <1>14, <4>1
        <5> QED BY <1>6, <5>1 DEF Named, NewEntry
      <4> QED BY <4>1 DEF Spare, Dead
    <3>4. Lives(f)' >= Lives(f) + 1 /\ Lives(f) \in Nat /\ Lives(f)' \in Nat
      BY <1>2, <1>11, <3>2, <3>3
    <3>5. /\ Purse * (Lives(f) + 1) = Purse * Lives(f) + Purse
          /\ Purse * (Lives(f) + 1) <= Purse * Lives(f)'
          /\ Purse * Lives(f) \in Int /\ Purse * Lives(f)' \in Int
      <4> HIDE DEF Purse
      <4>1. Lives(f) + 1 \in Int /\ Lives(f) + 1 <= Lives(f)' /\ Lives(f) <= Lives(f)
        BY <3>4
      <4>2. Purse * (Lives(f) + 1) <= Purse * Lives(f)'
        BY <1>4, <3>4, <4>1, Purses
      <4>3. Purse * (Lives(f) + 1) = Purse * Lives(f) + Purse /\ Purse * Lives(f) \in Int
        <5>1. \A l \in Int : l <= l
          OBVIOUS
        <5>2. \A l \in Int : Purse * (l + 1) = Purse * l + Purse /\ Purse * l \in Int
          BY <1>4, <5>1, Purses
        <5> QED BY <3>4, <5>2
      <4>4. Purse * Lives(f)' \in Int
        BY <1>4, <3>4
      <4> QED BY <4>2, <4>3, <4>4
    <3>6. Cardinality(Sent(f)) <= Purse * Lives(f) + Spent(f) /\ Cardinality(Sent(f)) \in Nat
          /\ Purse' = Purse
      BY <1>2, <1>3, <1>5, Counted DEF InBudget, Purse
    <3>7. Cardinality(Sent(f)') <= Purse * Lives(f)' + Spent(f)'
      BY <1>2, <1>4, <1>6, <2>1, <2>3, <3>5, <3>6
    <3> QED BY <3>6, <3>7 DEF InBudget
  <2> QED BY <1>4, <2>2, <2>3
<1>15. ASSUME NEW g \in Files PROVE (InBudget(g) \/ Closed(g))'
  <2>1. CASE deaths' = deaths + 1
    BY <1>12, <2>1
  <2>2. CASE writes = 4
    BY <1>13, <1>14, <2>2
  <2> QED BY <1>5, <2>1, <2>2
<1> QED BY <1>10, <1>15 DEF BudgetInv

LEMMA ReadEntryBuys ==
    ASSUME RoundsInv, TypeInv', BudgetInv, NEW k \in todo, ReadEntry(k) PROVE BudgetInv'
<1>1. action = "checking_batch" /\ TypeInv
  BY DEF ReadEntry, RoundsInv
<1>2. CASE \/ Defers(k) \/ Abandons(k) \/ Notes(k, "unread") \/ Notes(k, "collectedBefore")
  <2>1. CASE k \in DOMAIN registry /\ registry[k].collected
    <3>1. Notes(k, "collectedBefore")
      BY <2>1 DEF ReadEntry
    <3> QED BY <1>1, <3>1, LeavesBuys
  <2>2. CASE ~(k \in DOMAIN registry /\ registry[k].collected)
    BY <1>1, <1>2, <2>2, LeavesBuys
  <2> QED BY <2>1, <2>2
<1>3. ASSUME k \in DOMAIN registry, ~registry[k].collected, Readable(k), Process(k)
      PROVE  BudgetInv'
  <2>1. Read(k)
    BY <1>1, <1>3 DEF Read
  <2>2. k.file \in Files
    BY <1>1, <1>3, EntryOK
  <2>3. k.kind = "original" \/ recovery[k.file] # None => Settling(k.file)
    BY <2>1, <2>2, ReadAlone DEF RoundsInv, NamedInv, RoundsWait
  <2>4. CASE Sends(k)
    <3>1. PICK kind \in {"retry", "repair"} : \E attempt, holds, state :
             state # None /\ Follows(k, state) /\ Registers(k, kind, attempt, holds, state)
      BY <2>4 DEF Sends
    <3>2. PICK attempt, holds, state :
             state # None /\ Follows(k, state) /\ Registers(k, kind, attempt, holds, state)
      BY <3>1
    <3> QED BY <2>1, <3>2, RegistersBuys
  <2>5. CASE Ends(k) /\ Settling(k.file)
    <3>1. PICK results, exhausted : Finalizes(k, results, exhausted)
      BY <2>5 DEF Ends
    <3> QED BY <2>1, <2>5, <3>1, FinalizesBuys
  <2>6. CASE k.kind # "original" /\ recovery[k.file] = None /\ DropEntry(k)
    BY <1>1, <1>3, <2>6, DropEntryBuys
  <2>7. CASE Defers(k)
    BY <1>2, <2>7
  <2> QED BY <1>1, <1>3, <2>2, <2>3, <2>4, <2>5, <2>6, <2>7, ProcessActs
<1>4. CASE /\ k \in DOMAIN registry /\ ~registry[k].collected
           /\ k.kind = "original" /\ FailUnreadable(k)
  BY <1>1, <1>4, FailUnreadableBuys
<1>5. \/ Defers(k) \/ Abandons(k) \/ Notes(k, "unread") \/ Notes(k, "collectedBefore")
      \/ k \in DOMAIN registry /\ ~registry[k].collected /\ k.kind = "original" /\ FailUnreadable(k)
      \/ k \in DOMAIN registry /\ ~registry[k].collected /\ Readable(k) /\ Process(k)
  BY DEF ReadEntry, Unasked
<1> QED BY <1>2, <1>3, <1>4, <1>5

-----------------------------------------------------------------------------
(* Every step *)

LEMMA NextBuys == ASSUME RoundsInv, TypeInv', BudgetInv, [Next]_vars PROVE BudgetInv'
<1>1. TypeInv
  BY DEF RoundsInv
<1>2. CASE BeginRun \/ Submitted
  BY <1>1, <1>2, BeginRunBuys
<1>3. CASE \E f \in Files : submit_batch_job(f)
  BY <1>1, <1>3, SubmitBuys
<1>4. CASE Poll
  BY <1>1, <1>4, PollBuys
<1>5. CASE EndPass
  BY <1>1, <1>5, EndPassBuys
<1>6. CASE Provider
  BY <1>1, <1>6, ProviderBuys
<1>7. CASE \E k \in todo : ReadEntry(k)
  BY <1>7, ReadEntryBuys
<1>8. CASE OutageBegins \/ OutageEnds \/ UNCHANGED vars
  BY <1>1, <1>8, OutageBuys
<1> QED BY <1>2, <1>3, <1>4, <1>5, <1>6, <1>7, <1>8 DEF Next, Run

\* What a file bought is within what its lives allow, and the count of the life it is in; and
\* a file that has its output is not sent again before the process dies.
THEOREM RoundsCounted == Spec => []BudgetInv
<1>1. Init /\ TypeInv => BudgetInv
  <2> SUFFICES ASSUME Init, TypeInv, NEW f \in Files
               PROVE  Bounded(f) /\ recovery[f] = None /\ InBudget(f)
    BY DEF BudgetInv, StatesCount
  <2>1. recovery[f] = None /\ Len(batches) = 0 /\ Bounded(f) /\ Spent(f) = 0
    BY DEF Init, Bounded, Spent
  <2>2. Sent(f) = {} /\ Cardinality(Sent(f)) = 0
    BY <2>1, FS_EmptySet DEF Sent
  <2>3. Purse \in Nat /\ Lives(f) \in Nat
    BY Counted
  <2>4. 0 <= Purse * Lives(f)
    <3> HIDE DEF Purse
    <3>1. Purse * 0 <= Purse * Lives(f)
      BY <2>3, Purses
    <3> QED BY <2>3, <3>1
  <2> QED BY <2>1, <2>2, <2>3, <2>4 DEF InBudget
<1>2. RoundsInv /\ BudgetInv /\ [Next]_vars /\ TypeInv' => BudgetInv'
  BY NextBuys
<1> QED BY <1>1, <1>2, RegistrySound, RoundsAlone, PTL DEF Spec

\* A file buys a bounded number of rounds, for any files, jobs and number of mishaps: its
\* retries and repair rounds are those the job allows, once, and again for each death of the
\* process and each repair the provider gave up.
THEOREM RoundsBought == Spec => []RoundsBounded
<1>1. TypeInv /\ BudgetInv => RoundsBounded
  <2> SUFFICES ASSUME TypeInv, BudgetInv, NEW f \in Files
               PROVE  Cardinality(Sent(f)) <= Purse * (1 + deaths + Cardinality(GivenUp(f)))
    BY DEF RoundsBounded, DeadRepairs, Sent, GivenUp, Purse, TypeInv, DiskOK
  <2> DEFINE all == 1 + deaths + Cardinality(GivenUp(f))
  <2>1. /\ Cardinality(Sent(f)) \in Nat /\ Purse \in Nat /\ Lives(f) \in Nat /\ all \in Nat
        /\ Spent(f) \in Nat /\ Spent(f) <= Purse /\ Lives(f) + 1 <= all
    BY Counted DEF BudgetInv, StatesCount
  <2> HIDE DEF all, Purse
  <2>2. Lives(f) + 1 \in Int /\ all \in Int /\ Lives(f) <= Lives(f) + 1
    BY <2>1
  <2>3. Purse * (Lives(f) + 1) <= Purse * all /\ Purse * (Lives(f) + 1) \in Int
    BY <2>1, <2>2, Purses
  <2>4. Purse * (Lives(f) + 1) = Purse * Lives(f) + Purse /\ Purse * Lives(f) \in Int
    <3>1. \A l \in Int : l <= l
      OBVIOUS
    <3>2. \A l \in Int : Purse * (l + 1) = Purse * l + Purse /\ Purse * l \in Int
      BY <2>1, <3>1, Purses
    <3>3. Lives(f) \in Int
      BY <2>1
    <3> QED BY <3>2, <3>3
  <2>5. Purse * all \in Int
    BY <2>1
  <2>6. Cardinality(Sent(f)) <= Purse * all
    <3>1. CASE InBudget(f)
      BY <2>1, <2>3, <2>4, <2>5, <3>1 DEF InBudget
    <3>2. CASE Closed(f)
      BY <2>1, <2>3, <2>5, <3>2 DEF Closed
    <3> QED BY <3>1, <3>2 DEF BudgetInv
  <2> QED BY <2>6 DEF all
<1> QED BY <1>1, RegistrySound, RoundsCounted, PTL

-----------------------------------------------------------------------------
(* What becomes of the answers of a file whose repairs were not given up, while the process *)
(* lives.  What a record was last sent for is always in one place: stored, gathered in the  *)
(* recovery state, or at the batch an entry names, and each handler moves it on from where  *)
(* it is.                                                                                   *)

\* n is what is known of r: the newest batch that held it, if that batch answered it.
Right(f, r, n) ==
    /\ n # Lost => Newest(f, r, n)
    /\ \A m \in Batches(f, r) : Newest(f, r, m) /\ r \in Answered(batches[m]) => n = m

StoredOf(f, r) == IF HasAnswer(f, r) THEN outcome[f][r].from ELSE Lost
Says(p, r) == IF r \in DOMAIN p THEN p[r] ELSE Lost

\* A pool has what is known of each record of S.
Gathers(f, p, S) == DOMAIN p \subseteq S /\ \A r \in S : Right(f, r, Says(p, r))

\* A batch holds S, and nothing newer holds a record of it.
Latest(f, n, S) == batches[n].holds = S /\ \A r \in S : Newest(f, r, n)

\* The state of a round says what the round holds, and gathers what is known of the rest of
\* the records of the file's own batch.
Carries(f, kind, holds, s) ==
    /\ holds \subseteq mapped[f]
    /\ kind = "retry" => /\ s.missing = holds /\ DOMAIN s.pool = {}
                         /\ Gathers(f, s.accumulated, mapped[f] \ holds)
    /\ kind # "retry" => s.held = holds /\ Gathers(f, s.pool, mapped[f] \ holds)

\* A batch answers when it completes.
Silent == \A n \in 1..Len(batches) : batches[n].status # "completed" => Answered(batches[n]) = {}

Traced(f) ==
    /\ \A r \in job.inputs[f] :
          IF Watched(f) /\ r \in mapped[f] THEN ~HasAnswer(f, r) ELSE Right(f, r, StoredOf(f, r))
    /\ Watched(f) /\ recovery[f] = None => Latest(f, registry[Original(f)].batch, mapped[f])
    /\ \A k \in Rounds(f) : LET n == registry[k].batch IN
          Latest(f, n, batches[n].holds) /\ Carries(f, k.kind, batches[n].holds, recovery[f])

AnswersInv == Silent /\ (deaths = 0 => \A f \in Files : GivenUp(f) = {} => Traced(f))

\* What the other invariants say that this one rests on.
BatchesInv == RoundsInv /\ EntriesInv /\ StatesCount

-----------------------------------------------------------------------------
(* Batches and what is known of records *)

\* What is known of r changes only with the batches that hold it.
Alike(f, r) == \A n : (Newest(f, r, n)' <=> Newest(f, r, n)) /\ (Right(f, r, n)' <=> Right(f, r, n))

LEMMA RightStays ==
    ASSUME TypeInv, TypeInv', NEW f \in Files, NEW r,
           Len(batches) <= Len(batches'),
           \A n \in 1..Len(batches) :
              /\ batches'[n].file = batches[n].file /\ batches'[n].holds = batches[n].holds
              /\ n \in Batches(f, r) => (r \in Answered(batches'[n]) <=> r \in Answered(batches[n])),
           \A n \in 1..Len(batches') : n \in 1..Len(batches)
                                       \/ ~(batches'[n].file = f /\ r \in batches'[n].holds)
    PROVE  Alike(f, r)
<1>1. DOMAIN batches = 1..Len(batches) /\ DOMAIN batches' = 1..Len(batches')
      /\ Len(batches) \in Nat /\ Len(batches') \in Nat
  BY DEF TypeInv, DiskOK
<1>2. Batches(f, r)' = Batches(f, r)
  BY <1>1 DEF Batches
<1>3. \A n : Newest(f, r, n)' <=> Newest(f, r, n)
  BY <1>2 DEF Newest
<1>4. \A m \in Batches(f, r) : r \in Answered(batches[m])' <=> r \in Answered(batches[m])
  BY <1>1 DEF Batches
<1>5. \A n : Right(f, r, n)' <=> Right(f, r, n)
  BY <1>2, <1>3, <1>4 DEF Right
<1> QED BY <1>3, <1>5 DEF Alike

\* Two batches that are the newest of a record are one.
LEMMA NewestOne ==
    ASSUME TypeInv, NEW f, NEW r, NEW n \in Batches(f, r), NEW m \in Batches(f, r),
           Newest(f, r, n), Newest(f, r, m)
    PROVE  n = m
<1>1. n \in Nat /\ m \in Nat
  BY DEF Batches, TypeInv, DiskOK
<1> QED BY <1>1 DEF Newest

\* What the newest batch of a record says of it is right.
LEMMA LatestSays ==
    ASSUME TypeInv, NEW f \in Files, NEW n \in 1..Len(batches), batches[n].file = f,
           NEW S, Latest(f, n, S), NEW r \in S
    PROVE  /\ r \in Answered(batches[n]) => Right(f, r, n)
           /\ r \notin Answered(batches[n]) => Right(f, r, Lost)
<1>1. n \in Batches(f, r) /\ Newest(f, r, n)
  BY DEF Latest, Batches, TypeInv, DiskOK
<1>2. \A m \in Batches(f, r) : Newest(f, r, m) => m = n
  BY <1>1, NewestOne
<1> QED BY <1>1, <1>2 DEF Right

\* The pools handlers make.
LEMMA SaysOver ==
    ASSUME NEW p, NEW q
    PROVE  /\ \A r : r \in DOMAIN Over(p, q) <=> r \in DOMAIN p \/ r \in DOMAIN q
           /\ \A r : Says(Over(p, q), r) = IF r \in DOMAIN p THEN p[r] ELSE Says(q, r)
BY DEF Over, Says

LEMMA SaysRestricted ==
    ASSUME NEW p, NEW S
    PROVE  /\ \A r : r \in DOMAIN Restricted(p, S) <=> r \in DOMAIN p /\ r \in S
           /\ \A r : Says(Restricted(p, S), r) = IF r \in S THEN Says(p, r) ELSE Lost
BY DEF Restricted, Says

LEMMA SaysAnswers ==
    ASSUME NEW n
    PROVE  /\ DOMAIN Answers(n) = Answered(batches[n])
           /\ \A r : Says(Answers(n), r) = IF r \in Answered(batches[n]) THEN n ELSE Lost
BY DEF Answers, Says

LEMMA SaysNothing == DOMAIN NoAnswers = {} /\ \A r : Says(NoAnswers, r) = Lost
BY DEF NoAnswers, Says

-----------------------------------------------------------------------------
(* What handling an entry makes of the answers *)

Delivers(k) == \E results, exhausted :
    Gathers(k.file, results, mapped[k.file]) /\ Finalizes(k, results, exhausted)
Resends(k) == \E kind \in {"retry", "repair"} : \E attempt, holds, state :
    state # None /\ Carries(k.file, kind, holds, state) /\ Registers(k, kind, attempt, holds, state)

Whole(s) == IsState(s) /\ {"missing", "accumulated", "held", "pool"} \subseteq DOMAIN s

LEMMA RecoveryIsWhole ==
    ASSUME TypeInv, NEW f \in Files, recovery[f] # None PROVE Whole(recovery[f])
<1>1. StateOK(recovery[f], f, Len(batches))
  BY DEF TypeInv, DiskOK, RecoveryOK
<1> QED BY <1>1 DEF StateOK, Round, Whole, IsState

\* All is known before a repair goes out: what failed its expectations goes out again, and
\* the pool has the rest.
LEMMA RepairsCarry ==
    ASSUME TypeInv, NEW k, k.file \in Files, NEW STATE answers, NEW STATE known, NEW STATE exhausted,
           known = None => recovery[k.file] = None,
           known # None => Whole(known) /\ DOMAIN known.pool = {},
           Gathers(k.file, answers, mapped[k.file]), Repairs(k, answers, known, exhausted)
    PROVE  Defers(k) \/ Delivers(k) \/ Resends(k)
<1> DEFINE f == k.file
           fresh == Round(0, {}, NoAnswers, 0, {}, NoAnswers)
           state == IF known # None THEN known ELSE IF recovery[f] # None THEN recovery[f] ELSE fresh
           pooled == Over(state.pool, answers)
           poor == {r \in DOMAIN pooled : IsPoor(r, pooled[r])}
           pool == Restricted(Over(pooled, state.pool), Records \ poor)
           next == [state EXCEPT !.round = @ + 1, !.held = poor,
                                 !.pool = Restricted(Over(pooled, @), Records \ poor)]
           attempt == state.round + 1
<1>1. \/ Defers(k) \/ Finalizes(k, pooled, exhausted)
      \/ Registers(k, "repair", attempt, poor, next)
  BY DEF Repairs
<1>2. Whole(state) /\ DOMAIN state.pool = {}
  <2>1. Whole(fresh) /\ DOMAIN fresh.pool = {}
    BY SaysNothing DEF Whole, IsState, Round
  <2> QED BY <2>1
<1>3. next = [state EXCEPT !.round = @ + 1, !.held = poor, !.pool = pool]
  OBVIOUS
<1>4. /\ \A r : (r \in DOMAIN pooled <=> r \in DOMAIN answers) /\ Says(pooled, r) = Says(answers, r)
      /\ \A r : /\ r \in DOMAIN Over(pooled, state.pool) <=> r \in DOMAIN answers
               /\ Says(Over(pooled, state.pool), r) = Says(answers, r)
  <2> HIDE DEF state
  <2>1. \A r : (r \in DOMAIN pooled <=> r \in DOMAIN answers) /\ Says(pooled, r) = Says(answers, r)
    BY <1>2, SaysOver DEF Says
  <2> HIDE DEF pooled
  <2> QED BY <1>2, <2>1, SaysOver DEF Says
<1>5. \A r : /\ r \in DOMAIN pool <=> r \in DOMAIN answers /\ r \in Records \ poor
            /\ Says(pool, r) = IF r \in Records \ poor THEN Says(answers, r) ELSE Lost
  <2> HIDE DEF state, pooled, poor
  <2> QED BY <1>4, SaysRestricted
<1>6. poor \subseteq DOMAIN pooled
  OBVIOUS
<1> HIDE DEF next, pool, poor, pooled, state, attempt
<1>7. DOMAIN answers \subseteq mapped[f] /\ mapped[f] \subseteq Records
  BY InputsOK DEF Gathers, TypeInv, DiskOK
<1>8. Gathers(f, pooled, mapped[f])
  BY <1>4 DEF Gathers
<1>9. Gathers(f, pool, mapped[f] \ poor)
  BY <1>5, <1>7 DEF Gathers
<1>10. Whole(next) /\ next.held = poor /\ next.pool = pool /\ next # None
  <2>1. DOMAIN next = DOMAIN state /\ next.held = poor /\ next.pool = pool
    BY <1>2, <1>3 DEF Whole
  <2> QED BY <1>2, <2>1, StatesAre DEF Whole, IsState
<1>11. Carries(f, "repair", poor, next)
  BY <1>4, <1>6, <1>7, <1>9, <1>10 DEF Carries
<1>12. Finalizes(k, pooled, exhausted) => Delivers(k)
  BY <1>8 DEF Delivers
<1>13. Registers(k, "repair", attempt, poor, next) => Resends(k)
  BY <1>10, <1>11 DEF Resends
<1> QED BY <1>1, <1>12, <1>13

\* What the newest batch of S answered, over what is known of the rest, is what is known.
LEMMA AnswersGather ==
    ASSUME TypeInv, NEW f \in Files, NEW n \in 1..Len(batches), batches[n].file = f,
           Latest(f, n, batches[n].holds), batches[n].holds \subseteq mapped[f],
           NEW p, Gathers(f, p, mapped[f] \ batches[n].holds),
           NEW got, DOMAIN got = Answered(batches[n]),
           \A r \in DOMAIN got : got[r] = n
    PROVE  Gathers(f, Over(got, p), mapped[f])
<1>1. Answered(batches[n]) \subseteq batches[n].holds
  BY DEF TypeInv, DiskOK, BatchOK
<1>2. DOMAIN Over(got, p) \subseteq mapped[f]
  BY <1>1, SaysOver DEF Gathers
<1>3. ASSUME NEW r \in mapped[f] PROVE Right(f, r, Says(Over(got, p), r))
  <2>1. CASE r \in Answered(batches[n])
    BY <1>1, <2>1, LatestSays, SaysOver
  <2>2. CASE r \in batches[n].holds \ Answered(batches[n])
    <3>1. Says(p, r) = Lost
      BY <2>2 DEF Gathers, Says
    <3> QED BY <2>2, <3>1, LatestSays, SaysOver
  <2>3. CASE r \notin batches[n].holds
    BY <1>1, <2>3, SaysOver DEF Gathers
  <2> QED BY <2>1, <2>2, <2>3
<1> QED BY <1>2, <1>3 DEF Gathers

\* The file's own batch is read while it has no round and no state.
LEMMA OriginalCarries ==
    ASSUME NEW k, Read(k), BatchesInv, deaths = 0, GivenUp(k.file) = {}, Traced(k.file),
           k.kind = "original", process_original_batch(k)
    PROVE  Defers(k) \/ Delivers(k) \/ Resends(k)
<1> DEFINE f == k.file
           n == registry[k].batch
           got == Answers(n)
           missing == mapped[f] \ DOMAIN got
           first == Round(1, missing, got, 0, {}, NoAnswers)
           given == Round(0, missing, NoAnswers, 0, {}, NoAnswers)
           known == IF missing = {} THEN None ELSE given
<1>1. /\ TypeInv /\ action = "checking_batch" /\ k \in todo /\ k \in DOMAIN registry
      /\ k = Original(f) /\ Settling(f) /\ f \in Files
  BY ReadAlone, EntryOK DEF Read, RoundsInv
<1>2. Rounds(f) = {}
  <2> SUFFICES ASSUME NEW j \in Rounds(f) PROVE FALSE
    OBVIOUS
  <2>1. j \in DOMAIN registry /\ j.kind = "repair" /\ j.file = f /\ Named(j).status \in Dead
    BY <1>1 DEF Rounds, BatchesInv, RoundsInv, NamedInv, PassReads
  <2>2. registry[j].batch \in GivenUp(f)
    BY <1>1, <2>1, EntryOK DEF GivenUp
  <2> QED BY <2>2
<1>3. recovery[f] = None
  BY <1>1, <1>2 DEF BatchesInv, StatesCount
<1>4. Latest(f, n, mapped[f]) /\ n \in 1..Len(batches) /\ batches[n].file = f
  BY <1>1, <1>3, EntryOK DEF Traced, Settling, Watched
<1>5. DOMAIN got = Answered(batches[n]) /\ \A r \in mapped[f] : Says(got, r) =
         IF r \in Answered(batches[n]) THEN n ELSE Lost
  BY SaysAnswers
<1>6. Answered(batches[n]) \subseteq mapped[f]
  BY <1>1, <1>4 DEF TypeInv, DiskOK, BatchOK, Latest
<1> HIDE DEF n, got
<1>7. Gathers(f, got, mapped[f])
  BY <1>1, <1>4, <1>5, <1>6, LatestSays DEF Gathers
<1>8. \/ Registers(k, "retry", 1, missing, first)
      \/ Repairs(k, got, None, {})
      \/ Repairs(k, got, known, missing)
  BY DEF process_original_batch, got, n
<1>9. Carries(f, "retry", missing, first) /\ first # None
  <2>1. /\ first.missing = missing /\ first.pool = NoAnswers /\ first.accumulated = got /\ first # None
    BY StatesAre DEF Round
  <2>2. Gathers(f, got, mapped[f] \ missing)
    BY <1>7 DEF Gathers
  <2> HIDE DEF first
  <2> QED BY <2>1, <2>2, SaysNothing DEF Carries
<1>10. known # None => Whole(known) /\ DOMAIN known.pool = {}
  <2>1. Whole(given) /\ DOMAIN given.pool = {}
    BY SaysNothing DEF Whole, IsState, Round
  <2> QED BY <2>1
<1> HIDE DEF first, known, missing
<1>11. Registers(k, "retry", 1, missing, first) => Resends(k)
  BY <1>9 DEF Resends
<1>12. Repairs(k, got, None, {}) \/ Repairs(k, got, known, missing) => Defers(k) \/ Delivers(k) \/ Resends(k)
  BY <1>1, <1>3, <1>7, <1>10, RepairsCarry
<1> QED BY <1>8, <1>11, <1>12

\* A round is read beside its state.
LEMMA RoundRead ==
    ASSUME NEW k, Read(k), BatchesInv, deaths = 0, Traced(k.file), k.kind # "original"
    PROVE  /\ TypeInv /\ k.file \in Files /\ k \in Rounds(k.file) /\ k \in DOMAIN registry
           /\ recovery[k.file] # None /\ Whole(recovery[k.file])
           /\ registry[k].batch \in 1..Len(batches) /\ batches[registry[k].batch] = Named(k)
           /\ Named(k).file = k.file
           /\ Latest(k.file, registry[k].batch, Named(k).holds)
           /\ Carries(k.file, k.kind, Named(k).holds, recovery[k.file])
<1>1. TypeInv /\ k \in DOMAIN registry
  BY DEF Read, RoundsInv
<1>2. k.file \in Files /\ registry[k].batch \in 1..Len(batches) /\ batches[registry[k].batch] = Named(k)
      /\ Named(k).file = k.file
  BY <1>1, EntryOK
<1>3. k \in Rounds(k.file)
  BY <1>1 DEF Rounds
<1>4. recovery[k.file] # None
  BY <1>2, <1>3 DEF BatchesInv, EntriesInv, StatesSaved
<1> QED BY <1>1, <1>2, <1>3, <1>4, RecoveryIsWhole DEF Traced

\* What the retry returned, over what came before it.
LEMMA RetryCarries ==
    ASSUME NEW k, Read(k), BatchesInv, Silent, deaths = 0, Traced(k.file),
           k.kind = "retry", handle_retry_recovery(k)
    PROVE  Defers(k) \/ Delivers(k) \/ Resends(k)
<1> DEFINE f == k.file
           n == registry[k].batch
           state == recovery[f]
           got == IF registry[k].status \in Dead THEN NoAnswers ELSE Answers(n)
           merged == process_retry_results(got, state.accumulated)
           still == state.missing \ DOMAIN got
           again == [state EXCEPT !.sent = @ + 1, !.missing = still, !.accumulated = merged]
           given == [state EXCEPT !.missing = {}]
           attempt == state.sent + 1
<1>1. /\ TypeInv /\ f \in Files /\ state # None /\ Whole(state)
      /\ n \in 1..Len(batches) /\ batches[n].file = f /\ Latest(f, n, batches[n].holds)
      /\ Carries(f, "retry", batches[n].holds, state)
  BY RoundRead
<1>2. \/ Registers(k, "retry", attempt, still, again)
      \/ Repairs(k, merged, given, {})
      \/ Repairs(k, merged, state, still)
  BY DEF handle_retry_recovery
<1>3. DOMAIN got = Answered(batches[n]) /\ \A r \in DOMAIN got : got[r] = n
  <2>1. CASE registry[k].status \in Dead
    <3>1. batches[n].status # "completed"
      BY <2>1, RoundRead DEF BatchesInv, RoundsInv, NamedInv, EntriesTell, Dead
    <3>2. Answered(batches[n]) = {}
      BY <1>1, <3>1 DEF Silent
    <3> QED BY <2>1, <3>2, SaysNothing
  <2>2. CASE registry[k].status \notin Dead
    BY <2>2, SaysAnswers DEF Answers
  <2> QED BY <2>1, <2>2
<1>4. merged = Over(got, state.accumulated)
  BY DEF process_retry_results
<1>5. /\ again = [state EXCEPT !.sent = @ + 1, !.missing = still, !.accumulated = merged]
      /\ given = [state EXCEPT !.missing = {}]
  OBVIOUS
<1> HIDE DEF got, again, given, merged, n, state, attempt
<1>6. /\ DOMAIN again = DOMAIN state /\ again.missing = still /\ again.accumulated = merged
      /\ again.pool = state.pool
      /\ DOMAIN given = DOMAIN state /\ given.pool = state.pool
  <2> HIDE DEF still
  <2> QED BY <1>1, <1>5 DEF Whole
<1>7. Whole(again) /\ again # None /\ Whole(given) /\ given # None
  BY <1>1, <1>6, StatesAre DEF Whole, IsState
<1>8. /\ state.missing = batches[n].holds /\ DOMAIN state.pool = {} /\ batches[n].holds \subseteq mapped[f]
      /\ Gathers(f, state.accumulated, mapped[f] \ batches[n].holds)
  BY <1>1 DEF Carries
<1>9. Gathers(f, merged, mapped[f])
  BY <1>1, <1>3, <1>4, <1>8, AnswersGather
<1>10. Gathers(f, merged, mapped[f] \ still)
  <2>1. \A r \in still : r \notin DOMAIN merged
    BY <1>4, <1>8, SaysOver DEF Gathers
  <2> QED BY <1>9, <2>1 DEF Gathers
<1>11. Carries(f, "retry", still, again)
  BY <1>6, <1>8, <1>10 DEF Carries
<1> HIDE DEF still
<1>12. Registers(k, "retry", attempt, still, again) => Resends(k)
  BY <1>7, <1>11 DEF Resends
<1>13. Repairs(k, merged, given, {}) => Defers(k) \/ Delivers(k) \/ Resends(k)
  BY <1>1, <1>6, <1>7, <1>8, <1>9, RepairsCarry
<1>14. Repairs(k, merged, state, still) => Defers(k) \/ Delivers(k) \/ Resends(k)
  BY <1>1, <1>8, <1>9, RepairsCarry
<1> QED BY <1>2, <1>12, <1>13, <1>14

\* What the repair returned passes into the pool, or goes out again.
LEMMA RepairCarries ==
    ASSUME NEW k, Read(k), BatchesInv, deaths = 0, Traced(k.file),
           k.kind = "repair", handle_repair_recovery(k)
    PROVE  Delivers(k) \/ Resends(k)
<1> DEFINE f == k.file
           n == registry[k].batch
           state == recovery[f]
           got == Answers(n)
           poor == {r \in DOMAIN got : IsPoor(r, got[r])}
           dropped == [r \in state.held \ DOMAIN got |-> Lost]
           passing == Restricted(got, DOMAIN got \ poor)
           rest == Over(passing, state.pool)
           pool == Over(dropped, rest)
           kept == Restricted(pool, Records \ poor)
           again == [state EXCEPT !.round = @ + 1, !.held = poor, !.pool = kept]
           results == Over(got, pool)
           attempt == state.round + 1
           exhausted == state.missing
<1>1. /\ TypeInv /\ f \in Files /\ state # None /\ Whole(state)
      /\ n \in 1..Len(batches) /\ batches[n].file = f /\ Latest(f, n, batches[n].holds)
      /\ Carries(f, "repair", batches[n].holds, state)
  BY RoundRead
<1>2. \/ Registers(k, "repair", attempt, poor, again)
      \/ Finalizes(k, results, exhausted)
  BY DEF handle_repair_recovery
<1>3. DOMAIN got = Answered(batches[n]) /\ \A r \in DOMAIN got : got[r] = n
  BY DEF Answers
<1>4. poor \subseteq DOMAIN got
  OBVIOUS
<1>5. /\ \A r : r \in DOMAIN dropped <=> r \in state.held /\ r \notin DOMAIN got
      /\ \A r \in DOMAIN dropped : dropped[r] = Lost
  OBVIOUS
<1>6. again = [state EXCEPT !.round = @ + 1, !.held = poor, !.pool = kept]
  OBVIOUS
<1> HIDE DEF got, poor, dropped, again, state, attempt, exhausted, n
<1>7. \A r : /\ r \in DOMAIN pool =>
                  r \in DOMAIN dropped \/ (r \in DOMAIN got /\ r \notin poor) \/ r \in DOMAIN state.pool
             /\ Says(pool, r) = IF r \in DOMAIN dropped THEN Lost
                                ELSE IF r \in DOMAIN got /\ r \notin poor THEN got[r]
                                ELSE Says(state.pool, r)
  <2>1. \A r : /\ r \in DOMAIN passing <=> r \in DOMAIN got /\ r \notin poor
               /\ r \in DOMAIN passing => passing[r] = got[r]
    BY DEF Restricted
  <2> HIDE DEF passing
  <2>2. \A r : /\ r \in DOMAIN rest <=> r \in DOMAIN passing \/ r \in DOMAIN state.pool
               /\ Says(rest, r) = IF r \in DOMAIN passing THEN passing[r] ELSE Says(state.pool, r)
    BY SaysOver
  <2> HIDE DEF rest
  <2>3. \A r : /\ r \in DOMAIN pool <=> r \in DOMAIN dropped \/ r \in DOMAIN rest
               /\ Says(pool, r) = IF r \in DOMAIN dropped THEN dropped[r] ELSE Says(rest, r)
    BY SaysOver
  <2> QED BY <1>5, <2>1, <2>2, <2>3
<1> HIDE DEF pool
<1>8. /\ state.held = batches[n].holds /\ batches[n].holds \subseteq mapped[f]
      /\ Gathers(f, state.pool, mapped[f] \ batches[n].holds)
      /\ Answered(batches[n]) \subseteq batches[n].holds /\ mapped[f] \subseteq Records
  BY <1>1, InputsOK DEF Carries, TypeInv, DiskOK, BatchOK
<1>9. ASSUME NEW r \in mapped[f] \ poor PROVE Right(f, r, Says(pool, r))
  <2>1. CASE r \in Answered(batches[n])
    <3>1. Says(pool, r) = n
      BY <1>3, <1>5, <1>7, <1>9, <2>1
    <3> QED BY <1>1, <1>8, <2>1, <3>1, LatestSays
  <2>2. CASE r \in batches[n].holds \ Answered(batches[n])
    <3>1. Says(pool, r) = Lost
      BY <1>3, <1>5, <1>7, <1>8, <2>2
    <3> QED BY <1>1, <2>2, <3>1, LatestSays
  <2>3. CASE r \notin batches[n].holds
    <3>1. Says(pool, r) = Says(state.pool, r)
      BY <1>3, <1>5, <1>7, <1>8, <2>3
    <3> QED BY <1>8, <2>3, <3>1 DEF Gathers
  <2> QED BY <2>1, <2>2, <2>3
<1>10. DOMAIN pool \subseteq mapped[f]
  BY <1>3, <1>5, <1>7, <1>8 DEF Gathers
<1>11. Gathers(f, results, mapped[f])
  <2>1. ASSUME NEW r \in mapped[f] PROVE Right(f, r, Says(results, r))
    <3>1. CASE r \in DOMAIN got
      BY <1>1, <1>3, <1>8, <3>1, LatestSays, SaysOver
    <3>2. CASE r \notin DOMAIN got
      BY <1>4, <1>9, <3>2, SaysOver
    <3> QED BY <3>1, <3>2
  <2>2. DOMAIN results \subseteq mapped[f]
    BY <1>3, <1>8, <1>10, SaysOver
  <2> QED BY <2>1, <2>2 DEF Gathers
<1>12. Gathers(f, kept, mapped[f] \ poor)
  BY <1>8, <1>9, <1>10, SaysRestricted DEF Gathers
<1> HIDE DEF kept, results
<1>13. Whole(again) /\ again # None /\ again.held = poor /\ again.pool = kept
  <2>1. DOMAIN again = DOMAIN state /\ again.held = poor /\ again.pool = kept
    BY <1>1, <1>6 DEF Whole
  <2> QED BY <1>1, <2>1, StatesAre DEF Whole, IsState
<1>14. Carries(f, "repair", poor, again)
  BY <1>3, <1>4, <1>8, <1>12, <1>13 DEF Carries
<1>15. Registers(k, "repair", attempt, poor, again) => Resends(k)
  BY <1>13, <1>14 DEF Resends
<1>16. Finalizes(k, results, exhausted) => Delivers(k)
  BY <1>11 DEF Delivers
<1> QED BY <1>2, <1>15, <1>16

\* Whatever entry is read, each answer known of its file is delivered or carried on.
LEMMA ProcessCarries ==
    ASSUME NEW k, Read(k), BatchesInv, Silent, deaths = 0, GivenUp(k.file) = {}, Traced(k.file),
           Process(k)
    PROVE  Defers(k) \/ Delivers(k) \/ Resends(k)
<1>1. CASE k.kind = "original"
  BY <1>1, OriginalCarries DEF Process
<1>2. CASE k.kind # "original"
  <2>1. recovery[k.file] # None /\ k.kind \in {"retry", "repair"}
    BY <1>2, RoundRead, EntryOK DEF Kinds
  <2>2. \/ k.kind = "retry" /\ handle_retry_recovery(k)
        \/ k.kind = "repair" /\ handle_repair_recovery(k)
    BY <1>2, <2>1 DEF Process, process_recovery_batch
  <2> QED BY <2>2, RetryCarries, RepairCarries
<1> QED BY <1>1, <1>2

-----------------------------------------------------------------------------
(* Steps that move no answer of a file *)

Stays(f, r) == (HasAnswer(f, r)' <=> HasAnswer(f, r)) /\ StoredOf(f, r)' = StoredOf(f, r)

\* The entries of f are as they were, but for the status last polled.
SameEntries(f) ==
    /\ \A j : j.file = f => (j \in DOMAIN registry <=> j \in DOMAIN registry')
    /\ \A j \in DOMAIN registry : j.file = f =>
          registry'[j].batch = registry[j].batch /\ registry'[j].collected = registry[j].collected

LEMMA TracedStays ==
    ASSUME TypeInv, NEW f \in Files, Traced(f), SameEntries(f), job' = job,
           mapped'[f] = mapped[f], recovery'[f] = recovery[f],
           \A n \in 1..Len(batches) : batches'[n].holds = batches[n].holds,
           \A r \in job.inputs[f] : Alike(f, r) /\ Stays(f, r)
    PROVE  Traced(f)'
<1>1. Original(f).file = f
  BY DEF Original, Key
<1>2. Watched(f)' <=> Watched(f)
  BY <1>1 DEF Watched, SameEntries
<1>3. \A r \in job.inputs[f] :
         (IF Watched(f) /\ r \in mapped[f] THEN ~HasAnswer(f, r) ELSE Right(f, r, StoredOf(f, r)))'
  BY <1>2 DEF Traced, Alike, Stays
<1>4. mapped[f] \subseteq job.inputs[f]
  BY DEF TypeInv, DiskOK
<1>5. ASSUME Watched(f)', recovery'[f] = None
      PROVE  Latest(f, registry[Original(f)].batch, mapped[f])'
  <2>1. /\ Original(f) \in DOMAIN registry /\ Latest(f, registry[Original(f)].batch, mapped[f])
        /\ registry'[Original(f)].batch = registry[Original(f)].batch
        /\ registry[Original(f)].batch \in 1..Len(batches)
    BY <1>1, <1>2, <1>5, EntryOK DEF Traced, Watched, SameEntries
  <2> QED BY <1>4, <2>1 DEF Latest, Alike
<1>6. ASSUME NEW k \in Rounds(f)'
      PROVE  LET n == registry[k].batch IN
                (Latest(f, n, batches[n].holds) /\ Carries(f, k.kind, batches[n].holds, recovery[f]))'
  <2>1. k \in DOMAIN registry /\ k \in Rounds(f) /\ registry'[k].batch = registry[k].batch
    BY <1>6 DEF Rounds, SameEntries
  <2>2. PICK n \in 1..Len(batches) : n = registry[k].batch
    BY <2>1, EntryOK
  <2>3. PICK holds : holds = batches[n].holds
    OBVIOUS
  <2>4. Latest(f, n, holds) /\ Carries(f, k.kind, holds, recovery[f])
    BY <2>1, <2>2, <2>3 DEF Traced
  <2>5. \A r \in holds : Newest(f, r, n)'
    BY <1>4, <2>4 DEF Latest, Carries, Alike
  <2>6. \A p : Gathers(f, p, mapped[f] \ holds) => DOMAIN p \subseteq mapped[f] \ holds
                   /\ \A r \in mapped[f] \ holds : Right(f, r, Says(p, r))'
    BY <1>4 DEF Gathers, Alike
  <2>7. Carries(f, k.kind, holds, recovery[f])'
    BY <2>4, <2>6 DEF Carries, Gathers
  <2> QED BY <2>1, <2>2, <2>3, <2>5, <2>7 DEF Latest
<1> QED BY <1>3, <1>5, <1>6 DEF Traced

\* No batch is sent or ends, and no entry, map or state changes.
LEMMA NothingMoves ==
    ASSUME TypeInv, TypeInv', AnswersInv, UNCHANGED <<batches, mapped, recovery, job>>,
           deaths' = 0 => deaths = 0, \A f \in Files : SameEntries(f),
           \A f \in Files : Traced(f) => \A r \in job.inputs[f] : Stays(f, r)
    PROVE  AnswersInv'
<1>1. Silent'
  BY DEF AnswersInv, Silent
<1>2. ASSUME deaths' = 0, NEW f \in Files, GivenUp(f)' = {} PROVE Traced(f)'
  <2>1. Traced(f)
    BY <1>2 DEF AnswersInv, GivenUp
  <2>2. \A r : Alike(f, r)
    BY DEF Alike, Newest, Right, Batches
  <2> QED BY <2>1, <2>2, TracedStays
<1> QED BY <1>1, <1>2 DEF AnswersInv

-----------------------------------------------------------------------------
(* The provider *)

\* Unless the process died, what is out is named.
LEMMA OutIsNamed ==
    ASSUME RoundsInv, deaths = 0, NEW n \in 1..Len(batches), batches[n].status = "out",
           batches[n].file \in Files
    PROVE  \E k \in DOMAIN registry : registry[k].batch = n /\ k.file = batches[n].file
                                      /\ Named(k) = batches[n]
<1> DEFINE f == batches[n].file
<1>1. n \in Out(f)
  BY DEF Out
<1>2. Out(f) = {n} /\ NamedOut(f)
  <2> HIDE DEF f
  <2>1. IsFiniteSet(Out(f)) /\ Cardinality(Out(f)) \in Nat /\ f \in Files
    BY OutFinite DEF RoundsInv, f
  <2>2. {n} \in SUBSET Out(f)
    BY <1>1
  <2>3. Cardinality({n}) <= Cardinality(Out(f)) /\ (Cardinality(Out(f)) = Cardinality({n}) => Out(f) = {n})
    BY <2>1, <2>2, FS_Subset
  <2>4. Cardinality({n}) = 1
    BY FS_Singleton
  <2>5. Cardinality(Out(f)) <= deaths + (IF NamedOut(f) THEN 1 ELSE 0)
    BY <2>1 DEF RoundsInv, OutBounded
  <2> QED BY <2>1, <2>3, <2>4, <2>5
<1>3. PICK k \in DOMAIN registry : k.file = f /\ Named(k).status = "out"
  BY <1>2 DEF NamedOut
<1>4. registry[k].batch \in Out(f) /\ batches[registry[k].batch] = Named(k)
  BY <1>3, EntryOK DEF Out, RoundsInv
<1> QED BY <1>2, <1>3, <1>4

\* A batch ends.
LEMMA BatchEnds ==
    ASSUME TypeInv, NEW n \in 1..Len(batches), NEW status, NEW good, NEW poor,
           Becomes(n, status, good, poor)
    PROVE  /\ Len(batches') = Len(batches) /\ Len(batches) \in Nat
           /\ \A m \in 1..Len(batches) :
                 /\ batches'[m].file = batches[m].file /\ batches'[m].kind = batches[m].kind
                 /\ batches'[m].holds = batches[m].holds
                 /\ m # n => batches'[m] = batches[m]
           /\ batches'[n].status = status
           /\ batches'[n].good = good /\ batches'[n].poor = poor
<1>1. batches \in Seq(Taken) /\ DOMAIN batches = 1..Len(batches) /\ batches[n] \in Taken
  BY DEF TypeInv, DiskOK
<1>2. DOMAIN batches' = DOMAIN batches /\ Len(batches') = Len(batches) /\ Len(batches) \in Nat
  BY <1>1 DEF Becomes
<1> DEFINE b == [batches[n] EXCEPT !.status = status, !.good = good, !.poor = poor]
<1>3. /\ b.file = batches[n].file /\ b.kind = batches[n].kind /\ b.holds = batches[n].holds
      /\ b.status = status /\ b.good = good /\ b.poor = poor
  BY <1>1 DEF Taken
<1>4. batches' = [batches EXCEPT ![n] = b]
  BY <1>1 DEF Becomes
<1> HIDE DEF b
<1>5. batches'[n] = b /\ \A m \in 1..Len(batches) : m # n => batches'[m] = batches[m]
  BY <1>1, <1>4
<1> QED BY <1>2, <1>3, <1>5

\* The batch that ends is the newest only of records that are waiting for it.
LEMMA ProviderTraces ==
    ASSUME BatchesInv, TypeInv', AnswersInv, Provider PROVE AnswersInv'
<1>1. TypeInv /\ DOMAIN batches = 1..Len(batches)
  BY DEF BatchesInv, RoundsInv, TypeInv, DiskOK
<1>2. PICK n \in 1..Len(batches) : Completes(n) \/ Fails(n)
  BY <1>1 DEF Provider
<1>3. UNCHANGED <<registry, recovery, mapped, outcome, job, deaths>> /\ batches[n].status = "out"
  BY <1>2 DEF Completes, Fails, around
<1>4. PICK status, good, poor : /\ Becomes(n, status, good, poor)
                                /\ status \in {"completed"} \cup Dead
                                /\ status # "completed" => good = {} /\ poor = {}
  BY <1>2 DEF Completes, Fails
<1>5. /\ Len(batches') = Len(batches) /\ Len(batches) \in Nat
      /\ \A m \in 1..Len(batches) :
            /\ batches'[m].file = batches[m].file /\ batches'[m].kind = batches[m].kind
            /\ batches'[m].holds = batches[m].holds
            /\ m # n => batches'[m] = batches[m]
      /\ batches'[n].status = status /\ batches'[n].good = good /\ batches'[n].poor = poor
  BY <1>1, <1>4, BatchEnds
<1>6. Silent'
  <2>1. ASSUME NEW m \in 1..Len(batches'), batches'[m].status # "completed"
        PROVE  Answered(batches'[m]) = {}
    BY <1>4, <1>5, <2>1 DEF AnswersInv, Silent, Answered
  <2> QED BY <2>1 DEF Silent
<1>7. ASSUME NEW f \in Files, NEW r, n \notin Batches(f, r) PROVE Alike(f, r)
  <2>1. \A m \in 1..Len(batches) :
           m \in Batches(f, r) => (r \in Answered(batches'[m]) <=> r \in Answered(batches[m]))
    BY <1>5, <1>7
  <2> QED BY <1>1, <1>5, <2>1, RightStays
<1>8. \A f \in Files : \A r, m : Newest(f, r, m)' <=> Newest(f, r, m)
  BY <1>1, <1>5 DEF Newest, Batches, TypeInv, DiskOK
<1>9. ASSUME deaths' = 0, NEW f \in Files, GivenUp(f)' = {} PROVE Traced(f)'
  <2>1. GivenUp(f) = {}
    BY <1>3, <1>5, <1>9 DEF GivenUp, Dead
  <2>2. Traced(f) /\ deaths = 0
    BY <1>3, <1>9, <2>1 DEF AnswersInv
  <2>3. SameEntries(f) /\ \A r \in job.inputs[f] : Stays(f, r)
    BY <1>3 DEF SameEntries, Stays, StoredOf, HasAnswer
  <2>4. CASE batches[n].file # f
    <3>1. \A r \in job.inputs[f] : Alike(f, r)
      BY <1>7, <2>4 DEF Batches
    <3> QED BY <1>1, <1>3, <1>5, <2>2, <2>3, <3>1, TracedStays
  <2>5. CASE batches[n].file = f
    <3>1. PICK k \in DOMAIN registry : registry[k].batch = n /\ k.file = f /\ Named(k) = batches[n]
      BY <1>3, <2>2, <2>5, OutIsNamed DEF BatchesInv
    <3>2. /\ Watched(f) /\ batches[n].holds \subseteq mapped[f]
          /\ recovery[f] = None => batches[n].holds = mapped[f]
          /\ \A j \in Rounds(f) : registry[j].batch = n
      <4>1. CASE k.kind = "original"
        <5>1. k = Original(f) /\ Watched(f) /\ ~Settling(f)
          BY <1>1, <1>3, <3>1, <4>1, EntryOK
             DEF BatchesInv, RoundsInv, NamedInv, EntriesTell, Watched, Settling
        <5>2. recovery[f] = None
          BY <5>1 DEF BatchesInv, RoundsInv, NamedInv, RoundsWait
        <5>3. Rounds(f) = {}
          BY <2>2, <5>2 DEF BatchesInv, EntriesInv, StatesSaved
        <5> QED BY <2>2, <3>1, <5>1, <5>2, <5>3 DEF Traced, Latest
      <4>2. CASE k.kind # "original"
        <5>1. Settling(f) /\ k \in Rounds(f)
          BY <1>3, <3>1, <4>2 DEF BatchesInv, RoundsInv, NamedInv, RoundsWait, Rounds
        <5>2. recovery[f] # None /\ \A j \in Rounds(f) : j = k
          BY <2>2, <5>1 DEF BatchesInv, EntriesInv, StatesSaved
        <5>3. batches[n].holds \subseteq mapped[f]
          BY <2>2, <3>1, <5>1 DEF Traced, Carries
        <5> QED BY <3>1, <5>1, <5>2, <5>3 DEF Settling, Watched
      <4> QED BY <4>1, <4>2
    <3>3. \A r : r \notin batches[n].holds => Alike(f, r)
      BY <1>7 DEF Batches
    <3>4. \A r \in job.inputs[f] :
             (IF Watched(f) /\ r \in mapped[f] THEN ~HasAnswer(f, r) ELSE Right(f, r, StoredOf(f, r)))'
      <4>1. Watched(f)' /\ mapped'[f] = mapped[f]
        BY <1>3, <3>2 DEF Watched
      <4> QED BY <1>3, <2>2, <2>3, <3>2, <3>3, <4>1 DEF Traced, Alike, Stays
    <3>5. ASSUME recovery'[f] = None PROVE Latest(f, registry[Original(f)].batch, mapped[f])'
      <4>1. Original(f) \in DOMAIN registry /\ Latest(f, registry[Original(f)].batch, mapped[f])
        BY <1>3, <2>2, <3>2, <3>5 DEF Traced, Watched
      <4>2. registry[Original(f)].batch \in 1..Len(batches)
        BY <1>1, <4>1, EntryOK
      <4> QED BY <1>3, <1>5, <1>8, <4>1, <4>2 DEF Latest
    <3>6. ASSUME NEW j \in Rounds(f)'
          PROVE  LET m == registry[j].batch IN
                    (Latest(f, m, batches[m].holds) /\ Carries(f, j.kind, batches[m].holds, recovery[f]))'
      <4>1. j \in Rounds(f) /\ registry[j].batch = n /\ registry' = registry
        BY <1>3, <3>2, <3>6 DEF Rounds
      <4>2. PICK holds : holds = batches[n].holds /\ holds = batches'[n].holds
        BY <1>5
      <4>3. Latest(f, n, holds) /\ Carries(f, j.kind, holds, recovery[f])
        BY <2>2, <4>1, <4>2 DEF Traced
      <4>4. \A p : Gathers(f, p, mapped[f] \ holds) => DOMAIN p \subseteq mapped[f] \ holds
                   /\ \A r \in mapped[f] \ holds : Right(f, r, Says(p, r))'
        BY <3>3, <4>2 DEF Gathers, Alike
      <4>5. Carries(f, j.kind, holds, recovery[f])'
        BY <1>3, <4>3, <4>4 DEF Carries, Gathers
      <4>6. Latest(f, n, holds)'
        BY <1>8, <4>2, <4>3 DEF Latest
      <4> QED BY <4>1, <4>2, <4>5, <4>6
    <3> QED BY <1>3, <3>4, <3>5, <3>6 DEF Traced
  <2> QED BY <2>4, <2>5
<1> QED BY <1>6, <1>9 DEF AnswersInv

-----------------------------------------------------------------------------
(* Sending a batch *)

\* A batch is sent: it is the newest of what it holds, and all else is as it was.
LEMMA SentLatest ==
    ASSUME TypeInv, TypeInv', Silent, job' = job, NEW f \in Files, NEW kind \in Kinds, NEW STATE holds,
           holds \subseteq job.inputs[f], Takes(f, kind, holds)
    PROVE  /\ Silent' /\ Len(batches) \in Nat
           /\ \A g \in Files : GivenUp(g)' = {} => GivenUp(g) = {}
           /\ \A n \in 1..Len(batches) : batches'[n] = batches[n]
           /\ batches'[Len(batches) + 1].holds = holds
           /\ Len(batches') = Len(batches) + 1 /\ \A r \in holds : Newest(f, r, Len(batches))'
           /\ \A g \in Files : \A r : g # f \/ r \notin holds => Alike(g, r)
<1> DEFINE new == Len(batches) + 1
<1>1. /\ Len(batches) \in Nat /\ Len(batches') = new
      /\ \A n \in 1..Len(batches) : batches'[n] = batches[n]
      /\ batches'[new].file = f /\ batches'[new].holds = holds
      /\ Answered(batches'[new]) = {} /\ batches'[new].status = "out"
  BY BatchTaken DEF TypeInv, DiskTyped
<1>2. DOMAIN batches' = 1..Len(batches')
  BY DEF TypeInv, DiskOK
<1>3. \A n \in 1..Len(batches') : n \in 1..Len(batches) \/ n = new
  BY <1>1
<1>4. Silent'
  BY <1>1, <1>3 DEF Silent
<1>5. \A g \in Files : GivenUp(g)' = {} => GivenUp(g) = {}
  BY <1>1 DEF GivenUp
<1>6. \A r \in holds : \A m \in Batches(f, r)' : m <= new
  BY <1>1, <1>2 DEF Batches
<1>7. ASSUME NEW r \in holds PROVE Newest(f, r, Len(batches))'
  BY <1>1, <1>6 DEF Newest
<1>8. ASSUME NEW g \in Files, NEW r, g # f \/ r \notin holds PROVE Alike(g, r)
  <2>1. \A n \in 1..Len(batches') : n \in 1..Len(batches)
                                    \/ ~(batches'[n].file = g /\ r \in batches'[n].holds)
    BY <1>1, <1>3, <1>8
  <2>2. Len(batches) <= Len(batches')
    BY <1>1
  <2> QED BY <1>1, <2>1, <2>2, RightStays
<1> QED BY <1>1, <1>4, <1>5, <1>7, <1>8

\* The file's own batch goes out again for what has no answer: nothing else of it is pending.
LEMMA SendFileTraces ==
    ASSUME BatchesInv, TypeInv', AnswersInv, NEW f \in Files, SendFile(f) PROVE AnswersInv'
<1> DEFINE key == Original(f)
           rest == Unfinished(f)
           row == [r \in job.inputs[f] |-> IF r \in rest THEN Without("deferred") ELSE outcome[f][r]]
<1>1. PICK writes \in 0..4 :
          /\ IF writes >= 1 THEN Takes(f, "original", rest) ELSE UNCHANGED batches
          /\ mapped' = IF writes >= 2 THEN [mapped EXCEPT ![f] = rest] ELSE mapped
          /\ registry' = IF writes >= 3 THEN Naming(key) ELSE registry
          /\ outcome' = IF writes = 4 THEN [outcome EXCEPT ![f] = row] ELSE outcome
          /\ Through(writes, 4, todo' = todo \ {f} /\ UNCHANGED <<action, pass>>)
          /\ UNCHANGED recovery
  BY DEF SendFile
<1>2. /\ TypeInv /\ job' = job /\ deaths \in Nat
      /\ writes = 4 => deaths' = deaths
      /\ writes # 4 => deaths' = deaths + 1
  BY <1>1 DEF Through, BatchesInv, RoundsInv, TypeInv, AroundOK
<1>3. /\ "original" \in Kinds /\ rest \subseteq job.inputs[f]
      /\ key.file = f /\ key.kind = "original"
  BY DEF Kinds, Unfinished, Original, Key
<1>4. recovery[f] = None /\ \A r \in rest : ~HasAnswer(f, r)
  BY NothingOut DEF SendFile, BatchesInv, RoundsInv, NamedInv, RoundsWait, Unfinished
<1> HIDE DEF rest
<1>5. CASE writes = 0
  <2>1. Silent'
    BY <1>1, <1>5 DEF AnswersInv, Silent
  <2> QED BY <1>2, <1>5, <2>1 DEF AnswersInv
<1>6. CASE writes # 0
  <2>1. Takes(f, "original", rest)
    BY <1>1, <1>6
  <2>2. /\ Silent' /\ Len(batches) \in Nat
        /\ \A g \in Files : GivenUp(g)' = {} => GivenUp(g) = {}
        /\ \A n \in 1..Len(batches) : batches'[n] = batches[n]
        /\ batches'[Len(batches) + 1].holds = rest
        /\ Len(batches') = Len(batches) + 1 /\ \A r \in rest : Newest(f, r, Len(batches))'
        /\ \A g \in Files : \A r : g # f \/ r \notin rest => Alike(g, r)
    BY <1>2, <1>3, <2>1, SentLatest DEF AnswersInv
  <2>3. ASSUME deaths' = 0, NEW g \in Files, GivenUp(g)' = {} PROVE Traced(g)'
    <3>1. writes = 4 /\ deaths = 0
      BY <1>2, <2>3
    <3>2. /\ mapped' = [mapped EXCEPT ![f] = rest] /\ registry' = Naming(key)
          /\ outcome' = [outcome EXCEPT ![f] = row] /\ recovery' = recovery
      BY <1>1, <3>1
    <3>3. Traced(g)
      BY <2>2, <2>3, <3>1 DEF AnswersInv
    <3>4. /\ mapped \in [Files -> SUBSET Records]
          /\ outcome = [h \in Files |-> [r \in job.inputs[h] |-> outcome[h][r]]]
      BY <1>2 DEF TypeInv, DiskOK, OutcomeOK
    <3>5. CASE g # f
      <4>1. mapped'[g] = mapped[g] /\ outcome'[g] = outcome[g]
        BY <3>2, <3>4, <3>5
      <4>2. SameEntries(g)
        BY <1>3, <3>2, <3>5 DEF SameEntries, Naming
      <4>3. \A r \in job.inputs[g] : Alike(g, r) /\ Stays(g, r)
        BY <2>2, <3>5, <4>1 DEF Stays, StoredOf, HasAnswer
      <4> QED BY <1>2, <2>2, <3>2, <3>3, <4>1, <4>2, <4>3, TracedStays
    <3>6. CASE g = f
      <4>1. mapped'[f] = rest /\ outcome'[f] = row
        BY <3>2, <3>4
      <4>2. /\ \A r \in rest : ~HasAnswer(f, r)'
            /\ \A r \in job.inputs[f] \ rest : Stays(f, r)
        BY <1>3, <4>1 DEF Stays, StoredOf, HasAnswer, Without
      <4>3. ASSUME NEW r \in job.inputs[f], r \notin rest PROVE Right(f, r, StoredOf(f, r))'
        <5>1. HasAnswer(f, r)
          BY <4>3 DEF rest, Unfinished
        <5>2. Right(f, r, StoredOf(f, r))
          BY <3>3, <3>6, <5>1 DEF Traced
        <5> QED BY <2>2, <4>2, <4>3, <5>2 DEF Alike, Stays
      <4>4. Watched(f)' /\ registry'[Original(f)].batch = Len(batches) + 1
        BY <3>2 DEF Watched, Naming, NewEntry
      <4>5. Latest(f, registry[Original(f)].batch, mapped[f])'
        BY <2>2, <4>1, <4>4 DEF Latest
      <4>6. Rounds(f)' = {}
        <5>1. Rounds(f) = {}
          BY <1>4, <3>1 DEF BatchesInv, EntriesInv, StatesSaved
        <5> QED BY <1>3, <3>2, <5>1 DEF Rounds, Naming
      <4>7. \A r \in job.inputs[f] :
               (IF Watched(f) /\ r \in mapped[f] THEN ~HasAnswer(f, r) ELSE Right(f, r, StoredOf(f, r)))'
        BY <4>1, <4>2, <4>3, <4>4
      <4> QED BY <1>2, <3>6, <4>5, <4>6, <4>7 DEF Traced
    <3> QED BY <3>5, <3>6
  <2> QED BY <2>2, <2>3 DEF AnswersInv
<1> QED BY <1>5, <1>6

\* A batch holds records of its file.
LEMMA SentHolds ==
    ASSUME TypeInv, TypeInv', job' = job, NEW f \in Files, NEW kind, NEW STATE holds, Takes(f, kind, holds)
    PROVE  holds \subseteq job.inputs[f]
<1> DEFINE b == [file |-> f, kind |-> kind, holds |-> holds, status |-> "out",
                 good |-> {}, poor |-> {}]
<1>1. batches' = Append(batches, b) /\ batches \in Seq(Taken) /\ b.file = f /\ b.holds = holds
  BY DEF Takes, TypeInv, DiskOK
<1> HIDE DEF b
<1>2. Len(batches') \in 1..Len(batches') /\ batches'[Len(batches')] = b
  BY <1>1
<1>3. (\A n \in 1..Len(batches) : batches[n].holds \subseteq job.inputs[batches[n].file])'
  BY DEF TypeInv, DiskOK, BatchOK
<1> QED BY <1>1, <1>2, <1>3

-----------------------------------------------------------------------------
(* Reading an entry *)

\* A round goes out for some records of its file, and the state saved beside it has the rest.
LEMMA RegistersTraces ==
    ASSUME NEW k, Read(k), TypeInv', AnswersInv, Settling(k.file), NEW kind \in {"retry", "repair"},
           NEW attempt, NEW holds, NEW state, state # None,
           deaths = 0 /\ GivenUp(k.file) = {} => Carries(k.file, kind, holds, state),
           Registers(k, kind, attempt, holds, state)
    PROVE  AnswersInv'
<1> DEFINE f     == k.file
           key   == Key(f, kind, attempt)
           named == Naming(key)
           Replaced(j) == j.file = f /\ j.kind # "original" /\ j # key
           rest == {j \in DOMAIN named : ~Replaced(j)}
<1>1. PICK writes \in 1..4 :
          /\ Takes(f, kind, holds)
          /\ registry' = CASE writes = 1 -> registry
                           [] writes = 2 -> named
                           [] writes >= 3 -> Restricted(named, rest)
          /\ recovery' = IF writes = 4 THEN [recovery EXCEPT ![f] = state] ELSE recovery
          /\ Through(writes, 4, Handled(k) /\ UNCHANGED pass)
          /\ UNCHANGED <<mapped, outcome>>
  BY DEF Registers
<1>2. /\ TypeInv /\ f \in Files /\ job' = job /\ deaths \in Nat
      /\ kind \in Kinds /\ kind # "original" /\ key.file = f /\ key.kind = kind
      /\ writes = 4 => deaths' = deaths
      /\ writes # 4 => deaths' = deaths + 1
  BY <1>1, EntryOK DEF Through, Read, RoundsInv, TypeInv, AroundOK, Kinds, Key
<1>3. holds \subseteq job.inputs[f]
  BY <1>1, <1>2, SentHolds
<1>4. /\ Silent' /\ Len(batches) \in Nat
      /\ \A g \in Files : GivenUp(g)' = {} => GivenUp(g) = {}
      /\ \A n \in 1..Len(batches) : batches'[n] = batches[n]
      /\ batches'[Len(batches) + 1].holds = holds
      /\ Len(batches') = Len(batches) + 1 /\ \A r \in holds : Newest(f, r, Len(batches))'
      /\ \A g \in Files : \A r : g # f \/ r \notin holds => Alike(g, r)
  BY <1>1, <1>2, <1>3, SentLatest DEF AnswersInv
<1>5. ASSUME deaths' = 0, NEW g \in Files, GivenUp(g)' = {} PROVE Traced(g)'
  <2>1. writes = 4 /\ deaths = 0
    BY <1>2, <1>5
  <2>2. /\ registry' = Restricted(named, rest) /\ recovery' = [recovery EXCEPT ![f] = state]
        /\ mapped' = mapped /\ outcome' = outcome
    BY <1>1, <2>1
  <2>3. Traced(g) /\ GivenUp(g) = {}
    BY <1>4, <1>5, <2>1 DEF AnswersInv
  <2>4. /\ \A j : j \in DOMAIN registry' <=>
              j = key \/ (j \in DOMAIN registry /\ ~(j.file = f /\ j.kind # "original"))
        /\ \A j \in DOMAIN registry' : registry'[j] = IF j = key THEN NewEntry ELSE registry[j]
    <3>1. /\ DOMAIN named = DOMAIN registry \cup {key}
          /\ \A j \in DOMAIN named : named[j] = IF j = key THEN NewEntry ELSE registry[j]
      BY DEF Naming
    <3> HIDE DEF named, key
    <3> QED BY <2>2, <3>1 DEF Restricted
  <2>5. recovery'[g] = IF g = f THEN state ELSE recovery[g]
    BY <1>2, <2>2 DEF TypeInv, DiskOK, RecoveryOK
  <2>6. \A r : Stays(g, r)
    BY <2>2 DEF Stays, StoredOf, HasAnswer
  <2>7. CASE g # f
    <3>1. SameEntries(g)
      BY <1>2, <2>4, <2>7 DEF SameEntries
    <3>2. \A r \in job.inputs[g] : Alike(g, r)
      BY <1>4, <2>7
    <3> QED BY <1>2, <1>4, <2>2, <2>3, <2>5, <2>6, <2>7, <3>1, <3>2, TracedStays
  <2>8. CASE g = f
    <3>1. Carries(f, kind, holds, state) /\ holds \subseteq mapped[f]
      BY <2>1, <2>3, <2>8 DEF Carries
    <3>2. Watched(f) /\ Watched(f)'
      <4>1. Original(f).kind = "original" /\ Original(f) # key
        BY <1>2 DEF Original, Key
      <4> QED BY <2>4, <4>1 DEF Settling, Watched
    <3>3. \A r \in job.inputs[f] :
             (IF Watched(f) /\ r \in mapped[f] THEN ~HasAnswer(f, r) ELSE Right(f, r, StoredOf(f, r)))'
      BY <1>2, <1>4, <2>2, <2>3, <2>6, <2>8, <3>1, <3>2 DEF Traced, Alike, Stays
    <3>4. ASSUME NEW j \in Rounds(f)'
          PROVE  LET n == registry[j].batch IN
                    (Latest(f, n, batches[n].holds) /\ Carries(f, j.kind, batches[n].holds, recovery[f]))'
      <4>1. j = key /\ j.kind = kind /\ registry'[j].batch = Len(batches) + 1
        BY <1>2, <2>4, <3>4 DEF Rounds, NewEntry
      <4>2. PICK new : new = Len(batches) + 1
        OBVIOUS
      <4>3. new = Len(batches') /\ batches'[new].holds = holds /\ registry'[j].batch = new
        BY <1>4, <4>1, <4>2
      <4>4. \A r \in holds : Newest(f, r, new)'
        BY <1>4, <4>3
      <4>5. \A p : Gathers(f, p, mapped[f] \ holds) => DOMAIN p \subseteq mapped[f] \ holds
                   /\ \A r \in mapped[f] \ holds : Right(f, r, Says(p, r))'
        BY <1>2, <1>4 DEF Gathers, Alike
      <4>6. Carries(f, kind, holds, state)'
        BY <2>2, <3>1, <4>5 DEF Carries, Gathers
      <4> QED BY <2>5, <2>8, <4>1, <4>3, <4>4, <4>6 DEF Latest
    <3> QED BY <1>2, <2>5, <2>8, <3>3, <3>4 DEF Traced
  <2> QED BY <2>7, <2>8
<1> QED BY <1>4, <1>5 DEF AnswersInv

\* The file gets its output: what is known of each record of its batch is stored.
LEMMA FinalizesTraces ==
    ASSUME NEW k, Read(k), TypeInv', AnswersInv, NEW results, NEW exhausted,
           deaths = 0 /\ GivenUp(k.file) = {} => Gathers(k.file, results, mapped[k.file]),
           Finalizes(k, results, exhausted)
    PROVE  AnswersInv'
<1> DEFINE f == k.file
           Result(r) == IF r \in DOMAIN results /\ results[r] # Lost THEN Stored(results[r])
                        ELSE Without(IF r \in exhausted THEN "exhausted" ELSE "failed")
           marked == [registry EXCEPT ![Original(f)].collected = TRUE]
           rest == {j \in DOMAIN marked : j.file # f \/ j.kind = "original"}
           row == [r \in job.inputs[f] |-> IF r \in mapped[f] THEN Result(r) ELSE outcome[f][r]]
<1>1. PICK writes \in 1..4 :
          /\ recovery' = [recovery EXCEPT ![f] = None]
          /\ outcome' = IF writes = 1 THEN outcome ELSE [outcome EXCEPT ![f] = row]
          /\ registry' = CASE writes <= 2 -> registry
                           [] writes = 3 -> marked
                           [] writes = 4 -> Restricted(marked, rest)
          /\ Through(writes, 4, Handled(k) /\ pass' = [pass EXCEPT !.wrote = TRUE])
          /\ UNCHANGED <<batches, mapped>>
  BY DEF Finalizes
<1>2. /\ TypeInv /\ f \in Files /\ job' = job /\ deaths \in Nat
      /\ writes = 4 => deaths' = deaths
      /\ writes # 4 => deaths' = deaths + 1
  BY <1>1, EntryOK DEF Through, Read, RoundsInv, TypeInv, AroundOK
<1>3. Silent' /\ \A g \in Files : GivenUp(g)' = GivenUp(g)
  BY <1>1 DEF AnswersInv, Silent, GivenUp
<1>4. \A g \in Files : \A r : Alike(g, r)
  BY <1>1 DEF Alike, Newest, Right, Batches
<1>5. ASSUME deaths' = 0, NEW g \in Files, GivenUp(g)' = {} PROVE Traced(g)'
  <2>1. writes = 4 /\ deaths = 0
    BY <1>2, <1>5
  <2>2. /\ registry' = Restricted(marked, rest) /\ recovery' = [recovery EXCEPT ![f] = None]
        /\ outcome' = [outcome EXCEPT ![f] = row] /\ mapped' = mapped /\ batches' = batches
    BY <1>1, <2>1
  <2>3. Traced(g) /\ GivenUp(g) = {}
    BY <1>3, <1>5, <2>1 DEF AnswersInv
  <2>4. /\ \A j : j \in DOMAIN registry' <=>
              j \in DOMAIN registry /\ (j.file # f \/ j.kind = "original")
        /\ \A j \in DOMAIN registry' : j.file # f => registry'[j] = registry[j]
        /\ Original(f) \in DOMAIN registry' => registry'[Original(f)].collected
    <3>1. Original(f).file = f /\ registry \in [DOMAIN registry -> Entries]
      BY <1>2 DEF Original, Key, TypeInv, DiskOK, RegistryOK
    <3>2. /\ DOMAIN marked = DOMAIN registry
          /\ \A j \in DOMAIN registry : j.file # f => marked[j] = registry[j]
          /\ Original(f) \in DOMAIN registry => marked[Original(f)].collected
      BY <3>1 DEF Entries
    <3> HIDE DEF marked
    <3> QED BY <2>2, <3>2 DEF Restricted
  <2> HIDE DEF row
  <2>5. /\ recovery'[g] = IF g = f THEN None ELSE recovery[g]
        /\ outcome'[g] = IF g = f THEN row ELSE outcome[g]
    BY <1>2, <2>2 DEF TypeInv, DiskOK, RecoveryOK, OutcomeOK
  <2>6. CASE g # f
    <3>1. SameEntries(g)
      BY <2>4, <2>6 DEF SameEntries
    <3>2. \A r \in job.inputs[g] : Stays(g, r)
      BY <2>5, <2>6 DEF Stays, StoredOf, HasAnswer
    <3> QED BY <1>2, <1>4, <2>2, <2>3, <2>5, <2>6, <3>1, <3>2, TracedStays
  <2>7. CASE g = f
    <3>1. Gathers(f, results, mapped[f])
      BY <2>1, <2>3, <2>7
    <3>2. ~Watched(f)' /\ Rounds(f)' = {}
      BY <2>4 DEF Watched, Rounds
    <3>3. ASSUME NEW r \in job.inputs[f] PROVE Right(f, r, StoredOf(f, r))'
      <4>1. CASE r \in mapped[f]
        <5>1. StoredOf(f, r)' = Says(results, r)
          <6>1. row[r] = Result(r)
            BY <4>1 DEF row
          <6>2. outcome'[f][r] = Result(r)
            BY <2>5, <2>7, <6>1
          <6> QED BY <6>2 DEF StoredOf, HasAnswer, Says, Stored, Without
        <5>2. Right(f, r, Says(results, r))'
          BY <1>4, <1>2, <3>1, <4>1 DEF Gathers, Alike
        <5> QED BY <5>1, <5>2
      <4>2. CASE r \notin mapped[f]
        <5>1. row[r] = outcome[f][r]
          BY <4>2 DEF row
        <5>2. StoredOf(f, r)' = StoredOf(f, r)
          BY <2>5, <2>7, <5>1 DEF StoredOf, HasAnswer
        <5>3. Right(f, r, StoredOf(f, r))
          BY <2>3, <2>7, <4>2 DEF Traced
        <5> QED BY <1>4, <1>2, <5>2, <5>3 DEF Alike
      <4> QED BY <4>1, <4>2
    <3> QED BY <1>2, <2>7, <3>2, <3>3 DEF Traced
  <2> QED BY <2>6, <2>7
<1> QED BY <1>3, <1>5 DEF AnswersInv

\* The provider gave the file's own batch up: there was no answer to it.
LEMMA FailUnreadableTraces ==
    ASSUME BatchesInv, TypeInv', AnswersInv, NEW k \in DOMAIN registry, k.kind = "original",
           ~registry[k].collected, registry[k].status \in Dead, FailUnreadable(k)
    PROVE  AnswersInv'
<1> DEFINE f == k.file
<1>1. PICK writes \in 1..2 :
          /\ registry' = IF writes = 2 THEN [registry EXCEPT ![k].collected = TRUE] ELSE registry
          /\ Through(writes, 2, Handled(k) /\ UNCHANGED pass)
          /\ outcome' = Failed(f) /\ UNCHANGED <<batches, recovery, mapped>>
  BY DEF FailUnreadable
<1>2. /\ TypeInv /\ f \in Files /\ k = Original(f) /\ job' = job /\ deaths \in Nat
      /\ writes = 2 => deaths' = deaths
      /\ writes # 2 => deaths' = deaths + 1
  BY <1>1, EntryOK DEF Through, BatchesInv, RoundsInv, TypeInv, AroundOK
<1>3. Silent' /\ \A g \in Files : GivenUp(g)' = GivenUp(g)
  BY <1>1 DEF AnswersInv, Silent, GivenUp
<1>4. \A g \in Files : \A r : Alike(g, r)
  BY <1>1 DEF Alike, Newest, Right, Batches
<1>5. /\ outcome'[f] = [r \in job.inputs[f] |-> IF r \in mapped[f] THEN Without("failed") ELSE outcome[f][r]]
      /\ \A g \in Files : g # f => outcome'[g] = outcome[g]
  <2>1. outcome = [g \in Files |-> [r \in job.inputs[g] |-> outcome[g][r]]]
    BY <1>2 DEF TypeInv, DiskOK, OutcomeOK
  <2> QED BY <1>1, <1>2, <2>1 DEF Failed
<1>6. ASSUME deaths' = 0, NEW g \in Files, GivenUp(g)' = {} PROVE Traced(g)'
  <2>1. writes = 2 /\ deaths = 0
    BY <1>2, <1>6
  <2>2. Traced(g)
    BY <1>3, <1>6, <2>1 DEF AnswersInv
  <2>3. /\ DOMAIN registry' = DOMAIN registry /\ registry'[k].collected
        /\ \A j \in DOMAIN registry : registry'[j].batch = registry[j].batch
                                      /\ (j # k => registry'[j] = registry[j])
    <3>1. registry \in [DOMAIN registry -> Entries]
      BY <1>2 DEF TypeInv, DiskOK, RegistryOK
    <3> QED BY <1>1, <2>1, <3>1 DEF Entries
  <2>4. CASE g # f
    <3>1. SameEntries(g)
      BY <2>3, <2>4 DEF SameEntries
    <3>2. \A r \in job.inputs[g] : Stays(g, r)
      BY <1>5, <2>4 DEF Stays, StoredOf, HasAnswer
    <3> QED BY <1>1, <1>2, <1>4, <2>2, <3>1, <3>2, TracedStays
  <2>5. CASE g = f
    <3>1. Watched(f) /\ Named(k).status \in Dead
      BY <1>2 DEF Watched, BatchesInv, RoundsInv, NamedInv, EntriesTell, Dead
    <3>2. recovery[f] = None
      BY <1>2, <3>1 DEF BatchesInv, RoundsInv, NamedInv, RoundsWait, Settling, Dead
    <3>3. Rounds(f) = {}
      BY <1>2, <2>1, <3>2 DEF BatchesInv, EntriesInv, StatesSaved
    <3>4. /\ registry[k].batch \in 1..Len(batches) /\ batches[registry[k].batch].file = f
          /\ Answered(batches[registry[k].batch]) = {}
          /\ Latest(f, registry[k].batch, mapped[f])
      BY <1>2, <2>2, <2>5, <3>1, <3>2, EntryOK DEF AnswersInv, Silent, Dead, Traced
    <3>5. ~Watched(f)' /\ Rounds(f)' = {}
      BY <1>2, <2>3, <3>3 DEF Watched, Rounds
    <3>6. ASSUME NEW r \in job.inputs[f] PROVE Right(f, r, StoredOf(f, r))'
      <4>1. CASE r \in mapped[f]
        <5>1. StoredOf(f, r)' = Lost
          BY <1>5, <4>1 DEF StoredOf, HasAnswer, Without
        <5>2. Right(f, r, Lost)
          BY <1>2, <3>4, <4>1, LatestSays
        <5>3. Right(f, r, Lost)'
          BY <1>2, <1>4, <5>2 DEF Alike
        <5> QED BY <5>1, <5>3
      <4>2. CASE r \notin mapped[f]
        <5>1. StoredOf(f, r)' = StoredOf(f, r)
          BY <1>5, <4>2 DEF StoredOf, HasAnswer
        <5>2. Right(f, r, StoredOf(f, r))
          BY <2>2, <2>5, <4>2 DEF Traced
        <5> QED BY <1>2, <1>4, <5>1, <5>2 DEF Alike
      <4> QED BY <4>1, <4>2
    <3> QED BY <1>2, <2>5, <3>5, <3>6 DEF Traced
  <2> QED BY <2>4, <2>5
<1> QED BY <1>3, <1>6 DEF AnswersInv

\* The process moves on, or an error fails records that had no answer.
LEMMA RestTraces ==
    ASSUME TypeInv, TypeInv', AnswersInv, UNCHANGED <<disk, job, deaths>> PROVE AnswersInv'
<1>1. \A f \in Files : SameEntries(f) /\ \A r : Stays(f, r)
  BY DEF SameEntries, Stays, StoredOf, HasAnswer, disk
<1> QED BY <1>1, NothingMoves DEF disk

LEMMA AbandonsTraces ==
    ASSUME TypeInv, TypeInv', AnswersInv, NEW k \in DOMAIN registry, ~registry[k].collected, Abandons(k)
    PROVE  AnswersInv'
<1>1. /\ UNCHANGED <<batches, registry, recovery, mapped, job, deaths>>
      /\ IF k.kind = "original" THEN outcome' = Failed(k.file) ELSE outcome' = outcome
      /\ k.file \in Files /\ (k.kind = "original" => k = Original(k.file))
  BY EntryOK DEF Abandons
<1>2. \A f \in Files : SameEntries(f)
  BY <1>1 DEF SameEntries
<1>3. ASSUME NEW f \in Files, Traced(f), NEW r \in job.inputs[f] PROVE Stays(f, r)
  <2>1. CASE k = Original(k.file) /\ k.kind = "original" /\ f = k.file
    <3>1. Watched(f)
      BY <2>1 DEF Watched
    <3>2. outcome = [g \in Files |-> [q \in job.inputs[g] |-> outcome[g][q]]]
      BY DEF TypeInv, DiskOK, OutcomeOK
    <3>3. outcome'[f] = [q \in job.inputs[f] |-> IF q \in mapped[f] THEN Without("failed") ELSE outcome[f][q]]
      BY <1>1, <2>1, <3>2 DEF Failed
    <3>4. CASE r \in mapped[f]
      <4>1. ~HasAnswer(f, r)
        BY <1>3, <3>1, <3>4 DEF Traced
      <4>2. outcome'[f][r] = Without("failed")
        BY <3>3, <3>4
      <4> QED BY <4>1, <4>2 DEF Stays, StoredOf, HasAnswer, Without
    <3>5. CASE r \notin mapped[f]
      <4>1. outcome'[f][r] = outcome[f][r]
        BY <3>3, <3>5
      <4> QED BY <4>1 DEF Stays, StoredOf, HasAnswer
    <3> QED BY <3>4, <3>5
  <2>2. CASE ~(k.kind = "original" /\ f = k.file)
    <3>1. outcome = [g \in Files |-> [q \in job.inputs[g] |-> outcome[g][q]]]
      BY DEF TypeInv, DiskOK, OutcomeOK
    <3>2. outcome'[f] = outcome[f]
      BY <1>1, <2>2, <3>1 DEF Failed
    <3> QED BY <3>2 DEF Stays, StoredOf, HasAnswer
  <2> QED BY <1>1, <2>1, <2>2
<1> QED BY <1>1, <1>2, <1>3, NothingMoves

LEMMA ReadEntryTraces ==
    ASSUME BatchesInv, TypeInv', AnswersInv, NEW k \in todo, ReadEntry(k) PROVE AnswersInv'
<1>1. action = "checking_batch" /\ TypeInv
  BY DEF ReadEntry, BatchesInv, RoundsInv
<1>2. CASE Leaves(k)
  BY <1>1, <1>2, RestTraces DEF Leaves, around
<1>3. ASSUME k \in DOMAIN registry, ~registry[k].collected, Readable(k), Process(k)
      PROVE  AnswersInv'
  <2> DEFINE f == k.file
  <2>1. Read(k) /\ f \in Files
    BY <1>1, <1>3, EntryOK DEF Read, BatchesInv
  <2>2. k.kind = "original" \/ recovery[f] # None => Settling(f)
    BY <2>1, ReadAlone DEF BatchesInv, RoundsInv, NamedInv, RoundsWait
  <2>3. k.kind # "original" /\ deaths = 0 => recovery[f] # None
    BY <1>3, <2>1 DEF BatchesInv, EntriesInv, StatesSaved, Rounds
  <2>4. CASE deaths = 0 /\ GivenUp(f) = {}
    <3>1. Defers(k) \/ Delivers(k) \/ Resends(k)
      BY <1>3, <2>1, <2>4, ProcessCarries DEF AnswersInv
    <3>2. ASSUME Delivers(k) PROVE AnswersInv'
      <4>1. PICK results, exhausted : Gathers(f, results, mapped[f]) /\ Finalizes(k, results, exhausted)
        BY <3>2 DEF Delivers
      <4> QED BY <2>1, <4>1, FinalizesTraces
    <3>3. ASSUME Resends(k) PROVE AnswersInv'
      <4>1. PICK kind \in {"retry", "repair"} : \E attempt, holds, state :
               state # None /\ Carries(f, kind, holds, state) /\ Registers(k, kind, attempt, holds, state)
        BY <3>3 DEF Resends
      <4>2. PICK attempt, holds, state :
               state # None /\ Carries(f, kind, holds, state) /\ Registers(k, kind, attempt, holds, state)
        BY <4>1
      <4> QED BY <2>1, <2>2, <2>3, <2>4, <4>2, RegistersTraces
    <3> QED BY <1>2, <3>1, <3>2, <3>3 DEF Defers
  <2>5. CASE ~(deaths = 0 /\ GivenUp(f) = {})
    <3>1. ASSUME Ends(k) PROVE AnswersInv'
      <4>1. PICK results, exhausted : Finalizes(k, results, exhausted)
        BY <3>1 DEF Ends
      <4> QED BY <2>1, <2>5, <4>1, FinalizesTraces
    <3>2. ASSUME Sends(k), Settling(f) PROVE AnswersInv'
      <4>1. PICK kind \in {"retry", "repair"} : \E attempt, holds, state :
               state # None /\ Registers(k, kind, attempt, holds, state)
        BY <3>2 DEF Sends
      <4>2. PICK attempt, holds, state : state # None /\ Registers(k, kind, attempt, holds, state)
        BY <4>1
      <4> QED BY <2>1, <2>5, <3>2, <4>2, RegistersTraces
    <3>3. ASSUME DropEntry(k), deaths # 0 PROVE AnswersInv'
      <4>1. batches' = batches /\ deaths' = deaths
        BY <3>3 DEF DropEntry, around
      <4> QED BY <3>3, <4>1 DEF AnswersInv, Silent
    <3> QED BY <1>1, <1>2, <1>3, <2>1, <2>2, <2>3, <3>1, <3>2, <3>3, ProcessActs DEF Defers
  <2> QED BY <2>4, <2>5
<1>4. CASE k \in DOMAIN registry /\ ~registry[k].collected /\ Abandons(k)
  BY <1>1, <1>4, AbandonsTraces
<1>5. CASE /\ k \in DOMAIN registry /\ ~registry[k].collected /\ k.kind = "original"
           /\ registry[k].status \in Dead /\ FailUnreadable(k)
  BY <1>5, FailUnreadableTraces
<1>6. \/ Leaves(k)
      \/ k \in DOMAIN registry /\ ~registry[k].collected /\ Abandons(k)
      \/ /\ k \in DOMAIN registry /\ ~registry[k].collected /\ k.kind = "original"
         /\ registry[k].status \in Dead /\ FailUnreadable(k)
      \/ k \in DOMAIN registry /\ ~registry[k].collected /\ Readable(k) /\ Process(k)
  BY DEF ReadEntry, Unasked, Defers, Notes
<1> QED BY <1>2, <1>3, <1>4, <1>5, <1>6

-----------------------------------------------------------------------------
(* Every step *)

\* A run starts: what is not an answer is cleared.
LEMMA BeginRunTraces == ASSUME TypeInv, TypeInv', AnswersInv, BeginRun PROVE AnswersInv'
<1>1. /\ UNCHANGED <<batches, registry, recovery, mapped, job, deaths>>
      /\ outcome' = [f \in Files |-> [r \in job.inputs[f] |->
            IF HasAnswer(f, r) THEN outcome[f][r] ELSE Without("none")]]
  BY DEF BeginRun, around
<1>2. \A f \in Files : SameEntries(f)
  BY <1>1 DEF SameEntries
<1>3. ASSUME NEW f \in Files, NEW r \in job.inputs[f] PROVE Stays(f, r)
  <2>1. outcome'[f][r] = IF HasAnswer(f, r) THEN outcome[f][r] ELSE Without("none")
    BY <1>1
  <2> QED BY <2>1 DEF Stays, StoredOf, HasAnswer, Without
<1> QED BY <1>1, <1>2, <1>3, NothingMoves

\* The entries learn what has ended.
LEMMA PollTraces == ASSUME TypeInv, TypeInv', AnswersInv, Poll PROVE AnswersInv'
<1>1. UNCHANGED <<batches, recovery, mapped, outcome, job, deaths>>
  BY DEF Poll, around
<1>2. registry' = registry \/ registry' = polled
  <2>1. overall_status(registry) \in {"completed", "cancelled", "no_batches", "in_progress", "partial_failed"}
    BY DEF overall_status
  <2> QED BY <2>1 DEF Poll
<1>3. /\ DOMAIN registry' = DOMAIN registry
      /\ \A k \in DOMAIN registry : registry'[k].batch = registry[k].batch
                                    /\ registry'[k].collected = registry[k].collected
  BY <1>2 DEF polled, TypeInv, DiskOK, RegistryOK, Entries
<1>4. \A f \in Files : SameEntries(f) /\ \A r : Stays(f, r)
  BY <1>1, <1>3 DEF SameEntries, Stays, StoredOf, HasAnswer
<1> QED BY <1>1, <1>4, NothingMoves

LEMMA NextTraces == ASSUME BatchesInv, TypeInv', AnswersInv, [Next]_vars PROVE AnswersInv'
<1>1. TypeInv
  BY DEF BatchesInv, RoundsInv
<1>2. CASE BeginRun
  BY <1>1, <1>2, BeginRunTraces
<1>3. CASE \E f \in Files : submit_batch_job(f)
  <2>1. PICK f \in Files : SkipFile(f) \/ SendFile(f) \/ RefuseFile(f)
    BY <1>3 DEF submit_batch_job
  <2>2. CASE SkipFile(f) \/ RefuseFile(f)
    BY <1>1, <2>2, RestTraces DEF SkipFile, RefuseFile, around
  <2> QED BY <2>1, <2>2, SendFileTraces
<1>4. CASE Poll
  BY <1>1, <1>4, PollTraces
<1>5. CASE Provider
  BY <1>5, ProviderTraces
<1>6. CASE \E k \in todo : ReadEntry(k)
  BY <1>6, ReadEntryTraces
<1>7. CASE Submitted \/ EndPass \/ OutageBegins \/ OutageEnds \/ UNCHANGED vars
  <2>1. UNCHANGED <<disk, job, deaths>>
    BY <1>7 DEF Submitted, EndPass, OutageBegins, OutageEnds, vars, around
  <2> QED BY <1>1, <2>1, RestTraces
<1> QED BY <1>2, <1>3, <1>4, <1>5, <1>6, <1>7 DEF Next, Run

\* While the process lives, what a record was last sent for is stored, gathered in the state
\* of the round that is out, or at the batch an entry names, for any files, jobs and number
\* of outages and batches given up; but for a file with a repair given up.
THEOREM AnswersTraced == Spec => []AnswersInv
<1>1. Init => AnswersInv
  <2> SUFFICES ASSUME Init PROVE AnswersInv
    OBVIOUS
  <2>1. /\ DOMAIN registry = {} /\ DOMAIN batches = {} /\ Len(batches) = 0
        /\ outcome = [f \in Files |-> [r \in job.inputs[f] |-> Without("none")]]
    BY DEF Init
  <2>2. ASSUME NEW f \in Files PROVE Traced(f)
    <3>1. Rounds(f) = {} /\ ~Watched(f) /\ \A r : Batches(f, r) = {}
      BY <2>1 DEF Rounds, Watched, Batches
    <3>2. \A r \in job.inputs[f] : StoredOf(f, r) = Lost
      BY <2>1 DEF StoredOf, HasAnswer, Without
    <3> QED BY <3>1, <3>2 DEF Traced, Right
  <2> QED BY <2>1, <2>2 DEF AnswersInv, Silent
<1>2. BatchesInv /\ TypeInv' /\ AnswersInv /\ [Next]_vars => AnswersInv'
  BY NextTraces
<1>3. RoundsInv /\ SettledInv /\ BudgetInv => BatchesInv
  BY DEF BatchesInv, SettledInv, BudgetInv
<1> QED BY <1>1, <1>2, <1>3, RegistrySound, RoundsAlone, PassesCome, RoundsCounted, PTL DEF Spec

\* An answer that came back is kept until a later batch holds its record, and what is stored
\* is the newest, for any files, jobs and number of outages and batches given up: while the
\* process lives, and but for a file with a repair given up, which is read anew.
THEOREM AnswersHeld == Spec => []NoAnswerLost
<1>1. BatchesInv /\ AnswersInv => NoAnswerLost
  <2> SUFFICES ASSUME BatchesInv, AnswersInv, deaths = 0, NEW f \in Files, DeadRepairs(f) = {},
                      NEW r \in job.inputs[f], NEW n \in Batches(f, r)
               PROVE  /\ Newest(f, r, n) /\ r \in Answered(batches[n]) => Kept(f, r, n)
                      /\ outcome[f][r] = Stored(n) => Newest(f, r, n)
    BY DEF NoAnswerLost
  <2>1. TypeInv /\ n # Lost /\ GivenUp(f) = {} /\ DOMAIN batches = 1..Len(batches)
    BY DEF BatchesInv, RoundsInv, TypeInv, DiskOK, Batches, Lost, GivenUp, DeadRepairs
  <2>2. Traced(f)
    BY <2>1 DEF AnswersInv
  <2>3. \A m \in 1..Len(batches) : batches[m].file = f /\ r \in batches[m].holds => m \in Batches(f, r)
    BY <2>1 DEF Batches
  <2>4. ASSUME Newest(f, r, n), r \in Answered(batches[n]) PROVE Kept(f, r, n)
    <3>1. \A m : Right(f, r, m) => m = n
      BY <2>4 DEF Right
    <3>2. CASE ~(Watched(f) /\ r \in mapped[f])
      <4>1. StoredOf(f, r) = n
        BY <2>2, <3>1, <3>2 DEF Traced
      <4>2. outcome[f][r].is = "answered" /\ outcome[f][r].from = n
        BY <2>1, <4>1 DEF StoredOf, HasAnswer
      <4>3. outcome[f][r] \in [is : Dispositions, from : 0..Len(batches)]
        BY <2>1 DEF TypeInv, DiskOK, OutcomeOK
      <4>4. outcome[f][r] = Stored(n)
        BY <4>2, <4>3 DEF Stored
      <4> QED BY <4>4 DEF Kept
    <3>3. CASE Watched(f) /\ r \in mapped[f] /\ recovery[f] = None
      <4> DEFINE k == Original(f)
      <4>1. k \in DOMAIN registry /\ ~registry[k].collected /\ k.file = f
        BY <3>3 DEF Watched, Original, Key
      <4> HIDE DEF k
      <4>2. registry[k].batch \in Batches(f, r) /\ Newest(f, r, registry[k].batch)
        BY <2>1, <2>2, <2>3, <3>3, <4>1, EntryOK DEF Traced, Latest, k
      <4>3. registry[k].batch = n
        BY <2>1, <2>4, <4>2, NewestOne
      <4> QED BY <4>1, <4>3 DEF Kept
    <3>4. CASE Watched(f) /\ r \in mapped[f] /\ recovery[f] # None
      <4>1. PICK k : k \in Rounds(f)
        BY <3>4 DEF BatchesInv, StatesCount
      <4>2. PICK m \in 1..Len(batches) : m = registry[k].batch /\ batches[m].file = f
        BY <2>1, <4>1, EntryOK DEF Rounds
      <4>3. Latest(f, m, batches[m].holds) /\ Carries(f, k.kind, batches[m].holds, recovery[f])
        BY <2>2, <4>1, <4>2 DEF Traced
      <4>4. CASE r \in batches[m].holds
        <5>1. m \in Batches(f, r) /\ Newest(f, r, m)
          BY <2>3, <4>2, <4>3, <4>4 DEF Latest
        <5>2. registry[k].batch = n
          BY <2>1, <2>4, <4>2, <5>1, NewestOne
        <5>3. k \in DOMAIN registry /\ ~registry[k].collected
          BY <4>1 DEF Rounds, BatchesInv, EntriesInv, EntriesApart
        <5> QED BY <5>2, <5>3 DEF Kept
      <4>5. CASE r \notin batches[m].holds
        <5>1. PICK part \in {recovery[f].accumulated, recovery[f].pool} :
                 Gathers(f, part, mapped[f] \ batches[m].holds)
          BY <4>3 DEF Carries
        <5>2. Says(part, r) = n
          BY <3>1, <3>4, <4>5, <5>1 DEF Gathers
        <5>3. r \in DOMAIN part /\ part[r] = n
          BY <2>1, <5>2 DEF Says
        <5> QED BY <3>4, <5>1, <5>3 DEF Kept
      <4> QED BY <4>4, <4>5
    <3> QED BY <3>2, <3>3, <3>4
  <2>5. ASSUME outcome[f][r] = Stored(n) PROVE Newest(f, r, n)
    <3>1. HasAnswer(f, r) /\ StoredOf(f, r) = n
      BY <2>5 DEF HasAnswer, StoredOf, Stored
    <3>2. Right(f, r, n)
      BY <2>2, <3>1 DEF Traced
    <3> QED BY <2>1, <3>2 DEF Right
  <2> QED BY <2>4, <2>5
<1>2. RoundsInv /\ SettledInv /\ BudgetInv => BatchesInv
  BY DEF BatchesInv, SettledInv, BudgetInv
<1> QED BY <1>1, <1>2, AnswersTraced, RoundsAlone, PassesCome, RoundsCounted, PTL
=============================================================================
