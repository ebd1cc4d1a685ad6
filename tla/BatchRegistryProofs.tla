-------------------------- MODULE BatchRegistryProofs --------------------------
(***************************************************************************)
(* The batches of one action: what the registry, the recovery states and   *)
(* the stored outcomes may hold, whatever is sent, answered, refused, lost *)
(* or killed.                                                              *)
(***************************************************************************)
EXTENDS BatchRegistry, FiniteSetTheorems, TLAPS

-----------------------------------------------------------------------------
(* The ranges of the variables *)

Conditions == {"out", "completed"} \cup Dead
Dispositions == Verdicts \cup {"none", "deferred"}

Taken == [file : Files, kind : Kinds, holds : SUBSET Records, status : Conditions,
          good : SUBSET Records, poor : SUBSET Records]
Keys == {k \in [file : Files, kind : Kinds, attempt : Nat] : k.kind = "original" => k = Original(k.file)}
Entries == [batch : Nat, status : Conditions, collected : BOOLEAN]
Passes == [superseded : SUBSET Keys, wrote : BOOLEAN, collectedBefore : BOOLEAN,
           unread : BOOLEAN]

\* A batch holds records of its file and answers for records it holds.
BatchOK(b) ==
    /\ b \in Taken /\ b.holds \subseteq job.inputs[b.file]
    /\ Answered(b) \subseteq b.holds /\ b.good \cap b.poor = {}

\* Every entry of a registry names one of the batches, of its file and its kind.
RegistryOK(reg, taken) ==
    /\ DOMAIN reg \subseteq Keys /\ reg \in [DOMAIN reg -> Entries]
    /\ \A k \in DOMAIN reg : LET n == reg[k].batch IN
          n \in 1..Len(taken) /\ taken[n].file = k.file /\ taken[n].kind = k.kind

\* Answers gathered for records of f, from batches among the first n, or lost.
PoolOK(p, f, n) ==
    DOMAIN p \subseteq job.inputs[f] /\ \A r \in DOMAIN p : p[r] \in 0..n

StateOK(s, f, n) ==
    /\ s = Round(s.sent, s.missing, s.accumulated, s.round, s.held, s.pool)
    /\ s.sent \in Nat /\ s.round \in Nat
    /\ s.missing \subseteq job.inputs[f] /\ s.held \subseteq job.inputs[f]
    /\ PoolOK(s.accumulated, f, n) /\ PoolOK(s.pool, f, n)

RecoveryOK(rec, n) ==
    /\ rec = [f \in Files |-> rec[f]]
    /\ \A f \in Files : rec[f] = None \/ StateOK(rec[f], f, n)

OutcomeOK(out, n) ==
    /\ out = [f \in Files |-> [r \in job.inputs[f] |-> out[f][r]]]
    /\ \A f \in Files : \A r \in job.inputs[f] :
          /\ out[f][r] \in [is : Dispositions, from : 0..n]
          /\ out[f][r].is = "answered" => out[f][r].from # Lost

DiskOK ==
    /\ batches \in Seq(Taken) /\ \A n \in 1..Len(batches) : BatchOK(batches[n])
    /\ RegistryOK(registry, batches)
    /\ RecoveryOK(recovery, Len(batches))
    /\ mapped \in [Files -> SUBSET Records] /\ \A f \in Files : mapped[f] \subseteq job.inputs[f]
    /\ OutcomeOK(outcome, Len(batches))

ProcessOK ==
    /\ action \in {"pending", "submitting", "batch_submitted", "checking_batch", "stopped",
                   "completed"}
    /\ IF action = "checking_batch" THEN pass \in Passes /\ todo \subseteq Keys ELSE pass = None

AroundOK ==
    /\ job \in Jobs /\ flaky \in BOOLEAN /\ abandoned \subseteq Files
    /\ deaths \in Nat /\ dead \in Nat /\ outages \in Nat

TypeInv == DiskOK /\ ProcessOK /\ AroundOK

-----------------------------------------------------------------------------
(* What the helpers return *)

\* The records of a file.
LEMMA InputsOK ==
    ASSUME job \in Jobs, NEW f \in Files
    PROVE  job.inputs[f] \subseteq Records /\ job.attempts \in Nat /\ job.rounds \in Nat
BY JobsAssumption

\* A pass is not the absence of one.
LEMMA PassIsSome == ASSUME NEW p \in Passes PROVE p # None
<1>1. "wrote" \in DOMAIN p
  BY DEF Passes
<1>2. "wrote" \notin DOMAIN None
  BY DEF None
<1> QED BY <1>1, <1>2

\* A state is not the absence of one.
LEMMA StateIsSome == ASSUME NEW f, NEW n, NEW s, StateOK(s, f, n) PROVE s # None
<1>1. "sent" \in DOMAIN s
  BY DEF StateOK, Round
<1>2. "sent" \notin DOMAIN None
  BY DEF None
<1> QED BY <1>1, <1>2

\* What names one of the first batches still does once there are more.
LEMMA MoreBatches ==
    ASSUME NEW n \in Nat, NEW m \in Nat, n <= m
    PROVE  /\ \A p, f : PoolOK(p, f, n) => PoolOK(p, f, m)
           /\ \A s, f : StateOK(s, f, n) => StateOK(s, f, m)
           /\ \A rec : RecoveryOK(rec, n) => RecoveryOK(rec, m)
           /\ \A out : OutcomeOK(out, n) => OutcomeOK(out, m)
<1>1. ASSUME NEW p, NEW f, PoolOK(p, f, n) PROVE PoolOK(p, f, m)
  BY <1>1 DEF PoolOK
<1>2. ASSUME NEW s, NEW f, StateOK(s, f, n) PROVE StateOK(s, f, m)
  BY <1>1, <1>2 DEF StateOK
<1>3. ASSUME NEW rec, RecoveryOK(rec, n) PROVE RecoveryOK(rec, m)
  BY <1>2, <1>3 DEF RecoveryOK
<1>4. ASSUME NEW out, OutcomeOK(out, n) PROVE OutcomeOK(out, m)
  <2>1. \A d \in [is : Dispositions, from : 0..n] : d \in [is : Dispositions, from : 0..m]
    OBVIOUS
  <2> QED BY <1>4, <2>1 DEF OutcomeOK
<1> QED BY <1>1, <1>2, <1>3, <1>4

\* Pools: over one another, restricted, and what a batch answered.
LEMMA OverOK ==
    ASSUME NEW f, NEW n, NEW p, NEW q, PoolOK(p, f, n), PoolOK(q, f, n)
    PROVE  PoolOK(Over(p, q), f, n) /\ DOMAIN Over(p, q) = DOMAIN p \cup DOMAIN q
BY DEF PoolOK, Over

LEMMA RestrictedOK ==
    ASSUME NEW f, NEW n, NEW p, NEW S, PoolOK(p, f, n)
    PROVE  PoolOK(Restricted(p, S), f, n) /\ DOMAIN Restricted(p, S) = DOMAIN p \cap S
BY DEF PoolOK, Restricted

LEMMA AnswersOK ==
    ASSUME DiskOK, NEW n \in 1..Len(batches)
    PROVE  /\ PoolOK(Answers(n), batches[n].file, Len(batches))
           /\ DOMAIN Answers(n) = Answered(batches[n])
BY DEF DiskOK, BatchOK, PoolOK, Answers

\* Registries: with a new entry, with entries removed, with an entry collected.
LEMMA NamingOK ==
    ASSUME DiskOK, NEW k \in Keys, NEW taken, Len(taken) = Len(batches) + 1,
           \A n \in 1..Len(batches) : taken[n] = batches[n],
           taken[Len(taken)].file = k.file, taken[Len(taken)].kind = k.kind
    PROVE  RegistryOK(Naming(k), taken)
<1>1. NewEntry \in Entries /\ NewEntry.batch = Len(batches) + 1 /\ Len(batches) \in Nat
  BY DEF NewEntry, Entries, DiskOK, Conditions
<1>2. DOMAIN registry \subseteq Keys /\ registry \in [DOMAIN registry -> Entries]
      /\ \A j \in DOMAIN registry :
            /\ registry[j].batch \in 1..Len(batches)
            /\ batches[registry[j].batch].file = j.file /\ batches[registry[j].batch].kind = j.kind
  BY DEF DiskOK, RegistryOK
<1>3. ASSUME NEW j \in DOMAIN Naming(k)
      PROVE  /\ Naming(k)[j] \in Entries /\ j \in Keys /\ Naming(k)[j].batch \in 1..Len(taken)
             /\ taken[Naming(k)[j].batch].file = j.file /\ taken[Naming(k)[j].batch].kind = j.kind
  <2>1. CASE j = k
    <3>1. Naming(k)[j] = NewEntry
      BY <2>1 DEF Naming
    <3> HIDE DEF NewEntry
    <3> QED BY <1>1, <2>1, <3>1
  <2>2. CASE j # k
    <3>1. j \in DOMAIN registry /\ Naming(k)[j] = registry[j]
      BY <1>3, <2>2 DEF Naming
    <3> QED BY <1>1, <1>2, <3>1
  <2> QED BY <2>1, <2>2
<1>4. Naming(k) = [j \in DOMAIN Naming(k) |-> Naming(k)[j]]
  BY DEF Naming
<1> QED BY <1>3, <1>4 DEF RegistryOK

LEMMA RemovedOK ==
    ASSUME NEW taken, NEW reg, NEW S, RegistryOK(reg, taken)
    PROVE  RegistryOK(Restricted(reg, S), taken)
BY DEF RegistryOK, Restricted

LEMMA CollectedOK ==
    ASSUME NEW taken, NEW reg, NEW k, RegistryOK(reg, taken)
    PROVE  RegistryOK([reg EXCEPT ![k].collected = TRUE], taken)
BY DEF RegistryOK, Entries


\* Outcomes: with the row of one file written anew.
DispositionOK(d, n) == d \in [is : Dispositions, from : 0..n] /\ (d.is = "answered" => d.from # Lost)

LEMMA RowOK ==
    ASSUME NEW n, NEW out, OutcomeOK(out, n), NEW f \in Files, NEW row,
           row = [r \in job.inputs[f] |-> row[r]],
           \A r \in job.inputs[f] : DispositionOK(row[r], n)
    PROVE  OutcomeOK([out EXCEPT ![f] = row], n)
BY DEF OutcomeOK, DispositionOK

-----------------------------------------------------------------------------
(* What every step leaves in range *)

DiskTyped == DiskOK /\ AroundOK

\* The provider takes a batch: it is the last, and those before it stay.
LEMMA BatchTaken ==
    ASSUME DiskTyped, job' = job, NEW f \in Files, NEW kind \in Kinds, NEW STATE holds,
           holds \subseteq job.inputs[f], Takes(f, kind, holds)
    PROVE  /\ batches' \in Seq(Taken) /\ Len(batches) \in Nat /\ Len(batches') = Len(batches) + 1
           /\ \A n \in 1..Len(batches) : batches'[n] = batches[n]
           /\ batches'[Len(batches')].file = f /\ batches'[Len(batches')].kind = kind
           /\ batches'[Len(batches')].holds = holds
           /\ batches'[Len(batches')].status = "out"
           /\ Answered(batches'[Len(batches')]) = {}
           /\ \A n \in 1..Len(batches') : BatchOK(batches[n])'
<1> DEFINE b == [file |-> f, kind |-> kind, holds |-> holds, status |-> "out",
                 good |-> {}, poor |-> {}]
<1>1. b \in Taken /\ b.file = f /\ b.kind = kind /\ b.holds = holds /\ b.status = "out"
      /\ b.good = {} /\ b.poor = {} /\ Answered(b) = {}
  BY InputsOK DEF DiskTyped, AroundOK, Taken, Conditions, Answered
<1>2. batches' = Append(batches, b) /\ batches \in Seq(Taken)
  BY DEF Takes, DiskTyped, DiskOK
<1> HIDE DEF b
<1>3. /\ batches' \in Seq(Taken) /\ Len(batches) \in Nat /\ Len(batches') = Len(batches) + 1
      /\ \A n \in 1..Len(batches) : batches'[n] = batches[n]
      /\ batches'[Len(batches')] = b
  BY <1>1, <1>2
<1>4. ASSUME NEW n \in 1..Len(batches') PROVE BatchOK(batches[n])'
  <2>1. CASE n = Len(batches')
    BY <1>1, <1>3, <2>1 DEF BatchOK
  <2>2. CASE n # Len(batches')
    BY <1>3, <2>2 DEF DiskTyped, DiskOK, BatchOK
  <2> QED BY <2>1, <2>2
<1> QED BY <1>1, <1>3, <1>4

\* The parts of the disk that a step leaves alone, while batches may be taken or end.
LEMMA DiskGrows ==
    ASSUME DiskTyped, Len(batches') \in Nat, Len(batches) <= Len(batches'),
           \A n \in 1..Len(batches) : batches'[n].file = batches[n].file /\ batches'[n].kind = batches[n].kind
    PROVE  /\ RegistryOK(registry, batches') /\ RecoveryOK(recovery, Len(batches'))
           /\ OutcomeOK(outcome, Len(batches'))
<1>1. Len(batches) \in Nat
  BY DEF DiskTyped, DiskOK
<1>2. RegistryOK(registry, batches')
  BY <1>1 DEF DiskTyped, DiskOK, RegistryOK
<1> QED BY <1>1, <1>2, MoreBatches DEF DiskTyped, DiskOK

\* The disk after a step, part by part.
LEMMA DiskNext ==
    ASSUME job' = job, batches' \in Seq(Taken), \A n \in 1..Len(batches') : BatchOK(batches[n])',
           RegistryOK(registry', batches'), RecoveryOK(recovery', Len(batches')),
           OutcomeOK(outcome', Len(batches')), mapped' \in [Files -> SUBSET Records],
           \A f \in Files : mapped'[f] \subseteq job.inputs[f]
    PROVE  DiskOK'
<1>1. RecoveryOK(recovery, Len(batches))'
  BY DEF RecoveryOK, StateOK, PoolOK
<1>2. OutcomeOK(outcome, Len(batches))'
  BY DEF OutcomeOK
<1>3. RegistryOK(registry, batches)'
  BY DEF RegistryOK
<1> QED BY <1>1, <1>2, <1>3 DEF DiskOK


\* A handler makes all its writes and goes on, or the process dies.
LEMMA ThroughOK ==
    ASSUME AroundOK, NEW writes, NEW last, NEW ACTION goesOn, Through(writes, last, goesOn)
    PROVE  /\ AroundOK' /\ job' = job
           /\ goesOn \/ (ProcessOK' /\ action' = "stopped")
<1>1. UNCHANGED <<job, flaky, abandoned, dead, outages>> /\ deaths' \in Nat
  BY DEF Through, AroundOK
<1>2. goesOn \/ Stops
  BY DEF Through
<1> QED BY <1>1, <1>2 DEF AroundOK, Stops, ProcessOK

\* Nothing on the disk changes.
LEMMA DiskStays == ASSUME DiskTyped, UNCHANGED <<disk, job>> PROVE DiskOK'
BY DEF DiskTyped, DiskOK, BatchOK, RegistryOK, RecoveryOK, StateOK, PoolOK, OutcomeOK, disk

\* An entry is left, and the pass noted at most.
LEMMA EntryHandled ==
    ASSUME ProcessOK, action = "checking_batch", NEW k, Handled(k),
           \/ pass' = pass
           \/ \E flag \in {"wrote", "collectedBefore", "unread"} :
                 pass' = [pass EXCEPT ![flag] = TRUE]
    PROVE  ProcessOK'
<1>1. pass' \in Passes
  BY DEF ProcessOK, Passes
<1> QED BY <1>1 DEF ProcessOK, Handled

LEMMA BeginRunTyped == ASSUME TypeInv, BeginRun PROVE TypeInv'
<1>1. /\ action' = "submitting" /\ UNCHANGED <<batches, registry, recovery, mapped, pass, around>>
      /\ outcome' = [f \in Files |-> [r \in job.inputs[f] |->
            IF HasAnswer(f, r) THEN outcome[f][r] ELSE Without("none")]]
      /\ action \in {"pending", "stopped"}
  BY DEF BeginRun
<1>2. OutcomeOK(outcome', Len(batches))
  <2>1. Without("none") \in [is : Dispositions, from : 0..Len(batches)] /\ Without("none").is # "answered"
    BY DEF Without, Dispositions, TypeInv, DiskOK, Lost
  <2> QED BY <1>1, <2>1 DEF OutcomeOK, TypeInv, DiskOK
<1>3. DiskOK'
  BY <1>1, <1>2, DiskNext DEF TypeInv, DiskOK, BatchOK, around
<1>4. AroundOK' /\ ProcessOK'
  BY <1>1 DEF TypeInv, AroundOK, ProcessOK, around
<1> QED BY <1>3, <1>4 DEF TypeInv

LEMMA SendFileTyped ==
    ASSUME TypeInv, NEW f \in Files, SendFile(f), action = "submitting"
    PROVE  TypeInv'
<1> USE DEF TypeInv
<1>1. PICK writes \in 0..4 :
          /\ IF writes >= 1 THEN Takes(f, "original", Unfinished(f)) ELSE UNCHANGED batches
          /\ mapped' = IF writes >= 2 THEN [mapped EXCEPT ![f] = Unfinished(f)] ELSE mapped
          /\ registry' = IF writes >= 3 THEN Naming(Original(f)) ELSE registry
          /\ outcome' = IF writes = 4
                THEN [outcome EXCEPT ![f] = [r \in job.inputs[f] |->
                        IF r \in Unfinished(f) THEN Without("deferred") ELSE @[r]]]
                ELSE outcome
          /\ Through(writes, 4, todo' = todo \ {f} /\ UNCHANGED <<action, pass>>)
          /\ UNCHANGED recovery
  BY DEF SendFile
<1>2. Unfinished(f) \subseteq job.inputs[f] /\ job.inputs[f] \subseteq Records
  BY InputsOK DEF Unfinished, AroundOK
<1>3. AroundOK' /\ job' = job /\ ProcessOK'
  BY <1>1, ThroughOK DEF ProcessOK
<1>4. /\ batches' \in Seq(Taken) /\ \A n \in 1..Len(batches') : BatchOK(batches[n])'
      /\ Len(batches) \in Nat /\ Len(batches') \in Nat /\ Len(batches) <= Len(batches')
      /\ \A n \in 1..Len(batches) : batches'[n] = batches[n]
      /\ writes >= 1 => /\ Len(batches') = Len(batches) + 1
                        /\ batches'[Len(batches')].file = f
                        /\ batches'[Len(batches')].kind = "original"
  <2>1. CASE writes >= 1
    <3>1. Takes(f, "original", Unfinished(f)) /\ "original" \in Kinds
      BY <1>1, <2>1 DEF Kinds
    <3> QED BY <1>2, <1>3, <3>1, BatchTaken DEF DiskTyped
  <2>2. CASE ~(writes >= 1)
    BY <1>1, <1>3, <2>2 DEF DiskOK, BatchOK
  <2> QED BY <2>1, <2>2
<1>5. RegistryOK(registry', batches')
  <2>1. Original(f) \in Keys /\ Original(f).file = f /\ Original(f).kind = "original"
    BY DEF Original, Key, Keys, Kinds
  <2>2. RegistryOK(registry, batches')
    BY <1>4, DiskGrows DEF DiskTyped
  <2>3. CASE writes >= 3
    <3>1. RegistryOK(Naming(Original(f)), batches')
      BY <1>4, <2>1, <2>3, NamingOK
    <3> QED BY <1>1, <2>3, <3>1
  <2> QED BY <1>1, <2>2, <2>3
<1>6. OutcomeOK(outcome', Len(batches'))
  <2>1. Without("deferred") \in [is : Dispositions, from : 0..Len(batches')]
        /\ Without("deferred").is # "answered"
    BY <1>4 DEF Without, Dispositions, Lost
  <2>2. OutcomeOK(outcome, Len(batches'))
    BY <1>4, DiskGrows DEF DiskTyped
  <2> DEFINE row == [r \in job.inputs[f] |->
                        IF r \in Unfinished(f) THEN Without("deferred") ELSE outcome[f][r]]
  <2>3. outcome' = outcome \/ outcome' = [outcome EXCEPT ![f] = row]
    BY <1>1
  <2>4. row = [r \in job.inputs[f] |-> row[r]]
        /\ \A r \in job.inputs[f] : DispositionOK(row[r], Len(batches'))
    BY <2>1, <2>2 DEF OutcomeOK, DispositionOK
  <2> HIDE DEF row
  <2> QED BY <2>2, <2>3, <2>4, RowOK
<1>7. mapped' \in [Files -> SUBSET Records] /\ \A g \in Files : mapped'[g] \subseteq job.inputs[g]
  BY <1>1, <1>2 DEF DiskOK
<1>8. RecoveryOK(recovery', Len(batches'))
  BY <1>1, <1>4, DiskGrows DEF DiskTyped
<1> QED BY <1>3, <1>4, <1>5, <1>6, <1>7, <1>8, DiskNext

LEMMA SubmissionTyped ==
    ASSUME TypeInv, Submitted \/ \E f \in Files : submit_batch_job(f)
    PROVE  TypeInv'
<1>1. ASSUME Submitted PROVE TypeInv'
  <2>1. DiskOK'
    BY <1>1, DiskStays DEF Submitted, TypeInv, DiskTyped, around
  <2> QED BY <1>1, <2>1 DEF Submitted, TypeInv, ProcessOK, AroundOK, around
<1>2. ASSUME NEW f \in Files, SkipFile(f), action = "submitting" PROVE TypeInv'
  <2>1. DiskOK'
    BY <1>2, DiskStays DEF SkipFile, TypeInv, DiskTyped, around
  <2> QED BY <1>2, <2>1 DEF SkipFile, TypeInv, ProcessOK, AroundOK, around
<1>3. ASSUME NEW f \in Files, RefuseFile(f) PROVE TypeInv'
  <2>1. DiskOK'
    BY <1>3, DiskStays DEF RefuseFile, TypeInv, DiskTyped, around
  <2> QED BY <1>3, <2>1 DEF RefuseFile, Stops, TypeInv, ProcessOK, AroundOK, around
<1> QED BY <1>1, <1>2, <1>3, SendFileTyped DEF submit_batch_job

\* A batch ends, with the answers it has.
LEMMA ProviderTyped ==
    ASSUME TypeInv, NEW n \in DOMAIN batches, Completes(n) \/ Fails(n)
    PROVE  TypeInv'
<1> USE DEF TypeInv
<1>1. \E status, good, poor : /\ status \in Conditions /\ good \subseteq batches[n].holds
                               /\ poor \subseteq batches[n].holds /\ good \cap poor = {}
                               /\ Becomes(n, status, good, poor)
  <2>1. CASE Completes(n)
    <3>1. PICK good \in SUBSET batches[n].holds :
             \E poor \in SUBSET (batches[n].holds \ good) : Becomes(n, "completed", good, poor)
      BY <2>1 DEF Completes
    <3>2. PICK poor \in SUBSET (batches[n].holds \ good) : Becomes(n, "completed", good, poor)
      BY <3>1
    <3> QED BY <3>2 DEF Conditions
  <2>2. CASE Fails(n)
    <3>1. PICK status \in Dead : Becomes(n, status, {}, {})
      BY <2>2 DEF Fails
    <3> QED BY <3>1 DEF Conditions
  <2> QED BY <2>1, <2>2
<1>9. PICK status, good, poor : /\ status \in Conditions /\ good \subseteq batches[n].holds
                                /\ poor \subseteq batches[n].holds /\ good \cap poor = {}
                                /\ Becomes(n, status, good, poor)
  BY <1>1
<1>2. UNCHANGED <<registry, recovery, mapped, outcome, action, todo, pass, job, flaky, abandoned>>
      /\ deaths' \in Nat /\ dead' \in Nat /\ outages' \in Nat
  BY DEF Completes, Fails, around, AroundOK
<1>3. batches \in Seq(Taken) /\ n \in 1..Len(batches) /\ BatchOK(batches[n])
  BY DEF DiskOK
<1> DEFINE b == [batches[n] EXCEPT !.status = status, !.good = good, !.poor = poor]
<1>4. batches' = [batches EXCEPT ![n] = b]
  BY <1>9 DEF Becomes
<1>5. b \in Taken /\ b.file = batches[n].file /\ b.holds = batches[n].holds
      /\ b.good = good /\ b.poor = poor
  BY <1>3, <1>9, InputsOK DEF BatchOK, Taken
<1> HIDE DEF b
<1>6. batches' \in Seq(Taken) /\ Len(batches') = Len(batches) /\ Len(batches) \in Nat
      /\ \A m \in 1..Len(batches) : batches'[m] = IF m = n THEN b ELSE batches[m]
  BY <1>3, <1>4, <1>5
<1>7. ASSUME NEW m \in 1..Len(batches') PROVE BatchOK(batches[m])'
  <2>1. CASE m = n
    BY <1>2, <1>3, <1>5, <1>6, <1>9, <2>1 DEF BatchOK, Answered
  <2>2. CASE m # n
    BY <1>2, <1>6, <2>2 DEF BatchOK, DiskOK
  <2> QED BY <2>1, <2>2
<1>8. DiskOK'
  <2>1. b.kind = batches[n].kind
    BY <1>3 DEF b, BatchOK, Taken
  <2>2. RegistryOK(registry, batches') /\ RecoveryOK(recovery, Len(batches'))
        /\ OutcomeOK(outcome, Len(batches'))
    BY <1>5, <1>6, <2>1, DiskGrows DEF DiskTyped
  <2> QED BY <1>2, <1>6, <1>7, <2>2, DiskNext DEF DiskOK
<1> QED BY <1>2, <1>8 DEF ProcessOK, AroundOK

\* An outage begins or ends.
LEMMA OutageTyped == ASSUME TypeInv, OutageBegins \/ OutageEnds PROVE TypeInv'
<1>1. DiskOK'
  BY DiskStays DEF OutageBegins, OutageEnds, TypeInv, DiskTyped
<1>2. flaky' \in BOOLEAN /\ UNCHANGED <<action, todo, pass, job, abandoned, deaths, dead>>
  BY DEF OutageBegins, OutageEnds
<1>3. outages' \in Nat
  BY DEF OutageBegins, OutageEnds, TypeInv, AroundOK
<1> QED BY <1>1, <1>2, <1>3 DEF TypeInv, ProcessOK, AroundOK

\* Every entry is asked about, and a pass begun once all have ended.
LEMMA PollTyped == ASSUME TypeInv, Poll PROVE TypeInv'
<1> USE DEF TypeInv
<1>1. action = "batch_submitted" /\ UNCHANGED <<batches, recovery, mapped, outcome, around>>
  BY DEF Poll
<1>2. RegistryOK(polled, batches)
  <2>1. ASSUME NEW k \in DOMAIN registry PROVE polled[k] \in Entries /\ polled[k].batch = registry[k].batch
    <3>1. registry[k] \in Entries /\ Named(k).status \in Conditions
      BY DEF DiskOK, RegistryOK, BatchOK, Named, Taken
    <3> QED BY <3>1 DEF polled, Entries
  <2> QED BY <2>1 DEF polled, RegistryOK, DiskOK
<1>3. /\ registry' = registry \/ registry' = polled
      /\ (\E reg \in {registry, polled} : BeginPass(reg)) \/ Stops \/ UNCHANGED <<action, todo, pass>>
  <2>1. overall_status(registry) \in {"completed", "in_progress", "partial_failed", "cancelled",
                                      "no_batches"}
    BY DEF overall_status
  <2> QED BY <2>1 DEF Poll
<1>4. DiskOK'
  BY <1>1, <1>2, <1>3, DiskNext DEF DiskOK, BatchOK, around
<1>5. ASSUME NEW reg, RegistryOK(reg, batches), BeginPass(reg) PROVE ProcessOK'
  <2>1. superseded_entries(reg) \subseteq Keys
    <3>1. \A f \in Files : Original(f) \in Keys
      BY DEF Original, Key, Keys, Kinds
    <3>2. DOMAIN reg \subseteq Keys
      BY <1>5 DEF RegistryOK
    <3> QED BY <3>1, <3>2 DEF superseded_entries
  <2>2. pass' \in Passes
    BY <1>5, <2>1 DEF BeginPass, NewPass, Passes
  <2> QED BY <1>5, <2>2 DEF BeginPass, ProcessOK, RegistryOK
<1>6. ProcessOK'
  BY <1>2, <1>3, <1>5 DEF Stops, ProcessOK, DiskOK
<1> QED BY <1>1, <1>4, <1>6 DEF AroundOK, around

-----------------------------------------------------------------------------
(* What reading an entry leaves in range *)

Reading(k) == TypeInv /\ action = "checking_batch" /\ k \in Keys

\* A round goes out.
LEMMA RegistersTyped ==
    ASSUME NEW k, Reading(k), NEW kind \in Kinds \ {"original"}, NEW STATE attempt, attempt \in Nat,
           NEW STATE holds, holds \subseteq job.inputs[k.file],
           NEW STATE state, StateOK(state, k.file, Len(batches)),
           Registers(k, kind, attempt, holds, state)
    PROVE  TypeInv'
<1> USE DEF TypeInv, Reading
<1> DEFINE f     == k.file
           key   == Key(f, kind, attempt)
           named == Naming(key)
           Replaced(j) == j.file = f /\ j.kind # "original" /\ j # key
<1>1. PICK writes \in 1..4 :
          /\ Takes(f, kind, holds)
          /\ registry' = CASE writes = 1 -> registry
                           [] writes = 2 -> named
                           [] writes >= 3 -> Restricted(named, {j \in DOMAIN named : ~Replaced(j)})
          /\ recovery' = IF writes = 4 THEN [recovery EXCEPT ![f] = state] ELSE recovery
          /\ Through(writes, 4, Handled(k) /\ UNCHANGED pass)
          /\ UNCHANGED <<mapped, outcome>>
  BY DEF Registers
<1>2. f \in Files /\ key \in Keys /\ key.file = f /\ key.kind = kind
  BY DEF Key, Keys
<1>3. AroundOK' /\ job' = job /\ ProcessOK'
  BY <1>1, ThroughOK, EntryHandled
<1>4. /\ batches' \in Seq(Taken) /\ \A n \in 1..Len(batches') : BatchOK(batches[n])'
      /\ Len(batches) \in Nat /\ Len(batches') = Len(batches) + 1
      /\ \A n \in 1..Len(batches) : batches'[n] = batches[n]
      /\ batches'[Len(batches')].file = f /\ batches'[Len(batches')].kind = kind
  BY <1>1, <1>2, <1>3, BatchTaken DEF DiskTyped
<1>5. RegistryOK(registry', batches')
  <2>1. RegistryOK(registry, batches') /\ RegistryOK(named, batches')
    BY <1>2, <1>4, NamingOK, DiskGrows DEF DiskTyped
  <2>2. registry' = registry \/ registry' = named
        \/ registry' = Restricted(named, {j \in DOMAIN named : ~Replaced(j)})
    BY <1>1
  <2> HIDE DEF named, Replaced
  <2> QED BY <2>1, <2>2, RemovedOK
<1>6. RecoveryOK(recovery', Len(batches'))
  <2>1. RecoveryOK(recovery, Len(batches')) /\ StateOK(state, f, Len(batches'))
    BY <1>2, <1>4, DiskGrows, MoreBatches DEF DiskTyped
  <2>2. recovery' = recovery \/ recovery' = [recovery EXCEPT ![f] = state]
    BY <1>1
  <2> QED BY <2>1, <2>2 DEF RecoveryOK
<1>7. OutcomeOK(outcome', Len(batches'))
  BY <1>1, <1>4, DiskGrows DEF DiskTyped
<1>8. mapped' = mapped
  BY <1>1
<1> QED BY <1>3, <1>4, <1>5, <1>6, <1>7, <1>8, DiskNext DEF DiskOK

\* A file gets its output.
LEMMA FinalizesTyped ==
    ASSUME NEW k, Reading(k), NEW STATE results, PoolOK(results, k.file, Len(batches)),
           NEW STATE exhausted, Finalizes(k, results, exhausted)
    PROVE  TypeInv'
<1> USE DEF TypeInv, Reading
<1> DEFINE f == k.file
           Result(r) == IF r \in DOMAIN results /\ results[r] # Lost THEN Stored(results[r])
                        ELSE Without(IF r \in exhausted THEN "exhausted" ELSE "failed")
           marked == [registry EXCEPT ![Original(f)].collected = TRUE]
           row == [r \in job.inputs[f] |-> IF r \in mapped[f] THEN Result(r) ELSE outcome[f][r]]
<1>1. PICK writes \in 1..4 :
          /\ recovery' = [recovery EXCEPT ![f] = None]
          /\ outcome' = IF writes = 1 THEN outcome ELSE [outcome EXCEPT ![f] = row]
          /\ registry' = CASE writes <= 2 -> registry
                           [] writes = 3 -> marked
                           [] writes = 4 -> Restricted(marked,
                                 {j \in DOMAIN marked : j.file # f \/ j.kind = "original"})
          /\ Through(writes, 4, Handled(k) /\ pass' = [pass EXCEPT !.wrote = TRUE])
          /\ UNCHANGED <<batches, mapped>>
  BY DEF Finalizes
<1>2. f \in Files /\ Len(batches) \in Nat
  BY DEF Keys, DiskOK
<1>3. AroundOK' /\ job' = job /\ ProcessOK'
  BY <1>1, ThroughOK, EntryHandled
<1>4. RegistryOK(registry', batches)
  <2>1. RegistryOK(marked, batches)
    BY CollectedOK DEF DiskOK
  <2>2. registry' = registry \/ registry' = marked
        \/ registry' = Restricted(marked, {j \in DOMAIN marked : j.file # f \/ j.kind = "original"})
    BY <1>1
  <2> HIDE DEF marked
  <2> QED BY <2>1, <2>2, RemovedOK DEF DiskOK
<1>5. RecoveryOK(recovery', Len(batches))
  BY <1>1 DEF RecoveryOK, DiskOK
<1>6. OutcomeOK(outcome', Len(batches))
  <2>1. \A r \in job.inputs[f] : DispositionOK(row[r], Len(batches))
    <3> SUFFICES ASSUME NEW r \in job.inputs[f] PROVE DispositionOK(row[r], Len(batches))
      OBVIOUS
    <3>1. row[r] = outcome[f][r] \/ (r \in DOMAIN results /\ results[r] # Lost /\ row[r] = Stored(results[r]))
          \/ row[r] = Without("exhausted") \/ row[r] = Without("failed")
      OBVIOUS
    <3>2. DispositionOK(outcome[f][r], Len(batches))
      BY <1>2 DEF DiskOK, OutcomeOK, DispositionOK
    <3>3. DispositionOK(Without("exhausted"), Len(batches)) /\ DispositionOK(Without("failed"), Len(batches))
      BY <1>2 DEF DispositionOK, Without, Dispositions, Verdicts, Lost
    <3>4. r \in DOMAIN results /\ results[r] # Lost => DispositionOK(Stored(results[r]), Len(batches))
      BY DEF DispositionOK, Stored, Dispositions, Verdicts, PoolOK
    <3> HIDE DEF row
    <3> QED BY <3>1, <3>2, <3>3, <3>4
  <2>2. row = [r \in job.inputs[f] |-> row[r]]
    OBVIOUS
  <2> HIDE DEF row
  <2> QED BY <1>1, <1>2, <2>1, <2>2, RowOK DEF DiskOK
<1>7. /\ batches' = batches /\ mapped' = mapped /\ \A n \in 1..Len(batches) : BatchOK(batches[n])'
  BY <1>1, <1>3 DEF DiskOK, BatchOK
<1> QED BY <1>3, <1>4, <1>5, <1>6, <1>7, DiskNext DEF DiskOK

\* An entry is left for a later pass.
LEMMA LeavesTyped ==
    ASSUME NEW k, Reading(k), \/ Defers(k)
                              \/ \E flag \in {"wrote", "collectedBefore", "unread"} : Notes(k, flag)
    PROVE  TypeInv'
<1>1. Leaves(k) /\ (pass' = pass \/ \E flag \in {"wrote", "collectedBefore", "unread"} :
                                       pass' = [pass EXCEPT ![flag] = TRUE])
  BY DEF Defers, Notes
<1>2. Handled(k) /\ UNCHANGED <<disk, around>>
  BY <1>1 DEF Leaves
<1>3. DiskOK' /\ AroundOK'
  BY <1>2, DiskStays DEF Reading, TypeInv, DiskTyped, AroundOK, around
<1>4. ProcessOK'
  BY <1>1, <1>2, EntryHandled DEF Reading, TypeInv
<1> QED BY <1>3, <1>4 DEF TypeInv

\* What fails its expectations is repaired, or the file gets its output.
LEMMA RepairsTyped ==
    ASSUME NEW k, Reading(k), NEW STATE answers, PoolOK(answers, k.file, Len(batches)),
           NEW STATE known, known # None => StateOK(known, k.file, Len(batches)),
           NEW STATE exhausted, Repairs(k, answers, known, exhausted)
    PROVE  TypeInv'
<1> USE DEF TypeInv, Reading
<1> DEFINE f == k.file
           fresh == Round(0, {}, NoAnswers, 0, {}, NoAnswers)
           state == IF known # None THEN known ELSE IF recovery[f] # None THEN recovery[f] ELSE fresh
           pooled == Over(state.pool, answers)
           poor == {r \in DOMAIN pooled : IsPoor(r, pooled[r])}
           next == [state EXCEPT !.round = @ + 1, !.held = poor,
                                 !.pool = Restricted(Over(pooled, @), Records \ poor)]
<1>1. \/ Defers(k) \/ Finalizes(k, pooled, exhausted)
      \/ Registers(k, "repair", state.round + 1, poor, next)
  BY DEF Repairs
<1>2. f \in Files /\ Len(batches) \in Nat
  BY DEF Keys, DiskOK
<1>3. StateOK(state, f, Len(batches))
  <2>1. PoolOK(NoAnswers, f, Len(batches))
    BY DEF PoolOK, NoAnswers
  <2>2. StateOK(fresh, f, Len(batches))
    <3> HIDE DEF NoAnswers
    <3> QED BY <2>1 DEF StateOK, Round
  <2>3. recovery[f] # None => StateOK(recovery[f], f, Len(batches))
    BY <1>2 DEF DiskOK, RecoveryOK
  <2> HIDE DEF fresh
  <2> QED BY <2>2, <2>3
<1> HIDE DEF state
<1>4. PoolOK(pooled, f, Len(batches))
  BY <1>3, OverOK DEF StateOK
<1>5. poor \subseteq job.inputs[f]
  BY <1>4 DEF PoolOK
<1>6. StateOK(next, f, Len(batches))
  <2> DEFINE pool == Restricted(Over(pooled, state.pool), Records \ poor)
  <2>1. PoolOK(pool, f, Len(batches))
    BY <1>3, <1>4, OverOK, RestrictedOK DEF StateOK
  <2>2. next = [state EXCEPT !.round = @ + 1, !.held = poor, !.pool = pool]
    OBVIOUS
  <2> HIDE DEF pool, next, poor
  <2>3. next = Round(state.sent, state.missing, state.accumulated, state.round + 1, poor, pool)
    BY <1>3, <2>2 DEF StateOK, Round
  <2> QED BY <1>3, <1>5, <2>1, <2>3 DEF StateOK, Round
<1>7. state.round + 1 \in Nat /\ "repair" \in Kinds \ {"original"}
  BY <1>3 DEF StateOK, Kinds
<1> HIDE DEF pooled, poor, next
<1>8. CASE Defers(k)
  BY <1>8, LeavesTyped
<1>9. CASE Finalizes(k, pooled, exhausted)
  BY <1>4, <1>9, FinalizesTyped
<1>10. CASE Registers(k, "repair", state.round + 1, poor, next)
  BY <1>5, <1>6, <1>7, <1>10, RegistersTyped
<1> QED BY <1>1, <1>8, <1>9, <1>10

\* What an entry names, and what came back.
LEMMA NamedOK ==
    ASSUME TypeInv, NEW k \in DOMAIN registry
    PROVE  /\ registry[k].batch \in 1..Len(batches) /\ k \in Keys /\ registry[k] \in Entries
           /\ Named(k).file = k.file /\ Named(k).kind = k.kind
           /\ PoolOK(Answers(registry[k].batch), k.file, Len(batches))
           /\ DOMAIN Answers(registry[k].batch) \subseteq Named(k).holds
<1>1. /\ registry[k].batch \in 1..Len(batches) /\ k \in Keys /\ registry[k] \in Entries
      /\ Named(k).file = k.file /\ Named(k).kind = k.kind /\ BatchOK(Named(k))
  BY DEF TypeInv, DiskOK, RegistryOK, Named
<1>2. /\ PoolOK(Answers(registry[k].batch), Named(k).file, Len(batches))
      /\ DOMAIN Answers(registry[k].batch) = Answered(Named(k))
  BY <1>1, AnswersOK DEF TypeInv, Named
<1> QED BY <1>1, <1>2 DEF BatchOK

\* A state with new contents.
LEMMA RoundOK ==
    ASSUME NEW f, NEW n, NEW sent \in Nat, NEW missing, missing \subseteq job.inputs[f],
           NEW accumulated, PoolOK(accumulated, f, n), NEW round \in Nat,
           NEW held, held \subseteq job.inputs[f], NEW pool, PoolOK(pool, f, n)
    PROVE  StateOK(Round(sent, missing, accumulated, round, held, pool), f, n)
BY DEF StateOK, Round

\* The original batch is read.
LEMMA OriginalTyped ==
    ASSUME NEW k, Reading(k), k \in DOMAIN registry, process_original_batch(k)
    PROVE  TypeInv'
<1> USE DEF Reading
<1> DEFINE f == k.file
           got == Answers(registry[k].batch)
           missing == mapped[f] \ DOMAIN got
           first == Round(1, missing, got, 0, {}, NoAnswers)
           given == Round(0, missing, NoAnswers, 0, {}, NoAnswers)
<1>1. f \in Files /\ PoolOK(got, f, Len(batches)) /\ missing \subseteq job.inputs[f]
      /\ PoolOK(NoAnswers, f, Len(batches))
  BY NamedOK DEF Keys, TypeInv, DiskOK, PoolOK, NoAnswers
<1>2. StateOK(first, f, Len(batches)) /\ StateOK(given, f, Len(batches))
  <2> HIDE DEF NoAnswers, got, missing
  <2> QED BY <1>1, RoundOK
<1>3. \/ Registers(k, "retry", 1, missing, first)
      \/ Repairs(k, got, None, {})
      \/ Repairs(k, got, IF missing = {} THEN None ELSE given, missing)
  BY DEF process_original_batch
<1> HIDE DEF got, missing, first, given
<1>4. "retry" \in Kinds \ {"original"}
  BY DEF Kinds
<1>5. CASE Registers(k, "retry", 1, missing, first)
  BY <1>1, <1>2, <1>4, <1>5, RegistersTyped
<1>6. CASE Repairs(k, got, None, {})
  BY <1>1, <1>6, RepairsTyped
<1>7. CASE Repairs(k, got, IF missing = {} THEN None ELSE given, missing)
  <2> DEFINE known == IF missing = {} THEN None ELSE given
  <2>1. known # None => StateOK(known, f, Len(batches))
    BY <1>2
  <2>2. Repairs(k, got, known, missing)
    BY <1>7
  <2> HIDE DEF known
  <2> QED BY <1>1, <2>1, <2>2, RepairsTyped
<1> QED BY <1>3, <1>5, <1>6, <1>7

\* A retry is read.
LEMMA RetryTyped ==
    ASSUME NEW k, Reading(k), k \in DOMAIN registry, recovery[k.file] # None,
           handle_retry_recovery(k)
    PROVE  TypeInv'
<1> USE DEF Reading
<1> DEFINE f == k.file
           state == recovery[f]
           got == IF registry[k].status \in Dead THEN NoAnswers ELSE Answers(registry[k].batch)
           merged == process_retry_results(got, state.accumulated)
           still == state.missing \ DOMAIN got
           again == [state EXCEPT !.sent = @ + 1, !.missing = still, !.accumulated = merged]
           given == [state EXCEPT !.missing = {}]
<1>1. f \in Files /\ PoolOK(got, f, Len(batches)) /\ StateOK(state, f, Len(batches))
  BY NamedOK DEF Keys, TypeInv, DiskOK, RecoveryOK, PoolOK, NoAnswers
<1>2. \/ Registers(k, "retry", state.sent + 1, still, again)
      \/ Repairs(k, merged, given, {})
      \/ Repairs(k, merged, state, still)
  BY DEF handle_retry_recovery
<1> HIDE DEF got
<1>3. PoolOK(merged, f, Len(batches)) /\ still \subseteq job.inputs[f]
  BY <1>1, OverOK DEF StateOK, process_retry_results
<1> HIDE DEF state, merged, still
<1>4. StateOK(again, f, Len(batches)) /\ StateOK(given, f, Len(batches))
  <2> DEFINE next == state.sent + 1
  <2>0. /\ again = [state EXCEPT !.sent = next, !.missing = still, !.accumulated = merged]
        /\ given = [state EXCEPT !.missing = {}]
    OBVIOUS
  <2> HIDE DEF again, given, next
  <2>1. again = Round(next, still, merged, state.round, state.held, state.pool)
    BY <1>1, <2>0 DEF StateOK, Round
  <2>5. given = Round(state.sent, {}, state.accumulated, state.round, state.held, state.pool)
    BY <1>1, <2>0 DEF StateOK, Round
  <2>2. {} \subseteq job.inputs[f] /\ next \in Nat
    BY <1>1 DEF StateOK, next
  <2>3. StateOK(again, f, Len(batches))
    BY <1>1, <1>3, <2>1, <2>2 DEF StateOK, Round
  <2>4. StateOK(given, f, Len(batches))
    BY <1>1, <2>2, <2>5 DEF StateOK, Round
  <2> QED BY <2>3, <2>4
<1>5. state.sent + 1 \in Nat /\ "retry" \in Kinds \ {"original"}
  BY <1>1 DEF StateOK, Kinds
<1> HIDE DEF again, given
<1>6. CASE Registers(k, "retry", state.sent + 1, still, again)
  BY <1>3, <1>4, <1>5, <1>6, RegistersTyped
<1>7. CASE Repairs(k, merged, given, {})
  BY <1>3, <1>4, <1>7, RepairsTyped
<1>8. CASE Repairs(k, merged, state, still)
  BY <1>1, <1>3, <1>8, RepairsTyped
<1> QED BY <1>2, <1>6, <1>7, <1>8

\* A repair is read.
LEMMA RepairTyped ==
    ASSUME NEW k, Reading(k), k \in DOMAIN registry, recovery[k.file] # None,
           handle_repair_recovery(k)
    PROVE  TypeInv'
<1> USE DEF Reading
<1> DEFINE f == k.file
           state == recovery[f]
           got == Answers(registry[k].batch)
           poor == {r \in DOMAIN got : IsPoor(r, got[r])}
           dropped == [r \in state.held \ DOMAIN got |-> Lost]
           passing == Restricted(got, DOMAIN got \ poor)
           pool == Over(dropped, Over(passing, state.pool))
           again == [state EXCEPT !.round = @ + 1, !.held = poor,
                                  !.pool = Restricted(pool, Records \ poor)]
<1>1. f \in Files /\ PoolOK(got, f, Len(batches)) /\ StateOK(state, f, Len(batches))
      /\ Len(batches) \in Nat
  <2>1. f \in Files /\ PoolOK(got, f, Len(batches))
    BY NamedOK DEF Keys
  <2>2. RecoveryOK(recovery, Len(batches)) /\ batches \in Seq(Taken)
    BY DEF TypeInv, DiskOK
  <2> QED BY <2>1, <2>2 DEF RecoveryOK
<1>2. \/ Registers(k, "repair", state.round + 1, poor, again)
      \/ Finalizes(k, Over(got, pool), state.missing)
  BY DEF handle_repair_recovery
<1> HIDE DEF got, state
<1>3. PoolOK(dropped, f, Len(batches)) /\ PoolOK(passing, f, Len(batches))
      /\ poor \subseteq job.inputs[f]
  <2>1. PoolOK(dropped, f, Len(batches))
    BY <1>1 DEF StateOK, PoolOK, Lost
  <2>2. PoolOK(passing, f, Len(batches))
    BY <1>1, RestrictedOK
  <2> QED BY <1>1, <2>1, <2>2 DEF PoolOK
<1> HIDE DEF dropped, passing, poor
<1>4. PoolOK(pool, f, Len(batches)) /\ PoolOK(Over(got, pool), f, Len(batches))
  BY <1>1, <1>3, OverOK DEF StateOK
<1> HIDE DEF pool
<1>5. PoolOK(Restricted(pool, Records \ poor), f, Len(batches))
  BY <1>4, RestrictedOK
<1>6. StateOK(again, f, Len(batches)) /\ state.round + 1 \in Nat
  <2> DEFINE kept == Restricted(pool, Records \ poor)
  <2>1. again = [state EXCEPT !.round = @ + 1, !.held = poor, !.pool = kept]
    OBVIOUS
  <2>2. PoolOK(kept, f, Len(batches))
    BY <1>5
  <2> HIDE DEF kept, again
  <2>3. again = Round(state.sent, state.missing, state.accumulated, state.round + 1, poor, kept)
    BY <1>1, <2>1 DEF StateOK, Round
  <2> QED BY <1>1, <1>3, <2>2, <2>3 DEF StateOK, Round
<1> HIDE DEF again
<1>7. CASE Registers(k, "repair", state.round + 1, poor, again)
  BY <1>3, <1>6, <1>7, RegistersTyped DEF Kinds
<1>8. CASE Finalizes(k, Over(got, pool), state.missing)
  BY <1>4, <1>8, FinalizesTyped
<1> QED BY <1>2, <1>7, <1>8

\* The records of a file are failed.
LEMMA FailedOK ==
    ASSUME TypeInv, NEW f \in Files
    PROVE  OutcomeOK(Failed(f), Len(batches))
<1> DEFINE row == [r \in job.inputs[f] |-> IF r \in mapped[f] THEN Without("failed")
                                           ELSE outcome[f][r]]
<1>1. ASSUME NEW r \in job.inputs[f] PROVE DispositionOK(row[r], Len(batches))
  <2>1. row[r] = Without("failed") \/ row[r] = outcome[f][r]
    OBVIOUS
  <2>2. DispositionOK(outcome[f][r], Len(batches))
    BY DEF TypeInv, DiskOK, OutcomeOK, DispositionOK
  <2>3. DispositionOK(Without("failed"), Len(batches))
    BY DEF TypeInv, DiskOK, DispositionOK, Without, Dispositions, Verdicts, Lost
  <2> HIDE DEF row
  <2> QED BY <2>1, <2>2, <2>3
<1>2. row = [r \in job.inputs[f] |-> row[r]] /\ Failed(f) = [outcome EXCEPT ![f] = row]
  BY DEF Failed
<1> HIDE DEF row
<1>3. OutcomeOK(outcome, Len(batches))
  BY DEF TypeInv, DiskOK
<1>4. OutcomeOK([outcome EXCEPT ![f] = row], Len(batches))
  BY <1>1, <1>2, <1>3, RowOK
<1> QED BY <1>2, <1>4

\* An entry is read, put off, dropped or given up.
LEMMA ReadEntryTyped == ASSUME TypeInv, NEW k \in todo, ReadEntry(k) PROVE TypeInv'
<1>1. action = "checking_batch" /\ k \in Keys /\ Reading(k)
  BY DEF ReadEntry, TypeInv, ProcessOK, Reading
<1>2. k.file \in Files
  BY <1>1 DEF Keys
<1>3. ASSUME Defers(k) \/ Notes(k, "unread") \/ Notes(k, "collectedBefore") PROVE TypeInv'
  BY <1>1, <1>3, LeavesTyped
<1>4. CASE FailUnreadable(k)
  <2>1. PICK writes \in 1..2 :
          /\ registry' = IF writes = 2 THEN [registry EXCEPT ![k].collected = TRUE] ELSE registry
          /\ Through(writes, 2, Handled(k) /\ UNCHANGED pass)
    BY <1>4 DEF FailUnreadable
  <2>2. outcome' = Failed(k.file) /\ UNCHANGED <<batches, recovery, mapped>>
    BY <1>4 DEF FailUnreadable
  <2>3. AroundOK' /\ job' = job /\ ProcessOK'
    BY <1>1, <2>1, ThroughOK, EntryHandled DEF TypeInv
  <2>4. RegistryOK(registry', batches)
    BY <2>1, CollectedOK DEF TypeInv, DiskOK
  <2>5. DiskOK'
    BY <1>2, <2>2, <2>3, <2>4, FailedOK, DiskNext DEF TypeInv, DiskOK, BatchOK
  <2> QED BY <2>3, <2>5 DEF TypeInv
<1>5. CASE Abandons(k)
  <2>1. /\ \/ outcome' = Failed(k.file) /\ abandoned' = abandoned
           \/ outcome' = outcome /\ abandoned' = abandoned \cup {k.file}
        /\ Handled(k) /\ UNCHANGED <<batches, registry, recovery, mapped, pass, job, flaky,
                                     deaths, dead, outages>>
    BY <1>5 DEF Abandons
  <2>2. OutcomeOK(outcome', Len(batches))
    BY <1>2, <2>1, FailedOK DEF TypeInv, DiskOK
  <2>3. DiskOK'
    BY <2>1, <2>2, DiskNext DEF TypeInv, DiskOK, BatchOK
  <2>4. ProcessOK'
    BY <1>1, <2>1, EntryHandled DEF TypeInv
  <2>5. AroundOK'
    BY <1>2, <2>1 DEF TypeInv, AroundOK
  <2> QED BY <2>3, <2>4, <2>5 DEF TypeInv
<1>6. CASE DropEntry(k)
  <2>1. /\ registry' = Restricted(registry, DOMAIN registry \ {k})
        /\ Handled(k) /\ UNCHANGED <<batches, recovery, mapped, outcome, pass, around>>
    BY <1>6 DEF DropEntry
  <2>2. RegistryOK(registry', batches)
    BY <2>1, RemovedOK DEF TypeInv, DiskOK
  <2>3. DiskOK'
    BY <2>1, <2>2, DiskNext DEF TypeInv, DiskOK, BatchOK, around
  <2>4. ProcessOK'
    BY <1>1, <2>1, EntryHandled DEF TypeInv
  <2> QED BY <2>1, <2>3, <2>4 DEF TypeInv, AroundOK, around
<1>7. ASSUME k \in DOMAIN registry, Process(k) PROVE TypeInv'
  <2>1. CASE k.kind = "original"
    BY <1>1, <1>7, <2>1, OriginalTyped DEF Process
  <2>2. CASE k.kind # "original"
    <3>1. DropEntry(k) \/ (recovery[k.file] # None /\ (handle_retry_recovery(k) \/ handle_repair_recovery(k)))
      BY <1>7, <2>2 DEF Process, process_recovery_batch
    <3> QED BY <1>1, <1>6, <1>7, <3>1, RetryTyped, RepairTyped
  <2> QED BY <2>1, <2>2
<1>8. \/ Defers(k) \/ Notes(k, "unread") \/ Notes(k, "collectedBefore")
      \/ FailUnreadable(k) \/ Abandons(k) \/ (k \in DOMAIN registry /\ Process(k))
  BY DEF ReadEntry, Unasked
<1> QED BY <1>3, <1>4, <1>5, <1>7, <1>8

LEMMA EndPassTyped == ASSUME TypeInv, EndPass PROVE TypeInv'
<1>1. /\ UNCHANGED <<disk, around>>
      /\ Stops \/ (action' \in {"completed", "batch_submitted"} /\ pass' = None)
  BY DEF EndPass
<1>2. DiskOK'
  BY <1>1, DiskStays DEF TypeInv, DiskTyped, around
<1> QED BY <1>1, <1>2 DEF TypeInv, ProcessOK, AroundOK, Stops, around

LEMMA NextTyped == ASSUME TypeInv, [Next]_vars PROVE TypeInv'
<1>1. CASE UNCHANGED vars
  <2>1. DiskOK'
    BY <1>1, DiskStays DEF TypeInv, DiskTyped, vars, around
  <2> QED BY <1>1, <2>1 DEF TypeInv, ProcessOK, AroundOK, vars, around
<1> QED BY <1>1, BeginRunTyped, SubmissionTyped, ProviderTyped, OutageTyped, PollTyped,
           ReadEntryTyped, EndPassTyped DEF Next, Run, Provider

\* The inductive invariant the types rest on: every entry of the registry names a batch of its
\* file and its kind, every answer gathered or stored names a batch the provider took, and what
\* is sent, missing, held or answered are records of the file it is about.
THEOREM RegistrySound == Spec => []TypeInv
<1>1. Init => TypeInv
  <2> SUFFICES ASSUME Init PROVE TypeInv
    OBVIOUS
  <2> USE DEF Init
  <2>1. /\ batches \in Seq(Taken) /\ Len(batches) = 0
    OBVIOUS
  <2>2. RegistryOK(registry, batches)
    BY DEF RegistryOK
  <2>3. OutcomeOK(outcome, Len(batches))
    BY <2>1 DEF OutcomeOK, Without, Dispositions, Lost
  <2>4. DiskOK
    BY <2>1, <2>2, <2>3 DEF DiskOK, RecoveryOK
  <2> QED BY <2>4 DEF TypeInv, ProcessOK, AroundOK
<1> QED BY <1>1, NextTyped, PTL DEF Spec

\* Every entry and every stored answer names a batch the provider took, and a batch answers
\* for records it holds, for any files, jobs and number of mishaps.
THEOREM BatchTypeCorrect == Spec => []TypeOK
<1>1. TypeInv => TypeOK
  <2> SUFFICES ASSUME TypeInv PROVE TypeOK
    OBVIOUS
  <2>1. DOMAIN batches = 1..Len(batches)
    BY DEF TypeInv, DiskOK
  <2>2. ASSUME NEW f \in Files, NEW r \in job.inputs[f], HasAnswer(f, r)
        PROVE  outcome[f][r].from \in DOMAIN batches
    <3>1. outcome[f][r] \in [is : Dispositions, from : 0..Len(batches)]
      BY DEF TypeInv, DiskOK, OutcomeOK
    <3>2. outcome[f][r].from # 0
      BY <2>2 DEF TypeInv, DiskOK, OutcomeOK, HasAnswer, Lost
    <3>3. Len(batches) \in Nat /\ outcome[f][r].from \in 0..Len(batches)
      BY <3>1 DEF TypeInv, DiskOK
    <3> QED BY <2>1, <3>2, <3>3
  <2>3. pass = None <=> action # "checking_batch"
    BY PassIsSome DEF TypeInv, ProcessOK
  <2> QED BY <2>1, <2>2, <2>3 DEF TypeOK, TypeInv, DiskOK, ProcessOK, RegistryOK, BatchOK
<1> QED BY <1>1, RegistrySound, PTL

-----------------------------------------------------------------------------
(***************************************************************************)
(* How many batches of a file the provider has at a time.  What the        *)
(* registry says of a batch may be old, but never wrong: what it calls     *)
(* ended has ended.  A batch is sent when no batch the registry names for  *)
(* its file is out, so that only the batches a death kept from being named *)
(* are out beside another.                                                 *)
(***************************************************************************)
Out(f) == {n \in 1..Len(batches) : batches[n].file = f /\ batches[n].status = "out"}

\* A batch of f is out and the registry names it.
NamedOut(f) == \E k \in DOMAIN registry : k.file = f /\ Named(k).status = "out"

\* The file's own batch has ended with answers and is still owed its reading.
Settling(f) ==
    /\ Original(f) \in DOMAIN registry /\ ~registry[Original(f)].collected
    /\ Named(Original(f)).status = "completed"

\* The registry may not know yet that a batch has ended, and knows nothing else wrong.
EntriesTell == \A k \in DOMAIN registry :
    /\ registry[k].status # "out" => registry[k].status = Named(k).status
    /\ registry[k].collected => registry[k].status # "out"

\* There are rounds of a file only while its own batch waits to be read.
RoundsWait ==
    /\ \A f \in Files : recovery[f] # None => Settling(f)
    /\ \A k \in DOMAIN registry :
          k.kind # "original" /\ Named(k).status = "out" => Settling(k.file)

\* In a pass the one entry of a file not known to have ended is the round sent in that pass:
\* its state is saved, and no other entry of the file is still to be read.
PassAlone == action = "checking_batch" => \A j \in DOMAIN registry :
    registry[j].status = "out" =>
        /\ j.kind # "original" /\ recovery[j.file] # None
        /\ \A k \in todo \cap DOMAIN registry : k.file = j.file => k = j

\* A pass reads a file's own batch only if each round of it is a repair that was given up.
PassReads == action = "checking_batch" => \A f \in Files : Original(f) \in todo =>
    \A j \in DOMAIN registry :
        j.file = f /\ j.kind # "original" => j.kind = "repair" /\ Named(j).status \in Dead

OutBounded == \A f \in Files :
    Cardinality(Out(f)) <= deaths + (IF NamedOut(f) THEN 1 ELSE 0)

NamedInv == EntriesTell /\ RoundsWait /\ PassAlone /\ PassReads

RoundsInv == TypeInv /\ NamedInv /\ OutBounded

-----------------------------------------------------------------------------
(* What the registry names *)

\* What is known of an entry and of the batch it names.
LEMMA EntryOK ==
    ASSUME TypeInv, NEW k \in DOMAIN registry
    PROVE  /\ k \in Keys /\ k.file \in Files /\ k.kind \in Kinds
           /\ k.kind = "original" => k = Original(k.file)
           /\ registry[k].batch \in 1..Len(batches)
           /\ registry[k].status \in Conditions /\ registry[k].collected \in BOOLEAN
           /\ Named(k).status \in Conditions /\ Named(k).file = k.file /\ Named(k).kind = k.kind
           /\ batches[registry[k].batch] = Named(k)
<1>1. k \in Keys /\ registry[k] \in Entries /\ registry[k].batch \in 1..Len(batches)
      /\ Named(k).file = k.file /\ Named(k).kind = k.kind
  BY DEF TypeInv, DiskOK, RegistryOK, Named
<1>2. batches \in Seq(Taken) /\ batches[registry[k].batch] = Named(k)
  BY DEF TypeInv, DiskOK, Named
<1>3. Named(k) \in Taken
  BY <1>1, <1>2
<1> QED BY <1>1, <1>2, <1>3 DEF Keys, Entries, Taken

\* The batches out are finitely many.
LEMMA OutFinite ==
    ASSUME TypeInv, NEW f
    PROVE  IsFiniteSet(Out(f)) /\ Cardinality(Out(f)) \in Nat /\ Len(batches) \in Nat
<1>1. Len(batches) \in Nat
  BY DEF TypeInv, DiskOK
<1>2. IsFiniteSet(1..Len(batches)) /\ Out(f) \subseteq 1..Len(batches)
  BY <1>1, FS_Interval DEF Out
<1>3. IsFiniteSet(Out(f))
  BY <1>2, FS_Subset
<1> QED BY <1>1, <1>3, FS_CardinalityType

\* The provider's list with the batch just taken.
LEMMA ListGrows ==
    ASSUME TypeInv, NEW f, NEW kind, NEW STATE holds, Takes(f, kind, holds)
    PROVE  /\ Len(batches) \in Nat /\ Len(batches') = Len(batches) + 1
           /\ \A n \in 1..Len(batches) : batches'[n] = batches[n]
           /\ batches'[Len(batches) + 1].file = f
           /\ batches'[Len(batches) + 1].status = "out"
           /\ batches'[Len(batches) + 1].kind = kind
<1> DEFINE b == [file |-> f, kind |-> kind, holds |-> holds, status |-> "out",
                 good |-> {}, poor |-> {}]
<1>1. batches' = Append(batches, b) /\ batches \in Seq(Taken) /\ b.file = f /\ b.status = "out" /\ b.kind = kind
  BY DEF Takes, TypeInv, DiskOK
<1> HIDE DEF b
<1>2. Len(batches) \in Nat /\ Len(batches') = Len(batches) + 1
  BY <1>1
<1>3. \A n \in 1..Len(batches) : batches'[n] = batches[n]
  BY <1>1
<1>4. batches'[Len(batches) + 1] = b
  BY <1>1
<1> QED BY <1>1, <1>2, <1>3, <1>4

-----------------------------------------------------------------------------
(* What every step keeps *)

\* Entries are removed or marked collected, or only the process moves: no batch is sent.
LEMMA EntriesKept ==
    ASSUME RoundsInv, batches' = batches, deaths' \in Nat, deaths' >= deaths,
           \A j \in DOMAIN registry' :
              /\ j \in DOMAIN registry /\ registry'[j].batch = registry[j].batch
              /\ registry'[j].status = registry[j].status
              /\ registry'[j].collected = registry[j].collected \/ registry[j].status # "out",
           \A j \in DOMAIN registry : Named(j).status = "out" => j \in DOMAIN registry',
           \A f \in Files : Settling(f) =>
              \/ /\ Original(f) \in DOMAIN registry'
                 /\ registry'[Original(f)].collected = registry[Original(f)].collected
              \/ recovery'[f] = None /\ ~NamedOut(f),
           \A f \in Files : recovery'[f] = None \/ recovery'[f] = recovery[f],
           action' = "checking_batch" => \A j \in DOMAIN registry' :
              registry[j].status = "out" => recovery'[j.file] = recovery[j.file],
           action' = "checking_batch" => action = "checking_batch" /\ todo' \subseteq todo
    PROVE  NamedInv' /\ OutBounded'
<1> USE DEF RoundsInv, NamedInv
<1>1. \A j \in DOMAIN registry' : Named(j)' = Named(j)
  BY DEF Named
<1>2. EntriesTell'
  BY <1>1 DEF EntriesTell
<1>3. ASSUME NEW f \in Files, Settling(f), recovery'[f] # None \/ NamedOut(f) PROVE Settling(f)'
  BY <1>1, <1>3 DEF Settling
<1>4. RoundsWait'
  <2>1. ASSUME NEW f \in Files, recovery'[f] # None PROVE Settling(f)'
    BY <1>3, <2>1 DEF RoundsWait
  <2>2. ASSUME NEW k \in DOMAIN registry', k.kind # "original", Named(k)'.status = "out"
        PROVE  Settling(k.file)'
    <3>1. k \in DOMAIN registry /\ Named(k).status = "out" /\ k.file \in Files
      BY <1>1, <2>2, EntryOK
    <3>2. Settling(k.file) /\ NamedOut(k.file)
      BY <2>2, <3>1 DEF RoundsWait, NamedOut
    <3> QED BY <1>3, <3>1, <3>2
  <2> QED BY <2>1, <2>2 DEF RoundsWait
<1>5. PassAlone'
  BY <1>1 DEF PassAlone
<1>6. PassReads'
  BY <1>1 DEF PassReads
<1>7. ASSUME NEW f \in Files
      PROVE  Cardinality(Out(f)') <= deaths' + (IF NamedOut(f)' THEN 1 ELSE 0)
  <2>1. Out(f)' = Out(f)
    BY DEF Out
  <2>2. NamedOut(f) => NamedOut(f)'
    BY <1>1 DEF NamedOut
  <2>3. Cardinality(Out(f)) <= deaths + (IF NamedOut(f) THEN 1 ELSE 0) /\ deaths \in Nat
    BY DEF OutBounded, TypeInv, AroundOK
  <2>4. Cardinality(Out(f)) \in Nat
    BY OutFinite
  <2> QED BY <2>1, <2>2, <2>3, <2>4
<1> QED BY <1>2, <1>4, <1>5, <1>6, <1>7 DEF OutBounded

\* A batch of f is sent while the registry names none of f that is out: it is named, or the
\* death that kept it from being named is counted.
LEMMA SentAlone ==
    ASSUME RoundsInv, NEW f \in Files, NEW kind, NEW STATE holds, Takes(f, kind, holds),
           ~NamedOut(f), NEW key, key.file = f, deaths' \in Nat,
           \/ deaths' = deaths + 1
           \/ deaths' = deaths /\ key \in DOMAIN registry' /\ registry'[key] = NewEntry,
           \A j \in DOMAIN registry' :
              \/ j = key /\ registry'[j] = NewEntry
              \/ j \in DOMAIN registry /\ registry'[j] = registry[j],
           \A j \in DOMAIN registry : j.file # f => j \in DOMAIN registry'
    PROVE  /\ EntriesTell' /\ OutBounded'
           /\ \A j \in DOMAIN registry' :
                 \/ j = key /\ registry'[j] = NewEntry /\ Named(j)'.status = "out"
                 \/ j \in DOMAIN registry /\ registry'[j] = registry[j] /\ Named(j)' = Named(j)
<1> USE DEF RoundsInv, NamedInv
<1>1. /\ Len(batches) \in Nat /\ Len(batches') = Len(batches) + 1
      /\ \A n \in 1..Len(batches) : batches'[n] = batches[n]
      /\ batches'[Len(batches) + 1].file = f /\ batches'[Len(batches) + 1].status = "out"
  BY ListGrows
<1>2. ASSUME NEW j \in DOMAIN registry'
      PROVE  \/ j = key /\ registry'[j] = NewEntry /\ Named(j)'.status = "out"
             \/ j \in DOMAIN registry /\ registry'[j] = registry[j] /\ Named(j)' = Named(j)
  <2>1. CASE j = key /\ registry'[j] = NewEntry
    BY <1>1, <2>1 DEF NewEntry, Named
  <2>2. CASE j \in DOMAIN registry /\ registry'[j] = registry[j]
    BY <1>1, <2>2, EntryOK DEF Named
  <2> QED BY <2>1, <2>2
<1>3. EntriesTell'
  <2>1. NewEntry.status = "out" /\ NewEntry.collected = FALSE
    BY DEF NewEntry
  <2> QED BY <1>2, <2>1 DEF EntriesTell
<1>4. ASSUME NEW g \in Files
      PROVE  Cardinality(Out(g)') <= deaths' + (IF NamedOut(g)' THEN 1 ELSE 0)
  <2>1. /\ Cardinality(Out(g)) <= deaths + (IF NamedOut(g) THEN 1 ELSE 0) /\ deaths \in Nat
        /\ IsFiniteSet(Out(g)) /\ Cardinality(Out(g)) \in Nat
    BY OutFinite DEF OutBounded, TypeInv, AroundOK
  <2>2. CASE g = f
    <3>1. Out(g)' = Out(g) \cup {Len(batches) + 1} /\ Len(batches) + 1 \notin Out(g)
      BY <1>1, <2>2 DEF Out
    <3>2. Cardinality(Out(g)') = Cardinality(Out(g)) + 1
      BY <2>1, <3>1, FS_AddElement
    <3>3. deaths' = deaths + 1 \/ (deaths' = deaths /\ NamedOut(g)')
      <4>1. CASE deaths' = deaths /\ key \in DOMAIN registry' /\ registry'[key] = NewEntry
        <5>1. Named(key)'.status = "out"
          BY <1>1, <4>1 DEF NewEntry, Named
        <5> QED BY <2>2, <4>1, <5>1 DEF NamedOut
      <4> QED BY <4>1
    <3>4. Cardinality(Out(g)) <= deaths
      BY <2>1, <2>2
    <3> QED BY <2>1, <3>2, <3>3, <3>4
  <2>3. CASE g # f
    <3>1. Out(g)' = Out(g)
      BY <1>1, <2>3 DEF Out
    <3>2. NamedOut(g) => NamedOut(g)'
      <4> SUFFICES ASSUME NEW j \in DOMAIN registry, j.file = g, Named(j).status = "out"
                   PROVE  NamedOut(g)'
        BY DEF NamedOut
      <4>1. j \in DOMAIN registry' /\ j # key
        BY <2>3
      <4>2. Named(j)' = Named(j)
        BY <1>2, <4>1
      <4> QED BY <4>1, <4>2 DEF NamedOut
    <3> QED BY <2>1, <3>1, <3>2
  <2> QED BY <2>2, <2>3
<1> QED BY <1>2, <1>3, <1>4 DEF OutBounded

-----------------------------------------------------------------------------
(* Submission, the poll and the provider *)

\* A file is sent when nothing of it is out.
LEMMA NothingOut ==
    ASSUME RoundsInv, NEW f \in Files, ~Reuses(f)
    PROVE  ~NamedOut(f) /\ ~Settling(f)
<1> USE DEF RoundsInv, NamedInv
<1>1. ~Settling(f)
  <2> SUFFICES ASSUME Settling(f) PROVE FALSE
    OBVIOUS
  <2>1. /\ Original(f) \in DOMAIN registry /\ ~registry[Original(f)].collected
        /\ Named(Original(f)).status = "completed"
    BY DEF Settling
  <2>2. registry[Original(f)].status \in {"out", "completed"}
    BY <2>1 DEF EntriesTell
  <2> QED BY <2>1, <2>2 DEF Reuses, InFlight, Awaits, Dead
<1>2. ASSUME NEW k \in DOMAIN registry, k.file = f, Named(k).status = "out" PROVE FALSE
  <2>1. k.kind = "original"
    BY <1>1, <1>2 DEF RoundsWait
  <2>2. k = Original(f)
    BY <1>2, <2>1, EntryOK
  <2>3. registry[k].status = "out" /\ ~registry[k].collected
    BY <1>2 DEF EntriesTell
  <2> QED BY <2>2, <2>3 DEF Reuses, InFlight, Dead
<1> QED BY <1>1, <1>2 DEF NamedOut

LEMMA SendFileKeeps ==
    ASSUME RoundsInv, TypeInv', NEW f \in Files, SendFile(f), action = "submitting"
    PROVE  NamedInv' /\ OutBounded'
<1> USE DEF RoundsInv, NamedInv
<1> DEFINE key == Original(f)
<1>1. ~NamedOut(f) /\ ~Settling(f)
  BY NothingOut DEF SendFile
<1>2. PICK writes \in 0..4 :
          /\ IF writes >= 1 THEN Takes(f, "original", Unfinished(f)) ELSE UNCHANGED batches
          /\ registry' = IF writes >= 3 THEN Naming(key) ELSE registry
          /\ Through(writes, 4, todo' = todo \ {f} /\ UNCHANGED <<action, pass>>)
          /\ UNCHANGED recovery
  BY DEF SendFile
<1>3. /\ deaths \in Nat /\ deaths' \in Nat /\ action' # "checking_batch"
      /\ writes = 4 => deaths' = deaths
      /\ writes # 4 => deaths' = deaths + 1
  BY <1>2 DEF Through, Stops, TypeInv, AroundOK
<1>4. CASE writes = 0
  <2>1. registry' = registry /\ batches' = batches /\ recovery' = recovery
    BY <1>2, <1>4
  <2>2. deaths' >= deaths
    BY <1>3, <1>4
  <2> HIDE DEF RoundsInv, NamedInv
  <2> QED BY <1>3, <2>1, <2>2, EntriesKept DEF Settling
<1>5. CASE writes # 0
  <2>1. Takes(f, "original", Unfinished(f))
    BY <1>2, <1>5
  <2>2. key.file = f /\ key.kind = "original"
    BY DEF Original, Key
  <2>3. /\ \A j \in DOMAIN registry' :
              \/ j = key /\ registry'[j] = NewEntry
              \/ j \in DOMAIN registry /\ registry'[j] = registry[j]
        /\ \A j \in DOMAIN registry : j \in DOMAIN registry'
        /\ writes = 4 => key \in DOMAIN registry' /\ registry'[key] = NewEntry
    BY <1>2 DEF Naming
  <2>4. /\ EntriesTell' /\ OutBounded'
        /\ \A j \in DOMAIN registry' :
              \/ j = key /\ registry'[j] = NewEntry /\ Named(j)'.status = "out"
              \/ j \in DOMAIN registry /\ registry'[j] = registry[j] /\ Named(j)' = Named(j)
    BY <1>1, <1>3, <2>1, <2>2, <2>3, SentAlone
  <2>5. ASSUME NEW g \in Files, Settling(g) PROVE Settling(g)'
    <3>1. g # f /\ Original(g) # key
      BY <1>1, <2>5 DEF Original, Key
    <3> QED BY <2>3, <2>4, <2>5, <3>1 DEF Settling
  <2>6. RoundsWait'
    <3>1. \A g \in Files : recovery'[g] # None => Settling(g)'
      BY <1>2, <2>5 DEF RoundsWait
    <3>2. ASSUME NEW j \in DOMAIN registry', j.kind # "original", Named(j)'.status = "out"
          PROVE  Settling(j.file)'
      <4>1. j \in DOMAIN registry /\ Named(j).status = "out"
        BY <2>2, <2>4, <3>2
      <4> QED BY <2>5, <3>2, <4>1, EntryOK DEF RoundsWait
    <3> QED BY <3>1, <3>2 DEF RoundsWait
  <2> QED BY <1>3, <2>4, <2>6 DEF PassAlone, PassReads
<1> QED BY <1>4, <1>5

\* When a pass begins, no batch the registry names is out, and what stands over a file's own
\* batch keeps it from being read.
LEMMA PassBegins ==
    ASSUME TypeInv, NEW STATE reg, DOMAIN reg = DOMAIN registry, BeginPass(reg),
           registry' = reg, batches' = batches,
           \A k \in DOMAIN reg : reg[k].batch = registry[k].batch
                                 /\ reg[k].status = Named(k).status /\ ~InFlight(reg[k])
    PROVE  PassAlone' /\ PassReads'
<1>1. \A k \in DOMAIN reg : Named(k)' = Named(k) /\ Named(k).status # "out"
  BY DEF InFlight, Named, Dead
<1>2. PassAlone'
  BY DEF PassAlone, InFlight, Dead
<1>3. ASSUME NEW f \in Files, Original(f) \in todo',
             NEW j \in DOMAIN reg, j.file = f, j.kind # "original"
      PROVE  j.kind = "repair" /\ Named(j).status \in Dead
  <2> DEFINE rounds == {k \in DOMAIN reg : k.file = f /\ k.kind # "original"}
             live == {k \in rounds : reg[k].status = "completed" \/ InFlight(reg[k])}
             spent == {k \in rounds : is_dead_retry(k, reg[k])}
             ranked == IF live # {} THEN live ELSE spent
             stands == {k \in ranked : \A i \in ranked : reg[i].batch <= reg[k].batch}
  <2>1. Original(f) \notin superseded_entries(reg)
    BY <1>3 DEF BeginPass, NewPass
  <2>2. ASSUME ranked # {}
        PROVE  ({Original(f)} \cup rounds) \ stands \subseteq superseded_entries(reg)
    <3> SUFFICES ASSUME NEW k \in ({Original(f)} \cup rounds) \ stands
                 PROVE  k \in superseded_entries(reg)
      OBVIOUS
    <3> QED BY <2>2 DEF superseded_entries
  <2>3. Original(f) \notin stands
    BY DEF Original, Key
  <2>4. ranked = {}
    BY <2>1, <2>2, <2>3
  <2>5. j \in rounds /\ live = {} /\ spent = {}
    BY <1>3, <2>4
  <2>6. reg[j].status \in Conditions /\ j.kind \in Kinds
    BY EntryOK
  <2>7. reg[j].status \in Dead
    BY <2>5, <2>6 DEF InFlight, Conditions
  <2> QED BY <1>3, <2>5, <2>6, <2>7 DEF is_dead_retry, Kinds
<1>4. PassReads'
  BY <1>1, <1>3 DEF PassReads
<1> QED BY <1>2, <1>4

LEMMA SubmissionKeeps ==
    ASSUME RoundsInv, TypeInv', BeginRun \/ Submitted \/ \E f \in Files : submit_batch_job(f)
    PROVE  NamedInv' /\ OutBounded'
<1>1. ASSUME UNCHANGED <<batches, registry, recovery, deaths>>, action' # "checking_batch"
      PROVE  NamedInv' /\ OutBounded'
  BY <1>1, EntriesKept DEF RoundsInv, TypeInv, AroundOK, Settling
<1>2. CASE BeginRun \/ Submitted
  BY <1>1, <1>2 DEF BeginRun, Submitted, disk, around
<1>3. ASSUME NEW f \in Files, submit_batch_job(f) PROVE NamedInv' /\ OutBounded'
  <2>1. action = "submitting" /\ (SkipFile(f) \/ SendFile(f) \/ RefuseFile(f))
    BY <1>3 DEF submit_batch_job
  <2>2. CASE SkipFile(f) \/ RefuseFile(f)
    BY <1>1, <2>1, <2>2 DEF SkipFile, RefuseFile, Stops, disk, around
  <2> QED BY <2>1, <2>2, SendFileKeeps
<1> QED BY <1>2, <1>3

LEMMA PollKeeps == ASSUME RoundsInv, TypeInv', Poll PROVE NamedInv' /\ OutBounded'
<1> USE DEF RoundsInv
<1>1. /\ action = "batch_submitted" /\ UNCHANGED <<batches, recovery, deaths>>
      /\ deaths \in Nat
  BY DEF Poll, around, TypeInv, AroundOK
<1>2. ASSUME registry' = registry, action' # "checking_batch" PROVE NamedInv' /\ OutBounded'
  BY <1>1, <1>2, EntriesKept DEF Settling
<1>3. CASE overall_status(registry) = "completed"
  <2>1. BeginPass(registry) /\ registry' = registry
    BY <1>3 DEF Poll
  <2>2. ASSUME NEW k \in DOMAIN registry
        PROVE  registry[k].status = Named(k).status /\ ~InFlight(registry[k])
    <3>1. ~InFlight(registry[k])
      BY <1>3 DEF overall_status, InFlight, Settled, Dead
    <3> QED BY <3>1 DEF NamedInv, EntriesTell, InFlight, Dead
  <2>3. PassAlone' /\ PassReads'
    BY <1>1, <2>1, <2>2, PassBegins
  <2>4. \A k \in DOMAIN registry : Named(k)' = Named(k)
    BY <1>1, <2>1 DEF Named
  <2>5. EntriesTell' /\ RoundsWait'
    BY <1>1, <2>1, <2>4 DEF NamedInv, EntriesTell, RoundsWait, Settling
  <2>6. OutBounded'
    BY <1>1, <2>1, <2>4 DEF OutBounded, Out, NamedOut
  <2> QED BY <2>3, <2>5, <2>6 DEF NamedInv
<1>4. CASE overall_status(registry) \in {"in_progress", "partial_failed"}
  <2>1. /\ registry' = polled
        /\ IF \E k \in DOMAIN polled : InFlight(polled[k])
           THEN UNCHANGED <<action, todo, pass>> ELSE BeginPass(polled)
    BY <1>4 DEF Poll
  <2>2. DOMAIN polled = DOMAIN registry
    BY DEF polled
  <2>3. ASSUME NEW k \in DOMAIN registry
        PROVE  /\ polled[k].batch = registry[k].batch /\ polled[k].collected = registry[k].collected
               /\ polled[k].status = Named(k).status
    <3>1. registry[k] \in Entries
      BY DEF TypeInv, DiskOK, RegistryOK
    <3>2. InFlight(registry[k]) \/ registry[k].status = Named(k).status
      BY DEF NamedInv, EntriesTell, InFlight, Dead
    <3> QED BY <3>1, <3>2 DEF polled, Entries
  <2>4. \A k \in DOMAIN registry : Named(k)' = Named(k)
    BY <1>1, <2>1, <2>3 DEF Named
  <2>5. EntriesTell'
    BY <2>1, <2>2, <2>3, <2>4 DEF NamedInv, EntriesTell
  <2>6. RoundsWait'
    <3>1. \A f \in Files : Settling(f) => Settling(f)'
      BY <2>1, <2>2, <2>3, <2>4 DEF Settling
    <3> QED BY <1>1, <2>1, <2>2, <2>4, <3>1, EntryOK DEF NamedInv, RoundsWait
  <2>7. OutBounded'
    <3>1. \A f \in Files : NamedOut(f)' = NamedOut(f) /\ Out(f)' = Out(f)
      BY <1>1, <2>1, <2>2, <2>4 DEF NamedOut, Out
    <3> QED BY <1>1, <3>1 DEF OutBounded
  <2>8. CASE \E k \in DOMAIN polled : InFlight(polled[k])
    BY <1>1, <2>1, <2>5, <2>6, <2>7, <2>8 DEF NamedInv, PassAlone, PassReads
  <2>9. CASE ~\E k \in DOMAIN polled : InFlight(polled[k])
    <3>1. PassAlone' /\ PassReads'
      BY <1>1, <2>1, <2>2, <2>3, <2>9, PassBegins
    <3> QED BY <2>5, <2>6, <2>7, <3>1 DEF NamedInv
  <2> QED BY <2>8, <2>9
<1>5. CASE overall_status(registry) \in {"cancelled", "no_batches"}
  BY <1>2, <1>5 DEF Poll, Stops
<1>6. overall_status(registry) \in {"completed", "in_progress", "partial_failed", "cancelled", "no_batches"}
  BY DEF Poll, overall_status
<1> QED BY <1>3, <1>4, <1>5, <1>6

\* A batch ends: one fewer is out, and where the registry named it, one fewer of those.
LEMMA ProviderKeeps == ASSUME RoundsInv, TypeInv', Provider PROVE NamedInv' /\ OutBounded'
<1> USE DEF RoundsInv
<1>1. PICK n \in DOMAIN batches : Completes(n) \/ Fails(n)
  BY DEF Provider
<1>2. batches[n].status = "out" /\ UNCHANGED <<registry, recovery, action, todo, deaths>>
  BY <1>1 DEF Completes, Fails, around
<1>3. \E status, good, poor : status \in {"completed"} \cup Dead /\ Becomes(n, status, good, poor)
  <2>1. CASE Completes(n)
    <3>1. \E good, poor : Becomes(n, "completed", good, poor)
      BY <2>1 DEF Completes
    <3> QED BY <3>1
  <2>2. CASE Fails(n)
    BY <2>2 DEF Fails
  <2> QED BY <1>1, <2>1, <2>2
<1>4. PICK status, good, poor : status \in {"completed"} \cup Dead /\ Becomes(n, status, good, poor)
  BY <1>3
<1>5. batches \in Seq(Taken) /\ Len(batches) \in Nat /\ deaths \in Nat
  BY DEF TypeInv, DiskOK, AroundOK
<1>6. /\ Len(batches') = Len(batches) /\ batches'[n].status # "out" /\ n \in 1..Len(batches)
      /\ \A m \in 1..Len(batches) : batches'[m].file = batches[m].file
      /\ \A m \in 1..Len(batches) : m # n => batches'[m] = batches[m]
  <2> DEFINE b == [batches[n] EXCEPT !.status = status, !.good = good, !.poor = poor]
  <2>1. batches' = [batches EXCEPT ![n] = b]
    BY <1>4 DEF Becomes
  <2>2. n \in 1..Len(batches) /\ batches[n] \in Taken
    BY <1>5
  <2>3. b.file = batches[n].file /\ b.status = status /\ status # "out"
    BY <1>4, <2>2 DEF Taken, Dead
  <2> HIDE DEF b
  <2> QED BY <1>5, <2>1, <2>2, <2>3
<1>7. ASSUME NEW k \in DOMAIN registry
      PROVE  /\ Named(k)'.status = "out" => Named(k).status = "out"
             /\ Named(k).status # "out" => Named(k)' = Named(k)
             /\ registry[k].batch # n => Named(k)' = Named(k)
  <2>1. registry[k].batch \in 1..Len(batches)
    BY EntryOK
  <2> QED BY <1>2, <1>6, <2>1 DEF Named
<1>8. EntriesTell'
  BY <1>2, <1>7 DEF NamedInv, EntriesTell
<1>9. RoundsWait'
  <2>1. \A f \in Files : Settling(f) => Settling(f)'
    BY <1>2, <1>7 DEF Settling
  <2> QED BY <1>2, <1>7, <2>1, EntryOK DEF NamedInv, RoundsWait
<1>10. PassAlone'
  BY <1>2, <1>7 DEF NamedInv, PassAlone
<1>11. PassReads'
  BY <1>2, <1>7 DEF NamedInv, PassReads, Dead
<1>12. ASSUME NEW f \in Files
      PROVE  Cardinality(Out(f)') <= deaths' + (IF NamedOut(f)' THEN 1 ELSE 0)
  <2>1. /\ Cardinality(Out(f)) <= deaths + (IF NamedOut(f) THEN 1 ELSE 0)
        /\ IsFiniteSet(Out(f)) /\ Cardinality(Out(f)) \in Nat
    BY OutFinite DEF OutBounded
  <2>2. CASE batches[n].file = f
    <3>1. Out(f)' = Out(f) \ {n} /\ n \in Out(f)
      BY <1>2, <1>6, <2>2 DEF Out
    <3>2. Cardinality(Out(f)') = Cardinality(Out(f)) - 1
      BY <2>1, <3>1, FS_RemoveElement
    <3> QED BY <1>2, <1>5, <2>1, <3>2
  <2>3. CASE batches[n].file # f
    <3>1. Out(f)' = Out(f)
      BY <1>6, <2>3 DEF Out
    <3>2. NamedOut(f) => NamedOut(f)'
      <4> SUFFICES ASSUME NEW k \in DOMAIN registry, k.file = f, Named(k).status = "out"
                   PROVE  NamedOut(f)'
        BY DEF NamedOut
      <4>1. registry[k].batch # n
        BY <2>3, EntryOK
      <4> QED BY <1>2, <1>7, <4>1 DEF NamedOut
    <3> QED BY <1>2, <1>5, <2>1, <3>1, <3>2
  <2> QED BY <2>2, <2>3
<1> QED BY <1>8, <1>9, <1>10, <1>11, <1>12 DEF NamedInv, OutBounded

-----------------------------------------------------------------------------
(* Reading an entry *)

\* An entry a pass comes to and reads.
Read(k) ==
    /\ RoundsInv /\ action = "checking_batch" /\ k \in todo
    /\ k \in DOMAIN registry /\ ~registry[k].collected /\ Readable(k)

\* What is read has ended, nothing else of its file is out, and a round is not read in the
\* pass that reads the file's own batch.
LEMMA ReadAlone ==
    ASSUME NEW k, Read(k)
    PROVE  /\ Named(k).status \in {"completed"} \cup Dead /\ ~NamedOut(k.file)
           /\ k.kind = "original" => Settling(k.file) /\ k = Original(k.file)
           /\ k.kind # "original" => Original(k.file) \notin todo
<1> USE DEF Read, RoundsInv, NamedInv
<1>1. k.file \in Files /\ (k.kind = "original" => k = Original(k.file))
  BY EntryOK
<1>2. Named(k).status = "completed" \/ (k.kind = "retry" /\ Named(k).status \in Dead)
  BY DEF Readable, is_dead_retry, EntriesTell, Dead
<1>3. ~NamedOut(k.file)
  BY <1>2 DEF EntriesTell, PassAlone, NamedOut, Dead
<1>4. k.kind = "original" => Settling(k.file)
  BY <1>1, <1>2 DEF Settling
<1>5. ASSUME k.kind # "original", Original(k.file) \in todo PROVE FALSE
  <2>1. k.kind = "repair" /\ Named(k).status \in Dead
    BY <1>1, <1>5 DEF PassReads
  <2> QED BY <1>2, <2>1 DEF Dead
<1> QED BY <1>1, <1>2, <1>3, <1>4, <1>5

\* A round is sent.
LEMMA RegistersKeeps ==
    ASSUME NEW k, Read(k), TypeInv', Settling(k.file), NEW kind \in {"retry", "repair"},
           NEW attempt, NEW holds, NEW state, state # None,
           Registers(k, kind, attempt, holds, state)
    PROVE  NamedInv' /\ OutBounded'
<1> USE DEF Read, RoundsInv, NamedInv
<1> DEFINE f     == k.file
           key   == Key(f, kind, attempt)
           named == Naming(key)
           Replaced(j) == j.file = f /\ j.kind # "original" /\ j # key
<1>1. PICK writes \in 1..4 :
          /\ Takes(f, kind, holds)
          /\ registry' = CASE writes = 1 -> registry
                           [] writes = 2 -> named
                           [] writes >= 3 -> Restricted(named, {j \in DOMAIN named : ~Replaced(j)})
          /\ recovery' = IF writes = 4 THEN [recovery EXCEPT ![f] = state] ELSE recovery
          /\ Through(writes, 4, Handled(k) /\ UNCHANGED pass)
  BY DEF Registers
<1>2. f \in Files /\ key.file = f /\ key.kind = kind /\ kind # "original" /\ ~NamedOut(f)
  BY EntryOK, ReadAlone DEF Key
<1>3. /\ deaths \in Nat /\ deaths' \in Nat
      /\ writes = 4 => deaths' = deaths /\ todo' = todo \ {k} /\ action' = action
      /\ writes # 4 => deaths' = deaths + 1 /\ action' # "checking_batch"
  BY <1>1 DEF Through, Handled, Stops, TypeInv, AroundOK
<1>4. /\ \A j \in DOMAIN registry' :
            \/ j = key /\ registry'[j] = NewEntry
            \/ j \in DOMAIN registry /\ registry'[j] = registry[j]
      /\ \A j \in DOMAIN registry : j.file # f \/ j.kind = "original" => j \in DOMAIN registry'
      /\ writes = 4 => /\ key \in DOMAIN registry' /\ registry'[key] = NewEntry
                       /\ \A j \in DOMAIN registry' : ~Replaced(j)
  <2>1. registry' = registry \/ registry' = named
        \/ registry' = Restricted(named, {j \in DOMAIN named : ~Replaced(j)})
    BY <1>1
  <2>2. writes = 4 => registry' = Restricted(named, {j \in DOMAIN named : ~Replaced(j)})
    BY <1>1
  <2>3. /\ DOMAIN named = DOMAIN registry \cup {key} /\ named[key] = NewEntry
        /\ \A j \in DOMAIN registry : j # key => named[j] = registry[j]
    BY DEF Naming
  <2> HIDE DEF named
  <2> QED BY <2>1, <2>2, <2>3 DEF Restricted
<1>5. /\ EntriesTell' /\ OutBounded'
      /\ \A j \in DOMAIN registry' :
            \/ j = key /\ registry'[j] = NewEntry /\ Named(j)'.status = "out"
            \/ j \in DOMAIN registry /\ registry'[j] = registry[j] /\ Named(j)' = Named(j)
  <2>1. \/ deaths' = deaths + 1
        \/ deaths' = deaths /\ key \in DOMAIN registry' /\ registry'[key] = NewEntry
    BY <1>3, <1>4
  <2> HIDE DEF Read, RoundsInv, NamedInv
  <2>2. RoundsInv /\ Takes(f, kind, holds)
    BY <1>1 DEF Read
  <2> QED BY <1>2, <1>3, <1>4, <2>1, <2>2, SentAlone
<1> HIDE DEF key
<1>6. ASSUME NEW g \in Files, Settling(g) PROVE Settling(g)'
  <2>1. Original(g) # key /\ Original(g).kind = "original"
    BY <1>2 DEF Original, Key
  <2> QED BY <1>4, <1>5, <1>6, <2>1 DEF Settling
<1>7. RoundsWait'
  <2>1. ASSUME NEW g \in Files, recovery'[g] # None PROVE Settling(g)'
    <3>1. g = f \/ recovery'[g] = recovery[g]
      BY <1>1
    <3> QED BY <1>6, <2>1, <3>1 DEF RoundsWait
  <2>2. ASSUME NEW j \in DOMAIN registry', j.kind # "original", Named(j)'.status = "out"
        PROVE  Settling(j.file)'
    <3>1. CASE j = key
      BY <1>2, <1>6, <3>1
    <3>2. CASE j # key
      BY <1>5, <1>6, <2>2, <3>2, EntryOK DEF RoundsWait
    <3> QED BY <3>1, <3>2
  <2> QED BY <2>1, <2>2 DEF RoundsWait
<1>8. ASSUME writes = 4, Original(f) \in todo' PROVE FALSE
  BY <1>3, <1>8, ReadAlone
<1>9. PassAlone'
  <2> SUFFICES ASSUME writes = 4, NEW j \in DOMAIN registry', registry'[j].status = "out"
               PROVE  /\ j.kind # "original" /\ recovery'[j.file] # None
                      /\ \A x \in todo' \cap DOMAIN registry' : x.file = j.file => x = j
    BY <1>3 DEF PassAlone
  <2>1. recovery' = [recovery EXCEPT ![f] = state] /\ recovery = [g \in Files |-> recovery[g]]
    BY <1>1 DEF TypeInv, DiskOK, RecoveryOK
  <2>2. CASE j = key
    <3>1. ASSUME NEW x \in todo' \cap DOMAIN registry', x.file = f, x # key PROVE FALSE
      <4>1. x.kind = "original" /\ x \in DOMAIN registry
        BY <1>4, <3>1
      <4>2. x = Original(f)
        BY <3>1, <4>1, EntryOK
      <4> QED BY <1>8, <4>2
    <3> QED BY <1>2, <2>1, <2>2, <3>1
  <2>3. CASE j # key
    <3>1. j \in DOMAIN registry /\ registry[j].status = "out" /\ j.file \in Files
      BY <1>4, <2>3, EntryOK
    <3>2. j.kind # "original" /\ recovery[j.file] # None
          /\ \A x \in todo \cap DOMAIN registry : x.file = j.file => x = j
      BY <3>1 DEF PassAlone
    <3>3. CASE j.file = f
      <4>1. j = k
        BY <3>2, <3>3
      <4>2. j.kind = "original"
        BY <1>4, <2>3, <3>3
      <4> QED BY <3>2, <4>2
    <3>4. CASE j.file # f
      <4>1. recovery'[j.file] # None
        BY <2>1, <3>1, <3>2, <3>4
      <4>2. ASSUME NEW x \in todo' \cap DOMAIN registry', x.file = j.file PROVE x = j
        <5>1. x \in todo /\ x \in DOMAIN registry
          BY <1>2, <1>3, <1>4, <3>4, <4>2
        <5> QED BY <3>2, <4>2, <5>1
      <4> QED BY <3>2, <4>1, <4>2
    <3> QED BY <3>3, <3>4
  <2> QED BY <2>2, <2>3
<1>10. PassReads'
  <2> SUFFICES ASSUME writes = 4, NEW g \in Files, Original(g) \in todo',
                      NEW j \in DOMAIN registry', j.file = g, j.kind # "original"
               PROVE  j.kind = "repair" /\ Named(j)'.status \in Dead
    BY <1>3 DEF PassReads
  <2>1. g # f /\ Original(g) \in todo
    BY <1>3, <1>8
  <2>2. j \in DOMAIN registry /\ Named(j)' = Named(j)
    BY <1>2, <1>5, <2>1
  <2> QED BY <2>1, <2>2 DEF PassReads
<1> QED BY <1>5, <1>7, <1>9, <1>10

\* A file gets its output.
LEMMA FinalizesKeeps ==
    ASSUME NEW k, Read(k), TypeInv', NEW results, NEW exhausted, Finalizes(k, results, exhausted)
    PROVE  NamedInv' /\ OutBounded'
<1> DEFINE f == k.file
           marked == [registry EXCEPT ![Original(f)].collected = TRUE]
<1>1. PICK writes \in 1..4 :
          /\ recovery' = [recovery EXCEPT ![f] = None]
          /\ registry' = CASE writes <= 2 -> registry
                           [] writes = 3 -> marked
                           [] writes = 4 -> Restricted(marked,
                                 {j \in DOMAIN marked : j.file # f \/ j.kind = "original"})
          /\ Through(writes, 4, Handled(k) /\ pass' = [pass EXCEPT !.wrote = TRUE])
          /\ batches' = batches
  BY DEF Finalizes
<1>2. ~NamedOut(f) /\ TypeInv /\ RoundsInv
  BY ReadAlone DEF Read, RoundsInv
<1>3. /\ deaths \in Nat /\ deaths' \in Nat /\ deaths' >= deaths
      /\ action' = "checking_batch" => action = "checking_batch" /\ todo' \subseteq todo
  BY <1>1, <1>2 DEF Through, Handled, Stops, TypeInv, AroundOK
<1>4. ASSUME NEW j \in DOMAIN registry
      PROVE  /\ j \in DOMAIN marked /\ marked[j].batch = registry[j].batch
             /\ marked[j].status = registry[j].status
             /\ marked[j].collected = registry[j].collected \/ j = Original(f)
  <2>1. registry[j] \in Entries
    BY <1>2 DEF TypeInv, DiskOK, RegistryOK
  <2> QED BY <2>1 DEF Entries
<1>5. DOMAIN marked = DOMAIN registry
  OBVIOUS
<1>6. registry' = registry \/ registry' = marked
      \/ registry' = Restricted(marked, {j \in DOMAIN marked : j.file # f \/ j.kind = "original"})
  BY <1>1
<1> HIDE DEF marked
<1>7. /\ \A j \in DOMAIN registry' :
            /\ j \in DOMAIN registry /\ registry'[j].batch = registry[j].batch
            /\ registry'[j].status = registry[j].status
            /\ registry'[j].collected = registry[j].collected \/ j = Original(f)
      /\ \A j \in DOMAIN registry : j.file # f => j \in DOMAIN registry'
  BY <1>4, <1>5, <1>6 DEF Restricted
<1>8. ASSUME NEW g \in Files, Settling(g), g # f
      PROVE  /\ Original(g) \in DOMAIN registry'
             /\ registry'[Original(g)].collected = registry[Original(g)].collected
  <2>1. Original(g).file = g /\ Original(g) # Original(f)
    BY <1>8 DEF Original, Key
  <2> QED BY <1>7, <1>8, <2>1 DEF Settling
<1>9. \A j \in DOMAIN registry : j = Original(f) => registry[j].status # "out"
  BY DEF Read, RoundsInv, NamedInv, PassAlone, Original, Key
<1>10. \A j \in DOMAIN registry : Named(j).status = "out" => j.file # f
  BY <1>2 DEF NamedOut
<1>11. f \in Files /\ recovery'[f] = None /\ \A g \in Files : g # f => recovery'[g] = recovery[g]
  <2>1. recovery = [g \in Files |-> recovery[g]] /\ k \in DOMAIN registry
    BY <1>2 DEF TypeInv, DiskOK, RecoveryOK, Read
  <2> QED BY <1>1, <1>2, <2>1, EntryOK
<1>12. ASSUME NEW j \in DOMAIN registry', registry[j].status = "out", action' = "checking_batch"
       PROVE  j.file # f
  <2>1. registry' = Restricted(marked, {i \in DOMAIN marked : i.file # f \/ i.kind = "original"})
    BY <1>1, <1>12 DEF Through, Stops, marked
  <2>2. j.file # f \/ j.kind = "original"
    BY <1>12, <2>1 DEF Restricted
  <2>3. j.kind # "original"
    BY <1>7, <1>12 DEF Read, RoundsInv, NamedInv, PassAlone
  <2> QED BY <2>2, <2>3
<1>13. action' = "checking_batch" => \A j \in DOMAIN registry' :
          registry[j].status = "out" => recovery'[j.file] = recovery[j.file]
  BY <1>2, <1>7, <1>11, <1>12, EntryOK
<1> QED BY <1>1, <1>2, <1>3, <1>7, <1>8, <1>9, <1>10, <1>11, <1>13, EntriesKept

\* The registry knows a file's own batch is dead, or a round has nothing to be read against.
LEMMA FailUnreadableKeeps ==
    ASSUME RoundsInv, TypeInv', action = "checking_batch", NEW k \in todo \cap DOMAIN registry,
           k.kind = "original", registry[k].status \in Dead, FailUnreadable(k)
    PROVE  NamedInv' /\ OutBounded'
<1>1. PICK writes \in 1..2 :
          /\ registry' = IF writes = 2 THEN [registry EXCEPT ![k].collected = TRUE] ELSE registry
          /\ Through(writes, 2, Handled(k) /\ UNCHANGED pass)
          /\ batches' = batches /\ recovery' = recovery
  BY DEF FailUnreadable
<1>2. TypeInv /\ NamedInv /\ k = Original(k.file) /\ k.file \in Files
  BY EntryOK DEF RoundsInv
<1>3. /\ deaths \in Nat /\ deaths' \in Nat /\ deaths' >= deaths
      /\ action' = "checking_batch" => action = "checking_batch" /\ todo' \subseteq todo
  BY <1>1, <1>2 DEF Through, Handled, Stops, TypeInv, AroundOK
<1>4. Named(k).status \in Dead /\ ~Settling(k.file)
  BY <1>2 DEF NamedInv, EntriesTell, Settling, Dead
<1>5. /\ DOMAIN registry' = DOMAIN registry
      /\ \A j \in DOMAIN registry :
            /\ registry'[j].batch = registry[j].batch /\ registry'[j].status = registry[j].status
            /\ registry'[j].collected = registry[j].collected \/ j = k
  <2>1. registry \in [DOMAIN registry -> Entries]
    BY <1>2 DEF TypeInv, DiskOK, RegistryOK
  <2> QED BY <1>1, <2>1 DEF Entries
<1>6. ASSUME NEW g \in Files, Settling(g)
      PROVE  /\ Original(g) \in DOMAIN registry'
             /\ registry'[Original(g)].collected = registry[Original(g)].collected
  <2>1. Original(g) # k
    BY <1>2, <1>4, <1>6 DEF Original, Key
  <2> QED BY <1>5, <1>6, <2>1 DEF Settling
<1>7. registry[k].status # "out"
  BY DEF Dead
<1> QED BY <1>1, <1>3, <1>5, <1>6, <1>7, EntriesKept

LEMMA DropEntryKeeps ==
    ASSUME NEW k, Read(k), TypeInv', k.kind # "original", DropEntry(k)
    PROVE  NamedInv' /\ OutBounded'
<1>1. /\ registry' = Restricted(registry, DOMAIN registry \ {k})
      /\ batches' = batches /\ recovery' = recovery /\ deaths' = deaths /\ deaths \in Nat
      /\ action' = action /\ todo' = todo \ {k}
  BY DEF DropEntry, Handled, around, Read, RoundsInv, TypeInv, AroundOK
<1>2. Named(k).status # "out" /\ RoundsInv
  BY ReadAlone DEF Read, NamedOut
<1>3. /\ \A j \in DOMAIN registry' : j \in DOMAIN registry /\ registry'[j] = registry[j]
      /\ \A j \in DOMAIN registry : j # k => j \in DOMAIN registry'
  BY <1>1 DEF Restricted
<1>4. ASSUME NEW g \in Files, Settling(g)
      PROVE  /\ Original(g) \in DOMAIN registry'
             /\ registry'[Original(g)].collected = registry[Original(g)].collected
  <2>1. Original(g) # k
    BY DEF Original, Key
  <2> QED BY <1>3, <1>4, <2>1 DEF Settling
<1>5. deaths' \in Nat /\ deaths' >= deaths
      /\ (action' = "checking_batch" => action = "checking_batch" /\ todo' \subseteq todo)
  BY <1>1
<1>6. \A j \in DOMAIN registry : Named(j).status = "out" => j \in DOMAIN registry'
  BY <1>2, <1>3
<1> QED BY <1>1, <1>2, <1>3, <1>4, <1>5, <1>6, EntriesKept

\* What a state has counted: the retries and the repair rounds sent.
Within(s) == s.sent \in 0..(job.attempts - 1) /\ s.round \in 0..job.rounds
Total(s) == s.sent + s.round
Spent(f) == IF recovery[f] = None THEN 0 ELSE Total(recovery[f])
Bounded(f) == recovery[f] = None \/ Within(recovery[f])

\* The round sent is counted, over what was counted before or, as the file's own batch may
\* be read anew, over nothing.
Follows(k, s) == Bounded(k.file) =>
    Within(s) /\ (Total(s) = Spent(k.file) + 1 \/ (k.kind = "original" /\ Total(s) = 1))

\* A repair is not followed by a retry.
Sends(k) == \E kind \in {"retry", "repair"} : \E attempt, holds, state :
    /\ state # None /\ (k.kind = "repair" => kind = "repair") /\ Follows(k, state)
    /\ Registers(k, kind, attempt, holds, state)
Ends(k) == \E results, exhausted : Finalizes(k, results, exhausted)

IsState(s) == "sent" \in DOMAIN s /\ "round" \in DOMAIN s

\* A state is not the absence of one, and stays a state with other contents.
LEMMA StatesAre ==
    /\ \A a, b, c, d, e, g : IsState(Round(a, b, c, d, e, g)) /\ Round(a, b, c, d, e, g) # None
    /\ \A a, b, c, d, e, g : LET s == Round(a, b, c, d, e, g) IN s.sent = a /\ s.round = d
    /\ \A s : IsState(s) => s # None
    /\ ~IsState(None)
<1>1. ~IsState(None)
  BY DEF IsState, None
<1>2. \A a, b, c, d, e, g : IsState(Round(a, b, c, d, e, g))
  BY DEF IsState, Round
<1>3. \A a, b, c, d, e, g : LET s == Round(a, b, c, d, e, g) IN s.sent = a /\ s.round = d
  BY DEF Round
<1> QED BY <1>1, <1>2, <1>3

LEMMA RecoveryIsState ==
    ASSUME TypeInv, NEW f \in Files
    PROVE  /\ recovery[f] # None => IsState(recovery[f])
           /\ job.attempts \in Nat \ {0} /\ job.rounds \in Nat
<1>1. recovery[f] # None => StateOK(recovery[f], f, Len(batches))
  BY DEF TypeInv, DiskOK, RecoveryOK
<1>2. job.attempts \in Nat \ {0} /\ job.rounds \in Nat
  BY JobsAssumption DEF TypeInv, AroundOK
<1> QED BY <1>1, <1>2 DEF StateOK, Round, IsState

\* The state a repair is sent from is as the file's was, or counts nothing yet.
Starts(k, s) == Bounded(k.file) =>
    Within(s) /\ (Total(s) = Spent(k.file) \/ (k.kind = "original" /\ Total(s) = 0))

\* A round goes out, the file gets its output, or the entry is left to the repair under way.
LEMMA RepairsActs ==
    ASSUME TypeInv, NEW k, k.file \in Files,
           NEW STATE answers, NEW STATE known, NEW STATE exhausted,
           known # None => IsState(known) /\ Starts(k, known), Repairs(k, answers, known, exhausted)
    PROVE  (Defers(k) /\ repair_round_in_flight(k.file)) \/ Ends(k) \/ Sends(k)
<1> DEFINE f == k.file
           fresh == Round(0, {}, NoAnswers, 0, {}, NoAnswers)
           state == IF known # None THEN known ELSE IF recovery[f] # None THEN recovery[f] ELSE fresh
           pooled == Over(state.pool, answers)
           poor == {r \in DOMAIN pooled : IsPoor(r, pooled[r])}
           next == [state EXCEPT !.round = @ + 1, !.held = poor,
                                 !.pool = Restricted(Over(pooled, @), Records \ poor)]
           attempt == state.round + 1
<1>1. \/ Defers(k) /\ repair_round_in_flight(f)
      \/ Finalizes(k, pooled, exhausted)
      \/ Registers(k, "repair", attempt, poor, next) /\ ~(state.round >= job.rounds)
  BY DEF Repairs
<1>2. IsState(state) /\ Starts(k, state)
  <2>1. IsState(fresh) /\ fresh.sent = 0 /\ fresh.round = 0
    BY StatesAre
  <2> HIDE DEF fresh
  <2>2. CASE known # None
    BY <2>2
  <2>3. CASE known = None /\ recovery[f] # None
    BY <2>3, RecoveryIsState DEF Starts, Bounded, Spent
  <2>4. CASE known = None /\ recovery[f] = None
    BY <2>1, <2>4, RecoveryIsState DEF Starts, Within, Total, Spent
  <2> QED BY <2>2, <2>3, <2>4
<1> HIDE DEF state, pooled, poor
<1>3. IsState(next) /\ next # None /\ next.round = state.round + 1 /\ next.sent = state.sent
  <2> DEFINE pool == Restricted(Over(pooled, state.pool), Records \ poor)
  <2>1. next = [state EXCEPT !.round = @ + 1, !.held = poor, !.pool = pool]
    OBVIOUS
  <2> HIDE DEF next, pool
  <2>2. DOMAIN next = DOMAIN state /\ next.round = state.round + 1 /\ next.sent = state.sent
    BY <1>2, <2>1 DEF IsState
  <2> QED BY <1>2, <2>2, StatesAre DEF IsState
<1> HIDE DEF next, attempt
<1>4. ~(state.round >= job.rounds) => Follows(k, next)
  BY <1>2, <1>3, RecoveryIsState DEF Starts, Follows, Within, Total, Spent, Bounded
<1>5. Finalizes(k, pooled, exhausted) => Ends(k)
  BY DEF Ends
<1>6. Registers(k, "repair", attempt, poor, next) /\ ~(state.round >= job.rounds) => Sends(k)
  BY <1>3, <1>4 DEF Sends
<1> QED BY <1>1, <1>5, <1>6

\* What handling an entry comes to.
LEMMA ProcessActs ==
    ASSUME TypeInv, NEW k, k.file \in Files, Process(k)
    PROVE  \/ k.kind # "original" /\ recovery[k.file] = None /\ DropEntry(k)
           \/ /\ k.kind = "original" \/ recovery[k.file] # None
              /\ \/ Defers(k) /\ k.kind # "repair" /\ repair_round_in_flight(k.file)
                 \/ Ends(k) \/ Sends(k)
<1> DEFINE state == recovery[k.file]
           defers == Defers(k) /\ repair_round_in_flight(k.file)
<1>1. /\ state # None => IsState(state) /\ Starts(k, state) /\ Spent(k.file) = Total(state)
                         /\ (Bounded(k.file) => Within(state))
      /\ job.attempts \in Nat \ {0} /\ job.rounds \in Nat
  BY RecoveryIsState DEF Starts, Bounded, Spent
<1>2. ASSUME k.kind = "original" PROVE defers \/ Ends(k) \/ Sends(k)
  <2> DEFINE got == Answers(registry[k].batch)
             missing == mapped[k.file] \ DOMAIN got
             first == Round(1, missing, got, 0, {}, NoAnswers)
             given == Round(0, missing, NoAnswers, 0, {}, NoAnswers)
             known == IF missing = {} THEN None ELSE given
  <2>1. \/ Registers(k, "retry", 1, missing, first) /\ retries_left(0) > 0
        \/ Repairs(k, got, None, {})
        \/ Repairs(k, got, known, missing)
    BY <1>2 DEF Process, process_original_batch
  <2>2. /\ first # None /\ first.sent = 1 /\ first.round = 0
        /\ IsState(given) /\ given.sent = 0 /\ given.round = 0
    BY StatesAre
  <2> HIDE DEF got, missing, first, given
  <2>3. retries_left(0) > 0 => Follows(k, first)
    BY <1>1, <1>2, <2>2 DEF retries_left, Follows, Within, Total
  <2>4. Starts(k, given)
    BY <1>1, <1>2, <2>2 DEF Starts, Within, Total
  <2>5. known # None => IsState(known) /\ Starts(k, known)
    BY <2>2, <2>4
  <2> HIDE DEF known
  <2>6. Registers(k, "retry", 1, missing, first) /\ retries_left(0) > 0 => Sends(k)
    BY <1>2, <2>2, <2>3 DEF Sends
  <2>7. Repairs(k, got, None, {}) \/ Repairs(k, got, known, missing) => defers \/ Ends(k) \/ Sends(k)
    BY <2>5, RepairsActs
  <2> QED BY <2>1, <2>6, <2>7
<1>3. ASSUME handle_retry_recovery(k), state # None, k.kind = "retry" PROVE defers \/ Ends(k) \/ Sends(k)
  <2> DEFINE got == IF registry[k].status \in Dead THEN NoAnswers ELSE Answers(registry[k].batch)
             merged == process_retry_results(got, state.accumulated)
             still == state.missing \ DOMAIN got
             again == [state EXCEPT !.sent = @ + 1, !.missing = still, !.accumulated = merged]
             given == [state EXCEPT !.missing = {}]
             attempt == state.sent + 1
  <2>1. \/ Registers(k, "retry", attempt, still, again) /\ retries_left(state.sent) > 0
        \/ Repairs(k, merged, given, {})
        \/ Repairs(k, merged, state, still)
    BY <1>3 DEF handle_retry_recovery
  <2> HIDE DEF got, merged, still, state
  <2>2. /\ DOMAIN again = DOMAIN state /\ again.sent = state.sent + 1 /\ again.round = state.round
        /\ DOMAIN given = DOMAIN state /\ given.sent = state.sent /\ given.round = state.round
    <3>1. again = [state EXCEPT !.sent = @ + 1, !.missing = still, !.accumulated = merged]
          /\ given = [state EXCEPT !.missing = {}]
      OBVIOUS
    <3> HIDE DEF again, given
    <3> QED BY <1>1, <1>3, <3>1 DEF IsState
  <2> HIDE DEF again, given, attempt
  <2>3. IsState(again) /\ IsState(given) /\ again # None
    BY <1>1, <1>3, <2>2, StatesAre DEF IsState
  <2>4. retries_left(state.sent) > 0 => Follows(k, again)
    BY <1>1, <1>3, <2>2 DEF retries_left, Follows, Within, Total
  <2>5. Starts(k, given)
    BY <1>1, <1>3, <2>2 DEF Starts, Within, Total
  <2>6. Registers(k, "retry", attempt, still, again) /\ retries_left(state.sent) > 0 => Sends(k)
    BY <1>3, <2>3, <2>4 DEF Sends
  <2>7. Repairs(k, merged, given, {}) => defers \/ Ends(k) \/ Sends(k)
    BY <2>3, <2>5, RepairsActs
  <2>8. Repairs(k, merged, state, still) => defers \/ Ends(k) \/ Sends(k)
    BY <1>1, RepairsActs
  <2> QED BY <2>1, <2>6, <2>7, <2>8
<1>4. ASSUME handle_repair_recovery(k), state # None PROVE Ends(k) \/ Sends(k)
  <2> DEFINE got == Answers(registry[k].batch)
             poor == {r \in DOMAIN got : IsPoor(r, got[r])}
             dropped == [r \in state.held \ DOMAIN got |-> Lost]
             pool == Over(dropped, Over(Restricted(got, DOMAIN got \ poor), state.pool))
             again == [state EXCEPT !.round = @ + 1, !.held = poor,
                                    !.pool = Restricted(pool, Records \ poor)]
             attempt == state.round + 1
             results == Over(got, pool)
             exhausted == state.missing
  <2>1. \/ Registers(k, "repair", attempt, poor, again) /\ state.round < job.rounds
        \/ Finalizes(k, results, exhausted)
    BY <1>4 DEF handle_repair_recovery
  <2> HIDE DEF poor, pool, state
  <2>2. DOMAIN again = DOMAIN state /\ again.sent = state.sent /\ again.round = state.round + 1
    <3> DEFINE kept == Restricted(pool, Records \ poor)
    <3>1. again = [state EXCEPT !.round = @ + 1, !.held = poor, !.pool = kept]
      OBVIOUS
    <3> HIDE DEF again, kept
    <3> QED BY <1>1, <1>4, <3>1 DEF IsState
  <2> HIDE DEF again, attempt, results, exhausted
  <2>3. again # None
    BY <1>1, <1>4, <2>2, StatesAre DEF IsState
  <2>4. state.round < job.rounds => Follows(k, again)
    BY <1>1, <1>4, <2>2 DEF Follows, Within, Total
  <2>5. Registers(k, "repair", attempt, poor, again) /\ state.round < job.rounds => Sends(k)
    BY <2>3, <2>4 DEF Sends
  <2>6. Finalizes(k, results, exhausted) => Ends(k)
    BY DEF Ends
  <2> QED BY <2>1, <2>5, <2>6
<1>5. k.kind # "original" =>
         \/ state = None /\ DropEntry(k)
         \/ /\ state # None
            /\ (k.kind = "retry" /\ handle_retry_recovery(k)) \/ handle_repair_recovery(k)
  BY DEF Process, process_recovery_batch
<1>6. ASSUME k.kind # "original", state # None, k.kind = "retry", handle_retry_recovery(k)
      PROVE  (Defers(k) /\ k.kind # "repair" /\ repair_round_in_flight(k.file)) \/ Ends(k) \/ Sends(k)
  BY <1>3, <1>6
<1> QED BY <1>2, <1>4, <1>5, <1>6

LEMMA ReadEntryKeeps ==
    ASSUME RoundsInv, TypeInv', NEW k \in todo, ReadEntry(k)
    PROVE  NamedInv' /\ OutBounded'
<1>1. action = "checking_batch" /\ deaths \in Nat
  BY DEF ReadEntry, RoundsInv, TypeInv, AroundOK
<1>2. ASSUME Handled(k), UNCHANGED <<batches, registry, recovery, deaths>>
      PROVE  NamedInv' /\ OutBounded'
  <2>1. action' = action /\ todo' \subseteq todo
    BY <1>2 DEF Handled
  <2> QED BY <1>1, <1>2, <2>1, EntriesKept DEF Settling
<1>3. ASSUME Leaves(k) \/ Abandons(k) PROVE NamedInv' /\ OutBounded'
  BY <1>2, <1>3 DEF Leaves, Abandons, disk, around
<1>4. ASSUME k \in DOMAIN registry, ~registry[k].collected, Readable(k), Process(k)
      PROVE  NamedInv' /\ OutBounded'
  <2>1. Read(k)
    BY <1>1, <1>4 DEF Read
  <2>2. k.kind = "original" \/ recovery[k.file] # None => Settling(k.file)
    BY <2>1, ReadAlone, EntryOK DEF RoundsInv, NamedInv, RoundsWait, Read
  <2>3. CASE Sends(k) /\ Settling(k.file)
    <3>1. PICK kind \in {"retry", "repair"} : \E attempt, holds, state :
                 state # None /\ Registers(k, kind, attempt, holds, state)
      BY <2>3 DEF Sends
    <3>2. PICK attempt, holds, state : state # None /\ Registers(k, kind, attempt, holds, state)
      BY <3>1
    <3> QED BY <2>1, <2>3, <3>2, RegistersKeeps
  <2>4. CASE Ends(k)
    <3>1. PICK results, exhausted : Finalizes(k, results, exhausted)
      BY <2>4 DEF Ends
    <3> QED BY <2>1, <3>1, FinalizesKeeps
  <2>5. CASE k.kind # "original" /\ DropEntry(k)
    BY <2>1, <2>5, DropEntryKeeps
  <2>6. CASE Defers(k)
    BY <1>3, <2>6 DEF Defers
  <2>7. TypeInv /\ k.file \in Files
    BY <1>4, EntryOK DEF RoundsInv
  <2> QED BY <1>4, <2>2, <2>3, <2>4, <2>5, <2>6, <2>7, ProcessActs
<1>5. \/ Leaves(k) \/ Abandons(k)
      \/ k \in DOMAIN registry /\ k.kind = "original" /\ registry[k].status \in Dead /\ FailUnreadable(k)
      \/ k \in DOMAIN registry /\ ~registry[k].collected /\ Readable(k) /\ Process(k)
  BY DEF ReadEntry, Unasked, Defers, Notes
<1>6. CASE k \in DOMAIN registry /\ k.kind = "original" /\ registry[k].status \in Dead /\ FailUnreadable(k)
  BY <1>1, <1>6, FailUnreadableKeeps
<1> QED BY <1>3, <1>4, <1>5, <1>6

-----------------------------------------------------------------------------
(* Every step *)

LEMMA NextKeeps ==
    ASSUME RoundsInv, [Next]_vars, TypeInv' PROVE NamedInv' /\ OutBounded'
<1>1. ASSUME UNCHANGED <<batches, registry, recovery, deaths>>,
             action' = "checking_batch" => action = "checking_batch" /\ todo' \subseteq todo
      PROVE  NamedInv' /\ OutBounded'
  BY <1>1, EntriesKept DEF RoundsInv, TypeInv, AroundOK, Settling
<1>2. CASE UNCHANGED vars \/ OutageBegins \/ OutageEnds
  BY <1>1, <1>2 DEF vars, OutageBegins, OutageEnds, disk, around
<1>3. CASE EndPass
  <2>1. action' # "checking_batch" /\ UNCHANGED <<disk, around>>
    BY <1>3 DEF EndPass, Stops
  <2> QED BY <1>1, <2>1 DEF disk, around
<1>4. CASE BeginRun \/ Submitted \/ \E f \in Files : submit_batch_job(f)
  BY <1>4, SubmissionKeeps
<1>5. CASE Poll
  BY <1>5, PollKeeps
<1>6. CASE Provider
  BY <1>6, ProviderKeeps
<1>7. CASE \E k \in todo : ReadEntry(k)
  BY <1>7, ReadEntryKeeps
<1> QED BY <1>2, <1>3, <1>4, <1>5, <1>6, <1>7 DEF Next, Run

\* At any time a file has one batch out that the registry names, and one more for each death
\* between the provider's taking a batch and the registry's naming it.
THEOREM RoundsAlone == Spec => []RoundsInv
<1>1. Init /\ TypeInv => RoundsInv
  <2> SUFFICES ASSUME Init, TypeInv PROVE RoundsInv
    OBVIOUS
  <2>1. DOMAIN registry = {} /\ (\A f \in Files : recovery[f] = None) /\ action = "pending"
        /\ deaths = 0 /\ Len(batches) = 0
    BY DEF Init
  <2>2. NamedInv
    BY <2>1 DEF NamedInv, EntriesTell, RoundsWait, PassAlone, PassReads
  <2>3. ASSUME NEW f \in Files PROVE Cardinality(Out(f)) = 0
    <3>1. Out(f) = {}
      BY <2>1 DEF Out
    <3> QED BY <3>1, FS_EmptySet
  <2>4. OutBounded
    BY <2>1, <2>3 DEF OutBounded
  <2> QED BY <2>2, <2>4 DEF RoundsInv
<1>2. RoundsInv /\ [Next]_vars /\ TypeInv' => RoundsInv'
  BY NextKeeps DEF RoundsInv
<1> QED BY <1>1, <1>2, RegistrySound, PTL DEF Spec

\* No record is at the provider twice, for any files, jobs and number of mishaps: retried,
\* repaired, polled by another run or taken up where a pass broke off, it goes out once the
\* batch that held it has ended; a death before the registry names a batch costs one more.
THEOREM OutOnce == Spec => []NeverOutTwice
<1>1. RoundsInv => NeverOutTwice
  <2> SUFFICES ASSUME RoundsInv, NEW f \in Files, NEW r
               PROVE  Cardinality({n \in Batches(f, r) : batches[n].status = "out"}) <= 1 + deaths
    BY DEF NeverOutTwice
  <2>1. {n \in Batches(f, r) : batches[n].status = "out"} \subseteq Out(f)
    BY DEF RoundsInv, TypeInv, DiskOK, Batches, Out
  <2>2. IsFiniteSet(Out(f)) /\ Cardinality(Out(f)) \in Nat
    BY OutFinite DEF RoundsInv
  <2>3. Cardinality({n \in Batches(f, r) : batches[n].status = "out"}) <= Cardinality(Out(f))
    BY <2>1, <2>2, FS_Subset
  <2>4. Cardinality({n \in Batches(f, r) : batches[n].status = "out"}) \in Nat
    BY <2>1, <2>2, FS_Subset, FS_CardinalityType
  <2>5. Cardinality(Out(f)) <= 1 + deaths /\ deaths \in Nat
    BY <2>2 DEF RoundsInv, OutBounded, TypeInv, AroundOK
  <2> QED BY <2>2, <2>3, <2>4, <2>5
<1> QED BY <1>1, RoundsAlone, PTL
=============================================================================
