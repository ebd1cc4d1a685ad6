-------------------------- MODULE ExecutionOrderProofs --------------------------
(***************************************************************************)
(* The order and the levels the editor extension gives the actions of a    *)
(* config file: every action is listed once, cycles and unknown names      *)
(* notwithstanding, what the engine can run after all it depends on, on    *)
(* the level it will run on; for any entries, versions and dependencies.   *)
(***************************************************************************)
EXTENDS ExecutionOrder, ListTheorems

-----------------------------------------------------------------------------
(* Sets in order *)

\* A finite set that a relation orders is listed by it: once each, in that order.
LEMMA RankedLists ==
    ASSUME NEW S, IsFiniteSet(S), NEW R,
           \A a \in S : <<a, a>> \notin R,
           \A a, b \in S : a # b => <<a, b>> \in R \/ <<b, a>> \in R,
           \A a, b, c \in S : <<a, b>> \in R /\ <<b, c>> \in R => <<a, c>> \in R
    PROVE  /\ ranked(S, R) \in Seq(S) /\ Range(ranked(S, R)) = S /\ IsInjective(ranked(S, R))
           /\ \A i, j \in DOMAIN ranked(S, R) :
                 <<ranked(S, R)[i], ranked(S, R)[j]>> \in R => i < j
<1> DEFINE n         == Cardinality(S)
           before(a) == {m \in S : <<m, a>> \in R}
           f         == [a \in S |-> Cardinality(before(a))]
           s         == ranked(S, R)
<1>1. n \in Nat
  BY FS_CardinalityType
<1>2. \A a \in S : IsFiniteSet(before(a)) /\ f[a] \in 0..n - 1
  <2> TAKE a \in S
  <2>1. before(a) \in SUBSET S /\ before(a) # S
    OBVIOUS
  <2> HIDE DEF before
  <2>2. /\ IsFiniteSet(before(a)) /\ Cardinality(before(a)) <= n
        /\ n # Cardinality(before(a))
    BY <2>1, FS_Subset
  <2>3. Cardinality(before(a)) \in Nat
    BY <2>2, FS_CardinalityType
  <2> HIDE DEF n
  <2> QED BY <1>1, <2>2, <2>3
<1>3. \A a, b \in S : <<a, b>> \in R => f[a] < f[b]
  <2> TAKE a, b \in S
  <2> HAVE <<a, b>> \in R
  <2>1. before(a) \cup {a} \in SUBSET before(b) /\ a \notin before(a)
    OBVIOUS
  <2>2. IsFiniteSet(before(a)) /\ IsFiniteSet(before(b)) /\ f[a] \in Nat /\ f[b] \in Nat
    BY <1>1, <1>2
  <2>3. f[a] = Cardinality(before(a)) /\ f[b] = Cardinality(before(b))
    OBVIOUS
  <2> HIDE DEF before, f
  <2>4. Cardinality(before(a) \cup {a}) = f[a] + 1
    BY <2>1, <2>2, <2>3, FS_AddElement
  <2>5. Cardinality(before(a) \cup {a}) <= f[b]
    BY <2>1, <2>2, <2>3, FS_Subset
  <2> QED BY <2>2, <2>4, <2>5
<1>4. \A a, b \in S : f[a] = f[b] => a = b
  <2> TAKE a, b \in S
  <2>1. f[a] \in Int /\ f[b] \in Int
    BY <1>1, <1>2
  <2> HIDE DEF f
  <2> HAVE f[a] = f[b]
  <2>2. ~(f[a] < f[b]) /\ ~(f[b] < f[a])
    BY <2>1
  <2>3. ~(<<a, b>> \in R) /\ ~(<<b, a>> \in R)
    BY <1>3, <2>2
  <2> QED BY <2>3
<1>5. f \in Injection(S, 0..n - 1)
  <2>1. f \in [S -> 0..n - 1]
    BY <1>2
  <2> HIDE DEF f
  <2> QED BY <1>4, <2>1 DEF Injection, IsInjective
<1>6. IsFiniteSet(0..n - 1) /\ Cardinality(0..n - 1) = n
  <2> HIDE DEF n
  <2>1. 0 \in Int /\ n - 1 \in Int
    BY <1>1
  <2>2. IsFiniteSet(0..n - 1) /\ Cardinality(0..n - 1) = IF 0 > n - 1 THEN 0 ELSE n - 1 - 0 + 1
    BY <2>1, FS_Interval
  <2> QED BY <1>1, <2>2
<1>7. f \in Surjection(S, 0..n - 1)
  <2> HIDE DEF f
  <2> QED BY <1>5, <1>6, FS_Injection
<1>8. \A k \in 0..n - 1 : \E a \in S : f[a] = k
  <2> HIDE DEF f
  <2> QED BY <1>7 DEF Surjection
<1>9. \A i \in 1..n : s[i] \in S /\ f[s[i]] = i - 1
  <2> TAKE i \in 1..n
  <2>1. i - 1 \in 0..n - 1
    BY <1>1
  <2>2. \E a \in S : f[a] = i - 1
    BY <1>8, <2>1
  <2>3. s[i] = CHOOSE a \in S : Cardinality(before(a)) = i - 1
    BY DEF ranked
  <2> QED BY <2>2, <2>3
<1>10. s \in [1..n -> S] /\ DOMAIN s = 1..n
  <2> DEFINE e(i) == CHOOSE a \in S : Cardinality(before(a)) = i - 1
  <2>1. s = [i \in 1..n |-> e(i)]
    BY DEF ranked
  <2>2. \A i \in 1..n : e(i) \in S
    BY <1>9, <2>1
  <2> HIDE DEF e, s, n
  <2> QED BY <2>1, <2>2
<1> HIDE DEF s, f, n, before
<1>11. s \in [1..n -> S]
  BY <1>10
<1>12. s \in Seq(S)
  BY <1>1, <1>11, SeqDef
<1>13. IsInjective(s)
  <2>1. \A i, j \in 1..n : s[i] = s[j] => i = j
    BY <1>1, <1>9
  <2> QED BY <1>10, <2>1 DEF IsInjective
<1>14. Range(s) = S
  <2>1. ASSUME NEW a \in S PROVE \E i \in DOMAIN s : s[i] = a
    <3>1. f[a] + 1 \in 1..n
      BY <1>1, <1>2
    <3>2. f[s[f[a] + 1]] = f[a] /\ s[f[a] + 1] \in S
      BY <1>2, <1>9, <3>1
    <3> QED BY <1>4, <1>10, <3>1, <3>2
  <2> QED BY <1>9, <1>10, <2>1 DEF Range
<1>15. \A i, j \in DOMAIN s : <<s[i], s[j]>> \in R => i < j
  BY <1>1, <1>3, <1>9, <1>10
<1> QED BY <1>12, <1>13, <1>14, <1>15 DEF s

\* So are the names of a file, by entry and version.
LEMMA InOrderLists ==
    ASSUME NEW S, IsFiniteSet(S), S \subseteq Nat \X Nat
    PROVE  inOrder(S) \in Seq(S) /\ Range(inOrder(S)) = S /\ IsInjective(inOrder(S))
<1> DEFINE R == {p \in S \X S : Earlier(p[1], p[2])}
<1>1. \A a, b \in S : <<a, b>> \in R <=> Earlier(a, b)
  OBVIOUS
<1>2. \A a \in S : a[1] \in Nat /\ a[2] \in Nat /\ a = <<a[1], a[2]>>
  OBVIOUS
<1> HIDE DEF R
<1>3. \A a \in S : <<a, a>> \notin R
  BY <1>1, <1>2 DEF Earlier
<1>4. \A a, b \in S : a # b => <<a, b>> \in R \/ <<b, a>> \in R
  <2> TAKE a, b \in S
  <2> HAVE a # b
  <2>1. a[1] # b[1] \/ a[2] # b[2]
    BY <1>2
  <2> QED BY <1>1, <1>2, <2>1 DEF Earlier
<1>5. \A a, b, c \in S : <<a, b>> \in R /\ <<b, c>> \in R => <<a, c>> \in R
  BY <1>1, <1>2 DEF Earlier
<1>6. ranked(S, R) \in Seq(S) /\ Range(ranked(S, R)) = S /\ IsInjective(ranked(S, R))
  BY ONLY <1>3, <1>4, <1>5, IsFiniteSet(S), RankedLists
<1> QED BY <1>6 DEF inOrder, R

-----------------------------------------------------------------------------
(* The graph of a file *)

FileOK ==
    /\ actions \subseteq Nat \X Nat /\ IsFiniteSet(actions)
    /\ DOMAIN resolved = actions /\ \A a \in actions : resolved[a] \in Seq(Nat \X Nat)
    /\ \A a, b \in actions : a[1] = b[1] => resolved[a] = resolved[b]

LEMMA VersionsFinite ==
    ASSUME NEW n \in Nat
    PROVE  IsFiniteSet(expandVersions(n)) /\ expandVersions(n) \subseteq Nat
<1>1. 0 \in Int /\ 1 \in Int /\ n \in Int
  OBVIOUS
<1>2. IsFiniteSet(1..n) /\ IsFiniteSet({0})
  BY <1>1, FS_Interval, FS_Singleton
<1> QED BY <1>2 DEF expandVersions

LEMMA EntryOf ==
    ASSUME NEW file \in Configs, NEW i \in DOMAIN file
    PROVE  /\ i \in Nat /\ file[i].versions \in Nat /\ file[i].deps \in Seq(Nat \X Nat)
           /\ IsFiniteSet(DOMAIN file)
<1>1. file \in Seq(Range(file)) /\ file[i] \in Range(file)
  BY ConfigsAssumption DEF Range
<1> DEFINE n == Len(file)
<1>2. DOMAIN file = 1..n /\ n \in Nat
  BY <1>1, LenProperties
<1> HIDE DEF n
<1>3. IsFiniteSet(1..n)
  <2>1. 1 \in Int /\ n \in Int
    BY <1>2
  <2> QED BY <2>1, FS_Interval
<1> QED BY <1>1, <1>2, <1>3, ConfigsAssumption

LEMMA PlacesOf ==
    ASSUME NEW f, IsFiniteSet(DOMAIN f), DOMAIN f \subseteq Nat,
           \A i \in DOMAIN f : IsFiniteSet(f[i]) /\ f[i] \subseteq Nat,
           NEW T, T = UNION {{i} \X f[i] : i \in DOMAIN f}
    PROVE  IsFiniteSet(T) /\ T \subseteq Nat \X Nat
           /\ \A p \in T : p[1] \in DOMAIN f /\ p[2] \in f[p[1]]
<1> DEFINE g == [i \in DOMAIN f |-> {i} \X f[i]]
<1>1. DOMAIN g = DOMAIN f /\ T = UNION {g[i] : i \in DOMAIN g}
  OBVIOUS
<1>2. \A i \in DOMAIN f : IsFiniteSet(g[i])
  <2> TAKE i \in DOMAIN f
  <2>1. IsFiniteSet({i})
    BY FS_Singleton
  <2>2. IsFiniteSet({i} \X f[i])
    BY <2>1, FS_Product
  <2> QED BY <2>2
<1> HIDE DEF g
<1>3. IsFiniteSet(T)
  BY <1>1, <1>2, FiniteUnion
<1> QED BY <1>3

LEMMA ActionsParsed ==
    ASSUME NEW file \in Configs
    PROVE  /\ IsFiniteSet(parseActions(file)) /\ parseActions(file) \subseteq Nat \X Nat
           /\ \A a \in parseActions(file) : a[1] \in DOMAIN file
<1> DEFINE f == [i \in DOMAIN file |-> expandVersions(file[i].versions)]
<1>1. \A i \in DOMAIN file : i \in Nat /\ IsFiniteSet(f[i]) /\ f[i] \subseteq Nat
  BY EntryOf, VersionsFinite
<1>2. IsFiniteSet(DOMAIN file)
  <2>1. CASE DOMAIN file = {}
    BY <2>1, FS_EmptySet
  <2>2. CASE DOMAIN file # {}
    BY <2>2, EntryOf
  <2> QED BY <2>1, <2>2
<1>3. DOMAIN f = DOMAIN file /\ parseActions(file) = UNION {{i} \X f[i] : i \in DOMAIN f}
  BY DEF parseActions
<1> HIDE DEF f
<1> QED BY <1>1, <1>2, <1>3, PlacesOf

LEMMA DependenciesResolved ==
    ASSUME NEW file \in Configs, NEW ds \in Seq(Nat \X Nat)
    PROVE  resolveDeps(file, ds) \in Seq(Nat \X Nat)
<1> DEFINE meant(d) == IF d \notin parseActions(file) /\ d[1] \in DOMAIN file /\ d[2] = 0
                       THEN expandVersions(file[d[1]].versions) ELSE {d[2]}
           f        == [j \in DOMAIN ds |-> meant(ds[j])]
           T        == UNION {{j} \X f[j] : j \in DOMAIN f}
           all      == inOrder(T)
           result   == [k \in DOMAIN all |-> <<ds[all[k][1]][1], all[k][2]>>]
<1>1. resolveDeps(file, ds) = result
  <2>1. UNION {{j} \X meant(ds[j]) : j \in DOMAIN ds} = T
    OBVIOUS
  <2> QED BY <2>1 DEF resolveDeps
<1>2. DOMAIN ds = 1..Len(ds) /\ Len(ds) \in Nat /\ \A j \in DOMAIN ds : ds[j] \in Nat \X Nat
  BY LenProperties, ElementOfSeq
<1>3. \A j \in DOMAIN ds : IsFiniteSet(f[j]) /\ f[j] \subseteq Nat
  <2> TAKE j \in DOMAIN ds
  <2>1. ds[j] \in Nat \X Nat
    BY <1>2
  <2>2. CASE ds[j] \notin parseActions(file) /\ ds[j][1] \in DOMAIN file /\ ds[j][2] = 0
    <3>1. file[ds[j][1]].versions \in Nat
      BY <2>2, EntryOf
    <3>2. f[j] = expandVersions(file[ds[j][1]].versions)
      BY <2>2
    <3> HIDE DEF f
    <3> QED BY <3>1, <3>2, VersionsFinite
  <2>3. CASE ~(ds[j] \notin parseActions(file) /\ ds[j][1] \in DOMAIN file /\ ds[j][2] = 0)
    <3>1. f[j] = {ds[j][2]} /\ ds[j][2] \in Nat
      BY <2>1, <2>3
    <3> HIDE DEF f
    <3> QED BY <3>1, FS_Singleton
  <2> QED BY <2>2, <2>3
<1>4. IsFiniteSet(DOMAIN ds) /\ DOMAIN ds \subseteq Nat /\ DOMAIN f = DOMAIN ds
  <2> DEFINE n == Len(ds)
  <2>1. n \in Nat /\ 1 \in Int /\ n \in Int /\ DOMAIN ds = 1..n
    BY <1>2
  <2> HIDE DEF n
  <2>2. IsFiniteSet(1..n)
    BY <2>1, FS_Interval
  <2> QED BY <2>1, <2>2
<1> HIDE DEF f
<1>5. /\ IsFiniteSet(T) /\ T \subseteq Nat \X Nat
      /\ \A p \in T : p[1] \in DOMAIN f /\ p[2] \in f[p[1]]
  BY <1>3, <1>4, PlacesOf
<1> HIDE DEF T
<1>6. all \in Seq(T)
  BY <1>5, InOrderLists
<1>7. DOMAIN all = 1..Len(all) /\ Len(all) \in Nat /\ \A k \in DOMAIN all : all[k] \in T
  BY <1>6, LenProperties, ElementOfSeq
<1> HIDE DEF all
<1>8. \A k \in DOMAIN all : <<ds[all[k][1]][1], all[k][2]>> \in Nat \X Nat
  <2> TAKE k \in DOMAIN all
  <2>1. all[k] \in T
    BY <1>7
  <2>2. all[k][1] \in DOMAIN ds /\ all[k][2] \in Nat
    BY <1>4, <1>5, <2>1
  <2>3. ds[all[k][1]][1] \in Nat
    BY <1>2, <2>2
  <2> QED BY <2>2, <2>3
<1>9. result \in [1..Len(all) -> Nat \X Nat]
  BY <1>7, <1>8
<1> HIDE DEF result
<1>10. result \in Seq(Nat \X Nat)
  BY <1>7, <1>9, SeqDef
<1> QED BY <1>1, <1>10

LEMMA FileOpened ==
    ASSUME NEW file \in Configs, Opened(file)
    PROVE  FileOK
<1>1. /\ actions = parseActions(file)
      /\ resolved = [a \in actions |-> resolveDeps(file, file[a[1]].deps)]
  BY DEF Opened
<1>2. /\ IsFiniteSet(actions) /\ actions \subseteq Nat \X Nat
      /\ \A a \in actions : a[1] \in DOMAIN file
  BY <1>1, ActionsParsed
<1>3. \A a \in actions : resolved[a] \in Seq(Nat \X Nat)
  <2> TAKE a \in actions
  <2>1. file[a[1]].deps \in Seq(Nat \X Nat)
    BY <1>2, EntryOf
  <2>2. resolveDeps(file, file[a[1]].deps) \in Seq(Nat \X Nat)
    BY <2>1, DependenciesResolved
  <2> QED BY <1>1, <2>2
<1>4. \A a, b \in actions : a[1] = b[1] => resolved[a] = resolved[b]
  BY <1>1
<1> QED BY <1>1, <1>2, <1>3, <1>4 DEF FileOK

\* What the algorithms walk through.
LEMMA GraphOf ==
    ASSUME FileOK
    PROVE  /\ IsFiniteSet(Nodes) /\ Nodes \subseteq Nat \X Nat /\ actions \subseteq Nodes
           /\ \A n \in Nodes : depsOf(n) \in Seq(Nodes) /\ Range(depsOf(n)) \subseteq Nodes
           /\ \A n \in Nodes : n \notin actions => depsOf(n) = <<>>
           /\ \A n, d : Reads(n, d) => n \in actions
<1> DEFINE f == [a \in actions |-> Range(resolved[a])]
<1>1. Nodes = actions \cup UNION {f[a] : a \in DOMAIN f} /\ DOMAIN f = actions
  BY DEF Nodes
<1>2. \A a \in actions : IsFiniteSet(f[a]) /\ f[a] \subseteq Nat \X Nat /\ f[a] \subseteq Nodes
  <2> TAKE a \in actions
  <2>1. resolved[a] \in Seq(Nat \X Nat)
    BY DEF FileOK
  <2>2. IsFiniteSet(Range(resolved[a])) /\ Range(resolved[a]) \subseteq Nat \X Nat
    BY <2>1, RangeCounted, RangeOfSeq
  <2> QED BY <2>2 DEF Nodes
<1> HIDE DEF f
<1>3. IsFiniteSet(Nodes)
  <2> DEFINE U == UNION {f[a] : a \in DOMAIN f}
  <2>1. IsFiniteSet(DOMAIN f) /\ \A a \in DOMAIN f : IsFiniteSet(f[a])
    BY <1>1, <1>2 DEF FileOK
  <2>2. IsFiniteSet(U)
    BY <2>1, FiniteUnion
  <2>3. IsFiniteSet(actions) /\ Nodes = actions \cup U
    BY <1>1 DEF FileOK
  <2> HIDE DEF U
  <2> QED BY <2>2, <2>3, FS_Union
<1>4. Nodes \subseteq Nat \X Nat /\ actions \subseteq Nodes
  BY <1>1, <1>2 DEF FileOK
<1>5. \A n \in Nodes : depsOf(n) \in Seq(Nodes) /\ Range(depsOf(n)) \subseteq Nodes
  <2> TAKE n \in Nodes
  <2>1. CASE n \in actions
    <3>1. depsOf(n) = resolved[n] /\ resolved[n] \in Seq(Nat \X Nat)
      BY <2>1 DEF depsOf, FileOK
    <3>2. Range(resolved[n]) \subseteq Nodes
      BY <2>1, <1>2 DEF f
    <3>3. resolved[n] \in Seq(Range(resolved[n]))
      BY <3>1, SeqOfRange
    <3> QED BY <3>1, <3>2, <3>3, SeqMonotonic
  <2>2. CASE n \notin actions
    <3>1. depsOf(n) = <<>>
      BY <2>2 DEF depsOf
    <3> QED BY <3>1 DEF Range
  <2> QED BY <2>1, <2>2
<1>6. \A n : n \notin actions => depsOf(n) = <<>>
  BY DEF depsOf
<1>7. \A n, d : Reads(n, d) => n \in actions
  <2> SUFFICES ASSUME NEW n, NEW d, Reads(n, d), n \notin actions PROVE FALSE
    OBVIOUS
  <2>1. d \in Range(<<>>)
    BY <1>6 DEF Reads
  <2> QED BY <2>1 DEF Range
<1> QED BY <1>3, <1>4, <1>5, <1>6, <1>7

-----------------------------------------------------------------------------
(* The order *)

\* What waits and what is listed are different names, each there once.
QueueOK ==
    /\ queue \in Seq(Nodes) /\ ordered \in Seq(Nodes) /\ IsInjective(queue) /\ IsInjective(ordered)
    /\ Range(queue) \cap Range(ordered) = {} /\ sorted \in BOOLEAN

\* A name has as many dependencies to wait for as are not listed, and waits or is listed
\* when there are none.
Counted(n) ==
    /\ inDegree[n] \in Nat
    /\ inDegree[n] + Cardinality(Range(depsOf(n)) \cap Range(ordered)) = Len(depsOf(n))
    /\ inDegree[n] = 0 <=> n \in Range(queue) \cup Range(ordered)

CountsOK == inDegree \in [Nodes -> Nat] /\ (~sorted => \A n \in Nodes : Counted(n))

\* What is listed comes after all it depends on, but for what a cycle kept out.
FollowsAt(i) == \A d \in Range(depsOf(ordered[i])) :
    \E j \in DOMAIN ordered : ordered[j] = d /\ j < i
FollowsOK ==
    (sorted /\ (Circular \/ ~NoneTwice)) \/ (\A i \in DOMAIN ordered : FollowsAt(i))

ListedOK == sorted => queue = <<>> /\ actions \subseteq Range(ordered)

KahnInv == FileOK /\ QueueOK /\ CountsOK /\ FollowsOK /\ ListedOK

\* A name with no more to wait for has all its dependencies listed.
LEMMA AllListed ==
    ASSUME FileOK, NEW n \in Nodes, Counted(n), inDegree[n] = 0
    PROVE  Range(depsOf(n)) \subseteq Range(ordered)
<1> DEFINE S == Range(depsOf(n))  T == Range(ordered)  k == Len(depsOf(n))
<1>1. depsOf(n) \in Seq(Nodes)
  BY GraphOf
<1>2. IsFiniteSet(S) /\ Cardinality(S) <= k /\ Cardinality(S) \in Nat /\ k \in Nat
  BY <1>1, RangeCounted, LenProperties
<1>3. inDegree[n] + Cardinality(S \cap T) = k /\ inDegree[n] = 0
  BY DEF Counted
<1> HIDE DEF S, T, k
<1>4. S \cap T \in SUBSET S
  OBVIOUS
<1>5. /\ IsFiniteSet(S \cap T) /\ Cardinality(S \cap T) <= Cardinality(S)
      /\ Cardinality(S) = Cardinality(S \cap T) => S = S \cap T
  BY <1>2, <1>4, FS_Subset
<1>6. Cardinality(S \cap T) \in Nat
  BY <1>5, FS_CardinalityType
<1>7. Cardinality(S) = Cardinality(S \cap T)
  BY <1>2, <1>3, <1>5, <1>6
<1> QED BY <1>5, <1>7 DEF S, T

\* The names that are no action, in the order they are met.
LEMMA OthersListed ==
    ASSUME FileOK, NEW S, S = Nodes \ actions,
           NEW s, s = ranked(S, {p \in Nodes \X Nodes : MetBefore(p[1], p[2])})
    PROVE  s \in Seq(S) /\ Range(s) = S /\ IsInjective(s)
<1> DEFINE R        == {p \in Nodes \X Nodes : MetBefore(p[1], p[2])}
           f        == [a \in actions |-> {a} \X DOMAIN resolved[a]]
           P        == UNION {f[a] : a \in DOMAIN f}
           at(p)    == resolved[p[1]][p[2]]
           lt(p, q) == Earlier(p[1], q[1]) \/ (p[1] = q[1] /\ p[2] < q[2])
           L        == {x \in P \X P : lt(x[1], x[2])}
<1>1. IsFiniteSet(Nodes) /\ S \in SUBSET Nodes
  BY GraphOf
<1>2. /\ actions \subseteq Nat \X Nat /\ IsFiniteSet(actions)
      /\ \A a \in actions : IsFiniteSet(DOMAIN resolved[a]) /\ DOMAIN resolved[a] \subseteq Nat
  <2> SUFFICES ASSUME NEW a \in actions
               PROVE  IsFiniteSet(DOMAIN resolved[a]) /\ DOMAIN resolved[a] \subseteq Nat
    BY DEF FileOK
  <2> DEFINE n == Len(resolved[a])
  <2>1. n \in Nat /\ 1 \in Int /\ n \in Int /\ DOMAIN resolved[a] = 1..n
    BY LenProperties DEF FileOK
  <2> HIDE DEF n
  <2>2. IsFiniteSet(1..n)
    BY <2>1, FS_Interval
  <2> QED BY <2>1, <2>2
<1>3. IsFiniteSet(P)
  <2>1. ASSUME NEW a \in actions PROVE IsFiniteSet(f[a])
    <3>1. IsFiniteSet({a})
      BY FS_Singleton
    <3>2. IsFiniteSet({a} \X DOMAIN resolved[a])
      BY <1>2, <3>1, FS_Product
    <3> QED BY <3>2
  <2>2. DOMAIN f = actions
    OBVIOUS
  <2> HIDE DEF f
  <2> QED BY <1>2, <2>1, <2>2, FiniteUnion
<1>4. \A a \in actions : \A i \in DOMAIN resolved[a] : <<a, i>> \in P /\ at(<<a, i>>) = resolved[a][i]
  OBVIOUS
<1>5. \A p \in P : /\ p[1] \in actions /\ p[2] \in DOMAIN resolved[p[1]] /\ p = <<p[1], p[2]>>
                   /\ p[1] \in Nat \X Nat /\ p[2] \in Nat
  BY <1>2
<1>6. \A p, q \in P : <<p, q>> \in L <=> lt(p, q)
  OBVIOUS
<1>7. \A m, n \in Nodes : <<m, n>> \in R <=>
        \E p \in P : at(p) = m /\ \A q \in P : at(q) = n => lt(p, q)
  <2> TAKE m, n \in Nodes
  <2>1. <<m, n>> \in R <=> MetBefore(m, n)
    OBVIOUS
  <2>2. ASSUME NEW p \in P, at(p) = m, \A q \in P : at(q) = n => lt(p, q) PROVE MetBefore(m, n)
    <3>1. ASSUME NEW b \in actions, NEW j \in DOMAIN resolved[b], resolved[b][j] = n
          PROVE  Earlier(p[1], b) \/ (p[1] = b /\ p[2] < j)
      <4>1. <<b, j>> \in P /\ at(<<b, j>>) = n
        BY <1>4, <3>1
      <4>2. lt(p, <<b, j>>)
        BY <2>2, <4>1
      <4> QED BY <4>2
    <3> QED BY <1>5, <2>2, <3>1 DEF MetBefore
  <2>3. ASSUME MetBefore(m, n)
        PROVE  \E p \in P : at(p) = m /\ \A q \in P : at(q) = n => lt(p, q)
    <3>0. PICK a \in actions : \E i \in DOMAIN resolved[a] :
            /\ resolved[a][i] = m
            /\ \A b \in actions : \A j \in DOMAIN resolved[b] :
                  resolved[b][j] = n => Earlier(a, b) \/ (a = b /\ i < j)
      BY <2>3 DEF MetBefore
    <3>1. PICK i \in DOMAIN resolved[a] :
            /\ resolved[a][i] = m
            /\ \A b \in actions : \A j \in DOMAIN resolved[b] :
                  resolved[b][j] = n => Earlier(a, b) \/ (a = b /\ i < j)
      BY <3>0
    <3>2. <<a, i>> \in P /\ at(<<a, i>>) = m
      BY <1>4, <3>1
    <3>3. \A q \in P : at(q) = n => lt(<<a, i>>, q)
      BY <1>5, <3>1
    <3> QED BY <3>2, <3>3
  <2> HIDE DEF R, P, at, lt
  <2> QED BY <2>1, <2>2, <2>3
<1>8. /\ \A p \in P : ~lt(p, p)
      /\ \A p, q \in P : p # q => lt(p, q) \/ lt(q, p)
      /\ \A p, q, r \in P : lt(p, q) /\ lt(q, r) => lt(p, r)
  <2>1. \A p \in P : p[1][1] \in Nat /\ p[1][2] \in Nat /\ p[1] = <<p[1][1], p[1][2]>>
    BY <1>5
  <2> HIDE DEF P
  <2>2. \A p \in P : ~lt(p, p)
    BY <1>5, <2>1 DEF Earlier
  <2>3. ASSUME NEW p \in P, NEW q \in P, p # q PROVE lt(p, q) \/ lt(q, p)
    <3>1. p[1][1] # q[1][1] \/ p[1][2] # q[1][2] \/ p[2] # q[2]
      BY <1>5, <2>1, <2>3
    <3> QED BY <1>5, <2>1, <3>1 DEF Earlier
  <2>4. \A p, q, r \in P : lt(p, q) /\ lt(q, r) => lt(p, r)
    BY <1>5, <2>1 DEF Earlier
  <2> QED BY <2>2, <2>3, <2>4
<1>9. \A n \in S : \E p \in P : at(p) = n
  <2> TAKE n \in S
  <2>1. PICK a \in actions : n \in Range(resolved[a])
    BY DEF Nodes
  <2>2. PICK i \in DOMAIN resolved[a] : resolved[a][i] = n
    BY <2>1 DEF Range
  <2>3. <<a, i>> \in P /\ at(<<a, i>>) = n
    BY <1>4, <2>2
  <2> QED BY <2>3
<1> HIDE DEF P, L, at, lt, R
<1>10. \A n \in S : <<n, n>> \notin R
  BY <1>1, <1>7, <1>8
<1>11. \A m, n, k \in S : <<m, n>> \in R /\ <<n, k>> \in R => <<m, k>> \in R
  <2> SUFFICES ASSUME NEW m \in S, NEW n \in S, NEW k \in S, <<m, n>> \in R, <<n, k>> \in R
               PROVE  <<m, k>> \in R
    OBVIOUS
  <2>1. PICK p \in P : at(p) = m /\ \A q \in P : at(q) = n => lt(p, q)
    BY <1>1, <1>7
  <2>2. PICK q \in P : at(q) = n /\ \A r \in P : at(r) = k => lt(q, r)
    BY <1>1, <1>7
  <2>3. \A r \in P : at(r) = k => lt(p, r)
    BY <1>8, <2>1, <2>2
  <2> QED BY <1>1, <1>7, <2>1, <2>3
<1>12. \A m, n \in S : m # n => <<m, n>> \in R \/ <<n, m>> \in R
  <2> SUFFICES ASSUME NEW m \in S, NEW n \in S, m # n PROVE <<m, n>> \in R \/ <<n, m>> \in R
    OBVIOUS
  <2> DEFINE T == {p \in P : at(p) = m \/ at(p) = n}
  <2>1. T \in SUBSET P /\ T # {}
    BY <1>9
  <2>2. IsFiniteSet(T)
    BY <1>3, <2>1, FS_Subset
  <2>3. \A p \in T : p \in P /\ (at(p) = m \/ at(p) = n)
    OBVIOUS
  <2>4. \A p \in P : at(p) = m \/ at(p) = n => p \in T
    OBVIOUS
  <2> HIDE DEF T
  <2>5. PICK x \in T : \A y \in T \ {x} : <<x, y>> \in L
    <3>1. \A p, q \in T : p # q => <<p, q>> \in L \/ <<q, p>> \in L
      BY <1>6, <1>8, <2>3
    <3>2. \A p, q, r \in T : <<p, q>> \in L /\ <<q, r>> \in L => <<p, r>> \in L
      BY <1>6, <1>8, <2>3
    <3>3. T # {}
      BY <2>1
    <3> QED BY ONLY <2>2, <3>1, <3>2, <3>3, FiniteLeast
  <2>6. \A y \in P : (at(y) = m \/ at(y) = n) /\ y # x => lt(x, y)
    BY <1>6, <2>3, <2>4, <2>5
  <2>7. CASE at(x) = m
    BY <1>1, <1>7, <2>3, <2>6, <2>7
  <2>8. CASE at(x) = n
    BY <1>1, <1>7, <2>3, <2>6, <2>8
  <2> QED BY <2>3, <2>7, <2>8
<1>13. IsFiniteSet(S) /\ s = ranked(S, R)
  BY <1>1, FS_Subset DEF R
<1>14. ranked(S, R) \in Seq(S) /\ Range(ranked(S, R)) = S /\ IsInjective(ranked(S, R))
  BY ONLY <1>10, <1>11, <1>12, <1>13, RankedLists
<1> QED BY <1>13, <1>14

LEMMA OrderStarts ==
    ASSUME FileOK, Starts
    PROVE  QueueOK /\ CountsOK /\ FollowsOK /\ ListedOK
<1> DEFINE none  == {a \in actions : inDegree[a] = 0}
           other == Nodes \ actions
           met   == ranked(other, {p \in Nodes \X Nodes : MetBefore(p[1], p[2])})
<1>1. /\ inDegree = [n \in Nodes |-> Len(depsOf(n))] /\ queue = inOrder(none) \o met
      /\ ordered = <<>> /\ sorted = FALSE
  BY DEF Starts
<1>2. /\ IsFiniteSet(Nodes) /\ Nodes \subseteq Nat \X Nat /\ actions \subseteq Nodes
      /\ \A n \in Nodes : depsOf(n) \in Seq(Nodes)
      /\ \A n \in Nodes : n \notin actions => depsOf(n) = <<>>
  BY GraphOf
<1>3. none \in SUBSET Nodes /\ other \in SUBSET Nodes /\ none \cap other = {}
  BY <1>2
<1>4. \A n \in Nodes : /\ inDegree[n] = Len(depsOf(n)) /\ Len(depsOf(n)) \in Nat
                       /\ n \notin actions => inDegree[n] = 0
  BY <1>1, <1>2, LenProperties
<1>5. none \cup other = {n \in Nodes : inDegree[n] = 0}
  BY <1>2, <1>4
<1>0. met \in Seq(other) /\ Range(met) = other /\ IsInjective(met)
  BY OthersListed
<1> HIDE DEF none, other, met
<1>6. IsFiniteSet(none) /\ none \subseteq Nat \X Nat
  BY <1>2, <1>3, FS_Subset
<1>7. /\ inOrder(none) \in Seq(none) /\ Range(inOrder(none)) = none /\ IsInjective(inOrder(none))
      /\ met \in Seq(other) /\ Range(met) = other /\ IsInjective(met)
  BY <1>0, <1>6, InOrderLists
<1>8. inOrder(none) \in Seq(Nodes) /\ met \in Seq(Nodes)
  BY <1>3, <1>7, SeqMonotonic
<1>9. queue \in Seq(Nodes) /\ IsInjective(queue) /\ Range(queue) = none \cup other
  BY ONLY <1>1, <1>3, <1>7, <1>8, Joined
<1>10. ordered \in Seq(Nodes) /\ DOMAIN ordered = {} /\ Range(ordered) = {} /\ IsInjective(ordered)
  BY <1>1 DEF Range, IsInjective
<1>11. QueueOK
  BY <1>1, <1>9, <1>10 DEF QueueOK
<1>12. CountsOK
  <2>0. inDegree \in [Nodes -> Nat]
    BY <1>1, <1>4
  <2> SUFFICES ASSUME NEW n \in Nodes PROVE Counted(n)
    BY <2>0 DEF CountsOK
  <2>1. Range(depsOf(n)) \cap Range(ordered) = {}
    BY <1>10
  <2>2. Cardinality({}) = 0
    BY FS_EmptySet
  <2>3. inDegree[n] = 0 <=> n \in Range(queue) \cup Range(ordered)
    BY <1>5, <1>9, <1>10
  <2>4. Cardinality(Range(depsOf(n)) \cap Range(ordered)) = 0
    BY <2>1, <2>2
  <2>5. inDegree[n] + Cardinality(Range(depsOf(n)) \cap Range(ordered)) = Len(depsOf(n))
    BY <1>4, <2>4
  <2> QED BY <1>4, <2>3, <2>5 DEF Counted
<1>13. FollowsOK /\ ListedOK
  BY <1>1, <1>10 DEF FollowsOK, ListedOK
<1> QED BY <1>11, <1>12, <1>13

\* What depends on the graph alone stays.
LEMMA GraphStays ==
    ASSUME UNCHANGED <<actions, resolved>>
    PROVE  /\ Nodes' = Nodes /\ Circular' = Circular /\ NoneTwice' = NoneTwice
           /\ FileOK' = FileOK /\ \A n : depsOf(n)' = depsOf(n)
<1>1. actions' = actions /\ resolved' = resolved
  OBVIOUS
<1>2. Nodes' = Nodes
  BY <1>1 DEF Nodes
<1>3. Circular' = Circular
  BY <1>1 DEF Circular, direct
<1>4. NoneTwice' = NoneTwice
  BY <1>1 DEF NoneTwice
<1>5. FileOK' = FileOK
  BY <1>1 DEF FileOK
<1>6. \A n : depsOf(n)' = depsOf(n)
  BY <1>1 DEF depsOf
<1> QED BY <1>2, <1>3, <1>4, <1>5, <1>6

\* One turn of the loop lists a name all of whose dependencies are listed.
LEMMA Taken ==
    ASSUME KahnInv, ~sorted, Take
    PROVE  KahnInv'
<1> DEFINE h    == Head(queue)
           more == {a \in actions : Readies(a, inDegree'[a])}
<1>1. /\ queue # <<>> /\ ordered' = Append(ordered, h)
      /\ inDegree' = [n \in Nodes |-> IF Reads(n, h) THEN inDegree[n] - 1 ELSE inDegree[n]]
      /\ queue' = Tail(queue) \o inOrder(more) /\ sorted' = sorted
      /\ UNCHANGED <<actions, resolved>>
  BY DEF Take
<1>2. /\ Nodes' = Nodes /\ Circular' = Circular /\ NoneTwice' = NoneTwice
      /\ FileOK' /\ \A n : depsOf(n)' = depsOf(n)
  <2>1. UNCHANGED <<actions, resolved>>
    BY <1>1
  <2> QED BY ONLY <2>1, KahnInv, GraphStays DEF KahnInv
<1>3. /\ queue \in Seq(Nodes) /\ ordered \in Seq(Nodes)
      /\ IsInjective(queue) /\ IsInjective(ordered) /\ Range(queue) \cap Range(ordered) = {}
      /\ sorted \in BOOLEAN /\ FileOK
  BY DEF KahnInv, QueueOK
<1>4. \A n \in Nodes : Counted(n)
  BY DEF KahnInv, CountsOK
<1>5. /\ Tail(queue) \in Seq(Nodes) /\ IsInjective(Tail(queue)) /\ h \in Range(queue)
      /\ Range(Tail(queue)) = Range(queue) \ {h}
  BY ONLY <1>1, <1>3, Shifted
<1>6. /\ IsFiniteSet(Nodes) /\ Nodes \subseteq Nat \X Nat /\ actions \subseteq Nodes
      /\ \A n \in Nodes : depsOf(n) \in Seq(Nodes)
      /\ \A n, d : Reads(n, d) => n \in actions
  BY <1>3, GraphOf
<1>7. h \in Nodes /\ h \notin Range(ordered) /\ Range(queue) \subseteq Nodes
  BY <1>3, <1>5, RangeOfSeq
<1>8. \A n \in Nodes : Reads(n, h) => inDegree[n] \in Nat \ {0}
  <2> TAKE n \in Nodes
  <2> HAVE Reads(n, h)
  <2>1. inDegree[n] # 0
    BY <1>3, <1>4, <1>7, AllListed DEF Reads
  <2> QED BY <1>4, <2>1 DEF Counted
<1>9. more = {a \in Nodes : Reads(a, h) /\ inDegree'[a] = 0}
  BY <1>6 DEF Readies
<1> HIDE DEF h, more
<1>10. more \cap (Range(queue) \cup Range(ordered)) = {}
  BY <1>4, <1>8, <1>9 DEF Counted
<1>11. inOrder(more) \in Seq(Nodes) /\ Range(inOrder(more)) = more /\ IsInjective(inOrder(more))
  <2>1. more \in SUBSET Nodes /\ more \subseteq Nat \X Nat
    BY <1>6, <1>9
  <2>2. IsFiniteSet(more)
    BY <1>6, <2>1, FS_Subset
  <2>3. inOrder(more) \in Seq(more) /\ Range(inOrder(more)) = more /\ IsInjective(inOrder(more))
    BY <2>1, <2>2, InOrderLists
  <2> QED BY <2>1, <2>3, SeqMonotonic
<1>12. queue' \in Seq(Nodes) /\ IsInjective(queue') /\ Range(queue') = (Range(queue) \ {h}) \cup more
  <2>1. Range(Tail(queue)) \cap Range(inOrder(more)) = {}
    BY <1>5, <1>10, <1>11
  <2> QED BY ONLY <1>1, <1>5, <1>11, <2>1, Joined
<1>13. /\ ordered' = ordered \o <<h>> /\ <<h>> \in Seq(Nodes) /\ Range(<<h>>) = {h}
       /\ IsInjective(<<h>>)
  <2>1. <<h>> \in Seq(Nodes) /\ DOMAIN <<h>> = {1} /\ <<h>>[1] = h
    BY <1>7
  <2>2. ordered' = ordered \o <<h>>
    BY <1>1, <1>3, <1>7, AppendIsConcat
  <2> QED BY <2>1, <2>2 DEF Range, IsInjective
<1>14. /\ ordered' \in Seq(Nodes) /\ IsInjective(ordered') /\ Range(ordered') = Range(ordered) \cup {h}
       /\ DOMAIN ordered \subseteq DOMAIN ordered' /\ \A i \in DOMAIN ordered : ordered'[i] = ordered[i]
       /\ \A i \in DOMAIN ordered' : i \notin DOMAIN ordered =>
             ordered'[i] = h /\ \A j \in DOMAIN ordered : j < i
  <2>1. Range(ordered) \cap Range(<<h>>) = {}
    BY <1>7, <1>13
  <2>2. /\ ordered \o <<h>> \in Seq(Nodes) /\ IsInjective(ordered \o <<h>>)
        /\ Range(ordered \o <<h>>) = Range(ordered) \cup {h}
        /\ DOMAIN ordered \subseteq DOMAIN (ordered \o <<h>>)
        /\ \A i \in DOMAIN ordered : (ordered \o <<h>>)[i] = ordered[i]
        /\ \A i \in DOMAIN (ordered \o <<h>>) : i \notin DOMAIN ordered =>
              (ordered \o <<h>>)[i] \in {h} /\ \A j \in DOMAIN ordered : j < i
    BY ONLY <1>3, <1>13, <2>1, Joined
  <2> QED BY <1>13, <2>2
<1>15. Range(queue') \cap Range(ordered') = {}
  BY <1>3, <1>5, <1>7, <1>10, <1>12, <1>14
<1>16. QueueOK'
  BY <1>1, <1>2, <1>3, <1>12, <1>14, <1>15 DEF QueueOK
<1>17. ASSUME NEW n \in Nodes PROVE Counted(n)'
  <2> DEFINE S == Range(depsOf(n))
  <2>1. IsFiniteSet(S)
    BY <1>6, RangeCounted
  <2>2. /\ inDegree[n] \in Nat /\ inDegree[n] + Cardinality(S \cap Range(ordered)) = Len(depsOf(n))
        /\ inDegree[n] = 0 <=> n \in Range(queue) \cup Range(ordered)
    BY <1>4 DEF Counted
  <2>3. IsFiniteSet(S \cap Range(ordered)) /\ Cardinality(S \cap Range(ordered)) \in Nat
    BY <2>1, FS_Intersection, FS_CardinalityType
  <2>4. Reads(n, h) <=> h \in S
    BY DEF Reads
  <2>5. Range(depsOf(n))' = S /\ Len(depsOf(n))' = Len(depsOf(n))
    BY <1>2
  <2> HIDE DEF S
  <2>6. CASE Reads(n, h)
    <3>1. S \cap Range(ordered') = (S \cap Range(ordered)) \cup {h} /\ h \notin S \cap Range(ordered)
      BY <1>7, <1>14, <2>4, <2>6
    <3>2. Cardinality(S \cap Range(ordered')) = Cardinality(S \cap Range(ordered)) + 1
      BY <2>3, <3>1, FS_AddElement
    <3>3. inDegree[n] \in Nat \ {0} /\ inDegree'[n] = inDegree[n] - 1
      BY <1>1, <1>8, <2>6
    <3>4. inDegree'[n] \in Nat
      BY <3>3
    <3>5. inDegree'[n] + Cardinality(S \cap Range(ordered')) = Len(depsOf(n))
      BY <2>2, <2>3, <3>2, <3>3
    <3>6. inDegree'[n] = 0 <=> n \in Range(queue') \cup Range(ordered')
      <4>1. n \in more <=> inDegree'[n] = 0
        BY <1>9, <2>6
      <4>2. n \notin Range(queue) \cup Range(ordered) /\ n # h
        BY <1>5, <2>2, <3>3
      <4> QED BY <1>12, <1>14, <4>1, <4>2
    <3> QED BY <2>5, <3>4, <3>5, <3>6 DEF Counted
  <2>7. CASE ~Reads(n, h)
    <3>1. S \cap Range(ordered') = S \cap Range(ordered)
      BY <1>14, <2>4, <2>7
    <3>2. inDegree'[n] = inDegree[n] /\ n \notin more
      BY <1>1, <1>9, <2>7
    <3>3. inDegree'[n] = 0 <=> n \in Range(queue') \cup Range(ordered')
      BY <1>5, <1>12, <1>14, <2>2, <3>2
    <3> QED BY <2>2, <2>5, <3>1, <3>2, <3>3 DEF Counted
  <2> QED BY <2>6, <2>7
<1>18. CountsOK'
  <2>1. \A n \in Nodes : inDegree'[n] \in Nat
    BY <1>17 DEF Counted
  <2>2. inDegree' \in [Nodes -> Nat]
    BY <1>1, <2>1
  <2> QED BY <1>2, <1>17, <2>2 DEF CountsOK
<1>19. FollowsOK'
  <2>1. \A i \in DOMAIN ordered : FollowsAt(i)
    BY DEF KahnInv, FollowsOK
  <2> SUFFICES ASSUME NEW i \in DOMAIN ordered', NEW d \in Range(depsOf(ordered'[i]))
               PROVE  \E j \in DOMAIN ordered' : ordered'[j] = d /\ j < i
    BY <1>2 DEF FollowsOK, FollowsAt
  <2>2. CASE i \in DOMAIN ordered
    <3>1. ordered'[i] = ordered[i]
      BY <1>14, <2>2
    <3>2. PICK j \in DOMAIN ordered : ordered[j] = d /\ j < i
      BY <2>1, <2>2, <3>1 DEF FollowsAt
    <3> QED BY <1>14, <3>2
  <2>3. CASE i \notin DOMAIN ordered
    <3>1. ordered'[i] = h /\ \A j \in DOMAIN ordered : j < i
      BY <1>14, <2>3
    <3>2. Range(depsOf(h)) \subseteq Range(ordered)
      <4>1. Counted(h) /\ inDegree[h] = 0
        BY <1>4, <1>5, <1>7 DEF Counted
      <4> QED BY <1>3, <1>7, <4>1, AllListed
    <3>3. PICK j \in DOMAIN ordered : ordered[j] = d
      BY <3>1, <3>2 DEF Range
    <3> QED BY <1>14, <3>1, <3>3
  <2> QED BY <2>2, <2>3
<1>20. ListedOK'
  BY <1>1 DEF ListedOK
<1> QED BY <1>2, <1>16, <1>18, <1>19, <1>20 DEF KahnInv

\* Where the queue ran out with no cycle, nothing is left.
LEMMA NoneLeft ==
    ASSUME KahnInv, ~sorted, queue = <<>>, ~Circular, NoneTwice
    PROVE  actions \subseteq Range(ordered)
<1> DEFINE rest == actions \ Range(ordered)
<1>1. /\ IsFiniteSet(Nodes) /\ actions \subseteq Nodes
      /\ \A n \in Nodes : depsOf(n) \in Seq(Nodes) /\ Range(depsOf(n)) \subseteq Nodes
      /\ \A n \in Nodes : n \notin actions => depsOf(n) = <<>>
  BY GraphOf DEF KahnInv
<1>2. \A n \in Nodes : Counted(n)
  BY DEF KahnInv, CountsOK
<1>3. Range(queue) = {} /\ Range(<<>>) = {}
  BY DEF Range
<1>4. ASSUME NEW n \in Nodes, n \notin Range(ordered)
      PROVE  ~(Cardinality(Range(depsOf(n)) \cap Range(ordered)) = Len(depsOf(n)))
  <2>1. inDegree[n] \in Nat /\ inDegree[n] # 0
    BY <1>2, <1>3, <1>4 DEF Counted
  <2>2. inDegree[n] + Cardinality(Range(depsOf(n)) \cap Range(ordered)) = Len(depsOf(n))
    BY <1>2, <1>4 DEF Counted
  <2>3. Cardinality(Range(depsOf(n)) \cap Range(ordered)) \in Nat
    <3>1. IsFiniteSet(Range(depsOf(n)))
      BY <1>1, RangeCounted
    <3> QED BY <3>1, FS_Intersection, FS_CardinalityType
  <2>4. Len(depsOf(n)) \in Nat
    BY <1>1, LenProperties
  <2> DEFINE c == Cardinality(Range(depsOf(n)) \cap Range(ordered))  k == Len(depsOf(n))
             m == inDegree[n]
  <2>5. m \in Nat /\ m # 0 /\ m + c = k /\ c \in Nat /\ k \in Nat
    BY <2>1, <2>2, <2>3, <2>4
  <2> HIDE DEF c, k, m
  <2>6. ~(c = k)
    BY <2>5
  <2> QED BY <2>6 DEF c, k
<1>5. \A n \in Nodes : n \notin Range(ordered) => n \in actions
  <2> SUFFICES ASSUME NEW n \in Nodes, n \notin Range(ordered), n \notin actions PROVE FALSE
    OBVIOUS
  <2>1. depsOf(n) = <<>> /\ Len(<<>>) = 0 /\ Cardinality({}) = 0
    BY <1>1, FS_EmptySet
  <2>2. Range(depsOf(n)) \cap Range(ordered) = {}
    BY <1>3, <2>1
  <2> QED BY <1>4, <2>1, <2>2
<1>6. ASSUME NEW a \in rest PROVE direct(a) \cap rest # {}
  <2>1. Cardinality(Range(depsOf(a))) = Len(depsOf(a))
    BY DEF NoneTwice, depsOf
  <2>2. ~(Range(depsOf(a)) \subseteq Range(ordered))
    <3> SUFFICES ASSUME Range(depsOf(a)) \subseteq Range(ordered) PROVE FALSE
      OBVIOUS
    <3>1. Range(depsOf(a)) \cap Range(ordered) = Range(depsOf(a))
      OBVIOUS
    <3> QED BY <1>1, <1>4, <2>1, <3>1
  <2>3. PICK d \in Range(depsOf(a)) : d \notin Range(ordered)
    BY <2>2
  <2>4. d \in actions
    BY <1>1, <1>5, <2>3
  <2>5. d \in Range(resolved[a])
    BY <2>3 DEF depsOf
  <2> QED BY <2>3, <2>4, <2>5 DEF direct
<1>7. rest \in SUBSET actions
  OBVIOUS
<1>8. rest = {}
  <2> HIDE DEF rest
  <2> QED BY <1>6, <1>7 DEF Circular
<1> QED BY <1>8

\* What a cycle kept out is listed last; with none, nothing is added.
LEMMA RemainingAdded ==
    ASSUME KahnInv, AddRemaining
    PROVE  KahnInv'
<1> DEFINE rest == actions \ Range(ordered)
<1>1. /\ queue = <<>> /\ sorted = FALSE /\ sorted' = TRUE
      /\ ordered' = ordered \o inOrder(rest)
      /\ UNCHANGED <<actions, resolved>> /\ inDegree' = inDegree /\ queue' = queue
  BY DEF AddRemaining, KahnInv, QueueOK
<1>2. /\ Nodes' = Nodes /\ Circular' = Circular /\ NoneTwice' = NoneTwice
      /\ FileOK' /\ \A n : depsOf(n)' = depsOf(n)
  <2>1. UNCHANGED <<actions, resolved>>
    BY <1>1
  <2> QED BY ONLY <2>1, KahnInv, GraphStays DEF KahnInv
<1>3. /\ queue \in Seq(Nodes) /\ ordered \in Seq(Nodes)
      /\ IsInjective(queue) /\ IsInjective(ordered) /\ FileOK
      /\ inDegree \in [Nodes -> Nat]
  BY DEF KahnInv, QueueOK, CountsOK
<1>4. IsFiniteSet(Nodes) /\ Nodes \subseteq Nat \X Nat /\ actions \subseteq Nodes
  BY <1>3, GraphOf
<1>5. rest \in SUBSET Nodes /\ rest \subseteq Nat \X Nat /\ rest \cap Range(ordered) = {}
  BY <1>4
<1>6. actions = (actions \cap Range(ordered)) \cup rest
  OBVIOUS
<1>7. ~Circular /\ NoneTwice => rest = {}
  BY <1>1, NoneLeft
<1> HIDE DEF rest
<1>8. inOrder(rest) \in Seq(Nodes) /\ Range(inOrder(rest)) = rest /\ IsInjective(inOrder(rest))
  <2>1. IsFiniteSet(rest)
    BY <1>4, <1>5, FS_Subset
  <2>2. inOrder(rest) \in Seq(rest) /\ Range(inOrder(rest)) = rest /\ IsInjective(inOrder(rest))
    BY <1>5, <2>1, InOrderLists
  <2> QED BY <1>5, <2>2, SeqMonotonic
<1>9. /\ ordered' \in Seq(Nodes) /\ IsInjective(ordered') /\ Range(ordered') = Range(ordered) \cup rest
      /\ DOMAIN ordered \subseteq DOMAIN ordered' /\ \A i \in DOMAIN ordered : ordered'[i] = ordered[i]
      /\ \A i \in DOMAIN ordered' : i \notin DOMAIN ordered => ordered'[i] \in rest
  <2>1. Range(ordered) \cap Range(inOrder(rest)) = {}
    BY <1>5, <1>8
  <2>2. /\ ordered \o inOrder(rest) \in Seq(Nodes) /\ IsInjective(ordered \o inOrder(rest))
        /\ Range(ordered \o inOrder(rest)) = Range(ordered) \cup Range(inOrder(rest))
        /\ DOMAIN ordered \subseteq DOMAIN (ordered \o inOrder(rest))
        /\ \A i \in DOMAIN ordered : (ordered \o inOrder(rest))[i] = ordered[i]
        /\ \A i \in DOMAIN (ordered \o inOrder(rest)) : i \notin DOMAIN ordered =>
              (ordered \o inOrder(rest))[i] \in Range(inOrder(rest)) /\ \A j \in DOMAIN ordered : j < i
    BY ONLY <1>3, <1>8, <2>1, Joined
  <2> QED BY <1>1, <1>8, <2>2
<1>10. QueueOK'
  <2>1. Range(queue) = {}
    BY <1>1 DEF Range
  <2> QED BY <1>1, <1>2, <1>3, <1>9, <2>1 DEF QueueOK
<1>11. CountsOK'
  BY <1>1, <1>2, <1>3 DEF CountsOK
<1>12. FollowsOK'
  <2>1. CASE Circular \/ ~NoneTwice
    BY <1>1, <1>2, <2>1 DEF FollowsOK
  <2>2. CASE ~Circular /\ NoneTwice
    <3>1. \A i \in DOMAIN ordered : FollowsAt(i)
      BY <2>2 DEF KahnInv, FollowsOK
    <3>2. \A i \in DOMAIN ordered' : i \in DOMAIN ordered /\ ordered'[i] = ordered[i]
      BY <1>7, <1>9, <2>2
    <3> SUFFICES ASSUME NEW i \in DOMAIN ordered', NEW d \in Range(depsOf(ordered'[i]))
                 PROVE  \E j \in DOMAIN ordered' : ordered'[j] = d /\ j < i
      BY <1>2 DEF FollowsOK, FollowsAt
    <3>3. PICK j \in DOMAIN ordered : ordered[j] = d /\ j < i
      BY <3>1, <3>2 DEF FollowsAt
    <3> QED BY <1>9, <3>3
  <2> QED BY <2>1, <2>2
<1>13. ListedOK'
  BY <1>1, <1>6, <1>9 DEF ListedOK
<1> QED BY <1>2, <1>10, <1>11, <1>12, <1>13 DEF KahnInv

LEMMA KahnSteps == KahnInv /\ [OrderNext]_orderVars => KahnInv'
<1> SUFFICES ASSUME KahnInv, [OrderNext]_orderVars PROVE KahnInv'
  OBVIOUS
<1> DEFINE kept == UNCHANGED <<actions, resolved, inDegree, queue, ordered, sorted>>
<1>1. CASE Take
  <2>1. ~sorted
    BY <1>1 DEF Take, KahnInv, ListedOK
  <2> QED BY <1>1, <2>1, Taken
<1>2. CASE AddRemaining
  BY <1>2, RemainingAdded
<1>3. CASE kept
  <2>1. UNCHANGED <<actions, resolved>>
    BY <1>3
  <2>2. /\ Nodes' = Nodes /\ Circular' = Circular /\ NoneTwice' = NoneTwice
        /\ FileOK' /\ \A n : depsOf(n)' = depsOf(n)
    BY ONLY <2>1, KahnInv, GraphStays DEF KahnInv
  <2>3. QueueOK'
    BY <1>3, <2>2 DEF KahnInv, QueueOK
  <2>4. CountsOK'
    BY <1>3, <2>2 DEF KahnInv, CountsOK, Counted
  <2>5. FollowsOK'
    BY <1>3, <2>2 DEF KahnInv, FollowsOK, FollowsAt
  <2>6. ListedOK'
    BY <1>3 DEF KahnInv, ListedOK
  <2> QED BY <2>2, <2>3, <2>4, <2>5, <2>6 DEF KahnInv
<1>4. VisitNext \/ VisitDependency \/ Return \/ UNCHANGED orderVars => kept
  BY DEF VisitNext, VisitDependency, Return, Calls, orderVars
<1> HIDE DEF kept
<1> QED BY <1>1, <1>2, <1>3, <1>4 DEF OrderNext

THEOREM OrderSorts == OrderSpec => []KahnInv
<1>1. OrderInit => KahnInv
  <2> SUFFICES ASSUME OrderInit PROVE KahnInv
    OBVIOUS
  <2>1. FileOK
    BY FileOpened DEF OrderInit
  <2> QED BY <2>1, OrderStarts DEF OrderInit, KahnInv
<1> QED BY <1>1, KahnSteps, PTL DEF OrderSpec

-----------------------------------------------------------------------------
(* The levels *)

\* The calls under way are different names without a level, each asked for by the one below.
CallsOK ==
    /\ stack \in Seq(Nodes) /\ IsInjective(stack) /\ Range(stack) \cap DOMAIN levels = {}
    /\ DOMAIN levels \subseteq Nodes /\ \A n \in DOMAIN levels : levels[n] \in Nat
    /\ \A i \in DOMAIN stack : i + 1 \in DOMAIN stack => Reads(stack[i], stack[i + 1])

\* A level is one above the highest below it.
Highest(n) ==
    /\ \A d \in Range(depsOf(n)) : d \in DOMAIN levels /\ levels[d] < levels[n]
    /\ levels[n] > 0 => \E d \in Range(depsOf(n)) : levels[n] = levels[d] + 1

HighestOK == Circular \/ (\A n \in DOMAIN levels : Highest(n))

LevelsInv == FileOK /\ CallsOK /\ HighestOK

\* A call goes on top of the others.
LEMMA Called ==
    ASSUME LevelsInv, NEW n, n \in Nodes, n \notin DOMAIN levels, n \notin Range(stack),
           stack # <<>> => Reads(Last(stack), n), Calls(n)
    PROVE  LevelsInv'
<1>1. /\ stack' = Append(stack, n) /\ levels' = levels /\ UNCHANGED <<actions, resolved>>
  BY DEF Calls
<1>2. /\ Nodes' = Nodes /\ Circular' = Circular /\ FileOK' /\ \A m : depsOf(m)' = depsOf(m)
  <2>1. UNCHANGED <<actions, resolved>>
    BY <1>1
  <2> QED BY ONLY <2>1, LevelsInv, GraphStays DEF LevelsInv
<1>3. stack \in Seq(Nodes) /\ IsInjective(stack)
  BY DEF LevelsInv, CallsOK
<1>4. /\ stack' \in Seq(Nodes) /\ IsInjective(stack') /\ Range(stack') = Range(stack) \cup {n}
      /\ DOMAIN stack \subseteq DOMAIN stack' /\ \A i \in DOMAIN stack : stack'[i] = stack[i]
      /\ \A i \in DOMAIN stack' : i \notin DOMAIN stack =>
            stack'[i] = n /\ \A j \in DOMAIN stack : j < i
  <2>1. /\ <<n>> \in Seq(Nodes) /\ Range(<<n>>) = {n} /\ IsInjective(<<n>>)
        /\ stack' = stack \o <<n>>
    <3>1. <<n>> \in Seq(Nodes) /\ DOMAIN <<n>> = {1} /\ <<n>>[1] = n
      OBVIOUS
    <3>2. stack' = stack \o <<n>>
      BY <1>1, <1>3, AppendIsConcat
    <3> QED BY <3>1, <3>2 DEF Range, IsInjective
  <2>2. Range(stack) \cap Range(<<n>>) = {}
    BY <2>1
  <2>3. /\ stack \o <<n>> \in Seq(Nodes) /\ IsInjective(stack \o <<n>>)
        /\ Range(stack \o <<n>>) = Range(stack) \cup {n}
        /\ DOMAIN stack \subseteq DOMAIN (stack \o <<n>>)
        /\ \A i \in DOMAIN stack : (stack \o <<n>>)[i] = stack[i]
        /\ \A i \in DOMAIN (stack \o <<n>>) : i \notin DOMAIN stack =>
              (stack \o <<n>>)[i] \in {n} /\ \A j \in DOMAIN stack : j < i
    BY ONLY <1>3, <2>1, <2>2, Joined
  <2> QED BY <2>1, <2>3
<1>5. DOMAIN stack = 1..Len(stack) /\ Len(stack) \in Nat /\ Len(stack') = Len(stack) + 1
      /\ DOMAIN stack' = 1..Len(stack) + 1
  <2>1. Len(stack') = Len(stack) + 1 /\ DOMAIN stack' = 1..Len(stack')
    BY <1>1, <1>3, <1>4, AppendProperties, LenProperties
  <2> QED BY <1>3, <2>1, LenProperties
<1>6. ASSUME NEW i \in DOMAIN stack', i + 1 \in DOMAIN stack'
      PROVE  Reads(stack'[i], stack'[i + 1])
  <2>1. i \in DOMAIN stack
    BY <1>5, <1>6
  <2>2. CASE i + 1 \in DOMAIN stack
    BY <1>4, <2>1, <2>2 DEF LevelsInv, CallsOK
  <2>3. CASE i + 1 \notin DOMAIN stack
    <3>1. i = Len(stack) /\ stack # <<>>
      BY <1>5, <1>6, <2>1, <2>3
    <3>2. Last(stack) = stack[i]
      BY <3>1 DEF Last
    <3> QED BY <1>4, <1>6, <2>1, <2>3, <3>1, <3>2
  <2> QED BY <2>2, <2>3
<1>7. CallsOK'
  <2>1. Range(stack') \cap DOMAIN levels' = {}
    BY <1>1, <1>4 DEF LevelsInv, CallsOK
  <2>2. \A i \in DOMAIN stack' : i + 1 \in DOMAIN stack' => Reads(stack[i], stack[i + 1])'
    BY <1>2, <1>6 DEF Reads
  <2>3. stack' \in Seq(Nodes') /\ IsInjective(stack')
    BY <1>2, <1>4
  <2>4. DOMAIN levels' \subseteq Nodes' /\ \A m \in DOMAIN levels' : levels'[m] \in Nat
    BY <1>1, <1>2 DEF LevelsInv, CallsOK
  <2> QED BY <2>1, <2>2, <2>3, <2>4 DEF CallsOK
<1>8. HighestOK'
  BY <1>1, <1>2 DEF LevelsInv, HighestOK, Highest
<1> QED BY <1>2, <1>7, <1>8 DEF LevelsInv

LEMMA LevelAbove ==
    ASSUME LevelsInv, NEW ds, ds \in Seq(Nodes)
    PROVE  /\ levelAbove(ds) \in Nat /\ \A d \in Range(ds) : given(d) < levelAbove(ds)
           /\ levelAbove(ds) > 0 => \E d \in Range(ds) : levelAbove(ds) = given(d) + 1
<1> DEFINE S == {given(d) + 1 : d \in Range(ds)}  T == {0} \cup S
<1>1. \A d \in Range(ds) : given(d) \in Nat
  BY DEF given, LevelsInv, CallsOK
<1>2. IsFiniteSet(S)
  <2> DEFINE f == [d \in Range(ds) |-> given(d) + 1]
  <2>1. IsFiniteSet(Range(ds))
    BY RangeCounted
  <2>2. DOMAIN f = Range(ds) /\ S = {f[d] : d \in Range(ds)}
    OBVIOUS
  <2> HIDE DEF f, S
  <2> QED BY <2>1, <2>2, FiniteImage
<1>3. IsFiniteSet(T) /\ T # {} /\ T \subseteq Nat /\ S \subseteq Nat
  <2>1. \A d \in Range(ds) : given(d) + 1 \in Nat
    BY <1>1
  <2>2. S \subseteq Nat
    BY <2>1
  <2> HIDE DEF S
  <2>3. IsFiniteSet({0})
    BY FS_Singleton
  <2>4. IsFiniteSet({0} \cup S)
    BY <1>2, <2>3, FS_Union
  <2> QED BY <2>2, <2>4
<1>4. levelAbove(ds) = Max(T)
  BY DEF levelAbove
<1>5. \A d \in Range(ds) : given(d) + 1 \in T
  OBVIOUS
<1>6. \A t \in T : t > 0 => \E d \in Range(ds) : t = given(d) + 1
  OBVIOUS
<1> HIDE DEF T, S
<1>7. Max(T) \in T /\ \A t \in T : t <= Max(T)
  <2>1. T \subseteq Int
    BY <1>3
  <2> QED BY <1>3, <2>1, MaxOf
<1>8. ASSUME NEW d \in Range(ds) PROVE given(d) < Max(T)
  <2> DEFINE g == given(d)  m == Max(T)
  <2>1. g \in Nat /\ m \in Nat /\ g + 1 <= m
    BY <1>1, <1>3, <1>5, <1>7
  <2> HIDE DEF g, m
  <2>2. g < m
    BY <2>1
  <2> QED BY <2>2 DEF g, m
<1> QED BY <1>3, <1>4, <1>6, <1>7, <1>8

\* A call that waits for one under way closes a cycle.
LEMMA Closed ==
    ASSUME LevelsInv, stack # <<>>, NEW d, Reads(Last(stack), d), d \in Range(stack)
    PROVE  Circular
<1>1. /\ stack \in Seq(Nodes) /\ FileOK
      /\ \A i \in DOMAIN stack : i + 1 \in DOMAIN stack => Reads(stack[i], stack[i + 1])
  BY DEF LevelsInv, CallsOK
<1> DEFINE n == Len(stack)
<1>2. DOMAIN stack = 1..n /\ n \in Nat /\ n # 0 /\ Last(stack) = stack[n]
  BY <1>1, LenProperties, EmptySeq DEF Last
<1> HIDE DEF n
<1>3. PICK j \in 1..n : stack[j] = d
  BY <1>2 DEF Range
<1> DEFINE S == {stack[i] : i \in j..n}
<1>4. ASSUME NEW i \in j..n PROVE \E m \in S : Reads(stack[i], m)
  <2>1. CASE i = n
    <3>1. Reads(stack[i], stack[j]) /\ j \in j..n
      BY <1>2, <1>3, <2>1
    <3> QED BY <3>1
  <2>2. CASE i # n
    <3>1. i \in 1..n /\ i + 1 \in 1..n /\ i + 1 \in j..n
      BY <1>2, <2>2
    <3>2. Reads(stack[i], stack[i + 1])
      BY <1>1, <1>2, <3>1
    <3> QED BY <3>1, <3>2
  <2> QED BY <2>1, <2>2
<1>5. \A m \in S : \E k \in S : Reads(m, k)
  BY <1>4
<1>6. S # {}
  <2>1. j \in j..n
    BY <1>2
  <2> QED BY <2>1
<1> HIDE DEF S
<1>7. S \in SUBSET actions
  BY <1>1, <1>5, GraphOf
<1>8. \A m \in S : direct(m) \cap S # {}
  <2> TAKE m \in S
  <2>1. PICK k \in S : Reads(m, k)
    BY <1>5
  <2>2. k \in direct(m)
    BY <1>7, <2>1 DEF direct, Reads, depsOf
  <2> QED BY <2>2
<1> QED BY <1>6, <1>7, <1>8 DEF Circular

\* The call that returns has levels for all it waits for, but on a cycle.
LEMMA Returned ==
    ASSUME LevelsInv, Return
    PROVE  LevelsInv'
<1> DEFINE n == Last(stack)  new == levelAbove(depsOf(n))
<1>1. /\ stack # <<>> /\ unseen = {} /\ stack' = Front(stack) /\ UNCHANGED <<actions, resolved>>
      /\ levels' = [m \in DOMAIN levels \cup {n} |->
                      IF m = n THEN levelAbove(depsOf(m)) ELSE levels[m]]
  BY DEF Return
<1>2. /\ Nodes' = Nodes /\ Circular' = Circular /\ FileOK' /\ \A m : depsOf(m)' = depsOf(m)
  <2>1. UNCHANGED <<actions, resolved>>
    BY <1>1
  <2> QED BY ONLY <2>1, LevelsInv, GraphStays DEF LevelsInv
<1>3. /\ stack \in Seq(Nodes) /\ IsInjective(stack) /\ Range(stack) \cap DOMAIN levels = {}
      /\ DOMAIN levels \subseteq Nodes /\ FileOK /\ \A m \in DOMAIN levels : levels[m] \in Nat
      /\ \A i \in DOMAIN stack : i + 1 \in DOMAIN stack => Reads(stack[i], stack[i + 1])
  BY DEF LevelsInv, CallsOK
<1> DEFINE k == Len(stack)
<1>4. /\ DOMAIN stack = 1..k /\ k \in Nat /\ k # 0 /\ n = stack[k] /\ k \in DOMAIN stack
  <2>1. DOMAIN stack = 1..k /\ k \in Nat /\ k # 0
    BY <1>1, <1>3, LenProperties, EmptySeq
  <2> QED BY <2>1 DEF Last
<1>5. n \in Range(stack) /\ n \in Nodes /\ n \notin DOMAIN levels
  <2>1. n \in Range(stack)
    BY <1>4 DEF Range
  <2> QED BY <1>3, <2>1, RangeOfSeq
<1>6. /\ stack' \in Seq(Nodes) /\ DOMAIN stack' = 1..k - 1
      /\ \A i \in DOMAIN stack' : i \in DOMAIN stack /\ i # k /\ stack'[i] = stack[i]
  <2>1. stack' = [i \in 1..k - 1 |-> stack[i]]
    BY <1>1 DEF Front, SubSeq
  <2>2. DOMAIN stack' = 1..k - 1
    BY <2>1
  <2>3. \A i \in 1..k - 1 : i \in DOMAIN stack /\ i # k /\ stack[i] \in Nodes
    <3>1. \A j \in 1..k : stack[j] \in Nodes
      BY <1>3, ElementOfSeq
    <3>2. k \in Nat
      BY <1>4
    <3> HIDE DEF k
    <3>3. \A i \in 1..k - 1 : i \in 1..k /\ i # k
      BY <3>2
    <3> QED BY <1>4, <3>1, <3>3
  <2>4. k - 1 \in Nat
    BY <1>4
  <2>5. stack' \in [1..k - 1 -> Nodes]
    BY <2>1, <2>3
  <2>6. stack' \in Seq(Nodes)
    BY <2>4, <2>5, SeqDef
  <2> QED BY <2>1, <2>2, <2>3, <2>6
<1>7. /\ new \in Nat /\ \A d \in Range(depsOf(n)) : given(d) < new
      /\ new > 0 => \E c \in Range(depsOf(n)) : new = given(c) + 1
  <2>1. depsOf(n) \in Seq(Nodes)
    BY <1>3, <1>5, GraphOf
  <2> HIDE DEF n
  <2> QED BY <2>1, LevelAbove
<1>8. /\ DOMAIN levels' = DOMAIN levels \cup {n} /\ levels'[n] = new
      /\ \A m \in DOMAIN levels : levels'[m] = levels[m] /\ given(m) = levels[m]
  BY <1>1, <1>5 DEF given
<1>9. ASSUME NEW d \in Range(depsOf(n)) PROVE d \in DOMAIN levels \/ d \in Range(stack)
  <2>1. PICK i \in DOMAIN depsOf(n) : depsOf(n)[i] = d
    BY DEF Range
  <2> QED BY <1>1, <2>1 DEF unseen
<1> HIDE DEF n, new, k
<1>10. IsInjective(stack')
  BY <1>3, <1>6 DEF IsInjective
<1>11. Range(stack') \cap DOMAIN levels' = {}
  <2> SUFFICES ASSUME NEW i \in DOMAIN stack' PROVE stack'[i] \notin DOMAIN levels'
    BY DEF Range
  <2>1. stack[i] \in Range(stack) /\ stack[i] # stack[k]
    BY <1>3, <1>4, <1>6 DEF Range, IsInjective
  <2> QED BY <1>3, <1>4, <1>6, <1>8, <2>1
<1>12. \A i \in DOMAIN stack' : i + 1 \in DOMAIN stack' => Reads(stack[i], stack[i + 1])'
  BY <1>2, <1>3, <1>6 DEF Reads
<1>13. CallsOK'
  <2>1. DOMAIN levels' \subseteq Nodes' /\ \A m \in DOMAIN levels' : levels'[m] \in Nat
    BY <1>2, <1>3, <1>5, <1>7, <1>8
  <2>2. stack' \in Seq(Nodes')
    BY <1>2, <1>6
  <2> QED BY <1>10, <1>11, <1>12, <2>1, <2>2 DEF CallsOK
<1>14. HighestOK'
  <2> SUFFICES ASSUME ~Circular, NEW m \in DOMAIN levels' PROVE Highest(m)'
    BY <1>2 DEF HighestOK
  <2>1. \A c \in DOMAIN levels : Highest(c)
    BY DEF LevelsInv, HighestOK
  <2>2. CASE m = n
    <3>1. ASSUME NEW d \in Range(depsOf(n))
          PROVE  d \in DOMAIN levels /\ levels'[d] = given(d)
      <4>1. Reads(Last(stack), d)
        BY <3>1 DEF Reads, n
      <4>2. d \notin Range(stack)
        BY <1>1, <4>1, Closed
      <4> QED BY <1>8, <1>9, <4>2
    <3>2. \A d \in Range(depsOf(n)) : d \in DOMAIN levels' /\ levels'[d] < levels'[n]
      <4> TAKE d \in Range(depsOf(n))
      <4>1. d \in DOMAIN levels /\ levels'[d] = given(d)
        BY <3>1
      <4>2. given(d) < new
        BY <1>7
      <4> QED BY <1>8, <4>1, <4>2
    <3>3. levels'[n] > 0 => \E d \in Range(depsOf(n)) : levels'[n] = levels'[d] + 1
      <4> HAVE levels'[n] > 0
      <4>1. PICK d \in Range(depsOf(n)) : new = given(d) + 1
        BY <1>7, <1>8
      <4>2. levels'[d] = given(d)
        BY <3>1
      <4> QED BY <1>8, <4>1, <4>2
    <3> QED BY <1>2, <2>2, <3>2, <3>3 DEF Highest
  <2>3. CASE m # n
    <3>1. m \in DOMAIN levels /\ Highest(m)
      BY <1>8, <2>1, <2>3
    <3> QED BY <1>2, <1>8, <3>1 DEF Highest
  <2> QED BY <2>2, <2>3
<1> QED BY <1>2, <1>13, <1>14 DEF LevelsInv

LEMMA LevelsSteps == LevelsInv /\ [OrderNext]_orderVars => LevelsInv'
<1> SUFFICES ASSUME LevelsInv, [OrderNext]_orderVars PROVE LevelsInv'
  OBVIOUS
<1> DEFINE kept == UNCHANGED <<actions, resolved, levels, stack>>
<1>1. CASE VisitNext
  <2> DEFINE left == actions \ DOMAIN levels
  <2>1. left # {} /\ stack = <<>> /\ Calls(inOrder(left)[1])
    BY <1>1 DEF VisitNext
  <2>2. IsFiniteSet(left) /\ left \subseteq Nat \X Nat /\ left \subseteq Nodes
    <3>1. IsFiniteSet(actions) /\ actions \subseteq Nat \X Nat /\ actions \subseteq Nodes
      BY GraphOf DEF LevelsInv, FileOK
    <3> QED BY <3>1, FS_Difference
  <2>3. left \cap DOMAIN levels = {}
    OBVIOUS
  <2> HIDE DEF left
  <2>4. inOrder(left) \in Seq(left) /\ Range(inOrder(left)) = left
    BY <2>2, InOrderLists
  <2>5. inOrder(left)[1] \in left
    <3>1. inOrder(left) # <<>>
      <4> SUFFICES ASSUME inOrder(left) = <<>> PROVE FALSE
        OBVIOUS
      <4>1. Range(<<>>) = {}
        BY DEF Range
      <4> QED BY <2>1, <2>4, <4>1
    <3>2. Len(inOrder(left)) \in Nat /\ Len(inOrder(left)) # 0
      BY <2>4, <3>1, LenProperties, EmptySeq
    <3>3. 1 \in 1..Len(inOrder(left))
      BY <3>2
    <3> QED BY <2>4, <3>3, ElementOfSeq
  <2>6. Range(stack) = {}
    BY <2>1 DEF Range
  <2> QED BY <2>1, <2>2, <2>3, <2>5, <2>6, Called
<1>2. CASE VisitDependency
  <2> DEFINE n == Last(stack)  i == Min(unseen)
  <2>1. stack # <<>> /\ unseen # {} /\ Calls(depsOf(n)[i])
    BY <1>2 DEF VisitDependency
  <2>2. n \in Nodes
    <3>1. stack \in Seq(Nodes) /\ Len(stack) \in Nat /\ Len(stack) # 0
      BY <2>1, LenProperties, EmptySeq DEF LevelsInv, CallsOK
    <3>2. Len(stack) \in 1..Len(stack)
      BY <3>1
    <3> QED BY <3>1, <3>2, ElementOfSeq DEF Last
  <2>3. depsOf(n) \in Seq(Nodes)
    BY <2>2, GraphOf DEF LevelsInv
  <2>4. \A j \in unseen : j \in DOMAIN depsOf(n) /\ depsOf(n)[j] \notin DOMAIN levels
                                                /\ depsOf(n)[j] \notin Range(stack)
    BY DEF unseen
  <2> HIDE DEF n
  <2>5. DOMAIN depsOf(n) = 1..Len(depsOf(n)) /\ Len(depsOf(n)) \in Nat
        /\ \A j \in DOMAIN depsOf(n) : depsOf(n)[j] \in Nodes
    BY <2>3, LenProperties, ElementOfSeq
  <2>6. i \in unseen
    <3> DEFINE k == Len(depsOf(n))
    <3>1. k \in Int /\ 1 \in Int /\ unseen \in SUBSET (1..k)
      BY <2>4, <2>5
    <3> HIDE DEF k
    <3>2. IsFiniteSet(1..k)
      BY <3>1, FS_Interval
    <3>3. IsFiniteSet(unseen)
      BY <3>1, <3>2, FS_Subset
    <3>4. unseen \subseteq Int
      BY <3>1
    <3> QED BY <2>1, <3>3, <3>4, MinOf
  <2> HIDE DEF i
  <2>7. Reads(Last(stack), depsOf(n)[i])
    BY <2>4, <2>6 DEF Reads, Range, n
  <2> QED BY <2>1, <2>4, <2>5, <2>6, <2>7, Called
<1>3. CASE Return
  BY <1>3, Returned
<1>4. CASE kept
  <2>1. UNCHANGED <<actions, resolved>>
    BY <1>4
  <2>2. /\ Nodes' = Nodes /\ Circular' = Circular /\ FileOK' /\ \A m : depsOf(m)' = depsOf(m)
    BY ONLY <2>1, LevelsInv, GraphStays DEF LevelsInv
  <2>3. CallsOK'
    BY <1>4, <2>2 DEF LevelsInv, CallsOK, Reads
  <2>4. HighestOK'
    BY <1>4, <2>2 DEF LevelsInv, HighestOK, Highest
  <2> QED BY <2>2, <2>3, <2>4 DEF LevelsInv
<1>5. Take \/ AddRemaining \/ UNCHANGED orderVars => kept
  BY DEF Take, AddRemaining, orderVars
<1> HIDE DEF kept
<1> QED BY <1>1, <1>2, <1>3, <1>4, <1>5 DEF OrderNext

THEOREM OrderLevels == OrderSpec => []LevelsInv
<1>1. OrderInit => LevelsInv
  <2> SUFFICES ASSUME OrderInit PROVE LevelsInv
    OBVIOUS
  <2>1. FileOK
    BY FileOpened DEF OrderInit
  <2>2. stack = <<>> /\ levels = <<>>
    BY DEF OrderInit
  <2>3. CallsOK
    BY <2>2 DEF CallsOK, IsInjective, Range
  <2>4. HighestOK
    BY <2>2 DEF HighestOK
  <2> QED BY <2>1, <2>3, <2>4 DEF LevelsInv
<1> QED BY <1>1, LevelsSteps, PTL DEF OrderSpec

-----------------------------------------------------------------------------
(* What the editor shows of them *)

\* The place of an action in a complete order.
LEMMA IndexOf ==
    ASSUME KahnInv, sorted, NEW a \in actions
    PROVE  /\ index(a) \in DOMAIN ordered /\ ordered[index(a)] = a /\ index(a) \in Nat
           /\ \A i \in DOMAIN ordered : ordered[i] = a => i = index(a)
<1>1. ordered \in Seq(Nodes) /\ IsInjective(ordered) /\ a \in Range(ordered)
  BY DEF KahnInv, QueueOK, ListedOK
<1>2. PICK i \in DOMAIN ordered : ordered[i] = a
  BY <1>1 DEF Range
<1>3. index(a) \in DOMAIN ordered /\ ordered[index(a)] = a
  BY <1>2 DEF index
<1>4. \A j \in DOMAIN ordered : ordered[j] = a => j = index(a)
  BY <1>1, <1>3 DEF IsInjective
<1>5. DOMAIN ordered = 1..Len(ordered) /\ Len(ordered) \in Nat
  BY <1>1, LenProperties
<1>6. index(a) \in Nat
  <2> DEFINE n == Len(ordered)  k == index(a)
  <2>1. k \in 1..n /\ n \in Nat
    BY <1>3, <1>5
  <2> HIDE DEF n, k
  <2>2. k \in Nat
    BY <2>1
  <2> QED BY <2>2 DEF k
<1> QED BY <1>3, <1>4, <1>6

\* A row stands where one of its actions does, the first of them.
LEMMA ForemostOf ==
    ASSUME KahnInv, sorted, NEW row, row \subseteq actions, row # {}
    PROVE  /\ foremost(row) \in Nat /\ \E a \in row : foremost(row) = index(a)
           /\ \A a \in row : foremost(row) <= index(a)
<1> DEFINE S == {index(a) : a \in row}  f == [a \in row |-> index(a)]
<1>1. IsFiniteSet(row)
  BY FS_Subset DEF KahnInv, FileOK
<1>2. DOMAIN f = row /\ S = {f[a] : a \in row}
  OBVIOUS
<1>3. S # {} /\ S \subseteq Nat
  BY IndexOf
<1>4. foremost(row) = Min(S) /\ (\A a \in row : index(a) \in S) /\ \A i \in S : \E a \in row : i = index(a)
  BY DEF foremost
<1> HIDE DEF S, f
<1>5. IsFiniteSet(S)
  BY <1>1, <1>2, FiniteImage
<1>6. S \subseteq Int
  BY <1>3
<1>7. Min(S) \in S /\ \A i \in S : Min(S) <= i
  BY <1>3, <1>5, <1>6, MinOf
<1> QED BY <1>3, <1>4, <1>7

\* The rows part the actions.
LEMMA RowsPart ==
    ASSUME NEW a \in actions
    PROVE  /\ a \in RowOf(a) /\ RowOf(a) \subseteq actions
           /\ \A b \in RowOf(a) : RowOf(b) = RowOf(a) /\ b[1] = a[1]
<1>1. a \in RowOf(a) /\ RowOf(a) \subseteq actions
  BY DEF RowOf
<1>2. ASSUME NEW b \in RowOf(a) PROVE b[1] = a[1]
  BY DEF RowOf
<1>3. ASSUME NEW b \in RowOf(a) PROVE RowOf(b) = RowOf(a)
  <2>1. CASE b = a
    BY <2>1
  <2>2. CASE b # a
    <3>1. a[2] # 0 /\ b[2] # 0 /\ a[1] = b[1] /\ b \in actions
      BY <2>2 DEF RowOf
    <3>2. \A c \in actions : c \in RowOf(b) <=> c \in RowOf(a)
      BY <3>1 DEF RowOf
    <3>3. RowOf(b) \subseteq actions
      BY DEF RowOf
    <3> QED BY <1>1, <3>2, <3>3
  <2> QED BY <2>1, <2>2
<1> QED BY <1>1, <1>2, <1>3

LEMMA RowsListed ==
    ASSUME KahnInv, sorted
    PROVE  /\ Range(buildActionNodes) = {RowOf(a) : a \in actions} /\ IsInjective(buildActionNodes)
           /\ \A i, j \in DOMAIN buildActionNodes :
                 foremost(buildActionNodes[i]) < foremost(buildActionNodes[j]) => i < j
<1> DEFINE S == {RowOf(a) : a \in actions}
           R == {p \in S \X S : foremost(p[1]) < foremost(p[2])}
<1>1. buildActionNodes = ranked(S, R)
  BY DEF buildActionNodes
<1>2. \A r, q \in S : <<r, q>> \in R <=> foremost(r) < foremost(q)
  OBVIOUS
<1>3. IsFiniteSet(S)
  <2> DEFINE f == [a \in actions |-> RowOf(a)]
  <2>1. IsFiniteSet(actions) /\ DOMAIN f = actions /\ S = {f[a] : a \in actions}
    BY DEF KahnInv, FileOK
  <2> HIDE DEF f, S
  <2> QED BY <2>1, FiniteImage
<1>4. \A r \in S : r \subseteq actions /\ r # {} /\ \A a \in r : r = RowOf(a)
  BY RowsPart
<1> HIDE DEF S, R
<1>5. \A r \in S : foremost(r) \in Nat /\ \E a \in r : foremost(r) = index(a)
  BY <1>4, ForemostOf
<1>6. \A r \in S : <<r, r>> \notin R
  BY <1>2, <1>5
<1>7. \A r, q \in S : r # q => <<r, q>> \in R \/ <<q, r>> \in R
  <2> TAKE r, q \in S
  <2> HAVE r # q
  <2>1. PICK a \in r : foremost(r) = index(a)
    BY <1>5
  <2>2. PICK b \in q : foremost(q) = index(b)
    BY <1>5
  <2>3. a # b /\ a \in actions /\ b \in actions
    BY <1>4
  <2>4. index(a) # index(b)
    BY <2>3, IndexOf
  <2>5. foremost(r) # foremost(q) /\ foremost(r) \in Nat /\ foremost(q) \in Nat
    BY <1>5, <2>1, <2>2, <2>4
  <2>6. foremost(r) < foremost(q) \/ foremost(q) < foremost(r)
    BY <2>5
  <2> QED BY <1>2, <2>6
<1>8. \A r, q, p \in S : <<r, q>> \in R /\ <<q, p>> \in R => <<r, p>> \in R
  <2> TAKE r, q, p \in S
  <2>1. foremost(r) \in Nat /\ foremost(q) \in Nat /\ foremost(p) \in Nat
    BY <1>5
  <2>2. foremost(r) < foremost(q) /\ foremost(q) < foremost(p) => foremost(r) < foremost(p)
    BY <2>1
  <2> QED BY <1>2, <2>2
<1> DEFINE s == ranked(S, R)
<1>9. /\ s \in Seq(S) /\ Range(s) = S /\ IsInjective(s)
      /\ \A i, j \in DOMAIN s : <<s[i], s[j]>> \in R => i < j
  BY ONLY <1>3, <1>6, <1>7, <1>8, RankedLists
<1>10. \A i \in DOMAIN s : s[i] \in S
  BY <1>9 DEF Range
<1> HIDE DEF s
<1>11. \A i, j \in DOMAIN s : foremost(s[i]) < foremost(s[j]) => i < j
  BY <1>2, <1>9, <1>10
<1> QED BY <1>1, <1>9, <1>11 DEF S, s

\* In a complete order without cycles a dependency comes first.
LEMMA InOrder ==
    ASSUME KahnInv, sorted, ~Circular, NoneTwice, NEW a \in actions, NEW d \in direct(a)
    PROVE  index(d) < index(a)
<1>1. d \in actions /\ d \in Range(depsOf(a))
  BY DEF direct, depsOf
<1>2. index(a) \in DOMAIN ordered /\ ordered[index(a)] = a
  BY IndexOf
<1>3. FollowsAt(index(a))
  BY <1>2 DEF KahnInv, FollowsOK
<1>4. PICK j \in DOMAIN ordered : ordered[j] = d /\ j < index(a)
  BY <1>1, <1>2, <1>3 DEF FollowsAt
<1> QED BY <1>1, <1>4, IndexOf

LEMMA ListsInOrder == KahnInv => ListedInOrder
<1> SUFFICES ASSUME KahnInv, sorted
             PROVE  /\ \A a \in actions : Cardinality({i \in DOMAIN ordered : ordered[i] = a}) = 1
                    /\ ~Circular /\ NoneTwice =>
                          LET nodes == buildActionNodes
                              Row(a) == CHOOSE i \in DOMAIN nodes : a \in nodes[i]
                          IN \A a \in actions : \A d \in direct(a) :
                                index(d) < index(a) /\ Row(d) < Row(a)
  BY DEF ListedInOrder
<1>1. ASSUME NEW a \in actions
      PROVE  Cardinality({i \in DOMAIN ordered : ordered[i] = a}) = 1
  <2>1. {i \in DOMAIN ordered : ordered[i] = a} = {index(a)}
    BY IndexOf
  <2> QED BY <2>1, FS_Singleton
<1> DEFINE nodes  == buildActionNodes
           Row(a) == CHOOSE i \in DOMAIN nodes : a \in nodes[i]
<1>2. ASSUME NEW a \in actions PROVE Row(a) \in DOMAIN nodes /\ nodes[Row(a)] = RowOf(a)
  <2>1. a \in RowOf(a) /\ RowOf(a) \in Range(nodes)
    BY RowsListed, RowsPart
  <2>2. PICK i \in DOMAIN nodes : nodes[i] = RowOf(a)
    BY <2>1 DEF Range
  <2>3. Row(a) \in DOMAIN nodes /\ a \in nodes[Row(a)]
    BY <2>1, <2>2
  <2>4. nodes[Row(a)] \in Range(nodes)
    BY <2>3 DEF Range
  <2>5. PICK b \in actions : nodes[Row(a)] = RowOf(b)
    BY <2>4, RowsListed
  <2>6. RowOf(a) = RowOf(b)
    BY <2>3, <2>5, RowsPart
  <2> QED BY <2>3, <2>5, <2>6
<1>3. ASSUME ~Circular, NoneTwice, NEW a \in actions, NEW d \in direct(a)
      PROVE  index(d) < index(a) /\ Row(d) < Row(a)
  <2>1. d \in actions /\ index(d) < index(a)
    BY <1>3, InOrder DEF direct
  <2>2. RowOf(a) \subseteq actions /\ a \in RowOf(a) /\ RowOf(d) \subseteq actions /\ d \in RowOf(d)
    BY <2>1, RowsPart
  <2>3. PICK b \in RowOf(a) : foremost(RowOf(a)) = index(b)
    BY <2>2, ForemostOf
  <2>4. b \in actions /\ d \in direct(b)
    <3>1. b[1] = a[1]
      BY RowsPart
    <3>2. resolved[b] = resolved[a]
      BY <2>2, <3>1 DEF KahnInv, FileOK
    <3> QED BY <2>2, <3>2 DEF direct
  <2>5. index(d) < index(b)
    BY <1>3, <2>4, InOrder
  <2>6. foremost(RowOf(d)) <= index(d) /\ foremost(RowOf(d)) \in Nat
    BY <2>2, ForemostOf
  <2>7. index(d) \in Nat /\ index(b) \in Nat
    BY <2>1, <2>4, IndexOf
  <2>8. foremost(RowOf(d)) < foremost(RowOf(a))
    BY <2>3, <2>5, <2>6, <2>7
  <2>9. /\ Row(d) \in DOMAIN nodes /\ nodes[Row(d)] = RowOf(d)
        /\ Row(a) \in DOMAIN nodes /\ nodes[Row(a)] = RowOf(a)
    BY <1>2, <2>1
  <2> HIDE DEF Row
  <2>10. Row(d) < Row(a)
    BY <2>8, <2>9, RowsListed
  <2> QED BY <2>1, <2>10
<1> QED BY <1>1, <1>3

\* Every action is listed once, and one the engine can run after all it depends on, in the
\* order and in the tree, for any file.
THEOREM ListsActions == OrderSpec => []ListedInOrder
BY OrderSorts, ListsInOrder, PTL

LEMMA LevelsAreThose == LevelsInv => LevelsAgree
<1> SUFFICES ASSUME LevelsInv, Leveled, ~Circular, Nodes = actions, NEW a \in actions,
                    NEW k \in 0..levels[a]
             PROVE  direct(a) \subseteq {b \in actions : levels[b] < k} <=> k = levels[a]
  BY DEF LevelsAgree, compute_execution_levels
<1>1. a \in DOMAIN levels /\ Highest(a)
  BY DEF Leveled, LevelsInv, HighestOK
<1>2. direct(a) = Range(depsOf(a)) /\ Range(depsOf(a)) \subseteq actions
  <2>1. Range(depsOf(a)) \subseteq Nodes
    BY GraphOf DEF LevelsInv
  <2> QED BY <2>1 DEF direct, depsOf
<1>3. \A b \in actions : levels[b] \in Nat
  BY DEF Leveled, LevelsInv, CallsOK
<1>4. CASE k = levels[a]
  <2>1. \A d \in direct(a) : d \in actions /\ levels[d] < levels[a]
    BY <1>1, <1>2 DEF Highest
  <2> QED BY <1>4, <2>1
<1>5. CASE k # levels[a]
  <2>1. levels[a] \in Nat
    BY <1>3
  <2>2. k \in Nat /\ k < levels[a] /\ levels[a] > 0
    BY <1>5, <2>1
  <2>3. PICK d \in Range(depsOf(a)) : levels[a] = levels[d] + 1
    BY <1>1, <2>2 DEF Highest
  <2>4. d \in direct(a) /\ d \in actions /\ levels[d] \in Nat
    BY <1>2, <1>3, <2>3
  <2>5. ~(levels[d] < k)
    BY <2>1, <2>2, <2>3, <2>4
  <2> QED BY <1>5, <2>4, <2>5
<1> QED BY <1>4, <1>5

\* The level the editor gives is the one the engine runs the action on, for any file the
\* engine can run that names nothing else.
THEOREM LevelsFollow == OrderSpec => []LevelsAgree
BY OrderLevels, LevelsAreThose, PTL

THEOREM OrderTypeCorrect == OrderSpec => []OrderTypeOK
<1>1. KahnInv /\ LevelsInv => OrderTypeOK
  <2> SUFFICES ASSUME KahnInv, LevelsInv PROVE OrderTypeOK
    OBVIOUS
  <2> QED BY DEF KahnInv, QueueOK, CountsOK, LevelsInv, CallsOK, OrderTypeOK
<1> QED BY <1>1, OrderSorts, OrderLevels, PTL

=============================================================================
