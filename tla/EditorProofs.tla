------------------------------- MODULE EditorProofs -------------------------------
(***************************************************************************)
(* The parts of the editor extension that share nothing but the model: no  *)
(* stray language server, for any number of servers, changes, restarts and *)
(* mishaps; the panel and the document in its webview agree, for any       *)
(* requests, writes and mishaps; the diagram follows the workflow it was   *)
(* opened on, and what is found by name or path is what was meant unless   *)
(* two bear it; a row of the tree tells the truth.  Then all of them, with *)
(* the order of a config file, as one specification.                       *)
(***************************************************************************)
EXTENDS MCEditor, ExecutionOrderProofs

-----------------------------------------------------------------------------
(* What holds of the chain of cycles *)

StopQueued == \E i \in DOMAIN lifecycleQueue : lifecycleQueue[i] = "stop"

\* A cycle that has got as far as the interpreter or a start is a restart; it holds no
\* client before it starts one.
ChainOK ==
    /\ lifecycleQueue \in Seq({"restart", "stop"})
    /\ at \in {"queued", "stopping", "resolving", "resolved", "starting"}
    /\ at # "queued" => lifecycleQueue # <<>>
    /\ at \in {"resolving", "resolved", "starting"} => First("restart")
    /\ at \in {"resolving", "resolved"} => client = 0

\* The servers there are besides the one held have been dropped.
ServersOK ==
    /\ made \in Nat /\ client \in Nat
    /\ DOMAIN server = Clients
    /\ \A s \in Clients : Alive(s) => s = client \/ s \in lost

\* Until the shutdown has had its turn it is in the queue; then the chain is at rest.
ShutdownOK == disposed => StopQueued \/ (client = 0 /\ at = "queued")

LspInv == ChainOK /\ ServersOK /\ ShutdownOK

-----------------------------------------------------------------------------
(* The steps *)

\* A queue keeps its elements when one is added.
LEMMA QueueGrows ==
    ASSUME NEW q \in Seq({"restart", "stop"}), NEW x \in {"restart", "stop"}
    PROVE  /\ Append(q, x) \in Seq({"restart", "stop"}) /\ Append(q, x) # <<>>
           /\ \E i \in DOMAIN Append(q, x) : Append(q, x)[i] = x
           /\ (\E i \in DOMAIN q : q[i] = "stop") =>
                  \E i \in DOMAIN Append(q, x) : Append(q, x)[i] = "stop"
           /\ q # <<>> => Head(Append(q, x)) = Head(q)
<1>1. /\ Append(q, x) \in Seq({"restart", "stop"}) /\ Append(q, x) # <<>>
      /\ q # <<>> => Head(Append(q, x)) = Head(q)
  <2>1. Append(q, x) \in Seq({"restart", "stop"})
    OBVIOUS
  <2>2. Len(Append(q, x)) = Len(q) + 1 /\ Len(q) \in Nat
    OBVIOUS
  <2>3. Append(q, x) # <<>>
    BY <2>1, <2>2, Len(<<>>) = 0
  <2>4. ASSUME q # <<>> PROVE Head(Append(q, x)) = Head(q)
    <3>1. Len(q) > 0
      BY <2>4
    <3>2. Append(q, x)[1] = q[1]
      BY <3>1
    <3> QED BY <2>1, <2>2, <2>3, <2>4, <3>2
  <2> QED BY <2>1, <2>3, <2>4
<1>2. \E i \in DOMAIN Append(q, x) : Append(q, x)[i] = x
  <2>1. Append(q, x)[Len(q) + 1] = x /\ Len(q) + 1 \in DOMAIN Append(q, x)
    OBVIOUS
  <2> QED BY <2>1
<1>3. ASSUME NEW i \in DOMAIN q, q[i] = "stop"
      PROVE  \E j \in DOMAIN Append(q, x) : Append(q, x)[j] = "stop"
  <2>1. i \in DOMAIN Append(q, x) /\ Append(q, x)[i] = q[i]
    OBVIOUS
  <2> QED BY <2>1, <1>3
<1> QED BY <1>1, <1>2, <1>3

\* What is behind a restart at the head of the queue is there when its cycle ends.
LEMMA QueueShrinks ==
    ASSUME NEW q \in Seq({"restart", "stop"}), q # <<>>
    PROVE  /\ Tail(q) \in Seq({"restart", "stop"})
           /\ Head(q) \in {"restart", "stop"}
           /\ Head(q) = "restart" /\ (\E i \in DOMAIN q : q[i] = "stop") =>
                  \E i \in DOMAIN Tail(q) : Tail(q)[i] = "stop"
<1>1. Tail(q) \in Seq({"restart", "stop"}) /\ Head(q) \in {"restart", "stop"}
  OBVIOUS
<1>2. ASSUME Head(q) = "restart", NEW i \in DOMAIN q, q[i] = "stop"
      PROVE  \E j \in DOMAIN Tail(q) : Tail(q)[j] = "stop"
  <2>1. i # 1 /\ i \in 1..Len(q)
    BY <1>2
  <2>2. i - 1 \in DOMAIN Tail(q) /\ Tail(q)[i - 1] = q[i]
    BY <2>1
  <2> QED BY <2>2, <1>2
<1> QED BY <1>1, <1>2

\* A restart or the shutdown is put at the end of the chain.
LEMMA Queues ==
    ASSUME LspInv, NEW kind \in {"restart", "stop"},
           lifecycleQueue' = Append(lifecycleQueue, kind),
           kind = "stop" \/ disposed' = disposed,
           UNCHANGED <<at, client, made, server, lost>>
    PROVE  LspInv'
<1>1. ChainOK'
  BY QueueGrows DEF LspInv, ChainOK, First
<1>2. ServersOK'
  BY DEF LspInv, ServersOK, Alive
<1>3. ShutdownOK'
  BY QueueGrows DEF LspInv, ChainOK, ShutdownOK, StopQueued
<1> QED BY <1>1, <1>2, <1>3 DEF LspInv

\* A cycle that ends without a client leaves the chain at rest.
LEMMA EndsEmpty ==
    ASSUME LspInv, lifecycleQueue # <<>>, CycleEnds, client' = 0, UNCHANGED disposed
    PROVE  ChainOK' /\ ShutdownOK'
<1>1. ChainOK'
  BY QueueShrinks DEF LspInv, ChainOK, CycleEnds
<1>2. ShutdownOK'
  BY DEF ShutdownOK, CycleEnds
<1> QED BY <1>1, <1>2

\* A step of a server touches nothing else.
LEMMA ServerMoves ==
    ASSUME LspInv, NEW s \in Clients, NEW state, Becomes(s, state),
           state \in {"starting", "running"} => Alive(s)
    PROVE  LspInv'
<1>1. ServersOK'
  BY DEF LspInv, ServersOK, Becomes, Alive
<1>2. ChainOK' /\ ShutdownOK'
  BY DEF LspInv, ChainOK, ShutdownOK, StopQueued, Becomes, First
<1> QED BY <1>1, <1>2 DEF LspInv

\* The steps of a cycle.
LEMMA CycleKeeps == LspInv /\ Cycle => LspInv'
<1> SUFFICES ASSUME LspInv, Cycle PROVE LspInv'
  OBVIOUS
<1> USE DEF LspInv
<1>1. CASE Skip
  <2>1. lifecycleQueue # <<>> /\ Head(lifecycleQueue) = "restart"
    BY <1>1 DEF Skip, Skipped, First
  <2>2. ChainOK'
    BY <1>1, <2>1, QueueShrinks DEF Skip, ChainOK, CycleEnds
  <2>3. ServersOK'
    BY <1>1 DEF Skip, ServersOK, Alive
  <2>4. ShutdownOK'
    BY <1>1, <2>1, QueueShrinks DEF Skip, ChainOK, ShutdownOK, StopQueued, CycleEnds
  <2> QED BY <2>2, <2>3, <2>4
<1>2. CASE BeginCycle
  <2>1. ServersOK'
    BY <1>2 DEF BeginCycle, ServersOK, Alive
  <2>2. CASE client # 0
    <3>1. ChainOK'
      BY <1>2, <2>2 DEF BeginCycle, ChainOK, MovesOn, First
    <3>2. ShutdownOK'
      BY <1>2, <2>2 DEF BeginCycle, ShutdownOK, StopQueued, MovesOn
    <3> QED BY <2>1, <3>1, <3>2
  <2>3. CASE client = 0 /\ First("restart")
    <3>1. ChainOK'
      BY <1>2, <2>3 DEF BeginCycle, ChainOK, MovesOn, First
    <3>2. ShutdownOK'
      BY <1>2, <2>3 DEF BeginCycle, ShutdownOK, StopQueued, MovesOn, Skipped
    <3> QED BY <2>1, <3>1, <3>2
  <2>4. CASE client = 0 /\ ~First("restart")
    <3>1. lifecycleQueue # <<>> /\ CycleEnds /\ client' = 0 /\ UNCHANGED disposed
      BY <1>2, <2>4 DEF BeginCycle
    <3> QED BY <2>1, <3>1, EndsEmpty
  <2> QED BY <2>2, <2>3, <2>4
<1>3. CASE Stopped
  <2>1. client' = 0 /\ lost' = lost /\ UNCHANGED <<disposed, made>>
    BY <1>3 DEF Stopped, Drops
  <2>2. ServersOK'
    BY <1>3, <2>1 DEF Stopped, ServersOK, Alive, Clients
  <2>3. CASE First("restart")
    <3>1. ChainOK'
      BY <1>3, <2>1, <2>3 DEF Stopped, ChainOK, MovesOn, First
    <3>2. ShutdownOK'
      BY <1>3, <2>3 DEF Stopped, ShutdownOK, StopQueued, MovesOn
    <3> QED BY <2>2, <3>1, <3>2
  <2>4. CASE ~First("restart")
    <3>1. lifecycleQueue # <<>> /\ CycleEnds
      BY <1>3, <2>4 DEF Stopped, ChainOK
    <3> QED BY <2>1, <2>2, <3>1, EndsEmpty
  <2> QED BY <2>3, <2>4
<1>4. CASE StopFails
  <2>1. lifecycleQueue # <<>> /\ CycleEnds /\ client' = 0 /\ UNCHANGED disposed
    BY <1>4 DEF StopFails, Drops, ChainOK
  <2>2. ServersOK'
    BY <1>4 DEF StopFails, Drops, ServersOK, Alive
  <2> QED BY <2>1, <2>2, EndsEmpty
<1>5. CASE ResolveServerOptions
  <2>1. ChainOK' /\ ServersOK' /\ ShutdownOK'
    BY <1>5 DEF ResolveServerOptions, ChainOK, ServersOK, ShutdownOK, StopQueued, MovesOn,
                First, Alive
  <2> QED BY <2>1
<1>6. CASE StartClient
  <2>1. ChainOK'
    BY <1>6 DEF StartClient, ChainOK, MovesOn, First
  <2>2. ServersOK'
    BY <1>6 DEF StartClient, ChainOK, ServersOK, Alive
  <2>3. ShutdownOK'
    BY <1>6 DEF StartClient, ShutdownOK, StopQueued, MovesOn
  <2> QED BY <2>1, <2>2, <2>3
<1>7. CASE Started
  <2>1. lifecycleQueue # <<>> /\ Head(lifecycleQueue) = "restart"
    BY <1>7 DEF Started, ChainOK, First
  <2>2. ChainOK'
    BY <1>7, <2>1, QueueShrinks DEF Started, ChainOK, CycleEnds
  <2>3. ServersOK'
    BY <1>7 DEF Started, ServersOK, Alive
  <2>4. ShutdownOK'
    BY <1>7, <2>1, QueueShrinks DEF Started, ChainOK, ShutdownOK, StopQueued, CycleEnds
  <2> QED BY <2>2, <2>3, <2>4
<1>8. CASE StartFails
  <2>1. lifecycleQueue # <<>> /\ CycleEnds /\ client' = 0 /\ UNCHANGED disposed
    BY <1>8 DEF StartFails, Drops, ChainOK
  <2>2. ServersOK'
    BY <1>8 DEF StartFails, Drops, ServersOK, Alive
  <2> QED BY <2>1, <2>2, EndsEmpty
<1> QED BY <1>1, <1>2, <1>3, <1>4, <1>5, <1>6, <1>7, <1>8 DEF Cycle

-----------------------------------------------------------------------------
(* The theorems *)

\* The inductive invariant: what the queue holds, where its first cycle is and which
\* servers run agree.
THEOREM ChainSound == LspSpec => []LspInv
<1>1. LspInit => LspInv
  BY DEF LspInit, LspInv, ChainOK, ServersOK, ShutdownOK, StopQueued, First, Alive
<1>2. LspInv /\ [LspNext]_lspVars => LspInv'
  <2> SUFFICES ASSUME LspInv, [LspNext]_lspVars PROVE LspInv'
    OBVIOUS
  <2>1. CASE InterpreterChanges
    BY <2>1 DEF InterpreterChanges, LspInv, ChainOK, ServersOK, ShutdownOK, StopQueued,
                First, Alive
  <2>2. CASE DebounceFires \/ RestartCommand
    BY <2>2, Queues DEF DebounceFires, RestartCommand, restartServer
  <2>3. CASE deactivate
    BY <2>3, Queues DEF deactivate
  <2>4. CASE Cycle
    BY <2>4, CycleKeeps
  <2>5. ASSUME NEW s \in Clients, ServerUp(s) \/ ServerCloses(s) PROVE LspInv'
    BY <2>5, ServerMoves DEF ServerUp, ServerCloses, Alive
  <2>6. CASE UNCHANGED lspVars
    BY <2>6 DEF lspVars, LspInv, ChainOK, ServersOK, ShutdownOK, StopQueued, First, Alive
  <2> QED BY <2>1, <2>2, <2>3, <2>4, <2>5, <2>6 DEF LspNext
<1> QED BY <1>1, <1>2, PTL DEF LspSpec

\* Whatever number of restarts overlaps, no server runs beside the one held but one whose
\* start was given up or whose stop was refused, and the shutdown leaves none held.
THEOREM NeverStray == LspSpec => []NoStray
<1>1. LspInv => NoStray
  BY DEF LspInv, ServersOK, ShutdownOK, StopQueued, NoStray
<1> QED BY <1>1, ChainSound, PTL

-----------------------------------------------------------------------------
(* Types: there is a client for every start *)

\* The cycles still to make a client, the timer that asks for one more, and what asked.
Waiting == Len(lifecycleQueue) - (IF at = "starting" THEN 1 ELSE 0)
Timer   == IF debounceTimer THEN 1 ELSE 0
Asked   == 1 + interpreter + restarts + (IF disposed THEN 1 ELSE 0)

NumbersOK ==
    /\ interpreter \in 0..MaxChanges /\ using \in 0..interpreter
    /\ disposed \in BOOLEAN /\ debounceTimer \in BOOLEAN
    /\ restarts \in 0..MaxRestarts /\ failures \in 0..MaxFailures
    /\ made + Waiting + Timer <= Asked

HeldOK ==
    /\ made \in 0..MaxServers /\ client \in 0..made /\ lost \subseteq 1..made
    /\ at \in {"stopping", "starting"} => client # 0
    /\ server \in [Clients -> {"none", "starting", "running", "down"}]
    /\ runsOn \in [Clients -> 0..MaxChanges]

RangesOK == NumbersOK /\ HeldOK

\* A cycle that makes a client still finds one: the shutdown behind it is not a start.
LEMMA ClientLeft ==
    ASSUME LspInv, NumbersOK, HeldOK, at = "resolved"
    PROVE  made + 1 \in Clients
<1>1. /\ lifecycleQueue \in Seq({"restart", "stop"}) /\ lifecycleQueue # <<>>
      /\ Head(lifecycleQueue) = "restart"
  BY DEF LspInv, ChainOK, First
<1>2. Len(lifecycleQueue) \in Nat /\ Len(lifecycleQueue) >= 1
  BY <1>1
<1>3. disposed => Len(lifecycleQueue) >= 2
  <2> SUFFICES ASSUME disposed PROVE Len(lifecycleQueue) >= 2
    OBVIOUS
  <2>1. PICK i \in 1..Len(lifecycleQueue) : lifecycleQueue[i] = "stop"
    BY <1>1 DEF LspInv, ShutdownOK, StopQueued
  <2>2. lifecycleQueue[1] = "restart"
    BY <1>1
  <2> QED BY <1>2, <2>1, <2>2
<1>4. made <= interpreter + restarts
  <2>1. made + Len(lifecycleQueue) + Timer <= Asked
    BY DEF NumbersOK, Waiting
  <2>2. Timer \in 0..1 /\ made \in Nat /\ interpreter \in Nat /\ restarts \in Nat
    BY ServersAssumption DEF Timer, NumbersOK, HeldOK
  <2>3. CASE disposed
    BY <1>2, <1>3, <2>1, <2>2, <2>3 DEF Asked
  <2>4. CASE ~disposed
    BY <1>2, <2>1, <2>2, <2>4 DEF Asked
  <2> QED BY <2>3, <2>4
<1> QED BY <1>4, ServersAssumption DEF NumbersOK, HeldOK, Clients

\* What the end of a cycle does to the count.
LEMMA CountAtEnd ==
    ASSUME LspInv, NumbersOK, made \in Nat, CycleEnds, lifecycleQueue # <<>>,
           UNCHANGED <<interpreter, disposed, debounceTimer, made, restarts>>
    PROVE  made' + Waiting' + Timer' <= Asked'
<1>1. lifecycleQueue \in Seq({"restart", "stop"})
  BY DEF LspInv, ChainOK
<1>2. Len(lifecycleQueue) \in Nat /\ Len(lifecycleQueue') = Len(lifecycleQueue) - 1
  BY <1>1 DEF CycleEnds
<1>3. at' # "starting"
  BY DEF CycleEnds
<1>4. Waiting' = Len(lifecycleQueue) - 1 /\ Waiting >= Len(lifecycleQueue) - 1 /\ Waiting \in Int
  BY <1>2, <1>3 DEF Waiting
<1>5. Timer' = Timer /\ Asked' = Asked /\ Timer \in Int /\ Asked \in Int
  BY ServersAssumption DEF Timer, Asked, NumbersOK
<1> QED BY <1>4, <1>5 DEF NumbersOK

\* Nor does a cycle that moves on, unless it makes a client.
LEMMA CountMoving ==
    ASSUME LspInv, NumbersOK, NEW to, to # "starting", MovesOn(to), at # "starting",
           UNCHANGED <<interpreter, disposed, debounceTimer, made, restarts>>
    PROVE  made' + Waiting' + Timer' <= Asked'
<1>1. Waiting' = Waiting /\ Timer' = Timer /\ Asked' = Asked
  BY DEF MovesOn, Waiting, Timer, Asked
<1> QED BY <1>1 DEF NumbersOK

\* One more in the queue.
LEMMA CountQueued ==
    ASSUME LspInv, NEW x \in {"restart", "stop"}, lifecycleQueue' = Append(lifecycleQueue, x),
           at' = at
    PROVE  Waiting' = Waiting + 1 /\ Waiting \in Int
<1>1. Len(lifecycleQueue) \in Nat /\ Len(lifecycleQueue') = Len(lifecycleQueue) + 1
  BY DEF LspInv, ChainOK
<1> QED BY <1>1 DEF Waiting

LEMMA CycleInRange ==
    ASSUME LspInv, RangesOK, Cycle
    PROVE  RangesOK'
<1>0. made \in Nat /\ ~(at = "queued" /\ at = "starting")
  BY ServersAssumption DEF RangesOK, HeldOK
<1>1. CASE Skip
  <2>1. made' + Waiting' + Timer' <= Asked'
    BY <1>0, <1>1, CountAtEnd DEF Skip, Skipped, First, RangesOK
  <2> QED BY <1>1, <2>1 DEF Skip, CycleEnds, RangesOK, NumbersOK, HeldOK
<1>2. CASE BeginCycle
  <2>1. made' + Waiting' + Timer' <= Asked'
    BY <1>0, <1>2, CountAtEnd, CountMoving DEF BeginCycle, RangesOK
  <2>2. at' = "stopping" => client # 0
    BY <1>2 DEF BeginCycle, MovesOn, CycleEnds
  <2>3. at' # "starting"
    BY <1>2 DEF BeginCycle, MovesOn, CycleEnds
  <2> QED BY <1>2, <2>1, <2>2, <2>3 DEF BeginCycle, RangesOK, NumbersOK, HeldOK
<1>3. CASE Stopped
  <2>1. made' + Waiting' + Timer' <= Asked'
    BY <1>0, <1>3, CountAtEnd, CountMoving DEF Stopped, LspInv, ChainOK, RangesOK
  <2>2. at' \notin {"stopping", "starting"}
    BY <1>3 DEF Stopped, MovesOn, CycleEnds
  <2>3. client' = 0 /\ lost' = lost
    BY <1>3 DEF Stopped, Drops
  <2>4. server' \in [Clients -> {"none", "starting", "running", "down"}]
    BY <1>3 DEF Stopped, RangesOK, HeldOK
  <2> QED BY <1>0, <1>3, <2>1, <2>2, <2>3, <2>4 DEF Stopped, RangesOK, NumbersOK, HeldOK
<1>4. CASE StopFails \/ StartFails
  <2>1. /\ CycleEnds /\ lifecycleQueue # <<>> /\ client # 0 /\ client' = 0
        /\ lost' = lost \/ lost' = lost \cup {client}
        /\ UNCHANGED <<interpreter, disposed, debounceTimer, using, made, server, runsOn, restarts>>
    BY <1>4 DEF StopFails, StartFails, Drops, LspInv, ChainOK, RangesOK, HeldOK
  <2>2. made' + Waiting' + Timer' <= Asked'
    BY <1>0, <2>1, CountAtEnd DEF RangesOK
  <2>3. failures' \in 0..MaxFailures
    <3>1. Failure \/ failures' = failures
      BY <1>4 DEF StopFails, StartFails
    <3> QED BY <3>1, ServersAssumption DEF Failure, RangesOK, NumbersOK
  <2>4. lost' \subseteq 1..made
    <3>1. client \in 1..made
      BY <1>0, <2>1 DEF RangesOK, HeldOK
    <3> QED BY <2>1, <3>1 DEF RangesOK, HeldOK
  <2>5. at' = "queued"
    BY <2>1 DEF CycleEnds
  <2> QED BY <1>0, <2>1, <2>2, <2>3, <2>4, <2>5 DEF RangesOK, NumbersOK, HeldOK
<1>5. CASE ResolveServerOptions
  <2>1. made' + Waiting' + Timer' <= Asked'
    BY <1>5, CountMoving DEF ResolveServerOptions, RangesOK
  <2>2. using' \in 0..interpreter' /\ at' = "resolved"
    BY <1>5, ServersAssumption DEF ResolveServerOptions, MovesOn, RangesOK, NumbersOK
  <2> QED BY <1>5, <2>1, <2>2 DEF ResolveServerOptions, RangesOK, NumbersOK, HeldOK
<1>6. CASE StartClient
  <2>1. made + 1 \in Clients
    BY <1>6, ClientLeft DEF StartClient, RangesOK
  <2>2. made' + Waiting' + Timer' <= Asked'
    <3>1. Len(lifecycleQueue) \in Nat
      BY DEF LspInv, ChainOK
    <3>2. Waiting' = Waiting - 1 /\ Waiting \in Int /\ made' = made + 1
      BY <1>6, <3>1 DEF StartClient, MovesOn, Waiting
    <3>3. Timer' = Timer /\ Asked' = Asked /\ Timer \in Int /\ Asked \in Int
      BY <1>6, ServersAssumption DEF StartClient, Timer, Asked, RangesOK, NumbersOK
    <3> QED BY <1>0, <3>2, <3>3 DEF RangesOK, NumbersOK
  <2>3. made' \in 0..MaxServers /\ client' \in 0..made' /\ client' # 0 /\ lost' \subseteq 1..made'
    BY <1>0, <1>6, <2>1, ServersAssumption DEF StartClient, Clients, RangesOK, HeldOK
  <2>4. server' \in [Clients -> {"none", "starting", "running", "down"}]
    BY <1>6, <2>1 DEF StartClient, RangesOK, HeldOK
  <2>5. using \in 0..MaxChanges
    BY ServersAssumption DEF RangesOK, NumbersOK
  <2>6. runsOn' \in [Clients -> 0..MaxChanges]
    BY <1>6, <2>1, <2>5 DEF StartClient, RangesOK, HeldOK
  <2> QED BY <1>6, <2>2, <2>3, <2>4, <2>6 DEF StartClient, RangesOK, NumbersOK, HeldOK
<1>7. CASE Started
  <2>1. lifecycleQueue # <<>>
    BY <1>7 DEF Started, LspInv, ChainOK
  <2>2. made' + Waiting' + Timer' <= Asked'
    BY <1>0, <1>7, <2>1, CountAtEnd DEF Started, RangesOK
  <2> QED BY <1>7, <2>2 DEF Started, CycleEnds, RangesOK, NumbersOK, HeldOK
<1> QED BY <1>1, <1>2, <1>3, <1>4, <1>5, <1>6, <1>7 DEF Cycle

LEMMA StaysInRange ==
    ASSUME LspInv, RangesOK, [LspNext]_lspVars
    PROVE  RangesOK'
<1>0. /\ made \in Nat /\ interpreter \in Nat /\ restarts \in Nat
      /\ Timer \in {0, 1} /\ Asked \in Int /\ Waiting \in Int
  <2>1. Len(lifecycleQueue) \in Nat
    BY DEF LspInv, ChainOK
  <2> QED BY <2>1, ServersAssumption DEF RangesOK, NumbersOK, HeldOK, Timer, Asked, Waiting
<1>1. CASE InterpreterChanges
  <2>1. interpreter' \in 0..MaxChanges /\ using' \in 0..interpreter'
    BY <1>0, <1>1, ServersAssumption DEF InterpreterChanges, RangesOK, NumbersOK
  <2>2. Waiting' = Waiting /\ Timer' = 1 /\ Asked' = Asked + 1 /\ made' = made
    BY <1>0, <1>1 DEF InterpreterChanges, Waiting, Timer, Asked, RangesOK, NumbersOK
  <2> QED BY <1>0, <1>1, <2>1, <2>2 DEF InterpreterChanges, RangesOK, NumbersOK, HeldOK
<1>2. CASE DebounceFires
  <2>1. Waiting' = Waiting + 1
    BY <1>2, CountQueued DEF DebounceFires, restartServer
  <2>2. Timer = 1 /\ Timer' = 0 /\ Asked' = Asked /\ made' = made
    BY <1>2 DEF DebounceFires, Timer, Asked
  <2>3. made' + Waiting' + Timer' <= Asked'
    BY <1>0, <2>1, <2>2 DEF RangesOK, NumbersOK
  <2>4. HeldOK'
    BY <1>2 DEF DebounceFires, RangesOK, HeldOK
  <2> QED BY <1>2, <2>3, <2>4 DEF DebounceFires, RangesOK, NumbersOK
<1>3. CASE RestartCommand
  <2>1. Waiting' = Waiting + 1
    BY <1>3, CountQueued DEF RestartCommand, restartServer
  <2>2. restarts' \in 0..MaxRestarts
    BY <1>0, <1>3, ServersAssumption DEF RestartCommand, RangesOK, NumbersOK
  <2>3. Timer' = Timer /\ Asked' = Asked + 1 /\ made' = made
    BY <1>0, <1>3 DEF RestartCommand, Timer, Asked
  <2> QED BY <1>0, <1>3, <2>1, <2>2, <2>3 DEF RestartCommand, RangesOK, NumbersOK, HeldOK
<1>4. CASE deactivate
  <2>1. Waiting' = Waiting + 1
    BY <1>4, CountQueued DEF deactivate
  <2>2. Timer' = 0 /\ Asked' = Asked + 1 /\ made' = made
    BY <1>0, <1>4 DEF deactivate, Timer, Asked
  <2>3. made' + Waiting' + Timer' <= Asked'
    BY <1>0, <2>1, <2>2 DEF RangesOK, NumbersOK
  <2>4. HeldOK'
    BY <1>4 DEF deactivate, RangesOK, HeldOK
  <2> QED BY <1>4, <2>3, <2>4 DEF deactivate, RangesOK, NumbersOK
<1>5. CASE Cycle
  BY <1>5, CycleInRange
<1>6. ASSUME NEW s \in Clients, ServerUp(s) \/ ServerCloses(s) PROVE RangesOK'
  <2>1. /\ server' \in [Clients -> {"none", "starting", "running", "down"}]
        /\ UNCHANGED <<interpreter, disposed, debounceTimer, lifecycleQueue, at, using, client,
                       made, runsOn, lost, restarts>>
    BY <1>6 DEF ServerUp, ServerCloses, Becomes, RangesOK, HeldOK
  <2>2. failures' \in 0..MaxFailures
    BY <1>6, ServersAssumption DEF ServerUp, ServerCloses, Failure, RangesOK, NumbersOK
  <2>3. Waiting' = Waiting /\ Timer' = Timer /\ Asked' = Asked
    BY <2>1 DEF Waiting, Timer, Asked
  <2> QED BY <2>1, <2>2, <2>3 DEF RangesOK, NumbersOK, HeldOK
<1>7. CASE UNCHANGED lspVars
  BY <1>7 DEF lspVars, RangesOK, NumbersOK, HeldOK, Waiting, Timer, Asked
<1> QED BY <1>1, <1>2, <1>3, <1>4, <1>5, <1>6, <1>7 DEF LspNext

\* No cycle is without a client to make, and all is in its range: extension.ts makes one for
\* each restart that is not skipped, and the debounce makes one restart of several changes.
THEOREM LspTypeCorrect == LspSpec => []LspTypeOK
<1>1. LspInit => RangesOK
  <2> SUFFICES ASSUME LspInit PROVE RangesOK
    OBVIOUS
  <2>1. Waiting = 1 /\ Timer = 0 /\ Asked = 1
    <3>1. Len(lifecycleQueue) = 1
      BY DEF LspInit
    <3> QED BY <3>1 DEF LspInit, Waiting, Timer, Asked
  <2>2. NumbersOK
    <3>1. disposed \in BOOLEAN /\ debounceTimer \in BOOLEAN
      BY DEF LspInit
    <3>2. interpreter = 0 /\ using = 0 /\ made = 0 /\ restarts = 0 /\ failures = 0
      BY DEF LspInit
    <3>3. 0 \in 0..MaxChanges /\ 0 \in 0..0 /\ 0 \in 0..MaxRestarts /\ 0 \in 0..MaxFailures
      BY ServersAssumption
    <3>4. made + Waiting + Timer <= Asked
      BY <2>1, <3>2
    <3> QED BY <3>1, <3>2, <3>3, <3>4 DEF NumbersOK
  <2>3. HeldOK
    BY ServersAssumption DEF LspInit, HeldOK
  <2> QED BY <2>2, <2>3 DEF RangesOK
<1>2. LspInv /\ RangesOK /\ [LspNext]_lspVars => RangesOK'
  BY StaysInRange
<1>3. LspInv /\ RangesOK => LspTypeOK
  <2> SUFFICES ASSUME LspInv, RangesOK PROVE LspTypeOK
    OBVIOUS
  <2>1. \A i \in DOMAIN lifecycleQueue : lifecycleQueue[i] \in {"restart", "stop"}
    BY DEF LspInv, ChainOK
  <2> QED BY <2>1 DEF LspInv, ChainOK, RangesOK, NumbersOK, HeldOK, LspTypeOK
<1> QED BY <1>1, <1>2, <1>3, ChainSound, PTL DEF LspSpec

-----------------------------------------------------------------------------
(* The diagram, the links and the badges *)

\* Ranges; the panel has the name of the workflow chosen for it, and neither without the other.
PanelInv ==
    /\ workflows \in Listings /\ quickPick \in Listings /\ round \in 1..MaxRounds
    /\ refreshing \in BOOLEAN /\ currentWorkflowName \in Flows \cup {Nil}
    /\ dag \in [title : Flows \cup {Nil}, of : Flows \cup {Nil}, drawn : 0..MaxRounds]
    /\ dag = NoDag <=> currentWorkflowName = Nil
    /\ dag # NoDag => dag.title = currentWorkflowName
    /\ dag # NoDag /\ currentWorkflowName \in Range(workflows) /\ ~refreshing =>
          dag.of = currentWorkflowName /\ dag.drawn = round

-----------------------------------------------------------------------------
(* What is found *)

\* The workflows listed are a sequence of some of them.
LEMMA ListingsAre ==
    ASSUME NEW s \in Listings
    PROVE  s \in Seq(Flows) /\ DOMAIN s = 1..Len(s) /\ Len(s) \in Nat /\ Range(s) \subseteq Flows
           /\ \A w \in Range(s) : \E i \in 1..Len(s) : s[i] = w
<1>1. PICK n \in 0..Cardinality(Flows) : s \in [1..n -> Flows]
  BY DEF Listings
<1>2. Cardinality(Flows) \in Nat
  BY ViewsAssumption, FS_CardinalityType
<1>3. n \in Nat
  BY <1>1, <1>2
<1>4. s \in Seq(Flows) /\ Len(s) = n
  BY <1>1, <1>3
<1> QED BY <1>1, <1>3, <1>4 DEF Range

\* A list may be empty.
LEMMA NoneListed == <<>> \in Listings
<1>1. Cardinality(Flows) \in Nat /\ 0 \in 0..Cardinality(Flows)
  BY ViewsAssumption, FS_CardinalityType
<1>2. <<>> \in [1..0 -> Flows]
  OBVIOUS
<1>3. IsInjective(<<>>)
  BY DEF IsInjective
<1> QED BY <1>1, <1>2, <1>3 DEF Listings

\* The first of some places in a sequence is one of them.
LEMMA FirstOf ==
    ASSUME NEW n \in Nat, NEW S, S \subseteq 1..n, S # {}
    PROVE  Min(S) \in S /\ \A j \in S : Min(S) <= j
<1> DEFINE less == {p \in Nat \X Nat : p[1] < p[2]}
<1>1. IsWellFoundedOn(less, Nat)
  BY NatLessThanWellFounded, Zenon DEF OpToRel
<1>2. S \subseteq Nat
  OBVIOUS
<1> HIDE DEF less
<1>3. PICK i \in S : \A j \in S : ~(<<j, i>> \in less)
  BY <1>1, <1>2, WFMin
<1>4. ASSUME NEW j \in S PROVE i <= j
  <2> DEFINE p == <<j, i>>
  <2>1. p \in Nat \X Nat /\ p[1] = j /\ p[2] = i
    BY <1>2
  <2>2. p \notin less
    BY <1>3
  <2> HIDE DEF p
  <2> QED BY <1>2, <2>1, <2>2 DEF less
<1> QED BY <1>4 DEF Min

\* A link finds the action of the workflow, if no other workflow has one of its name.
LEMMA LinkFinds ==
    ASSUME workflows \in Listings, NEW w \in Range(workflows), NEW a \in Range(actionsOf[w]),
           ~Shared(a)
    PROVE  provideCodeLenses(a) = <<w, a>>
<1>1. /\ workflows \in Seq(Flows) /\ DOMAIN workflows = 1..Len(workflows) /\ Len(workflows) \in Nat
      /\ Range(workflows) \subseteq Flows /\ \E i \in 1..Len(workflows) : workflows[i] = w
  BY ListingsAre
<1> DEFINE having == {i \in DOMAIN workflows : a \in Range(actionsOf[workflows[i]])}
           bearers == {v \in Range(workflows) : a \in Range(actionsOf[v])}
<1>2. having # {} /\ having \subseteq 1..Len(workflows)
  BY <1>1
<1>3. Min(having) \in having
  BY <1>1, <1>2, FirstOf
<1> DEFINE v == workflows[Min(having)]
<1>4. v \in bearers /\ w \in bearers
  BY <1>3 DEF Range
<1>5. v = w
  <2> SUFFICES ASSUME v # w PROVE FALSE
    OBVIOUS
  <2>1. IsFiniteSet(bearers) /\ Cardinality(bearers) \in Nat
    BY <1>1, ViewsAssumption, FS_Subset, FS_CardinalityType
  <2>2. IsFiniteSet({w}) /\ Cardinality({w}) = 1
    BY FS_Singleton
  <2>3. {w} \subseteq bearers /\ {w} # bearers
    BY <1>4
  <2>4. Cardinality({w}) <= Cardinality(bearers) /\ Cardinality({w}) # Cardinality(bearers)
    BY <2>1, <2>2, <2>3, FS_Subset, Zenon
  <2> QED BY <2>1, <2>2, <2>4 DEF Shared
<1> QED BY <1>2, <1>5 DEF provideCodeLenses, getActionByName

\* A badge is of the action the folder belongs to, if no other's folder begins its name.
LEMMA BadgeFinds ==
    ASSUME workflows \in Listings, NEW w \in Range(workflows), NEW a \in Range(actionsOf[w]),
           ~Crowded(w, a)
    PROVE  provideFileDecoration(rootOf[w], a) = <<w, a>>
<1>1. /\ workflows \in Seq(Flows) /\ DOMAIN workflows = 1..Len(workflows) /\ Len(workflows) \in Nat
      /\ Range(workflows) \subseteq Flows /\ \E i \in 1..Len(workflows) : workflows[i] = w
  BY ListingsAre
<1> DEFINE q(v)   == actionsOf[v]
           pre(v) == Prefixing(v, rootOf[w], a)
           having == {i \in DOMAIN workflows : pre(workflows[i]) # {}}
           first  == workflows[Min(having)]
\* Only w has such an action, and it is a.
<1>2. ASSUME NEW v \in Range(workflows), NEW i \in pre(v) PROVE v = w /\ q(v)[i] = a
  <2>1. q(v)[i] \in Range(q(v)) /\ rootOf[v] = rootOf[w]
        /\ (q(v)[i] = a \/ <<q(v)[i], a>> \in Longer)
    BY DEF Prefixing, Range
  <2> QED BY <2>1 DEF Crowded
<1>3. pre(w) # {} /\ pre(w) \subseteq DOMAIN q(w)
  BY DEF Prefixing, Range
<1>4. having # {} /\ having \subseteq 1..Len(workflows)
  BY <1>1, <1>3
<1>5. Min(having) \in having
  BY <1>1, <1>4, FirstOf
<1>6. first \in Range(workflows) /\ pre(first) # {}
  BY <1>5 DEF Range
<1>7. first = w
  BY <1>2, <1>6
<1>8. q(w) \in Seq(Range(q(w)))
  BY <1>1, ViewsAssumption
<1>9. DOMAIN q(w) = 1..Len(q(w)) /\ Len(q(w)) \in Nat
  BY <1>8
<1>10. Min(pre(w)) \in pre(w)
  <2> HIDE DEF pre
  <2> QED BY <1>3, <1>9, FirstOf
<1>11. q(w)[Min(pre(w))] = a
  BY <1>2, <1>10
<1>12. provideFileDecoration(rootOf[w], a) = <<first, q(first)[Min(pre(first))]>>
  BY <1>4 DEF provideFileDecoration, getActionByPath
<1> HIDE DEF first, pre
<1> QED BY <1>7, <1>11, <1>12

-----------------------------------------------------------------------------
(* The panel *)

\* A diagram that is drawn is of the workflow chosen, if that is listed, and as last published.
LEMMA Drawn ==
    ASSUME NEW STATE p, p \in [title : Flows \cup {Nil}, of : Flows \cup {Nil}, drawn : 0..MaxRounds],
           p # NoDag, p.title # Nil, workflows' \in Listings, round' \in 1..MaxRounds
    PROVE  /\ update(p) \in [title : Flows \cup {Nil}, of : Flows \cup {Nil}, drawn : 0..MaxRounds]
           /\ update(p) # NoDag /\ update(p).title = p.title
           /\ currentWorkflowName' \in Range(workflows') =>
                 update(p).of = currentWorkflowName' /\ update(p).drawn = round'
<1>1. round' \in 0..MaxRounds
  BY ViewsAssumption
<1>2. ASSUME NEW w \in Flows
      PROVE  /\ buildMermaidDiagram(p, w) \in [title : Flows \cup {Nil}, of : Flows \cup {Nil},
                                                drawn : 0..MaxRounds]
             /\ buildMermaidDiagram(p, w).title = p.title
             /\ buildMermaidDiagram(p, w).of = w /\ buildMermaidDiagram(p, w).drawn = round'
  BY <1>1 DEF buildMermaidDiagram
<1>3. Range(workflows') \subseteq Flows /\ workflows' \in Seq(Flows)
  BY ListingsAre
<1>4. CASE workflows' = <<>>
  BY <1>4 DEF update, Range
<1>5. CASE workflows' # <<>> /\ currentWorkflowName' \in Range(workflows')
  <2>1. update(p) = buildMermaidDiagram(p, currentWorkflowName') /\ currentWorkflowName' \in Flows
    BY <1>3, <1>5 DEF update
  <2> QED BY <1>2, <2>1 DEF NoDag
<1>6. CASE workflows' # <<>> /\ currentWorkflowName' \notin Range(workflows')
  <2>1. update(p) = buildMermaidDiagram(p, workflows'[1]) /\ workflows'[1] \in Flows
    BY <1>3, <1>6 DEF update
  <2> QED BY <1>2, <1>6, <2>1 DEF NoDag
<1> QED BY <1>4, <1>5, <1>6

\* The chosen workflow's diagram takes the place of the other, or of nothing.
LEMMA WorkflowShown ==
    ASSUME PanelInv, NEW w \in Flows, showWorkflow(w), quickPick' \in Listings
    PROVE  PanelInv'
<1> DEFINE p == [dag EXCEPT !.title = w]
<1>1. /\ workflows' = workflows /\ round' = round /\ refreshing' = refreshing
      /\ currentWorkflowName' = w /\ dag' = update(p)
  BY DEF showWorkflow
<1>2. p \in [title : Flows \cup {Nil}, of : Flows \cup {Nil}, drawn : 0..MaxRounds]
      /\ p.title = w
  BY DEF PanelInv
<1>3. w # Nil
  BY ViewsAssumption
<1>4. p # NoDag /\ workflows' \in Listings /\ round' \in 1..MaxRounds
  BY <1>1, <1>2, <1>3 DEF NoDag, PanelInv
<1> HIDE DEF p
<1>5. /\ dag' \in [title : Flows \cup {Nil}, of : Flows \cup {Nil}, drawn : 0..MaxRounds]
      /\ dag' # NoDag /\ dag'.title = w
      /\ currentWorkflowName' \in Range(workflows') =>
            dag'.of = currentWorkflowName' /\ dag'.drawn = round'
  BY <1>1, <1>2, <1>3, <1>4, Drawn
<1> QED BY <1>1, <1>3, <1>4, <1>5 DEF PanelInv, NoDag

\* The listeners are told, or the theme changes.
LEMMA Redrawn ==
    ASSUME PanelInv, dag' = update(dag), refreshing' \in BOOLEAN,
           UNCHANGED <<workflows, round, quickPick, currentWorkflowName>>
    PROVE  PanelInv'
<1>1. CASE dag = NoDag
  <2>1. dag' = NoDag
    BY <1>1 DEF update
  <2> QED BY <1>1, <2>1 DEF PanelInv, NoDag
<1>2. CASE dag # NoDag
  <2>1. /\ dag' \in [title : Flows \cup {Nil}, of : Flows \cup {Nil}, drawn : 0..MaxRounds]
        /\ dag' # NoDag /\ dag'.title = dag.title
        /\ currentWorkflowName' \in Range(workflows') =>
              dag'.of = currentWorkflowName' /\ dag'.drawn = round'
    BY <1>2, Drawn DEF PanelInv
  <2> QED BY <1>2, <2>1 DEF PanelInv, NoDag
<1> QED BY <1>1, <1>2

LEMMA PanelStep ==
    ASSUME PanelInv, [ViewsNext]_viewsVars
    PROVE  PanelInv'
<1>1. CASE Publish
  <2>1. /\ workflows' \in Listings /\ round' \in 1..MaxRounds /\ refreshing' = TRUE
        /\ UNCHANGED <<quickPick, dag, currentWorkflowName>>
    BY <1>1, ViewsAssumption DEF Publish, PanelInv
  <2> QED BY <2>1 DEF PanelInv, NoDag
<1>2. CASE Fire
  BY <1>2, Redrawn DEF Fire
<1>3. CASE ThemeChanges
  BY <1>3, Redrawn DEF ThemeChanges, PanelInv
<1>4. CASE show
  <2>1. CASE Len(workflows) = 1 /\ showWorkflow(workflows[1]) /\ UNCHANGED quickPick
    <3>1. DOMAIN workflows = 1..Len(workflows) /\ Range(workflows) \subseteq Flows
      BY ListingsAre DEF PanelInv
    <3>2. workflows[1] \in Range(workflows)
      BY <2>1, <3>1 DEF Range
    <3> DEFINE w == workflows[1]
    <3>3. w \in Flows /\ showWorkflow(w) /\ quickPick' \in Listings
      BY <2>1, <3>1, <3>2 DEF PanelInv
    <3> HIDE DEF w
    <3>4. PICK v \in Flows : showWorkflow(v)
      BY <3>3
    <3> QED BY <3>3, <3>4, WorkflowShown
  <2>2. CASE /\ quickPick' = workflows
             /\ UNCHANGED <<workflows, round, refreshing, dag, currentWorkflowName>>
    BY <2>2 DEF PanelInv, NoDag
  <2> QED BY <1>4, <2>1, <2>2 DEF show
<1>5. CASE Dismiss
  <2>1. <<>> \in Listings
    BY <1>5, NoneListed
  <2> QED BY <1>5, <2>1 DEF Dismiss, PanelInv, NoDag
<1>6. CASE Close
  BY <1>6, ViewsAssumption DEF Close, PanelInv, NoDag
<1>7. ASSUME NEW w \in Flows, Pick(w) PROVE PanelInv'
  <2>1. quickPick' \in Listings
    BY <1>7, NoneListed DEF Pick
  <2> QED BY <1>7, <2>1, WorkflowShown DEF Pick
<1>8. CASE UNCHANGED viewsVars
  BY <1>8 DEF viewsVars, PanelInv, NoDag
<1> QED BY <1>1, <1>2, <1>3, <1>4, <1>5, <1>6, <1>7, <1>8 DEF ViewsNext

\* The diagram follows the workflow chosen, whatever is published: DagWebview of
\* views/dagWebview.ts, told by WorkflowModel.refresh after the list has changed.
THEOREM DiagramFollows == ViewsSpec => []PanelInv
<1>1. ViewsInit => PanelInv
  <2> SUFFICES ASSUME ViewsInit PROVE PanelInv
    OBVIOUS
  <2>1. <<>> \in Listings
    BY NoneListed
  <2>2. 1 \in 1..MaxRounds /\ 0 \in 0..MaxRounds
    BY ViewsAssumption
  <2>3. dag = NoDag /\ currentWorkflowName = Nil
    BY DEF ViewsInit
  <2>4. dag \in [title : Flows \cup {Nil}, of : Flows \cup {Nil}, drawn : 0..MaxRounds]
    BY <2>2, <2>3 DEF NoDag
  <2> QED BY <2>1, <2>2, <2>3, <2>4 DEF ViewsInit, PanelInv
<1>2. PanelInv /\ [ViewsNext]_viewsVars => PanelInv'
  BY PanelStep
<1> QED BY <1>1, <1>2, PTL DEF ViewsSpec

\* The types, and that the panel is there exactly while a workflow is chosen.
THEOREM ViewsTypeCorrect == ViewsSpec => []ViewsTypeOK
<1>1. PanelInv => ViewsTypeOK
  BY DEF PanelInv, ViewsTypeOK
<1> QED BY <1>1, DiagramFollows, PTL

\* The panel shows the workflow it is named for, as last published; a link is of the action
\* of that workflow unless another has one of its name, and a badge unless another's folder is
\* the same or has a name that begins its own.
THEOREM ViewsTell == ViewsSpec => []ViewsHonest
<1>1. PanelInv => ViewsHonest
  <2> SUFFICES ASSUME PanelInv PROVE ViewsHonest
    OBVIOUS
  <2>1. workflows \in Listings
    BY DEF PanelInv
  <2>2. ASSUME NEW w \in Range(workflows), NEW a \in Range(actionsOf[w])
        PROVE  /\ ~Shared(a) => provideCodeLenses(a) = <<w, a>>
               /\ ~Crowded(w, a) => provideFileDecoration(rootOf[w], a) = <<w, a>>
    BY <2>1, LinkFinds, BadgeFinds
  <2>3. dag # NoDag /\ currentWorkflowName \in Range(workflows) =>
          /\ dag.title = currentWorkflowName
          /\ ~refreshing => dag.of = currentWorkflowName /\ dag.drawn = round
    BY DEF PanelInv
  <2> QED BY <2>2, <2>3 DEF ViewsHonest
<1> QED BY <1>1, DiagramFollows, PTL

-----------------------------------------------------------------------------
(* The row of a workflow in the tree *)

\* No other status than those there are.
LEMMA StatusesAre == RowsSpec => [](statuses \in [Shown -> ActionStatus])
<1>1. RowsInit => statuses \in [Shown -> ActionStatus]
  BY DEF RowsInit
<1>2. statuses \in [Shown -> ActionStatus] /\ [RowsNext]_statuses
      => (statuses \in [Shown -> ActionStatus])'
  BY DEF RowsNext, Update
<1> QED BY <1>1, <1>2, PTL DEF RowsSpec

\* The row has the status of the first rank that is there, or tells whether all is over.
LEMMA RollsUp ==
    /\ Has("running") => rollupStatus = "running"
    /\ ~Has("running") /\ Has("checking_batch") => rollupStatus = "checking_batch"
    /\ ~Has("running") /\ ~Has("checking_batch") => LET row == rollupStatus IN
          /\ Has("batch_submitted") => row = "batch_submitted"
          /\ ~Has("batch_submitted") /\ Has("failed") => row = "failed"
          /\ ~Has("batch_submitted") /\ ~Has("failed") =>
                /\ Has("interrupted") => row = "interrupted"
                /\ ~Has("interrupted") /\ Has("completed_with_failures")
                      => row = "completed_with_failures"
                /\ ~Has("interrupted") /\ ~Has("completed_with_failures")
                      => row = IF Only(SETTLED) THEN "completed" ELSE "pending"
<1> DEFINE rank == ROLLUP_PRECEDENCE
           ranks == {i \in DOMAIN rank : Has(rank[i])}
<1>1. /\ DOMAIN rank = 1..6
      /\ rank[1] = "running" /\ rank[2] = "checking_batch" /\ rank[3] = "batch_submitted"
      /\ rank[4] = "failed" /\ rank[5] = "interrupted" /\ rank[6] = "completed_with_failures"
  BY DEF ROLLUP_PRECEDENCE
<1>2. rollupStatus = IF ranks # {} THEN rank[Min(ranks)]
                     ELSE IF Only(SETTLED) THEN "completed" ELSE "pending"
  BY DEF rollupStatus
<1>3. ASSUME ranks # {}
      PROVE  Min(ranks) \in ranks /\ \A j \in ranks : Min(ranks) <= j
  <2>1. ranks \subseteq 1..6
    BY <1>1
  <2> HIDE DEF ranks
  <2> QED BY <1>3, <2>1, FirstOf
<1>4. \A i \in 1..6 : i \in ranks <=> Has(rank[i])
  BY <1>1
<1>5. ranks \subseteq 1..6
  BY <1>1
<1> HIDE DEF ranks, rank
<1>6. ASSUME NEW i \in 1..6, Has(rank[i]), \A j \in 1..6 : j < i => ~Has(rank[j])
      PROVE  rollupStatus = rank[i]
  <2>1. i \in ranks /\ \A j \in ranks : ~(j < i)
    BY <1>4, <1>5, <1>6
  <2>2. Min(ranks) \in 1..6 /\ Min(ranks) <= i /\ ~(Min(ranks) < i)
    BY <1>3, <1>5, <2>1
  <2>3. Min(ranks) = i
    BY <2>2
  <2> QED BY <1>2, <2>1, <2>3
<1>7. ASSUME \A j \in 1..6 : ~Has(rank[j])
      PROVE  rollupStatus = IF Only(SETTLED) THEN "completed" ELSE "pending"
  BY <1>2, <1>4, <1>5, <1>7
<1>8. /\ \A j \in 1..6 : ~(j < 1)
      /\ \A j \in 1..6 : j < 2 => j = 1
      /\ \A j \in 1..6 : j < 3 => j \in {1, 2}
      /\ \A j \in 1..6 : j < 4 => j \in {1, 2, 3}
      /\ \A j \in 1..6 : j < 5 => j \in {1, 2, 3, 4}
      /\ \A j \in 1..6 : j < 6 => j \in {1, 2, 3, 4, 5}
      /\ \A j \in 1..6 : j \in {1, 2, 3, 4, 5, 6}
      /\ 1 \in 1..6 /\ 2 \in 1..6 /\ 3 \in 1..6 /\ 4 \in 1..6 /\ 5 \in 1..6 /\ 6 \in 1..6
  OBVIOUS
<1>9. /\ Has("running") => rollupStatus = "running"
      /\ ~Has("running") /\ Has("checking_batch") => rollupStatus = "checking_batch"
  <2>1. CASE Has("running")
    BY <1>1, <1>6, <1>8, <2>1
  <2>2. CASE ~Has("running") /\ Has("checking_batch")
    BY <1>1, <1>6, <1>8, <2>2
  <2> QED BY <2>1, <2>2
<1>10. ASSUME ~Has("running"), ~Has("checking_batch"), Has("batch_submitted")
       PROVE  rollupStatus = "batch_submitted"
  BY <1>1, <1>6, <1>8, <1>10
<1>11. ASSUME ~Has("running"), ~Has("checking_batch"), ~Has("batch_submitted"), Has("failed")
       PROVE  rollupStatus = "failed"
  BY <1>1, <1>6, <1>8, <1>11
<1>12. ASSUME ~Has("running"), ~Has("checking_batch"), ~Has("batch_submitted"), ~Has("failed"),
              Has("interrupted")
       PROVE  rollupStatus = "interrupted"
  BY <1>1, <1>6, <1>8, <1>12
<1>13. ASSUME ~Has("running"), ~Has("checking_batch"), ~Has("batch_submitted"), ~Has("failed"),
              ~Has("interrupted")
       PROVE  /\ Has("completed_with_failures") => rollupStatus = "completed_with_failures"
              /\ ~Has("completed_with_failures")
                    => rollupStatus = IF Only(SETTLED) THEN "completed" ELSE "pending"
  <2>1. CASE Has("completed_with_failures")
    BY <1>1, <1>6, <1>8, <1>13, <2>1
  <2>2. CASE ~Has("completed_with_failures")
    BY <1>1, <1>7, <1>8, <1>13, <2>2
  <2> QED BY <2>1, <2>2
<1> QED BY <1>9, <1>10, <1>11, <1>12, <1>13

\* None is counted exactly if there is none.
LEMMA CountIsHas ==
    ASSUME NEW s
    PROVE  Count(s) \in Nat /\ (Count(s) = 0 <=> ~Has(s))
<1> DEFINE bearing == {a \in Shown : statuses[a] = s}
<1>1. IsFiniteSet(bearing)
  BY RowsAssumption, FS_Subset
<1>2. Cardinality(bearing) \in Nat /\ (Cardinality(bearing) = 0 <=> bearing = {})
  BY <1>1, FS_CardinalityType, FS_EmptySet
<1>3. bearing = {} <=> ~Has(s)
  BY DEF Has
<1> QED BY <1>2, <1>3 DEF Count

\* What is said beside the count: what runs, or, when nothing does, the first trouble.
LEMMA SummaryTells ==
    /\ Has("running") <=> formatWorkflowSummary \in {"running", "several"}
    /\ ~Has("running") /\ rollupStatus \notin {"batch_submitted", "checking_batch"} =>
          /\ Has("failed") => formatWorkflowSummary = "failed"
          /\ ~Has("failed") /\ ~Has("interrupted") /\ Has("skipped")
                => formatWorkflowSummary = "skipped"
<1>1. Count("running") \in Nat /\ (Count("running") = 0 <=> ~Has("running"))
  BY CountIsHas
<1>2. CASE Has("running")
  <2>1. Count("running") > 1 \/ (~(Count("running") > 1) /\ Count("running") = 1)
    BY <1>1, <1>2
  <2>2. formatWorkflowSummary \in {"running", "several"}
    BY <2>1 DEF formatWorkflowSummary
  <2> QED BY <1>2, <2>2
<1>3. CASE ~Has("running")
  <2>1. ~(Count("running") > 1) /\ Count("running") # 1
    BY <1>1, <1>3
  <2>2. formatWorkflowSummary =
         IF rollupStatus \in {"batch_submitted", "checking_batch"} THEN "awaiting batch"
         ELSE IF Has("failed") THEN "failed"
         ELSE IF Has("interrupted") THEN "interrupted"
         ELSE IF Has("skipped") THEN "skipped" ELSE "nothing"
    BY <2>1 DEF formatWorkflowSummary
  <2> QED BY <1>3, <2>2
<1> QED BY <1>2, <1>3

\* The collapsed row and the status bar tell the truth about any actions, in any statuses.
THEOREM RowsTell == RowsSpec => []RowHonest
<1>1. statuses \in [Shown -> ActionStatus] => RowHonest
  <2> SUFFICES ASSUME statuses \in [Shown -> ActionStatus] PROVE RowHonest
    OBVIOUS
  <2> DEFINE row == rollupStatus
  <2>1. Only({"completed"}) => Only(SETTLED) /\ \A s \in ActionStatus \ {"completed"} : ~Has(s)
    BY DEF Only, SETTLED, Has
  <2>2. Only(SETTLED) => \A s \in ActionStatus \ SETTLED : ~Has(s)
    BY DEF Only, Has
  <2>3. /\ row = "running" <=> Has("running")
        /\ row = "checking_batch" => Has("checking_batch")
        /\ row = "completed" => Only(SETTLED) /\ ~Has("running") /\ ~Has("failed")
                                /\ ~Has("interrupted")
        /\ row = "failed" => ~Has("running") /\ Has("failed")
        /\ Only({"completed"}) => row = "completed"
        /\ Has("checking_batch") => row \in {"running", "checking_batch"}
        /\ Has("failed") \/ Has("interrupted")
              => row \in {"running", "checking_batch", "batch_submitted", "failed", "interrupted"}
        /\ row \in {"running", "checking_batch", "batch_submitted", "failed", "interrupted",
                    "completed_with_failures", "completed", "pending"}
    BY <2>1, RollsUp DEF ActionStatus
  <2> HIDE DEF row
  <2>4. /\ workflowSortRank(row) = 0 <=> row \in {"running", "checking_batch"}
        /\ row \in {"running", "checking_batch", "batch_submitted", "failed", "interrupted"}
              => workflowSortRank(row) < 4
    BY <2>3 DEF workflowSortRank
  <2>5. /\ getStatusLabel(row) = "completed" <=> row = "completed"
        /\ getStatusLabel(row) = "running" <=> row = "running"
    BY <2>3 DEF getStatusLabel
  <2>6. /\ statusBar = "spinning" <=> Has("running")
        /\ statusBar = "check-all" => Only({"completed"})
    BY DEF statusBar
  <2>7. /\ Has("running") <=> formatWorkflowSummary \in {"running", "several"}
        /\ ~Has("running") /\ row \notin {"batch_submitted", "checking_batch"} =>
              /\ Has("failed") => formatWorkflowSummary = "failed"
              /\ ~Has("failed") /\ ~Has("interrupted") /\ Has("skipped")
                    => formatWorkflowSummary = "skipped"
    BY SummaryTells DEF row
  <2>8. RowHonest <=>
          /\ workflowSortRank(row) = 0 <=> Has("running") \/ Has("checking_batch")
          /\ Has("failed") \/ Has("interrupted") => workflowSortRank(row) < 4
          /\ getStatusLabel(row) = "completed" =>
                Only(SETTLED) /\ (Has("skipped") => formatWorkflowSummary = "skipped")
          /\ Has("running") <=> formatWorkflowSummary \in {"running", "several"}
          /\ row = "failed" => formatWorkflowSummary = "failed"
          /\ statusBar = "spinning" <=> getStatusLabel(row) = "running"
          /\ statusBar = "check-all" => row = "completed"
    BY DEF RowHonest, row
  <2> QED BY <2>3, <2>4, <2>5, <2>6, <2>7, <2>8
<1> QED BY <1>1, StatusesAre, PTL

-----------------------------------------------------------------------------
(* The panel and the document in its webview.  Nothing orders the two channels between   *)
(* them; what is proved is that the last thing sent to the webview carries what the panel *)
(* pages from, and that it gets there.                                                    *)

Messages == [kind : {"message"}, shown : Payloads]
Reports == [type : {"ready", "next", "previous"}, from : Nat]
Tasks == [at : {"none", "fetch", "traces", "over"}, name : Names \cup {None}, offset : Nat,
          page : Payloads \cup {None}]

-----------------------------------------------------------------------------
(* What holds of the panel, the document and what is between them *)

\* What the commands work with.
CommandsOK ==
    /\ store \in [Names -> [real : 0..MaxRecords, reported : 0..MaxRecords]]
    /\ asked \in 0..MaxAsks /\ writes \in 0..MaxWrites /\ mishaps \in 0..MaxMishaps
    /\ tasks \in [1..MaxAsks -> Tasks]
    /\ \A i \in 1..MaxAsks : /\ tasks[i].at = "fetch" => tasks[i].name \in Names
                             /\ tasks[i].at = "traces" => tasks[i].page \in Payloads

\* Documents go out numbered, and the one in the webview is older than those on their way.
ChannelsOK ==
    /\ toView \in Seq(Docs \cup Messages) /\ toHost \in Seq(Reports)
    /\ page \in Docs \cup {None} /\ documents \in Nat
    /\ page # None => page.number \in 1..documents
    /\ \A i \in 1..Len(toView) : toView[i].kind # "message" =>
          /\ toView[i].number \in 1..documents /\ ~toView[i].mounted
          /\ page # None => page.number < toView[i].number
          /\ \A j \in 1..Len(toView) :
                i < j /\ toView[j].kind # "message" => toView[i].number < toView[j].number

\* The webview has the newest document, loaded, and it is the app.
Loaded == page # None /\ page.number = documents /\ page.mounted /\ page.kind = "app"

\* The newest document reported ready, and the panel has not heard of it.
Reported == \E i \in 1..Len(toHost) : toHost[i].type = "ready" /\ toHost[i].from = documents

ReportsOK ==
    /\ \A i \in 1..Len(toHost) : toHost[i].from \in 1..documents
    /\ Reported => Loaded

\* A document made for what the panel has: the page it pages from, or an error.
Fresh(d) ==
    /\ d.number = documents /\ d.shown = pagination
    /\ d.kind = IF pagination = None THEN "error" ELSE "app"

\* The last sent before the webview is ready is a document; once it has loaded it says so.
Waits ==
    /\ pendingPayload = pagination
    /\ toView # <<>> => toView[Len(toView)].kind # "message" /\ Fresh(toView[Len(toView)])
    /\ toView = <<>> => /\ page # None /\ Fresh(page)
                        /\ page.mounted /\ page.kind = "app" => Reported

\* The last sent after that is a page, and nothing replaces the document.
Listens ==
    /\ pagination # None /\ Loaded
    /\ \A i \in 1..Len(toView) : toView[i].kind = "message"
    /\ IF toView = <<>> THEN page.shown = pagination
       ELSE toView[Len(toView)].shown = pagination

PanelOK ==
    /\ panel \in BOOLEAN /\ webviewReady \in BOOLEAN /\ crossed \in BOOLEAN
    /\ pagination \in Payloads \cup {None} /\ pendingPayload \in Payloads \cup {None}
    /\ ~panel => NoPanel /\ toView = <<>> /\ toHost = <<>> /\ page = None
    /\ panel /\ ~webviewReady => Waits
    /\ webviewReady => pendingPayload = None /\ (~crossed => Listens)

PreviewInv == CommandsOK /\ ChannelsOK /\ ReportsOK /\ PanelOK

-----------------------------------------------------------------------------
(* Channels *)

\* A queue with one more at its end.
LEMMA Appended ==
    ASSUME NEW S, NEW q \in Seq(S), NEW e \in S
    PROVE  /\ Append(q, e) \in Seq(S) /\ Append(q, e) # <<>> /\ Len(q) \in Nat
           /\ Len(Append(q, e)) = Len(q) + 1 /\ Append(q, e)[Len(q) + 1] = e
           /\ \A i \in 1..Len(q) : Append(q, e)[i] = q[i]
<1>1. Append(q, e) \in Seq(S) /\ Len(q) \in Nat /\ Len(Append(q, e)) = Len(q) + 1
  OBVIOUS
<1>2. Append(q, e)[Len(q) + 1] = e /\ \A i \in 1..Len(q) : Append(q, e)[i] = q[i]
  OBVIOUS
<1> QED BY <1>1, <1>2, Len(<<>>) = 0

\* A queue without its first.
LEMMA Tailed ==
    ASSUME NEW S, NEW q \in Seq(S), q # <<>>
    PROVE  /\ Tail(q) \in Seq(S) /\ Head(q) \in S /\ Head(q) = q[1]
           /\ Len(q) \in Nat /\ Len(q) >= 1 /\ Len(Tail(q)) = Len(q) - 1
           /\ \A i \in 1..Len(Tail(q)) : Tail(q)[i] = q[i + 1]
           /\ Tail(q) = <<>> <=> Len(q) = 1
<1>1. Len(q) \in Nat /\ Len(q) >= 1
  OBVIOUS
<1>2. Tail(q) \in Seq(S) /\ Head(q) \in S /\ Head(q) = q[1] /\ Len(Tail(q)) = Len(q) - 1
  BY <1>1
<1>3. \A i \in 1..Len(Tail(q)) : Tail(q)[i] = q[i + 1]
  BY <1>1
<1>4. Tail(q) = <<>> <=> Len(Tail(q)) = 0
  BY <1>2, EmptySeq
<1> QED BY <1>1, <1>2, <1>3, <1>4

\* The items on their way, with one more document or message, and without the first.
LEMMA ItemsOK ==
    ASSUME NEW i \in Docs \cup Messages
    PROVE  /\ i.kind = "message" => i \in Messages /\ i.shown \in Payloads
           /\ i.kind # "message" => i \in Docs
BY DEF Docs, Messages

\* A document goes out: nothing reported is of it, and it is the last.
LEMMA HtmlSent ==
    ASSUME ChannelsOK, ReportsOK, NEW kind \in {"app", "error"}, NEW STATE payload,
           payload \in Payloads \cup {None}, SetsHtml(kind, payload),
           page' = page, toHost' = toHost
    PROVE  /\ ChannelsOK' /\ ReportsOK'
           /\ toView' # <<>> /\ toView'[Len(toView')].kind = kind
           /\ toView'[Len(toView')].shown = payload /\ toView'[Len(toView')].number = documents'
<1> DEFINE d == Html(kind, payload, documents + 1)
<1>1. documents \in Nat /\ documents' = documents + 1 /\ toView' = Append(toView, d)
  BY DEF ChannelsOK, SetsHtml
<1>2. d \in Docs /\ d.kind = kind /\ d.shown = payload /\ d.number = documents + 1 /\ ~d.mounted
      /\ d.kind # "message"
  BY <1>1 DEF Html, Docs
<1> HIDE DEF d
<1>3. /\ toView' \in Seq(Docs \cup Messages) /\ toView' # <<>> /\ Len(toView) \in Nat
      /\ Len(toView') = Len(toView) + 1 /\ toView'[Len(toView) + 1] = d
      /\ \A i \in 1..Len(toView) : toView'[i] = toView[i]
  BY <1>1, <1>2, Appended DEF ChannelsOK
<1>4. ASSUME NEW i \in 1..Len(toView'), toView'[i].kind # "message"
      PROVE  /\ toView'[i].number \in 1..documents' /\ ~toView'[i].mounted
             /\ page # None => page.number < toView'[i].number
             /\ \A j \in 1..Len(toView') :
                   i < j /\ toView'[j].kind # "message" => toView'[i].number < toView'[j].number
  <2>1. CASE i = Len(toView) + 1
    BY <1>1, <1>2, <1>3, <2>1 DEF ChannelsOK
  <2>2. CASE i \in 1..Len(toView)
    <3>1. /\ toView'[i] = toView[i] /\ toView[i].number \in 1..documents /\ ~toView[i].mounted
          /\ page # None => page.number < toView[i].number
      BY <1>3, <1>4, <2>2 DEF ChannelsOK
    <3>2. ASSUME NEW j \in 1..Len(toView'), i < j, toView'[j].kind # "message"
          PROVE  toView'[i].number < toView'[j].number
      <4>1. CASE j = Len(toView) + 1
        BY <1>1, <1>2, <1>3, <3>1, <4>1
      <4>2. CASE j \in 1..Len(toView)
        BY <1>3, <1>4, <2>2, <3>1, <3>2, <4>2 DEF ChannelsOK
      <4> QED BY <1>3, <4>1, <4>2
    <3> QED BY <1>1, <3>1, <3>2
  <2> QED BY <1>3, <2>1, <2>2
<1>5. ChannelsOK'
  BY <1>1, <1>3, <1>4 DEF ChannelsOK
<1>6. ReportsOK'
  <2>1. \A i \in 1..Len(toHost) : toHost[i].from \in 1..documents
    BY DEF ReportsOK
  <2> QED BY <1>1, <2>1 DEF ReportsOK, Reported
<1> QED BY <1>1, <1>2, <1>3, <1>5, <1>6

\* A page goes out to a document that listens.
LEMMA PostSent ==
    ASSUME ChannelsOK, NEW STATE payload, payload \in Payloads,
           toView' = Append(toView, Post(payload)), UNCHANGED <<page, toHost, documents>>
    PROVE  /\ ChannelsOK'
           /\ toView' # <<>> /\ toView'[Len(toView')] = Post(payload) /\ Len(toView') = Len(toView) + 1
           /\ Len(toView) \in Nat /\ \A i \in 1..Len(toView) : toView'[i] = toView[i]
<1>1. Post(payload) \in Docs \cup Messages /\ Post(payload).kind = "message"
  BY DEF Post, Messages
<1>2. /\ toView' \in Seq(Docs \cup Messages) /\ toView' # <<>> /\ Len(toView) \in Nat
      /\ Len(toView') = Len(toView) + 1 /\ toView'[Len(toView) + 1] = Post(payload)
      /\ \A i \in 1..Len(toView) : toView'[i] = toView[i]
  BY <1>1, Appended DEF ChannelsOK
<1>3. ASSUME NEW i \in 1..Len(toView'), toView'[i].kind # "message"
      PROVE  i \in 1..Len(toView) /\ toView'[i] = toView[i]
  <2>1. i # Len(toView) + 1
    BY <1>1, <1>2, <1>3
  <2> QED BY <1>2, <2>1
<1>4. ChannelsOK'
  <2>1. /\ toView' \in Seq(Docs \cup Messages) /\ toHost' \in Seq(Reports)
        /\ page' \in Docs \cup {None} /\ documents' \in Nat
        /\ page' # None => page'.number \in 1..documents'
    BY <1>2 DEF ChannelsOK
  <2>2. ASSUME NEW i \in 1..Len(toView'), toView'[i].kind # "message"
        PROVE  /\ toView'[i].number \in 1..documents' /\ ~toView'[i].mounted
               /\ page' # None => page'.number < toView'[i].number
               /\ \A j \in 1..Len(toView') : i < j /\ toView'[j].kind # "message" =>
                     toView'[i].number < toView'[j].number
    <3>1. i \in 1..Len(toView) /\ toView'[i] = toView[i]
      BY <1>3, <2>2
    <3>2. toView[i].kind # "message"
      BY <2>2, <3>1
    <3>3. /\ toView'[i].number \in 1..documents' /\ ~toView'[i].mounted
          /\ page' # None => page'.number < toView'[i].number
      BY <3>1, <3>2 DEF ChannelsOK
    <3>4. ASSUME NEW j \in 1..Len(toView'), i < j, toView'[j].kind # "message"
          PROVE  toView'[i].number < toView'[j].number
      <4>1. j \in 1..Len(toView) /\ toView'[j] = toView[j]
        BY <1>3, <3>4
      <4> QED BY <3>1, <3>2, <3>4, <4>1 DEF ChannelsOK
    <3> QED BY <3>3, <3>4
  <2> QED BY <2>1, <2>2 DEF ChannelsOK
<1> QED BY <1>2, <1>4

-----------------------------------------------------------------------------
(* The panel *)

\* Nothing the panel, the document or the channels are made of changes.
LEMMA PanelStays ==
    ASSUME ChannelsOK, ReportsOK, PanelOK, UNCHANGED <<host, toView, page, toHost, crossed>>
    PROVE  ChannelsOK' /\ ReportsOK' /\ PanelOK'
<1>1. ChannelsOK'
  BY DEF host, ChannelsOK
<1>2. ReportsOK'
  BY DEF host, ReportsOK, Reported, Loaded
<1>3. NoPanel' <=> NoPanel
  BY DEF host, NoPanel
<1>4. (Waits' <=> Waits) /\ (Listens' <=> Listens)
  BY DEF host, Waits, Listens, Fresh, Reported, Loaded
<1> QED BY <1>1, <1>2, <1>3, <1>4 DEF host, PanelOK

\* The panel shows a page.
LEMMA ResultsShown ==
    ASSUME ChannelsOK, ReportsOK, PanelOK, NEW STATE p, p \in Payloads, showResults(p),
           page' = page, toHost' = toHost, crossed' = crossed
    PROVE  ChannelsOK' /\ ReportsOK' /\ PanelOK'
<1>1. p # None /\ panel' = TRUE /\ pagination' = p /\ webviewReady' = webviewReady
  BY Sizes DEF showResults
<1>2. CASE webviewReady
  <2>1. toView' = Append(toView, Post(p)) /\ pendingPayload' = None /\ documents' = documents
    BY <1>2 DEF showResults
  <2>2. /\ ChannelsOK' /\ toView' # <<>> /\ toView'[Len(toView')] = Post(p)
        /\ Len(toView) \in Nat /\ Len(toView') = Len(toView) + 1
        /\ \A i \in 1..Len(toView) : toView'[i] = toView[i]
    BY <2>1, PostSent
  <2>3. ReportsOK'
    BY <2>1 DEF ReportsOK, Reported, Loaded
  <2>4. ASSUME ~crossed' PROVE Listens'
    <3>1. Loaded' /\ \A i \in 1..Len(toView) : toView[i].kind = "message"
      BY <1>2, <2>1, <2>4 DEF PanelOK, Listens, Loaded
    <3>2. Post(p).kind = "message" /\ Post(p).shown = p
      BY DEF Post
    <3>3. \A i \in 1..Len(toView') : toView'[i].kind = "message"
      <4> TAKE i \in 1..Len(toView')
      <4>1. CASE i = Len(toView) + 1
        BY <2>2, <3>2, <4>1
      <4>2. CASE i \in 1..Len(toView)
        BY <2>2, <3>1, <4>2
      <4> QED BY <2>2, <4>1, <4>2
    <3> QED BY <1>1, <2>2, <3>1, <3>2, <3>3 DEF Listens
  <2>5. PanelOK'
    BY <1>1, <1>2, <2>1, <2>4 DEF PanelOK
  <2> QED BY <2>2, <2>3, <2>5
<1>3. CASE ~webviewReady
  <2>1. pendingPayload' = p /\ SetsHtml("app", p)
    BY <1>3 DEF showResults
  <2>2. /\ ChannelsOK' /\ ReportsOK'
        /\ toView' # <<>> /\ toView'[Len(toView')].kind = "app"
        /\ toView'[Len(toView')].shown = p /\ toView'[Len(toView')].number = documents'
    BY <2>1, HtmlSent
  <2>3. Waits'
    BY <1>1, <2>1, <2>2 DEF Waits, Fresh
  <2> QED BY <1>1, <1>3, <2>1, <2>2, <2>3 DEF PanelOK
<1> QED BY <1>2, <1>3

\* The panel shows an error, whatever it showed.
LEMMA ErrorShown ==
    ASSUME ChannelsOK, ReportsOK, PanelOK, showError,
           page' = page, toHost' = toHost, crossed' = crossed
    PROVE  ChannelsOK' /\ ReportsOK' /\ PanelOK'
<1>1. /\ panel' = TRUE /\ pagination' = None /\ webviewReady' = FALSE /\ pendingPayload' = None
      /\ SetsHtml("error", None)
  BY DEF showError
<1>2. /\ ChannelsOK' /\ ReportsOK'
      /\ toView' # <<>> /\ toView'[Len(toView')].kind = "error"
      /\ toView'[Len(toView')].shown = None /\ toView'[Len(toView')].number = documents'
  BY <1>1, HtmlSent
<1>3. Waits'
  BY <1>1, <1>2 DEF Waits, Fresh
<1> QED BY <1>1, <1>2, <1>3 DEF PanelOK

\* A closed panel leaves nothing behind but the tasks.
LEMMA ClosesPanel ==
    ASSUME PreviewInv, ClosePanel
    PROVE  PreviewInv'
<1>1. /\ panel' = FALSE /\ pagination' = None /\ webviewReady' = FALSE /\ pendingPayload' = None
      /\ toView' = <<>> /\ toHost' = <<>> /\ page' = None
      /\ documents' = documents /\ crossed' = crossed
  BY DEF ClosePanel
<1>2. CommandsOK'
  BY Sizes DEF ClosePanel, Mishap, PreviewInv, CommandsOK
<1>3. ChannelsOK'
  BY <1>1 DEF PreviewInv, ChannelsOK
<1>4. ReportsOK'
  BY <1>1 DEF ReportsOK, Reported
<1>5. PanelOK'
  BY <1>1 DEF PreviewInv, PanelOK, NoPanel
<1> QED BY <1>2, <1>3, <1>4, <1>5 DEF PreviewInv

-----------------------------------------------------------------------------
(* The commands *)

\* One more request.
LEMMA AskedOK ==
    ASSUME CommandsOK, NEW STATE name, name \in Names, NEW STATE offset, offset \in Nat,
           Asks(name, offset), UNCHANGED <<store, writes, mishaps>>
    PROVE  CommandsOK'
<1> DEFINE t == [at |-> "fetch", name |-> name, offset |-> offset, page |-> None]
<1>1. t \in Tasks /\ t.at = "fetch" /\ t.name = name
  BY DEF Tasks
<1> HIDE DEF t
<1>2. asked' \in 0..MaxAsks /\ asked + 1 \in 1..MaxAsks
  BY Sizes DEF Asks, CommandsOK
<1>3. tasks' = [tasks EXCEPT ![asked + 1] = t]
  BY DEF Asks, t
<1>4. tasks' \in [1..MaxAsks -> Tasks]
  BY <1>1, <1>3 DEF CommandsOK
<1>5. ASSUME NEW i \in 1..MaxAsks
      PROVE  /\ tasks'[i].at = "fetch" => tasks'[i].name \in Names
             /\ tasks'[i].at = "traces" => tasks'[i].page \in Payloads
  <2>1. CASE i = asked + 1
    BY <1>1, <1>2, <1>3, <2>1 DEF CommandsOK
  <2>2. CASE i # asked + 1
    BY <1>3, <2>2 DEF CommandsOK
  <2> QED BY <2>1, <2>2
<1> QED BY <1>2, <1>4, <1>5 DEF CommandsOK

\* The page a command pages from is one that was fetched.
LEMMA Navigated ==
    ASSUME CommandsOK, PanelOK, NEW to, navigatePreviewPage(to),
           UNCHANGED <<store, writes, mishaps>>
    PROVE  CommandsOK'
<1>1. CASE pagination # None /\ Accepts(pagination, to)
  <2>1. pagination \in Payloads
    BY <1>1 DEF PanelOK
  <2>2. pagination.name \in Names /\ pagination.offset \in Nat
    BY <2>1 DEF Payloads
  <2>3. newOffset(pagination, to) \in Nat
    BY <2>2, Sizes DEF newOffset, Most
  <2>4. Asks(pagination.name, newOffset(pagination, to))
    BY <1>1 DEF navigatePreviewPage
  <2> DEFINE name == pagination.name
             offset == newOffset(pagination, to)
  <2>5. name \in Names /\ offset \in Nat /\ Asks(name, offset)
    BY <2>2, <2>3, <2>4
  <2> HIDE DEF name, offset
  <2> QED BY <2>5, AskedOK
<1>2. CASE ~(pagination # None /\ Accepts(pagination, to))
  BY <1>2 DEF navigatePreviewPage, CommandsOK
<1> QED BY <1>1, <1>2

\* The user previews an action's records.
LEMMA Previewed ==
    ASSUME PreviewInv, NEW name \in Names, previewData(name)
    PROVE  PreviewInv'
<1>1. ChannelsOK' /\ ReportsOK' /\ PanelOK'
  BY PanelStays DEF PreviewInv, previewData
<1>2. CommandsOK'
  BY AskedOK DEF PreviewInv, previewData
<1> QED BY <1>1, <1>2 DEF PreviewInv

\* The user pages by a command.
LEMMA Commanded ==
    ASSUME PreviewInv, NEW to, PageCommand(to)
    PROVE  PreviewInv'
<1>1. ChannelsOK' /\ ReportsOK' /\ PanelOK'
  BY PanelStays DEF PreviewInv, PageCommand
<1>2. CommandsOK'
  BY Navigated DEF PreviewInv, PageCommand
<1> QED BY <1>1, <1>2 DEF PreviewInv

\* A page that was fetched has no more records than the page size, and no fewer than none.
LEMMA PagesOK ==
    ASSUME CommandsOK, NEW name \in Names, NEW offset \in Nat
    PROVE  PageOf(name, offset) \in Payloads
<1>1. store[name].real \in 0..MaxRecords /\ store[name].reported \in 0..MaxRecords
  BY DEF CommandsOK
<1>2. Least(Most(store[name].real - offset, 0), Limit) \in 0..Limit
  BY <1>1, Sizes DEF Least, Most
<1> QED BY <1>1, <1>2 DEF PageOf, Payloads

\* A task moves on, to a place where it keeps what it needs.
LEMMA TaskMoved ==
    ASSUME CommandsOK, NEW i \in 1..MaxAsks, NEW STATE t, t \in Tasks, t.at # "fetch",
           t.at = "traces" => t.page \in Payloads, tasks' = [tasks EXCEPT ![i] = t],
           UNCHANGED <<store, asked, writes>>, mishaps' \in 0..MaxMishaps
    PROVE  CommandsOK'
<1>1. tasks' \in [1..MaxAsks -> Tasks]
  BY DEF CommandsOK
<1>2. ASSUME NEW j \in 1..MaxAsks
      PROVE  /\ tasks'[j].at = "fetch" => tasks'[j].name \in Names
             /\ tasks'[j].at = "traces" => tasks'[j].page \in Payloads
  <2>1. CASE j = i
    BY <2>1 DEF CommandsOK
  <2>2. CASE j # i
    BY <2>2 DEF CommandsOK
  <2> QED BY <2>1, <2>2
<1> QED BY <1>1, <1>2 DEF CommandsOK

\* The storage command answers.
LEMMA PageFetched ==
    ASSUME PreviewInv, NEW i \in 1..MaxAsks, Fetched(i)
    PROVE  PreviewInv'
<1>1. ChannelsOK' /\ ReportsOK' /\ PanelOK'
  BY PanelStays DEF PreviewInv, Fetched
<1>2. tasks[i] \in Tasks /\ tasks[i].name \in Names /\ tasks[i].offset \in Nat
  BY DEF PreviewInv, CommandsOK, Fetched, Tasks
<1>3. PageOf(tasks[i].name, tasks[i].offset) \in Payloads
  BY <1>2, PagesOK DEF PreviewInv
<1> DEFINE p == PageOf(tasks[i].name, tasks[i].offset)
           t == [tasks[i] EXCEPT !.at = "traces", !.page = p]
<1>4. tasks' = [tasks EXCEPT ![i].at = "traces", ![i].page = p]
  BY DEF Fetched
<1>5. tasks \in [1..MaxAsks -> Tasks] /\ p \in Payloads
  BY <1>3 DEF PreviewInv, CommandsOK
<1> HIDE DEF p
<1>6. tasks' = [tasks EXCEPT ![i] = t]
  BY <1>4, <1>5
<1>7. t \in Tasks /\ t.at = "traces" /\ t.page = p
  BY <1>2, <1>5 DEF Tasks
<1> HIDE DEF t
<1>8. CommandsOK'
  BY <1>5, <1>6, <1>7, TaskMoved DEF PreviewInv, Fetched, CommandsOK
<1> QED BY <1>1, <1>8 DEF PreviewInv

\* The storage command does not.
LEMMA FetchFailed ==
    ASSUME PreviewInv, NEW i \in 1..MaxAsks, FetchFails(i)
    PROVE  PreviewInv'
<1>1. ChannelsOK' /\ ReportsOK' /\ PanelOK'
  BY ErrorShown DEF PreviewInv, FetchFails
<1> DEFINE t == [tasks[i] EXCEPT !.at = "over"]
<1>2. tasks \in [1..MaxAsks -> Tasks] /\ tasks' = [tasks EXCEPT ![i].at = "over"]
  BY DEF PreviewInv, CommandsOK, FetchFails
<1>3. tasks' = [tasks EXCEPT ![i] = t]
  BY <1>2
<1>4. t \in Tasks /\ t.at = "over"
  BY <1>2 DEF Tasks
<1>5. mishaps' \in 0..MaxMishaps
  BY Sizes DEF FetchFails, Mishap, PreviewInv, CommandsOK
<1> HIDE DEF t
<1>6. CommandsOK'
  BY <1>3, <1>4, <1>5, TaskMoved DEF PreviewInv, FetchFails
<1> QED BY <1>1, <1>6 DEF PreviewInv

\* The traces are there or given up, and the page is shown.
LEMMA PageShown ==
    ASSUME PreviewInv, NEW i \in 1..MaxAsks, TracesAttached(i)
    PROVE  PreviewInv'
<1>1. tasks \in [1..MaxAsks -> Tasks] /\ tasks[i].page \in Payloads
  BY DEF PreviewInv, CommandsOK, TracesAttached
<1>2. ChannelsOK' /\ ReportsOK' /\ PanelOK'
  <2> DEFINE p == tasks[i].page
  <2>1. p \in Payloads /\ showResults(p)
    BY <1>1 DEF TracesAttached
  <2> HIDE DEF p
  <2> QED BY <2>1, ResultsShown DEF PreviewInv, TracesAttached
<1> DEFINE t == [tasks[i] EXCEPT !.at = "over", !.page = None]
<1>3. tasks' = [tasks EXCEPT ![i].at = "over", ![i].page = None]
  BY DEF TracesAttached
<1>4. tasks' = [tasks EXCEPT ![i] = t]
  BY <1>1, <1>3
<1>5. t \in Tasks /\ t.at = "over"
  BY <1>1 DEF Tasks
<1> HIDE DEF t
<1>6. CommandsOK'
  BY <1>4, <1>5, TaskMoved DEF PreviewInv, TracesAttached, CommandsOK
<1> QED BY <1>2, <1>6 DEF PreviewInv

\* A run writes to the store.
LEMMA Written ==
    ASSUME PreviewInv, NEW name \in Names, RunWrites(name)
    PROVE  PreviewInv'
<1>1. ChannelsOK' /\ ReportsOK' /\ PanelOK'
  BY PanelStays DEF PreviewInv, RunWrites
<1>2. writes' \in 0..MaxWrites
  BY Sizes DEF RunWrites, PreviewInv, CommandsOK
<1>3. store' \in [Names -> [real : 0..MaxRecords, reported : 0..MaxRecords]]
  BY DEF RunWrites, PreviewInv, CommandsOK
<1>4. CommandsOK'
  BY <1>2, <1>3 DEF RunWrites, PreviewInv, CommandsOK
<1> QED BY <1>1, <1>4 DEF PreviewInv

-----------------------------------------------------------------------------
(* The webview *)

\* The webview takes the first of what is on its way.
LEMMA DeliversToView ==
    ASSUME PreviewInv, DeliverToView
    PROVE  PreviewInv'
<1>1. /\ toView \in Seq(Docs \cup Messages) /\ toView # <<>> /\ toView' = Tail(toView)
      /\ toHost' = toHost /\ documents' = documents /\ documents \in Nat
      /\ panel' = panel /\ pagination' = pagination /\ webviewReady' = webviewReady
      /\ pendingPayload' = pendingPayload /\ crossed' = crossed
  BY DEF DeliverToView, host, PreviewInv, ChannelsOK
<1>2. /\ toView' \in Seq(Docs \cup Messages) /\ Head(toView) \in Docs \cup Messages
      /\ Head(toView) = toView[1] /\ Len(toView) \in Nat /\ Len(toView) >= 1
      /\ Len(toView') = Len(toView) - 1 /\ (toView' = <<>> <=> Len(toView) = 1)
      /\ \A i \in 1..Len(toView') : toView'[i] = toView[i + 1]
  BY <1>1, Tailed
<1>3. panel
  BY <1>1 DEF PreviewInv, PanelOK
<1>4. CommandsOK'
  BY DEF DeliverToView, PreviewInv, CommandsOK
\* What is left is as it was, one place further on.
<1>5. ASSUME NEW i \in 1..Len(toView'), toView'[i].kind # "message"
      PROVE  /\ toView'[i].number \in 1..documents' /\ ~toView'[i].mounted
             /\ page # None => page.number < toView'[i].number
             /\ toView[1].kind # "message" => toView[1].number < toView'[i].number
             /\ \A j \in 1..Len(toView') :
                   i < j /\ toView'[j].kind # "message" => toView'[i].number < toView'[j].number
  <2>1. i + 1 \in 1..Len(toView) /\ 1 \in 1..Len(toView) /\ toView'[i] = toView[i + 1] /\ 1 < i + 1
    BY <1>2
  <2>2. /\ toView'[i].number \in 1..documents' /\ ~toView'[i].mounted
        /\ page # None => page.number < toView'[i].number
    BY <1>1, <1>5, <2>1 DEF PreviewInv, ChannelsOK
  <2>3. toView[1].kind # "message" => toView[1].number < toView'[i].number
    BY <1>5, <2>1 DEF PreviewInv, ChannelsOK
  <2>4. ASSUME NEW j \in 1..Len(toView'), i < j, toView'[j].kind # "message"
        PROVE  toView'[i].number < toView'[j].number
    <3>1. j + 1 \in 1..Len(toView) /\ toView'[j] = toView[j + 1] /\ i + 1 < j + 1
      BY <1>2, <2>4
    <3> QED BY <1>5, <2>1, <2>4, <3>1 DEF PreviewInv, ChannelsOK
  <2> QED BY <2>2, <2>3, <2>4
<1>6. Len(toView) > 1 => Len(toView') \in 1..Len(toView') /\ toView'[Len(toView')] = toView[Len(toView)]
  BY <1>2
<1>7. CASE toView[1].kind = "message"
  <2>1. toView[1] \in Messages
    BY <1>2, <1>7 DEF Docs
  <2>2. page' = IF Showing THEN [page EXCEPT !.shown = toView[1].shown] ELSE page
    BY <1>2, <1>7 DEF DeliverToView
  <2>3. page # None => page \in Docs
    BY DEF PreviewInv, ChannelsOK
  <2>4. /\ page' \in Docs \cup {None} /\ (page' # None <=> page # None)
        /\ page # None => /\ page'.number = page.number /\ page'.mounted = page.mounted
                          /\ page'.kind = page.kind
    <3>1. CASE Showing
      <4>1. page # None /\ page \in Docs /\ toView[1].shown \in Payloads
        BY <2>1, <2>3, <3>1 DEF Showing, Messages
      <4>2. page' = [page EXCEPT !.shown = toView[1].shown]
        BY <2>2, <3>1
      <4>3. page' \in Docs /\ page'.number = page.number /\ page'.mounted = page.mounted
            /\ page'.kind = page.kind
        BY <4>1, <4>2 DEF Docs
      <4> QED BY <4>1, <4>3, Sizes
    <3>2. CASE ~Showing
      BY <2>2, <2>3, <3>2
    <3> QED BY <3>1, <3>2
  <2>5. ChannelsOK'
    BY <1>1, <1>2, <1>5, <2>4 DEF PreviewInv, ChannelsOK
  <2>6. (Loaded' <=> Loaded) /\ (Reported' <=> Reported)
    BY <1>1, <2>4 DEF Loaded, Reported
  <2>7. ReportsOK'
    BY <1>1, <2>6 DEF PreviewInv, ReportsOK
  <2>8. ASSUME ~webviewReady PROVE Waits'
    <3>1. Waits
      BY <1>3, <2>8 DEF PreviewInv, PanelOK
    <3>2. toView[Len(toView)].kind # "message" /\ Fresh(toView[Len(toView)])
      BY <1>1, <3>1 DEF Waits
    <3>3. Len(toView) > 1 /\ toView' # <<>>
      BY <1>2, <1>7, <3>2
    <3>4. toView'[Len(toView')].kind # "message" /\ Fresh(toView[Len(toView)])'
      BY <1>1, <1>6, <3>2, <3>3 DEF Fresh
    <3> QED BY <1>1, <3>1, <3>3, <3>4 DEF Waits
  <2>9. ASSUME webviewReady, ~crossed PROVE Listens'
    <3>1. /\ pagination # None /\ Loaded /\ \A i \in 1..Len(toView) : toView[i].kind = "message"
          /\ toView[Len(toView)].shown = pagination
      BY <1>1, <2>9 DEF PreviewInv, PanelOK, Listens
    <3>2. \A i \in 1..Len(toView') : toView'[i].kind = "message"
      <4> TAKE i \in 1..Len(toView')
      <4> QED BY <1>2, <3>1
    <3>3. CASE toView' = <<>>
      <4>1. Showing /\ page \in Docs
        BY <2>3, <3>1 DEF Showing, Loaded
      <4>2. page'.shown = toView[1].shown
        BY <2>2, <4>1 DEF Docs
      <4> QED BY <1>1, <1>2, <2>6, <3>1, <3>2, <3>3, <4>2 DEF Listens
    <3>4. CASE toView' # <<>>
      <4>1. toView'[Len(toView')].shown = pagination'
        BY <1>1, <1>2, <1>6, <3>1, <3>4
      <4> QED BY <1>1, <2>6, <3>1, <3>2, <3>4, <4>1 DEF Listens
    <3> QED BY <3>3, <3>4
  <2>10. PanelOK'
    BY <1>1, <1>3, <2>8, <2>9 DEF PreviewInv, PanelOK
  <2> QED BY <1>4, <2>5, <2>7, <2>10 DEF PreviewInv
<1>8. CASE toView[1].kind # "message"
  <2>1. page' = toView[1] /\ toView[1] \in Docs
    BY <1>2, <1>8 DEF DeliverToView, Messages
  <2>2. 1 \in 1..Len(toView)
    BY <1>2
  <2>3. /\ toView[1].number \in 1..documents /\ ~toView[1].mounted
        /\ page # None => page.number < toView[1].number
    BY <1>8, <2>2 DEF PreviewInv, ChannelsOK
  <2>4. ChannelsOK'
    BY <1>1, <1>2, <1>5, <1>8, <2>1, <2>3 DEF PreviewInv, ChannelsOK
  <2>5. ~Reported
    <3>1. ASSUME Loaded PROVE FALSE
      BY <1>1, <2>3, <3>1 DEF Loaded
    <3> QED BY <3>1 DEF PreviewInv, ReportsOK
  <2>6. ReportsOK'
    BY <1>1, <2>5 DEF PreviewInv, ReportsOK, Reported
  <2>7. ASSUME ~webviewReady PROVE Waits'
    <3>1. Waits
      BY <1>3, <2>7 DEF PreviewInv, PanelOK
    <3>2. toView[Len(toView)].kind # "message" /\ Fresh(toView[Len(toView)])
      BY <1>1, <3>1 DEF Waits
    <3>3. CASE Len(toView) > 1
      <4>1. toView' # <<>>
        BY <1>2, <3>3
      <4>2. toView'[Len(toView')].kind # "message" /\ Fresh(toView[Len(toView)])'
        BY <1>1, <1>6, <3>2, <3>3 DEF Fresh
      <4> QED BY <1>1, <3>1, <4>1, <4>2 DEF Waits
    <3>4. CASE Len(toView) = 1
      <4>1. toView' = <<>> /\ page' # None
        BY <1>2, <2>1, <3>4, Sizes
      <4>2. Fresh(page)' /\ ~page'.mounted
        BY <1>1, <2>1, <2>3, <3>2, <3>4 DEF Fresh
      <4> QED BY <1>1, <3>1, <4>1, <4>2 DEF Waits
    <3> QED BY <1>2, <3>3, <3>4
  <2>8. webviewReady => crossed
    BY <1>8, <2>2 DEF PreviewInv, PanelOK, Listens
  <2>9. PanelOK'
    BY <1>1, <1>3, <2>7, <2>8 DEF PreviewInv, PanelOK
  <2> QED BY <1>4, <2>4, <2>6, <2>9 DEF PreviewInv
<1> QED BY <1>7, <1>8

\* The document in the webview has loaded.
LEMMA Mounts ==
    ASSUME PreviewInv, Mount
    PROVE  PreviewInv'
<1>1. /\ page # None /\ ~page.mounted /\ page' = [page EXCEPT !.mounted = TRUE]
      /\ toView' = toView /\ documents' = documents /\ documents \in Nat
      /\ panel' = panel /\ pagination' = pagination /\ webviewReady' = webviewReady
      /\ pendingPayload' = pendingPayload /\ crossed' = crossed
  BY DEF Mount, host, PreviewInv, ChannelsOK
<1>2. page \in Docs /\ page.number \in 1..documents /\ ~Loaded
  BY <1>1 DEF PreviewInv, ChannelsOK, Loaded
<1>3. /\ page' \in Docs /\ page'.number = page.number /\ page'.mounted = TRUE
      /\ page'.kind = page.kind /\ page'.shown = page.shown
  BY <1>1, <1>2 DEF Docs
<1>4. page' # None /\ panel
  BY <1>1, <1>3, Sizes DEF PreviewInv, PanelOK
<1>5. CommandsOK'
  BY DEF Mount, PreviewInv, CommandsOK
<1>6. ~Reported
  BY <1>2 DEF PreviewInv, ReportsOK
<1>7. toHost \in Seq(Reports) /\ \A i \in 1..Len(toHost) : toHost[i].from \in 1..documents
  BY DEF PreviewInv, ChannelsOK, ReportsOK
<1>8. webviewReady => crossed
  BY <1>2 DEF PreviewInv, PanelOK, Listens
<1>9. CASE page.kind = "app"
  <2> DEFINE r == [type |-> "ready", from |-> page.number]
  <2>1. r \in Reports /\ r.type = "ready" /\ r.from = page.number
    BY <1>2 DEF Reports
  <2>2. toHost' = Append(toHost, r)
    BY <1>9 DEF Mount
  <2> HIDE DEF r
  <2>3. /\ toHost' \in Seq(Reports) /\ Len(toHost) \in Nat /\ Len(toHost') = Len(toHost) + 1
        /\ toHost'[Len(toHost) + 1] = r /\ \A i \in 1..Len(toHost) : toHost'[i] = toHost[i]
    BY <1>7, <2>1, <2>2, Appended
  <2>4. ChannelsOK'
    BY <1>1, <1>3, <2>3 DEF PreviewInv, ChannelsOK
  <2>5. \A i \in 1..Len(toHost') : toHost'[i].from \in 1..documents'
    <3> TAKE i \in 1..Len(toHost')
    <3>1. CASE i = Len(toHost) + 1
      BY <1>1, <1>2, <2>1, <2>3, <3>1
    <3>2. CASE i \in 1..Len(toHost)
      BY <1>1, <1>7, <2>3, <3>2
    <3> QED BY <2>3, <3>1, <3>2
  <2>6. ASSUME NEW i \in 1..Len(toHost'), toHost'[i].type = "ready", toHost'[i].from = documents'
        PROVE  page'.number = documents'
    <3>1. CASE i = Len(toHost) + 1
      BY <1>3, <2>1, <2>3, <2>6, <3>1
    <3>2. CASE i \in 1..Len(toHost)
      BY <1>1, <1>6, <2>3, <2>6, <3>2 DEF Reported
    <3> QED BY <2>3, <3>1, <3>2
  <2>7. Reported' => Loaded'
    BY <1>3, <1>4, <1>9, <2>6 DEF Reported, Loaded
  <2>8. ReportsOK'
    BY <2>5, <2>7 DEF ReportsOK
  <2>9. page.number = documents => Reported'
    <3>1. Len(toHost') \in 1..Len(toHost')
      BY <2>3
    <3> QED BY <1>1, <2>1, <2>3, <3>1 DEF Reported
  <2>10. ASSUME ~webviewReady PROVE Waits'
    <3>1. Waits
      BY <1>4, <2>10 DEF PreviewInv, PanelOK
    <3>2. CASE toView # <<>>
      BY <1>1, <3>1, <3>2 DEF Waits, Fresh
    <3>3. CASE toView = <<>>
      <4>1. Fresh(page)' /\ Reported'
        BY <1>1, <1>3, <2>9, <3>1, <3>3 DEF Waits, Fresh
      <4> QED BY <1>1, <1>4, <3>1, <3>3, <4>1 DEF Waits
    <3> QED BY <3>2, <3>3
  <2>11. PanelOK'
    BY <1>1, <1>4, <1>8, <2>10 DEF PreviewInv, PanelOK
  <2> QED BY <1>5, <2>4, <2>8, <2>11 DEF PreviewInv
<1>10. CASE page.kind # "app"
  <2>1. toHost' = toHost
    BY <1>10 DEF Mount
  <2>2. ChannelsOK'
    BY <1>1, <1>3, <2>1 DEF PreviewInv, ChannelsOK
  <2>3. ReportsOK'
    BY <1>1, <1>6, <1>7, <2>1 DEF ReportsOK, Reported
  <2>4. ASSUME ~webviewReady PROVE Waits'
    <3>1. Waits
      BY <1>4, <2>4 DEF PreviewInv, PanelOK
    <3>2. CASE toView # <<>>
      BY <1>1, <3>1, <3>2 DEF Waits, Fresh
    <3>3. CASE toView = <<>>
      <4>1. Fresh(page)'
        BY <1>1, <1>3, <3>1, <3>3 DEF Waits, Fresh
      <4> QED BY <1>1, <1>3, <1>4, <1>10, <3>1, <3>3, <4>1 DEF Waits
    <3> QED BY <3>2, <3>3
  <2>5. PanelOK'
    BY <1>1, <1>4, <1>8, <2>4 DEF PreviewInv, PanelOK
  <2> QED BY <1>5, <2>2, <2>3, <2>5 DEF PreviewInv
<1> QED BY <1>9, <1>10

\* A button is pressed.
LEMMA Clicks ==
    ASSUME PreviewInv, NEW to \in {"next", "previous"}, Click(to)
    PROVE  PreviewInv'
<1> DEFINE r == [type |-> to, from |-> page.number]
<1>1. /\ toHost' = Append(toHost, r) /\ page # None
      /\ toView' = toView /\ page' = page /\ documents' = documents /\ documents \in Nat
      /\ panel' = panel /\ pagination' = pagination /\ webviewReady' = webviewReady
      /\ pendingPayload' = pendingPayload /\ crossed' = crossed
  BY DEF Click, Showing, host, PreviewInv, ChannelsOK
<1>2. page.number \in 1..documents /\ page.number \in Nat
  BY <1>1 DEF PreviewInv, ChannelsOK
<1>3. r \in Reports /\ r.type # "ready" /\ r.from \in 1..documents
  BY <1>2 DEF Reports
<1>4. toHost \in Seq(Reports) /\ \A i \in 1..Len(toHost) : toHost[i].from \in 1..documents
  BY DEF PreviewInv, ChannelsOK, ReportsOK
<1> HIDE DEF r
<1>5. /\ toHost' \in Seq(Reports) /\ Len(toHost) \in Nat /\ Len(toHost') = Len(toHost) + 1
      /\ toHost'[Len(toHost) + 1] = r /\ \A i \in 1..Len(toHost) : toHost'[i] = toHost[i]
  BY <1>1, <1>3, <1>4, Appended
<1>6. CommandsOK'
  BY DEF Click, PreviewInv, CommandsOK
<1>7. ChannelsOK'
  BY <1>1, <1>5 DEF PreviewInv, ChannelsOK
<1>8. \A i \in 1..Len(toHost') : toHost'[i].from \in 1..documents'
  <2> TAKE i \in 1..Len(toHost')
  <2>1. CASE i = Len(toHost) + 1
    BY <1>1, <1>3, <1>5, <2>1
  <2>2. CASE i \in 1..Len(toHost)
    BY <1>1, <1>4, <1>5, <2>2
  <2> QED BY <1>5, <2>1, <2>2
<1>9. Reported' <=> Reported
  <2>1. ASSUME Reported' PROVE Reported
    <3>1. PICK i \in 1..Len(toHost') : toHost'[i].type = "ready" /\ toHost'[i].from = documents'
      BY <2>1 DEF Reported
    <3>2. i # Len(toHost) + 1
      BY <1>3, <1>5, <3>1
    <3>3. i \in 1..Len(toHost) /\ toHost'[i] = toHost[i]
      BY <1>5, <3>2
    <3> QED BY <1>1, <3>1, <3>3 DEF Reported
  <2>2. ASSUME Reported PROVE Reported'
    <3>1. PICK i \in 1..Len(toHost) : toHost[i].type = "ready" /\ toHost[i].from = documents
      BY <2>2 DEF Reported
    <3>2. i \in 1..Len(toHost') /\ toHost'[i] = toHost[i]
      BY <1>5
    <3> QED BY <1>1, <3>1, <3>2 DEF Reported
  <2> QED BY <2>1, <2>2
<1>10. Loaded' <=> Loaded
  BY <1>1 DEF Loaded
<1>11. ReportsOK'
  BY <1>8, <1>9, <1>10 DEF PreviewInv, ReportsOK
<1>12. (Waits' <=> Waits) /\ (Listens' <=> Listens)
  BY <1>1, <1>9, <1>10 DEF Waits, Listens, Fresh
<1>13. panel
  BY <1>1 DEF PreviewInv, PanelOK
<1>14. PanelOK'
  BY <1>1, <1>12, <1>13 DEF PreviewInv, PanelOK
<1> QED BY <1>6, <1>7, <1>11, <1>14 DEF PreviewInv

\* The extension takes the first message: a document reported ready, or a button was pressed.
LEMMA DeliversToHost ==
    ASSUME PreviewInv, DeliverToHost
    PROVE  PreviewInv'
<1>1. /\ toHost \in Seq(Reports) /\ toHost # <<>> /\ toHost' = Tail(toHost)
      /\ store' = store /\ page' = page /\ writes' = writes /\ mishaps' = mishaps
  BY DEF DeliverToHost, PreviewInv, ChannelsOK
<1>2. /\ toHost' \in Seq(Reports) /\ Head(toHost) = toHost[1] /\ Len(toHost) \in Nat
      /\ Len(toHost) >= 1 /\ Len(toHost') = Len(toHost) - 1
      /\ \A i \in 1..Len(toHost') : toHost'[i] = toHost[i + 1]
  BY <1>1, Tailed
<1>3. panel /\ 1 \in 1..Len(toHost)
  BY <1>1, <1>2 DEF PreviewInv, PanelOK
<1>4. /\ documents' = documents /\ panel' = panel /\ pagination' = pagination
  BY DEF DeliverToHost, IsReady, host
<1>5. \A i \in 1..Len(toHost') : toHost'[i].from \in 1..documents'
  <2> TAKE i \in 1..Len(toHost')
  <2>1. i + 1 \in 1..Len(toHost) /\ toHost'[i] = toHost[i + 1]
    BY <1>2
  <2> QED BY <1>4, <2>1 DEF PreviewInv, ReportsOK
<1>6. Reported' => Reported
  <2> SUFFICES ASSUME Reported' PROVE Reported
    OBVIOUS
  <2>1. PICK i \in 1..Len(toHost') : toHost'[i].type = "ready" /\ toHost'[i].from = documents'
    BY DEF Reported
  <2>2. i + 1 \in 1..Len(toHost) /\ toHost'[i] = toHost[i + 1]
    BY <1>2
  <2> QED BY <1>4, <2>1, <2>2 DEF Reported
<1>7. Loaded' <=> Loaded
  BY <1>1, <1>4 DEF Loaded
<1>8. ReportsOK'
  BY <1>5, <1>6, <1>7 DEF PreviewInv, ReportsOK
<1>9. CASE toHost[1].type = "ready"
  <2>1. IsReady /\ crossed' = (crossed \/ toHost[1].from # documents) /\ UNCHANGED <<asked, tasks>>
    BY <1>2, <1>9 DEF DeliverToHost
  <2>2. /\ webviewReady' = TRUE /\ pendingPayload' = None
        /\ pendingPayload = None => toView' = toView
        /\ pendingPayload # None => toView' = Append(toView, Post(pendingPayload))
    BY <2>1 DEF IsReady
  <2>3. CommandsOK'
    BY <1>1, <2>1 DEF PreviewInv, CommandsOK
  <2>4. ChannelsOK'
    <3>1. CASE pendingPayload = None
      BY <1>1, <1>2, <1>4, <2>2, <3>1 DEF PreviewInv, ChannelsOK
    <3>2. CASE pendingPayload # None
      <4>1. pendingPayload \in Payloads
        BY <3>2 DEF PreviewInv, PanelOK
      <4>2. Post(pendingPayload) \in Docs \cup Messages /\ Post(pendingPayload).kind = "message"
        BY <4>1 DEF Post, Messages
      <4>3. toView \in Seq(Docs \cup Messages) /\ toView' = Append(toView, Post(pendingPayload))
        BY <2>2, <3>2 DEF PreviewInv, ChannelsOK
      <4>4. /\ toView' \in Seq(Docs \cup Messages) /\ Len(toView) \in Nat
            /\ Len(toView') = Len(toView) + 1 /\ toView'[Len(toView) + 1] = Post(pendingPayload)
            /\ \A i \in 1..Len(toView) : toView'[i] = toView[i]
        BY <4>2, <4>3, Appended
      <4>5. ASSUME NEW i \in 1..Len(toView'), toView'[i].kind # "message"
            PROVE  i \in 1..Len(toView) /\ toView'[i] = toView[i]
        <5>1. i # Len(toView) + 1
          BY <4>2, <4>4, <4>5
        <5> QED BY <4>4, <5>1
      <4> QED BY <1>1, <1>2, <1>4, <4>4, <4>5 DEF PreviewInv, ChannelsOK
    <3> QED BY <3>1, <3>2
  <2>5. ASSUME ~crossed' PROVE Listens'
    <3>1. ~crossed /\ toHost[1].from = documents
      BY <2>1, <2>5
    <3>2. Loaded
      BY <1>3, <1>9, <3>1 DEF PreviewInv, ReportsOK, Reported
    <3>3. CASE webviewReady
      <4>1. Listens /\ toView' = toView
        BY <2>2, <3>1, <3>3 DEF PreviewInv, PanelOK
      <4> QED BY <1>1, <1>4, <1>7, <4>1 DEF Listens
    <3>4. CASE ~webviewReady
      <4>1. Waits
        BY <1>3, <3>4 DEF PreviewInv, PanelOK
      <4>2. toView = <<>>
        <5> SUFFICES ASSUME toView # <<>> PROVE FALSE
          OBVIOUS
        <5>1. toView \in Seq(Docs \cup Messages) /\ Len(toView) \in 1..Len(toView)
          BY DEF PreviewInv, ChannelsOK
        <5>2. /\ toView[Len(toView)].kind # "message" /\ toView[Len(toView)].number = documents
          BY <4>1 DEF Waits, Fresh
        <5>3. page # None /\ page.number = documents /\ documents \in Nat
          BY <3>2 DEF Loaded, PreviewInv, ChannelsOK
        <5> QED BY <5>1, <5>2, <5>3 DEF PreviewInv, ChannelsOK
      <4>3. page.shown = pagination /\ pagination # None /\ pendingPayload = pagination
        BY <3>2, <4>1, <4>2 DEF Waits, Fresh, Loaded
      <4>4. Post(pagination).kind = "message" /\ Post(pagination).shown = pagination
        BY DEF Post
      <4>5. toView' = <<Post(pagination)>>
        BY <2>2, <4>2, <4>3
      <4>6. Len(toView') = 1 /\ toView'[1] = Post(pagination) /\ toView' # <<>>
        BY <4>5
      <4>7. \A i \in 1..Len(toView') : toView'[i].kind = "message"
        BY <4>4, <4>6
      <4> QED BY <1>4, <1>7, <3>2, <4>3, <4>4, <4>6, <4>7 DEF Listens
    <3> QED BY <3>3, <3>4
  <2>6. PanelOK'
    BY <1>3, <1>4, <2>1, <2>2, <2>5 DEF PreviewInv, PanelOK
  <2> QED BY <1>8, <2>3, <2>4, <2>6 DEF PreviewInv
<1>10. CASE toHost[1].type # "ready"
  <2>1. navigatePreviewPage(toHost[1].type) /\ UNCHANGED <<host, toView, crossed>>
    BY <1>2, <1>10 DEF DeliverToHost
  <2>2. webviewReady' = webviewReady /\ pendingPayload' = pendingPayload
    BY <2>1 DEF host
  <2>3. CommandsOK'
    <3> DEFINE to == toHost[1].type
    <3>1. navigatePreviewPage(to) /\ UNCHANGED <<store, writes, mishaps>>
      BY <1>1, <2>1
    <3>2. CommandsOK /\ PanelOK
      BY DEF PreviewInv
    <3> HIDE DEF to
    <3> QED BY <3>1, <3>2, Navigated
  <2>4. ChannelsOK'
    BY <1>1, <1>2, <1>4, <2>1 DEF PreviewInv, ChannelsOK
  <2>5. Reported => Reported'
    <3> SUFFICES ASSUME Reported PROVE Reported'
      OBVIOUS
    <3>1. PICK i \in 1..Len(toHost) : toHost[i].type = "ready" /\ toHost[i].from = documents
      BY DEF Reported
    <3>2. i # 1 /\ i \in 1..Len(toHost)
      BY <1>10, <3>1
    <3>3. i - 1 \in 1..Len(toHost')
      BY <1>2, <3>2
    <3>4. toHost'[i - 1] = toHost[i]
      BY <1>2, <3>2, <3>3
    <3> QED BY <1>4, <3>1, <3>3, <3>4 DEF Reported
  <2>6. (Waits' <=> Waits) /\ (Listens' <=> Listens)
    BY <1>1, <1>4, <1>6, <1>7, <2>1, <2>2, <2>5 DEF Waits, Listens, Fresh
  <2>7. PanelOK'
    BY <1>3, <1>4, <2>1, <2>2, <2>6 DEF PreviewInv, PanelOK
  <2> QED BY <1>8, <2>3, <2>4, <2>7 DEF PreviewInv
<1> QED BY <1>9, <1>10

-----------------------------------------------------------------------------
(* Every step, and what follows *)

LEMMA PreviewStarts ==
    ASSUME PreviewInit
    PROVE  PreviewInv
<1>1. store \in [Names -> [real : 0..MaxRecords, reported : 0..MaxRecords]]
  BY DEF PreviewInit
<1>2. /\ tasks \in [1..MaxAsks -> Tasks]
      /\ \A i \in 1..MaxAsks : tasks[i].at = "none"
  BY DEF PreviewInit, Tasks
<1>3. CommandsOK
  BY <1>1, <1>2, Sizes DEF PreviewInit, CommandsOK
<1>4. ChannelsOK /\ ReportsOK
  BY DEF PreviewInit, ChannelsOK, ReportsOK, Reported
<1>5. PanelOK
  BY DEF PreviewInit, NoPanel, PanelOK
<1> QED BY <1>3, <1>4, <1>5 DEF PreviewInv

LEMMA PreviewKept ==
    ASSUME PreviewInv, [PreviewNext]_previewVars
    PROVE  PreviewInv'
<1>1. CASE ClosePanel
  BY <1>1, ClosesPanel
<1>2. CASE DeliverToView
  BY <1>2, DeliversToView
<1>3. CASE Mount
  BY <1>3, Mounts
<1>4. CASE DeliverToHost
  BY <1>4, DeliversToHost
<1>5. CASE \E name \in Names : previewData(name) \/ RunWrites(name)
  BY <1>5, Previewed, Written
<1>6. CASE \E to \in {"next", "previous"} : PageCommand(to) \/ Click(to)
  BY <1>6, Commanded, Clicks
<1>7. CASE \E i \in 1..MaxAsks : Fetched(i) \/ FetchFails(i) \/ TracesAttached(i)
  BY <1>7, PageFetched, FetchFailed, PageShown
<1>8. CASE UNCHANGED previewVars
  <2>1. CommandsOK'
    BY <1>8 DEF previewVars, PreviewInv, CommandsOK
  <2>2. ChannelsOK' /\ ReportsOK' /\ PanelOK'
    BY <1>8, PanelStays DEF previewVars, PreviewInv
  <2> QED BY <2>1, <2>2 DEF PreviewInv
<1> QED BY <1>1, <1>2, <1>3, <1>4, <1>5, <1>6, <1>7, <1>8 DEF PreviewNext

\* The panel waits for a document that shows what it pages from, or listens through one that
\* was or will be told: views/queryResultsPanel.ts and webview/main.tsx, whatever crosses.
THEOREM PanelAndDocument == PreviewSpec => []PreviewInv
<1>1. PreviewInit => PreviewInv
  BY PreviewStarts
<1>2. PreviewInv /\ [PreviewNext]_previewVars => PreviewInv'
  BY PreviewKept
<1> QED BY <1>1, <1>2, PTL DEF PreviewSpec

\* Types: each payload is a page of an action, with no more records than a page holds.
THEOREM PreviewTypeCorrect == PreviewSpec => []PreviewTypeOK
<1>1. PreviewInv => PreviewTypeOK
  <2> SUFFICES ASSUME PreviewInv PROVE PreviewTypeOK
    OBVIOUS
  <2>1. \A i \in 1..MaxAsks : tasks[i].at \in {"none", "fetch", "traces", "over"}
                              /\ tasks[i].page \in Payloads \cup {None}
    BY DEF PreviewInv, CommandsOK, Tasks
  <2> QED BY <2>1 DEF PreviewInv, CommandsOK, ChannelsOK, PanelOK, PreviewTypeOK
<1> QED BY <1>1, PanelAndDocument, PTL

\* Once nothing is on its way the document shows the page the panel pages from, or an error
\* there is nothing to page from after: send, showError and the message handler of
\* views/queryResultsPanel.ts, with the documents' order of loading and reporting left open.
THEOREM PreviewHonest == PreviewSpec => []PanelHonest
<1>1. PreviewInv => PanelHonest
  <2> SUFFICES ASSUME PreviewInv, Settled, ~crossed
               PROVE  IF pagination = None THEN page.kind = "error"
                      ELSE page.kind = "app" /\ page.shown = pagination
    BY DEF PanelHonest
  <2>1. panel /\ page # None /\ page.mounted /\ toView = <<>>
    BY DEF Settled
  <2>2. ~Reported
    BY DEF Settled, Reported, PreviewInv, ChannelsOK
  <2>3. CASE webviewReady
    BY <2>1, <2>3 DEF PreviewInv, PanelOK, Listens, Loaded
  <2>4. CASE ~webviewReady
    BY <2>1, <2>2, <2>4 DEF PreviewInv, PanelOK, Waits, Fresh
  <2> QED BY <2>3, <2>4
<1> QED BY <1>1, PanelAndDocument, PTL

\* Without the drift mark the buttons the document offers are the commands the extension takes:
\* canPrev and canNext of the webview, navigatePreviewPage of commands/index.ts.
THEOREM ButtonsMeanWhatTheyOffer == PreviewSpec => []ButtonsHonest
<1>1. PreviewInv /\ PanelHonest => ButtonsHonest
  <2> SUFFICES ASSUME PreviewInv, PanelHonest, Settled, ~crossed, Showing, ~countDrift(page.shown)
               PROVE  /\ canNext(page.shown) <=> AcceptsNext(pagination)
                      /\ canPrev(page.shown) <=> AcceptsPrevious(pagination)
    BY DEF ButtonsHonest
  <2>1. pagination # None /\ page.shown = pagination /\ pagination \in Payloads
    BY DEF Showing, PanelHonest, PreviewInv, PanelOK
  <2> DEFINE offset  == pagination.offset
             total   == pagination.total
             records == pagination.records
  <2>2. offset \in Nat /\ total \in Nat /\ records \in 0..Limit /\ Limit \in Nat
    BY <2>1, Sizes DEF Payloads
  <2>3. ~(offset + records > total) /\ ~(records < Most(0, total - offset) /\ records < Limit)
    BY <2>1 DEF countDrift
  <2> HIDE DEF offset, total, records
  <2>4. offset + records < total <=> offset + Limit < total
    BY <2>2, <2>3 DEF Most
  <2>5. offset > 0 <=> offset # 0
    BY <2>2
  <2> QED BY <2>1, <2>4, <2>5 DEF canNext, canPrev, AcceptsNext, AcceptsPrevious, offset, total, records
<1>2. PreviewSpec => [](PreviewInv /\ PanelHonest)
  BY PanelAndDocument, PreviewHonest, PTL
<1> QED BY <1>1, <1>2, PTL

-----------------------------------------------------------------------------
(* The parts side by side: what one of them does leaves the others where they are *)

LEMMA PartsBegin == Init => LspInit /\ PreviewInit /\ ViewsInit /\ OrderInit /\ RowsInit
<1> SUFFICES ASSUME Init PROVE LspInit /\ PreviewInit /\ ViewsInit /\ OrderInit /\ RowsInit
  OBVIOUS
<1>1. NoFile => OrderInit
  BY NoActions DEF Init, NoFile, OrderInit
<1>2. NoRows => RowsInit
  BY DEF NoRows, RowsInit, ActionStatus
<1> QED BY <1>1, <1>2 DEF Init, NoServer, NoView, NoDiagram

LEMMA PartsMove == [Next]_vars =>
    /\ [LspNext]_lspVars /\ [PreviewNext]_previewVars /\ [ViewsNext]_viewsVars
    /\ [OrderNext]_orderVars /\ [RowsNext]_statuses
BY DEF Next, OfServer, vars

\* A behaviour of the instance is one of each part.
THEOREM PartsAreApart ==
    Spec => LspSpec /\ PreviewSpec /\ ViewsSpec /\ OrderSpec /\ RowsSpec
BY PartsBegin, PartsMove, PTL DEF Spec, LspSpec, PreviewSpec, ViewsSpec, OrderSpec, RowsSpec

\* The variables of every part stay in their range, side by side.
THEOREM EditorTypeCorrect == Spec => []TypeOK
BY PartsAreApart, LspTypeCorrect, PreviewTypeCorrect, ViewsTypeCorrect, OrderTypeCorrect, PTL
DEF TypeOK

\* So does what each part promises.
THEOREM EditorSafe == Spec =>
    [](/\ NoStray /\ PanelHonest /\ ButtonsHonest /\ ViewsHonest /\ RowHonest
       /\ ListedInOrder /\ LevelsAgree)
BY PartsAreApart, NeverStray, PreviewHonest, ButtonsMeanWhatTheyOffer, ViewsTell, RowsTell,
   ListsActions, LevelsFollow, PTL

=============================================================================
