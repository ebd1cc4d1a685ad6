----------------------------- MODULE LspLifecycle -----------------------------
(***************************************************************************)
(* The language server the editor extension keeps running (extension.ts).  *)
(* Every start and stop is a cycle of one promise chain; a cycle awaits    *)
(* the stop of the client it holds, then the interpreter to use, then the  *)
(* answer of the server it starts, for ten seconds at most.                *)
(***************************************************************************)
EXTENDS Naturals, Sequences

CONSTANTS
    MaxServers,   \* clients made in all
    MaxChanges,   \* changes of the interpreter
    MaxRestarts,  \* uses of the restart command
    MaxFailures   \* servers that crash, starts and stops that fail

\* There is a client for every cycle that can start one.
ASSUME ServersAssumption ==
    /\ MaxServers \in Nat /\ MaxChanges \in Nat /\ MaxRestarts \in Nat /\ MaxFailures \in Nat
    /\ MaxServers > MaxChanges + MaxRestarts

VARIABLES
    interpreter,  \* the active environment, numbered by its changes
    disposed,
    debounceTimer,
    lifecycleQueue, \* the cycles of the chain not over yet: "restart" or "stop"
    at,           \* where the first of them is
    using,        \* the interpreter its server is to run on
    client,       \* the client held; 0 when there is none
    made,         \* clients made so far
    server,       \* what became of the server of each client
    runsOn,       \* the interpreter of each client
    lost,         \* clients dropped without having been stopped
    restarts, failures

lspVars == <<interpreter, disposed, debounceTimer, lifecycleQueue, at, using, client,
             made, server, runsOn, lost, restarts, failures>>

Clients == 1..MaxServers
Alive(s) == server[s] \in {"starting", "running"}

Failure == failures < MaxFailures /\ failures' = failures + 1

\* The event listener waits for the changes to stop.
InterpreterChanges ==
    /\ interpreter < MaxChanges /\ interpreter' = interpreter + 1
    /\ debounceTimer' = TRUE
    /\ UNCHANGED <<disposed, lifecycleQueue, at, using, client, made, server, runsOn, lost,
                   restarts, failures>>

\* MUTANT: a restart asked for while a cycle is under way is taken to be that cycle.
restartServerOnce == lifecycleQueue' =
    IF lifecycleQueue = <<>> THEN <<"restart">> ELSE lifecycleQueue

restartServer == lifecycleQueue' = Append(lifecycleQueue, "restart")

DebounceFires ==
    /\ debounceTimer /\ debounceTimer' = FALSE
    /\ restartServer
    /\ UNCHANGED <<interpreter, disposed, at, using, client, made, server, runsOn, lost,
                   restarts, failures>>

RestartCommand ==
    /\ restarts < MaxRestarts /\ restarts' = restarts + 1
    /\ restartServer
    /\ UNCHANGED <<interpreter, disposed, debounceTimer, at, using, client, made, server,
                   runsOn, lost, failures>>

deactivate ==
    /\ ~disposed /\ disposed' = TRUE
    /\ debounceTimer' = FALSE
    /\ lifecycleQueue' = Append(lifecycleQueue, "stop")
    /\ UNCHANGED <<interpreter, at, using, client, made, server, runsOn, lost, restarts,
                   failures>>

-----------------------------------------------------------------------------
(* One cycle of the chain *)

First(kind) == lifecycleQueue # <<>> /\ Head(lifecycleQueue) = kind

CycleEnds == at' = "queued" /\ lifecycleQueue' = Tail(lifecycleQueue)
MovesOn(to) == at' = to /\ UNCHANGED lifecycleQueue

\* The client is let go; its server goes on unless it has been stopped.
Drops(stopped) ==
    /\ client' = 0
    /\ lost' = IF stopped \/ ~Alive(client) THEN lost ELSE lost \cup {client}

\* MUTANT: a restart queued behind the shutdown is carried out.
SkippedNever == FALSE
Skipped == First("restart") /\ disposed

Skip ==
    /\ at = "queued" /\ Skipped
    /\ CycleEnds
    /\ UNCHANGED <<interpreter, disposed, debounceTimer, using, client, made, server, runsOn,
                   lost, restarts, failures>>

BeginCycle ==
    /\ at = "queued" /\ lifecycleQueue # <<>> /\ ~Skipped
    /\ IF client # 0 THEN MovesOn("stopping")
       ELSE IF First("restart") THEN MovesOn("resolving") ELSE CycleEnds
    /\ UNCHANGED <<interpreter, disposed, debounceTimer, using, client, made, server, runsOn,
                   lost, restarts, failures>>

\* client.stop() resolves; a server still coming up cannot be stopped.
Stopped ==
    /\ at = "stopping" /\ server[client] # "starting"
    /\ server' = [server EXCEPT ![client] = "down"]
    /\ Drops(TRUE)
    /\ IF First("restart") THEN MovesOn("resolving") ELSE CycleEnds
    /\ UNCHANGED <<interpreter, disposed, debounceTimer, using, made, runsOn, restarts,
                   failures>>

\* client.stop() rejects: the client is dropped, and a restart is given up.
StopFails ==
    /\ at = "stopping" /\ Failure
    /\ Drops(FALSE) /\ CycleEnds
    /\ UNCHANGED <<interpreter, disposed, debounceTimer, using, made, server, runsOn, restarts>>

ResolveServerOptions ==
    /\ at = "resolving" /\ using' = interpreter /\ MovesOn("resolved")
    /\ UNCHANGED <<interpreter, disposed, debounceTimer, client, made, server, runsOn, lost,
                   restarts, failures>>

StartClient ==
    /\ at = "resolved" /\ MovesOn("starting")
    /\ made' = made + 1 /\ client' = made + 1
    /\ server' = [server EXCEPT ![made + 1] = "starting"]
    /\ runsOn' = [runsOn EXCEPT ![made + 1] = using]
    /\ UNCHANGED <<interpreter, disposed, debounceTimer, using, lost, restarts, failures>>

Started ==
    /\ at = "starting" /\ server[client] = "running"
    /\ CycleEnds
    /\ UNCHANGED <<interpreter, disposed, debounceTimer, using, client, made, server, runsOn,
                   lost, restarts, failures>>

\* The server dies or ten seconds pass: the stop that follows is not awaited.
StartFails ==
    /\ at = "starting"
    /\ \/ server[client] = "down" /\ UNCHANGED failures
       \/ server[client] = "starting" /\ Failure
    /\ Drops(FALSE) /\ CycleEnds
    /\ UNCHANGED <<interpreter, disposed, debounceTimer, using, made, server, runsOn, restarts>>

Cycle == \/ Skip \/ BeginCycle \/ Stopped \/ StopFails \/ ResolveServerOptions
         \/ StartClient \/ Started \/ StartFails

-----------------------------------------------------------------------------
(* The servers *)

Becomes(s, state) ==
    /\ server' = [server EXCEPT ![s] = state]
    /\ UNCHANGED <<interpreter, disposed, debounceTimer, lifecycleQueue, at, using, client,
                   made, runsOn, lost, restarts>>

ServerUp(s) == server[s] = "starting" /\ Becomes(s, "running") /\ UNCHANGED failures

\* The connection closes: the client starts a server that ran again, unless the extension
\* is on its way out or it has been done too often.
ServerCloses(s) ==
    /\ Alive(s) /\ Failure
    /\ \/ Becomes(s, "down")
       \/ server[s] = "running" /\ ~disposed /\ Becomes(s, "starting")

-----------------------------------------------------------------------------

\* activate() has made its first call of restartServer.
LspInit ==
    /\ interpreter = 0 /\ disposed = FALSE /\ debounceTimer = FALSE
    /\ lifecycleQueue = <<"restart">> /\ at = "queued" /\ using = 0
    /\ client = 0 /\ made = 0 /\ lost = {}
    /\ server = [s \in Clients |-> "none"] /\ runsOn = [s \in Clients |-> 0]
    /\ restarts = 0 /\ failures = 0

LspNext ==
    \/ InterpreterChanges \/ DebounceFires \/ RestartCommand \/ deactivate \/ Cycle
    \/ \E s \in Clients : ServerUp(s) \/ ServerCloses(s)

LspSpec == LspInit /\ [][LspNext]_lspVars

-----------------------------------------------------------------------------
(* Properties *)

\* Ranges; above all, a client is left for every cycle that can start one, and the cycle
\* under way is the first of the queue.
LspTypeOK ==
    /\ interpreter \in 0..MaxChanges /\ using \in 0..interpreter
    /\ disposed \in BOOLEAN /\ debounceTimer \in BOOLEAN
    /\ \A i \in DOMAIN lifecycleQueue : lifecycleQueue[i] \in {"restart", "stop"}
    /\ at \in {"queued", "stopping", "resolving", "resolved", "starting"}
    /\ at # "queued" => lifecycleQueue # <<>>
    /\ made \in 0..MaxServers /\ client \in 0..made /\ lost \subseteq 1..made
    /\ server \in [Clients -> {"none", "starting", "running", "down"}]
    /\ runsOn \in [Clients -> 0..MaxChanges]
    /\ restarts \in 0..MaxRestarts /\ failures \in 0..MaxFailures

\* However starts, restarts and stops overlap, a server runs beside the one the extension
\* holds only when its start was given up or its stop was refused; and once the chain is
\* through with the shutdown no other is left, a restart that was queued before it or asked
\* for after it notwithstanding.
NoStray ==
    /\ \A s \in Clients : Alive(s) => s = client \/ s \in lost
    /\ disposed /\ lifecycleQueue = <<>> => client = 0

\* A change of interpreter reaches the server, whatever cycle was under way when it came.
FollowsInterpreter ==
    <>[](disposed \/ client = 0 \/ runsOn[client] = interpreter)

=============================================================================
