----------------------------- MODULE IrService -----------------------------
(***************************************************************************)
(* Threads, lock and connections of the ir-builder service                 *)
(* (ir-builder/src/main.rs) and the calls of its clients (workload/src).   *)
(*                                                                         *)
(* IrBuilder takes a request as one critical section.  Here a request is a *)
(* call of a client, a thread that serves it, and the steps the thread     *)
(* takes while it holds the mutex; programs are left out but for which     *)
(* init they stem from.  Calls are numbered: those of the health checker   *)
(* are its attempts at init, each after the one before has failed; those   *)
(* of the drivers follow one another, because serial drivers do.           *)
(*                                                                         *)
(* External: a node that is told to connect dials back unless it restarts  *)
(* first; it answers on a connection until it restarts.  The network may   *)
(* break the connection of a client whose request is on its way.           *)
(***************************************************************************)
EXTENDS Integers, Sequences, FiniteSets, SequencesExt

CONSTANTS
  Inits,           \* calls of the health checker, its attempts at init
  Drivers,         \* calls of the drivers
  num_outbound,    \* connections that the nodes open to the service
  num_connections, \* all connections
  MaxFaults        \* bound: restarts, broken connections

ASSUME IrServiceAssumption ==
  /\ num_outbound \in Nat /\ num_connections \in Nat
  /\ num_outbound <= num_connections
  /\ MaxFaults \in Nat
  /\ Inits \cup Drivers \subseteq Nat \ {0} /\ Inits \cap Drivers = {}

VARIABLES
  call,      \* for each call, what its client sees
  thread,    \* for each call, where the thread that serves it is
  service,   \* the state behind the mutex, and the mutex
  world      \* the dial that is awaited, the faults so far

service_vars == <<call, thread, service, world>>

Calls == Inits \cup Drivers

\* What a call asks for.
Method == {"init", "mutate", "compile"}

NoOne == 0

Outbound(k) == k <= num_outbound

\* The fields of a service that has just started; `program` counts the inits
\* that built it, `metadata` is the one that the recent block stems from.
NewService ==
  [holder |-> NoOne, poisoned |-> FALSE, program |-> 0, inits |-> 0,
   metadata |-> 0, connections |-> << >>, step |-> "none", index |-> 0, failed |-> << >>]

ServiceInit ==
  /\ call = [c \in Calls |-> [status |-> "none", method |-> "init"]]
  /\ thread = [c \in Calls |-> "none"]
  /\ service = NewService
  /\ world = [dial |-> "none", faults |-> 0, late |-> FALSE, restarted |-> FALSE]

Fault == world.faults < MaxFaults

CountFault == world' = [world EXCEPT !.faults = @ + 1]

-----------------------------------------------------------------------------
\* The clients: IrBuilderClient::call, without any time limit.

Waiting(c) == call[c].status = "waiting"

Over(c) == call[c].status \in {"success", "error"}

\* One after the other: the next call of a client follows the end of the last.
\* Drivers start when the health checker has seen a success.
MayCall(c) ==
  /\ call[c].status = "none"
  /\ IF c \in Inits
     THEN \A i \in Inits : i < c => call[i].status = "error"
     ELSE /\ \E i \in Inits : call[i].status = "success"
          /\ \A d \in Drivers : d < c => Over(d)

\* The request is written; a thread of its own reads it.
Call(c, method) ==
  /\ MayCall(c) /\ (c \in Inits <=> method = "init")
  /\ call' = [call EXCEPT ![c] = [status |-> "waiting", method |-> method]]
  /\ thread' = [thread EXCEPT ![c] = "locking"]
  /\ UNCHANGED <<service, world>>

\* The connection breaks: the client has an error, the thread knows nothing.
Break(c) ==
  /\ Waiting(c) /\ Fault
  /\ call' = [call EXCEPT ![c].status = "error"]
  /\ CountFault
  /\ UNCHANGED <<thread, service>>

Answer(c, status) ==
  call' = [call EXCEPT ![c].status = IF @ = "waiting" THEN status ELSE @]

-----------------------------------------------------------------------------
\* handle_client: lock, handle the request, unlock, answer.

\* `state.lock().unwrap()`: on a poisoned mutex the thread panics, and its
\* client reads the end of the stream.
LockPoisoned(c) ==
  /\ thread[c] = "locking" /\ service.holder = NoOne /\ service.poisoned
  /\ thread' = [thread EXCEPT ![c] = "done"]
  /\ Answer(c, "error")
  /\ UNCHANGED <<service, world>>

Lock(c) ==
  /\ thread[c] = "locking" /\ service.holder = NoOne /\ ~ service.poisoned
  /\ thread' = [thread EXCEPT ![c] = "running"]
  /\ service' = [service EXCEPT !.holder = c, !.step = call[c].method]
  /\ UNCHANGED <<call, world>>

\* The mutex is released with what the handler made of the state.
Unlock(c, state, status) ==
  /\ service' = [state EXCEPT !.holder = NoOne, !.step = "none", !.index = 0,
                              !.failed = << >>]
  /\ thread' = [thread EXCEPT ![c] = "done"]
  /\ Answer(c, status)

Holding(c, step) == service.holder = c /\ service.step = step

-----------------------------------------------------------------------------
\* A connection is made in steps; init and reconnect share them.

\* `index` is the connection under construction.
Reconnecting == call[service.holder].method = "compile"

\* Mutant of Failed: init goes on with the next connection.
Failed_skips(c) ==
  /\ service' = [service EXCEPT
       !.index = IF Reconnecting THEN @ ELSE @ + 1,
       !.step = IF Reconnecting THEN "reconnect"
                ELSE IF service.index = num_connections THEN "build"
                ELSE "dial"]
  /\ UNCHANGED <<call, thread>>

\* A connection that cannot be made ends init, with those made so far in
\* place; compile keeps the old one.
Failed(c) ==
  IF Reconnecting
  THEN /\ service' = [service EXCEPT !.step = "reconnect"]
       /\ UNCHANGED <<call, thread>>
  ELSE Unlock(c, service, "error")

\* Inbound: TcpStream::connect.  Outbound: the addconnection RPC.
Dial(c) ==
  /\ Holding(c, "dial")
  /\ service' = [service EXCEPT !.step = IF Outbound(service.index)
                                         THEN "accept" ELSE "handshake"]
  /\ world' = [world EXCEPT !.dial = IF Outbound(service.index)
                                     THEN "asked" ELSE "none"]
  /\ UNCHANGED <<call, thread>>

\* The node refuses, or does not get through the handshake in time.
ConnectFails(c) ==
  /\ Holding(c, "dial") \/ Holding(c, "handshake")
  /\ Fault /\ CountFault
  /\ Failed(c)

\* listener.accept(): it returns when the node has dialled, and never else.
Accept(c) ==
  /\ Holding(c, "accept") /\ world.dial = "dialled"
  /\ service' = [service EXCEPT !.step = "handshake"]
  /\ world' = [world EXCEPT !.dial = "none"]
  /\ UNCHANGED <<call, thread>>

\* version_handshake succeeds: the connection is at its index.
Connected(c) ==
  /\ Holding(c, "handshake")
  /\ service' =
       IF Reconnecting
       THEN [service EXCEPT !.connections[service.index] = "alive",
                            !.step = "reconnect"]
       ELSE [service EXCEPT !.connections = Append(@, "alive"),
                            !.index = @ + 1,
                            !.step = IF service.index = num_connections
                                     THEN "build" ELSE "dial"]
  /\ UNCHANGED <<call, thread, world>>

-----------------------------------------------------------------------------
\* init.

ClearConnections(c) ==
  /\ Holding(c, "init")
  /\ service' = [service EXCEPT !.connections = << >>, !.index = 1,
                   !.step = IF num_connections = 0 THEN "build" ELSE "dial"]
  /\ world' = [world EXCEPT !.late = @ \/ \E i \in Inits : call[i].status = "success"]
  /\ UNCHANGED <<call, thread>>

\* Builder, compiler and context are replaced; the metadata is not.
BuildProgram(c) ==
  /\ Holding(c, "build")
  /\ Unlock(c, [service EXCEPT !.inits = @ + 1, !.program = service.inits + 1],
            "success")
  /\ UNCHANGED world

-----------------------------------------------------------------------------
\* mutate and compile.

NotInitialized(c) ==
  /\ \E step \in Method \ {"init"} : Holding(c, step)
  /\ service.program = 0
  /\ Unlock(c, service, "error")
  /\ UNCHANGED world

Mutate(c) ==
  /\ Holding(c, "mutate")
  /\ service.program # 0
  /\ Unlock(c, service, "success")
  /\ UNCHANGED world

\* Mutant of Panic: the unwinding thread does not release the mutex.
Panic_keeps_mutex(c) ==
  /\ Holding(c, "mutate")
  /\ service.program # 0 /\ service.metadata \notin {0, service.program}
  /\ service' = [service EXCEPT !.poisoned = TRUE, !.step = "none"]
  /\ thread' = [thread EXCEPT ![c] = "done"]
  /\ Answer(c, "error")
  /\ UNCHANGED world

\* TipBlockGenerator builds on the header variable of the recent block.  That
\* may not exist in the program, or not be a header there: force_append
\* panics, and the mutex is poisoned.
Panic(c) ==
  /\ Holding(c, "mutate")
  /\ service.program # 0 /\ service.metadata \notin {0, service.program}
  /\ Unlock(c, [service EXCEPT !.poisoned = TRUE], "error")
  /\ UNCHANGED world

\* Messages go out; in half of the requests every connection is pinged, and
\* those that fail are made again, one after the other.
Compile(c, ping) ==
  /\ Holding(c, "compile") /\ service.program # 0
  /\ service' = [service EXCEPT
       !.step = "reconnect",
       !.failed = IF ping
                  THEN SelectSeq([k \in 1 .. Len(service.connections) |-> k],
                                 LAMBDA k : service.connections[k] = "dead")
                  ELSE << >>]
  /\ UNCHANGED <<call, thread, world>>

Reconnect(c) ==
  /\ Holding(c, "reconnect") /\ service.failed # << >>
  /\ service' = [service EXCEPT !.step = "dial", !.index = Head(service.failed),
                                !.failed = Tail(@)]
  /\ UNCHANGED <<call, thread, world>>

\* The tip may be a block of the program, or the RPCs fail.
Sync(c, found) ==
  /\ Holding(c, "reconnect") /\ service.failed = << >>
  /\ Unlock(c, [service EXCEPT !.metadata = IF found THEN service.program ELSE @],
            "success")
  /\ UNCHANGED world

-----------------------------------------------------------------------------
\* The nodes, and the end of the container.

DialBack ==
  /\ world.dial = "asked"
  /\ world' = [world EXCEPT !.dial = "dialled"]
  /\ UNCHANGED <<call, thread, service>>

\* A node that restarts forgets whom it was to connect to.
LoseDial ==
  /\ world.dial = "asked" /\ Fault
  /\ world' = [world EXCEPT !.dial = "lost", !.faults = @ + 1]
  /\ UNCHANGED <<call, thread, service>>

Drop(k) ==
  /\ service.connections[k] = "alive" /\ Fault
  /\ service' = [service EXCEPT !.connections[k] = "dead"]
  /\ CountFault
  /\ UNCHANGED <<call, thread>>

\* The service restarts: nothing of its state is kept.
Restart ==
  /\ Fault
  /\ service' = NewService
  /\ thread' = [c \in Calls |-> IF thread[c] = "none" THEN "none" ELSE "done"]
  /\ call' = [c \in Calls |-> IF Waiting(c) THEN [call[c] EXCEPT !.status = "error"]
                              ELSE call[c]]
  /\ world' = [world EXCEPT !.dial = "none", !.faults = @ + 1, !.restarted = TRUE]

-----------------------------------------------------------------------------
\* What the thread of call c does, when it can.
Serve(c) ==
  \/ LockPoisoned(c) \/ Lock(c)
  \/ ClearConnections(c) \/ BuildProgram(c)
  \/ Dial(c) \/ Accept(c) \/ Connected(c) \/ ConnectFails(c)
  \/ NotInitialized(c) \/ Mutate(c) \/ Panic(c)
  \/ \E ping \in BOOLEAN : Compile(c, ping)
  \/ Reconnect(c)
  \/ \E found \in BOOLEAN : Sync(c, found)

ServiceNext ==
  \/ \E c \in Calls : \E method \in Method : Call(c, method)
  \/ \E c \in Calls : Break(c)
  \/ \E c \in Calls : Serve(c)
  \/ DialBack \/ LoseDial
  \/ \E k \in DOMAIN service.connections : Drop(k)
  \/ Restart

\* Threads run, reads and writes on a connection time out after 30 seconds, a
\* node that keeps running dials back.  Which thread gets the mutex is open:
\* calls are finitely many, so each gets it when the others are through.
ServiceFairness ==
  WF_service_vars(\E c \in Calls : Serve(c)) /\ WF_service_vars(DialBack)

ServiceSpec == ServiceInit /\ [][ServiceNext]_service_vars /\ ServiceFairness

-----------------------------------------------------------------------------
\* Correctness.

\* Does a thread that has the mutex wait for a node that will never dial?
Stuck == service.step = "accept" /\ world.dial = "lost"

\* Every call comes to an end, with an answer or an error: a failed request, a
\* panic, a poisoned mutex, broken connections and restarts all reach the
\* client, which has no time limit of its own.  The one exception is a thread
\* that holds the mutex in accept for a node that has forgotten it.
EveryCallEnds == []<>((\A c \in Calls : ~ Waiting(c)) \/ Stuck)

Ready == \E i \in Inits : call[i].status = "success"

\* Only an init that gets the mutex after the health checker was answered can
\* do harm: without one the metadata belongs to the program, no request
\* panics, and a service that has not been restarted since is whole.
OnlyLateInitsHurt ==
  ~ world.late =>
    /\ ~ service.poisoned
    /\ service.metadata \in {0, service.program}
    /\ Ready /\ ~ world.restarted =>
         service.program # 0 /\ Len(service.connections) = num_connections

\* The metadata is "per-testcase": it is about the program there is.
PerTestcaseMetadata == service.metadata \in {0, service.program}
=============================================================================
