----------------------------- MODULE Libraries ------------------------------
(***************************************************************************)
(* How requests reach the vendor libraries: the threads they run on, the   *)
(* cache of loaded libraries, the FFI gate, and the wait for device events.*)
(*                                                                         *)
(* Sessions says what becomes of the session states; this module keeps of  *)
(* a state only whether its table holds a guard, and looks at the tasks.   *)
(* A task is a closure on the blocking pool.  It makes one vendor call,    *)
(* which stands for the calls a handler makes one after the other.  Four   *)
(* kinds of call differ in how they reach the library:                     *)
(*   adapter  a method of SkfProvider or of a guard takes the gate of its  *)
(*            provider.  The default provider has one gate; for any other  *)
(*            alias resolve builds an adapter with a gate of its own for   *)
(*            every request, so that gate never makes anybody wait;        *)
(*   raw      a handler of main.rs calls the SkfApi it got from get_api    *)
(*            without a gate;                                              *)
(*   wait     WaitForDevEvent: no gate and no time limit;                  *)
(*   cancel   CancelWaitForDevEvent: the same, and only the default one.   *)
(*                                                                         *)
(* A slot is one of the MAX_CONNECTIONS permits, and the connection that   *)
(* has it.  When the peer leaves, the guards in the session's table are    *)
(* dropped by the client task itself, on a worker of the runtime, and take *)
(* the gate there.                                                         *)
(***************************************************************************)
EXTENDS Naturals, FiniteSets

CONSTANTS
  Slots,        \* the permits of the connection semaphore
  NoSlot,       \* nobody awaits the task
  Aliases,      \* the configured providers
  Default,      \* the default one
  Requests,     \* the requests of clients, as <<kind, alias>>
  MaxTasks,     \* bound: tasks on the blocking pool at one time
  MaxBlocking,  \* threads of the blocking pool
  Workers       \* worker threads of the runtime

Kinds == {"adapter", "raw", "wait", "cancel"}

ASSUME SlotsAssumption == IsFiniteSet(Slots) /\ NoSlot \notin Slots
ASSUME DefaultAssumption == Default \in Aliases
ASSUME LibRequestsAssumption ==
  /\ Requests \subseteq Kinds \X Aliases
  /\ \A r \in Requests : r[1] = "cancel" => r[2] = Default
ASSUME ThreadsAssumption ==
  MaxTasks \in Nat /\ MaxBlocking \in Nat \ {0} /\ Workers \in Nat \ {0}

Tasks == 1..MaxTasks

VARIABLES
  conn,    \* what the client task of each slot is doing
  holds,   \* the table of its session holds a guard of the default provider
  req,     \* the request each task executes
  pc,      \* how far its thread is
  client,  \* the slot that awaits the task
  late,    \* the table of an abandoned task holds such a guard
  cached   \* the aliases in SkfContext::apis

vars == <<conn, holds, req, pc, client, late, cached>>

NoRequest == <<"none", Default>>

\* "gate" and "vendor": the worker is dropping the session's table.
ConnStates == {"free", "idle", "await", "gate", "vendor"}
Pcs == {"none", "queued", "lookup", "load", "insert", "enter", "inside", "done"}

LibTypeOK ==
  /\ conn \in [Slots -> ConnStates]
  /\ holds \in [Slots -> BOOLEAN]
  /\ req \in [Tasks -> Requests \cup {NoRequest}]
  /\ pc \in [Tasks -> Pcs]
  /\ client \in [Tasks -> Slots \cup {NoSlot}]
  /\ late \in [Tasks -> BOOLEAN]
  /\ cached \subseteq Aliases

\* The default library was loaded by NativeSkfProvider::new; the cache of get_api
\* starts empty, for the default alias too.
LibInit ==
  /\ conn = [c \in Slots |-> "free"]
  /\ holds = [c \in Slots |-> FALSE]
  /\ req = [t \in Tasks |-> NoRequest]
  /\ pc = [t \in Tasks |-> "none"]
  /\ client = [t \in Tasks |-> NoSlot]
  /\ late = [t \in Tasks |-> FALSE]
  /\ cached = {}

-----------------------------------------------------------------------------
(* Threads, gates and libraries. *)

Kind(t) == req[t][1]
Lib(t) == req[t][2]

\* WaitForDevEvent and CancelWaitForDevEvent (is_wait_method).
Exempt(t) == Kind(t) \in {"wait", "cancel"}

\* Tasks that have a thread of the pool.
Busy == {t \in Tasks : pc[t] \notin {"none", "queued"}}

\* Workers that are inside the drop of a table.
Dropping == {c \in Slots : conn[c] \in {"gate", "vendor"}}

\* Some worker can poll a future.
WorkerFree == Cardinality(Dropping) < Workers

\* Mutant of Gated: one gate for all the libraries of the process.
GatedEverywhere(t) == Kind(t) = "adapter"

\* Mutant of Gated: the wait takes the gate of its provider too.
GatedWait(t) == Kind(t) \in {"adapter", "wait"} /\ Lib(t) = Default

\* Mutant of Gated: the cancel does.
GatedCancel(t) == Kind(t) \in {"adapter", "cancel"} /\ Lib(t) = Default

\* The call takes the gate that other calls contend for.
Gated(t) == Kind(t) = "adapter" /\ Lib(t) = Default

\* The threads of the pool and the workers that have the gate of the default
\* provider.
GateHolders ==
  {<<"thread", t>> : t \in {u \in Tasks : pc[u] = "inside" /\ Gated(u)}}
    \cup {<<"worker", c>> : c \in {d \in Slots : conn[d] = "vendor"}}

GateHeld == GateHolders # {}

\* Calls that need an SkfApi from get_api; the others use ctx.provider.
NeedsApi(t) == Kind(t) = "raw" \/ Lib(t) # Default

\* The calls inside the library of an alias.  Waits and cancels do not count:
\* they are meant to be there together.
Inside(a) ==
  {<<"thread", t>> : t \in {u \in Tasks : pc[u] = "inside" /\ Lib(u) = a /\ ~Exempt(u)}}
    \cup {<<"worker", c>> : c \in {d \in Slots : conn[d] = "vendor" /\ a = Default}}

-----------------------------------------------------------------------------
(* The blocking thread. *)

Goto(t, label) == pc' = [pc EXCEPT ![t] = label]

PoolHasThread == Cardinality(Busy) < MaxBlocking

\* The pool has a thread for the task.
Start(t) ==
  /\ pc[t] = "queued"
  /\ PoolHasThread
  /\ Goto(t, IF NeedsApi(t) THEN "lookup" ELSE "enter")
  /\ UNCHANGED <<conn, holds, req, client, late, cached>>

\* get_api, 1: the cache is read.
Lookup(t) ==
  /\ pc[t] = "lookup"
  /\ Goto(t, IF Lib(t) \in cached THEN "enter" ELSE "load")
  /\ UNCHANGED <<conn, holds, req, client, late, cached>>

\* get_api, 2: the library is loaded, with no lock held.
Load(t) ==
  /\ pc[t] = "load"
  /\ Goto(t, "insert")
  /\ UNCHANGED <<conn, holds, req, client, late, cached>>

\* The alias has no path for this system, or its library does not load.
LoadFails(t) ==
  /\ pc[t] = "load"
  /\ Goto(t, "done")
  /\ UNCHANGED <<conn, holds, req, client, late, cached>>

\* get_api, 3: the cache is written; a copy put there meanwhile is replaced.
Insert(t) ==
  /\ pc[t] = "insert"
  /\ cached' = cached \cup {Lib(t)}
  /\ Goto(t, "enter")
  /\ UNCHANGED <<conn, holds, req, client, late>>

\* The call enters the library, a gated one once the gate is free.
Enter(t) ==
  /\ pc[t] = "enter"
  /\ Gated(t) => ~GateHeld
  /\ Goto(t, "inside")
  /\ UNCHANGED <<conn, holds, req, client, late, cached>>

\* The vendor returns.  DigestInit leaves a guard in the table, DigestFinal and
\* CloseHash take it out.
CallReturns(t) ==
  /\ pc[t] = "inside"
  /\ ~Exempt(t)
  /\ Goto(t, "done")
  /\ \E h \in BOOLEAN :
       IF client[t] \in Slots
         THEN /\ Gated(t) \/ h = holds[client[t]]
              /\ holds' = [holds EXCEPT ![client[t]] = h]
              /\ UNCHANGED late
         ELSE /\ Gated(t) \/ h = late[t]
              /\ late' = [late EXCEPT ![t] = h]
              /\ UNCHANGED holds
  /\ UNCHANGED <<conn, req, client, cached>>

\* A device event, or an error, ends the wait.
WaitReturns(t) ==
  /\ pc[t] = "inside"
  /\ Kind(t) = "wait"
  /\ Goto(t, "done")
  /\ UNCHANGED <<conn, holds, req, client, late, cached>>

\* SKF_CancelWaitForDevEvent ends the waits that are inside the library.
CancelReturns(t) ==
  /\ pc[t] = "inside"
  /\ Kind(t) = "cancel"
  /\ pc' = [u \in Tasks |->
              IF u = t \/ (pc[u] = "inside" /\ Kind(u) = "wait" /\ Lib(u) = Default)
                THEN "done" ELSE pc[u]]
  /\ UNCHANGED <<conn, holds, req, client, late, cached>>

\* The slot of the task is free again.
Leave(t) ==
  /\ Goto(t, "none")
  /\ req' = [req EXCEPT ![t] = NoRequest]
  /\ client' = [client EXCEPT ![t] = NoSlot]
  /\ late' = [late EXCEPT ![t] = FALSE]

\* Mutant of LateEnd: the table is dropped on a thread of its own, which the pool
\* must have.
LateEndRespawning(t) ==
  /\ pc[t] = "done"
  /\ client[t] = NoSlot
  /\ late[t] => ~GateHeld /\ PoolHasThread
  /\ Leave(t)
  /\ UNCHANGED <<conn, holds, cached>>

\* An abandoned task ends; the guards in its table are dropped on its thread.
LateEnd(t) ==
  /\ pc[t] = "done"
  /\ client[t] = NoSlot
  /\ late[t] => ~GateHeld
  /\ Leave(t)
  /\ UNCHANGED <<conn, holds, cached>>

-----------------------------------------------------------------------------
(* The client task, which needs a worker for every step. *)

\* A free permit, the upgrade, a new session.
Connect(c) ==
  /\ conn[c] = "free"
  /\ WorkerFree
  /\ conn' = [conn EXCEPT ![c] = "idle"]
  /\ UNCHANGED <<holds, req, pc, client, late, cached>>

\* A text frame: spawn_blocking.
Dispatch(c) ==
  /\ conn[c] = "idle"
  /\ WorkerFree
  /\ conn' = [conn EXCEPT ![c] = "await"]
  /\ \E t \in Tasks, r \in Requests :
       /\ pc[t] = "none"
       /\ \A u \in Tasks : u < t => pc[u] # "none"
       /\ Goto(t, "queued")
       /\ req' = [req EXCEPT ![t] = r]
       /\ client' = [client EXCEPT ![t] = c]
  /\ UNCHANGED <<holds, late, cached>>

\* The task ended in time.
Reply(c) ==
  /\ WorkerFree
  /\ conn' = [conn EXCEPT ![c] = "idle"]
  /\ \E t \in Tasks :
       /\ client[t] = c
       /\ pc[t] = "done"
       /\ Leave(t)
  /\ UNCHANGED <<holds, cached>>

\* Mutant of Abandon: the connection still listens to the task it gave up.
AbandonStillAwaited(c) ==
  /\ WorkerFree
  /\ conn' = [conn EXCEPT ![c] = "idle"]
  /\ \E t \in Tasks :
       /\ client[t] = c
       /\ pc[t] # "done"
       /\ ~Exempt(t)
  /\ UNCHANGED <<holds, req, pc, client, late, cached>>

\* tokio::time::timeout, around every request that is not exempt: the task goes
\* on with the state, the connection gets an empty one.
Abandon(c) ==
  /\ WorkerFree
  /\ conn' = [conn EXCEPT ![c] = "idle"]
  /\ \E t \in Tasks :
       /\ client[t] = c
       /\ pc[t] # "done"
       /\ ~Exempt(t)
       /\ client' = [client EXCEPT ![t] = NoSlot]
       /\ late' = [late EXCEPT ![t] = holds[c]]
  /\ holds' = [holds EXCEPT ![c] = FALSE]
  /\ UNCHANGED <<req, pc, cached>>

\* An unwrap fails after a call: the thread unwinds, out of the gate, and drops the
\* state; the connection gets an empty one.  gate_lock recovers a poisoned gate.
Panic(c) ==
  /\ WorkerFree
  /\ conn' = [conn EXCEPT ![c] = "idle"]
  /\ \E t \in Tasks :
       /\ client[t] = c
       /\ pc[t] = "inside"
       /\ ~Exempt(t)
       /\ holds[c] => ~GateHeld \/ Gated(t)
       /\ Leave(t)
  /\ holds' = [holds EXCEPT ![c] = FALSE]
  /\ UNCHANGED cached

\* The peer is gone and nothing is left to close: the permit is released.
Hangup(c) ==
  /\ conn[c] = "idle"
  /\ WorkerFree
  /\ ~holds[c]
  /\ conn' = [conn EXCEPT ![c] = "free"]
  /\ UNCHANGED <<holds, req, pc, client, late, cached>>

\* The peer is gone and the table is to be dropped, by the worker.
BeginDrop(c) ==
  /\ conn[c] = "idle"
  /\ WorkerFree
  /\ holds[c]
  /\ conn' = [conn EXCEPT ![c] = "gate"]
  /\ UNCHANGED <<holds, req, pc, client, late, cached>>

\* Mutant of DropEnters: a guard is closed without taking the gate.
DropGoesAround(c) ==
  /\ conn[c] = "gate"
  /\ conn' = [conn EXCEPT ![c] = "vendor"]
  /\ UNCHANGED <<holds, req, pc, client, late, cached>>

\* NativeDigest::drop, NativeDevice::drop: gate_lock, then the vendor.
DropEnters(c) ==
  /\ conn[c] = "gate"
  /\ ~GateHeld
  /\ conn' = [conn EXCEPT ![c] = "vendor"]
  /\ UNCHANGED <<holds, req, pc, client, late, cached>>

DropReturns(c) ==
  /\ conn[c] = "vendor"
  /\ conn' = [conn EXCEPT ![c] = "free"]
  /\ holds' = [holds EXCEPT ![c] = FALSE]
  /\ UNCHANGED <<req, pc, client, late, cached>>

LibNext ==
  \/ \E t \in Tasks : Start(t)
  \/ \E t \in Tasks : Lookup(t)
  \/ \E t \in Tasks : Load(t)
  \/ \E t \in Tasks : LoadFails(t)
  \/ \E t \in Tasks : Insert(t)
  \/ \E t \in Tasks : Enter(t)
  \/ \E t \in Tasks : CallReturns(t)
  \/ \E t \in Tasks : WaitReturns(t)
  \/ \E t \in Tasks : CancelReturns(t)
  \/ \E t \in Tasks : LateEnd(t)
  \/ \E c \in Slots : Connect(c)
  \/ \E c \in Slots : Dispatch(c)
  \/ \E c \in Slots : Reply(c)
  \/ \E c \in Slots : Abandon(c)
  \/ \E c \in Slots : Panic(c)
  \/ \E c \in Slots : Hangup(c)
  \/ \E c \in Slots : BeginDrop(c)
  \/ \E c \in Slots : DropEnters(c)
  \/ \E c \in Slots : DropReturns(c)

LibSpec == LibInit /\ [][LibNext]_vars

-----------------------------------------------------------------------------
(* Properties. *)

\* Steps of a blocking thread that do not depend on a vendor call, other than the
\* cancel, or on an event.
ThreadStep(t) ==
  \/ Lookup(t) \/ Load(t) \/ LoadFails(t) \/ Insert(t)
  \/ Enter(t) \/ CancelReturns(t) \/ LateEnd(t)

\* A worker that comes free polls whose timer has fired or whose task is done, the
\* pool serves its queue in order, and the system runs the threads.  Neither a
\* vendor call nor a wait is assumed to return.
FairRuntime ==
  /\ LibSpec
  /\ \A c \in Slots : SF_vars(Reply(c) \/ Abandon(c)) /\ WF_vars(DropEnters(c))
  /\ \A t \in Tasks : WF_vars(ThreadStep(t)) /\ SF_vars(Start(t))

\* The gated calls of the default library return, and so do its closes.
GatedCallsReturn ==
  /\ \A t \in Tasks : WF_vars(Kind(t) = "adapter" /\ CallReturns(t))
  /\ \A c \in Slots : WF_vars(DropReturns(c))

\* A connection awaits the one task of its present request and no other: an answer
\* that comes after the limit is never taken for the answer to a later request,
\* and a connection that is being closed has nothing under way.
AwaitsItsOwnTask ==
  \A c \in Slots :
    Cardinality({t \in Tasks : client[t] = c}) = IF conn[c] = "await" THEN 1 ELSE 0

\* Every vendor call comes back, and so does every wait.
LibrariesReturn ==
  /\ \A t \in Tasks : WF_vars(CallReturns(t) \/ WaitReturns(t))
  /\ \A c \in Slots : WF_vars(DropReturns(c))

\* The pool does not keep the task waiting for ever: it may, once each of its
\* threads is with a call that stalls or waits for the gate of one.
GetsAThread(t) == []<>(pc[t] # "queued" \/ PoolHasThread)

\* A cancel that gets a thread gets through whatever else is going on: calls that
\* stall with the gate in their hand or wait for it, late threads that drop a table
\* (native.rs cancel_wait_for_event, TRANS-05).
CancelGetsThrough ==
  \A t \in Tasks :
    GetsAThread(t) => (pc[t] = "queued" /\ Kind(t) = "cancel" ~> pc[t] = "done")

\* A pool that was used up by abandoned calls recovers: if the vendors' calls come
\* back, every request in the queue gets a thread, so the threads that wait for the
\* gate, those that drop a table and the workers that do never wait for each other.
PoolRecovers ==
  LibrariesReturn => \A t \in Tasks : pc[t] = "queued" ~> pc[t] # "queued"

\* Whoever holds the gate gives it back if the gated calls return, even while
\* waits stay parked in the same library: a page that waits for events does not
\* stop the others.
GateIsReleased == GatedCallsReturn => (GateHeld ~> ~GateHeld)

\* A request for another library that gets a thread reaches it although the default
\* one stalls for ever with its gate taken: a gate serialises the library of its
\* provider only.
OtherLibrariesProceed ==
  \A t \in Tasks :
    GetsAThread(t) =>
      (pc[t] = "queued" /\ Lib(t) # Default ~> pc[t] \in {"inside", "done"})

\* A stalled library does not leave a caller without an answer: every request but
\* the wait and its cancel is answered, if only by the time limit.
AnsweredInTime ==
  \A t \in Tasks :
    client[t] \in Slots /\ ~Exempt(t) ~> client[t] = NoSlot

\* The calls and closes of the default provider share its gate as one mutex: it is
\* never taken from a holder, never kept by a task or a worker that has gone
\* (timeout, panic, hangup), and never given to two, whichever of blocking threads
\* and workers ask for it (gate_lock, NativeDigest::drop, NativeDevice::drop).
Gate == INSTANCE FfiGate
          WITH Callers <- ({"thread"} \X Tasks) \cup ({"worker"} \X Slots),
               holders <- GateHolders

GateIsALock == Gate!GateSpec

\* At most one call at a time is inside a vendor library.
OneCallPerLibrary == \A a \in Aliases : Cardinality(Inside(a)) <= 1

=============================================================================
