# A TLA+ model of liuzx-skf

liuzx-skf is a local WebSocket/JSON-RPC service, written in Rust, that lets
browser clients use SKF cryptographic tokens through the C libraries of their
vendors. The service is small; what makes it hard is around it: vendor calls
block and may never return, tokens are pulled out between any two of them, the
connections run concurrently, and authorizations and native handles have to
survive all of that exactly as long as they should.

This directory holds the TLA+ modules that model the service, the TLC
configurations that check them on small instances, and TLAPS proofs of the
properties that matter most. Paths below are relative to the repository root;
`PROJECT.json` maps every definition to the lines it models.

## 1. Inventory

### Components, state, operations

| component | source | state | operations |
|---|---|---|---|
| connections | `src/server/mod.rs` | a semaphore of 64 permits, one client task per admitted socket | admit, refuse, upgrade, read-handle-write loop, end |
| session state, registry | `src/session/mod.rs`, `registry.rs` | a `SessionState` per connection inside its `SessionGuard`; a process-wide list of weak markers | create, `take_state`, `put_state`, drop |
| authorization table | `src/session/auth.rs` | `(provider, device, application) -> deadline`, in the session state | grant, check, `invalidate_device` |
| handle table | `src/session/handles.rs` | names such as `dev-1` -> guards, a counter, in the session state | issue, use, remove, drop |
| request dispatch | `src/main.rs` 196-480 | the blocking task of each request, its time limit | take the state, run, reply, time out, panic |
| domain handlers | `src/domain/*.rs` | guards on the stack of the task | twelve methods: PIN, signing, keys, containers, PKCS#10 |
| handlers of main.rs | `src/main.rs` 437-2587 | raw handles on the stack of the task | fifteen methods, `DigestInit` on another provider among them, plus the seven that use the handle table |
| native provider | `src/provider/*.rs` | `Arc`-linked guards around vendor handles, one gate per library | open, close on drop, serialise |
| device events | `src/main.rs` 503-562, 2296-2316 | the vendor's blocking wait | `WaitForDevEvent`, `CancelWaitForDevEvent` |
| alias resolution, library cache | `src/main.rs` 24-112, `src/config` | loaded libraries by alias | `get_api`, `resolve` |
| certificate issuing | `src/main.rs` 832-1287 | the key and certificate of a demo CA, and temporary files, on disk | `IssueCertificate` |
| Windows service | `src/win_service.rs`, `src/service_state.rs` | the SCM's status of the service, a status file, the stop channel | install, uninstall, start, stop, the startup stages, the control handler |
| the rest | `src/protocol`, `src/crypto`, `src/skf`, `src/config`, `src/logging.rs`, `src/diagnostic.rs`, `src/domain/classification.rs`, `src/provider/fake.rs` | none that lasts | parsing, DER, FFI bindings, test double |

### How they interact

A client task owns a `SessionGuard`. For each text frame `JsonRpcSession::handle`
moves the `SessionState` out of the guard onto a thread of tokio's blocking pool,
where `handle_request` runs one handler to its end, and awaits that task under a
limit of 30 s. If the task ends in time the state goes back. If it does not, the
client gets an error and a fresh, empty state; the old state stays with the
abandoned task and is dropped when the vendor returns. If the task panics, the
state is lost with it and the connection gets a fresh one. Handlers reach
grants and session handles only through the state they carry; connections share
the semaphore, the registry, the threads, the vendor libraries and the tokens.

Calls reach a library in four ways. The provider adapter takes a gate, one for the
default provider and a new one per request for any other; the handlers of `main.rs`
take the library from the cache of `get_api` and no gate; `WaitForDevEvent` and its
cancel take neither gate nor time limit; and guards that are dropped take the gate on
whichever thread drops them, a worker of the runtime when a client leaves.

`IssueCertificate` shares files with every other such request and with earlier
processes. On Windows the process is driven by the Service Control Manager (SCM), to
which it reports its stages, and which sends it the stop; an administrator's commands
talk to the SCM only.

### What is hard, and what would make it correct

* *Timeouts race late answers.* The state must be in exactly one place, and one
  that was left behind must never come back.
  (`StatePresent`, `AbandonedStaysAbandoned`)
* *Connections interleave on one token.* A PIN presented on one connection must
  authorize nobody else. (`AuthorizedByOwnPin`, `OneOwner`)
* *Devices disappear and return.* A cached authorization must not outlive the
  discovery that its device was gone. (`LostDeviceNeedsPin`, `GrantsEndForAReason`)
* *Many ways out of a handler.* Whatever was opened must be closed once, children
  first, on every path, and nothing may be open on a handle that is closed.
  (`NoDoubleClose`, `ChildrenClosedFirst`, `ParentsStayOpen`, `NothingLeftOpen`)
* *Names that outlive their objects.* (`NamesAreLive`, `ExpiredNamesRefused`,
  `NothingOutlivesItsState`)
* *Slots are few.* No exit of a client task may lose a permit or a registry entry.
  (`PermitsConserved`, `RegistryExact`, `NoForgottenState`)
* *A vendor that never returns.* The client must be answered all the same, and the
  leftovers cleaned up if the vendor does return; the others must go on.
  (`AbandonedIsReleased`, `AwaitsItsOwnTask`, `OtherLibrariesProceed`,
  `AnsweredInTime`)
* *A pool that abandoned calls use up.* It must recover once the vendor's calls come
  back. (`PoolRecovers`)
* *A wait that only an event or a cancel ends.* A cancel that has a thread must get
  through whatever the library is doing, and a parked wait must not keep the gate.
  (`CancelGetsThrough`, `GateIsReleased`)
* *A gate that blocking threads and workers take.* Calls and closes must exclude each
  other whichever thread they run on, and nobody may leave with the gate.
  (`GateIsALock`)
* *Files shared by requests, and left by crashes.* A certificate must be for the
  requester's key, private keys must not stay in the directory, and the CA must not
  change under certificates already issued. (`CertifiesOwnKey`, `TempFilesRemoved`,
  `CaMatchesUnlessRaced`, `IssuedStaysValid`)
* *A process the SCM starts, stops and restarts.* What it says of itself must be true
  at that moment, and a stop must not be missed. (`RunningListens`,
  `PortFreeForNext`, `FileAgreesWithScm`, `NewestProcessWrites`, `StopIsHeard`)

`PROJECT.json` lists each hazard at the line where it bites, with the reason where no
property covers it.

## 2. Modules

```
Sessions ---------+------------------------+
   |              |                        |
SessionsProofs    |   Methods  AuthTable   |
                  |      |        |        |
                  +--> Gateway <--+     SessionHandles
                         |                 |
  MethodsProofs --> GatewayProofs       SessionHandlesProofs
                         |              MCSessionHandles
  AuthPromise <-- GatewayPromise --> MCGateway
                         |
                   PromiseProofs

FfiGate <-- Libraries         Certificates          WindowsService
            LibrariesProofs   CertificatesProofs    WindowsServiceProofs
            MCLibraries       MCCertificates        MCWindowsService
```

**`Sessions`**: connections and where their states are. `permits` is the
semaphore, `phase` the place of each client task in `spawn_client`, `cur` and
`place` say which state a connection has and whether it is in the guard, on the
blocking pool or dropped, `marker` and `registry` are the `SessionMarker` and the
`SessionRegistry`. A state is named by its `SessionId`; ids are 128 random bits and
are taken to be distinct, so they are numbered. A task is named by the state it
carries, because `take_state` moves the state by value. The actions are `Admit`,
`Refuse`, `HandshakeFails`, `Create`, `TakeState`, `PutState`, `TimeOut`,
`TaskPanics`, `OrphanEnds` and `Disconnect`. The loop of `spawn_client` is
sequential, so a client that goes away is noticed only between two requests:
`Disconnect` needs `phase = "idle"`. The end of the client task (session dropped,
then permit released) is one step.

**`AuthTable`**: `grant`, `check` and `invalidate_device` as operators on tables,
with 0 for "no entry"; `check` removes the entry it finds expired.

**`Methods`**: each handler as a set of scripts, a script being the sequence of
its vendor calls. A step says what is called, what the code closes if the handler
ends there, whether the failure clears grants and whether an `unwrap` precedes it.
The handlers under `domain/` hold guards, so their cleanup is `Unwind`: `Drop` runs
in the reverse order of declaration and each guard keeps an `Arc` of its parent.
The handlers of `main.rs` close by hand; every close of every early return is
transcribed. `ConnectDev` and `DigestInit` on the default provider move what they open
into the session's table: the step `keep` ends the task's own hold on it, and
`SessionHandles` has the rest of its life. Parameters, algorithms, buffers and messages are abstracted: parsing
is the step `prepare`, which may fail.

**`Gateway`** composes the three. `script`, `held` and `closes` describe the task
that carries a state, `grants` the table inside it, `present` the tokens, `now` the
clock. A vendor call is one action, so any other task, an unplug, a tick, the
timeout or the end of the connection may come between two calls. Any call may
fail at any time; the only thing assumed of the vendor is that a device that is not
there cannot be opened. `Unplug`, `Plug` and `Tick` are the environment.
`verifiedAt` and `lost` are history variables, read by properties only; `verifiedAt` is
kept for each session state, so a PIN verified on a state that a timeout left behind
is not one of the fresh state's.
`FindCertificates`, which loops over everything it can open and ignores failures,
has actions of its own (`ScanOpens`, `ScanMisses`, `ScanCloses`, `ScanEnds`).

**`SessionHandles`** composes `Sessions` with the handle table and the seven
methods that use it. `table` and `nextId` are the `HandleTable`, `strong` the
reference counts of the native objects, `carrier` the device a digest shares. A
client may send any name, one it was given or not. A handler here touches only the
state it carries, so it is one step; the timeout may come before it or after it.
`HandlerPanics` ends the task instead: `GenerateRandom` may panic on its buffer
(`src/provider/native.rs:204`), and `Other` stands for every method that does not touch
the table and may panic on a session that holds handles.

**`AuthPromise`** is the abstract specification of authorization: clients, the
applications each has unlocked, and those at work for it. Nothing else is in it: no
sessions, tasks, deadlines or devices. **`GatewayPromise`** maps `Gateway` to it. A
client is a connection with every task it left behind; an application is unlocked
while one of its states holds a live grant and at work while one of its tasks has
passed the check and not ended. `KeepsPromise` says that `Gateway` implements it.

**`Libraries`** looks at the same requests from below: the threads of the blocking
pool, the workers of the runtime, the cache of `get_api` in its three steps, the gate
and the wait pair. A task makes one vendor call of one of the four kinds above, which
stands for the calls a handler makes in turn; of a session it keeps only whether its
table holds a guard of the default provider. A step of a client task needs a worker,
and a worker that drops a table is not available until the gate and the vendor let it
go. The vendor's cancel is taken to end the waits that are inside the library when it
is called, which is what the SKF interface says of it.

**`FfiGate`** is the abstract specification of the gate: free, or with one holder, which
gives it back itself. `Libraries!GateHolders` is its holders, the blocking threads inside
a gated call and the workers inside the drop of a table, and `GateIsALock` says that
`Libraries` implements it. What an abandoned or a panicking task drops is dropped in the
step that ends it, which waits until nobody else has the gate.

**`Certificates`**: `IssueCertificate` with one action per file operation or openssl
command. A file's content is the request whose data it holds. openssl is external: each
command may fail, it writes a new CA's key before the certificate, and it signs only
with a pair that matches. `Crash` ends the process and leaves the files. `overlap` and
`cut` are history variables, and so is `stuck`: a file that `remove_file` failed on
stays and is noted there. A certificate that cannot be read back is empty (`ReadBack`).
Two requests may read the same time; they then share the files named by it, and the
properties about a request's own files say what holds of one that is `Alone` with its
time. `HandlerPanics` leaves the files where they are, like `Crash`.

**`WindowsService`**: `run_service` through its stages, `write_atomic` in its steps, the
stop channel, the control handler, and `install`, `uninstall`, `start` and `stop` as an
administrator's program counter. The SCM is external: one process at a time, a stop
only for a service that reported `Running`, a process that dies is noticed, a service
marked for deletion goes once it is stopped. A process is launched once, as a pid;
`lost` and `failedAt` are history variables.

## 3. Runs

| run | cfg | what it shows |
|---|---|---|
| `gateway_isolation` | `GatewayIsolation` | two connections on one application, with timeouts, panics, unplugging and expiry: only a PIN verified on the state itself authorizes; states and registry entries are neither lost, shared nor brought back (1.1 million states) |
| `gateway_keys` | `GatewayKeys` | one connection, three applications on two devices: a grant covers its application, ends with its device, and only then; `AuthPromise` is implemented (0.9 million states) |
| `gateway_requests` | `GatewayRequests` | two sockets on one permit, all twenty-nine methods but `ImportKeyPair` and `Digest`: every path closes everything once and in order, never a parent under its child; permits are conserved; an abandoned state is released if its vendor calls return (39 thousand states) |
| `handle_table` | `HandleTable` | two connections with session handles: no stale or mistyped name, nothing outlives its state, handlers that panic included (2.4 million states) |
| `libraries` | `Libraries` | one client with its abandoned tasks, two libraries, two threads for three tasks, two workers: the gate is a mutex between them, no answer comes late, a cancel that has a thread gets through, waits do not keep the gate, a stalled library leaves the other alone, a pool that was used up recovers (78 thousand states, with liveness) |
| `certificates` | `Certificates` | two requests, any openssl command, read or removal failing, panics, crashes, two readings of the clock: keys, files and the CA (1.2 million states) |
| `service` | `Service` | two processes and one administrator: what the SCM, the port and the file say agrees, and a stop is heard |
| `gateway_lax_loss` | `GatewayLaxLoss` | finding 1 |
| `library_serial` | `LibrarySerial` | finding 2 |
| `library_stall` | `LibraryStall` | finding 3 |
| `service_exit` | `ServiceExit` | finding 4 |
| `handle_reuse` | `HandleReuse` | finding 5 |

`Sessions` has no run of its own: the runs of `Gateway` and `SessionHandles` step through
it, and its properties are checked there, where requests do real work between its steps.

### Bounds

* `MaxSids` bounds the session states. A request starts only while a state is left for
  its timeout (`TakeState` has `minted < MaxSids`). Of two requests under way either may
  use the last one; the other then ends in time in the instance. Three states in
  `gateway_isolation` and `handle_table` let tasks of both connections run at once and
  either be abandoned, or one connection go on after a timeout with its fresh state while
  the abandoned task still runs.
* The clock reaches the deadline of the first grant in `gateway_isolation` (`TTL = 1`,
  `MaxTime = 2`) and in `gateway_keys` (`TTL = 2`, `MaxTime = 3`): a grant is met before
  and at its deadline, where `check` turns, and renewed after it has expired.
* `gateway_keys` calls one method for each way of finding a device gone (with guards
  before and after the PIN is asked for, with raw handles, with a library of its own);
  all methods that clear together are beyond TLC with three applications. The theorem
  `LostDeviceAsksAgain` covers every one of them. `gateway_isolation` calls `CheckPIN`, a
  handler with guards and one with raw handles.
* One device and one application are enough where the question is about paths or
  about connections; two devices with two applications on one of them where it is
  about keys.
* `gateway_requests` has one permit because a handler's handles are its own, and two
  sockets so that the permit is wanted; the second state is the one an abandoned task
  leaves behind.
* `KeepsPromise` is checked with one connection; that it holds of several is
  `GatewayKeepsPromise`.
* `MaxIds = 3` and `MaxNatives = 3` allow one digest (with its device) and one more
  device in any order, shared between two connections.
* `NulNames` says whether a request may carry a NUL in a name, on which
  `CString::new(..).unwrap()` panics. The authorization runs include such panics. The
  handle runs leave them out: `EnumContainer`, `SetLabel` and `ImportKeyPair` lose their
  handles then, see section 6; that no other method does is `EverythingIsReleased`.
* `libraries`: one client whose calls are abandoned one after another, so that up to
  three tasks exist at once (`MaxTasks = 3`) on a pool of two threads (`MaxBlocking = 2`):
  two calls in one library, one inside and one in `gate_lock`, use the pool up, as 512
  do in the program, and what comes next is queued. A second client with three tasks is
  too much for the liveness properties; the proofs have any number of both. Two workers,
  one of which may drop a table. `library_serial` and `library_stall` have two clients.
  `library_stall` has one worker, the number tokio takes from the machine at its
  smallest; with n workers n clients that leave do the same.
* `certificates`: two requests, which may overlap, follow each other, or be separated by
  a crash; two readings of the clock, so that they share their files or do not; two
  removals may fail (`MaxStuck = 2`). The theorems have any number of each.
* `service`: two processes, the second a restart, a reinstallation or a recovery after
  a crash; one administrator, because the SCM serialises what several would ask.

Connections are interchangeable, which the safety runs with several of them use as
a symmetry; the liveness runs use none.

Deadlock is not checked: sockets are finitely many in an instance, and once they
have all been refused or closed and every abandoned task has ended, the system
rightly stops. A task stuck in the vendor library is not a deadlock of the model
either; what it must not block is stated as liveness.

### Fairness

`Gateway` assumes no fairness. That the vendor returns, and that the thread which then
has the result goes on, is the premise `VendorReturns(s)` of `AbandonedIsReleased`:
without it the state of a hung call is kept for ever, which is what the code accepts.
Nothing is assumed of the timer there, whose service is the question of finding 3.

`Libraries!FairRuntime` has `SF(Reply \/ Abandon)`, because a worker that comes free again
and again polls what is ready, `SF(Start)`, because the queue of the blocking pool is
first in, first out, so a task is not passed over for ever once threads come free again
and again, and `WF` for the steps of a thread that has a thread of the system and for a
drop that may take the gate. Nothing is assumed of vendor calls and waits.
`GatedCallsReturn` is the premise of `GateIsReleased` only, and `LibrariesReturn` (every
call and every wait comes back) of `PoolRecovers`. `CancelGetsThrough` and
`OtherLibrariesProceed` are about tasks that get a thread (`GetsAThread`): once every
thread of the pool is with a stalled call or in `gate_lock`, the code promises neither.
`WindowsService!FairService`
is `WF(ProcessStep)`: `run_service` has a thread of its own. `Exit` is left out because
`drop(rt)` waits for blocking tasks, that is for the vendor.

### Findings

1. `DigestInit` on a provider other than the default one finds the device gone and
   leaves the grants (`src/main.rs:2460`). Four more handlers do the same: `DigestInit` on
   the default provider (2476-2486), `ConnectDev` (663-668), `FindCertificates`, and
   `CreatePKCS10` for an application that is missing. `docs/SESSION-AND-LIMITS.md:51-53`
   promises it of any operation that finds the device unavailable. `MCGateway` states as
   an assumption, which TLC evaluates, that of the handlers that open a device no other
   does. `GetDevState`, which reports an absent device as its answer, `EnumDevice`,
   `WaitForDevEvent` and the calls on handles that are already open clear nothing either;
   they open no device, and `lost` does not follow them.
2. Two calls can be inside one vendor library (`src/main.rs:43`): the handlers of
   `main.rs` take no gate, and every request for another provider has a gate of its
   own. `docs/SESSION-AND-LIMITS.md:68` says "one global lock per provider library".
3. A client that leaves has its guards dropped on a worker of the runtime
   (`src/server/mod.rs:550`), which waits for the gate there. Once all workers do, the
   time limit of the other requests is not served, although "every other request is
   bounded so a stalled token does not leave the caller hanging forever"
   (`src/main.rs:229`).
4. An accept error ends the service with code 0 (`src/server/mod.rs:454`); exit code 4
   of `docs/WINDOWS-SERVICE.md:46` cannot occur, and the SCM does not restart it.
5. Names of session handles start again from 1 with the fresh state after a timeout or a
   panic (`src/session/handles.rs:132`), so a name of the state that was lost, which the
   client still has, is accepted for another object. `docs/SESSION-AND-LIMITS.md:55-56`
   says that expired handles return -11, and `handles.rs:30` and 130 that one connection
   is one session in which no two handles are ever equal. Within one state they are not:
   `NamesKeepTheirMeaning`.

The modules show more such places, which have no run of their own:

* After a timeout the task goes on with the old state, so it can pass its
  authorization check after the client has disconnected (`src/main.rs:247`), where
  `docs/SESSION-AND-LIMITS.md:51` lists the disconnect among the paths that clear an
  authorization. `KeepsPromise` bounds what such a task may use.
* `ImportKeyPair` without authorization closes its application and device twice
  (`src/main.rs:1391`), and `Digest` never closes its hash object (`src/main.rs:1742`).
  They are the two methods `gateway_requests` leaves out.
* The device `DigestInit` opens stays connected after `DigestFinal` and `CloseHash`: it
  is kept under a name the client is not told (`src/main.rs:2491`).
* `uninstall` says that the service was removed whether it was or not
  (`src/win_service.rs:121`, 512-524): a service that takes longer than eight seconds to
  stop is still registered. That is why `WaitEnds` has no guard.

## 4. Proofs

The theorems hold for every set of connections, keys, devices and requests and for
every value of the limits, under the named assumptions of the modules (`Conns` is
finite, the limits are natural numbers, a TTL is positive, `DeviceOf` maps keys to
devices).

* **`SessionsProofs`**. `PermitInv` counts: free permits plus live connections are
  `MaxConnections`. It gives `PermitsAreConserved`. `StateInv` is the inductive
  invariant for the rest. `StatePresent` and `OneOwner` are not inductive alone: a new
  id must be known to be unused (`Fresh`), and a connection without a session must
  have no state (`GuardsMatch`), or a step of another connection could take it. From
  it follow `SessTypeCorrect`, `StateAlwaysPresent`, `SessionsAreIsolated`,
  `NoStateIsForgotten`, `RegistryIsExact` and the action property `AbandonedForever`.
* **`MethodsProofs`**: lemmas on the scripts and on `Unwind`: every script is a
  sequence of steps, guards close children first, each once, and leave nothing. `Fits`
  is what the rest of a script must be for its handler to be tidy, given the handles it
  holds: nothing is opened on a handle that is not open (`InOrder`), what the code closes
  by hand at a step is what guards would close there, in that order (`ClosesAll`), and an
  `unwrap` finds nothing open, but for names in the methods of `NameLeaks`
  (`UnwrapsEarly`). `ScriptsFit` shows it of the scripts of every method but two, and
  `FitsTail` that a step keeps it. `MethodsThatClear` computes from the scripts which methods note a
  missing device.
* **`GatewayProofs`**. `GatewayImplementsSessions` shows that every step of `Gateway` is
  a step of `Sessions` or leaves its variables alone, so all of the above holds of
  the composition, and `GatewaySessionsAreSafe` says so. Then:
  * `TypeCorrect`;
  * `OnlyOwnPinAuthorizes`, from `AuthInv`: every grant is backed by a PIN verified on the
    state that has it, with a deadline no later than that instant gives (`GrantsBacked`).
    Owners have to be stable (`Owned`) and states that do not exist yet empty
    (`UnbornEmpty`);
  * `GrantsLast`, from the same types, action by action;
  * `LostDeviceAsksAgain`, for all methods but the five of finding 1 (`LaxMethods`): a key
    in `lost` has no grant (`LostInv`). Finding 1 is why the hypothesis is there;
  * `HandlesClosedOnce`, `ChildrenFirst`, `ParentsOutliveChildren` and
    `EverythingIsReleased`, for all methods but `ImportKeyPair` and `Digest`, whose closes
    are wrong (see below the findings). The inductive invariant is `TidyInv`: the rest of each
    script fits the handles its task holds, and once the task is closing, what remains
    to be closed is exactly what it holds, children first. `NothingLeftOpen` alone is
    far from inductive, since what a handler will close is written into steps it has
    not reached. The loops of `FindCertificates` are outside the scripts and have cases
    of their own (`TidyScan`), and a panic keeps what its `unwrap` did not close
    (`TidyPanic`), which is why `EverythingIsReleased` also asks that no name with a NUL
    reaches `EnumContainer` or `SetLabel`.
* **`PromiseProofs`**: `GatewayKeepsPromise`, the refinement. Every step of `Gateway` maps
  to a step of `AuthPromise` or a stutter: `VerifyPin` to `Unlock`, a passed check to `Use`,
  everything else to `Relax`, which has to be shown of every action. It needs `AuthInv`,
  for whom a grant belongs to, and an invariant of its own (`KeyFixed`): a method that
  needs the PIN keeps the key it was given to its end, because only a scan goes from
  key to key.
* **`SessionHandlesProofs`**: `HandlesTypeCorrect`, `NamesStayLive`, `NothingOutlives` and
  `NamesKeepTheirMeaning` (within one state: finding 5 is what happens across two), from
  `HandleInv`. Its core is `Counted`: the count of a native object
  is one if a name stands for it plus one if an open digest shares it. That a drop keeps
  it right needs that no object has two names (`Unique`) and no device two digests
  (`Carriers`); that a name never changes its meaning needs the numbers above `nextId`
  to be unused (`NameInv`); that nothing outlives its state needs a state that does not
  exist to have no names (`PlaceInv`). The session part is `StateInv`, unchanged: every
  step is one of `Sessions` or leaves its variables alone (`SessionSteps`), which is also
  the refinement `HandlesImplementSessions`.
* **`LibrariesProofs`**: `LibTypeCorrect` and `NoLateAnswer`, from `LibInv`: a task that is
  not there is nobody's (`Unused`), a connection awaits exactly when a task has it as
  its client, and two tasks never do (`OneEach`). The count in `AwaitsItsOwnTask` follows.
  `GateSerializes` is the refinement of `FfiGate`: entering a gated call and the drop of a
  table are `Acquire`, returning and panicking are `Release`, the rest stutters. A release
  leaves the gate free only if there was no second holder, so the proof carries
  `GateExclusive`, and `OneEach`, because a connection that gets its answer is not dropping
  its table. `GatedLibraryIsSerial` is the counterpart of finding 2: if no request goes
  around the gate, one call at a time is inside the default library.
* **`CertificatesProofs`**: `CertTypeCorrect`; `CaPairMatches` and `IssuedForGood` from
  `CaInv`: without an overlap one request at most is creating the CA, it found no key
  and nobody replaces the one it writes (`OneCreator`), so the pair matches (`PairSound`)
  and stays what it was when a certificate was issued (`IssuedSound`); `OwnKeyCertified`
  and `FilesAreRemoved` from `FilesInv`, which says for each label which files of a
  request exist, unless their removal failed, and that they are its own. It speaks of
  requests that are `Alone` with their time: a step of another request then reaches none
  of their files (`OthersKept`), and of the requests that are not, neither holds.
* **`WindowsServiceProofs`**: `RunningAlwaysListens`, `PortIsFree`, `FileAgrees` and
  `OnlyNewestWrites`, from `SvcInv`: at most one process is between its launch and its
  report of `Stopped`, and it is the SCM's (`OneActive`); who may listen (`PortExact`),
  what is shown as running (`RunningExact`), who may be writing and what
  (`WritesExact`), and what the file holds at each label unless a write was lost
  (`FileExact`, `EndExact`). `ServiceTypeCorrect` adds the commands. The counterpart of
  finding 4 is `OnlyAcceptErrorsAreSilent`: in behaviours in which accept fails only after
  a stop was sent, every unasked end has a non-zero code (`AskedInv`: a process that has
  left its loop was told to).

Only model-checked: the liveness properties (`AbandonedIsReleased`,
`CancelGetsThrough`, `PoolRecovers`, `GateIsReleased`, `OtherLibrariesProceed`,
`StopIsHeard`), because fairness and `ENABLED` are out of the prover's reach. Every
invariant and every action property of the passing runs is a theorem. `ImportKeyPair` and
`Digest` are outside the handle theorems because the properties are false of them.

## 5. Plan

The modules above are done. What is left:

1. DER lengths, integers and signatures (`src/crypto/mod.rs`) as operators, checked
   against a reference decoder over bounded inputs.
2. The contents of a token as sets of containers and key pairs, for what a timeout, a
   retry and a failed `CreatePKCS10` leave behind.

## 6. Not modelled

* *Contents of requests, results and tokens*: what is signed or stored. A retry of
  a key generation that had timed out, and the container a failed `CreatePKCS10`
  leaves behind, need the token's contents; they are listed as hazards.
* *The session's language*: it is state, but selects the wording of messages only.
* *Shutdown of the runtime*, which cancels client tasks between two awaits, and the
  HTTP demo, which keeps its own port until then.
* *The gate in `Gateway`*: calls interleave freely there, which covers both the gated
  and the ungated ones; the gate is the subject of `Libraries`.
* *Panics with raw handles open*: when `CString::new` fails after a device was
  connected the unwinding skips the hand-written closes (`src/main.rs:777`, 1374, 2006).
  The authorization runs include these panics, the handle run does not; the handle
  theorems cover them for every other method.
* *Drops in several steps*: a table that a late or a panicking task drops goes in the step
  that ends the task (in `Libraries` once the gate is free). A disconnect's drop on a
  worker has steps of its own there; the others only exclude each other and calls.
* *What the kept handles of `Gateway` are used for*: a device or digest that `ConnectDev`
  or `DigestInit` moved into the table belongs to `SessionHandles` from then on.
* *How a removal or a read of `IssueCertificate` fails*: that it may is modelled, and that
  nobody looks; a write that leaves half a file counts as a file or as none.
* *Waits without a limit*: sixty-four connections that wait keep every permit, and a
  cancel that comes before its wait has entered the library is lost. Both are by
  design of the interface and nothing that could be stated holds of them.
* *The second copy of a library* two requests may load at once: the system counts
  references to one mapping, so nothing tells the copies apart.
* *`status`, the redirection of output, checkpoints and wait hints of the service*, and
  the restart policy itself, which belongs to the installer.
* *The envelope of `IssueCertificate`'s double mode and DER encoding*: pure functions of
  local data.
* *Configuration, logging, diagnostics, FFI bindings, parsing, the fake provider*: no
  state that lasts between two requests, or test code.
