------------------------------ MODULE Gateway -------------------------------
(***************************************************************************)
(* Requests: what the task of each connection does, step by step, to the   *)
(* token, to its native handles and to the grants of the state it carries. *)
(*                                                                         *)
(* Sessions says where the states are; this module adds what is in them    *)
(* and what the blocking task that holds one is executing.  Every vendor   *)
(* call is a step of its own, so the tasks of several connections, the     *)
(* abandoned ones included, interleave between any two calls, and a device *)
(* may be unplugged, or a grant expire, between any two of them.           *)
(***************************************************************************)
EXTENDS Sessions, Methods, AuthTable

CONSTANTS
  Requests,   \* the methods that clients call
  NulNames,   \* whether a request may name something with a NUL in it
  MaxTime,    \* bound: the last instant of the clock
  None        \* no method, no key

ASSUME RequestsAssumption == Requests \subseteq AllMethods
ASSUME NulNamesAssumption == NulNames \in BOOLEAN
ASSUME MaxTimeAssumption == MaxTime \in Nat \ {0}
ASSUME NoneAssumption == None \notin Keys /\ None \notin AllMethods

VARIABLES
  method,      \* the method the task of each state runs
  key,         \* the provider, device and application it names
  script,      \* the steps it still has to do
  held,        \* the native handles it has open
  closes,      \* the handles it is closing, in order
  grants,      \* the AuthTable of each state
  present,     \* the devices that are plugged in
  now,         \* Instant::now()
  verifiedAt,  \* history: when a CheckPIN carrying each state last succeeded
  lost         \* history: keys whose device a task of this state found gone, and
               \* that no CheckPIN on this state has verified since

taskVars == <<method, key, script, held, closes>>
envVars == <<present, now>>
histVars == <<verifiedAt, lost>>
vars == <<sessVars, taskVars, grants, envVars, histVars>>

TypeOK ==
  /\ SessTypeOK
  /\ method \in [Sids -> AllMethods \cup {None}]
  /\ key \in [Sids -> Keys \cup {None}]
  /\ script \in [Sids -> Seq(Steps)]
  /\ held \in [Sids -> SUBSET Kinds]
  /\ closes \in [Sids -> Seq(Kinds)]
  /\ grants \in [Sids -> Tables]
  /\ present \subseteq Devices
  /\ now \in 1..MaxTime
  /\ verifiedAt \in [Sids -> [Keys -> 0..MaxTime]]
  /\ lost \in [Sids -> SUBSET Keys]

Init ==
  /\ SessInit
  /\ method = [s \in Sids |-> None]
  /\ key = [s \in Sids |-> None]
  /\ script = [s \in Sids |-> <<>>]
  /\ held = [s \in Sids |-> {}]
  /\ closes = [s \in Sids |-> <<>>]
  /\ grants = [s \in Sids |-> NoGrants]
  /\ present = Devices
  /\ now = 1
  /\ verifiedAt = [s \in Sids |-> [k \in Keys |-> 0]]
  /\ lost = [s \in Sids |-> {}]

-----------------------------------------------------------------------------
(* The task that carries state s. *)

Running(s) == place[s] = "pool" /\ script[s] # <<>>

Finished(s) == place[s] = "pool" /\ script[s] = <<>> /\ closes[s] = <<>>

Step(s) == Head(script[s])

Device(s) == DeviceOf[key[s]]

\* The step is done.  After the last one the handler releases what it holds.
Advance(s) ==
  LET holding == Holding(held[s], Step(s).op)
  IN  /\ script' = [script EXCEPT ![s] = Tail(@)]
      /\ held' = [held EXCEPT ![s] = holding]
      /\ closes' = [closes EXCEPT ![s] =
                      IF Tail(script[s]) = <<>> THEN Cleanup(method[s], Step(s), holding)
                                                ELSE <<>>]
      /\ UNCHANGED <<method, key>>

\* The handler returns at this step.
Return(s) ==
  /\ script' = [script EXCEPT ![s] = <<>>]
  /\ closes' = [closes EXCEPT ![s] = Cleanup(method[s], Step(s), held[s])]
  /\ UNCHANGED <<method, key, held>>

\* The state goes away with all that is in it.
DropState(s) ==
  /\ grants' = [grants EXCEPT ![s] = NoGrants]
  /\ verifiedAt' = [verifiedAt EXCEPT ![s] = [k \in Keys |-> 0]]
  /\ lost' = [lost EXCEPT ![s] = {}]

\* A vendor call, or the preparation of one, succeeds.  A device that is not
\* there cannot be opened; nothing else is assumed of the vendor library.
StepSucceeds(s) ==
  /\ Running(s)
  /\ Step(s).op \notin {"verify_pin", "authorize", "scan"}
  /\ Step(s).op = "open_device" => Device(s) \in present
  /\ Advance(s)
  /\ UNCHANGED <<sessVars, grants, envVars, histVars>>

\* The device or its application could not be opened.
FindsGone(s) == Step(s).op \in Finders

\* A step fails, or answers early, and the handler returns.
StepFails(s) ==
  /\ Running(s)
  /\ Step(s).op \notin {"keep", "try", "authorize", "create_or_open", "scan"}
  /\ Return(s)
  /\ grants' = [grants EXCEPT ![s] =
                  IF Step(s).clears THEN InvalidateDevice(@, Device(s)) ELSE @]
  /\ lost' = [lost EXCEPT ![s] =
                IF FindsGone(s) THEN @ \cup {k \in Keys : DeviceOf[k] = Device(s)} ELSE @]
  /\ UNCHANGED <<sessVars, envVars, verifiedAt>>

\* CreatePKCS10: the named container could not be created, so it is opened.
FallBackToOpen(s) ==
  /\ Running(s)
  /\ Step(s).op = "create_or_open"
  /\ script' = [script EXCEPT ![s] = <<Guarded("open_container")>> \o Tail(@)]
  /\ UNCHANGED <<sessVars, method, key, held, closes, grants, envVars, histVars>>

\* Mutant of VerifyPin: the grant goes to every state of the process.
VerifyPinForAll(s) ==
  /\ Running(s)
  /\ Step(s).op = "verify_pin"
  /\ Advance(s)
  /\ grants' = [t \in Sids |-> GrantKey(grants[t], key[s], now)]
  /\ verifiedAt' = [verifiedAt EXCEPT ![s][key[s]] = now]
  /\ lost' = [lost EXCEPT ![s] = @ \ {key[s]}]
  /\ UNCHANGED <<sessVars, envVars>>

\* Mutant of VerifyPin: the grant names the device and not the application.
VerifyPinForDevice(s) ==
  /\ Running(s)
  /\ Step(s).op = "verify_pin"
  /\ Advance(s)
  /\ grants' = [grants EXCEPT ![s] =
                  [k \in Keys |-> IF DeviceOf[k] = Device(s) THEN now + TTL ELSE @[k]]]
  /\ verifiedAt' = [verifiedAt EXCEPT ![s][key[s]] = now]
  /\ lost' = [lost EXCEPT ![s] = @ \ {key[s]}]
  /\ UNCHANGED <<sessVars, envVars>>

\* The token accepts the PIN: the state the task carries gets a grant.
VerifyPin(s) ==
  /\ Running(s)
  /\ Step(s).op = "verify_pin"
  /\ Advance(s)
  /\ grants' = [grants EXCEPT ![s] = GrantKey(@, key[s], now)]
  /\ verifiedAt' = [verifiedAt EXCEPT ![s][key[s]] = now]
  /\ lost' = [lost EXCEPT ![s] = @ \ {key[s]}]
  /\ UNCHANGED <<sessVars, envVars>>

\* The state holds a live grant: the handler goes on to the private key.
Authorize(s) ==
  /\ Running(s)
  /\ Step(s).op = "authorize"
  /\ Authorized(grants[s], key[s], now)
  /\ Advance(s)
  /\ UNCHANGED <<sessVars, grants, envVars, histVars>>

\* It holds none, or an expired one, which is removed.
Reject(s) ==
  /\ Running(s)
  /\ Step(s).op = "authorize"
  /\ ~Authorized(grants[s], key[s], now)
  /\ Return(s)
  /\ grants' = [grants EXCEPT ![s] = RejectKey(@, key[s])]
  /\ UNCHANGED <<sessVars, envVars, histVars>>

\* The next handle of the cleanup is closed.
CloseHandle(s) ==
  /\ place[s] = "pool"
  /\ closes[s] # <<>>
  /\ held' = [held EXCEPT ![s] = @ \ {Head(closes[s])}]
  /\ closes' = [closes EXCEPT ![s] = Tail(@)]
  /\ UNCHANGED <<sessVars, method, key, script, grants, envVars, histVars>>

\* An unwrap fails: the thread unwinds, raw handles are nobody's any more.
StepPanics(s) ==
  /\ Running(s)
  /\ \/ Step(s).unwraps = "library"
     \/ Step(s).unwraps = "name" /\ NulNames
  /\ OrphanEnds(s) \/ \E c \in Conns : cur[c] = s /\ TaskPanics(c)
  /\ script' = [script EXCEPT ![s] = <<>>]
  /\ method' = [method EXCEPT ![s] = None]
  /\ key' = [key EXCEPT ![s] = None]
  /\ DropState(s)
  /\ UNCHANGED <<held, closes, envVars>>

-----------------------------------------------------------------------------
(* FindCertificates: nested loops over what can be opened. *)

Scanning(s) == Running(s) /\ Step(s).op = "scan"

\* The next thing to open below what is open.
ScanNext(s) ==
  CASE held[s] = {} -> "device"
    [] held[s] = {"device"} -> "application"
    [] held[s] = {"device", "application"} -> "container"
    [] OTHER -> "none"

ScanOpens(s) ==
  /\ Scanning(s)
  /\ ScanNext(s) # "none"
  /\ held' = [held EXCEPT ![s] = @ \cup {ScanNext(s)}]
  /\ \E k \in Keys :
       /\ IF ScanNext(s) = "device" THEN DeviceOf[k] \in present ELSE k = key[s]
       /\ key' = [key EXCEPT ![s] = k]
  /\ UNCHANGED <<sessVars, method, script, closes, grants, envVars, histVars>>

\* A device that was enumerated is gone when it is connected to.
ScanMisses(s) ==
  /\ Scanning(s)
  /\ held[s] = {}
  /\ \E d \in Devices \ present :
       lost' = [lost EXCEPT ![s] = @ \cup {k \in Keys : DeviceOf[k] = d}]
  /\ UNCHANGED <<sessVars, taskVars, grants, envVars, verifiedAt>>

\* Mutant of ScanCloses: the device is disconnected while its application and
\* container are still open.
ScanClosesDevice(s) ==
  /\ Scanning(s)
  /\ held[s] # {}
  /\ held' = [held EXCEPT ![s] = @ \ {"device"}]
  /\ UNCHANGED <<sessVars, method, key, script, closes, grants, envVars, histVars>>

ScanCloses(s) ==
  /\ Scanning(s)
  /\ held[s] # {}
  /\ held' = [held EXCEPT ![s] = @ \ {Head(Unwind(@))}]
  /\ UNCHANGED <<sessVars, method, key, script, closes, grants, envVars, histVars>>

ScanEnds(s) ==
  /\ Scanning(s)
  /\ held[s] = {}
  /\ script' = [script EXCEPT ![s] = <<>>]
  /\ UNCHANGED <<sessVars, method, key, held, closes, grants, envVars, histVars>>

-----------------------------------------------------------------------------
(* The connection around its task. *)

\* A frame arrives and names one of the methods.
Dispatch(c) ==
  /\ TakeState(c)
  /\ \E m \in Requests, k \in Keys :
       /\ method' = [method EXCEPT ![cur[c]] = m]
       /\ key' = [key EXCEPT ![cur[c]] = k]
       /\ \E sc \in Scripts(m) : script' = [script EXCEPT ![cur[c]] = sc]
  /\ UNCHANGED <<held, closes, grants, envVars, histVars>>

\* The handler is done in time: the state comes back and the client is answered.
Reply(c) ==
  /\ PutState(c)
  /\ Finished(cur[c])
  /\ method' = [method EXCEPT ![cur[c]] = None]
  /\ key' = [key EXCEPT ![cur[c]] = None]
  /\ UNCHANGED <<script, held, closes, grants, envVars, histVars>>

\* Mutant of Abandon: the fresh state starts with the grants of the lost one.
AbandonKeepingGrants(c) ==
  /\ TimeOut(c)
  /\ ~Finished(cur[c])
  /\ grants' = [grants EXCEPT ![cur'[c]] = grants[cur[c]]]
  /\ UNCHANGED <<taskVars, envVars, histVars>>

\* The limit passes before the handler is done.
Abandon(c) ==
  /\ TimeOut(c)
  /\ ~Finished(cur[c])
  /\ UNCHANGED <<taskVars, grants, envVars, histVars>>

\* Mutant of AbandonedEnds: the late task waits for its connection to take the
\* state back, and hangs when the connection is gone.
AbandonedEndsIfConnected(s) ==
  /\ Finished(s)
  /\ phase[owner[s]] # "closed"
  /\ OrphanEnds(s)
  /\ method' = [method EXCEPT ![s] = None]
  /\ key' = [key EXCEPT ![s] = None]
  /\ DropState(s)
  /\ UNCHANGED <<script, held, closes, envVars>>

\* An abandoned handler is done; nobody reads its answer.
AbandonedEnds(s) ==
  /\ Finished(s)
  /\ OrphanEnds(s)
  /\ method' = [method EXCEPT ![s] = None]
  /\ key' = [key EXCEPT ![s] = None]
  /\ DropState(s)
  /\ UNCHANGED <<script, held, closes, envVars>>

\* The connection ends between two requests; its state is dropped.
Hangup(c) ==
  /\ Disconnect(c)
  /\ DropState(cur[c])
  /\ UNCHANGED <<taskVars, envVars>>

\* The steps that do not reach any state.
Connect(c) ==
  /\ Admit(c) \/ Refuse(c) \/ HandshakeFails(c) \/ Create(c)
  /\ UNCHANGED <<taskVars, grants, envVars, histVars>>

-----------------------------------------------------------------------------
(* The world. *)

Unplug(d) ==
  /\ d \in present
  /\ present' = present \ {d}
  /\ UNCHANGED <<sessVars, taskVars, grants, now, histVars>>

Plug(d) ==
  /\ d \notin present
  /\ present' = present \cup {d}
  /\ UNCHANGED <<sessVars, taskVars, grants, now, histVars>>

Tick ==
  /\ now < MaxTime
  /\ now' = now + 1
  /\ UNCHANGED <<sessVars, taskVars, grants, present, histVars>>

\* What the blocking thread that carries state s may do next.
TaskStep(s) ==
  \/ StepSucceeds(s)
  \/ StepFails(s)
  \/ FallBackToOpen(s)
  \/ VerifyPin(s)
  \/ Authorize(s)
  \/ Reject(s)
  \/ CloseHandle(s)
  \/ StepPanics(s)
  \/ ScanOpens(s)
  \/ ScanMisses(s)
  \/ ScanCloses(s)
  \/ ScanEnds(s)
  \/ AbandonedEnds(s)

Next ==
  \/ \E s \in Sids : TaskStep(s)
  \/ \E c \in Conns : Connect(c)
  \/ \E c \in Conns : Dispatch(c)
  \/ \E c \in Conns : Reply(c)
  \/ \E c \in Conns : Abandon(c)
  \/ \E c \in Conns : Hangup(c)
  \/ \E d \in Devices : Unplug(d)
  \/ \E d \in Devices : Plug(d)
  \/ Tick

Spec == Init /\ [][Next]_vars

-----------------------------------------------------------------------------
(* Authorization. *)

\* A task goes on to the private key only when the PIN of that very application
\* was presented less than TTL ago by a request that carried the same state:
\* neither another connection's CheckPIN, nor one of the same connection whose
\* state was lost in a timeout (or that finishes late, after it was), nor another
\* application of the same device, nor an expired one will do (session/auth.rs
\* check, domain/mod.rs authorized).
AuthorizedByOwnPin ==
  [][\A s \in Sids :
       Authorize(s) =>
         /\ owner[s] \in Conns
         /\ verifiedAt[s][key[s]] # 0
         /\ now < verifiedAt[s][key[s]] + TTL]_vars

\* Once a request of a session could not open a device, or an application of it,
\* every application of that device needs a new CheckPIN on that session, even if
\* the device is back by the time the private key is used
\* (note_device_unavailable, device_unavailable).  It holds of ClearingMethods
\* only; what the other handlers do is GatewayLaxLoss.
LostDeviceNeedsPin ==
  [][\A s \in Sids : Authorize(s) => key[s] \notin lost[s]]_vars

\* A session keeps a grant until it has expired, its device has been found gone,
\* or the state is dropped: no request of another application, device or
\* connection takes it away (invalidate_device retains the other keys).
GrantsEndForAReason ==
  [][\A s \in Sids, k \in Keys :
       grants[s][k] # 0 /\ grants'[s][k] = 0 =>
         \/ grants[s][k] <= now
         \/ k \in lost'[s]
         \/ place'[s] = "dropped"]_vars

-----------------------------------------------------------------------------
(* Native handles. *)

\* A handler closes only what it has open: no handle is given to the vendor
\* library after it was closed.
NoDoubleClose ==
  \A s \in Sids : closes[s] # <<>> => Head(closes[s]) \in held[s]

\* An application is closed after its containers, a device after everything
\* that was opened on it, on every path out of every handler.
ChildrenClosedFirst ==
  \A s \in Sids :
    closes[s] # <<>> =>
      /\ Head(closes[s]) = "device" => held[s] \subseteq {"device"}
      /\ Head(closes[s]) = "application" => "container" \notin held[s]

\* No handle outlives the one it was opened on, at any moment of any request: an
\* application is opened on an open device and a container in an open application,
\* and a device that FindCertificates walks through, or that a failed or abandoned
\* handler gives back, goes last.
ParentsStayOpen ==
  \A s \in Sids : \A kind \in held[s] : OpenedOn(kind) \subseteq held[s]

\* Whatever way a request ends (answered, failed half-way, timed out and then
\* finished alone, panicked), nothing it opened stays open, except what it moved
\* into the handle table of its session.
NothingLeftOpen ==
  \A s \in Sids : Finished(s) \/ place[s] # "pool" => held[s] = {}

-----------------------------------------------------------------------------
(* Progress. *)

\* Every vendor call of the task that carries state s returns.
VendorReturns(s) == WF_vars(TaskStep(s))

\* If the vendor library does return, the state a timeout left behind is dropped
\* and everything its task had open is closed, with no one waiting for it.  (The
\* loops of FindCertificates end with the lists they walk through, which are not
\* modelled.)
AbandonedIsReleased ==
  \A s \in Sids :
    VendorReturns(s) =>
      (Orphan(s) /\ method[s] # "FindCertificates" ~> place[s] = "dropped" /\ held[s] = {})
=============================================================================
