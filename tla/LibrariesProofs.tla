-------------------------- MODULE LibrariesProofs ---------------------------
(***************************************************************************)
(* That a connection never takes a late answer for its own, and that the   *)
(* FFI gate is a mutex between threads and workers, proved for any number  *)
(* of connections, threads and libraries.                                  *)
(***************************************************************************)
EXTENDS Libraries, FiniteSetTheorems, TLAPS

\* A task that is not there is nobody's, and one task at most is awaited by a
\* connection, which then does nothing else.
Unused == \A t \in Tasks : pc[t] = "none" => client[t] = NoSlot

OneEach ==
  /\ \A t, u \in Tasks : client[t] = client[u] /\ client[t] \in Slots => t = u
  /\ \A c \in Slots : conn[c] = "await" <=> \E t \in Tasks : client[t] = c

LibInv == LibTypeOK /\ Unused /\ OneEach

\* No request is under way at first.
LEMMA LibInvInit == LibInit => LibInv
<1> SUFFICES ASSUME LibInit PROVE LibInv
  OBVIOUS
<1>1. LibTypeOK
  BY DefaultAssumption DEF LibInit, LibTypeOK, ConnStates, Pcs
<1>2. Unused /\ OneEach BY SlotsAssumption DEF LibInit, Unused, OneEach
<1>3. QED BY <1>1, <1>2 DEF LibInv

\* LibInv is kept by every step of the threads and of the client tasks.
LEMMA LibInvStep == LibInv /\ [LibNext]_vars => LibInv'
<1> SUFFICES ASSUME LibInv, [LibNext]_vars PROVE LibInv'
  OBVIOUS
<1> USE SlotsAssumption, DefaultAssumption
    DEF LibInv, LibTypeOK, Unused, OneEach, Goto, Kind, Lib, ConnStates, Pcs
<1>1. ASSUME NEW t \in Tasks, Start(t) PROVE LibInv'
  BY <1>1 DEF Start
<1>2. ASSUME NEW t \in Tasks, Lookup(t) PROVE LibInv'
  BY <1>2 DEF Lookup
<1>3. ASSUME NEW t \in Tasks, Load(t) PROVE LibInv'
  BY <1>3 DEF Load
<1>4. ASSUME NEW t \in Tasks, LoadFails(t) PROVE LibInv'
  BY <1>4 DEF LoadFails
<1>5. ASSUME NEW t \in Tasks, Insert(t) PROVE LibInv'
  <2>1. Lib(t) \in Aliases
    <3>1. \A r \in Kinds \X Aliases : r[2] \in Aliases OBVIOUS
    <3>2. req[t] \in Requests \/ req[t] = <<"none", Default>> BY DEF NoRequest
    <3>3. QED BY <3>1, <3>2, LibRequestsAssumption
  <2>2. QED BY <1>5, <2>1 DEF Insert
<1>6. ASSUME NEW t \in Tasks, Enter(t) PROVE LibInv'
  BY <1>6 DEF Enter
<1>7. ASSUME NEW t \in Tasks, CallReturns(t) PROVE LibInv'
  BY <1>7 DEF CallReturns
<1>8. ASSUME NEW t \in Tasks, WaitReturns(t) PROVE LibInv'
  BY <1>8 DEF WaitReturns
<1>9. ASSUME NEW t \in Tasks, CancelReturns(t) PROVE LibInv'
  BY <1>9 DEF CancelReturns
<1>10. ASSUME NEW t \in Tasks, LateEnd(t) PROVE LibInv'
  BY <1>10 DEF LateEnd, Leave
<1>11. ASSUME NEW c \in Slots, Connect(c) PROVE LibInv'
  BY <1>11 DEF Connect
<1>12. ASSUME NEW c \in Slots, Dispatch(c) PROVE LibInv'
  BY <1>12 DEF Dispatch
<1>13. ASSUME NEW c \in Slots, Reply(c) PROVE LibInv'
  BY <1>13 DEF Reply, Leave
<1>14. ASSUME NEW c \in Slots, Abandon(c) PROVE LibInv'
  BY <1>14 DEF Abandon
<1>15. ASSUME NEW c \in Slots, Panic(c) PROVE LibInv'
  BY <1>15 DEF Panic, Leave
<1>16. ASSUME NEW c \in Slots, Hangup(c) PROVE LibInv'
  BY <1>16 DEF Hangup
<1>17. ASSUME NEW c \in Slots, BeginDrop(c) PROVE LibInv'
  BY <1>17 DEF BeginDrop
<1>18. ASSUME NEW c \in Slots, DropEnters(c) PROVE LibInv'
  BY <1>18 DEF DropEnters
<1>19. ASSUME NEW c \in Slots, DropReturns(c) PROVE LibInv'
  BY <1>19 DEF DropReturns
<1>20. CASE UNCHANGED vars
  BY <1>20 DEF vars
<1>21. QED
  BY <1>1, <1>2, <1>3, <1>4, <1>5, <1>6, <1>7, <1>8, <1>9, <1>10, <1>11, <1>12, <1>13, <1>14,
     <1>15, <1>16, <1>17, <1>18, <1>19, <1>20 DEF LibNext

\* Every step of the threads and of the connections stays within the types.
THEOREM LibTypeCorrect == LibSpec => []LibTypeOK
<1>1. LibInv => LibTypeOK BY DEF LibInv
<1>2. QED BY LibInvInit, LibInvStep, <1>1, PTL DEF LibSpec

\* Whatever mix of timeouts, panics and late ends came before, a connection awaits
\* exactly the task of its present request (JsonRpcSession::handle).
THEOREM NoLateAnswer == LibSpec => []AwaitsItsOwnTask
<1>1. LibInv => AwaitsItsOwnTask
  <2> SUFFICES ASSUME LibInv, NEW c \in Slots
               PROVE  Cardinality({t \in Tasks : client[t] = c}) = IF conn[c] = "await" THEN 1 ELSE 0
    BY DEF AwaitsItsOwnTask
  <2>1. CASE conn[c] = "await"
    <3>1. PICK t \in Tasks : client[t] = c BY <2>1 DEF LibInv, OneEach
    <3>2. {u \in Tasks : client[u] = c} = {t} BY <3>1 DEF LibInv, OneEach
    <3>3. Cardinality({t}) = 1 BY FS_Singleton
    <3>4. QED BY <2>1, <3>2, <3>3
  <2>2. CASE conn[c] # "await"
    <3>1. {t \in Tasks : client[t] = c} = {} BY <2>2 DEF LibInv, OneEach
    <3>2. QED BY <2>2, <3>1, FS_EmptySet
  <2>3. QED BY <2>1, <2>2
<1>2. QED BY LibInvInit, LibInvStep, <1>1, PTL DEF LibSpec

-----------------------------------------------------------------------------
(* The gate. *)

Callers == ({"thread"} \X Tasks) \cup ({"worker"} \X Slots)

InGate(t) == pc[t] = "inside" /\ Gated(t)

\* The gate has one holder at most; that is the invariant the refinement needs,
\* since a holder that returns must leave the gate free.
GateExclusive ==
  /\ \A t, u \in Tasks : InGate(t) /\ InGate(u) => t = u
  /\ \A c, d \in Slots : conn[c] = "vendor" /\ conn[d] = "vendor" => c = d
  /\ \A t \in Tasks, c \in Slots : ~(InGate(t) /\ conn[c] = "vendor")

\* Who holds the gate is told by the labels of threads and workers.
LEMMA HoldersAre ==
  /\ \A x : x \in GateHolders <=> \/ \E t \in Tasks : x = <<"thread", t>> /\ InGate(t)
                                  \/ \E c \in Slots : x = <<"worker", c>> /\ conn[c] = "vendor"
  /\ GateHeld <=> \/ \E t \in Tasks : InGate(t)
                  \/ \E c \in Slots : conn[c] = "vendor"
<1>1. \A x : x \in GateHolders <=> \/ \E t \in Tasks : x = <<"thread", t>> /\ InGate(t)
                                   \/ \E c \in Slots : x = <<"worker", c>> /\ conn[c] = "vendor"
  BY DEF GateHolders, InGate
<1>2. QED BY <1>1 DEF GateHeld

\* The same after a step.
LEMMA HoldersAreNext ==
  \A x : x \in GateHolders' <=> \/ \E t \in Tasks : x = <<"thread", t>> /\ InGate(t)'
                                \/ \E c \in Slots : x = <<"worker", c>> /\ conn'[c] = "vendor"
BY DEF GateHolders, InGate

\* A step that neither enters nor leaves the gate leaves its holders alone.
LEMMA GateUntouched ==
  ASSUME \A t \in Tasks : InGate(t)' <=> InGate(t),
         \A c \in Slots : conn'[c] = "vendor" <=> conn[c] = "vendor",
         GateExclusive
  PROVE  UNCHANGED GateHolders /\ GateExclusive'
<1>1. UNCHANGED GateHolders
  <2>1. \A x : x \in GateHolders' <=> x \in GateHolders BY HoldersAre, HoldersAreNext
  <2>2. QED BY <2>1 DEF GateHolders
<1>2. GateExclusive' BY DEF GateExclusive
<1>3. QED BY <1>1, <1>2

\* A thread or a worker that enters finds the gate free, and has it alone.
LEMMA GateEntered ==
  ASSUME NEW x \in Callers, ~GateHeld,
         \A t \in Tasks : InGate(t)' <=> InGate(t) \/ x = <<"thread", t>>,
         \A c \in Slots : conn'[c] = "vendor" <=> (conn[c] = "vendor" \/ x = <<"worker", c>>)
  PROVE  Gate!Acquire(x) /\ GateExclusive'
<1>1. GateHolders = {} BY DEF GateHeld
<1>2. \A t \in Tasks : ~InGate(t) BY HoldersAre
<1>3. \A c \in Slots : conn[c] # "vendor" BY HoldersAre
<1>4. (\E t \in Tasks : x = <<"thread", t>>) \/ (\E c \in Slots : x = <<"worker", c>>)
  BY DEF Callers
<1>5. \A y : y \in GateHolders' <=> y = x
  BY <1>2, <1>3, <1>4, HoldersAreNext
<1>6. GateHolders' = {x} BY <1>5
<1>7. GateExclusive' BY <1>2, <1>3 DEF GateExclusive
<1>8. QED BY <1>1, <1>6, <1>7 DEF Gate!Acquire

\* A holder that returns leaves the gate free.
LEMMA GateLeft ==
  ASSUME NEW x \in Callers, GateExclusive, x \in GateHolders,
         \A t \in Tasks : InGate(t)' <=> InGate(t) /\ x # <<"thread", t>>,
         \A c \in Slots : conn'[c] = "vendor" <=> (conn[c] = "vendor" /\ x # <<"worker", c>>)
  PROVE  Gate!Release(x) /\ GateExclusive'
<1>1. \A y : y \in GateHolders => y = x
  BY HoldersAre DEF GateExclusive
<1>2. GateHolders = {x} BY <1>1
<1>3. \A y : y \in GateHolders' => y \in GateHolders /\ y # x
  BY HoldersAre, HoldersAreNext
<1>4. GateHolders' = {} BY <1>1, <1>3
<1>5. GateExclusive' BY DEF GateExclusive
<1>6. QED BY <1>2, <1>4, <1>5 DEF Gate!Release

\* A step of a task changes the gate only if its label enters or leaves the call.
LEMMA GateOfOthers ==
  ASSUME NEW t \in Tasks, LibTypeOK, GateExclusive, ~InGate(t), ~InGate(t)',
         \A u \in Tasks \ {t} : pc'[u] = pc[u] /\ req'[u] = req[u],
         \A c \in Slots : conn'[c] = "vendor" <=> conn[c] = "vendor"
  PROVE  UNCHANGED GateHolders /\ GateExclusive'
<1>1. \A u \in Tasks : InGate(u)' <=> InGate(u)
  BY DEF InGate, Gated, Kind, Lib
<1>2. QED BY <1>1, GateUntouched

\* A task that leaves a gated call.
LEMMA GateOfTask ==
  ASSUME NEW t \in Tasks, LibTypeOK, GateExclusive, pc[t] = "inside", ~InGate(t)',
         \A u \in Tasks \ {t} : pc'[u] = pc[u] /\ req'[u] = req[u],
         \A c \in Slots : conn'[c] = "vendor" <=> conn[c] = "vendor"
  PROVE  [Gate!GateNext]_GateHolders /\ GateExclusive'
<1>1. CASE InGate(t)
  <2> DEFINE x == <<"thread", t>>
  <2>1. x \in Callers BY DEF Callers
  <2>2. x \in GateHolders BY <1>1, HoldersAre
  <2>3. \A u \in Tasks : InGate(u)' <=> InGate(u) /\ x # <<"thread", u>>
    BY DEF InGate, Gated, Kind, Lib
  <2>4. \A c \in Slots : conn'[c] = "vendor" <=> (conn[c] = "vendor" /\ x # <<"worker", c>>)
    OBVIOUS
  <2>5. Gate!Release(x) /\ GateExclusive' BY <2>1, <2>2, <2>3, <2>4, GateLeft
  <2>6. QED BY <2>1, <2>5 DEF Gate!GateNext, Callers
<1>2. CASE ~InGate(t)
  BY <1>2, GateOfOthers
<1>3. QED BY <1>1, <1>2

\* Every step of the threads and of the client tasks takes the gate when it is
\* free, gives it back, or leaves it alone.
LEMMA GateStep ==
  ASSUME LibTypeOK, OneEach, GateExclusive, [LibNext]_vars
  PROVE  [Gate!GateNext]_GateHolders /\ GateExclusive'
<1> DEFINE Kept == [Gate!GateNext]_GateHolders /\ GateExclusive'
<1>1. ASSUME NEW t \in Tasks,
             Start(t) \/ Lookup(t) \/ Load(t) \/ LoadFails(t) \/ Insert(t)
      PROVE  Kept
  <2>1. ~InGate(t) /\ ~InGate(t)'
    BY <1>1 DEF InGate, LibTypeOK, Goto, Start, Lookup, Load, LoadFails, Insert
  <2>2. \A u \in Tasks \ {t} : pc'[u] = pc[u] /\ req'[u] = req[u]
    BY <1>1 DEF LibTypeOK, Goto, Start, Lookup, Load, LoadFails, Insert
  <2>3. conn' = conn BY <1>1 DEF Start, Lookup, Load, LoadFails, Insert
  <2>4. QED BY <2>1, <2>2, <2>3, GateOfOthers
<1>2. ASSUME NEW t \in Tasks, Enter(t) PROVE Kept
  <2>1. \A u \in Tasks \ {t} : pc'[u] = pc[u] BY <1>2 DEF LibTypeOK, Goto, Enter
  <2>2. /\ pc[t] = "enter" /\ pc'[t] = "inside" /\ UNCHANGED <<conn, req>>
        /\ Gated(t) => ~GateHeld
    BY <1>2 DEF LibTypeOK, Goto, Enter
  <2>3. CASE Gated(t)
    <3> DEFINE x == <<"thread", t>>
    <3>1. x \in Callers BY DEF Callers
    <3>2. \A u \in Tasks : InGate(u)' <=> InGate(u) \/ x = <<"thread", u>>
      BY <2>1, <2>2, <2>3 DEF InGate, Gated, Kind, Lib
    <3>3. \A c \in Slots : conn'[c] = "vendor" <=> (conn[c] = "vendor" \/ x = <<"worker", c>>)
      BY <2>2
    <3>4. Gate!Acquire(x) /\ GateExclusive' BY <2>2, <2>3, <3>1, <3>2, <3>3, GateEntered
    <3>5. QED BY <3>1, <3>4 DEF Gate!GateNext, Callers
  <2>4. CASE ~Gated(t)
    <3>1. ~InGate(t) /\ ~InGate(t)' BY <2>2, <2>4 DEF InGate, Gated, Kind, Lib
    <3>2. QED BY <2>1, <2>2, <3>1, GateOfOthers
  <2>5. QED BY <2>3, <2>4
<1>3. ASSUME NEW t \in Tasks, CallReturns(t) \/ WaitReturns(t) PROVE Kept
  <2>1. pc[t] = "inside" /\ ~InGate(t)'
    BY <1>3 DEF InGate, LibTypeOK, Goto, CallReturns, WaitReturns
  <2>2. \A u \in Tasks \ {t} : pc'[u] = pc[u] /\ req'[u] = req[u]
    BY <1>3 DEF LibTypeOK, Goto, CallReturns, WaitReturns
  <2>3. conn' = conn BY <1>3 DEF CallReturns, WaitReturns
  <2>4. QED BY <2>1, <2>2, <2>3, GateOfTask
<1>4. ASSUME NEW t \in Tasks, CancelReturns(t) PROVE Kept
  <2>1. \A u \in Tasks : InGate(u)' <=> InGate(u)
    BY <1>4 DEF CancelReturns, InGate, Gated, Kind, Lib
  <2>2. conn' = conn BY <1>4 DEF CancelReturns
  <2>3. QED BY <2>1, <2>2, GateUntouched
<1>5. ASSUME NEW t \in Tasks, LateEnd(t) PROVE Kept
  <2>1. ~InGate(t) /\ ~InGate(t)'
    BY <1>5 DEF InGate, LibTypeOK, Goto, LateEnd, Leave
  <2>2. \A u \in Tasks \ {t} : pc'[u] = pc[u] /\ req'[u] = req[u]
    BY <1>5 DEF LibTypeOK, Goto, LateEnd, Leave
  <2>3. conn' = conn BY <1>5 DEF LateEnd
  <2>4. QED BY <2>1, <2>2, <2>3, GateOfOthers
<1>6. ASSUME NEW c \in Slots, Connect(c) \/ Hangup(c) \/ BeginDrop(c) PROVE Kept
  <2>1. \A t \in Tasks : InGate(t)' <=> InGate(t)
    BY <1>6 DEF Connect, Hangup, BeginDrop, InGate, Gated, Kind, Lib
  <2>2. \A d \in Slots : conn'[d] = "vendor" <=> conn[d] = "vendor"
    BY <1>6 DEF LibTypeOK, Connect, Hangup, BeginDrop
  <2>3. QED BY <2>1, <2>2, GateUntouched
<1>7. ASSUME NEW c \in Slots, Dispatch(c) PROVE Kept
  <2>1. PICK t \in Tasks : pc[t] = "none" /\ Goto(t, "queued") /\ \E r \in Requests : req' = [req EXCEPT ![t] = r]
    BY <1>7 DEF Dispatch
  <2>2. ~InGate(t) /\ ~InGate(t)' BY <2>1 DEF InGate, LibTypeOK, Goto
  <2>3. \A u \in Tasks \ {t} : pc'[u] = pc[u] /\ req'[u] = req[u]
    BY <2>1 DEF LibTypeOK, Goto
  <2>4. \A d \in Slots : conn'[d] = "vendor" <=> conn[d] = "vendor"
    BY <1>7 DEF LibTypeOK, Dispatch
  <2>5. QED BY <2>2, <2>3, <2>4, GateOfOthers
<1>8. ASSUME NEW c \in Slots, Reply(c) PROVE Kept
  <2>1. PICK t \in Tasks : client[t] = c /\ pc[t] = "done" /\ Leave(t) BY <1>8 DEF Reply
  <2>2. ~InGate(t) /\ ~InGate(t)' BY <2>1 DEF InGate, LibTypeOK, Leave, Goto
  <2>3. \A u \in Tasks \ {t} : pc'[u] = pc[u] /\ req'[u] = req[u]
    BY <2>1 DEF LibTypeOK, Leave, Goto
  <2>4. \A d \in Slots : conn'[d] = "vendor" <=> conn[d] = "vendor"
    BY <1>8, <2>1 DEF LibTypeOK, Reply, OneEach
  <2>5. QED BY <2>2, <2>3, <2>4, GateOfOthers
<1>9. ASSUME NEW c \in Slots, Abandon(c) PROVE Kept
  <2>1. \E t \in Tasks : client[t] = c BY <1>9 DEF Abandon
  <2>2. \A t \in Tasks : InGate(t)' <=> InGate(t)
    BY <1>9 DEF Abandon, InGate, Gated, Kind, Lib
  <2>3. \A d \in Slots : conn'[d] = "vendor" <=> conn[d] = "vendor"
    BY <1>9, <2>1 DEF LibTypeOK, Abandon, OneEach
  <2>4. QED BY <2>2, <2>3, GateUntouched
<1>10. ASSUME NEW c \in Slots, Panic(c) PROVE Kept
  <2>1. PICK t \in Tasks : client[t] = c /\ pc[t] = "inside" /\ Leave(t) BY <1>10 DEF Panic
  <2>2. ~InGate(t)' BY <2>1 DEF InGate, LibTypeOK, Leave, Goto
  <2>3. \A u \in Tasks \ {t} : pc'[u] = pc[u] /\ req'[u] = req[u]
    BY <2>1 DEF LibTypeOK, Leave, Goto
  <2>4. \A d \in Slots : conn'[d] = "vendor" <=> conn[d] = "vendor"
    BY <1>10, <2>1 DEF LibTypeOK, Panic, OneEach
  <2>5. QED BY <2>1, <2>2, <2>3, <2>4, GateOfTask
<1>11. ASSUME NEW c \in Slots, DropEnters(c) PROVE Kept
  <2> DEFINE x == <<"worker", c>>
  <2>1. x \in Callers BY DEF Callers
  <2>2. \A t \in Tasks : InGate(t)' <=> InGate(t) \/ x = <<"thread", t>>
    BY <1>11 DEF DropEnters, InGate, Gated, Kind, Lib
  <2>3. \A d \in Slots : conn'[d] = "vendor" <=> (conn[d] = "vendor" \/ x = <<"worker", d>>)
    BY <1>11 DEF DropEnters, LibTypeOK
  <2>4. ~GateHeld BY <1>11 DEF DropEnters
  <2>5. Gate!Acquire(x) /\ GateExclusive' BY <2>1, <2>2, <2>3, <2>4, GateEntered
  <2>6. QED BY <2>1, <2>5 DEF Gate!GateNext, Callers
<1>12. ASSUME NEW c \in Slots, DropReturns(c) PROVE Kept
  <2> DEFINE x == <<"worker", c>>
  <2>1. x \in Callers BY DEF Callers
  <2>2. x \in GateHolders BY <1>12, HoldersAre DEF DropReturns
  <2>3. \A t \in Tasks : InGate(t)' <=> InGate(t) /\ x # <<"thread", t>>
    BY <1>12 DEF DropReturns, InGate, Gated, Kind, Lib
  <2>4. \A d \in Slots : conn'[d] = "vendor" <=> (conn[d] = "vendor" /\ x # <<"worker", d>>)
    BY <1>12 DEF DropReturns, LibTypeOK
  <2>5. Gate!Release(x) /\ GateExclusive' BY <2>1, <2>2, <2>3, <2>4, GateLeft
  <2>6. QED BY <2>1, <2>5 DEF Gate!GateNext, Callers
<1>13. CASE UNCHANGED vars
  <2>1. \A t \in Tasks : InGate(t)' <=> InGate(t) BY <1>13 DEF vars, InGate, Gated, Kind, Lib
  <2>2. conn' = conn BY <1>13 DEF vars
  <2>3. QED BY <2>1, <2>2, GateUntouched
<1>14. QED
  BY <1>1, <1>2, <1>3, <1>4, <1>5, <1>6, <1>7, <1>8, <1>9, <1>10, <1>11, <1>12, <1>13 DEF LibNext

\* Calls of blocking threads and closes of workers share the gate of the default
\* provider as one mutex, through every timeout, panic, late end and hangup, for
\* any number of them (gate_lock in provider/native.rs).
THEOREM GateSerializes == LibSpec => GateIsALock
<1>1. LibInit => Gate!GateInit /\ GateExclusive
  BY DEF LibInit, Gate!GateInit, GateHolders, GateExclusive, InGate
<1>2. LibInv => LibTypeOK /\ OneEach BY DEF LibInv
<1>3. LibInv /\ GateExclusive /\ [LibNext]_vars => [Gate!GateNext]_GateHolders /\ GateExclusive'
  BY <1>2, GateStep
<1>4. QED
  BY <1>1, <1>3, LibInvInit, LibInvStep, PTL DEF LibSpec, GateIsALock, Gate!GateSpec

\* A task that is there executes a request of a client.
Asked == \A t \in Tasks : pc[t] # "none" => req[t] \in Requests

\* No step gives a task anything else to do.
LEMMA AskedStep ==
  ASSUME LibTypeOK, Asked, [LibNext]_vars
  PROVE  Asked'
<1> USE DEF Asked, LibTypeOK, Goto
<1>1. ASSUME NEW t \in Tasks,
             Start(t) \/ Lookup(t) \/ Load(t) \/ LoadFails(t) \/ Insert(t) \/ Enter(t)
      PROVE  Asked'
  BY <1>1 DEF Start, Lookup, Load, LoadFails, Insert, Enter
<1>2. ASSUME NEW t \in Tasks, CallReturns(t) \/ WaitReturns(t) \/ CancelReturns(t)
      PROVE  Asked'
  BY <1>2 DEF CallReturns, WaitReturns, CancelReturns
<1>3. ASSUME NEW t \in Tasks, LateEnd(t) PROVE Asked'
  BY <1>3 DEF LateEnd, Leave
<1>4. ASSUME NEW c \in Slots, Dispatch(c) PROVE Asked'
  BY <1>4 DEF Dispatch
<1>5. ASSUME NEW c \in Slots, Reply(c) \/ Panic(c) PROVE Asked'
  BY <1>5 DEF Reply, Panic, Leave
<1>6. ASSUME NEW c \in Slots,
             \/ Connect(c) \/ Abandon(c) \/ Hangup(c)
             \/ BeginDrop(c) \/ DropEnters(c) \/ DropReturns(c)
      PROVE  Asked'
  BY <1>6 DEF Connect, Abandon, Hangup, BeginDrop, DropEnters, DropReturns
<1>7. CASE UNCHANGED vars
  BY <1>7 DEF vars
<1>8. QED BY <1>1, <1>2, <1>3, <1>4, <1>5, <1>6, <1>7 DEF LibNext

\* If no request goes to a handler that calls the library around the gate (the
\* handlers of main.rs that use get_api), one call at a time is inside the default
\* library.  So the overlap of calls that the model has, against the comment on
\* FfiGate, comes from these handlers alone; timeouts, panics and the closes of
\* disconnected clients do not add to it.
THEOREM GatedLibraryIsSerial ==
  ASSUME \A r \in Requests : r[1] # "raw"
  PROVE  LibSpec => [](Cardinality(Inside(Default)) <= 1)
<1> DEFINE SerialInv == LibInv /\ Asked /\ GateExclusive
<1>1. LibInit => SerialInv
  <2>1. LibInit => Asked /\ GateExclusive BY DEF LibInit, Asked, GateExclusive, InGate
  <2>2. QED BY <2>1, LibInvInit
<1>2. SerialInv /\ [LibNext]_vars => SerialInv'
  <2>1. LibInv => LibTypeOK /\ OneEach BY DEF LibInv
  <2>2. LibInv /\ GateExclusive /\ [LibNext]_vars => GateExclusive' BY <2>1, GateStep
  <2>3. LibInv /\ Asked /\ [LibNext]_vars => Asked' BY <2>1, AskedStep
  <2>4. QED BY <2>2, <2>3, LibInvStep
<1>3. SerialInv => Cardinality(Inside(Default)) <= 1
  <2> SUFFICES ASSUME SerialInv PROVE Cardinality(Inside(Default)) <= 1
    OBVIOUS
  <2>1. \A t \in Tasks : pc[t] = "inside" /\ Lib(t) = Default /\ ~Exempt(t) => InGate(t)
    <3> SUFFICES ASSUME NEW t \in Tasks, pc[t] = "inside", Lib(t) = Default, ~Exempt(t)
                 PROVE  Kind(t) = "adapter"
      BY DEF InGate, Gated
    <3>1. req[t] \in Requests BY DEF Asked
    <3>2. req[t][1] \in Kinds
      <4>1. \A r \in Kinds \X Aliases : r[1] \in Kinds OBVIOUS
      <4>2. QED BY <3>1, <4>1, LibRequestsAssumption
    <3>3. QED BY <3>1, <3>2 DEF Kind, Exempt, Kinds
  <2>2. Inside(Default) \subseteq GateHolders
    BY <2>1 DEF Inside, GateHolders, InGate
  <2>3. \A x, y \in GateHolders : x = y BY HoldersAre DEF GateExclusive
  <2>4. CASE Inside(Default) = {}
    BY <2>4, FS_EmptySet
  <2>5. ASSUME NEW x \in Inside(Default) PROVE Cardinality(Inside(Default)) <= 1
    <3>1. Inside(Default) = {x} BY <2>2, <2>3, <2>5
    <3>2. Cardinality({x}) = 1 BY FS_Singleton
    <3>3. QED BY <3>1, <3>2
  <2>6. QED BY <2>4, <2>5
<1>4. QED BY <1>1, <1>2, <1>3, PTL DEF LibSpec

=============================================================================
