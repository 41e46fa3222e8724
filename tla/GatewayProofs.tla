---------------------------- MODULE GatewayProofs ---------------------------
(***************************************************************************)
(* The properties of Gateway, proved for every set of connections, keys    *)
(* and devices, every lifetime of a grant and every set of requests.       *)
(***************************************************************************)
EXTENDS Gateway, SessionsProofs, MethodsProofs

-----------------------------------------------------------------------------
(* Every step of Gateway is a step of Sessions, so what was proved of the  *)
(* life of session states holds here.                                      *)

\* Every step of a request or of the world is a step of the session bookkeeping
\* or leaves it alone.
LEMMA NextIsSessNext == [Next]_vars => [SessNext]_sessVars
<1> SUFFICES ASSUME [Next]_vars PROVE [SessNext]_sessVars
  OBVIOUS
<1>1. ASSUME NEW s \in Sids, TaskStep(s) PROVE [SessNext]_sessVars
  <2>1. CASE StepPanics(s)
    BY <2>1 DEF StepPanics, SessNext
  <2>2. CASE AbandonedEnds(s)
    BY <2>2 DEF AbandonedEnds, SessNext
  <2>3. CASE ~StepPanics(s) /\ ~AbandonedEnds(s)
    <3>1. UNCHANGED sessVars
      BY <1>1, <2>3
      DEF TaskStep, StepSucceeds, StepFails, FallBackToOpen, VerifyPin, Authorize,
          Reject, CloseHandle, ScanOpens, ScanMisses, ScanCloses, ScanEnds
    <3>2. QED BY <3>1
  <2>4. QED BY <2>1, <2>2, <2>3
<1>2. ASSUME NEW c \in Conns, Connect(c) PROVE [SessNext]_sessVars
  BY <1>2 DEF Connect, SessNext
<1>3. ASSUME NEW c \in Conns, Dispatch(c) PROVE [SessNext]_sessVars
  BY <1>3 DEF Dispatch, SessNext
<1>4. ASSUME NEW c \in Conns, Reply(c) PROVE [SessNext]_sessVars
  BY <1>4 DEF Reply, SessNext
<1>5. ASSUME NEW c \in Conns, Abandon(c) PROVE [SessNext]_sessVars
  BY <1>5 DEF Abandon, SessNext
<1>6. ASSUME NEW c \in Conns, Hangup(c) PROVE [SessNext]_sessVars
  BY <1>6 DEF Hangup, SessNext
<1>7. ASSUME NEW d \in Devices, Unplug(d) \/ Plug(d) PROVE [SessNext]_sessVars
  BY <1>7 DEF Unplug, Plug
<1>8. CASE Tick
  BY <1>8 DEF Tick
<1>9. CASE UNCHANGED vars
  BY <1>9 DEF vars
<1>10. QED
  BY <1>1, <1>2, <1>3, <1>4, <1>5, <1>6, <1>7, <1>8, <1>9 DEF Next

\* The gateway manages sessions and permits exactly as Sessions says.
THEOREM GatewayImplementsSessions == Spec => SessSpec
<1>1. Init => SessInit BY DEF Init
<1>2. QED BY <1>1, NextIsSessNext, PTL DEF Spec, SessSpec

\* So the session properties hold with requests that really execute: while tasks
\* authorize, fail, panic and outlive their time limit, a connection has its own
\* state and no other's, none is forgotten or handed out again, and the registry
\* and the permits count the connections (session/mod.rs, server/mod.rs).
THEOREM GatewaySessionsAreSafe ==
  Spec => /\ [](StatePresent /\ OneOwner /\ NoForgottenState /\ RegistryExact)
          /\ []PermitsConserved
          /\ AbandonedStaysAbandoned
<1>1. SessSpec => [](StatePresent /\ OneOwner /\ NoForgottenState /\ RegistryExact)
  BY StateAlwaysPresent, SessionsAreIsolated, NoStateIsForgotten, RegistryIsExact, PTL
<1>2. QED
  BY <1>1, GatewayImplementsSessions, PermitsAreConserved, AbandonedForever, PTL

-----------------------------------------------------------------------------
(* Types. *)

TaskTypeOK ==
  /\ method \in [Sids -> AllMethods \cup {None}]
  /\ key \in [Sids -> Keys \cup {None}]
  /\ script \in [Sids -> Seq(Steps)]
  /\ held \in [Sids -> SUBSET Kinds]
  /\ closes \in [Sids -> Seq(Kinds)]
  /\ grants \in [Sids -> Tables]
  /\ present \subseteq Devices
  /\ now \in 1..MaxTime
  /\ verifiedAt \in [Sids -> [Keys -> 0..MaxTime]]
  /\ lost \in [Sids -> SUBSET Keys]

\* A step opens handles of the known kinds only.
LEMMA OpensType == \A op : Opens(op) \in SUBSET Kinds
  BY DEF Opens, Kinds

\* Both ways of cleaning up, guards and hand-written closes, close known kinds.
LEMMA CleanupType ==
  ASSUME NEW m, NEW step \in Steps, NEW h PROVE Cleanup(m, step, h) \in Seq(Kinds)
  BY UnwindType DEF Cleanup, Steps

\* The head and the tail of a script that is not finished.
LEMMA StepType ==
  ASSUME TaskTypeOK, NEW s \in Sids, script[s] # <<>>
  PROVE  Step(s) \in Steps /\ Tail(script[s]) \in Seq(Steps)
  BY HeadTailProperties DEF TaskTypeOK, Step

\* Advance keeps the task variables within their types.
LEMMA AdvanceType ==
  ASSUME TaskTypeOK, NEW s \in Sids, script[s] # <<>>, Advance(s)
  PROVE  /\ method' = method /\ key' = key
         /\ script' \in [Sids -> Seq(Steps)]
         /\ held' \in [Sids -> SUBSET Kinds]
         /\ closes' \in [Sids -> Seq(Kinds)]
<1> DEFINE h == Holding(held[s], Step(s).op)
<1>1. h \in SUBSET Kinds BY OpensType DEF TaskTypeOK, Holding
<1>2. Cleanup(method[s], Step(s), h) \in Seq(Kinds) BY StepType, CleanupType
<1>3. <<>> \in Seq(Kinds) BY EmptySeq
<1> HIDE DEF h
<1>4. /\ script' = [script EXCEPT ![s] = Tail(script[s])]
      /\ held' = [held EXCEPT ![s] = h]
      /\ \E x \in Seq(Kinds) : closes' = [closes EXCEPT ![s] = x]
      /\ method' = method /\ key' = key
  BY <1>2, <1>3 DEF Advance, h
<1>5. QED BY <1>1, <1>4, StepType DEF TaskTypeOK

\* Return keeps the task variables within their types.
LEMMA ReturnType ==
  ASSUME TaskTypeOK, NEW s \in Sids, script[s] # <<>>, Return(s)
  PROVE  /\ method' = method /\ key' = key /\ held' = held
         /\ script' \in [Sids -> Seq(Steps)]
         /\ closes' \in [Sids -> Seq(Kinds)]
<1>1. Cleanup(method[s], Step(s), held[s]) \in Seq(Kinds) BY StepType, CleanupType
<1>2. <<>> \in Seq(Steps) BY EmptySeq
<1>3. QED BY <1>1, <1>2 DEF Return, TaskTypeOK

\* The operations of AuthTable map tables to tables.
LEMMA TableTypes ==
  ASSUME NEW table \in Tables, NEW t \in Nat
  PROVE  /\ NoGrants \in Tables
         /\ \A k : GrantKey(table, k, t) \in Tables
         /\ \A k : RejectKey(table, k) \in Tables
         /\ \A d : InvalidateDevice(table, d) \in Tables
<1> USE DEF Tables
<1>1. NoGrants \in Tables BY DEF NoGrants
<1>2. t + TTL \in Nat BY TTLAssumption
<1>3. \A k : GrantKey(table, k, t) \in Tables BY <1>2 DEF GrantKey
<1>4. \A k : RejectKey(table, k) \in Tables BY DEF RejectKey
<1>5. \A d : InvalidateDevice(table, d) \in Tables BY DEF InvalidateDevice
<1>6. QED BY <1>1, <1>3, <1>4, <1>5

\* The process starts within the types.
LEMMA TaskTypeInit == Init => TaskTypeOK
<1> SUFFICES ASSUME Init PROVE TaskTypeOK
  OBVIOUS
<1>1. 0 \in 0..MaxTime /\ 1 \in 1..MaxTime BY MaxTimeAssumption
<1>2. [k \in Keys |-> 0] \in [Keys -> 0..MaxTime] BY <1>1
<1>3. NoGrants \in Tables BY DEF Tables, NoGrants
<1>4. QED BY <1>1, <1>2, <1>3, EmptySeq DEF Init, TaskTypeOK

\* A state that is dropped leaves its grants and its history empty.
LEMMA StateDropType ==
  ASSUME TaskTypeOK, NEW s, DropState(s)
  PROVE  /\ grants' \in [Sids -> Tables]
         /\ verifiedAt' \in [Sids -> [Keys -> 0..MaxTime]]
         /\ lost' \in [Sids -> SUBSET Keys]
<1>1. [k \in Keys |-> 0] \in [Keys -> 0..MaxTime] BY MaxTimeAssumption
<1>2. NoGrants \in Tables BY DEF Tables, NoGrants
<1>3. /\ grants \in [Sids -> Tables] /\ lost \in [Sids -> SUBSET Keys]
      /\ verifiedAt \in [Sids -> [Keys -> 0..MaxTime]]
  BY DEF TaskTypeOK
<1> DEFINE zero == [k \in Keys |-> 0]
<1>4. /\ grants' = [grants EXCEPT ![s] = NoGrants] /\ lost' = [lost EXCEPT ![s] = {}]
      /\ verifiedAt' = [verifiedAt EXCEPT ![s] = zero]
  BY DEF DropState
<1> HIDE DEF zero
<1>5. zero \in [Keys -> 0..MaxTime] BY <1>1 DEF zero
<1>6. QED BY <1>2, <1>3, <1>4, <1>5

\* Every step keeps the tasks, the grants and the history within their types.
LEMMA TaskTypeStep == TaskTypeOK /\ [Next]_vars => TaskTypeOK'
<1> SUFFICES ASSUME TaskTypeOK, [Next]_vars PROVE TaskTypeOK'
  OBVIOUS
<1>0. now \in Nat /\ <<>> \in Seq(Steps)
  BY MaxTimeAssumption, EmptySeq DEF TaskTypeOK
<1>1. ASSUME NEW s \in Sids, TaskStep(s) PROVE TaskTypeOK'
  <2>0. grants[s] \in Tables BY DEF TaskTypeOK
  <2>1. CASE StepSucceeds(s)
    BY <2>1, AdvanceType
    DEF StepSucceeds, Running, TaskTypeOK, envVars, histVars
  <2>2. CASE StepFails(s)
    <3>1. \A d : InvalidateDevice(grants[s], d) \in Tables BY <1>0, <2>0, TableTypes
    <3>2. grants' \in [Sids -> Tables]
      BY <2>0, <2>2, <3>1 DEF StepFails, TaskTypeOK
    <3>3. lost' \in [Sids -> SUBSET Keys]
      BY <2>2 DEF StepFails, TaskTypeOK
    <3>4. QED BY <2>2, <3>2, <3>3, ReturnType
              DEF StepFails, Running, TaskTypeOK, envVars
  <2>3. CASE FallBackToOpen(s)
    <3>1. <<Guarded("open_container")>> \in Seq(Steps) BY StepTypes DEF Ops
    <3>2. <<Guarded("open_container")>> \o Tail(script[s]) \in Seq(Steps)
      BY <2>3, <3>1, StepType, ConcatProperties DEF FallBackToOpen, Running
    <3>3. script' \in [Sids -> Seq(Steps)]
      BY <2>3, <3>2 DEF FallBackToOpen, TaskTypeOK
    <3>4. QED BY <2>3, <3>3 DEF FallBackToOpen, TaskTypeOK, envVars, histVars
  <2>4. CASE VerifyPin(s)
    <3>1. \A k : GrantKey(grants[s], k, now) \in Tables BY <1>0, <2>0, TableTypes
    <3>2. grants' \in [Sids -> Tables]
      BY <2>4, <3>1 DEF VerifyPin, TaskTypeOK
    <3>3. verifiedAt' \in [Sids -> [Keys -> 0..MaxTime]]
      <4> DEFINE new == [verifiedAt[s] EXCEPT ![key[s]] = now]
      <4>1. verifiedAt' = [verifiedAt EXCEPT ![s] = new] BY <2>4 DEF VerifyPin
      <4>2. now \in 0..MaxTime BY MaxTimeAssumption DEF TaskTypeOK
      <4>3. new \in [Keys -> 0..MaxTime]
        BY <4>2 DEF TaskTypeOK
      <4> HIDE DEF new
      <4>4. QED BY <4>1, <4>3 DEF TaskTypeOK
    <3>4. lost' \in [Sids -> SUBSET Keys]
      BY <2>4 DEF VerifyPin, TaskTypeOK
    <3>5. QED BY <2>4, <3>2, <3>3, <3>4, AdvanceType
              DEF VerifyPin, Running, TaskTypeOK, envVars
  <2>5. CASE Authorize(s)
    BY <2>5, AdvanceType DEF Authorize, Running, TaskTypeOK, envVars, histVars
  <2>6. CASE Reject(s)
    <3>1. \A k : RejectKey(grants[s], k) \in Tables BY <1>0, <2>0, TableTypes
    <3>2. grants' \in [Sids -> Tables]
      BY <2>6, <3>1 DEF Reject, TaskTypeOK
    <3>3. QED BY <2>6, <3>2, ReturnType
              DEF Reject, Running, TaskTypeOK, envVars, histVars
  <2>7. CASE CloseHandle(s)
    <3>1. Tail(closes[s]) \in Seq(Kinds)
      BY <2>7, HeadTailProperties DEF CloseHandle, TaskTypeOK
    <3>2. QED BY <2>7, <3>1 DEF CloseHandle, TaskTypeOK, envVars, histVars
  <2>8. CASE StepPanics(s) \/ AbandonedEnds(s)
    <3>1. DropState(s) BY <2>8 DEF StepPanics, AbandonedEnds
    <3>2. QED BY <1>0, <2>8, <3>1, StateDropType
              DEF StepPanics, AbandonedEnds, TaskTypeOK, envVars
  <2>9. CASE ScanOpens(s)
    <3>1. ScanNext(s) # "none" => ScanNext(s) \in Kinds BY DEF ScanNext, Kinds
    <3>2. QED BY <2>9, <3>1 DEF ScanOpens, TaskTypeOK, envVars, histVars
  <2>10. CASE ScanMisses(s)
    BY <2>10 DEF ScanMisses, TaskTypeOK, taskVars, envVars
  <2>11. CASE ScanCloses(s) \/ ScanEnds(s)
    BY <1>0, <2>11 DEF ScanCloses, ScanEnds, TaskTypeOK, envVars, histVars
  <2>12. QED
    BY <1>1, <2>1, <2>2, <2>3, <2>4, <2>5, <2>6, <2>7, <2>8, <2>9, <2>10, <2>11
    DEF TaskStep
<1>2. ASSUME NEW c \in Conns, Dispatch(c) PROVE TaskTypeOK'
  <2>1. \A m \in Requests : m \in AllMethods /\ Scripts(m) \subseteq Seq(Steps)
    BY RequestsAssumption, ScriptTypes
  <2>2. QED BY <1>2, <2>1 DEF Dispatch, TaskTypeOK, envVars, histVars
<1>3. ASSUME NEW c \in Conns, Connect(c) \/ Reply(c) \/ Abandon(c) PROVE TaskTypeOK'
  BY <1>3 DEF Connect, Reply, Abandon, TaskTypeOK, taskVars, envVars, histVars
<1>4. ASSUME NEW c \in Conns, Hangup(c) PROVE TaskTypeOK'
  <2>1. DropState(cur[c]) BY <1>4 DEF Hangup
  <2>2. QED BY <1>4, <2>1, StateDropType DEF Hangup, TaskTypeOK, taskVars, envVars
<1>5. ASSUME NEW d \in Devices, Unplug(d) \/ Plug(d) PROVE TaskTypeOK'
  BY <1>5 DEF Unplug, Plug, TaskTypeOK, taskVars, histVars
<1>6. CASE Tick
  BY <1>6, MaxTimeAssumption DEF Tick, TaskTypeOK, taskVars, histVars
<1>7. CASE UNCHANGED vars
  BY <1>7 DEF vars, TaskTypeOK, taskVars, envVars, histVars
<1>8. QED BY <1>1, <1>2, <1>3, <1>4, <1>5, <1>6, <1>7 DEF Next

\* No handler leaves the session, its table of grants or its own bookkeeping
\* outside the values the code can represent, whatever it is interleaved with.
THEOREM TypeCorrect == Spec => []TypeOK
<1>1. SessTypeOK /\ TaskTypeOK => TypeOK BY DEF TypeOK, TaskTypeOK
<1>2. Spec => []SessTypeOK BY GatewayImplementsSessions, SessTypeCorrect, PTL
<1>3. Spec => []TaskTypeOK BY TaskTypeInit, TaskTypeStep, PTL DEF Spec
<1>4. QED BY <1>1, <1>2, <1>3, PTL

-----------------------------------------------------------------------------
(* Authorization. *)

\* Only the creation of a state gives it an owner, and it keeps that owner.
OwnerKept(s) ==
  /\ place[s] # "unborn" => owner'[s] = owner[s] /\ place'[s] # "unborn"
  /\ place[s] = "unborn" /\ place'[s] # "unborn" => owner'[s] \in Conns

\* A state keeps the connection it was created for.
LEMMA OwnerStep ==
  ASSUME StateInv, [SessNext]_sessVars, NEW s \in Sids
  PROVE  OwnerKept(s)
<1>0. StateTypeOK /\ Fresh /\ StatePresent BY DEF StateInv
<1>1. ASSUME NEW c \in Conns, Mint(c)
      PROVE  /\ minted + 1 \in Sids /\ place[minted + 1] = "unborn"
             /\ owner' = [owner EXCEPT ![minted + 1] = c]
  BY <1>0, <1>1, MaxSidsAssumption DEF Mint, Fresh, Sids, StateTypeOK
<1>2. ASSUME NEW c \in Conns, Create(c) \/ TimeOut(c) PROVE OwnerKept(s)
  BY <1>0, <1>1, <1>2 DEF Create, TimeOut, OwnerKept, StateTypeOK
<1>3. ASSUME NEW c \in Conns, TaskPanics(c) PROVE OwnerKept(s)
  <2>1. cur[c] \in Sids /\ place[cur[c]] = "pool"
    BY <1>0, <1>3 DEF TaskPanics, StatePresent, InSession
  <2>2. QED BY <1>0, <1>1, <1>3, <2>1 DEF TaskPanics, OwnerKept, StateTypeOK
<1>4. ASSUME NEW c \in Conns, TakeState(c) \/ PutState(c) \/ Disconnect(c)
      PROVE  OwnerKept(s)
  <2>1. cur[c] \in Sids /\ place[cur[c]] # "unborn"
    BY <1>0, <1>4 DEF TakeState, PutState, Disconnect, StatePresent, InSession
  <2>2. QED BY <1>0, <1>4, <2>1 DEF TakeState, PutState, Disconnect, OwnerKept, StateTypeOK
<1>5. ASSUME NEW t \in Sids, OrphanEnds(t) PROVE OwnerKept(s)
  BY <1>0, <1>5 DEF OrphanEnds, Orphan, OwnerKept, StateTypeOK
<1>6. CASE UNCHANGED <<place, owner>>
  BY <1>6 DEF OwnerKept
<1>7. QED
  BY <1>2, <1>3, <1>4, <1>5, <1>6
  DEF SessNext, sessVars, Admit, Refuse, HandshakeFails

\* Every state in use was created for a connection.
Owned == \A s \in Sids : place[s] # "unborn" => owner[s] \in Conns

\* A state that exists has a connection: tasks are never without an owner.
LEMMA OwnedStep == StateInv /\ Owned /\ [SessNext]_sessVars => Owned'
  BY OwnerStep DEF Owned, OwnerKept

\* A task that still has something to do knows its key.
KeyKnown == \A s \in Sids : script[s] # <<>> => key[s] \in Keys

\* A task that runs has a key.
LEMMA KeyStep == TaskTypeOK /\ KeyKnown /\ [Next]_vars => KeyKnown'
<1> SUFFICES ASSUME TaskTypeOK, KeyKnown, [Next]_vars, NEW s \in Sids, script'[s] # <<>>
             PROVE  key'[s] \in Keys
  BY DEF KeyKnown
<1>0. key \in [Sids -> Keys \cup {None}] /\ script \in [Sids -> Seq(Steps)]
  BY DEF TaskTypeOK
<1>1. ASSUME NEW t \in Sids, TaskStep(t) PROVE key'[s] \in Keys
  <2>1. CASE ScanOpens(t)
    BY <1>0, <2>1 DEF ScanOpens, KeyKnown
  <2>2. CASE StepPanics(t) \/ AbandonedEnds(t)
    BY <1>0, <2>2 DEF StepPanics, AbandonedEnds, Finished, KeyKnown
  <2>3. CASE ~ScanOpens(t) /\ ~StepPanics(t) /\ ~AbandonedEnds(t)
    <3>1. key' = key
      BY <1>1, <2>3
      DEF TaskStep, StepSucceeds, StepFails, FallBackToOpen, VerifyPin, Authorize,
          Reject, CloseHandle, ScanMisses, ScanCloses, ScanEnds, Advance, Return, taskVars
    <3>2. script[s] # <<>>
      BY <1>0, <1>1, <2>3
      DEF TaskStep, StepSucceeds, StepFails, FallBackToOpen, VerifyPin, Authorize,
          Reject, CloseHandle, ScanMisses, ScanCloses, ScanEnds, Advance, Return,
          taskVars, Running, Scanning
    <3>3. QED BY <3>1, <3>2 DEF KeyKnown
  <2>4. QED BY <2>1, <2>2, <2>3
<1>2. ASSUME NEW c \in Conns, Dispatch(c) PROVE key'[s] \in Keys
  BY <1>0, <1>2 DEF Dispatch, KeyKnown
<1>3. ASSUME NEW c \in Conns, Reply(c) PROVE key'[s] \in Keys
  BY <1>0, <1>3 DEF Reply, Finished, KeyKnown
<1>4. ASSUME UNCHANGED <<key, script>> PROVE key'[s] \in Keys
  BY <1>4 DEF KeyKnown
<1>5. QED
  BY <1>1, <1>2, <1>3, <1>4
  DEF Next, Connect, Abandon, Hangup, Unplug, Plug, Tick, vars, taskVars

\* Each grant of each state is left as it is, with its history, or removed.
Shrinks ==
  \A s \in Sids, k \in Keys :
    /\ grants'[s][k] \in {grants[s][k], 0}
    /\ grants'[s][k] # 0 => verifiedAt'[s][k] = verifiedAt[s][k]

\* Dropping a state removes its grants and leaves those of the others.
LEMMA DropShrinks ==
  ASSUME TaskTypeOK, NEW t, DropState(t) PROVE Shrinks
<1>0. /\ grants \in [Sids -> Tables] /\ verifiedAt \in [Sids -> [Keys -> 0..MaxTime]]
      /\ \A s \in Sids : grants[s] \in [Keys -> Nat]
  BY DEF TaskTypeOK, Tables
<1>1. ASSUME NEW s \in Sids, NEW k \in Keys, s = t PROVE grants'[s][k] = 0
  BY <1>0, <1>1 DEF DropState, NoGrants
<1>2. ASSUME NEW s \in Sids, s # t PROVE grants'[s] = grants[s] /\ verifiedAt'[s] = verifiedAt[s]
  BY <1>0, <1>2 DEF DropState
<1>3. QED BY <1>1, <1>2 DEF Shrinks

\* A step that is not a successful CheckPIN leaves each grant or removes it.
LEMMA GrantsShrink ==
  ASSUME TaskTypeOK, [Next]_vars, \A s \in Sids : ~VerifyPin(s)
  PROVE  Shrinks
<1>0. \A s \in Sids : grants[s] \in [Keys -> Nat] /\ grants \in [Sids -> Tables]
  BY DEF TaskTypeOK, Tables
<1>1. CASE UNCHANGED <<verifiedAt, grants>>
  BY <1>1 DEF Shrinks
<1>2. ASSUME NEW t, DropState(t) PROVE Shrinks
  BY <1>2, DropShrinks
<1>3. ASSUME NEW t \in Sids, TaskStep(t) PROVE Shrinks
  <2>1. CASE StepFails(t)
    BY <1>0, <2>1 DEF StepFails, InvalidateDevice, Shrinks
  <2>2. CASE Reject(t)
    BY <1>0, <2>2 DEF Reject, RejectKey, histVars, Shrinks
  <2>3. CASE StepPanics(t) \/ AbandonedEnds(t)
    BY <1>2, <2>3 DEF StepPanics, AbandonedEnds
  <2>4. QED
    BY <1>1, <1>3, <2>1, <2>2, <2>3
    DEF TaskStep, StepSucceeds, FallBackToOpen, Authorize, CloseHandle, ScanOpens,
        ScanMisses, ScanCloses, ScanEnds, histVars
<1>4. ASSUME NEW c \in Conns, Hangup(c) PROVE Shrinks
  BY <1>2, <1>4 DEF Hangup
<1>5. QED
  BY <1>1, <1>3, <1>4
  DEF Next, Connect, Dispatch, Reply, Abandon, Unplug, Plug, Tick, vars, histVars

\* Nobody has granted anything to a state that does not exist yet.
UnbornEmpty ==
  \A s \in Sids, k \in Keys : place[s] = "unborn" => grants[s][k] = 0

\* Behind every grant is a CheckPIN that carried the same state, and the state was
\* created for a connection.
GrantsBacked ==
  \A s \in Sids, k \in Keys :
    grants[s][k] # 0 =>
      /\ owner[s] \in Conns
      /\ verifiedAt[s][k] # 0
      /\ grants[s][k] <= verifiedAt[s][k] + TTL

AuthInv ==
  /\ StateInv
  /\ TaskTypeOK
  /\ Owned
  /\ KeyKnown
  /\ UnbornEmpty
  /\ GrantsBacked

\* AuthInv holds when the process starts.
LEMMA AuthInit == Init => AuthInv
<1> SUFFICES ASSUME Init PROVE AuthInv
  OBVIOUS
<1>1. StateInv /\ TaskTypeOK BY StateInit, TaskTypeInit DEF Init
<1>2. Owned /\ KeyKnown BY DEF Init, SessInit, Owned, KeyKnown
<1>3. UnbornEmpty /\ GrantsBacked BY DEF Init, UnbornEmpty, GrantsBacked, NoGrants
<1>4. QED BY <1>1, <1>2, <1>3 DEF AuthInv

\* The numbers the grants are made of.
LEMMA AuthNumbers ==
  ASSUME TaskTypeOK
  PROVE  /\ now \in Nat /\ TTL \in Nat /\ now > 0
         /\ \A s \in Sids : grants[s] \in [Keys -> Nat]
         /\ \A s \in Sids : verifiedAt[s] \in [Keys -> Nat]
<1>1. now \in Nat /\ now > 0 /\ TTL \in Nat
  BY MaxTimeAssumption, TTLAssumption DEF TaskTypeOK
<1>2. \A s \in Sids : grants[s] \in [Keys -> Nat] BY DEF TaskTypeOK, Tables
<1>3. \A s \in Sids : verifiedAt[s] \in [Keys -> Nat]
  <2>1. 0..MaxTime \subseteq Nat BY MaxTimeAssumption
  <2>2. QED BY <2>1 DEF TaskTypeOK
<1>4. QED BY <1>1, <1>2, <1>3

\* AuthInv is kept by every step: only VerifyPin adds a grant, and it records the
\* same instant for the same state.
LEMMA AuthStep == AuthInv /\ [Next]_vars => AuthInv'
<1> SUFFICES ASSUME AuthInv, [Next]_vars PROVE AuthInv'
  OBVIOUS
<1>0. /\ StateInv /\ TaskTypeOK /\ Owned /\ KeyKnown
      /\ UnbornEmpty /\ GrantsBacked
  BY DEF AuthInv
<1>1. [SessNext]_sessVars BY NextIsSessNext
<1>2. StateInv' /\ TaskTypeOK' /\ Owned' /\ KeyKnown'
  BY <1>0, <1>1, StateStep, TaskTypeStep, OwnedStep, KeyStep
<1>3. \A s \in Sids : OwnerKept(s) BY <1>0, <1>1, OwnerStep
<1>4. /\ now \in Nat /\ TTL \in Nat /\ now > 0
      /\ \A s \in Sids : grants[s] \in [Keys -> Nat]
      /\ \A s \in Sids : verifiedAt[s] \in [Keys -> Nat]
      /\ grants \in [Sids -> Tables]
      /\ verifiedAt \in [Sids -> [Keys -> 0..MaxTime]]
  BY <1>0, AuthNumbers, MaxTimeAssumption DEF TaskTypeOK
<1>5. ASSUME NEW s \in Sids, VerifyPin(s) PROVE UnbornEmpty' /\ GrantsBacked'
  <2>1. /\ place[s] = "pool" /\ owner[s] \in Conns /\ key[s] \in Keys
        /\ UNCHANGED <<place, owner>>
    BY <1>0, <1>5 DEF VerifyPin, Running, Owned, KeyKnown, sessVars
  <2>2. \A t \in Sids, k \in Keys :
          /\ grants'[t][k] = IF t = s /\ k = key[s] THEN now + TTL ELSE grants[t][k]
          /\ verifiedAt'[t][k] = IF t = s /\ k = key[s] THEN now ELSE verifiedAt[t][k]
    <3>1. grants' = [grants EXCEPT ![s] = [grants[s] EXCEPT ![key[s]] = now + TTL]]
      BY <1>5 DEF VerifyPin, GrantKey
    <3>2. verifiedAt' = [verifiedAt EXCEPT ![s] = [verifiedAt[s] EXCEPT ![key[s]] = now]]
      BY <1>5 DEF VerifyPin
    <3>3. QED BY <1>4, <2>1, <3>1, <3>2
  <2>3. UnbornEmpty' BY <1>0, <2>1, <2>2 DEF UnbornEmpty
  <2>4. GrantsBacked'
    <3> SUFFICES ASSUME NEW t \in Sids, NEW k \in Keys, grants'[t][k] # 0
                 PROVE  /\ owner[t] \in Conns
                        /\ verifiedAt'[t][k] # 0
                        /\ grants'[t][k] <= verifiedAt'[t][k] + TTL
      BY <2>1 DEF GrantsBacked
    <3>1. CASE t = s /\ k = key[s]
      BY <1>4, <2>1, <2>2, <3>1
    <3>2. CASE ~(t = s /\ k = key[s])
      BY <1>0, <2>2, <3>2 DEF GrantsBacked
    <3>3. QED BY <3>1, <3>2
  <2>5. QED BY <2>3, <2>4
<1>6. ASSUME \A s \in Sids : ~VerifyPin(s) PROVE UnbornEmpty' /\ GrantsBacked'
  <2>1. Shrinks BY <1>0, <1>6, GrantsShrink
  <2>2. UnbornEmpty' BY <1>0, <1>3, <2>1 DEF UnbornEmpty, OwnerKept, Shrinks
  <2>3. GrantsBacked'
    <3> SUFFICES ASSUME NEW s \in Sids, NEW k \in Keys, grants'[s][k] # 0
                 PROVE  /\ owner'[s] \in Conns
                        /\ verifiedAt'[s][k] # 0
                        /\ grants'[s][k] <= verifiedAt'[s][k] + TTL
      BY DEF GrantsBacked
    <3>1. /\ grants'[s][k] = grants[s][k] /\ grants[s][k] # 0
          /\ verifiedAt'[s][k] = verifiedAt[s][k]
      BY <2>1 DEF Shrinks
    <3>2. owner'[s] = owner[s] BY <1>0, <1>3, <3>1 DEF UnbornEmpty, OwnerKept
    <3>3. QED BY <1>0, <3>1, <3>2 DEF GrantsBacked
  <2>4. QED BY <2>2, <2>3
<1>7. QED BY <1>2, <1>5, <1>6 DEF AuthInv

\* Only a PIN presented less than TTL ago for that very application, by a request
\* that carried the same state, lets a task reach the private key: for any number
\* of connections, any mix of timeouts, panics and abandoned tasks, and any
\* lifetime of a grant.
THEOREM OnlyOwnPinAuthorizes == Spec => AuthorizedByOwnPin
<1>1. AuthInv /\ [Next]_vars =>
        [\A s \in Sids :
           Authorize(s) =>
             /\ owner[s] \in Conns
             /\ verifiedAt[s][key[s]] # 0
             /\ now < verifiedAt[s][key[s]] + TTL]_vars
  <2> SUFFICES ASSUME AuthInv, NEW s \in Sids, Authorize(s)
               PROVE  /\ owner[s] \in Conns
                      /\ verifiedAt[s][key[s]] # 0
                      /\ now < verifiedAt[s][key[s]] + TTL
    OBVIOUS
  <2>1. key[s] \in Keys BY DEF AuthInv, KeyKnown, Authorize, Running
  <2>2. now \in Nat /\ TTL \in Nat /\ grants[s][key[s]] \in Nat
    BY <2>1, AuthNumbers DEF AuthInv
  <2>3. grants[s][key[s]] > now BY DEF Authorize, Authorized
  <2>4. /\ owner[s] \in Conns /\ verifiedAt[s][key[s]] # 0
        /\ grants[s][key[s]] <= verifiedAt[s][key[s]] + TTL
    BY <2>1, <2>2, <2>3 DEF AuthInv, GrantsBacked
  <2>5. verifiedAt[s][key[s]] \in Nat BY <2>1, AuthNumbers DEF AuthInv
  <2>6. QED BY <2>2, <2>3, <2>4, <2>5
<1>2. QED BY AuthInit, AuthStep, <1>1, PTL DEF Spec, AuthorizedByOwnPin

\* A reason for the grant of k in state s to be gone after this step.
EndsForAReason(s, k) ==
  grants[s][k] # 0 /\ grants'[s][k] = 0 =>
    \/ grants[s][k] <= now
    \/ k \in lost'[s]
    \/ place'[s] = "dropped"

\* The action form of GrantsEndForAReason.
LEMMA ReasonStep ==
  ASSUME AuthInv, [Next]_vars, NEW s \in Sids, NEW k \in Keys
  PROVE  EndsForAReason(s, k)
<1>0. StateInv /\ TaskTypeOK BY DEF AuthInv
<1>1. /\ now \in Nat /\ TTL \in Nat /\ now > 0 /\ grants[s] \in [Keys -> Nat]
      /\ grants \in [Sids -> Tables] /\ lost \in [Sids -> SUBSET Keys]
  BY <1>0, AuthNumbers DEF TaskTypeOK
<1>2. CASE grants'[s] = grants[s]
  BY <1>2 DEF EndsForAReason
<1>3. ASSUME NEW t \in Sids, VerifyPin(t) PROVE EndsForAReason(s, k)
  <2>1. grants' = [grants EXCEPT ![t] = [grants[t] EXCEPT ![key[t]] = now + TTL]]
    BY <1>3 DEF VerifyPin, GrantKey
  <2>2. grants'[s][k] \in {grants[s][k], now + TTL} BY <1>1, <2>1
  <2>3. QED BY <1>1, <2>2 DEF EndsForAReason
<1>4. ASSUME NEW t \in Sids, StepFails(t) PROVE EndsForAReason(s, k)
  <2>1. Step(t) \in Steps BY <1>0, <1>4, StepType DEF StepFails, Running
  <2>2. Step(t).clears => FindsGone(t) BY <2>1 DEF Steps, FindsGone
  <2>3. CASE t = s /\ Step(t).clears
    <3>1. DeviceOf[k] # Device(s) => grants'[s][k] = grants[s][k]
      BY <1>1, <1>4, <2>3 DEF StepFails, InvalidateDevice
    <3>2. DeviceOf[k] = Device(s) => k \in lost'[s]
      BY <1>1, <1>4, <2>2, <2>3 DEF StepFails
    <3>3. QED BY <3>1, <3>2 DEF EndsForAReason
  <2>4. CASE ~(t = s /\ Step(t).clears)
    BY <1>1, <1>4, <2>4, <1>2 DEF StepFails
  <2>5. QED BY <2>3, <2>4
<1>5. ASSUME NEW t \in Sids, Reject(t) PROVE EndsForAReason(s, k)
  <2>1. grants' = [grants EXCEPT ![t] = [grants[t] EXCEPT ![key[t]] = 0]]
    BY <1>5 DEF Reject, RejectKey
  <2>2. ~(grants[t][key[t]] > now) BY <1>5 DEF Reject, Authorized
  <2>3. CASE t = s /\ k = key[t]
    BY <1>1, <2>2, <2>3 DEF EndsForAReason
  <2>4. CASE ~(t = s /\ k = key[t])
    BY <1>1, <2>1, <2>4 DEF EndsForAReason
  <2>5. QED BY <2>3, <2>4
<1>6. ASSUME NEW t \in Sids, StepPanics(t) \/ AbandonedEnds(t)
      PROVE  EndsForAReason(s, k)
  <2>1. t # s => grants'[s] = grants[s]
    BY <1>1, <1>6 DEF StepPanics, AbandonedEnds, DropState
  <2>2. place'[t] = "dropped"
    <3>1. place \in [Sids -> Places] BY <1>0 DEF StateInv, StateTypeOK
    <3>2. ASSUME NEW c \in Conns, cur[c] = t, TaskPanics(c) PROVE place'[t] = "dropped"
      <4>1. minted + 1 # t
        BY <1>0, <3>2, MaxSidsAssumption
        DEF StateInv, StateTypeOK, Fresh, Sids, NoSid
      <4>2. QED BY <3>1, <3>2, <4>1 DEF TaskPanics
    <3>3. OrphanEnds(t) => place'[t] = "dropped" BY <3>1 DEF OrphanEnds
    <3>4. QED BY <1>6, <3>2, <3>3 DEF StepPanics, AbandonedEnds
  <2>3. QED BY <1>2, <2>1, <2>2 DEF EndsForAReason
<1>7. ASSUME NEW c \in Conns, Hangup(c) PROVE EndsForAReason(s, k)
  <2>1. cur[c] # s => grants'[s] = grants[s]
    BY <1>1, <1>7 DEF Hangup, DropState
  <2>2. cur[c] = s => place'[s] = "dropped"
    BY <1>0, <1>7 DEF Hangup, Disconnect, StateInv, StateTypeOK
  <2>3. QED BY <1>2, <2>1, <2>2 DEF EndsForAReason
<1>8. CASE grants' = grants
  BY <1>2, <1>8
<1>9. QED
  BY <1>3, <1>4, <1>5, <1>6, <1>7, <1>8
  DEF Next, TaskStep, StepSucceeds, FallBackToOpen, Authorize, CloseHandle, ScanOpens,
      ScanMisses, ScanCloses, ScanEnds, Connect, Dispatch, Reply, Abandon, Unplug,
      Plug, Tick, vars

\* A client is asked for its PIN again only when its grant has run out, its device
\* was found gone or its state was dropped, whatever the other clients do
\* (invalidate_device retains every other key).
THEOREM GrantsLast == Spec => GrantsEndForAReason
<1>1. AuthInv /\ [Next]_vars =>
        [\A s \in Sids, k \in Keys :
           grants[s][k] # 0 /\ grants'[s][k] = 0 =>
             \/ grants[s][k] <= now
             \/ k \in lost'[s]
             \/ place'[s] = "dropped"]_vars
  BY ReasonStep DEF EndsForAReason
<1>2. QED BY AuthInit, AuthStep, <1>1, PTL DEF Spec, GrantsEndForAReason

-----------------------------------------------------------------------------
(* A device that is gone. *)

\* A task only ever runs steps of the methods that clients may call, whatever
\* these steps have in common.
LEMMA ScriptStep ==
  ASSUME NEW S, script \in [Sids -> Seq(S)], Guarded("open_container") \in S,
         \A m \in Requests : Scripts(m) \subseteq Seq(S),
         [Next]_vars
  PROVE  script' \in [Sids -> Seq(S)]
<1>0. <<>> \in Seq(S) BY EmptySeq
<1>1. ASSUME NEW t \in Sids, script[t] # <<>> PROVE Tail(script[t]) \in Seq(S)
  BY <1>1, HeadTailProperties
<1>2. ASSUME NEW t \in Sids, TaskStep(t) PROVE script' \in [Sids -> Seq(S)]
  <2>1. CASE FallBackToOpen(t)
    <3>1. <<Guarded("open_container")>> \in Seq(S) OBVIOUS
    <3>2. <<Guarded("open_container")>> \o Tail(script[t]) \in Seq(S)
      BY <1>1, <2>1, <3>1, ConcatProperties DEF FallBackToOpen, Running
    <3>3. QED BY <2>1, <3>2 DEF FallBackToOpen
  <2>2. CASE StepSucceeds(t) \/ VerifyPin(t) \/ Authorize(t)
    BY <1>1, <2>2 DEF StepSucceeds, VerifyPin, Authorize, Running, Advance
  <2>3. CASE StepFails(t) \/ Reject(t) \/ StepPanics(t) \/ ScanEnds(t)
    BY <1>0, <2>3 DEF StepFails, Reject, StepPanics, ScanEnds, Return
  <2>4. CASE script' = script
    BY <2>4
  <2>5. QED
    BY <1>2, <2>1, <2>2, <2>3, <2>4
    DEF TaskStep, CloseHandle, ScanOpens, ScanMisses, ScanCloses, AbandonedEnds, taskVars
<1>3. ASSUME NEW c \in Conns, Dispatch(c) PROVE script' \in [Sids -> Seq(S)]
  BY <1>3 DEF Dispatch
<1>4. CASE script' = script
  BY <1>4
<1>5. QED
  BY <1>2, <1>3, <1>4
  DEF Next, Connect, Reply, Abandon, Hangup, Unplug, Plug, Tick, vars, taskVars

\* What was found gone has no grant left.
LostInv ==
  /\ TaskTypeOK
  /\ script \in [Sids -> Seq(ClearingSteps)]
  /\ \A s \in Sids : \A k \in lost[s] : grants[s][k] = 0

\* LostInv holds when the process starts.
LEMMA LostInit == Init => LostInv
  BY TaskTypeInit, EmptySeq DEF Init, LostInv

\* LostInv is kept by every step of the methods that clear on a missing device.
LEMMA LostStep ==
  ASSUME Requests \subseteq ClearingMethods, LostInv, [Next]_vars
  PROVE  LostInv'
<1>0. TaskTypeOK /\ TaskTypeOK' BY TaskTypeStep DEF LostInv
<1>1. script' \in [Sids -> Seq(ClearingSteps)]
  <2>1. Guarded("open_container") \in ClearingSteps
    BY StepTypes DEF Ops, Guarded, ClearingSteps, Finders
  <2>2. QED BY <2>1, ScriptStep DEF LostInv, ClearingMethods
<1>2. ASSUME NEW s \in Sids, NEW k \in lost'[s] PROVE grants'[s][k] = 0
  <2>0. /\ k \in Keys /\ grants \in [Sids -> Tables] /\ grants[s] \in [Keys -> Nat]
        /\ lost \in [Sids -> SUBSET Keys]
        /\ k \in lost[s] => grants[s][k] = 0
    BY <1>0, <1>2 DEF TaskTypeOK, Tables, LostInv
  <2>1. ASSUME NEW t \in Sids, VerifyPin(t) PROVE grants'[s][k] = 0
    <3>1. grants' = [grants EXCEPT ![t] = [grants[t] EXCEPT ![key[t]] = now + TTL]]
      BY <2>1 DEF VerifyPin, GrantKey
    <3>2. lost' = [lost EXCEPT ![t] = lost[t] \ {key[t]}] BY <2>1 DEF VerifyPin
    <3>3. k \in lost[s] /\ ~(s = t /\ k = key[t]) BY <1>2, <2>0, <3>2
    <3>4. QED BY <2>0, <3>1, <3>3
  <2>2. ASSUME NEW t \in Sids, StepFails(t) PROVE grants'[s][k] = 0
    <3>1. Step(t) \in ClearingSteps
      BY <2>2, HeadTailProperties DEF LostInv, Step, StepFails, Running
    <3>2. FindsGone(t) => Step(t).clears BY <3>1 DEF ClearingSteps, FindsGone
    <3>3. CASE s = t /\ FindsGone(t)
      BY <1>2, <2>0, <2>2, <3>2, <3>3 DEF StepFails, InvalidateDevice
    <3>4. CASE s = t /\ ~FindsGone(t)
      BY <1>2, <2>0, <2>2, <3>4 DEF StepFails, InvalidateDevice
    <3>5. CASE s # t
      BY <1>2, <2>0, <2>2, <3>5 DEF StepFails
    <3>6. QED BY <3>3, <3>4, <3>5
  <2>3. ASSUME NEW t \in Sids, ScanMisses(t) PROVE FALSE
    <3>1. Step(t) \in ClearingSteps
      BY <2>3, HeadTailProperties DEF LostInv, Step, ScanMisses, Scanning, Running
    <3>2. QED BY <2>3, <3>1 DEF ClearingSteps, ScanMisses, Scanning
  <2>4. ASSUME NEW t \in Sids, Reject(t) PROVE grants'[s][k] = 0
    BY <1>2, <2>0, <2>4 DEF Reject, RejectKey, histVars
  <2>5. ASSUME NEW t, DropState(t) PROVE grants'[s][k] = 0
    BY <1>2, <2>0, <2>5 DEF DropState, NoGrants
  <2>6. CASE UNCHANGED <<grants, lost>>
    BY <1>2, <2>0, <2>6
  <2>7. QED
    BY <2>1, <2>2, <2>3, <2>4, <2>5, <2>6
    DEF Next, TaskStep, StepSucceeds, FallBackToOpen, Authorize, CloseHandle, StepPanics,
        ScanOpens, ScanCloses, ScanEnds, AbandonedEnds, Connect, Dispatch, Reply, Abandon,
        Hangup, Unplug, Plug, Tick, vars, histVars
<1>3. QED BY <1>0, <1>1, <1>2 DEF LostInv

\* As long as clients call none of the five methods of LaxMethods, every application
\* of a device that could not be opened needs its PIN again, even after the device
\* is back: for any number of connections and abandoned tasks.
THEOREM LostDeviceAsksAgain ==
  ASSUME Requests \subseteq AllMethods \ LaxMethods
  PROVE  Spec => LostDeviceNeedsPin
<1>0. Requests \subseteq ClearingMethods BY MethodsThatClear
<1>1. LostInv /\ [Next]_vars =>
        [\A s \in Sids : Authorize(s) => key[s] \notin lost[s]]_vars
  <2> SUFFICES ASSUME LostInv, NEW s \in Sids, Authorize(s), key[s] \in lost[s] PROVE FALSE
    OBVIOUS
  <2>1. grants[s][key[s]] = 0 /\ now \in Nat
    BY AuthNumbers DEF LostInv
  <2>2. grants[s][key[s]] > now BY DEF Authorize, Authorized
  <2>3. QED BY <2>1, <2>2
<1>2. LostInv /\ [Next]_vars => LostInv' BY <1>0, LostStep
<1>3. QED BY LostInit, <1>1, <1>2, PTL DEF Spec, LostDeviceNeedsPin

-----------------------------------------------------------------------------
(* Native handles: those in guards and those closed by hand. *)

\* No request panics on a name while it holds raw handles.
NoNameLeaks == NulNames => Requests \cap NameLeaks = {}

\* A task is either still at work, with a script that fits what it holds and nothing
\* to close yet, or it closes exactly what it holds, in the order of the guards.
Tidy(s) ==
  /\ place[s] = "pool" => method[s] \in Requests
  /\ script[s] # <<>> => closes[s] = <<>> /\ Fits(method[s], held[s], script[s])
  /\ place[s] = "pool" /\ script[s] = <<>> => closes[s] = Unwind(held[s])
  /\ place[s] # "pool" => script[s] = <<>> /\ closes[s] = <<>>
  /\ place[s] \in {"unborn", "guard"} => held[s] = {}
  /\ place[s] = "dropped" /\ NoNameLeaks => held[s] = {}
  /\ Upright(held[s])

TidyInv ==
  /\ StateInv
  /\ TaskTypeOK
  /\ \A s \in Sids : Tidy(s)

\* TidyInv holds when the process starts.
LEMMA TidyInit == Init => TidyInv
<1> SUFFICES ASSUME Init PROVE TidyInv
  OBVIOUS
<1>1. StateInv /\ TaskTypeOK BY StateInit, TaskTypeInit DEF Init
<1>2. \A s \in Sids : Tidy(s) BY DEF Init, SessInit, Tidy, Upright
<1>3. QED BY <1>1, <1>2 DEF TidyInv

\* A handler that has closed everything holds nothing.
LEMMA FinishedHoldsNothing ==
  ASSUME TidyInv, NEW s \in Sids, Finished(s)
  PROVE  held[s] = {}
<1>1. closes[s] = <<>> /\ closes[s] = Unwind(held[s]) /\ held[s] \in SUBSET Kinds
  BY DEF TidyInv, Tidy, Finished, TaskTypeOK
<1>2. QED BY <1>1, UnwindStep

\* Tidy looks at the task, at its handles and at whether the state is in use.
LEMMA TidyUnchanged ==
  ASSUME NEW s \in Sids, Tidy(s),
         method'[s] = method[s], script'[s] = script[s],
         held'[s] = held[s], closes'[s] = closes[s],
         \/ place'[s] = place[s]
         \/ place[s] \in {"unborn", "guard"} /\ place'[s] \in {"guard", "dropped"}
  PROVE  Tidy(s)'
  BY DEF Tidy

\* The facts a task that is at work can rely on.
LEMMA RunningTask ==
  ASSUME TidyInv, Requests \subseteq AllMethods \ {"ImportKeyPair", "Digest"},
         NEW s \in Sids, Running(s), Step(s).op # "scan"
  PROVE  /\ method[s] \in AllMethods /\ method[s] # "FindCertificates"
         /\ method[s] \in Requests /\ place[s] = "pool"
         /\ held[s] \in SUBSET Kinds
         /\ script[s] \in Seq(Steps) /\ script[s] # <<>>
         /\ Fits(method[s], held[s], script[s])
         /\ Upright(held[s])
<1>1. /\ place[s] = "pool" /\ script[s] # <<>> /\ script[s] \in Seq(Steps)
      /\ method[s] \in Requests /\ held[s] \in SUBSET Kinds
      /\ Fits(method[s], held[s], script[s]) /\ Upright(held[s])
  BY DEF TidyInv, Tidy, TaskTypeOK, Running
<1>2. method[s] # "FindCertificates"
  <2> SUFFICES ASSUME method[s] = "FindCertificates" PROVE FALSE
    OBVIOUS
  <2>1. script[s] = <<Raw("scan", <<>>)>> BY <1>1 DEF Fits
  <2>2. Step(s) = Raw("scan", <<>>) BY <2>1 DEF Step
  <2>3. QED BY <2>2, RawFields
<1>3. QED BY <1>1, <1>2

\* The same for the task of FindCertificates.
LEMMA ScanningTask ==
  ASSUME TidyInv, Requests \subseteq AllMethods \ {"ImportKeyPair", "Digest"},
         NEW s \in Sids, Scanning(s)
  PROVE  /\ method[s] = "FindCertificates" /\ place[s] = "pool" /\ closes[s] = <<>>
         /\ method[s] \in Requests
         /\ script[s] = <<Raw("scan", <<>>)>>
         /\ held[s] \in SUBSET Kinds /\ Upright(held[s])
<1>1. /\ place[s] = "pool" /\ script[s] # <<>> /\ script[s] \in Seq(Steps)
      /\ method[s] \in Requests /\ held[s] \in SUBSET Kinds /\ closes[s] = <<>>
      /\ Fits(method[s], held[s], script[s]) /\ Upright(held[s])
  BY DEF TidyInv, Tidy, TaskTypeOK, Running, Scanning
<1>2. Head(script[s]).op = "scan" BY DEF Scanning, Step
<1>3. method[s] = "FindCertificates" BY <1>1, <1>2, FitsNoScan
<1>4. QED BY <1>1, <1>3 DEF Fits

\* A step that succeeds keeps the task tidy.
LEMMA TidyAdvance ==
  ASSUME TidyInv, Requests \subseteq AllMethods \ {"ImportKeyPair", "Digest"},
         NEW s \in Sids, Running(s), Step(s).op # "scan", Advance(s), place' = place
  PROVE  Tidy(s)'
<1> DEFINE sc == script[s]
           h == Holding(held[s], Head(sc).op)
           m == method[s]
<1>1. /\ m \in AllMethods /\ m # "FindCertificates" /\ m \in Requests /\ place[s] = "pool"
      /\ held[s] \in SUBSET Kinds /\ sc \in Seq(Steps) /\ sc # <<>> /\ Fits(m, held[s], sc)
      /\ Upright(held[s])
  BY RunningTask
<1>2. /\ script \in [Sids -> Seq(Steps)] /\ held \in [Sids -> SUBSET Kinds]
      /\ closes \in [Sids -> Seq(Kinds)]
  BY DEF TidyInv, TaskTypeOK
<1>3. /\ script'[s] = Tail(sc) /\ held'[s] = h /\ method' = method
      /\ closes'[s] = IF Tail(sc) = <<>> THEN Cleanup(m, Head(sc), h) ELSE <<>>
  BY <1>2 DEF Advance, Step
<1>4. Fits(m, h, Tail(sc)) BY <1>1, FitsTail
<1>5. Tail(sc) = <<>> => Cleanup(m, Head(sc), h) = Unwind(h) BY <1>1, CleanupUnwinds
<1>6. Upright(h)
  <2>1. \A k \in Opens(Head(sc).op) : OpenedOn(k) \subseteq held[s] BY <1>1, FitsOpens
  <2>2. Upright(held[s] \cup Opens(Head(sc).op)) BY <1>1, <2>1, UprightOpens
  <2>3. Upright({}) BY DEF Upright
  <2>4. QED BY <2>2, <2>3 DEF Holding
<1> HIDE DEF sc, h
<1>7. QED BY <1>1, <1>3, <1>4, <1>5, <1>6 DEF Tidy

\* So does a handler that returns early.
LEMMA TidyReturn ==
  ASSUME TidyInv, Requests \subseteq AllMethods \ {"ImportKeyPair", "Digest"},
         NEW s \in Sids, Running(s), Step(s).op # "scan", Return(s), place' = place
  PROVE  Tidy(s)'
<1>1. /\ method[s] \in AllMethods /\ method[s] # "FindCertificates" /\ method[s] \in Requests
      /\ place[s] = "pool" /\ held[s] \in SUBSET Kinds /\ script[s] \in Seq(Steps)
      /\ script[s] # <<>> /\ Fits(method[s], held[s], script[s]) /\ Upright(held[s])
  BY RunningTask
<1>2. script \in [Sids -> Seq(Steps)] /\ closes \in [Sids -> Seq(Kinds)]
  BY DEF TidyInv, TaskTypeOK
<1>3. /\ script'[s] = <<>> /\ held' = held /\ method' = method
      /\ closes'[s] = Cleanup(method[s], Head(script[s]), held[s])
  BY <1>2 DEF Return, Step
<1>4. Cleanup(method[s], Head(script[s]), held[s]) = Unwind(held[s])
  BY <1>1, CleanupUnwinds
<1>5. QED BY <1>1, <1>3, <1>4 DEF Tidy
\* FindCertificates opens one level below what is open, and closes the innermost.
LEMMA TidyScan ==
  ASSUME TidyInv, Requests \subseteq AllMethods \ {"ImportKeyPair", "Digest"},
         NEW s \in Sids, ScanOpens(s) \/ ScanMisses(s) \/ ScanCloses(s) \/ ScanEnds(s)
  PROVE  Tidy(s)'
<1>0. Scanning(s) BY DEF ScanOpens, ScanMisses, ScanCloses, ScanEnds
<1>1. /\ method[s] = "FindCertificates" /\ place[s] = "pool" /\ closes[s] = <<>>
      /\ method[s] \in Requests /\ script[s] = <<Raw("scan", <<>>)>>
      /\ held[s] \in SUBSET Kinds /\ Upright(held[s])
  BY <1>0, ScanningTask
<1>2. held \in [Sids -> SUBSET Kinds] /\ script \in [Sids -> Seq(Steps)]
  BY DEF TidyInv, TaskTypeOK
<1>3. method' = method /\ closes' = closes /\ place' = place
  BY DEF ScanOpens, ScanMisses, ScanCloses, ScanEnds, taskVars, sessVars
<1>4. ASSUME script' = script, Upright(held'[s]) PROVE Tidy(s)'
  BY <1>1, <1>3, <1>4 DEF Tidy, Fits
<1>5. CASE ScanOpens(s)
  <2>1. script' = script /\ held'[s] = held[s] \cup {ScanNext(s)} /\ ScanNext(s) # "none"
    BY <1>2, <1>5 DEF ScanOpens
  <2>2. OpenedOn(ScanNext(s)) \subseteq held[s]
    <3>1. CASE held[s] = {}
      BY <3>1 DEF ScanNext, OpenedOn
    <3>2. CASE held[s] = {"device"}
      BY <3>2 DEF ScanNext, OpenedOn
    <3>3. CASE held[s] = {"device", "application"}
      BY <3>3 DEF ScanNext, OpenedOn
    <3>4. QED BY <2>1, <3>1, <3>2, <3>3 DEF ScanNext
  <2>3. Upright(held[s] \cup {ScanNext(s)}) BY <1>1, <2>2, UprightOpens
  <2>4. QED BY <1>4, <2>1, <2>3
<1>6. CASE ScanMisses(s)
  BY <1>1, <1>4, <1>6 DEF ScanMisses, taskVars
<1>7. CASE ScanCloses(s)
  <2>1. /\ script' = script /\ held[s] # {}
        /\ held'[s] = held[s] \ {Head(Unwind(held[s]))}
    BY <1>2, <1>7 DEF ScanCloses
  <2>2. QED BY <1>1, <1>4, <2>1, UprightCloses
<1>8. CASE ScanEnds(s)
  <2>1. held[s] = {} /\ held' = held /\ script'[s] = <<>>
    BY <1>2, <1>8 DEF ScanEnds
  <2>2. QED BY <1>1, <1>3, <2>1, UnwindNothing DEF Tidy
<1>9. QED BY <1>5, <1>6, <1>7, <1>8

\* A panic leaves something open only when a name is unwrapped above raw handles.
LEMMA TidyPanic ==
  ASSUME TidyInv, Requests \subseteq AllMethods \ {"ImportKeyPair", "Digest"},
         NEW s \in Sids, StepPanics(s), place'[s] = "dropped"
  PROVE  Tidy(s)'
<1>1. Running(s) /\ (Step(s).unwraps = "library" \/ (Step(s).unwraps = "name" /\ NulNames))
  BY DEF StepPanics
<1>2. Step(s).op # "scan"
  <2> SUFFICES ASSUME Step(s).op = "scan" PROVE FALSE
    OBVIOUS
  <2>1. script[s] = <<Raw("scan", <<>>)>> BY <1>1, ScanningTask DEF Scanning
  <2>2. Step(s) = Raw("scan", <<>>) BY <2>1 DEF Step
  <2>3. QED BY <1>1, <2>2, RawFields
<1>3. /\ method[s] # "FindCertificates" /\ method[s] \in Requests
      /\ held[s] \in SUBSET Kinds /\ script[s] \in Seq(Steps) /\ script[s] # <<>>
      /\ Fits(method[s], held[s], script[s]) /\ Upright(held[s])
  BY <1>1, <1>2, RunningTask
<1>4. \/ Step(s).unwraps = "nothing"
      \/ Step(s).unwraps = "name" /\ method[s] \in NameLeaks
      \/ held[s] = {}
  BY <1>3, FitsUnwraps DEF Step
<1>5. NoNameLeaks => held[s] = {} BY <1>1, <1>3, <1>4 DEF NoNameLeaks
<1>6. script \in [Sids -> Seq(Steps)] BY DEF TidyInv, TaskTypeOK
<1>7. script'[s] = <<>> /\ held' = held /\ closes' = closes
  BY <1>6 DEF StepPanics
<1>8. closes[s] = <<>> BY <1>3 DEF TidyInv, Tidy
<1>9. QED BY <1>3, <1>5, <1>7, <1>8 DEF Tidy

\* Closing the next handle leaves a task that still closes exactly what it holds.
LEMMA TidyClose ==
  ASSUME TidyInv, NEW s \in Sids, CloseHandle(s)
  PROVE  Tidy(s)'
<1>1. /\ place[s] = "pool" /\ closes[s] # <<>> /\ held[s] \in SUBSET Kinds /\ Tidy(s)
      /\ held \in [Sids -> SUBSET Kinds] /\ closes \in [Sids -> Seq(Kinds)]
  BY DEF CloseHandle, TidyInv, TaskTypeOK
<1>2. script[s] = <<>> /\ closes[s] = Unwind(held[s]) /\ method[s] \in Requests
  BY <1>1 DEF Tidy
<1>3. held[s] # {} BY <1>1, <1>2, UnwindNothing
<1>4. /\ held'[s] = held[s] \ {Head(closes[s])} /\ closes'[s] = Tail(closes[s])
      /\ UNCHANGED <<place, method, script>>
  BY <1>1 DEF CloseHandle, sessVars
<1>5. Tail(closes[s]) = Unwind(held[s] \ {Head(closes[s])})
  BY <1>1, <1>2, <1>3, UnwindStep
<1>6. Upright(held[s] \ {Head(closes[s])})
  BY <1>1, <1>2, <1>3, UprightCloses DEF Tidy
<1>7. QED BY <1>1, <1>2, <1>4, <1>5, <1>6 DEF Tidy

\* A task touches no task but its own; a panic may also give its connection a new state.
LEMMA TaskIsLocal ==
  ASSUME TidyInv, NEW t \in Sids, TaskStep(t), NEW s \in Sids, s # t
  PROVE  /\ method'[s] = method[s] /\ script'[s] = script[s]
         /\ held'[s] = held[s] /\ closes'[s] = closes[s]
         /\ place'[s] = place[s] \/ (place[s] = "unborn" /\ place'[s] = "guard")
<1>1. /\ method \in [Sids -> AllMethods \cup {None}] /\ script \in [Sids -> Seq(Steps)]
      /\ held \in [Sids -> SUBSET Kinds] /\ closes \in [Sids -> Seq(Kinds)]
      /\ place \in [Sids -> Places] /\ minted \in 0..MaxSids
      /\ \A u \in Sids : u > minted => place[u] = "unborn"
  BY DEF TidyInv, TaskTypeOK, StateInv, StateTypeOK, Fresh
<1>2. CASE StepSucceeds(t) \/ VerifyPin(t) \/ Authorize(t)
  BY <1>1, <1>2 DEF StepSucceeds, VerifyPin, Authorize, Advance, sessVars
<1>3. CASE StepFails(t) \/ Reject(t)
  BY <1>1, <1>3 DEF StepFails, Reject, Return, sessVars
<1>4. CASE FallBackToOpen(t)
  BY <1>1, <1>4 DEF FallBackToOpen, sessVars
<1>5. CASE CloseHandle(t)
  BY <1>1, <1>5 DEF CloseHandle, sessVars
<1>6. CASE StepPanics(t)
  <2>1. /\ method'[s] = method[s] /\ script'[s] = script[s]
        /\ held'[s] = held[s] /\ closes'[s] = closes[s]
    BY <1>1, <1>6 DEF StepPanics
  <2>2. place'[s] = place[s] \/ (place[s] = "unborn" /\ place'[s] = "guard")
    <3>1. CASE OrphanEnds(t)
      BY <1>1, <3>1 DEF OrphanEnds
    <3>2. ASSUME NEW c \in Conns, cur[c] = t, TaskPanics(c)
          PROVE  place'[s] = place[s] \/ (place[s] = "unborn" /\ place'[s] = "guard")
      <4>1. minted + 1 \in Sids /\ minted + 1 > minted
        BY <1>1, <3>2, MaxSidsAssumption DEF TaskPanics, Mint, Sids
      <4>2. place[minted + 1] = "unborn" BY <1>1, <4>1
      <4>3. QED BY <1>1, <3>2, <4>1, <4>2 DEF TaskPanics
    <3>3. QED BY <1>6, <3>1, <3>2 DEF StepPanics
  <2>3. QED BY <2>1, <2>2
<1>7. CASE ScanOpens(t) \/ ScanMisses(t) \/ ScanCloses(t) \/ ScanEnds(t)
  BY <1>1, <1>7 DEF ScanOpens, ScanMisses, ScanCloses, ScanEnds, taskVars, sessVars
<1>8. CASE AbandonedEnds(t)
  BY <1>1, <1>8 DEF AbandonedEnds, OrphanEnds
<1>9. QED BY <1>2, <1>3, <1>4, <1>5, <1>6, <1>7, <1>8 DEF TaskStep

\* TidyInv is kept by every step of every request but ImportKeyPair and Digest.
LEMMA TidyStep ==
  ASSUME Requests \subseteq AllMethods \ {"ImportKeyPair", "Digest"}, TidyInv, [Next]_vars
  PROVE  TidyInv'
<1>0. StateInv /\ TaskTypeOK /\ \A s \in Sids : Tidy(s)
  BY DEF TidyInv
<1>1. StateInv' /\ TaskTypeOK' BY <1>0, NextIsSessNext, StateStep, TaskTypeStep
<1>2. /\ method \in [Sids -> AllMethods \cup {None}] /\ script \in [Sids -> Seq(Steps)]
      /\ held \in [Sids -> SUBSET Kinds] /\ closes \in [Sids -> Seq(Kinds)]
      /\ place \in [Sids -> Places] /\ minted \in 0..MaxSids
      /\ \A c \in InSession : cur[c] \in Sids
      /\ \A s \in Sids : s > minted => place[s] = "unborn"
  BY <1>0 DEF TaskTypeOK, StateInv, StateTypeOK, StatePresent, Fresh
<1>3. ASSUME NEW s \in Sids PROVE Tidy(s)'
  <2>0. Tidy(s) BY <1>0
  <2>1. ASSUME NEW t \in Sids, TaskStep(t), s # t PROVE Tidy(s)'
    BY <2>0, <2>1, TaskIsLocal, TidyUnchanged
  <2>2. CASE TaskStep(s)
    <3>1. CASE StepSucceeds(s) \/ VerifyPin(s) \/ Authorize(s)
      <4>1. Running(s) /\ Advance(s) /\ place' = place /\ Step(s).op # "scan"
        BY <3>1 DEF StepSucceeds, VerifyPin, Authorize, sessVars
      <4>2. QED BY <4>1, TidyAdvance
    <3>2. CASE StepFails(s) \/ Reject(s)
      <4>1. Running(s) /\ Return(s) /\ place' = place /\ Step(s).op # "scan"
        BY <3>2 DEF StepFails, Reject, sessVars
      <4>2. QED BY <4>1, TidyReturn
    <3>3. CASE FallBackToOpen(s)
      <4> DEFINE u == <<Guarded("open_container")>> \o Tail(script[s])
      <4>1. Running(s) /\ Step(s).op = "create_or_open" /\ Step(s).op # "scan"
        BY <3>3 DEF FallBackToOpen
      <4>2. /\ method[s] \in AllMethods /\ method[s] # "FindCertificates"
            /\ method[s] \in Requests /\ place[s] = "pool" /\ held[s] \in SUBSET Kinds
            /\ script[s] \in Seq(Steps) /\ script[s] # <<>>
            /\ Fits(method[s], held[s], script[s]) /\ Upright(held[s])
        BY <4>1, RunningTask
      <4>3. method[s] \in GuardedMethods
        BY <4>1, <4>2, FitsByHand DEF Step, AllMethods
      <4>4. Fits(method[s], held[s], u) BY <4>1, <4>2, <4>3, FitsFallBack DEF Step
      <4>5. u # <<>>
        <5>1. <<Guarded("open_container")>> \in Seq(Steps) BY StepTypes DEF Ops
        <5>2. Tail(script[s]) \in Seq(Steps) BY <4>2, HeadTailProperties
        <5>3. <<Guarded("open_container")>> # <<>> OBVIOUS
        <5>4. QED BY <5>1, <5>2, <5>3, ConcatSimplifications
      <4>6. /\ script'[s] = u /\ place' = place
            /\ UNCHANGED <<method, held, closes>>
        BY <1>2, <3>3 DEF FallBackToOpen, sessVars
      <4>7. closes[s] = <<>> BY <2>0, <4>2 DEF Tidy
      <4> HIDE DEF u
      <4>8. QED BY <4>2, <4>4, <4>5, <4>6, <4>7 DEF Tidy
    <3>4. CASE CloseHandle(s) BY <3>4, TidyClose
    <3>5. CASE StepPanics(s)
      <4>1. place'[s] = "dropped"
        <5>1. CASE OrphanEnds(s) BY <1>2, <5>1 DEF OrphanEnds
        <5>2. ASSUME NEW c \in Conns, cur[c] = s, TaskPanics(c) PROVE place'[s] = "dropped"
          <6>1. minted + 1 \in Sids /\ minted + 1 > minted
            BY <1>2, <5>2, MaxSidsAssumption DEF TaskPanics, Mint, Sids
          <6>2. place[minted + 1] = "unborn" BY <1>2, <6>1
          <6>3. s # minted + 1 BY <3>5, <6>2 DEF StepPanics, Running
          <6>4. QED BY <1>2, <5>2, <6>1, <6>3 DEF TaskPanics
        <5>3. QED BY <3>5, <5>1, <5>2 DEF StepPanics
      <4>2. QED BY <3>5, <4>1, TidyPanic
    <3>6. CASE ScanOpens(s) \/ ScanMisses(s) \/ ScanCloses(s) \/ ScanEnds(s)
      BY <3>6, TidyScan
    <3>7. CASE AbandonedEnds(s)
      <4>1. held[s] = {} BY <3>7, FinishedHoldsNothing DEF AbandonedEnds
      <4>2. QED
        BY <1>2, <3>7, <4>1 DEF AbandonedEnds, Finished, OrphanEnds, Tidy, Upright
    <3>8. QED BY <2>2, <3>1, <3>2, <3>3, <3>4, <3>5, <3>6, <3>7 DEF TaskStep
  <2>3. ASSUME NEW c \in Conns, Dispatch(c) PROVE Tidy(s)'
    <3>1. cur[c] \in Sids /\ place[cur[c]] = "guard"
      BY <1>2, <2>3 DEF Dispatch, TakeState, InSession
    <3>2. CASE s = cur[c]
      <4>1. held[s] = {} /\ closes[s] = <<>> BY <2>0, <3>1, <3>2 DEF Tidy
      <4>2. PICK m \in Requests : method'[s] = m /\ \E sc \in Scripts(m) : script'[s] = sc
        BY <1>2, <2>3, <3>1, <3>2 DEF Dispatch
      <4>3. PICK sc \in Scripts(m) : script'[s] = sc BY <4>2
      <4>4. Fits(m, {}, sc) BY ScriptsFit
      <4>5. place'[s] = "pool" /\ held' = held /\ closes' = closes
        BY <1>2, <2>3, <3>1, <3>2 DEF Dispatch, TakeState
      <4>6. QED BY <4>1, <4>2, <4>3, <4>4, <4>5, UnwindNothing DEF Tidy, Upright
    <3>3. CASE s # cur[c]
      <4>1. /\ method'[s] = method[s] /\ script'[s] = script[s] /\ place'[s] = place[s]
            /\ held'[s] = held[s] /\ closes'[s] = closes[s]
        BY <1>2, <2>3, <3>1, <3>3 DEF Dispatch, TakeState
      <4>2. QED BY <2>0, <4>1, TidyUnchanged
    <3>4. QED BY <3>2, <3>3
  <2>4. ASSUME NEW c \in Conns, Reply(c) PROVE Tidy(s)'
    <3>1. cur[c] \in Sids BY <1>2, <2>4 DEF Reply, PutState, InSession
    <3>2. held[cur[c]] = {} BY <2>4, <3>1, FinishedHoldsNothing DEF Reply
    <3>3. CASE s = cur[c]
      BY <1>2, <2>4, <3>2, <3>3 DEF Reply, PutState, Finished, Tidy, Upright
    <3>4. CASE s # cur[c]
      <4>1. /\ method'[s] = method[s] /\ script'[s] = script[s] /\ place'[s] = place[s]
            /\ held'[s] = held[s] /\ closes'[s] = closes[s]
        BY <1>2, <2>4, <3>1, <3>4 DEF Reply, PutState
      <4>2. QED BY <2>0, <4>1, TidyUnchanged
    <3>5. QED BY <3>3, <3>4
  <2>5. ASSUME UNCHANGED <<method, script, held, closes>>,
               \/ place'[s] = place[s]
               \/ place[s] \in {"unborn", "guard"} /\ place'[s] \in {"guard", "dropped"}
        PROVE  Tidy(s)'
    BY <2>0, <2>5, TidyUnchanged
  <2>6. ASSUME NEW c \in Conns, Connect(c) \/ Abandon(c) PROVE Tidy(s)'
    <3>1. UNCHANGED <<method, script, held, closes>>
      BY <2>6 DEF Connect, Abandon, taskVars
    <3>2. \/ place'[s] = place[s]
          \/ place[s] \in {"unborn", "guard"} /\ place'[s] \in {"guard", "dropped"}
      <4>1. CASE Mint(c) /\ place' = [place EXCEPT ![minted + 1] = "guard"]
        <5>1. minted + 1 \in Sids /\ minted + 1 > minted
          BY <1>2, <4>1, MaxSidsAssumption DEF Mint, Sids
        <5>2. place[minted + 1] = "unborn" BY <1>2, <5>1
        <5>3. QED BY <1>2, <4>1, <5>1, <5>2
      <4>2. CASE place' = place
        BY <4>2
      <4>3. QED BY <2>6, <4>1, <4>2
                DEF Connect, Abandon, Admit, Refuse, HandshakeFails, Create, TimeOut
    <3>3. QED BY <2>5, <3>1, <3>2
  <2>7. ASSUME NEW c \in Conns, Hangup(c) PROVE Tidy(s)'
    <3>1. cur[c] \in Sids /\ place[cur[c]] = "guard"
      BY <1>0, <2>7 DEF Hangup, Disconnect, StateInv, StatePresent, InSession
    <3>2. \/ place'[s] = place[s]
          \/ place[s] \in {"unborn", "guard"} /\ place'[s] \in {"guard", "dropped"}
      BY <1>2, <2>7, <3>1 DEF Hangup, Disconnect
    <3>3. QED BY <2>5, <2>7, <3>2 DEF Hangup, taskVars
  <2>8. CASE UNCHANGED <<method, script, held, closes, place>>
    BY <2>5, <2>8
  <2>9. QED
    BY <2>1, <2>2, <2>3, <2>4, <2>6, <2>7, <2>8
    DEF Next, Unplug, Plug, Tick, vars, taskVars, sessVars
<1>4. QED BY <1>1, <1>3 DEF TidyInv

\* The next handle a task closes is open, and nothing is open on it any more.
LEMMA ClosesInOrder ==
  ASSUME TidyInv, NEW s \in Sids, closes[s] # <<>>
  PROVE  /\ Head(closes[s]) \in held[s]
         /\ Head(closes[s]) = "device" => held[s] \subseteq {"device"}
         /\ Head(closes[s]) = "application" => "container" \notin held[s]
<1>1. closes[s] = Unwind(held[s]) /\ held[s] \in SUBSET Kinds
  BY DEF TidyInv, Tidy, TaskTypeOK
<1>2. held[s] # {} BY <1>1, UnwindNothing
<1>3. QED BY <1>1, <1>2, UnwindStep

\* No handler but ImportKeyPair closes a handle twice, whether it holds guards or
\* writes its closes by hand, on any path and for any number of connections.
THEOREM HandlesClosedOnce ==
  ASSUME Requests \subseteq AllMethods \ {"ImportKeyPair", "Digest"}
  PROVE  Spec => []NoDoubleClose
<1>1. TidyInv => NoDoubleClose BY ClosesInOrder DEF NoDoubleClose
<1>2. TidyInv /\ [Next]_vars => TidyInv' BY TidyStep
<1>3. QED BY TidyInit, <1>1, <1>2, PTL DEF Spec

\* They close what was opened on a handle before the handle itself.
THEOREM ChildrenFirst ==
  ASSUME Requests \subseteq AllMethods \ {"ImportKeyPair", "Digest"}
  PROVE  Spec => []ChildrenClosedFirst
<1>1. TidyInv => ChildrenClosedFirst BY ClosesInOrder DEF ChildrenClosedFirst
<1>2. TidyInv /\ [Next]_vars => TidyInv' BY TidyStep
<1>3. QED BY TidyInit, <1>1, <1>2, PTL DEF Spec

\* At no moment is a handle open whose parent is not, in the loops of
\* FindCertificates and after a panic too.
THEOREM ParentsOutliveChildren ==
  ASSUME Requests \subseteq AllMethods \ {"ImportKeyPair", "Digest"}
  PROVE  Spec => []ParentsStayOpen
<1>1. TidyInv => ParentsStayOpen BY DEF TidyInv, Tidy, Upright, ParentsStayOpen
<1>2. TidyInv /\ [Next]_vars => TidyInv' BY TidyStep
<1>3. QED BY TidyInit, <1>1, <1>2, PTL DEF Spec

\* Nothing stays open after a request, however it ends: answered, failed half-way,
\* timed out and finished alone, or panicked.  A NUL in a name can break this only
\* in EnumContainer and SetLabel, which unwrap a name after they have connected.
THEOREM EverythingIsReleased ==
  ASSUME Requests \subseteq AllMethods \ {"ImportKeyPair", "Digest"},
         NulNames => Requests \cap {"EnumContainer", "SetLabel"} = {}
  PROVE  Spec => []NothingLeftOpen
<1>1. NoNameLeaks BY DEF NoNameLeaks, NameLeaks
<1>2. TidyInv => NothingLeftOpen
  <2> SUFFICES ASSUME TidyInv, NEW s \in Sids, Finished(s) \/ place[s] # "pool"
               PROVE  held[s] = {}
    BY DEF NothingLeftOpen
  <2>1. CASE Finished(s) BY <2>1, FinishedHoldsNothing
  <2>2. CASE place[s] # "pool"
    <3>1. place[s] \in {"unborn", "guard", "dropped"}
      BY <2>2 DEF TidyInv, StateInv, StateTypeOK, Places
    <3>2. QED BY <1>1, <3>1 DEF TidyInv, Tidy
  <2>3. QED BY <2>1, <2>2
<1>3. TidyInv /\ [Next]_vars => TidyInv' BY TidyStep
<1>4. QED BY TidyInit, <1>2, <1>3, PTL DEF Spec

=============================================================================
