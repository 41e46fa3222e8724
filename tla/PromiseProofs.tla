---------------------------- MODULE PromiseProofs ---------------------------
(***************************************************************************)
(* Gateway implements AuthPromise, for every set of connections, keys and  *)
(* requests: the initial states map to initial states, a successful        *)
(* CheckPIN is an Unlock, a passed check is a Use and every other step     *)
(* locks, ends work or stutters.                                           *)
(***************************************************************************)
EXTENDS GatewayPromise, GatewayProofs

PlainSteps == {st \in Steps : st.op # "scan"}

\* A check anywhere in a sequence is its first step or in the rest of it.
LEMMA ChecksHeadOrTail ==
  ASSUME NEW S, NEW sc \in Seq(S), sc # <<>>, Checks(sc)
  PROVE  Head(sc).op = "authorize" \/ Checks(Tail(sc))
<1>1. PICK i \in DOMAIN sc : sc[i].op = "authorize" BY DEF Checks
<1>2. i \in 1..Len(sc) /\ Len(sc) \in Nat OBVIOUS
<1>3. CASE i = 1
  BY <1>1, <1>3
<1>4. CASE i # 1
  <2>1. /\ Tail(sc) \in Seq(S) /\ Len(Tail(sc)) = Len(sc) - 1
        /\ \A j \in 1..Len(Tail(sc)) : Tail(sc)[j] = sc[j + 1]
    BY HeadTailProperties
  <2>2. i - 1 \in 1..Len(Tail(sc)) BY <1>2, <1>4, <2>1
  <2>3. Tail(sc)[i - 1].op = "authorize" BY <1>1, <1>2, <2>1, <2>2
  <2>4. i - 1 \in DOMAIN Tail(sc) BY <2>1, <2>2
  <2>5. QED BY <2>3, <2>4 DEF Checks
<1>5. QED BY <1>3, <1>4

\* A check stays ahead when steps are put before it.
LEMMA ChecksConcat ==
  ASSUME NEW S, NEW a \in Seq(S), NEW b \in Seq(S), Checks(a) \/ Checks(b)
  PROVE  Checks(a \o b)
<1>0. /\ a \o b \in Seq(S) /\ Len(a \o b) = Len(a) + Len(b)
      /\ \A i \in 1..(Len(a) + Len(b)) : (a \o b)[i] = IF i <= Len(a) THEN a[i] ELSE b[i - Len(a)]
      /\ Len(a) \in Nat /\ Len(b) \in Nat
      /\ DOMAIN (a \o b) = 1..Len(a \o b)
  BY ConcatProperties
<1>1. CASE Checks(a)
  <2>1. PICK i \in DOMAIN a : a[i].op = "authorize" BY <1>1 DEF Checks
  <2>2. i \in 1..(Len(a) + Len(b)) /\ i <= Len(a) BY <1>0
  <2>3. (a \o b)[i].op = "authorize" BY <1>0, <2>1, <2>2
  <2>4. QED BY <1>0, <2>2, <2>3 DEF Checks
<1>2. CASE Checks(b)
  <2>1. PICK i \in DOMAIN b : b[i].op = "authorize" BY <1>2 DEF Checks
  <2>2. i \in 1..Len(b) OBVIOUS
  <2>3. /\ i + Len(a) \in 1..(Len(a) + Len(b)) /\ ~(i + Len(a) <= Len(a))
        /\ (i + Len(a)) - Len(a) = i
    BY <1>0, <2>2
  <2>4. (a \o b)[i + Len(a)].op = "authorize" BY <1>0, <2>1, <2>3
  <2>5. QED BY <1>0, <2>3, <2>4 DEF Checks
<1>3. QED BY <1>1, <1>2

\* The prefixes of the handlers under domain/ that ask for a live grant.
LEMMA PrefixesCheck ==
  /\ ToApplication \in Seq(Steps) /\ ToContainer \in Seq(Steps) /\ Checks(ToContainer)
  /\ <<Guarded("authorize"), Guarded("create_container")>> \in Seq(Steps)
  /\ Checks(<<Guarded("authorize"), Guarded("create_container")>>)
<1>0. \A op \in Ops : Guarded(op) \in Steps BY StepTypes
<1>1. ToApplication \in Seq(Steps) BY <1>0, StepTypes DEF ToApplication, Ops
<1>2. \A op \in Ops : /\ <<Guarded("authorize"), Guarded(op)>> \in Seq(Steps)
                      /\ Checks(<<Guarded("authorize"), Guarded(op)>>)
  <2> SUFFICES ASSUME NEW op \in Ops
               PROVE  /\ <<Guarded("authorize"), Guarded(op)>> \in Seq(Steps)
                      /\ Checks(<<Guarded("authorize"), Guarded(op)>>)
    OBVIOUS
  <2> DEFINE u == <<Guarded("authorize"), Guarded(op)>>
  <2>1. u \in Seq(Steps) BY <1>0 DEF Ops
  <2>2. 1 \in DOMAIN u /\ u[1] = Guarded("authorize") OBVIOUS
  <2>3. u[1].op = "authorize" BY <2>2 DEF Guarded
  <2> HIDE DEF u
  <2>4. Checks(u) BY <2>2, <2>3 DEF Checks
  <2>5. QED BY <2>1, <2>4 DEF u
<1>3. ToContainer \in Seq(Steps) /\ Checks(ToContainer)
  <2>1. /\ <<Guarded("authorize"), Guarded("open_container")>> \in Seq(Steps)
        /\ Checks(<<Guarded("authorize"), Guarded("open_container")>>)
    BY <1>2 DEF Ops
  <2>2. QED BY <1>1, <2>1, ChecksConcat, ConcatProperties DEF ToContainer
<1>4. QED BY <1>1, <1>2, <1>3 DEF Ops
-----------------------------------------------------------------------------
(* Every script of a method that needs the PIN asks for it. *)

\* CreatePKCS10 asks before it creates or opens anything.
LEMMA CreateChecks ==
  ASSUME NEW sc \in CreatePKCS10 PROVE Checks(sc)
<1> DEFINE lax == [Guarded("open_application") EXCEPT !.clears = FALSE]
           begin == <<Prepare, Guarded("open_device"), lax, Guarded("authorize")>>
           sign == <<Guarded("call"), Guarded("begin_digest"), Guarded("call"),
                     Guarded("call"), Guarded("call")>>
           one == <<Guarded("create_or_open")>>
           two == <<Guarded("try"), Guarded("create_container")>>
<1>0. (\A op \in Ops : Guarded(op) \in Steps) /\ Prepare \in Steps /\ lax \in Steps
  BY StepTypes, LaxStepType
<1> HIDE DEF lax
<1>1. /\ begin \in Seq(Steps) /\ sign \in Seq(Steps)
      /\ one \in Seq(Steps) /\ two \in Seq(Steps)
  BY <1>0 DEF Ops
<1>2. Checks(begin)
  <2>1. 4 \in DOMAIN begin /\ begin[4] = Guarded("authorize") OBVIOUS
  <2>2. begin[4].op = "authorize" BY <2>1 DEF Guarded
  <2> HIDE DEF begin
  <2>3. QED BY <2>1, <2>2 DEF Checks
<1>3. sc = begin \o one \o sign \/ sc = begin \o two \o sign
  BY DEF CreatePKCS10, lax
<1> HIDE DEF begin, sign, one, two
<1>4. /\ begin \o one \in Seq(Steps) /\ Checks(begin \o one)
      /\ begin \o two \in Seq(Steps) /\ Checks(begin \o two)
  BY <1>1, <1>2, ChecksConcat, ConcatProperties
<1>5. QED BY <1>1, <1>3, <1>4, ChecksConcat

\* ImportKeyPair, written by hand in main.rs, asks too, and scans nothing.
LEMMA ImportChecks ==
  ASSUME NEW sc \in ImportKeyPair PROVE Checks(sc) /\ sc \in Seq(PlainSteps)
<1>0. sc = <<Prepare, RawConnect, RawApplication, Raw("authorize", AppDev \o AppDev),
             RawNamed("open_container", AppDev), Raw("call", <<"container">> \o AppDev)>>
  BY DEF ImportKeyPair
<1>1. AppDev \in Seq(Kinds) /\ <<"container">> \in Seq(Kinds) BY DEF AppDev, Kinds
<1>2. AppDev \o AppDev \in Seq(Kinds) /\ <<"container">> \o AppDev \in Seq(Kinds)
  BY <1>1, ConcatProperties
<1>3. /\ Raw("authorize", AppDev \o AppDev) \in PlainSteps
      /\ RawNamed("open_container", AppDev) \in PlainSteps
      /\ Raw("call", <<"container">> \o AppDev) \in PlainSteps
  <2>1. /\ Raw("authorize", AppDev \o AppDev) \in Steps
        /\ RawNamed("open_container", AppDev) \in Steps
        /\ Raw("call", <<"container">> \o AppDev) \in Steps
    BY <1>1, <1>2, StepTypes DEF Ops
  <2>2. \A op, cl : Raw(op, cl).op = op /\ RawNamed(op, cl).op = op BY DEF Raw, RawNamed
  <2>3. QED BY <2>1, <2>2 DEF PlainSteps
<1>4. Prepare \in PlainSteps /\ RawConnect \in PlainSteps /\ RawApplication \in PlainSteps
  <2>1. Prepare.op # "scan" /\ RawConnect.op # "scan" /\ RawApplication.op # "scan"
    BY DEF Prepare, RawConnect, RawApplication, RawNamed, Raw
  <2>2. QED BY <2>1, StepTypes DEF PlainSteps
<1>5. sc \in Seq(PlainSteps) BY <1>0, <1>3, <1>4
<1>6. 4 \in DOMAIN sc /\ sc[4] = Raw("authorize", AppDev \o AppDev) BY <1>0
<1>7. sc[4].op = "authorize" BY <1>6 DEF Raw
<1>8. QED BY <1>5, <1>6, <1>7 DEF Checks

\* Whatever a request for one of these methods says, its handler asks for a live
\* grant on the way, and it opens nothing it was not told to.
LEMMA PinMethodsCheck ==
  ASSUME NEW m \in PinMethods, NEW sc \in Scripts(m)
  PROVE  Checks(sc) /\ sc \in Seq(PlainSteps)
<1>0. \A op \in Ops : Guarded(op) \in Steps BY StepTypes
<1>1. CASE m = "ImportKeyPair"
  BY <1>1, ImportChecks DEF Scripts
<1>2. CASE m # "ImportKeyPair"
  <2>1. m \in GuardedMethods BY <1>2 DEF PinMethods, GuardedMethods
  <2>2. sc \in Seq(QuietSteps) BY <2>1, GuardedScriptsQuiet
  <2>3. QuietSteps \subseteq PlainSteps BY DEF QuietSteps, PlainSteps
  <2>4. sc \in Seq(PlainSteps) BY <2>2, <2>3
  <2>5. CASE m = "CreatePKCS10"
    BY <2>4, <2>5, CreateChecks DEF Scripts
  <2>6. CASE m = "CreateContainer"
    <3>1. sc = ToApplication \o <<Guarded("authorize"), Guarded("create_container")>>
      BY <2>6 DEF Scripts, CreateContainer
    <3>2. QED BY <2>4, <3>1, PrefixesCheck, ChecksConcat
  <2>7. CASE m \notin {"CreatePKCS10", "CreateContainer"}
    <3> DEFINE c1 == <<Guarded("call")>>
               c2 == <<Guarded("call"), Guarded("call")>>
               c3 == <<Guarded("try"), Guarded("call")>>
    <3>1. c1 \in Seq(Steps) /\ c2 \in Seq(Steps) /\ c3 \in Seq(Steps) BY <1>0 DEF Ops
    <3>2. sc = ToContainer \o c1 \/ sc = ToContainer \o c2 \/ sc = ToContainer \o c3
      BY <1>2, <2>7
      DEF PinMethods, Scripts, SignData, RSASignData, EncryptData, DecryptData,
          GenECCKeyPair, GenRSAKeyPair, ImportCertificate
    <3> HIDE DEF c1, c2, c3
    <3>3. QED BY <2>4, <3>1, <3>2, PrefixesCheck, ChecksConcat
  <2>8. QED BY <2>5, <2>6, <2>7
<1>3. QED BY <1>1, <1>2
-----------------------------------------------------------------------------
(* The invariant: a task that needs the PIN keeps the key it was given, for *)
(* only a scan goes from key to key.                                        *)

KeyFixed == \A s \in Sids : method[s] \in PinMethods => script[s] \in Seq(PlainSteps)

PromiseInv == AuthInv /\ KeyFixed

\* PromiseInv holds when the process starts.
LEMMA PromiseInvInit == Init => PromiseInv
<1> SUFFICES ASSUME Init PROVE PromiseInv
  OBVIOUS
<1>1. AuthInv BY AuthInit
<1>2. KeyFixed BY EmptySeq DEF Init, KeyFixed
<1>3. QED BY <1>1, <1>2 DEF PromiseInv

\* What is left of a plain script is plain.
LEMMA PlainTail ==
  ASSUME TaskTypeOK, KeyFixed, NEW s \in Sids, script[s] # <<>>, method[s] \in PinMethods
  PROVE  /\ script[s] \in Seq(PlainSteps)
         /\ Tail(script[s]) \in Seq(PlainSteps)
         /\ Step(s).op # "scan"
<1>1. script[s] \in Seq(PlainSteps) BY DEF KeyFixed
<1>2. Head(script[s]) \in PlainSteps /\ Tail(script[s]) \in Seq(PlainSteps)
  BY <1>1, HeadTailProperties
<1>3. QED BY <1>1, <1>2 DEF Step, PlainSteps

\* KeyFixed is kept by every step.
LEMMA KeyFixedStep == TaskTypeOK /\ KeyFixed /\ [Next]_vars => KeyFixed'
<1> SUFFICES ASSUME TaskTypeOK, KeyFixed, [Next]_vars, NEW s \in Sids,
                    method'[s] \in PinMethods
             PROVE  script'[s] \in Seq(PlainSteps)
  BY DEF KeyFixed
<1>0. /\ method \in [Sids -> AllMethods \cup {None}] /\ script \in [Sids -> Seq(Steps)]
      /\ <<>> \in Seq(PlainSteps)
  BY EmptySeq DEF TaskTypeOK
<1>01. None \notin PinMethods
  BY NoneAssumption DEF PinMethods, AllMethods, GuardedMethods, RawMethods
<1>1. ASSUME NEW t \in Sids, TaskStep(t) PROVE script'[s] \in Seq(PlainSteps)
  <2>1. CASE StepSucceeds(t) \/ VerifyPin(t) \/ Authorize(t)
    <3>1. /\ script[t] # <<>> /\ script' = [script EXCEPT ![t] = Tail(@)] /\ method' = method
      BY <2>1 DEF StepSucceeds, VerifyPin, Authorize, Running, Advance
    <3>2. QED BY <1>0, <3>1, PlainTail DEF KeyFixed
  <2>2. CASE StepFails(t) \/ Reject(t) \/ ScanEnds(t)
    <3>1. script' = [script EXCEPT ![t] = <<>>] /\ method' = method
      BY <2>2 DEF StepFails, Reject, ScanEnds, Return
    <3>2. QED BY <1>0, <3>1 DEF KeyFixed
  <2>3. CASE FallBackToOpen(t)
    <3>1. /\ script[t] # <<>> /\ method' = method
          /\ script' = [script EXCEPT ![t] = <<Guarded("open_container")>> \o Tail(@)]
      BY <2>3 DEF FallBackToOpen, Running
    <3>2. Guarded("open_container") \in PlainSteps
      BY StepTypes DEF PlainSteps, Guarded, Ops
    <3>3. <<Guarded("open_container")>> \in Seq(PlainSteps) BY <3>2
    <3>4. CASE s = t
      <4>1. Tail(script[t]) \in Seq(PlainSteps) BY <3>1, <3>4, PlainTail
      <4>2. <<Guarded("open_container")>> \o Tail(script[t]) \in Seq(PlainSteps)
        BY <3>3, <4>1, ConcatProperties
      <4>3. QED BY <1>0, <3>1, <3>4, <4>2
    <3>5. CASE s # t
      BY <1>0, <3>1, <3>5 DEF KeyFixed
    <3>6. QED BY <3>4, <3>5
  <2>4. CASE StepPanics(t) \/ AbandonedEnds(t)
    <3>1. method' = [method EXCEPT ![t] = None]
      BY <2>4 DEF StepPanics, AbandonedEnds
    <3>2. s # t BY <1>0, <1>01, <3>1
    <3>3. script'[s] = script[s]
      BY <1>0, <2>4, <3>2 DEF StepPanics, AbandonedEnds
    <3>4. QED BY <1>0, <3>1, <3>2, <3>3 DEF KeyFixed
  <2>5. CASE CloseHandle(t) \/ ScanOpens(t) \/ ScanMisses(t) \/ ScanCloses(t)
    BY <2>5 DEF CloseHandle, ScanOpens, ScanMisses, ScanCloses, KeyFixed, taskVars
  <2>6. QED BY <1>1, <2>1, <2>2, <2>3, <2>4, <2>5 DEF TaskStep
<1>2. ASSUME NEW c \in Conns, Dispatch(c) PROVE script'[s] \in Seq(PlainSteps)
  <2>1. PICK m \in Requests : /\ method' = [method EXCEPT ![cur[c]] = m]
                              /\ \E sc \in Scripts(m) : script' = [script EXCEPT ![cur[c]] = sc]
    BY <1>2 DEF Dispatch
  <2>2. PICK sc \in Scripts(m) : script' = [script EXCEPT ![cur[c]] = sc] BY <2>1
  <2>3. CASE s = cur[c]
    BY <1>0, <2>1, <2>2, <2>3, PinMethodsCheck
  <2>4. CASE s # cur[c]
    BY <1>0, <2>1, <2>2, <2>4 DEF KeyFixed
  <2>5. QED BY <2>3, <2>4
<1>3. ASSUME NEW c \in Conns, Reply(c) PROVE script'[s] \in Seq(PlainSteps)
  BY <1>0, <1>01, <1>3 DEF Reply, KeyFixed
<1>4. CASE UNCHANGED <<method, script>>
  BY <1>4 DEF KeyFixed
<1>5. QED
  BY <1>1, <1>2, <1>3, <1>4
  DEF Next, Connect, Abandon, Hangup, Unplug, Plug, Tick, vars, taskVars

\* PromiseInv is kept by every step.
LEMMA PromiseInvStep == PromiseInv /\ [Next]_vars => PromiseInv'
  BY AuthStep, KeyFixedStep DEF PromiseInv, AuthInv
-----------------------------------------------------------------------------
(* What each step does to the work in progress and to what is unlocked. *)

\* Nothing but the arrival of a request puts a state on a task.
LEMMA PoolStep ==
  ASSUME StateInv, [Next]_vars, NEW s \in Sids, place'[s] = "pool"
  PROVE  place[s] = "pool" \/ \E c \in Conns : cur[c] = s /\ Dispatch(c)
<1>0. place \in [Sids -> Places] BY DEF StateInv, StateTypeOK
<1>1. ASSUME NEW c \in Conns, Dispatch(c)
      PROVE  place[s] = "pool" \/ \E d \in Conns : cur[d] = s /\ Dispatch(d)
  BY <1>0, <1>1 DEF Dispatch, TakeState
<1>2. ASSUME NEW c \in Conns, Reply(c) \/ Abandon(c) \/ Hangup(c) \/ Connect(c)
      PROVE  place[s] = "pool"
  BY <1>0, <1>2
  DEF Reply, PutState, Abandon, TimeOut, Hangup, Disconnect, Connect, Admit, Refuse,
      HandshakeFails, Create
<1>3. ASSUME NEW t \in Sids, StepPanics(t) \/ AbandonedEnds(t) PROVE place[s] = "pool"
  BY <1>0, <1>3 DEF StepPanics, AbandonedEnds, OrphanEnds, TaskPanics
<1>4. CASE UNCHANGED place
  BY <1>4
<1>5. QED
  BY <1>1, <1>2, <1>3, <1>4
  DEF Next, TaskStep, StepSucceeds, StepFails, FallBackToOpen, VerifyPin, Authorize, Reject,
      CloseHandle, ScanOpens, ScanMisses, ScanCloses, ScanEnds, Unplug, Plug, Tick,
      vars, sessVars

\* The work of a task with s is not new.
StillPast(s) == PastCheck(s) /\ key'[s] = key[s] /\ owner'[s] = owner[s]

\* No step of a task but Authorize takes it past its check.
LEMMA PastStep ==
  ASSUME PromiseInv, [Next]_vars, NEW s \in Sids, ~Authorize(s), PastCheck(s)'
  PROVE  StillPast(s)
<1>0. /\ StateInv /\ TaskTypeOK /\ KeyFixed
      /\ method \in [Sids -> AllMethods \cup {None}] /\ script \in [Sids -> Seq(Steps)]
      /\ key \in [Sids -> Keys \cup {None}] /\ cur \in [Conns -> Sids \cup {NoSid}]
      /\ place \in [Sids -> Places]
  BY DEF PromiseInv, AuthInv, TaskTypeOK, StateInv, StateTypeOK
<1>1. /\ place'[s] = "pool" /\ script'[s] # <<>> /\ method'[s] \in PinMethods
      /\ ~Checks(script'[s])
  BY DEF PastCheck, Running
<1>2. ASSUME NEW c \in Conns, cur[c] = s, Dispatch(c) PROVE FALSE
  <2>1. PICK m \in Requests : /\ method' = [method EXCEPT ![cur[c]] = m]
                              /\ \E sc \in Scripts(m) : script' = [script EXCEPT ![cur[c]] = sc]
    BY <1>2 DEF Dispatch
  <2>2. PICK sc \in Scripts(m) : script' = [script EXCEPT ![cur[c]] = sc] BY <2>1
  <2>3. m \in PinMethods /\ ~Checks(sc) BY <1>0, <1>1, <1>2, <2>1, <2>2
  <2>4. QED BY <2>3, PinMethodsCheck
<1>3. place[s] = "pool" BY <1>0, <1>1, <1>2, PoolStep
<1>4. owner'[s] = owner[s] BY <1>0, <1>3, NextIsSessNext, OwnerStep DEF OwnerKept
<1>5. CASE method'[s] = method[s] /\ script'[s] = script[s] /\ key'[s] = key[s]
  BY <1>1, <1>3, <1>4, <1>5 DEF StillPast, PastCheck, Running
<1>6. CASE StepSucceeds(s) \/ VerifyPin(s)
  <2>1. /\ script[s] # <<>> /\ script'[s] = Tail(script[s]) /\ method' = method /\ key' = key
        /\ Step(s).op # "authorize"
    BY <1>0, <1>6 DEF StepSucceeds, VerifyPin, Running, Advance
  <2>2. ~Checks(script[s]) BY <1>0, <1>1, <2>1, ChecksHeadOrTail DEF Step
  <2>3. QED BY <1>1, <1>3, <1>4, <2>1, <2>2 DEF StillPast, PastCheck, Running
<1>7. CASE FallBackToOpen(s)
  <2>1. /\ script[s] # <<>> /\ method' = method /\ key' = key
        /\ script'[s] = <<Guarded("open_container")>> \o Tail(script[s])
        /\ Step(s).op = "create_or_open"
    BY <1>0, <1>7 DEF FallBackToOpen, Running
  <2>2. Tail(script[s]) \in Seq(Steps) /\ <<Guarded("open_container")>> \in Seq(Steps)
    BY <1>0, <2>1, StepType, StepTypes DEF Ops
  <2>3. ~Checks(Tail(script[s])) BY <1>1, <2>1, <2>2, ChecksConcat
  <2>4. ~Checks(script[s]) BY <1>0, <2>1, <2>3, ChecksHeadOrTail DEF Step
  <2>5. QED BY <1>1, <1>3, <1>4, <2>1, <2>4 DEF StillPast, PastCheck, Running
<1>8. CASE StepFails(s) \/ Reject(s) \/ ScanEnds(s) \/ StepPanics(s)
  <2>1. script'[s] = <<>>
    BY <1>0, <1>8 DEF StepFails, Reject, ScanEnds, Return, StepPanics
  <2>2. QED BY <1>1, <2>1
<1>9. CASE ScanOpens(s)
  <2>1. method'[s] = method[s] /\ script[s] # <<>> /\ Step(s).op = "scan"
    BY <1>9 DEF ScanOpens, Scanning, Running
  <2>2. QED BY <1>0, <1>1, <2>1, PlainTail
<1>10. CASE AbandonedEnds(s)
  BY <1>0, <1>1, <1>10 DEF AbandonedEnds, Finished
<1>11. ASSUME NEW t \in Sids, TaskStep(t), t # s
       PROVE  method'[s] = method[s] /\ script'[s] = script[s] /\ key'[s] = key[s]
  BY <1>0, <1>11
  DEF TaskStep, StepSucceeds, StepFails, FallBackToOpen, VerifyPin, Authorize, Reject,
      CloseHandle, StepPanics, ScanOpens, ScanMisses, ScanCloses, ScanEnds, AbandonedEnds,
      Advance, Return, taskVars
<1>12. CASE CloseHandle(s) \/ ScanMisses(s) \/ ScanCloses(s)
  BY <1>5, <1>12 DEF CloseHandle, ScanMisses, ScanCloses, taskVars
<1>13. ASSUME NEW c \in Conns, Dispatch(c), cur[c] # s
       PROVE  method'[s] = method[s] /\ script'[s] = script[s] /\ key'[s] = key[s]
  BY <1>0, <1>13 DEF Dispatch
<1>14. ASSUME NEW c \in Conns, Reply(c) PROVE StillPast(s)
  <2>1. CASE cur[c] = s
    BY <1>0, <1>1, <1>14, <2>1 DEF Reply, Finished
  <2>2. CASE cur[c] # s
    <3>1. method'[s] = method[s] /\ script'[s] = script[s] /\ key'[s] = key[s]
      BY <1>0, <1>14, <2>2 DEF Reply
    <3>2. QED BY <1>5, <3>1
  <2>3. QED BY <2>1, <2>2
<1>15. CASE UNCHANGED taskVars
  BY <1>5, <1>15 DEF taskVars
<1>16. ASSUME NEW t \in Sids, TaskStep(t) PROVE StillPast(s)
  <2>1. CASE t # s BY <1>5, <1>11, <1>16, <2>1
  <2>2. CASE t = s
    BY <1>6, <1>7, <1>8, <1>9, <1>10, <1>12, <1>16, <2>2 DEF TaskStep
  <2>3. QED BY <2>1, <2>2
<1>17. ASSUME NEW c \in Conns, Dispatch(c) PROVE StillPast(s)
  BY <1>2, <1>5, <1>13, <1>17
<1>18. QED
  BY <1>14, <1>15, <1>16, <1>17
  DEF Next, Connect, Abandon, Hangup, Unplug, Plug, Tick, vars
\* Both mapped variables always have the type the promise gives them.
LEMMA MappedTypes ==
  /\ Unlocked \in [Conns -> SUBSET Keys] /\ InUse \in [Conns -> SUBSET Keys]
  /\ Unlocked' \in [Conns -> SUBSET Keys] /\ InUse' \in [Conns -> SUBSET Keys]
  BY DEF Unlocked, InUse

\* A live grant was live before the step, unless a CheckPIN made it.
LEMMA UnlockedShrinks ==
  ASSUME PromiseInv, [Next]_vars, \A t \in Sids : ~VerifyPin(t), NEW c \in Conns
  PROVE  Unlocked'[c] \subseteq Unlocked[c]
<1> SUFFICES ASSUME NEW k \in Unlocked'[c] PROVE k \in Unlocked[c]
  OBVIOUS
<1>0. StateInv /\ TaskTypeOK /\ UnbornEmpty BY DEF PromiseInv, AuthInv
<1>1. PICK s \in Sids : owner'[s] = c /\ grants'[s][k] > now'
  BY DEF Unlocked, Unexpired
<1>2. k \in Keys BY DEF Unlocked
<1>3. now \in Nat /\ now <= now' /\ now' \in Nat /\ grants[s] \in [Keys -> Nat]
  <2>1. now \in Nat /\ grants[s] \in [Keys -> Nat] BY <1>0, AuthNumbers
  <2>2. now' = now \/ now' = now + 1
    BY DEF Next, TaskStep, StepSucceeds, StepFails, FallBackToOpen, VerifyPin, Authorize,
           Reject, CloseHandle, StepPanics, ScanOpens, ScanMisses, ScanCloses, ScanEnds,
           AbandonedEnds, Connect, Dispatch, Reply, Abandon, Hangup, Unplug, Plug, Tick,
           vars, envVars
  <2>3. QED BY <2>1, <2>2
<1>4. grants'[s][k] \in {grants[s][k], 0} BY <1>0, <1>2, GrantsShrink DEF Shrinks
<1>5. grants[s][k] > now BY <1>1, <1>2, <1>3, <1>4
<1>6. place[s] # "unborn" BY <1>0, <1>2, <1>3, <1>5 DEF UnbornEmpty
<1>7. owner[s] = c BY <1>0, <1>1, <1>6, NextIsSessNext, OwnerStep DEF OwnerKept
<1>8. QED BY <1>2, <1>5, <1>7 DEF Unlocked, Unexpired

\* A CheckPIN unlocks one application, for the connection of its task.
LEMMA UnlockedByPin ==
  ASSUME PromiseInv, NEW t \in Sids, VerifyPin(t), NEW c \in Conns, NEW k \in Unlocked'[c]
  PROVE  k \in Unlocked[c] \/ (owner[t] = c /\ key[t] = k)
<1>0. grants \in [Sids -> Tables] /\ (\A s \in Sids : grants[s] \in [Keys -> Nat])
  BY AuthNumbers DEF PromiseInv, AuthInv, TaskTypeOK
<1>1. PICK s \in Sids : owner'[s] = c /\ grants'[s][k] > now'
  BY DEF Unlocked, Unexpired
<1>2. k \in Keys BY DEF Unlocked
<1>3. /\ owner' = owner /\ now' = now
      /\ grants' = [grants EXCEPT ![t] = [grants[t] EXCEPT ![key[t]] = now + TTL]]
  BY DEF VerifyPin, GrantKey, sessVars, envVars
<1>4. CASE s = t /\ k = key[t]
  BY <1>1, <1>3, <1>4
<1>5. CASE ~(s = t /\ k = key[t])
  <2>1. grants'[s][k] = grants[s][k] BY <1>0, <1>2, <1>3, <1>5
  <2>2. QED BY <1>1, <1>2, <1>3, <2>1 DEF Unlocked, Unexpired
<1>6. QED BY <1>4, <1>5

\* A step of one task leaves the work of the others where it is.
LEMMA OthersKeep ==
  ASSUME PromiseInv, NEW t \in Sids, VerifyPin(t) \/ Authorize(t),
         NEW s \in Sids, s # t, PastCheck(s)'
  PROVE  StillPast(s)
<1>1. script \in [Sids -> Seq(Steps)] BY DEF PromiseInv, AuthInv, TaskTypeOK
<1>2. script'[s] = script[s] /\ method' = method /\ key' = key /\ place' = place /\ owner' = owner
  BY <1>1 DEF VerifyPin, Authorize, Advance, sessVars
<1>3. QED BY <1>2 DEF StillPast, PastCheck, Running

\* Work in progress was in progress before the step, unless a passed check of
\* this task began it.
LEMMA InUseFrom ==
  ASSUME NEW c \in Conns, NEW k \in InUse'[c],
         \A s \in Sids : PastCheck(s)' => StillPast(s)
  PROVE  k \in InUse[c]
<1>1. PICK s \in Sids : owner'[s] = c /\ key'[s] = k /\ PastCheck(s)' /\ k \in Keys
  BY DEF InUse
<1>2. PastCheck(s) /\ key[s] = k /\ owner[s] = c BY <1>1 DEF StillPast
<1>3. QED BY <1>1, <1>2 DEF InUse

\* A live grant of the state a task carries is what its connection has unlocked.
LEMMA AuthorizeUnlocked ==
  ASSUME PromiseInv, NEW s \in Sids, Authorize(s)
  PROVE  owner[s] \in Conns /\ key[s] \in Keys /\ key[s] \in Unlocked[owner[s]]
<1>1. owner[s] \in Conns /\ key[s] \in Keys
  BY DEF Authorize, Running, PromiseInv, AuthInv, Owned, KeyKnown
<1>2. Unexpired(s, key[s]) BY DEF Authorize, Authorized, Unexpired
<1>3. QED BY <1>1, <1>2 DEF Unlocked

\* A successful CheckPIN is an Unlock.
LEMMA VerifyIsUnlock ==
  ASSUME PromiseInv, [Next]_vars, NEW t \in Sids, VerifyPin(t)
  PROVE  Promise!Unlock(owner[t], key[t]) /\ owner[t] \in Conns /\ key[t] \in Keys
<1>1. owner[t] \in Conns /\ key[t] \in Keys
  BY DEF VerifyPin, Running, PromiseInv, AuthInv, Owned, KeyKnown
<1>2. \A c \in Conns : \A k \in Unlocked'[c] : k \in Unlocked[c] \/ (owner[t] = c /\ key[t] = k)
  BY UnlockedByPin
<1>3. \A s \in Sids : PastCheck(s)' => StillPast(s)
  <2> SUFFICES ASSUME NEW s \in Sids, PastCheck(s)' PROVE StillPast(s)
    OBVIOUS
  <2>1. CASE s # t BY <2>1, OthersKeep
  <2>2. CASE s = t
    <3>1. ~Authorize(s) BY <2>2 DEF VerifyPin, Authorize
    <3>2. QED BY <3>1, PastStep
  <2>3. QED BY <2>1, <2>2
<1>4. \A c \in Conns : \A k \in InUse'[c] : k \in InUse[c] BY <1>3, InUseFrom
<1>5. Promise!Within(Unlocked', Promise!Plus(Unlocked, owner[t], key[t]))
  BY <1>1, <1>2, MappedTypes DEF Promise!Within, Promise!Plus
<1>6. Promise!Within(InUse', InUse) BY <1>4, MappedTypes DEF Promise!Within
<1>7. QED BY <1>1, <1>5, <1>6 DEF Promise!Unlock

\* A passed check is a Use.
LEMMA AuthorizeIsUse ==
  ASSUME PromiseInv, [Next]_vars, \A s \in Sids : ~VerifyPin(s), NEW t \in Sids, Authorize(t)
  PROVE  Promise!Use(owner[t], key[t]) /\ owner[t] \in Conns /\ key[t] \in Keys
<1>1. owner[t] \in Conns /\ key[t] \in Keys /\ key[t] \in Unlocked[owner[t]]
  BY AuthorizeUnlocked
<1>2. \A c \in Conns : Unlocked'[c] \subseteq Unlocked[c] BY UnlockedShrinks
<1>3. \A c \in Conns : \A k \in InUse'[c] : k \in InUse[c] \/ (owner[t] = c /\ key[t] = k)
  <2> SUFFICES ASSUME NEW c \in Conns, NEW k \in InUse'[c]
               PROVE  k \in InUse[c] \/ (owner[t] = c /\ key[t] = k)
    OBVIOUS
  <2>1. PICK s \in Sids : owner'[s] = c /\ key'[s] = k /\ PastCheck(s)' /\ k \in Keys
    BY DEF InUse
  <2>2. CASE s # t
    <3>1. PastCheck(s) /\ key[s] = k /\ owner[s] = c BY <2>1, <2>2, OthersKeep DEF StillPast
    <3>2. QED BY <2>1, <3>1 DEF InUse
  <2>3. CASE s = t
    BY <2>1, <2>3 DEF Authorize, Advance, sessVars
  <2>4. QED BY <2>2, <2>3
<1>4. Promise!Within(Unlocked', Unlocked) BY <1>2, MappedTypes DEF Promise!Within
<1>5. Promise!Within(InUse', Promise!Plus(InUse, owner[t], key[t]))
  BY <1>1, <1>3, MappedTypes DEF Promise!Within, Promise!Plus
<1>6. QED BY <1>1, <1>4, <1>5 DEF Promise!Use

\* Every step of the gateway is a step of the promise.
LEMMA PromiseStep == PromiseInv /\ [Next]_vars => Promise!PromiseNext
<1> SUFFICES ASSUME PromiseInv, [Next]_vars PROVE Promise!PromiseNext
  OBVIOUS
<1>1. ASSUME NEW t \in Sids, VerifyPin(t) PROVE Promise!PromiseNext
  BY <1>1, VerifyIsUnlock DEF Promise!PromiseNext
<1>2. ASSUME \A s \in Sids : ~VerifyPin(s), NEW t \in Sids, Authorize(t)
      PROVE  Promise!PromiseNext
  BY <1>2, AuthorizeIsUse DEF Promise!PromiseNext
<1>3. CASE \A s \in Sids : ~VerifyPin(s) /\ ~Authorize(s)
  <2>1. \A c \in Conns : Unlocked'[c] \subseteq Unlocked[c] BY <1>3, UnlockedShrinks
  <2>2. \A c \in Conns : \A k \in InUse'[c] : k \in InUse[c] BY <1>3, PastStep, InUseFrom
  <2>3. Promise!Within(Unlocked', Unlocked) /\ Promise!Within(InUse', InUse)
    BY <2>1, <2>2, MappedTypes DEF Promise!Within
  <2>4. QED BY <2>3 DEF Promise!PromiseNext, Promise!Relax
<1>4. QED BY <1>1, <1>2, <1>3

\* Nothing is unlocked and nothing at work when the process starts.
LEMMA PromiseStart == Init => Promise!PromiseInit
<1> SUFFICES ASSUME Init PROVE Promise!PromiseInit
  OBVIOUS
<1>1. \A s \in Sids, k \in Keys : ~Unexpired(s, k)
  BY DEF Init, Unexpired, NoGrants
<1>2. \A s \in Sids : ~PastCheck(s) BY DEF Init, PastCheck, Running
<1>3. Unlocked = [c \in Conns |-> {}] BY <1>1 DEF Unlocked
<1>4. InUse = [c \in Conns |-> {}] BY <1>2 DEF InUse
<1>5. QED BY <1>3, <1>4 DEF Promise!PromiseInit

\* The refinement, for every number of connections, keys and requests: no
\* interleaving of handlers, timeouts, late tasks, lost devices and expiring
\* grants lets a client work with a private key it has not unlocked itself.
THEOREM GatewayKeepsPromise == Spec => KeepsPromise
<1>1. Spec => []PromiseInv BY PromiseInvInit, PromiseInvStep, PTL DEF Spec
<1>2. QED
  BY <1>1, PromiseStart, PromiseStep, PTL
  DEF Spec, KeepsPromise, Promise!PromiseSpec
=============================================================================
