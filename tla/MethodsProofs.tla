--------------------------- MODULE MethodsProofs ----------------------------
(***************************************************************************)
(* Facts about the handlers' scripts and about what dropping guards does.  *)
(***************************************************************************)
EXTENDS Methods, SequenceTheorems, TLAPS

\* The step constructors build steps.
LEMMA StepTypes ==
  /\ Prepare \in Steps
  /\ \A op \in Ops : Guarded(op) \in Steps
  /\ \A op \in Ops, cl \in Seq(Kinds) : Raw(op, cl) \in Steps /\ RawNamed(op, cl) \in Steps
  /\ RawConnect \in Steps
  /\ RawApplication \in Steps
<1>1. <<>> \in Seq(Kinds) /\ <<"device">> \in Seq(Kinds)
  BY DEF Kinds
<1>2. Prepare \in Steps
  BY <1>1 DEF Prepare, Steps, Ops
<1>3. \A op \in Ops : Guarded(op) \in Steps
  <2> TAKE op \in Ops
  <2>1. (op \in Finders) \in BOOLEAN OBVIOUS
  <2>2. QED BY <1>1, <2>1 DEF Guarded, Steps
<1>4. ASSUME NEW op \in Ops, NEW cl \in Seq(Kinds)
      PROVE  Raw(op, cl) \in Steps /\ RawNamed(op, cl) \in Steps
  BY DEF Raw, RawNamed, Steps
<1>5. RawNamed("open_device", <<>>) \in Steps
      /\ RawNamed("open_application", <<"device">>) \in Steps
  BY <1>1, <1>4 DEF Ops
<1>6. RawConnect \in Steps /\ RawApplication \in Steps
  BY <1>5 DEF RawConnect, RawApplication, RawNamed, Raw, Steps, Finders
<1>7. QED BY <1>2, <1>3, <1>4, <1>6

\* A handler of domain/, built from the steps of S.
LEMMA DomainScriptsOf ==
  ASSUME NEW S, NEW m \in GuardedMethods \ {"ConnectDev", "DigestInit"},
         Prepare \in S,
         \A op \in Ops \ {"scan", "keep"} : Guarded(op) \in S,
         m = "CreatePKCS10" => [Guarded("open_application") EXCEPT !.clears = FALSE] \in S
  PROVE  Scripts(m) \subseteq Seq(S)
<1>1. ToApplication \in Seq(S)
  BY DEF ToApplication, Ops
<1>2. ToContainer \in Seq(S)
  <2>1. <<Guarded("authorize"), Guarded("open_container")>> \in Seq(S)
    BY DEF Ops
  <2>2. QED BY <1>1, <2>1, ConcatProperties DEF ToContainer
<1>3. \A op \in Ops \ {"scan", "keep"} : <<Guarded(op)>> \in Seq(S)
  OBVIOUS
<1>4. \A a, b \in Ops \ {"scan", "keep"} : <<Guarded(a), Guarded(b)>> \in Seq(S)
  OBVIOUS
<1>5. \A x, y \in Seq(S) : x \o y \in Seq(S)
  BY ConcatProperties
<1>6. CASE m = "CreatePKCS10"
  <2> DEFINE begin == <<Prepare, Guarded("open_device"),
                        [Guarded("open_application") EXCEPT !.clears = FALSE],
                        Guarded("authorize")>>
             sign == <<Guarded("call"), Guarded("begin_digest"), Guarded("call"),
                       Guarded("call"), Guarded("call")>>
  <2>1. [Guarded("open_application") EXCEPT !.clears = FALSE] \in S BY <1>6
  <2>2. begin \in Seq(S)
    BY <2>1 DEF Ops
  <2>3. sign \in Seq(S)
    BY DEF Ops
  <2>4. {"try", "create_container", "create_or_open"} \subseteq Ops \ {"scan", "keep"}
    BY DEF Ops
  <2> HIDE DEF begin, sign
  <2>5. begin \o <<Guarded("create_or_open")>> \o sign \in Seq(S)
    BY <1>3, <1>5, <2>2, <2>3, <2>4
  <2>6. begin \o <<Guarded("try"), Guarded("create_container")>> \o sign \in Seq(S)
    BY <1>4, <1>5, <2>2, <2>3, <2>4
  <2>7. QED BY <1>6, <2>5, <2>6 DEF Scripts, CreatePKCS10, begin, sign
<1>7. CASE m # "CreatePKCS10"
  <2>1. /\ <<Guarded("verify_pin")>> \in Seq(S)
        /\ <<Guarded("call")>> \in Seq(S)
        /\ <<Guarded("try"), Guarded("call")>> \in Seq(S)
        /\ <<Guarded("call"), Guarded("call")>> \in Seq(S)
        /\ <<Guarded("authorize"), Guarded("create_container")>> \in Seq(S)
        /\ <<Guarded("open_container"), Guarded("call")>> \in Seq(S)
    BY <1>3, <1>4 DEF Ops
  <2>2. CheckPIN \subseteq Seq(S) BY <1>1, <1>5, <2>1 DEF CheckPIN
  <2>3. SignData \subseteq Seq(S) BY <1>2, <1>5, <2>1 DEF SignData
  <2>4. RSASignData \subseteq Seq(S) BY <1>2, <1>5, <2>1 DEF RSASignData
  <2>5. EncryptData \subseteq Seq(S) BY <1>2, <1>5, <2>1 DEF EncryptData
  <2>6. DecryptData \subseteq Seq(S) BY <1>2, <1>5, <2>1 DEF DecryptData
  <2>7. GenECCKeyPair \subseteq Seq(S) BY <1>2, <1>5, <2>1 DEF GenECCKeyPair
  <2>8. GenRSAKeyPair \subseteq Seq(S) BY <1>2, <1>5, <2>1 DEF GenRSAKeyPair
  <2>9. ImportCertificate \subseteq Seq(S) BY <1>2, <1>5, <2>1 DEF ImportCertificate
  <2>10. CreateContainer \subseteq Seq(S) BY <1>1, <1>5, <2>1 DEF CreateContainer
  <2>11. DeleteContainer \subseteq Seq(S) BY <1>1, <1>5, <2>1 DEF DeleteContainer
  <2>12. GetContainerType \subseteq Seq(S) BY <1>1, <1>5, <2>1 DEF GetContainerType
  <2>13. QED
    BY <1>7, <2>2, <2>3, <2>4, <2>5, <2>6, <2>7, <2>8, <2>9, <2>10, <2>11, <2>12
    DEF GuardedMethods, Scripts
<1>8. QED BY <1>6, <1>7

\* A handler that opens and closes with guards, built from the steps of S.
LEMMA GuardedScriptsOf ==
  ASSUME NEW S, NEW m \in GuardedMethods,
         Prepare \in S,
         \A op \in Ops \ {"scan"} : Guarded(op) \in S,
         m = "CreatePKCS10" => [Guarded("open_application") EXCEPT !.clears = FALSE] \in S,
         m \in {"ConnectDev", "DigestInit"} => LaxConnect \in S
  PROVE  Scripts(m) \subseteq Seq(S)
<1>1. CASE m \notin {"ConnectDev", "DigestInit"} BY <1>1, DomainScriptsOf
<1>2. CASE m \in {"ConnectDev", "DigestInit"}
  <2>1. /\ Prepare \in S /\ LaxConnect \in S /\ Guarded("begin_digest") \in S
        /\ Guarded("keep") \in S
    BY <1>2 DEF Ops
  <2>2. ConnectDev \subseteq Seq(S) /\ DigestInit \subseteq Seq(S)
    BY <2>1 DEF ConnectDev, DigestInit
  <2>3. QED BY <1>2, <2>2 DEF Scripts
<1>3. QED BY <1>1, <1>2

\* A missing application in CreatePKCS10, and a missing device in ConnectDev and
\* DigestInit, are steps like any other.
LEMMA LaxStepType ==
  /\ [Guarded("open_application") EXCEPT !.clears = FALSE] \in Steps
  /\ [Guarded("open_application") EXCEPT !.clears = FALSE] \in QuietSteps
  /\ LaxConnect \in Steps
  /\ LaxConnect \in QuietSteps
<1>1. Guarded("open_application") \in Steps /\ Guarded("open_device") \in Steps
  BY StepTypes DEF Ops
<1>2. [Guarded("open_application") EXCEPT !.clears = FALSE] \in Steps BY <1>1 DEF Steps
<1>3. LaxConnect \in Steps BY <1>1 DEF LaxConnect, Steps
<1>4. QED BY <1>2, <1>3 DEF Guarded, LaxConnect, QuietSteps

\* The scripts of the handlers under domain/ are sequences of steps.
LEMMA GuardedScripts ==
  ASSUME NEW m \in GuardedMethods
  PROVE  Scripts(m) \subseteq Seq(Steps)
  BY StepTypes, LaxStepType, GuardedScriptsOf

\* No handler under domain/ unwraps what a request sent it.
LEMMA GuardedScriptsQuiet ==
  ASSUME NEW m \in GuardedMethods
  PROVE  Scripts(m) \subseteq Seq(QuietSteps)
<1>1. Prepare \in QuietSteps BY StepTypes DEF Prepare, QuietSteps
<1>2. \A op \in Ops \ {"scan"} : Guarded(op) \in QuietSteps
  BY StepTypes DEF Guarded, QuietSteps
<1>3. QED BY <1>1, <1>2, LaxStepType, GuardedScriptsOf

\* All but these three note a device that is gone wherever they meet one.
LEMMA GuardedScriptsClear ==
  GuardedMethods \ {"CreatePKCS10", "ConnectDev", "DigestInit"} \subseteq ClearingMethods
<1> SUFFICES ASSUME NEW m \in GuardedMethods, m \notin {"CreatePKCS10", "ConnectDev", "DigestInit"}
             PROVE  Scripts(m) \subseteq Seq(ClearingSteps)
  BY DEF ClearingMethods, AllMethods
<1>1. Prepare \in ClearingSteps BY StepTypes DEF Prepare, ClearingSteps, Finders
<1>2. \A op \in Ops \ {"scan"} : Guarded(op) \in ClearingSteps
  BY StepTypes DEF Guarded, ClearingSteps
<1>3. QED BY <1>1, <1>2, GuardedScriptsOf

\* A handler that opens and closes by hand.
LEMMA RawScripts ==
  ASSUME NEW m \in RawMethods
  PROVE  Scripts(m) \subseteq Seq(Steps)
<1>1. /\ <<>> \in Seq(Kinds) /\ <<"device">> \in Seq(Kinds)
      /\ AppDev \in Seq(Kinds) /\ <<"container">> \in Seq(Kinds)
  BY DEF Kinds, AppDev
<1>2. AppDev \o AppDev \in Seq(Kinds) /\ <<"container">> \o AppDev \in Seq(Kinds)
  BY <1>1, ConcatProperties
<1>3. \A op \in Ops, cl \in Seq(Kinds) : Raw(op, cl) \in Steps /\ RawNamed(op, cl) \in Steps
  BY StepTypes
<1>4. /\ Prepare \in Steps /\ RawConnect \in Steps /\ RawApplication \in Steps
      /\ Raw("call", <<"device">>) \in Steps
      /\ Raw("call", <<>>) \in Steps
      /\ RawNamed("call", <<>>) \in Steps
      /\ RawNamed("call", <<"device">>) \in Steps
      /\ Raw("call", AppDev) \in Steps
      /\ Raw("load", <<>>) \in Steps
      /\ Raw("try", <<"device">>) \in Steps
      /\ Raw("scan", <<>>) \in Steps
      /\ Raw("begin_digest", <<"device">>) \in Steps
      /\ Raw("authorize", AppDev \o AppDev) \in Steps
      /\ RawNamed("open_container", AppDev) \in Steps
      /\ Raw("call", <<"container">> \o AppDev) \in Steps
  BY <1>1, <1>2, <1>3, StepTypes DEF Ops
<1>5. [Raw("load", <<>>) EXCEPT !.unwraps = "library"] \in Steps
  BY <1>4 DEF Steps
<1>6. [RawConnect EXCEPT !.clears = FALSE] \in Steps
  BY <1>4 DEF Steps
<1>7. OneCall \subseteq Seq(Steps) BY <1>4 DEF OneCall
<1>8. OneCallOwnLibrary \subseteq Seq(Steps) BY <1>4, <1>5 DEF OneCallOwnLibrary
<1>9. EnumApplication \subseteq Seq(Steps) BY <1>4 DEF EnumApplication
<1>10. EnumContainer \subseteq Seq(Steps) BY <1>4 DEF EnumContainer
<1>11. ImportKeyPair \subseteq Seq(Steps) BY <1>4 DEF ImportKeyPair
<1>12. Digest \subseteq Seq(Steps) BY <1>4 DEF Digest
<1>13. SetLabel \subseteq Seq(Steps) BY <1>4 DEF SetLabel
<1>14. DigestInitOther \subseteq Seq(Steps) BY <1>4, <1>6 DEF DigestInitOther
<1>15. FindCertificates \subseteq Seq(Steps) BY <1>4 DEF FindCertificates
<1>16. GetDevState \subseteq Seq(Steps) BY <1>4 DEF GetDevState
<1>17. EnumDevice \subseteq Seq(Steps) BY <1>4 DEF EnumDevice
<1>18. QED
  BY <1>7, <1>8, <1>9, <1>10, <1>11, <1>12, <1>13, <1>14, <1>15, <1>16, <1>17
  DEF RawMethods, Scripts, GetDevInfo, ECCVerify, LockDev, UnlockDev, Transmit, RSAVerify

\* What a request may run is always a sequence of steps.
LEMMA ScriptTypes ==
  ASSUME NEW m \in AllMethods
  PROVE  Scripts(m) \subseteq Seq(Steps)
  BY GuardedScripts, RawScripts DEF AllMethods

-----------------------------------------------------------------------------

\* Dropping one guard closes at most that handle.
LEMMA DropType ==
  ASSUME NEW k \in Kinds, NEW h PROVE Drop(k, h) \in Seq(Kinds)
  BY DEF Drop

\* Dropping the guards closes handles and nothing else.
LEMMA UnwindType == \A h : Unwind(h) \in Seq(Kinds)
<1> TAKE h
<1>1. /\ Drop("digest", h) \in Seq(Kinds) /\ Drop("container", h) \in Seq(Kinds)
      /\ Drop("application", h) \in Seq(Kinds) /\ Drop("device", h) \in Seq(Kinds)
  BY DropType DEF Kinds
<1>2. QED BY <1>1, ConcatProperties DEF Unwind

\* The first of a sequence of closes, and what is left after it.
LEMMA ConsHeadTail ==
  ASSUME NEW k \in Kinds, NEW t \in Seq(Kinds)
  PROVE  <<k>> \o t # <<>> /\ Head(<<k>> \o t) = k /\ Tail(<<k>> \o t) = t
<1> DEFINE u == <<k>> \o t
<1>1. <<k>> \in Seq(Kinds) /\ Len(<<k>>) = 1 /\ <<k>>[1] = k
  OBVIOUS
<1>2. /\ u \in Seq(Kinds) /\ Len(u) = 1 + Len(t)
      /\ \A i \in 1..(1 + Len(t)) : u[i] = IF i <= 1 THEN <<k>>[i] ELSE t[i - 1]
  BY <1>1, ConcatProperties
<1>3. Len(t) \in Nat BY LenProperties
<1> HIDE DEF u
<1>4. u # <<>> BY <1>2, <1>3
<1>5. Head(u) = k BY <1>1, <1>2, <1>3, <1>4
<1>6. Tail(u) \in Seq(Kinds) /\ Len(Tail(u)) = Len(t)
      /\ \A i \in 1..Len(Tail(u)) : Tail(u)[i] = u[i + 1]
  BY <1>2, <1>3, <1>4, HeadTailProperties
<1>7. Tail(u) = t BY <1>2, <1>3, <1>6, SeqEqual
<1>8. QED BY <1>4, <1>5, <1>7 DEF u

\* It closes all of them, each of them once, a parent after its children.
LEMMA UnwindStep ==
  ASSUME NEW h \in SUBSET Kinds, h # {}
  PROVE  /\ Unwind(h) # <<>>
         /\ Head(Unwind(h)) \in h
         /\ Tail(Unwind(h)) = Unwind(h \ {Head(Unwind(h))})
         /\ Head(Unwind(h)) = "device" => h \subseteq {"device"}
         /\ Head(Unwind(h)) = "application" => "container" \notin h
<1> DEFINE D(g) == Drop("device", g)
           A(g) == Drop("application", g) \o D(g)
           C(g) == Drop("container", g) \o A(g)
<1>1. \A g : D(g) \in Seq(Kinds) /\ A(g) \in Seq(Kinds) /\ C(g) \in Seq(Kinds)
  <2> TAKE g
  <2>1. /\ Drop("container", g) \in Seq(Kinds)
        /\ Drop("application", g) \in Seq(Kinds) /\ D(g) \in Seq(Kinds)
    BY DropType DEF Kinds
  <2>2. A(g) \in Seq(Kinds) BY <2>1, ConcatProperties
  <2>3. QED BY <2>1, <2>2, ConcatProperties
\* A guard that was never made leaves no trace.
<1>2. \A g, t : t \in Seq(Kinds) => <<>> \o t = t
  BY ConcatEmptySeq
<1>3. \A g : "digest" \notin g => Unwind(g) = C(g)
  BY <1>1, <1>2 DEF Unwind, Drop
<1>4. \A g : "container" \notin g => C(g) = A(g)
  BY <1>1, <1>2 DEF Drop
<1>5. \A g : "application" \notin g => A(g) = D(g)
  BY <1>1, <1>2 DEF Drop
\* One that was made comes first.
<1>6. \A g : "digest" \in g => Unwind(g) = <<"digest">> \o C(g)
  BY DEF Unwind, Drop
<1>7. \A g : "container" \in g => C(g) = <<"container">> \o A(g)
  BY DEF Drop
<1>8. \A g : "application" \in g => A(g) = <<"application">> \o D(g)
  BY DEF Drop
<1>9. D({"device"}) = <<"device">> /\ D({}) = <<>>
  BY DEF Drop
\* What is inside does not depend on what is outside.
<1>10. \A g : C(g \ {"digest"}) = C(g) /\ A(g \ {"container"}) = A(g)
  BY DEF Drop
<1>11. \A g : D(g \ {"application"}) = D(g)
  BY DEF Drop
<1> HIDE DEF A, C, D
<1>12. CASE "digest" \in h
  <2>1. Unwind(h \ {"digest"}) = C(h) BY <1>3, <1>10
  <2>2. /\ <<"digest">> \o C(h) # <<>> /\ Head(<<"digest">> \o C(h)) = "digest"
        /\ Tail(<<"digest">> \o C(h)) = C(h)
    BY <1>1, ConsHeadTail DEF Kinds
  <2>3. QED BY <1>6, <1>12, <2>1, <2>2
<1>13. CASE "digest" \notin h /\ "container" \in h
  <2>1. Unwind(h \ {"container"}) = A(h) BY <1>3, <1>4, <1>10, <1>13
  <2>2. /\ <<"container">> \o A(h) # <<>> /\ Head(<<"container">> \o A(h)) = "container"
        /\ Tail(<<"container">> \o A(h)) = A(h)
    BY <1>1, ConsHeadTail DEF Kinds
  <2>3. Unwind(h) = <<"container">> \o A(h) BY <1>3, <1>7, <1>13
  <2>4. QED BY <1>13, <2>1, <2>2, <2>3
<1>14. CASE "digest" \notin h /\ "container" \notin h /\ "application" \in h
  <2>1. Unwind(h \ {"application"}) = D(h) BY <1>3, <1>4, <1>5, <1>11, <1>14
  <2>2. /\ <<"application">> \o D(h) # <<>>
        /\ Head(<<"application">> \o D(h)) = "application"
        /\ Tail(<<"application">> \o D(h)) = D(h)
    BY <1>1, ConsHeadTail DEF Kinds
  <2>3. Unwind(h) = <<"application">> \o D(h) BY <1>3, <1>4, <1>8, <1>14
  <2>4. QED BY <1>14, <2>1, <2>2, <2>3
<1>15. CASE h = {"device"}
  <2>1. Unwind(h) = <<"device">> BY <1>3, <1>4, <1>5, <1>9, <1>15
  <2>2. h \ {"device"} = {} BY <1>15
  <2>3. Unwind({}) = <<>> BY <1>3, <1>4, <1>5, <1>9
  <2>4. <<"device">> # <<>> /\ Head(<<"device">>) = "device" /\ Tail(<<"device">>) = <<>>
    OBVIOUS
  <2>5. QED BY <1>15, <2>1, <2>2, <2>3, <2>4
<1>16. QED BY <1>12, <1>13, <1>14, <1>15 DEF Kinds

\* Nothing is closed when nothing is open.
LEMMA UnwindNothing == Unwind({}) = <<>>
  BY ConcatEmptySeq, EmptySeq DEF Unwind, Drop
\* What a handler closes by hand, when it is done well, is what dropping guards
\* for the same handles would close.
LEMMA UnwindValues ==
  /\ Unwind({"device"}) = <<"device">>
  /\ Unwind({"device", "application"}) = AppDev
<1>1. <<"device">> \in Seq(Kinds) /\ <<"application">> \in Seq(Kinds)
  BY DEF Kinds
<1>2. <<"application">> \o <<"device">> = <<"application", "device">>
  <2> DEFINE u == <<"application">> \o <<"device">>
             v == <<"application", "device">>
  <2>1. /\ u \in Seq(Kinds) /\ Len(u) = 2
        /\ \A i \in 1..2 : u[i] = IF i <= 1 THEN <<"application">>[i] ELSE <<"device">>[i - 1]
    BY <1>1, ConcatProperties
  <2>2. v \in Seq(Kinds) /\ Len(v) = 2 /\ v[1] = "application" /\ v[2] = "device"
    BY DEF Kinds
  <2> HIDE DEF u, v
  <2>3. u[1] = "application" /\ u[2] = "device" BY <2>1
  <2>4. \A i \in 1..2 : u[i] = v[i] BY <2>2, <2>3
  <2>5. u = v BY <2>1, <2>2, <2>4, SeqEqual
  <2>6. QED BY <2>5 DEF u, v
<1>3. <<>> \o (<<>> \o (<<>> \o <<"device">>)) = <<"device">>
  BY <1>1, ConcatEmptySeq
<1>4. AppDev \in Seq(Kinds) BY DEF AppDev, Kinds
<1>5. <<>> \o (<<>> \o AppDev) = AppDev
  BY <1>4, ConcatEmptySeq
<1>6. QED BY <1>2, <1>3, <1>5 DEF Unwind, Drop, AppDev

-----------------------------------------------------------------------------
(* How a script treats the handles, whatever the step it stops at. *)

\* What is open when step i of the script begins, if h is open before the script.
OpenBefore(h, sc, i) ==
  {k \in Kinds : k \in h \/ \E j \in 1..(i - 1) : k \in Opens(sc[j].op)}

\* Nothing is opened on a handle that is not open.
InOrder(h, sc) ==
  \A i \in 1..Len(sc) : \A k \in Opens(sc[i].op) : OpenedOn(k) \subseteq OpenBefore(h, sc, i)

\* Wherever the handler ends, its hand-written closes are those that guards would
\* have made; the last step opens nothing, none is retried in another way, and
\* nothing is kept.
ClosesAll(h, sc) ==
  \A i \in 1..Len(sc) :
    /\ sc[i].closes = Unwind(OpenBefore(h, sc, i))
    /\ i = Len(sc) => Opens(sc[i].op) = {}
    /\ sc[i].op \notin {"create_or_open", "keep"}

\* Handlers that unwrap a name of the request while they hold raw handles.
NameLeaks == {"EnumContainer", "SetLabel", "ImportKeyPair"}

\* Apart from those, an unwrap that fails finds nothing open.
UnwrapsEarly(m, h, sc) ==
  \A i \in 1..Len(sc) :
    \/ sc[i].unwraps = "nothing"
    \/ sc[i].unwraps = "name" /\ m \in NameLeaks
    \/ OpenBefore(h, sc, i) = {}

NoScan(sc) == \A i \in 1..Len(sc) : sc[i].op # "scan"

\* A handler that keeps what it opened does so when it has nothing else to do.
KeepsLast(sc) == \A i \in 1..Len(sc) : sc[i].op = "keep" => i = Len(sc)

\* The rest of the script of a handler of method m that holds h.
Fits(m, h, sc) ==
  IF m = "FindCertificates"
    THEN sc = <<Raw("scan", <<>>)>>
    ELSE /\ NoScan(sc)
         /\ KeepsLast(sc)
         /\ InOrder(h, sc)
         /\ UnwrapsEarly(m, h, sc)
         /\ m \in RawMethods => ClosesAll(h, sc)

\* Before the first step only h is open.
LEMMA OpenBeforeFirst ==
  ASSUME NEW h \in SUBSET Kinds, NEW sc PROVE OpenBefore(h, sc, 1) = h
<1>1. 1..(1 - 1) = {} OBVIOUS
<1>2. QED BY <1>1 DEF OpenBefore

\* When the first step is done, its handle is one of those that are open.
LEMMA OpenBeforeTail ==
  ASSUME NEW h \in SUBSET Kinds, NEW sc \in Seq(Steps), sc # <<>>,
         NEW i \in 1..Len(Tail(sc))
  PROVE  /\ Len(Tail(sc)) = Len(sc) - 1 /\ i + 1 \in 1..Len(sc)
         /\ Tail(sc)[i] = sc[i + 1]
         /\ OpenBefore(h \cup Opens(Head(sc).op), Tail(sc), i) = OpenBefore(h, sc, i + 1)
<1>1. /\ Len(sc) \in Nat /\ Len(Tail(sc)) = Len(sc) - 1 /\ Head(sc) = sc[1]
      /\ \A j \in 1..Len(Tail(sc)) : Tail(sc)[j] = sc[j + 1]
  BY HeadTailProperties, LenProperties
<1>2. i \in Nat /\ i + 1 \in 1..Len(sc) /\ Tail(sc)[i] = sc[i + 1] BY <1>1
<1>3. ASSUME NEW k
      PROVE  (k \in Opens(sc[1].op) \/ \E j \in 1..(i - 1) : k \in Opens(Tail(sc)[j].op))
               <=> \E j \in 1..i : k \in Opens(sc[j].op)
  <2>1. ASSUME NEW j \in 1..(i - 1), k \in Opens(Tail(sc)[j].op)
        PROVE  \E n \in 1..i : k \in Opens(sc[n].op)
    <3>1. j + 1 \in 1..i /\ Tail(sc)[j] = sc[j + 1] BY <1>1, <1>2
    <3>2. QED BY <2>1, <3>1
  <2>2. ASSUME NEW j \in 1..i, k \in Opens(sc[j].op), j # 1
        PROVE  \E n \in 1..(i - 1) : k \in Opens(Tail(sc)[n].op)
    <3>1. j - 1 \in 1..(i - 1) /\ Tail(sc)[j - 1] = sc[(j - 1) + 1] /\ (j - 1) + 1 = j
      BY <1>1, <1>2, <2>2
    <3>2. QED BY <2>2, <3>1
  <2>3. 1 \in 1..i BY <1>2
  <2>4. QED BY <2>1, <2>2, <2>3
<1>4. (i + 1) - 1 = i BY <1>2
<1>5. OpenBefore(h \cup Opens(Head(sc).op), Tail(sc), i) = OpenBefore(h, sc, i + 1)
  BY <1>1, <1>3, <1>4 DEF OpenBefore
<1>6. QED BY <1>1, <1>2, <1>5

\* A script that fits what is open still does when its first step is done and has
\* kept nothing.
LEMMA FitsTailOpens ==
  ASSUME NEW m, NEW h \in SUBSET Kinds, NEW sc \in Seq(Steps), sc # <<>>,
         m # "FindCertificates", Fits(m, h, sc)
  PROVE  Fits(m, h \cup Opens(Head(sc).op), Tail(sc))
<1> DEFINE g == h \cup Opens(Head(sc).op)
           n == Len(Tail(sc))
<1>1. /\ Len(Tail(sc)) = Len(sc) - 1 /\ Len(sc) \in Nat
  BY HeadTailProperties, LenProperties
<1>2. ASSUME NEW i \in 1..n
      PROVE  /\ i + 1 \in 1..Len(sc) /\ (i = n => i + 1 = Len(sc))
             /\ Tail(sc)[i] = sc[i + 1]
             /\ OpenBefore(g, Tail(sc), i) = OpenBefore(h, sc, i + 1)
  <2>1. /\ i + 1 \in 1..Len(sc) /\ Tail(sc)[i] = sc[i + 1]
        /\ OpenBefore(g, Tail(sc), i) = OpenBefore(h, sc, i + 1)
    BY OpenBeforeTail
  <2>2. i = n => i + 1 = Len(sc) BY <1>1
  <2>3. QED BY <2>1, <2>2
<1>3. /\ NoScan(sc) /\ KeepsLast(sc) /\ InOrder(h, sc) /\ UnwrapsEarly(m, h, sc)
      /\ m \in RawMethods => ClosesAll(h, sc)
  BY DEF Fits
<1> HIDE DEF g
<1>10. KeepsLast(Tail(sc))
  <2> SUFFICES ASSUME NEW i \in 1..n, Tail(sc)[i].op = "keep" PROVE i = n
    BY DEF KeepsLast
  <2>1. i + 1 = Len(sc) BY <1>2, <1>3 DEF KeepsLast
  <2>2. QED BY <1>1, <2>1
<1>4. NoScan(Tail(sc)) BY <1>2, <1>3 DEF NoScan
<1>5. InOrder(g, Tail(sc)) BY <1>2, <1>3 DEF InOrder
<1>6. UnwrapsEarly(m, g, Tail(sc)) BY <1>2, <1>3 DEF UnwrapsEarly
<1>7. m \in RawMethods => ClosesAll(g, Tail(sc)) BY <1>2, <1>3 DEF ClosesAll
<1>8. Fits(m, g, Tail(sc)) BY <1>4, <1>5, <1>6, <1>7, <1>10 DEF Fits
<1>9. QED BY <1>8 DEF g

\* A script that is done fits whatever is open.
LEMMA FitsNothing ==
  ASSUME NEW m, m # "FindCertificates", NEW h, NEW sc, Len(sc) = 0
  PROVE  Fits(m, h, sc)
<1>1. 1..0 = {} OBVIOUS
<1>2. QED BY <1>1 DEF Fits, NoScan, KeepsLast, InOrder, UnwrapsEarly, ClosesAll

\* A script that fits what is open still does when its first step is done.
LEMMA FitsTail ==
  ASSUME NEW m, NEW h \in SUBSET Kinds, NEW sc \in Seq(Steps), sc # <<>>,
         m # "FindCertificates", Fits(m, h, sc)
  PROVE  Fits(m, Holding(h, Head(sc).op), Tail(sc))
<1>1. CASE Head(sc).op # "keep" BY <1>1, FitsTailOpens DEF Holding
<1>2. CASE Head(sc).op = "keep"
  <2>1. /\ Len(sc) \in Nat \ {0} /\ Head(sc) = sc[1] /\ 1 \in 1..Len(sc)
        /\ Len(Tail(sc)) = Len(sc) - 1
    BY HeadTailProperties, LenProperties, EmptySeq
  <2>2. Len(sc) = 1 BY <1>2, <2>1 DEF Fits, KeepsLast
  <2>3. Len(Tail(sc)) = 1 - 1 BY <2>1, <2>2, Zenon
  <2>4. 1 - 1 = 0 OBVIOUS
  <2>5. Len(Tail(sc)) = 0 BY <2>3, <2>4, Zenon
  <2>6. QED BY <2>5, FitsNothing, Zenon
<1>3. QED BY <1>1, <1>2

\* Opening the container in place of creating it changes nothing about handles.
LEMMA FitsFallBack ==
  ASSUME NEW m \in GuardedMethods, NEW h \in SUBSET Kinds, NEW sc \in Seq(Steps), sc # <<>>,
         Head(sc).op = "create_or_open", Fits(m, h, sc)
  PROVE  Fits(m, h, <<Guarded("open_container")>> \o Tail(sc))
<1> DEFINE e == Guarded("open_container")
           u == <<e>> \o Tail(sc)
<1>1. e \in Steps /\ e.op = "open_container" /\ e.unwraps = "nothing"
  BY StepTypes DEF Ops, Guarded
<1>2. /\ Tail(sc) \in Seq(Steps) /\ Len(Tail(sc)) = Len(sc) - 1 /\ Len(sc) \in Nat
      /\ \A i \in 1..Len(Tail(sc)) : Tail(sc)[i] = sc[i + 1]
      /\ Head(sc) = sc[1] /\ Len(sc) # 0
  BY HeadTailProperties, LenProperties, EmptySeq
<1> HIDE DEF e
<1>3. <<e>> \in Seq(Steps) /\ Len(<<e>>) = 1 /\ <<e>>[1] = e BY <1>1
<1>4. /\ Len(u) = 1 + Len(Tail(sc))
      /\ \A i \in 1..(1 + Len(Tail(sc))) : u[i] = IF i <= 1 THEN <<e>>[i] ELSE Tail(sc)[i - 1]
  BY <1>2, <1>3, ConcatProperties
<1> HIDE DEF u
<1>5. Len(u) = Len(sc) /\ u[1] = e BY <1>2, <1>3, <1>4
<1>6. ASSUME NEW i \in 1..Len(sc), i # 1 PROVE u[i] = sc[i]
  <2>1. u[i] = Tail(sc)[i - 1] /\ i - 1 \in 1..Len(Tail(sc)) /\ (i - 1) + 1 = i
    BY <1>2, <1>4, <1>6
  <2>2. QED BY <1>2, <2>1
<1>7. \A i \in 1..Len(sc) : Opens(u[i].op) = Opens(sc[i].op)
  BY <1>1, <1>2, <1>5, <1>6 DEF Opens
<1>8. ASSUME NEW i \in 1..Len(sc) PROVE OpenBefore(h, u, i) = OpenBefore(h, sc, i)
  <2>1. \A j \in 1..(i - 1) : j \in 1..Len(sc) BY <1>2
  <2>2. QED BY <1>7, <2>1 DEF OpenBefore
<1>9. m # "FindCertificates" /\ m \notin RawMethods BY DEF GuardedMethods, RawMethods
<1>10. NoScan(sc) /\ KeepsLast(sc) /\ InOrder(h, sc) /\ UnwrapsEarly(m, h, sc)
  BY <1>9 DEF Fits
<1>11. NoScan(u) /\ KeepsLast(u) BY <1>1, <1>5, <1>6, <1>10 DEF NoScan, KeepsLast
<1>12. InOrder(h, u) BY <1>5, <1>7, <1>8, <1>10 DEF InOrder
<1>13. UnwrapsEarly(m, h, u) BY <1>1, <1>5, <1>6, <1>8, <1>10 DEF UnwrapsEarly
<1>14. Fits(m, h, u) BY <1>9, <1>11, <1>12, <1>13 DEF Fits
<1>15. QED BY <1>14 DEF u, e

\* The first step of a script that is not empty.
LEMMA FirstStep ==
  ASSUME NEW sc \in Seq(Steps), sc # <<>>
  PROVE  /\ Head(sc) = sc[1] /\ 1 \in 1..Len(sc)
         /\ Tail(sc) = <<>> => 1 = Len(sc)
<1>1. Len(sc) \in Nat \ {0} /\ Len(<<>>) = 0 BY EmptySeq
<1>2. Len(Tail(sc)) = Len(sc) - 1 BY HeadTailProperties
<1>3. Head(sc) = sc[1] OBVIOUS
<1>4. 1 \in 1..Len(sc) BY <1>1
<1>5. ASSUME Tail(sc) = <<>> PROVE 1 = Len(sc)
  <2> DEFINE n == Len(sc)
  <2>1. 0 = n - 1 BY <1>1, <1>2, <1>5, Zenon
  <2>2. n \in Nat BY <1>1
  <2> HIDE DEF n
  <2>3. 1 = n BY <2>1, <2>2
  <2>4. QED BY <2>3 DEF n
<1>6. QED BY <1>3, <1>4, <1>5

\* Only FindCertificates scans.
LEMMA FitsNoScan ==
  ASSUME NEW m, NEW h \in SUBSET Kinds, NEW sc \in Seq(Steps), sc # <<>>,
         m # "FindCertificates", Fits(m, h, sc)
  PROVE  Head(sc).op # "scan"
  BY FirstStep DEF Fits, NoScan

\* The next step opens nothing on a handle that is not open.
LEMMA FitsOpens ==
  ASSUME NEW m, NEW h \in SUBSET Kinds, NEW sc \in Seq(Steps), sc # <<>>,
         m # "FindCertificates", Fits(m, h, sc)
  PROVE  \A k \in Opens(Head(sc).op) : OpenedOn(k) \subseteq h
<1>1. OpenBefore(h, sc, 1) = h /\ InOrder(h, sc) BY OpenBeforeFirst DEF Fits
<1>2. QED BY <1>1, FirstStep DEF InOrder

\* A handler that unwraps what may fail holds nothing, or is one of NameLeaks.
LEMMA FitsUnwraps ==
  ASSUME NEW m, NEW h \in SUBSET Kinds, NEW sc \in Seq(Steps), sc # <<>>,
         m # "FindCertificates", Fits(m, h, sc)
  PROVE  \/ Head(sc).unwraps = "nothing"
         \/ Head(sc).unwraps = "name" /\ m \in NameLeaks
         \/ h = {}
<1>1. OpenBefore(h, sc, 1) = h /\ UnwrapsEarly(m, h, sc) BY OpenBeforeFirst DEF Fits
<1>2. QED BY <1>1, FirstStep DEF UnwrapsEarly

\* What is closed by hand is what guards would close.
LEMMA FitsCloses ==
  ASSUME NEW m \in RawMethods, NEW h \in SUBSET Kinds, NEW sc \in Seq(Steps), sc # <<>>,
         m # "FindCertificates", Fits(m, h, sc)
  PROVE  /\ Head(sc).closes = Unwind(h)
         /\ Tail(sc) = <<>> => Opens(Head(sc).op) = {}
         /\ Head(sc).op \notin {"create_or_open", "keep"}
<1>1. OpenBefore(h, sc, 1) = h /\ ClosesAll(h, sc) BY OpenBeforeFirst DEF Fits
<1>2. QED BY <1>1, FirstStep DEF ClosesAll

\* Only handlers under domain/ create a container or else open it.
LEMMA FitsByHand ==
  ASSUME NEW m \in AllMethods, NEW h \in SUBSET Kinds, NEW sc \in Seq(Steps), sc # <<>>,
         m # "FindCertificates", Fits(m, h, sc), Head(sc).op = "create_or_open"
  PROVE  m \in GuardedMethods
  BY FitsCloses DEF AllMethods

\* A handler that fits closes, wherever it ends, what guards would close.
LEMMA CleanupUnwinds ==
  ASSUME NEW m \in AllMethods, NEW h \in SUBSET Kinds, NEW sc \in Seq(Steps), sc # <<>>,
         m # "FindCertificates", Fits(m, h, sc)
  PROVE  /\ Cleanup(m, Head(sc), h) = Unwind(h)
         /\ Tail(sc) = <<>> =>
              Cleanup(m, Head(sc), Holding(h, Head(sc).op)) = Unwind(Holding(h, Head(sc).op))
<1>1. CASE m \in GuardedMethods
  BY <1>1 DEF Cleanup
<1>2. CASE m \notin GuardedMethods
  <2>1. m \in RawMethods BY <1>2 DEF AllMethods
  <2>2. /\ Head(sc).closes = Unwind(h) /\ (Tail(sc) = <<>> => Opens(Head(sc).op) = {})
        /\ Head(sc).op # "keep"
    BY <2>1, FitsCloses
  <2>3. h \cup {} = h OBVIOUS
  <2>4. QED BY <1>2, <2>2, <2>3 DEF Cleanup, Holding
<1>3. QED BY <1>1, <1>2

-----------------------------------------------------------------------------
(* Handles that are open together with what they were opened on. *)

Upright(h) == \A k \in h : OpenedOn(k) \subseteq h

\* A handle that is opened on an open one.
LEMMA UprightOpens ==
  ASSUME NEW h, Upright(h), NEW more, \A k \in more : OpenedOn(k) \subseteq h
  PROVE  Upright(h \cup more)
  BY DEF Upright

\* Closing in the order of the guards never closes what something is opened on.
LEMMA UprightCloses ==
  ASSUME NEW h \in SUBSET Kinds, Upright(h), h # {}
  PROVE  Upright(h \ {Head(Unwind(h))})
<1> DEFINE k == Head(Unwind(h))
<1>1. /\ k \in Kinds /\ (k = "device" => h \subseteq {"device"})
      /\ (k = "application" => "container" \notin h)
  BY UnwindStep
<1> HIDE DEF k
<1>2. ASSUME NEW x \in h, x # k PROVE k \notin OpenedOn(x)
  <2>1. x \in Kinds /\ x \in h OBVIOUS
  <2>2. OpenedOn(x) = IF x = "container" THEN {"application"}
                      ELSE IF x \in {"application", "digest"} THEN {"device"} ELSE {}
    BY DEF OpenedOn
  <2>3. CASE x = "container" BY <1>1, <1>2, <2>1, <2>2, <2>3
  <2>4. CASE x \in {"application", "digest"} BY <1>1, <1>2, <2>1, <2>2, <2>4
  <2>5. CASE x \notin {"container", "application", "digest"} BY <2>2, <2>5
  <2>6. QED BY <2>3, <2>4, <2>5
<1>3. \A x \in h \ {k} : OpenedOn(x) \subseteq h \ {k} BY <1>2 DEF Upright
<1>4. QED BY <1>3 DEF Upright, k

-----------------------------------------------------------------------------
(* The scripts fit when nothing is open yet. *)

\* A script that connects and opens the application before anything else.
LEMMA ApplicationFirst ==
  ASSUME NEW sc \in Seq(Steps), Len(sc) >= 3,
         sc[2].op = "open_device", sc[3].op = "open_application", Opens(sc[1].op) = {}
  PROVE  InOrder({}, sc)
<1> SUFFICES ASSUME NEW i \in 1..Len(sc), NEW k \in Opens(sc[i].op)
             PROVE  OpenedOn(k) \subseteq OpenBefore({}, sc, i)
  BY DEF InOrder
<1>1. Len(sc) \in Nat BY LenProperties
<1>2. OpenedOn(k) \subseteq {"device", "application"} BY DEF OpenedOn
<1>3. CASE i > 3
  <2>1. 2 \in 1..(i - 1) /\ 3 \in 1..(i - 1) BY <1>1, <1>3
  <2>2. "device" \in OpenBefore({}, sc, i) /\ "application" \in OpenBefore({}, sc, i)
    BY <2>1 DEF OpenBefore, Opens, Kinds
  <2>3. QED BY <1>2, <2>2
<1>4. CASE i = 3
  <2>1. 2 \in 1..(i - 1) BY <1>4
  <2>2. "device" \in OpenBefore({}, sc, i) BY <2>1 DEF OpenBefore, Opens, Kinds
  <2>3. k = "application" BY <1>4 DEF Opens
  <2>4. QED BY <2>2, <2>3 DEF OpenedOn
<1>5. CASE i = 2
  <2>1. k = "device" BY <1>5 DEF Opens
  <2>2. QED BY <2>1 DEF OpenedOn
<1>6. CASE i = 1 BY <1>6
<1>7. QED BY <1>1, <1>3, <1>4, <1>5, <1>6

\* What a handler under domain/ does first.
Begins(sc) ==
  /\ sc \in Seq(Steps)
  /\ Len(sc) >= 3
  /\ sc[1].op = "prepare" /\ sc[2].op = "open_device" /\ sc[3].op = "open_application"

\* More steps do not change how a handler begins.
LEMMA BeginsConcat ==
  ASSUME NEW a, Begins(a), NEW b \in Seq(Steps) PROVE Begins(a \o b)
<1>1. /\ a \in Seq(Steps) /\ Len(a) >= 3 /\ Len(a) \in Nat /\ Len(b) \in Nat
      /\ a[1].op = "prepare" /\ a[2].op = "open_device" /\ a[3].op = "open_application"
  BY LenProperties DEF Begins
<1>2. /\ a \o b \in Seq(Steps) /\ Len(a \o b) = Len(a) + Len(b)
      /\ \A i \in 1..(Len(a) + Len(b)) : (a \o b)[i] = IF i <= Len(a) THEN a[i] ELSE b[i - Len(a)]
  BY <1>1, ConcatProperties
<1>3. Len(a \o b) >= 3 BY <1>1, <1>2
<1>4. (a \o b)[1] = a[1] /\ (a \o b)[2] = a[2] /\ (a \o b)[3] = a[3]
  BY <1>1, <1>2
<1>5. QED BY <1>1, <1>2, <1>3, <1>4 DEF Begins

\* All of them connect to the device and open the application first.
LEMMA GuardedBegin ==
  ASSUME NEW m \in GuardedMethods \ {"ConnectDev", "DigestInit"}, NEW sc \in Scripts(m)
  PROVE  Begins(sc)
<1>1. Begins(ToApplication)
  <2>1. /\ Prepare \in Steps /\ Guarded("open_device") \in Steps
        /\ Guarded("open_application") \in Steps
    BY StepTypes DEF Ops
  <2>2. ToApplication \in Seq(Steps) /\ Len(ToApplication) = 3
    BY <2>1 DEF ToApplication
  <2>3. /\ ToApplication[1] = Prepare /\ ToApplication[2] = Guarded("open_device")
        /\ ToApplication[3] = Guarded("open_application")
    BY DEF ToApplication
  <2>4. QED BY <2>2, <2>3 DEF Begins, Prepare, Guarded
<1>2. \A op \in Ops : <<Guarded(op)>> \in Seq(Steps)
  BY StepTypes
<1>3. \A p, q \in Ops : <<Guarded(p), Guarded(q)>> \in Seq(Steps)
  <2> TAKE p \in Ops, q \in Ops
  <2>1. Guarded(p) \in Steps /\ Guarded(q) \in Steps BY StepTypes
  <2>2. QED BY <2>1
<1>4. {"call", "try", "verify_pin", "authorize", "open_container", "create_container",
       "create_or_open", "begin_digest"} \subseteq Ops
  BY DEF Ops
<1>5. Begins(ToContainer)
  BY <1>1, <1>3, <1>4, BeginsConcat DEF ToContainer
<1>6. \A b \in Seq(Steps) : Begins(ToApplication \o b) /\ Begins(ToContainer \o b)
  BY <1>1, <1>5, BeginsConcat
<1>7. CASE m = "CreatePKCS10"
  <2> DEFINE lax == [Guarded("open_application") EXCEPT !.clears = FALSE]
             begin == <<Prepare, Guarded("open_device"), lax, Guarded("authorize")>>
             sign == <<Guarded("call"), Guarded("begin_digest"), Guarded("call"),
                       Guarded("call"), Guarded("call")>>
  <2>1. /\ Prepare \in Steps /\ Guarded("open_device") \in Steps /\ lax \in Steps
        /\ Guarded("authorize") \in Steps /\ Guarded("call") \in Steps
        /\ Guarded("begin_digest") \in Steps
    BY StepTypes, LaxStepType DEF Ops
  <2>2. lax.op = "open_application" BY DEF Guarded
  <2>3. Begins(begin)
    <3> HIDE DEF lax
    <3>1. begin \in Seq(Steps) /\ Len(begin) = 4 BY <2>1
    <3>2. begin[1] = Prepare /\ begin[2] = Guarded("open_device") /\ begin[3] = lax
      OBVIOUS
    <3> HIDE DEF begin
    <3>3. QED BY <2>2, <3>1, <3>2 DEF Begins, Prepare, Guarded
  <2>4. sign \in Seq(Steps) BY <2>1
  <2> HIDE DEF begin, sign
  <2>5. Begins(begin \o <<Guarded("create_or_open")>> \o sign)
    BY <1>2, <1>4, <2>3, <2>4, BeginsConcat
  <2>6. Begins(begin \o <<Guarded("try"), Guarded("create_container")>> \o sign)
    BY <1>3, <1>4, <2>3, <2>4, BeginsConcat
  <2>7. QED BY <1>7, <2>5, <2>6 DEF Scripts, CreatePKCS10, begin, sign
<1>8. CASE m # "CreatePKCS10"
  <2>1. /\ <<Guarded("verify_pin")>> \in Seq(Steps)
        /\ <<Guarded("call")>> \in Seq(Steps)
        /\ <<Guarded("try"), Guarded("call")>> \in Seq(Steps)
        /\ <<Guarded("call"), Guarded("call")>> \in Seq(Steps)
        /\ <<Guarded("authorize"), Guarded("create_container")>> \in Seq(Steps)
        /\ <<Guarded("open_container"), Guarded("call")>> \in Seq(Steps)
    BY <1>2, <1>3, <1>4
  <2>2. \/ \E b \in Seq(Steps) : sc = ToApplication \o b
        \/ \E b \in Seq(Steps) : sc = ToContainer \o b
    <3>1. CASE m \in {"CheckPIN", "CreateContainer", "DeleteContainer", "GetContainerType"}
      BY <2>1, <3>1 DEF Scripts, CheckPIN, CreateContainer, DeleteContainer, GetContainerType
    <3>2. CASE m \in {"SignData", "RSASignData", "GenECCKeyPair", "GenRSAKeyPair", "ImportCertificate"}
      BY <2>1, <3>2
      DEF Scripts, SignData, RSASignData, GenECCKeyPair, GenRSAKeyPair, ImportCertificate
    <3>3. CASE m \in {"EncryptData", "DecryptData"}
      BY <2>1, <3>3 DEF Scripts, EncryptData, DecryptData
    <3>4. QED BY <1>8, <3>1, <3>2, <3>3 DEF GuardedMethods
  <2>3. QED BY <1>6, <2>2
<1>9. QED BY <1>7, <1>8

\* The two that keep what they open connect to the device first.
LEMMA KeptInOrder ==
  ASSUME NEW m \in {"ConnectDev", "DigestInit"}, NEW sc \in Scripts(m)
  PROVE  InOrder({}, sc) /\ KeepsLast(sc)
<1>1. /\ Prepare.op = "prepare" /\ LaxConnect.op = "open_device"
      /\ Guarded("begin_digest").op = "begin_digest" /\ Guarded("keep").op = "keep"
  BY DEF Prepare, LaxConnect, Guarded
<1>2. /\ Opens("prepare") = {} /\ Opens("keep") = {} /\ Opens("open_device") = {"device"}
      /\ Opens("begin_digest") = {"digest"}
  BY DEF Opens
<1>3. OpenedOn("device") = {} /\ OpenedOn("digest") = {"device"} BY DEF OpenedOn
<1>4. CASE m = "ConnectDev"
  <2>1. sc = <<Prepare, LaxConnect, Guarded("keep")>> BY <1>4 DEF Scripts, ConnectDev
  <2>2. Len(sc) = 3 /\ sc[1] = Prepare /\ sc[2] = LaxConnect /\ sc[3] = Guarded("keep")
    BY <2>1
  <2>3. \A i \in 1..Len(sc) : i = 1 \/ i = 2 \/ i = 3 BY <2>2
  <2>4. QED BY <1>1, <1>2, <1>3, <2>2, <2>3 DEF InOrder, KeepsLast
<1>5. CASE m = "DigestInit"
  <2>1. sc = <<Prepare, LaxConnect, Guarded("begin_digest"), Guarded("keep")>>
    BY <1>5 DEF Scripts, DigestInit
  <2>2. /\ Len(sc) = 4 /\ sc[1] = Prepare /\ sc[2] = LaxConnect
        /\ sc[3] = Guarded("begin_digest") /\ sc[4] = Guarded("keep")
    BY <2>1
  <2>3. \A i \in 1..Len(sc) : i = 1 \/ i = 2 \/ i = 3 \/ i = 4 BY <2>2
  <2>4. "device" \in OpenBefore({}, sc, 3)
    <3>1. 2 \in 1..(3 - 1) OBVIOUS
    <3>2. QED BY <1>1, <1>2, <2>2, <3>1 DEF OpenBefore, Kinds
  <2>5. QED BY <1>1, <1>2, <1>3, <2>2, <2>3, <2>4 DEF InOrder, KeepsLast
<1>6. QED BY <1>4, <1>5

\* Of the handlers with guards only those two keep anything.
LEMMA GuardedKeepsLast ==
  ASSUME NEW m \in GuardedMethods \ {"ConnectDev", "DigestInit"}, NEW sc \in Scripts(m)
  PROVE  KeepsLast(sc)
<1> DEFINE S == {st \in Steps : st.op # "keep"}
<1>1. Prepare \in S BY StepTypes DEF Prepare
<1>2. \A op \in Ops \ {"scan", "keep"} : Guarded(op) \in S BY StepTypes DEF Guarded
<1>3. [Guarded("open_application") EXCEPT !.clears = FALSE] \in S
  BY LaxStepType DEF Guarded
<1> HIDE DEF S
<1>4. sc \in Seq(S) BY <1>1, <1>2, <1>3, DomainScriptsOf
<1>5. \A i \in 1..Len(sc) : sc[i] \in S BY <1>4, ElementOfSeq
<1>6. QED BY <1>5 DEF S, KeepsLast

\* The handlers with guards open in order and unwrap nothing.
LEMMA GuardedFits ==
  ASSUME NEW m \in GuardedMethods, NEW sc \in Scripts(m)
  PROVE  Fits(m, {}, sc)
<1>2. sc \in Seq(QuietSteps) BY GuardedScriptsQuiet
<1>3. \A i \in 1..Len(sc) : sc[i] \in QuietSteps BY <1>2, ElementOfSeq
<1>4. InOrder({}, sc) /\ KeepsLast(sc)
  <2>1. CASE m \in {"ConnectDev", "DigestInit"} BY <2>1, KeptInOrder
  <2>2. CASE m \notin {"ConnectDev", "DigestInit"}
    <3>1. Begins(sc) BY <2>2, GuardedBegin
    <3>2. InOrder({}, sc) BY <3>1, ApplicationFirst DEF Begins, Opens
    <3>3. QED BY <2>2, <3>2, GuardedKeepsLast
  <2>3. QED BY <2>1, <2>2
<1>5. NoScan(sc) /\ UnwrapsEarly(m, {}, sc)
  BY <1>3 DEF QuietSteps, NoScan, UnwrapsEarly
<1>6. m # "FindCertificates" /\ m \notin RawMethods BY DEF GuardedMethods, RawMethods
<1>7. QED BY <1>4, <1>5, <1>6 DEF Fits

\* A handler that closes by hand keeps nothing.
LEMMA ByHandKeepsLast ==
  ASSUME NEW h, NEW sc, ClosesAll(h, sc) PROVE KeepsLast(sc)
  BY DEF ClosesAll, KeepsLast

\* A handler that opens nothing has nothing to close.
LEMMA NothingFits ==
  ASSUME NEW m \in RawMethods, m # "FindCertificates", NEW sc \in Seq(Steps),
         \A i \in 1..Len(sc) :
           /\ sc[i].op \notin {"scan", "keep"} /\ Opens(sc[i].op) = {}
           /\ sc[i].closes = <<>>
  PROVE  Fits(m, {}, sc)
<1>1. Len(sc) \in Nat BY LenProperties
<1>2. ASSUME NEW i \in 1..Len(sc) PROVE OpenBefore({}, sc, i) = {}
  <2>1. \A j \in 1..(i - 1) : j \in 1..Len(sc) BY <1>1
  <2>2. QED BY <2>1 DEF OpenBefore
<1>3. NoScan(sc) /\ InOrder({}, sc) BY DEF NoScan, InOrder
<1>4. UnwrapsEarly(m, {}, sc) BY <1>2 DEF UnwrapsEarly
<1>5. ClosesAll({}, sc)
  <2>1. Opens("create_or_open") # {} BY DEF Opens
  <2>2. QED BY <1>2, <2>1, UnwindNothing DEF ClosesAll
<1>6. QED BY <1>3, <1>4, <1>5, ByHandKeepsLast DEF Fits

\* A handler that connects at step d and opens nothing else disconnects after it.
LEMMA DeviceFits ==
  ASSUME NEW m \in RawMethods, m # "FindCertificates", NEW sc \in Seq(Steps),
         NEW d \in 1..Len(sc), d # Len(sc), sc[d].op = "open_device",
         \A i \in 1..Len(sc) :
           /\ sc[i].op \notin {"scan", "keep"}
           /\ i # d => Opens(sc[i].op) = {}
           /\ sc[i].closes = IF i <= d THEN <<>> ELSE <<"device">>
           /\ i > d => sc[i].unwraps = "nothing" \/ (sc[i].unwraps = "name" /\ m \in NameLeaks)
  PROVE  Fits(m, {}, sc)
<1>1. Len(sc) \in Nat BY LenProperties
<1>2. Opens(sc[d].op) = {"device"} BY DEF Opens
<1>3. ASSUME NEW i \in 1..Len(sc), i <= d PROVE OpenBefore({}, sc, i) = {}
  <2>1. \A j \in 1..(i - 1) : j \in 1..Len(sc) /\ j # d BY <1>1, <1>3
  <2>2. QED BY <2>1 DEF OpenBefore
<1>4. ASSUME NEW i \in 1..Len(sc), ~(i <= d) PROVE OpenBefore({}, sc, i) = {"device"}
  <2>1. d \in 1..(i - 1) /\ \A j \in 1..(i - 1) : j \in 1..Len(sc) BY <1>1, <1>4
  <2>2. \A k : (\E j \in 1..(i - 1) : k \in Opens(sc[j].op)) <=> k = "device"
    BY <1>2, <2>1
  <2>3. QED BY <2>2 DEF OpenBefore, Kinds
<1>5. NoScan(sc) BY DEF NoScan
<1>6. InOrder({}, sc)
  <2>1. OpenedOn("device") = {} BY DEF OpenedOn
  <2>2. QED BY <1>2, <2>1 DEF InOrder
<1>7. UnwrapsEarly(m, {}, sc)
  <2> SUFFICES ASSUME NEW i \in 1..Len(sc)
               PROVE  \/ sc[i].unwraps = "nothing"
                      \/ sc[i].unwraps = "name" /\ m \in NameLeaks
                      \/ OpenBefore({}, sc, i) = {}
    BY DEF UnwrapsEarly
  <2>1. i <= d \/ i > d BY <1>1
  <2>2. QED BY <1>3, <2>1
<1>8. ClosesAll({}, sc)
  <2> SUFFICES ASSUME NEW i \in 1..Len(sc)
               PROVE  /\ sc[i].closes = Unwind(OpenBefore({}, sc, i))
                      /\ i = Len(sc) => Opens(sc[i].op) = {}
                      /\ sc[i].op \notin {"create_or_open", "keep"}
    BY DEF ClosesAll
  <2>1. sc[i].closes = Unwind(OpenBefore({}, sc, i))
    BY <1>3, <1>4, UnwindNothing, UnwindValues
  <2>2. Opens("create_or_open") # {} BY DEF Opens
  <2>3. sc[i].op \notin {"create_or_open", "keep"} BY <2>2
  <2>4. QED BY <2>1, <2>3
<1>9. QED BY <1>5, <1>6, <1>7, <1>8, ByHandKeepsLast DEF Fits

\* The fields of the steps of hand-written handlers.
LEMMA RawFields ==
  /\ Prepare.op = "prepare" /\ Prepare.closes = <<>> /\ Prepare.unwraps = "nothing"
  /\ \A op, cl :
       /\ Raw(op, cl).op = op /\ Raw(op, cl).closes = cl /\ Raw(op, cl).unwraps = "nothing"
       /\ RawNamed(op, cl).op = op /\ RawNamed(op, cl).closes = cl
       /\ RawNamed(op, cl).unwraps = "name"
  /\ RawConnect.op = "open_device" /\ RawConnect.closes = <<>> /\ RawConnect.unwraps = "name"
  /\ RawApplication.op = "open_application" /\ RawApplication.closes = <<"device">>
  /\ RawApplication.unwraps = "name"
  /\ RawConnect.clears /\ RawApplication.clears
<1>1. Prepare.op = "prepare" /\ Prepare.closes = <<>> /\ Prepare.unwraps = "nothing"
  BY DEF Prepare
<1>2. ASSUME NEW op, NEW cl
      PROVE  /\ Raw(op, cl).op = op /\ Raw(op, cl).closes = cl /\ Raw(op, cl).unwraps = "nothing"
             /\ RawNamed(op, cl).op = op /\ RawNamed(op, cl).closes = cl
             /\ RawNamed(op, cl).unwraps = "name"
  BY DEF Raw, RawNamed
<1>3. /\ RawConnect.op = "open_device" /\ RawConnect.closes = <<>>
      /\ RawConnect.unwraps = "name" /\ RawConnect.clears
  BY DEF RawConnect, RawNamed, Raw
<1>4. /\ RawApplication.op = "open_application" /\ RawApplication.closes = <<"device">>
      /\ RawApplication.unwraps = "name" /\ RawApplication.clears
  BY DEF RawApplication, RawNamed, Raw
<1>5. QED BY <1>1, <1>2, <1>3, <1>4

\* EnumContainer closes both handles wherever it stops.
LEMMA EnumContainerFits ==
  ASSUME NEW sc \in EnumContainer PROVE Fits("EnumContainer", {}, sc)
<1>1. /\ sc \in Seq(Steps) /\ Len(sc) = 5 /\ sc[1] = Prepare /\ sc[2] = RawConnect
      /\ sc[3] = RawApplication /\ sc[4] = Raw("call", AppDev) /\ sc[5] = Raw("call", AppDev)
  <2>1. sc \in Seq(Steps)
    BY ScriptTypes DEF AllMethods, RawMethods, Scripts
  <2>2. sc = <<Prepare, RawConnect, RawApplication, Raw("call", AppDev), Raw("call", AppDev)>>
    BY DEF EnumContainer
  <2>3. QED BY <2>1, <2>2
<1>2. /\ sc[1].op = "prepare" /\ sc[2].op = "open_device" /\ sc[3].op = "open_application"
      /\ sc[4].op = "call" /\ sc[5].op = "call"
      /\ sc[1].closes = <<>> /\ sc[2].closes = <<>> /\ sc[3].closes = <<"device">>
      /\ sc[4].closes = AppDev /\ sc[5].closes = AppDev
      /\ \A i \in 1..5 : sc[i].unwraps \in {"nothing", "name"}
  <2>1. 1..5 = {1, 2, 3, 4, 5} OBVIOUS
  <2>2. QED BY <1>1, <2>1, RawFields
<1>3. /\ Opens(sc[1].op) = {} /\ Opens(sc[2].op) = {"device"}
      /\ Opens(sc[3].op) = {"application"} /\ Opens(sc[4].op) = {} /\ Opens(sc[5].op) = {}
  BY <1>2 DEF Opens
<1>4. /\ 1..(1 - 1) = {} /\ 1..(2 - 1) = {1} /\ 1..(3 - 1) = {1, 2}
      /\ 1..(4 - 1) = {1, 2, 3} /\ 1..(5 - 1) = {1, 2, 3, 4} /\ 1..5 = {1, 2, 3, 4, 5}
  OBVIOUS
<1>5. OpenBefore({}, sc, 1) = {} /\ OpenBefore({}, sc, 2) = {}
  BY <1>3, <1>4 DEF OpenBefore
<1>6. OpenBefore({}, sc, 3) = {"device"}
  BY <1>3, <1>4 DEF OpenBefore, Kinds
<1>7. OpenBefore({}, sc, 4) = {"device", "application"}
  BY <1>3, <1>4 DEF OpenBefore, Kinds
<1>8. OpenBefore({}, sc, 5) = {"device", "application"}
  BY <1>3, <1>4 DEF OpenBefore, Kinds
<1>9. InOrder({}, sc) BY <1>1, <1>2, <1>3, ApplicationFirst
<1>10. NoScan(sc) BY <1>1, <1>2, <1>4 DEF NoScan
<1>11. UnwrapsEarly("EnumContainer", {}, sc) BY <1>1, <1>2 DEF UnwrapsEarly, NameLeaks
<1>12. ClosesAll({}, sc)
  BY <1>1, <1>2, <1>3, <1>4, <1>5, <1>6, <1>7, <1>8, UnwindNothing, UnwindValues DEF ClosesAll
<1>13. QED BY <1>9, <1>10, <1>11, <1>12, ByHandKeepsLast DEF Fits

\* Every handler of main.rs but ImportKeyPair and Digest closes by hand what guards
\* would have closed.
LEMMA RawFits ==
  ASSUME NEW m \in RawMethods, m \notin {"ImportKeyPair", "Digest"}, NEW sc \in Scripts(m)
  PROVE  Fits(m, {}, sc)
<1> USE RawFields
<1>0. sc \in Seq(Steps) BY ScriptTypes DEF AllMethods
<1>1. /\ 1..2 = {1, 2} /\ 1..3 = {1, 2, 3} /\ 1..4 = {1, 2, 3, 4}
  OBVIOUS
<1>2. /\ Opens("prepare") = {} /\ Opens("call") = {} /\ Opens("load") = {} /\ Opens("try") = {}
  BY DEF Opens
<1>3. CASE m = "EnumContainer"
  BY <1>3, EnumContainerFits DEF Scripts
<1>4. CASE m = "FindCertificates"
  BY <1>4 DEF Scripts, FindCertificates, Fits
<1>5. CASE m \in {"GetDevState", "EnumDevice"}
  <2>1. /\ Len(sc) = 2 /\ sc[1] = Prepare
        /\ sc[2] = RawNamed("call", <<>>) \/ sc[2] = Raw("call", <<>>)
    BY <1>5 DEF Scripts, GetDevState, EnumDevice
  <2>2. QED BY <1>0, <1>1, <1>2, <1>5, <2>1, NothingFits
<1>6. CASE m \in {"GetDevInfo", "ECCVerify"}
  <2>1. /\ Len(sc) = 3 /\ sc[1] = Prepare /\ sc[2] = RawConnect
        /\ sc[3] = Raw("call", <<"device">>)
    BY <1>6 DEF Scripts, GetDevInfo, ECCVerify, OneCall
  <2>2. QED BY <1>0, <1>1, <1>2, <1>6, <2>1, DeviceFits
<1>7. CASE m \in {"LockDev", "UnlockDev", "Transmit", "RSAVerify"}
  <2> DEFINE load == [Raw("load", <<>>) EXCEPT !.unwraps = "library"]
  <2>1. /\ Len(sc) = 4 /\ sc[1] = Prepare /\ sc[2] = load /\ sc[3] = RawConnect
        /\ sc[4] = Raw("call", <<"device">>)
    BY <1>7 DEF Scripts, LockDev, UnlockDev, Transmit, RSAVerify, OneCallOwnLibrary
  <2>2. load.op = "load" /\ load.closes = <<>> BY DEF Raw
  <2> HIDE DEF load
  <2>3. QED BY <1>0, <1>1, <1>2, <1>7, <2>1, <2>2, DeviceFits
<1>8. CASE m = "EnumApplication"
  <2>1. /\ Len(sc) = 4 /\ sc[1] = Prepare /\ sc[2] = RawConnect
        /\ sc[3] = Raw("call", <<"device">>) /\ sc[4] = Raw("call", <<"device">>)
    BY <1>8 DEF Scripts, EnumApplication
  <2>2. QED BY <1>0, <1>1, <1>2, <1>8, <2>1, DeviceFits
<1>9. CASE m = "SetLabel"
  <2>1. /\ Len(sc) = 3 /\ sc[1] = Prepare /\ sc[2] = RawConnect
        /\ sc[3] = RawNamed("call", <<"device">>)
    BY <1>9 DEF Scripts, SetLabel
  <2>2. m \in NameLeaks BY <1>9 DEF NameLeaks
  <2>3. QED BY <1>0, <1>1, <1>2, <1>9, <2>1, <2>2, DeviceFits
<1>10. CASE m = "DigestInitOther"
  <2> DEFINE quiet == [RawConnect EXCEPT !.clears = FALSE]
  <2>1. Len(sc) = 3 /\ sc[1] = Prepare /\ sc[2] = quiet /\ sc[3] = Raw("try", <<"device">>)
    BY <1>10 DEF Scripts, DigestInitOther
  <2>2. quiet.op = "open_device" /\ quiet.closes = <<>>
    BY DEF RawConnect, RawNamed, Raw
  <2> HIDE DEF quiet
  <2>3. \A i \in 1..Len(sc) :
          /\ sc[i].op \notin {"scan", "keep"}
          /\ i # 2 => Opens(sc[i].op) = {}
          /\ sc[i].closes = IF i <= 2 THEN <<>> ELSE <<"device">>
          /\ i > 2 => sc[i].unwraps = "nothing"
    BY <1>1, <1>2, <2>1, <2>2
  <2>4. sc[2].op = "open_device" /\ 2 \in 1..Len(sc) /\ 2 # Len(sc) BY <2>1, <2>2
  <2>5. m \in RawMethods /\ m # "FindCertificates" BY <1>10
  <2> HIDE RawFields
  <2>6. QED BY <1>0, <2>3, <2>4, <2>5, DeviceFits
<1>11. QED
  BY <1>3, <1>4, <1>5, <1>6, <1>7, <1>8, <1>9, <1>10 DEF RawMethods

\* So, at its start, every handler but those two fits.
LEMMA ScriptsFit ==
  ASSUME NEW m \in AllMethods \ {"ImportKeyPair", "Digest"}, NEW sc \in Scripts(m)
  PROVE  Fits(m, {}, sc)
  BY GuardedFits, RawFits DEF AllMethods

-----------------------------------------------------------------------------

\* Every handler but these five drops the grants of a device wherever it fails to
\* open the device or its application.
LEMMA MethodsThatClear == AllMethods \ LaxMethods \subseteq ClearingMethods
<1>1. ASSUME NEW m \in RawMethods, m \notin {"DigestInitOther", "FindCertificates"}
      PROVE  Scripts(m) \subseteq Seq(ClearingSteps)
  <2>1. \A op \in Ops \ (Finders \cup {"scan"}), cl \in Seq(Kinds) :
          Raw(op, cl) \in ClearingSteps /\ RawNamed(op, cl) \in ClearingSteps
    BY StepTypes, RawFields DEF ClearingSteps
  <2>2. /\ <<>> \in Seq(Kinds) /\ <<"device">> \in Seq(Kinds) /\ AppDev \in Seq(Kinds)
        /\ <<"container">> \in Seq(Kinds)
    BY DEF Kinds, AppDev
  <2>3. AppDev \o AppDev \in Seq(Kinds) /\ <<"container">> \o AppDev \in Seq(Kinds)
    BY <2>2, ConcatProperties
  <2>4. {"call", "load", "begin_digest", "authorize", "open_container"}
          \subseteq Ops \ (Finders \cup {"scan"})
    BY DEF Ops, Finders
  <2>5. Prepare \in ClearingSteps
    BY StepTypes, RawFields DEF ClearingSteps, Finders
  <2>6. RawConnect \in ClearingSteps /\ RawApplication \in ClearingSteps
    BY StepTypes, RawFields DEF ClearingSteps
  <2>7. /\ Raw("call", <<>>) \in ClearingSteps /\ RawNamed("call", <<>>) \in ClearingSteps
        /\ Raw("call", <<"device">>) \in ClearingSteps
        /\ RawNamed("call", <<"device">>) \in ClearingSteps
        /\ Raw("call", AppDev) \in ClearingSteps
        /\ Raw("begin_digest", <<"device">>) \in ClearingSteps
        /\ Raw("load", <<>>) \in ClearingSteps
        /\ Raw("authorize", AppDev \o AppDev) \in ClearingSteps
        /\ RawNamed("open_container", AppDev) \in ClearingSteps
        /\ Raw("call", <<"container">> \o AppDev) \in ClearingSteps
    BY <2>1, <2>2, <2>3, <2>4
  <2>8. [Raw("load", <<>>) EXCEPT !.unwraps = "library"] \in ClearingSteps
    BY <2>7 DEF ClearingSteps, Steps
  <2>9. OneCall \subseteq Seq(ClearingSteps) BY <2>5, <2>6, <2>7 DEF OneCall
  <2>10. OneCallOwnLibrary \subseteq Seq(ClearingSteps)
    BY <2>5, <2>6, <2>7, <2>8 DEF OneCallOwnLibrary
  <2>11. EnumApplication \subseteq Seq(ClearingSteps) BY <2>5, <2>6, <2>7 DEF EnumApplication
  <2>12. EnumContainer \subseteq Seq(ClearingSteps) BY <2>5, <2>6, <2>7 DEF EnumContainer
  <2>13. ImportKeyPair \subseteq Seq(ClearingSteps) BY <2>5, <2>6, <2>7 DEF ImportKeyPair
  <2>14. Digest \subseteq Seq(ClearingSteps) BY <2>5, <2>6, <2>7 DEF Digest
  <2>15. SetLabel \subseteq Seq(ClearingSteps) BY <2>5, <2>6, <2>7 DEF SetLabel
  <2>16. GetDevState \subseteq Seq(ClearingSteps) BY <2>5, <2>7 DEF GetDevState
  <2>17. EnumDevice \subseteq Seq(ClearingSteps) BY <2>5, <2>7 DEF EnumDevice
  <2>18. QED
    BY <1>1, <2>9, <2>10, <2>11, <2>12, <2>13, <2>14, <2>15, <2>16, <2>17
    DEF RawMethods, Scripts, GetDevInfo, ECCVerify, LockDev, UnlockDev, Transmit, RSAVerify
<1>2. QED BY <1>1, GuardedScriptsClear DEF ClearingMethods, AllMethods, LaxMethods

=============================================================================
