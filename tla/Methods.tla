------------------------------ MODULE Methods -------------------------------
(***************************************************************************)
(* What each request handler does to the token, to its own native handles  *)
(* and to the session's grants, as a sequence of steps.                    *)
(*                                                                         *)
(* A handler runs its steps in order.  A step that fails (or that answers  *)
(* early, such as an empty enumeration) ends the handler.  A step records  *)
(*   op      what is done,                                                 *)
(*   closes  the handles the code closes, in that order, when the handler  *)
(*           ends at this step, or after it when it is the last one,       *)
(*   clears  whether a failure drops the session's grants for the device,  *)
(*   unwraps what the code unwraps just before it: a name that must hold no *)
(*           NUL, a library that must load, or nothing.                    *)
(* "try" is a step that cannot end the handler early; neither can "keep",  *)
(* which moves the open guards into the handle table of the session, where *)
(* SessionHandles follows them.                                            *)
(*                                                                         *)
(* The handlers under domain/ hold their handles in guards: they close     *)
(* nothing explicitly, and Unwind says what dropping the guards does.  The *)
(* handlers of main.rs that were not migrated call the vendor library with *)
(* raw handles and write every close by hand, so theirs are transcribed.   *)
(***************************************************************************)
EXTENDS Sequences

Kinds == {"device", "application", "container", "digest"}

Ops == {"prepare", "load", "open_device", "open_application", "verify_pin",
        "authorize", "open_container", "create_container", "create_or_open",
        "begin_digest", "call", "keep", "try", "scan"}

\* The steps at which a handler learns that the device is not available.
Finders == {"open_device", "open_application"}

\* Only these clear grants: device_unavailable is called nowhere else.
Steps ==
  {st \in [op : Ops, closes : Seq(Kinds), clears : BOOLEAN,
           unwraps : {"nothing", "name", "library"}] :
     st.clears => st.op \in Finders}

\* The handle a successful step adds.
Opens(op) ==
  CASE op = "open_device" -> {"device"}
    [] op = "open_application" -> {"application"}
    [] op \in {"open_container", "create_container", "create_or_open"} -> {"container"}
    [] op = "begin_digest" -> {"digest"}
    [] OTHER -> {}

\* What the handler itself holds after a successful step.
Holding(held, op) == IF op = "keep" THEN {} ELSE held \cup Opens(op)

\* The handle that a handle of this kind was opened on.
OpenedOn(kind) ==
  CASE kind = "container" -> {"application"}
    [] kind \in {"application", "digest"} -> {"device"}
    [] OTHER -> {}

-----------------------------------------------------------------------------
(* Handlers of domain/: guards. *)

\* Dropping one guard, if it was ever made.
Drop(kind, held) == IF kind \in held THEN <<kind>> ELSE <<>>

\* Guards are dropped in the reverse order of their declaration, and each one
\* keeps its parent alive, so a child is always closed before its parent.
Unwind(held) ==
  Drop("digest", held)
    \o (Drop("container", held) \o (Drop("application", held) \o Drop("device", held)))

\* Parameters are parsed and the alias resolved before the first vendor call.
Prepare ==
  [op |-> "prepare", closes |-> <<>>, clears |-> FALSE, unwraps |-> "nothing"]

\* A step of a guarded handler; note_device_unavailable is called when the
\* device or the application cannot be opened.
Guarded(op) ==
  [op |-> op, closes |-> <<>>, clears |-> op \in Finders,
   unwraps |-> "nothing"]

ToApplication == <<Prepare, Guarded("open_device"), Guarded("open_application")>>

\* The steps of a handler that needs the PIN before it touches a container.
ToContainer == ToApplication \o <<Guarded("authorize"), Guarded("open_container")>>

CheckPIN == {ToApplication \o <<Guarded("verify_pin")>>}

\* The container type is asked for, and guessed when that fails.
SignData == {ToContainer \o <<Guarded("try"), Guarded("call")>>}

RSASignData == {ToContainer \o <<Guarded("call")>>}

\* With a key in the request it is set first.
EncryptData == {ToContainer \o <<Guarded("call")>>,
                ToContainer \o <<Guarded("call"), Guarded("call")>>}

DecryptData == {ToContainer \o <<Guarded("call")>>,
                ToContainer \o <<Guarded("call"), Guarded("call")>>}

GenECCKeyPair == {ToContainer \o <<Guarded("call")>>}

GenRSAKeyPair == {ToContainer \o <<Guarded("call")>>}

ImportCertificate == {ToContainer \o <<Guarded("call")>>}

CreateContainer ==
  {ToApplication \o <<Guarded("authorize"), Guarded("create_container")>>}

\* No PIN is asked for.
DeleteContainer == {ToApplication \o <<Guarded("call")>>}

GetContainerType == {ToApplication \o <<Guarded("open_container"), Guarded("call")>>}

\* A missing application does not clear the grants here.  A given container name
\* is created or else opened; a made-up one is only created.
CreatePKCS10 ==
  LET begin == <<Prepare, Guarded("open_device"),
                 [Guarded("open_application") EXCEPT !.clears = FALSE],
                 Guarded("authorize")>>
      sign == <<Guarded("call"), Guarded("begin_digest"), Guarded("call"),
                Guarded("call"), Guarded("call")>>
  IN  {begin \o <<Guarded("create_or_open")>> \o sign,
       begin \o <<Guarded("try"), Guarded("create_container")>> \o sign}

\* The two handlers of main.rs that open through the provider: what they open
\* outlives the request.  A device that is gone clears nothing.
LaxConnect == [Guarded("open_device") EXCEPT !.clears = FALSE]

ConnectDev == {<<Prepare, LaxConnect, Guarded("keep")>>}

\* DigestInit on the default alias; the digest and its device are both kept.
DigestInit == {<<Prepare, LaxConnect, Guarded("begin_digest"), Guarded("keep")>>}

-----------------------------------------------------------------------------
(* Handlers of main.rs: raw handles, every close written out. *)

Raw(op, closes) ==
  [op |-> op, closes |-> closes, clears |-> FALSE, unwraps |-> "nothing"]

\* The same, after CString::new(name).unwrap().
RawNamed(op, closes) == [Raw(op, closes) EXCEPT !.unwraps = "name"]

\* connect_dev fails: device_unavailable, nothing to close.
RawConnect == [RawNamed("open_device", <<>>) EXCEPT !.clears = TRUE]

\* open_application fails: disconnect, device_unavailable.
RawApplication == [RawNamed("open_application", <<"device">>) EXCEPT !.clears = TRUE]

AppDev == <<"application", "device">>

\* Connect, one vendor call, disconnect.
OneCall == {<<Prepare, RawConnect, Raw("call", <<"device">>)>>}

\* The same, with a library loaded for this request alone and unwrapped.
OneCallOwnLibrary ==
  {<<Prepare, [Raw("load", <<>>) EXCEPT !.unwraps = "library"], RawConnect,
     Raw("call", <<"device">>)>>}

EnumApplication ==
  {<<Prepare, RawConnect, Raw("call", <<"device">>), Raw("call", <<"device">>)>>}

\* Mutant of EnumContainer: the early answer falls through to the final closes.
EnumContainerClosingTwice ==
  {<<Prepare, RawConnect, RawApplication, Raw("call", AppDev \o AppDev), Raw("call", AppDev)>>}

\* Mutant of EnumContainer: the early answer for an empty list closes nothing.
EnumContainerLeaking ==
  {<<Prepare, RawConnect, RawApplication, Raw("call", <<>>), Raw("call", AppDev)>>}

EnumContainer ==
  {<<Prepare, RawConnect, RawApplication, Raw("call", AppDev), Raw("call", AppDev)>>}

\* A refused authorization closes the application and the device twice.
ImportKeyPair ==
  {<<Prepare, RawConnect, RawApplication, Raw("authorize", AppDev \o AppDev),
     RawNamed("open_container", AppDev), Raw("call", <<"container">> \o AppDev)>>}

\* The hash object is never closed.
Digest ==
  {<<Prepare, RawConnect, Raw("begin_digest", <<"device">>), Raw("call", <<"device">>)>>}

GetDevInfo == OneCall

\* The label is one more name.
SetLabel == {<<Prepare, RawConnect, RawNamed("call", <<"device">>)>>}

ECCVerify == OneCall

LockDev == OneCallOwnLibrary

UnlockDev == OneCallOwnLibrary

Transmit == OneCallOwnLibrary

RSAVerify == OneCallOwnLibrary

\* DigestInit on an alias that is not the default one: connect, disconnect, -1.
\* A device that is gone clears nothing.
DigestInitOther ==
  {<<Prepare, [RawConnect EXCEPT !.clears = FALSE], Raw("try", <<"device">>)>>}

\* Enumerates every provider, device, application and container it can open and
\* ignores every failure; no grant is ever cleared.
FindCertificates == {<<Raw("scan", <<>>)>>}

\* Answered from one vendor call without opening anything.
GetDevState == {<<Prepare, RawNamed("call", <<>>)>>}

EnumDevice == {<<Prepare, Raw("call", <<>>)>>}

\* A step that drops the session's grants whenever it finds the device gone.
ClearingSteps == {st \in Steps : st.op # "scan" /\ (st.op \in Finders => st.clears)}

\* A step that no failed unwrap precedes.
QuietSteps == {st \in Steps : st.op # "scan" /\ st.unwraps = "nothing"}

-----------------------------------------------------------------------------

GuardedMethods ==
  {"CheckPIN", "SignData", "RSASignData", "EncryptData", "DecryptData",
   "GenECCKeyPair", "GenRSAKeyPair", "ImportCertificate", "CreateContainer",
   "DeleteContainer", "GetContainerType", "CreatePKCS10", "ConnectDev", "DigestInit"}

RawMethods ==
  {"EnumApplication", "EnumContainer", "ImportKeyPair", "Digest", "GetDevInfo",
   "SetLabel", "ECCVerify", "LockDev", "UnlockDev", "Transmit", "RSAVerify",
   "DigestInitOther", "FindCertificates", "GetDevState", "EnumDevice"}

AllMethods == GuardedMethods \cup RawMethods

\* The dispatch of handle_request: what a request for method m may run.
Scripts(m) ==
  CASE m = "CheckPIN" -> CheckPIN
    [] m = "SignData" -> SignData
    [] m = "RSASignData" -> RSASignData
    [] m = "EncryptData" -> EncryptData
    [] m = "DecryptData" -> DecryptData
    [] m = "GenECCKeyPair" -> GenECCKeyPair
    [] m = "GenRSAKeyPair" -> GenRSAKeyPair
    [] m = "ImportCertificate" -> ImportCertificate
    [] m = "CreateContainer" -> CreateContainer
    [] m = "DeleteContainer" -> DeleteContainer
    [] m = "GetContainerType" -> GetContainerType
    [] m = "CreatePKCS10" -> CreatePKCS10
    [] m = "ConnectDev" -> ConnectDev
    [] m = "DigestInit" -> DigestInit
    [] m = "EnumApplication" -> EnumApplication
    [] m = "EnumContainer" -> EnumContainer
    [] m = "ImportKeyPair" -> ImportKeyPair
    [] m = "Digest" -> Digest
    [] m = "GetDevInfo" -> GetDevInfo
    [] m = "SetLabel" -> SetLabel
    [] m = "ECCVerify" -> ECCVerify
    [] m = "LockDev" -> LockDev
    [] m = "UnlockDev" -> UnlockDev
    [] m = "Transmit" -> Transmit
    [] m = "RSAVerify" -> RSAVerify
    [] m = "DigestInitOther" -> DigestInitOther
    [] m = "FindCertificates" -> FindCertificates
    [] m = "GetDevState" -> GetDevState
    [] m = "EnumDevice" -> EnumDevice

\* The methods that drop the grants wherever they fail to open the device.
ClearingMethods == {m \in AllMethods : Scripts(m) \subseteq Seq(ClearingSteps)}

\* The others can fail to open a device, or its application, and keep the grants the
\* session has for it.
LaxMethods == {"CreatePKCS10", "ConnectDev", "DigestInit", "DigestInitOther", "FindCertificates"}

\* Mutant of Cleanup: the device guard does not wait for its children.
CleanupDeviceFirst(m, step, held) ==
  IF m \in GuardedMethods THEN Drop("device", held) \o Unwind(held \ {"device"})
                          ELSE step.closes

\* What is closed when a handler of method m ends at this step.
Cleanup(m, step, held) == IF m \in GuardedMethods THEN Unwind(held) ELSE step.closes
=============================================================================
