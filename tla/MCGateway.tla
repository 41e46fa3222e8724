----------------------------- MODULE MCGateway ------------------------------
(* Small instances of Gateway for TLC. *)
EXTENDS GatewayPromise, TLC

CONSTANTS c1, c2

MCConns == {c1, c2}
OneConn == {c1}

\* Two applications of one device and one of another, as provider/device/app.
MCDevices == {"d1", "d2"}
MCDeviceOf == [k \in {"d1/a1", "d1/a2", "d2/a1"} |-> IF k = "d2/a1" THEN "d2" ELSE "d1"]
MCKeys == DOMAIN MCDeviceOf

\* One application.
OneDevice == {"d1"}
OneDeviceOf == [k \in {"d1/a1"} |-> "d1"]
OneKey == DOMAIN OneDeviceOf

\* One of ClearingMethods for each way of finding a device gone: with guards before
\* and after the PIN is asked for, with raw handles, and with a library of its own,
\* whose load may panic.
ClearingRequests == {"CheckPIN", "RSASignData", "ImportKeyPair", "LockDev"}

\* The PIN is given, and asked for by a handler with guards and by one with raw
\* handles, which may panic.
PinRequests == {"CheckPIN", "DeleteContainer", "ImportKeyPair"}

ASSUME PinRequests \cup ClearingRequests \subseteq ClearingMethods

\* No other handler keeps the grants for a device it could not open.
ASSUME LaxMethods = AllMethods \ ClearingMethods

\* These are the handlers that cannot do their work without the check.
ASSUME PinMethods = {m \in AllMethods : \A steps \in Scripts(m) : Checks(steps)}

\* Methods that close exactly what they opened on every path.
TidyRequests == AllMethods \ {"ImportKeyPair", "Digest"}

\* The lightest of the handlers that keep the grants of a missing device.
LaxRequests == {"CheckPIN", "RSASignData", "DigestInitOther"}

\* Connections are interchangeable; the checked formulas name none of them.
ConnSymmetry == Permutations(MCConns)
=============================================================================
