--------------------------- MODULE GatewayPromise ---------------------------
(***************************************************************************)
(* Gateway implements AuthPromise.  A client is a connection together with *)
(* every task it ever left behind; it has an application unlocked while    *)
(* one of its states holds a live grant, and works with it while one of    *)
(* its tasks has passed its check and is not done.                         *)
(***************************************************************************)
EXTENDS Gateway

\* The check is still ahead.
Checks(steps) == \E i \in DOMAIN steps : steps[i].op = "authorize"

\* The methods that need the PIN, whatever the request.
PinMethods ==
  {"SignData", "RSASignData", "EncryptData", "DecryptData", "GenECCKeyPair", "GenRSAKeyPair",
   "ImportCertificate", "CreateContainer", "CreatePKCS10", "ImportKeyPair"}

Unexpired(s, k) == grants[s][k] > now

PastCheck(s) == Running(s) /\ method[s] \in PinMethods /\ ~Checks(script[s])

Unlocked == [c \in Conns |-> {k \in Keys : \E s \in Sids : owner[s] = c /\ Unexpired(s, k)}]

InUse ==
  [c \in Conns |-> {k \in Keys : \E s \in Sids : owner[s] = c /\ key[s] = k /\ PastCheck(s)}]

Promise == INSTANCE AuthPromise WITH Clients <- Conns, unlocked <- Unlocked, inUse <- InUse

\* Whatever timeouts, late tasks, lost devices and expiring grants do, the gateway
\* behaves towards its clients as AuthPromise says (domain/pin.rs, domain/mod.rs
\* authorized, session/auth.rs).
KeepsPromise == Promise!PromiseSpec
=============================================================================
