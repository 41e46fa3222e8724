---------------------------- MODULE AuthPromise -----------------------------
(***************************************************************************)
(* What the gateway promises about private keys, with no word of sessions, *)
(* tasks, tables, deadlines or devices: a client unlocks applications one  *)
(* by one and for itself alone, and what works with the private keys of an *)
(* application for a client began while the client had it unlocked.        *)
(***************************************************************************)
CONSTANTS Clients, Keys

VARIABLES
  unlocked,  \* the applications each client has presented the PIN of
  inUse      \* the applications at work for it

promiseVars == <<unlocked, inUse>>

PromiseInit ==
  /\ unlocked = [c \in Clients |-> {}]
  /\ inUse = [c \in Clients |-> {}]

\* f gives each client no more than g does.
Within(f, g) ==
  /\ f \in [Clients -> SUBSET Keys]
  /\ \A c \in Clients : f[c] \subseteq g[c]

Plus(f, c, k) == [f EXCEPT ![c] = @ \cup {k}]

\* Anything may be locked, and any work end, at any time.
Relax == Within(unlocked', unlocked) /\ Within(inUse', inUse)

Unlock(c, k) == Within(unlocked', Plus(unlocked, c, k)) /\ Within(inUse', inUse)

Use(c, k) ==
  /\ k \in unlocked[c]
  /\ Within(unlocked', unlocked)
  /\ Within(inUse', Plus(inUse, c, k))

PromiseNext ==
  \/ Relax
  \/ \E c \in Clients, k \in Keys : Unlock(c, k)
  \/ \E c \in Clients, k \in Keys : Use(c, k)

PromiseSpec == PromiseInit /\ [][PromiseNext]_promiseVars
=============================================================================
