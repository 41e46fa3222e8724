----------------------------- MODULE AuthTable ------------------------------
(***************************************************************************)
(* The table of authorizations inside one SessionState (session/auth.rs).  *)
(*                                                                         *)
(* A key is provider/device/application.  A grant stores a deadline and    *)
(* never the PIN.  A table is a function from keys to deadlines; 0, which  *)
(* is before every instant, stands for no entry.                           *)
(***************************************************************************)
EXTENDS Naturals

CONSTANTS
  Keys,      \* the AuthKeys requests may name
  Devices,   \* the devices of those keys
  DeviceOf,  \* the provider and device part of each key
  TTL        \* the lifetime of a grant (ttl_from_env)

\* ttl_from_env replaces a zero by the default, so a grant always expires.
ASSUME KeysAssumption == DeviceOf \in [Keys -> Devices]
ASSUME TTLAssumption == TTL \in Nat \ {0}

Tables == [Keys -> Nat]

NoGrants == [k \in Keys |-> 0]

\* AuthTable::grant.
GrantKey(table, k, now) == [table EXCEPT ![k] = now + TTL]

\* Mutant of Authorized: an entry is enough, its deadline is not read.
AuthorizedForever(table, k, now) == table[k] # 0

\* AuthTable::check answers Ok: the deadline lies ahead.
Authorized(table, k, now) == table[k] > now

\* AuthTable::check answers Err: an expired entry is removed.
RejectKey(table, k) == [table EXCEPT ![k] = 0]

\* Mutant of InvalidateDevice: the whole table goes.
InvalidateAll(table, d) == NoGrants

\* Mutant of InvalidateDevice: the alias is compared without normalize_alias and
\* matches no key.
InvalidateUnmatched(table, d) == table

\* AuthTable::invalidate_device.
InvalidateDevice(table, d) ==
  [k \in Keys |-> IF DeviceOf[k] = d THEN 0 ELSE table[k]]
=============================================================================
