------------------------------ MODULE Sessions ------------------------------
(***************************************************************************)
(* Connections and the session state each of them owns.                    *)
(*                                                                         *)
(* server/mod.rs admits a socket when a semaphore permit is free, upgrades *)
(* it, creates a session and then runs a strictly sequential loop: read a  *)
(* frame, await Session::handle, write the reply.  JsonRpcSession::handle  *)
(* (main.rs) moves the SessionState out of the SessionGuard onto a thread  *)
(* of the blocking pool and puts it back when the task ends.  A request    *)
(* that outlives the time limit is abandoned: the connection gets a fresh  *)
(* empty state and the task keeps the old one until the vendor returns.    *)
(*                                                                         *)
(* A SessionState is named by its SessionId.  The ids come from OsRng and  *)
(* are never reused, so they are numbered here in the order of creation.   *)
(* A task is named by the state it carries: take_state moves the state by  *)
(* value, so a state is on at most one task.                               *)
(***************************************************************************)
EXTENDS Naturals, FiniteSets

CONSTANTS
  Conns,           \* the sockets that are accepted, each of them once
  NoConn,          \* not a connection
  MaxConnections,  \* the semaphore's permits (MAX_CONNECTIONS, 64 in the code)
  MaxSids          \* bound: how many session states are ever created

ASSUME ConnsAssumption == IsFiniteSet(Conns) /\ NoConn \notin Conns
ASSUME MaxConnectionsAssumption == MaxConnections \in Nat
ASSUME MaxSidsAssumption == MaxSids \in Nat

Sids == 1..MaxSids
NoSid == 0

VARIABLES
  permits,   \* permits left in the semaphore
  phase,     \* where the client task of each connection is
  cur,       \* the state in the connection's guard, or on the task it awaits
  marker,    \* the id in the guard's SessionMarker
  registry,  \* the ids in the SessionRegistry
  place,     \* where each session state is
  owner,     \* the connection each session state was created for
  minted     \* how many session states have been created

sessVars == <<permits, phase, cur, marker, registry, place, owner, minted>>

Phases == {"new", "refused", "handshake", "idle", "await", "closed"}
Places == {"unborn", "guard", "pool", "dropped"}

\* Connections whose client task is alive, and so holds a permit.
Live == {c \in Conns : phase[c] \in {"handshake", "idle", "await"}}

\* Connections that have a SessionGuard.
InSession == {c \in Conns : phase[c] \in {"idle", "await"}}

Awaiting == {c \in Conns : phase[c] = "await"}

\* A task nobody awaits: its request timed out, its state is still with it.
Orphan(s) == place[s] = "pool" /\ \A c \in Conns : cur[c] # s

SessTypeOK ==
  /\ permits \in 0..MaxConnections
  /\ phase \in [Conns -> Phases]
  /\ cur \in [Conns -> Sids \cup {NoSid}]
  /\ marker \in [Conns -> Sids \cup {NoSid}]
  /\ registry \subseteq Sids
  /\ place \in [Sids -> Places]
  /\ owner \in [Sids -> Conns \cup {NoConn}]
  /\ minted \in 0..MaxSids

SessInit ==
  /\ permits = MaxConnections
  /\ phase = [c \in Conns |-> "new"]
  /\ cur = [c \in Conns |-> NoSid]
  /\ marker = [c \in Conns |-> NoSid]
  /\ registry = {}
  /\ place = [s \in Sids |-> "unborn"]
  /\ owner = [s \in Sids |-> NoConn]
  /\ minted = 0

-----------------------------------------------------------------------------
(* Admission and the WebSocket upgrade. *)

\* Mutant of Admit: the permit is taken without asking whether one is left.
AdmitUnchecked(c) ==
  /\ phase[c] = "new"
  /\ permits' = permits - 1
  /\ phase' = [phase EXCEPT ![c] = "handshake"]
  /\ UNCHANGED <<cur, marker, registry, place, owner, minted>>

\* try_acquire_owned succeeds: the permit moves into the client task.
Admit(c) ==
  /\ phase[c] = "new"
  /\ permits > 0
  /\ permits' = permits - 1
  /\ phase' = [phase EXCEPT ![c] = "handshake"]
  /\ UNCHANGED <<cur, marker, registry, place, owner, minted>>

\* No permit is left: the socket is dropped before the handshake.
Refuse(c) ==
  /\ phase[c] = "new"
  /\ permits = 0
  /\ phase' = [phase EXCEPT ![c] = "refused"]
  /\ UNCHANGED <<permits, cur, marker, registry, place, owner, minted>>

\* Mutant of HandshakeFails: the early return forgets the permit.
HandshakeFailsKeepingPermit(c) ==
  /\ phase[c] = "handshake"
  /\ phase' = [phase EXCEPT ![c] = "closed"]
  /\ UNCHANGED <<permits, cur, marker, registry, place, owner, minted>>

\* The upgrade fails: the client task returns and its permit is released.
HandshakeFails(c) ==
  /\ phase[c] = "handshake"
  /\ permits' = permits + 1
  /\ phase' = [phase EXCEPT ![c] = "closed"]
  /\ UNCHANGED <<cur, marker, registry, place, owner, minted>>

\* SessionState::new for connection c: the next id, an empty state in c's guard.
Mint(c) ==
  /\ minted < MaxSids
  /\ minted' = minted + 1
  /\ owner' = [owner EXCEPT ![minted + 1] = c]
  /\ cur' = [cur EXCEPT ![c] = minted + 1]

\* Mutant of Create: one process-wide state instead of one per connection.
CreateShared(c) ==
  /\ phase[c] = "handshake"
  /\ IF minted = 0
       THEN Mint(c) /\ place' = [place EXCEPT ![1] = "guard"]
       ELSE cur' = [cur EXCEPT ![c] = 1] /\ UNCHANGED <<minted, owner, place>>
  /\ phase' = [phase EXCEPT ![c] = "idle"]
  /\ marker' = [marker EXCEPT ![c] = 1]
  /\ registry' = registry \cup {1}
  /\ UNCHANGED permits

\* SessionFactory::create and SessionGuard::create after the upgrade.
Create(c) ==
  /\ phase[c] = "handshake"
  /\ Mint(c)
  /\ phase' = [phase EXCEPT ![c] = "idle"]
  /\ place' = [place EXCEPT ![minted + 1] = "guard"]
  /\ marker' = [marker EXCEPT ![c] = minted + 1]
  /\ registry' = registry \cup {minted + 1}
  /\ UNCHANGED permits

-----------------------------------------------------------------------------
(* One request: Session::handle. *)

\* A text frame arrives: take_state, spawn_blocking.  Bound: no request starts
\* when no state is left for its timeout.
TakeState(c) ==
  /\ phase[c] = "idle"
  /\ place[cur[c]] = "guard"
  /\ minted < MaxSids
  /\ phase' = [phase EXCEPT ![c] = "await"]
  /\ place' = [place EXCEPT ![cur[c]] = "pool"]
  /\ UNCHANGED <<permits, cur, marker, registry, owner, minted>>

\* The task ended in time: put_state and the reply.
PutState(c) ==
  /\ phase[c] = "await"
  /\ phase' = [phase EXCEPT ![c] = "idle"]
  /\ place' = [place EXCEPT ![cur[c]] = "guard"]
  /\ UNCHANGED <<permits, cur, marker, registry, owner, minted>>

\* Mutant of TimeOut: the early return forgets put_state.
TimeOutWithoutState(c) ==
  /\ phase[c] = "await"
  /\ phase' = [phase EXCEPT ![c] = "idle"]
  /\ UNCHANGED <<permits, cur, marker, registry, place, owner, minted>>

\* tokio::time::timeout elapsed first: an empty state for the connection, the
\* old one stays with the task.
TimeOut(c) ==
  /\ phase[c] = "await"
  /\ Mint(c)
  /\ phase' = [phase EXCEPT ![c] = "idle"]
  /\ place' = [place EXCEPT ![minted + 1] = "guard"]
  /\ UNCHANGED <<permits, marker, registry>>

\* The awaited task panicked: its state is dropped as the thread unwinds, the
\* connection gets an empty one.
TaskPanics(c) ==
  /\ phase[c] = "await"
  /\ Mint(c)
  /\ phase' = [phase EXCEPT ![c] = "idle"]
  /\ place' = [place EXCEPT ![cur[c]] = "dropped", ![minted + 1] = "guard"]
  /\ UNCHANGED <<permits, marker, registry>>

\* Mutant of OrphanEnds: the late task puts its state back into the guard.
OrphanPutsStateBack(s) ==
  /\ Orphan(s)
  /\ IF phase[owner[s]] = "idle"
       THEN /\ cur' = [cur EXCEPT ![owner[s]] = s]
            /\ place' = [place EXCEPT ![s] = "guard", ![cur[owner[s]]] = "dropped"]
       ELSE /\ place' = [place EXCEPT ![s] = "dropped"]
            /\ UNCHANGED cur
  /\ UNCHANGED <<permits, phase, marker, registry, owner, minted>>

\* An abandoned task ends: (state, response, lang) is dropped on its thread.
OrphanEnds(s) ==
  /\ Orphan(s)
  /\ place' = [place EXCEPT ![s] = "dropped"]
  /\ UNCHANGED <<permits, phase, cur, marker, registry, owner, minted>>

\* Mutant of Disconnect: the session's current id is deregistered.
DisconnectCurrentId(c) ==
  /\ phase[c] = "idle"
  /\ permits' = permits + 1
  /\ phase' = [phase EXCEPT ![c] = "closed"]
  /\ registry' = registry \ {cur[c]}
  /\ place' = [place EXCEPT ![cur[c]] = "dropped"]
  /\ cur' = [cur EXCEPT ![c] = NoSid]
  /\ UNCHANGED <<marker, owner, minted>>

\* Mutant of Disconnect: the guard is leaked, its state never dropped.
DisconnectLeakingState(c) ==
  /\ phase[c] = "idle"
  /\ permits' = permits + 1
  /\ phase' = [phase EXCEPT ![c] = "closed"]
  /\ registry' = registry \ {marker[c]}
  /\ cur' = [cur EXCEPT ![c] = NoSid]
  /\ UNCHANGED <<marker, place, owner, minted>>

\* The peer is gone, or the reply could not be written.  The loop only notices
\* between two requests.  SessionGuard::drop deregisters the marker's id, then
\* the state is dropped and the permit released.
Disconnect(c) ==
  /\ phase[c] = "idle"
  /\ permits' = permits + 1
  /\ phase' = [phase EXCEPT ![c] = "closed"]
  /\ registry' = registry \ {marker[c]}
  /\ place' = [place EXCEPT ![cur[c]] = "dropped"]
  /\ cur' = [cur EXCEPT ![c] = NoSid]
  /\ UNCHANGED <<marker, owner, minted>>

SessNext ==
  \/ \E c \in Conns : Admit(c)
  \/ \E c \in Conns : Refuse(c)
  \/ \E c \in Conns : HandshakeFails(c)
  \/ \E c \in Conns : Create(c)
  \/ \E c \in Conns : TakeState(c)
  \/ \E c \in Conns : PutState(c)
  \/ \E c \in Conns : TimeOut(c)
  \/ \E c \in Conns : TaskPanics(c)
  \/ \E c \in Conns : Disconnect(c)
  \/ \E s \in Sids : OrphanEnds(s)

SessSpec == SessInit /\ [][SessNext]_sessVars

-----------------------------------------------------------------------------
(* Properties. *)

\* Every permit is either in the semaphore or held by one live client task, so
\* at most MAX_CONNECTIONS connections are served and none of the exits of
\* spawn_client (failed upgrade, receive error, failed send) loses a slot.
PermitsConserved == permits + Cardinality(Live) = MaxConnections

\* Between two requests the connection's state is in its guard, and during one
\* it is on the task: take_state's expect("session state already taken") cannot
\* fail, whatever mix of replies, timeouts and panics came before.
StatePresent ==
  \A c \in InSession :
    /\ cur[c] \in Sids
    /\ place[cur[c]] = IF phase[c] = "idle" THEN "guard" ELSE "pool"

\* A session state serves the one connection it was created for: no two
\* connections ever reach the same grants and handles (SESS-02).
OneOwner ==
  /\ \A c \in InSession : owner[cur[c]] = c
  /\ \A c, d \in InSession : cur[c] = cur[d] => c = d

\* A state that no connection reaches any more has been dropped or is about to
\* be, with the task that carries it: none is forgotten inside a guard.
NoForgottenState ==
  \A s \in Sids : place[s] = "guard" => \E c \in InSession : cur[c] = s

\* The registry lists exactly the connections in session, even after a timeout
\* gave one of them a state whose id is not the one that was registered.
RegistryExact ==
  /\ registry = {marker[c] : c \in InSession}
  /\ \A c, d \in InSession : marker[c] = marker[d] => c = d

\* A state left behind by a timeout never comes back to a connection, and a
\* dropped state is never used again: what the abandoned task still does to its
\* grants cannot reach a client.
AbandonedStaysAbandoned ==
  [][\A s \in Sids :
       /\ Orphan(s) => \A c \in Conns : cur'[c] # s
       /\ place[s] = "dropped" => place'[s] = "dropped"]_sessVars

=============================================================================
