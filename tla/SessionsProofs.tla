--------------------------- MODULE SessionsProofs ---------------------------
(***************************************************************************)
(* The properties of Sessions, proved for every set of connections, every  *)
(* number of permits and every number of session states.                   *)
(***************************************************************************)
EXTENDS Sessions, FiniteSetTheorems, TLAPS

-----------------------------------------------------------------------------
(* Permits. *)

\* Inductive by itself: permits and phases change together.
PermitInv ==
  /\ permits \in Nat
  /\ phase \in [Conns -> Phases]
  /\ PermitsConserved

\* The live connections are finitely many, so they can be counted.
LEMMA LiveFinite == IsFiniteSet(Live) /\ Cardinality(Live) \in Nat
<1>1. Live \in SUBSET Conns BY DEF Live
<1>2. QED BY <1>1, ConnsAssumption, FS_Subset, FS_CardinalityType

\* A connection that becomes live adds one to the count.
LEMMA LiveGrows ==
  ASSUME NEW c \in Conns, c \notin Live, Live' = Live \cup {c}
  PROVE  Cardinality(Live') = Cardinality(Live) + 1
  BY LiveFinite, FS_AddElement

\* A connection that ends takes one from it.
LEMMA LiveShrinks ==
  ASSUME NEW c \in Conns, c \in Live, Live' = Live \ {c}
  PROVE  Cardinality(Live') = Cardinality(Live) - 1
  BY LiveFinite, FS_RemoveElement

\* PermitInv holds when the server starts.
LEMMA PermitInit == SessInit => PermitInv
<1> SUFFICES ASSUME SessInit PROVE PermitInv
  OBVIOUS
<1>1. Live = {} BY DEF SessInit, Live
<1>2. Cardinality(Live) = 0 BY <1>1, FS_EmptySet
<1>3. QED BY <1>2, MaxConnectionsAssumption
          DEF SessInit, PermitInv, PermitsConserved, Phases

\* Each exit of spawn_client gives back what admit took.
LEMMA PermitStep == PermitInv /\ [SessNext]_sessVars => PermitInv'
<1> SUFFICES ASSUME PermitInv, [SessNext]_sessVars PROVE PermitInv'
  OBVIOUS
<1> USE LiveFinite, MaxConnectionsAssumption DEF PermitInv, Phases
<1>1. ASSUME NEW c \in Conns, Admit(c) PROVE PermitInv'
  <2>1. c \notin Live /\ Live' = Live \cup {c} BY <1>1 DEF Admit, Live
  <2>2. QED BY <1>1, <2>1, LiveGrows DEF Admit, PermitsConserved
<1>2. ASSUME NEW c \in Conns, HandshakeFails(c) \/ Disconnect(c) PROVE PermitInv'
  <2>1. c \in Live /\ Live' = Live \ {c}
    BY <1>2 DEF HandshakeFails, Disconnect, Live
  <2>2. QED BY <1>2, <2>1, LiveShrinks
            DEF HandshakeFails, Disconnect, PermitsConserved
<1>3. ASSUME NEW c \in Conns,
             Refuse(c) \/ Create(c) \/ TakeState(c) \/ PutState(c)
               \/ TimeOut(c) \/ TaskPanics(c)
      PROVE  PermitInv'
  <2>1. Live' = Live /\ permits' = permits /\ phase' \in [Conns -> Phases]
    BY <1>3 DEF Refuse, Create, TakeState, PutState, TimeOut, TaskPanics, Live
  <2>2. QED BY <2>1 DEF PermitsConserved
<1>4. ASSUME NEW s \in Sids, OrphanEnds(s) PROVE PermitInv'
  BY <1>4 DEF OrphanEnds, PermitsConserved, Live
<1>5. CASE UNCHANGED sessVars
  BY <1>5 DEF sessVars, PermitsConserved, Live
<1>6. QED BY <1>1, <1>2, <1>3, <1>4, <1>5 DEF SessNext

\* No path through spawn_client loses a permit or returns one twice, for any
\* MAX_CONNECTIONS and any number of sockets (server/mod.rs, admit and
\* spawn_client).
THEOREM PermitsAreConserved == SessSpec => []PermitsConserved
<1>1. PermitInv => PermitsConserved BY DEF PermitInv
<1>2. QED BY PermitInit, PermitStep, <1>1, PTL DEF SessSpec

-----------------------------------------------------------------------------
(* Session states. *)

\* The type of the variables the states are tracked with.
StateTypeOK ==
  /\ phase \in [Conns -> Phases]
  /\ cur \in [Conns -> Sids \cup {NoSid}]
  /\ marker \in [Conns -> Sids \cup {NoSid}]
  /\ registry \subseteq Sids
  /\ place \in [Sids -> Places]
  /\ owner \in [Sids -> Conns \cup {NoConn}]
  /\ minted \in 0..MaxSids

\* The ids above minted are unused: a freshly created state collides with
\* nothing that any connection, guard or task refers to.
Fresh ==
  /\ \A s \in Sids : s > minted => place[s] = "unborn"
  /\ \A c \in Conns : cur[c] <= minted /\ marker[c] <= minted

\* Exactly the connections in session have a state and a registered marker.
GuardsMatch ==
  \A c \in Conns :
    /\ c \in InSession <=> cur[c] \in Sids
    /\ c \in InSession => marker[c] \in Sids

\* The four checked invariants hold each other up, and need Fresh to know that
\* a new state is nobody's.
StateInv ==
  /\ StateTypeOK
  /\ Fresh
  /\ GuardsMatch
  /\ StatePresent
  /\ OneOwner
  /\ NoForgottenState
  /\ RegistryExact

\* StateInv holds when the server starts.
LEMMA StateInit == SessInit => StateInv
  BY MaxSidsAssumption
  DEF SessInit, StateInv, StateTypeOK, Fresh, GuardsMatch, StatePresent, OneOwner,
      NoForgottenState, RegistryExact, InSession, Sids, NoSid, Phases, Places

\* StateInv is kept by every step of the connections and of their tasks.
LEMMA StateStep == StateInv /\ [SessNext]_sessVars => StateInv'
<1> SUFFICES ASSUME StateInv, [SessNext]_sessVars PROVE StateInv'
  OBVIOUS
<1> USE MaxSidsAssumption, ConnsAssumption DEF Sids, NoSid, Phases, Places
<1>0. /\ StateTypeOK /\ Fresh /\ GuardsMatch
      /\ StatePresent /\ OneOwner /\ NoForgottenState /\ RegistryExact
  BY DEF StateInv
\* Before a session exists nothing but the phase moves.
<1>1. ASSUME NEW c \in Conns, Admit(c) \/ Refuse(c) \/ HandshakeFails(c)
      PROVE  StateInv'
  <2>1. UNCHANGED <<cur, marker, registry, place, owner, minted>>
    BY <1>1 DEF Admit, Refuse, HandshakeFails
  <2>2. InSession' = InSession /\ phase' \in [Conns -> Phases]
    BY <1>0, <1>1 DEF Admit, Refuse, HandshakeFails, InSession, StateTypeOK
  <2>3. \A d \in InSession : phase'[d] = phase[d]
    BY <1>0, <1>1 DEF Admit, Refuse, HandshakeFails, InSession, StateTypeOK
  <2>4. StateTypeOK' BY <1>0, <2>1, <2>2 DEF StateTypeOK
  <2>5. Fresh' BY <1>0, <2>1 DEF Fresh
  <2>6. GuardsMatch' BY <1>0, <2>1, <2>2 DEF GuardsMatch
  <2>7. StatePresent' BY <1>0, <2>1, <2>2, <2>3 DEF StatePresent
  <2>8. OneOwner' BY <1>0, <2>1, <2>2 DEF OneOwner
  <2>9. NoForgottenState' BY <1>0, <2>1, <2>2 DEF NoForgottenState
  <2>10. RegistryExact' BY <1>0, <2>1, <2>2 DEF RegistryExact
  <2>11. QED
    BY <2>4, <2>5, <2>6, <2>7, <2>8, <2>9, <2>10 DEF StateInv
<1>2. ASSUME NEW c \in Conns, Create(c) PROVE StateInv'
  <2> DEFINE n == minted + 1
  <2>1. n \in Sids /\ c \notin InSession /\ InSession' = InSession \cup {c}
    BY <1>0, <1>2 DEF Create, Mint, InSession, StateTypeOK
  <2>2. /\ place[n] = "unborn"
        /\ \A d \in Conns : cur[d] # n /\ marker[d] # n
    BY <1>0, <2>1 DEF Fresh, StateTypeOK
  <2>3. StateTypeOK' BY <1>0, <1>2, <2>1 DEF StateTypeOK, Create, Mint
  <2>4. Fresh'
    <3>1. \A s \in Sids : s > minted + 1 => place'[s] = "unborn"
      BY <1>0, <1>2, <2>1 DEF Fresh, StateTypeOK, Create
    <3>2. \A d \in Conns : cur'[d] <= minted + 1 /\ marker'[d] <= minted + 1
      BY <1>0, <1>2, <2>1 DEF Fresh, StateTypeOK, Create, Mint
    <3>3. QED BY <1>2, <3>1, <3>2 DEF Fresh, Create, Mint
  <2>5. GuardsMatch'
    BY <1>0, <1>2, <2>1 DEF GuardsMatch, StateTypeOK, Create, Mint
  <2>6. StatePresent'
    BY <1>0, <1>2, <2>1, <2>2 DEF StatePresent, StateTypeOK, Create, Mint
  <2>7. OneOwner'
    BY <1>0, <1>2, <2>1, <2>2 DEF OneOwner, StatePresent, StateTypeOK, InSession, Create, Mint
  <2>8. NoForgottenState'
    BY <1>0, <1>2, <2>1, <2>2 DEF NoForgottenState, StateTypeOK, InSession, Create, Mint
  <2>9. RegistryExact'
    BY <1>0, <1>2, <2>1, <2>2 DEF RegistryExact, StateTypeOK, InSession, Create
  <2>10. QED
    BY <2>3, <2>4, <2>5, <2>6, <2>7, <2>8, <2>9 DEF StateInv
<1>3. ASSUME NEW c \in Conns, TakeState(c) \/ PutState(c) PROVE StateInv'
  <2>1. /\ c \in InSession /\ InSession' = InSession
        /\ UNCHANGED <<cur, marker, registry, owner, minted>>
    BY <1>0, <1>3 DEF TakeState, PutState, InSession, StateTypeOK
  <2>2. cur[c] \in Sids /\ place[cur[c]] # "unborn"
    BY <1>0, <2>1 DEF StatePresent
  <2>3. StateTypeOK' BY <1>0, <1>3, <2>1 DEF StateTypeOK, TakeState, PutState
  <2>4. Fresh'
    BY <1>0, <1>3, <2>1, <2>2 DEF Fresh, StateTypeOK, TakeState, PutState
  <2>5. GuardsMatch' BY <1>0, <2>1 DEF GuardsMatch
  <2>6. StatePresent'
    BY <1>0, <1>3, <2>1, <2>2
    DEF StatePresent, OneOwner, StateTypeOK, InSession, TakeState, PutState
  <2>7. OneOwner' BY <1>0, <2>1 DEF OneOwner
  <2>8. NoForgottenState'
    BY <1>0, <1>3, <2>1, <2>2 DEF NoForgottenState, StateTypeOK, TakeState, PutState
  <2>9. RegistryExact' BY <1>0, <2>1 DEF RegistryExact
  <2>10. QED
    BY <2>3, <2>4, <2>5, <2>6, <2>7, <2>8, <2>9 DEF StateInv
<1>4. ASSUME NEW c \in Conns, TimeOut(c) \/ TaskPanics(c) PROVE StateInv'
  <2> DEFINE n == minted + 1
  <2>1. /\ n \in Sids /\ c \in InSession /\ InSession' = InSession
        /\ phase' = [phase EXCEPT ![c] = "idle"]
        /\ minted' = n
        /\ cur' = [cur EXCEPT ![c] = n]
        /\ owner' = [owner EXCEPT ![n] = c]
        /\ UNCHANGED <<marker, registry>>
    BY <1>0, <1>4 DEF TimeOut, TaskPanics, Mint, InSession, StateTypeOK
  <2>2. /\ place[n] = "unborn"
        /\ \A d \in Conns : cur[d] # n /\ marker[d] # n
    BY <1>0, <2>1 DEF Fresh, StateTypeOK
  <2>3. cur[c] \in Sids /\ place[cur[c]] = "pool"
    BY <1>0, <1>4, <2>1 DEF StatePresent, TimeOut, TaskPanics
  <2>4. /\ place' \in [Sids -> Places]
        /\ place'[n] = "guard"
        /\ place'[cur[c]] \in {"pool", "dropped"}
        /\ \A s \in Sids : s # n /\ s # cur[c] => place'[s] = place[s]
    BY <1>0, <1>4, <2>1, <2>2, <2>3 DEF TimeOut, TaskPanics, StateTypeOK
  <2> HIDE DEF n
  <2>5. StateTypeOK' BY <1>0, <2>1, <2>4 DEF StateTypeOK, n
  <2>6. Fresh'
    <3>1. cur[c] < n BY <1>0, <2>1, <2>3 DEF Fresh, StateTypeOK, n
    <3>2. \A s \in Sids : s > n => place'[s] = "unborn"
      BY <1>0, <2>1, <2>4, <3>1 DEF Fresh, StateTypeOK, n
    <3>3. \A d \in Conns : cur'[d] <= n /\ marker'[d] <= n
      BY <1>0, <2>1 DEF Fresh, StateTypeOK, n
    <3>4. QED BY <2>1, <3>2, <3>3 DEF Fresh
  <2>7. GuardsMatch' BY <1>0, <2>1 DEF GuardsMatch, StateTypeOK
  <2>8. StatePresent'
    BY <1>0, <2>1, <2>2, <2>3, <2>4
    DEF StatePresent, OneOwner, StateTypeOK, InSession
  <2>9. OneOwner'
    BY <1>0, <2>1, <2>2 DEF OneOwner, StatePresent, StateTypeOK, InSession
  <2>10. NoForgottenState'
    BY <1>0, <2>1, <2>2, <2>3, <2>4 DEF NoForgottenState, StateTypeOK, InSession
  <2>11. RegistryExact' BY <1>0, <2>1 DEF RegistryExact
  <2>12. QED
    BY <2>5, <2>6, <2>7, <2>8, <2>9, <2>10, <2>11 DEF StateInv
<1>5. ASSUME NEW c \in Conns, Disconnect(c) PROVE StateInv'
  <2>1. /\ c \in InSession /\ InSession' = InSession \ {c}
        /\ UNCHANGED <<marker, owner, minted>>
    BY <1>0, <1>5 DEF Disconnect, InSession, StateTypeOK
  <2>2. cur[c] \in Sids /\ place[cur[c]] = "guard"
    BY <1>0, <1>5, <2>1 DEF StatePresent, Disconnect
  <2>3. StateTypeOK' BY <1>0, <1>5, <2>1 DEF StateTypeOK, Disconnect
  <2>4. Fresh' BY <1>0, <1>5, <2>1, <2>2 DEF Fresh, StateTypeOK, Disconnect
  <2>5. GuardsMatch' BY <1>0, <1>5, <2>1 DEF GuardsMatch, StateTypeOK, Disconnect
  <2>6. StatePresent'
    BY <1>0, <1>5, <2>1, <2>2
    DEF StatePresent, OneOwner, StateTypeOK, InSession, Disconnect
  <2>7. OneOwner'
    BY <1>0, <1>5, <2>1 DEF OneOwner, StateTypeOK, InSession, Disconnect
  <2>8. NoForgottenState'
    BY <1>0, <1>5, <2>1, <2>2 DEF NoForgottenState, StateTypeOK, InSession, Disconnect
  <2>9. RegistryExact'
    BY <1>0, <1>5, <2>1 DEF RegistryExact, Disconnect
  <2>10. QED
    BY <2>3, <2>4, <2>5, <2>6, <2>7, <2>8, <2>9 DEF StateInv
<1>6. ASSUME NEW s \in Sids, OrphanEnds(s) PROVE StateInv'
  BY <1>0, <1>6
  DEF OrphanEnds, Orphan, StateInv, StateTypeOK, Fresh, GuardsMatch, StatePresent,
      OneOwner, NoForgottenState, RegistryExact, InSession
<1>7. CASE UNCHANGED sessVars
  BY <1>0, <1>7
  DEF sessVars, StateInv, StateTypeOK, Fresh, GuardsMatch, StatePresent,
      OneOwner, NoForgottenState, RegistryExact, InSession
<1>8. QED BY <1>1, <1>2, <1>3, <1>4, <1>5, <1>6, <1>7 DEF SessNext

-----------------------------------------------------------------------------
(* What a reader should know of. *)

\* Every variable keeps its type; that permits never exceeds MAX_CONNECTIONS
\* rests on the conservation of permits.
THEOREM SessTypeCorrect == SessSpec => []SessTypeOK
<1>1. PermitInv /\ StateInv => SessTypeOK
  BY LiveFinite, MaxConnectionsAssumption
  DEF PermitInv, PermitsConserved, StateInv, StateTypeOK, SessTypeOK
<1>2. QED BY PermitInit, PermitStep, StateInit, StateStep, <1>1, PTL DEF SessSpec

\* take_state's expect cannot fire and put_state never overwrites a state: after
\* any mix of replies, timeouts, panics and disconnects, of any number of
\* connections, each guard or awaited task holds its connection's state.
THEOREM StateAlwaysPresent == SessSpec => []StatePresent
<1>1. StateInv => StatePresent BY DEF StateInv
<1>2. QED BY StateInit, StateStep, <1>1, PTL DEF SessSpec

\* No interleaving of connections makes one of them reach another's state.
THEOREM SessionsAreIsolated == SessSpec => []OneOwner
<1>1. StateInv => OneOwner BY DEF StateInv
<1>2. QED BY StateInit, StateStep, <1>1, PTL DEF SessSpec

\* A state outlives its connection only on a task of the blocking pool.
THEOREM NoStateIsForgotten == SessSpec => []NoForgottenState
<1>1. StateInv => NoForgottenState BY DEF StateInv
<1>2. QED BY StateInit, StateStep, <1>1, PTL DEF SessSpec

\* The registry counts the connections in session, though a timeout changes the
\* id of the state and not the id that was registered.
THEOREM RegistryIsExact == SessSpec => []RegistryExact
<1>1. StateInv => RegistryExact BY DEF StateInv
<1>2. QED BY StateInit, StateStep, <1>1, PTL DEF SessSpec

\* The body of AbandonedStaysAbandoned follows from the invariant.
LEMMA AbandonedStep ==
  ASSUME StateInv, [SessNext]_sessVars, NEW s \in Sids
  PROVE  /\ Orphan(s) => \A c \in Conns : cur'[c] # s
         /\ place[s] = "dropped" => place'[s] = "dropped"
<1> USE MaxSidsAssumption, ConnsAssumption DEF Sids, NoSid, StateInv
<1>1. ASSUME NEW c \in Conns, Create(c) \/ TimeOut(c) \/ TaskPanics(c)
      PROVE  /\ Orphan(s) => \A d \in Conns : cur'[d] # s
             /\ place[s] = "dropped" => place'[s] = "dropped"
  <2>1. minted + 1 \in Sids /\ place[minted + 1] = "unborn"
    BY <1>1 DEF Create, TimeOut, TaskPanics, Mint, Fresh, StateTypeOK
  <2>2. cur' = [cur EXCEPT ![c] = minted + 1]
    BY <1>1 DEF Create, TimeOut, TaskPanics, Mint
  <2>3. QED BY <1>1, <2>1, <2>2
            DEF Create, TimeOut, TaskPanics, Mint, StateTypeOK, Orphan, Places
<1>2. ASSUME NEW c \in Conns, TakeState(c) \/ PutState(c) \/ Disconnect(c)
      PROVE  /\ Orphan(s) => \A d \in Conns : cur'[d] # s
             /\ place[s] = "dropped" => place'[s] = "dropped"
  <2>1. cur[c] \in Sids /\ place[cur[c]] # "dropped"
    BY <1>2 DEF TakeState, PutState, Disconnect, StatePresent, InSession
  <2>2. QED BY <1>2, <2>1 DEF TakeState, PutState, Disconnect, StateTypeOK, Orphan
<1>3. ASSUME NEW c \in Conns, Admit(c) \/ Refuse(c) \/ HandshakeFails(c)
      PROVE  cur' = cur /\ place' = place
  BY <1>3 DEF Admit, Refuse, HandshakeFails
<1>4. ASSUME NEW t \in Sids, OrphanEnds(t)
      PROVE  cur' = cur /\ (place[s] = "dropped" => place'[s] = "dropped")
  BY <1>4 DEF OrphanEnds, StateTypeOK
<1>5. CASE UNCHANGED sessVars
  BY <1>5 DEF sessVars, Orphan
<1>6. QED BY <1>1, <1>2, <1>3, <1>4, <1>5 DEF SessNext, Orphan

\* What a task abandoned by a timeout still does stays with its own state: the
\* state is never handed to a connection again, and a dropped one never revives.
THEOREM AbandonedForever == SessSpec => AbandonedStaysAbandoned
<1>1. StateInv /\ [SessNext]_sessVars =>
        [\A s \in Sids :
           /\ Orphan(s) => \A c \in Conns : cur'[c] # s
           /\ place[s] = "dropped" => place'[s] = "dropped"]_sessVars
  BY AbandonedStep
<1>2. QED BY StateInit, StateStep, <1>1, PTL DEF SessSpec, AbandonedStaysAbandoned
=============================================================================
