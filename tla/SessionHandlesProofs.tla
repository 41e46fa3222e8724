------------------------ MODULE SessionHandlesProofs ------------------------
(***************************************************************************)
(* The properties of SessionHandles, proved for every number of            *)
(* connections, states, names and native objects.  They rest on the        *)
(* reference counts: a native object is shared by the one name that stands *)
(* for it, if there is one, and by the one open digest that it carries.    *)
(***************************************************************************)
EXTENDS SessionHandles, SessionsProofs

\* A name of some table stands for n.
Named(n) == \E s \in Sids : \E h \in DOMAIN table[s] : table[s][h] = n

\* An open digest shares n.
Shared(n) == \E d \in Natives : carrier[d] # d /\ carrier[d] = n /\ Named(d)

OneIf(b) == IF b THEN 1 ELSE 0

TableTypeOK ==
  /\ opened \in 0..MaxNatives
  /\ carrier \in [Natives -> Natives]
  /\ strong \in [Natives -> Nat]
  /\ table = [s \in Sids |-> table[s]]
  /\ \A s \in Sids :
       /\ DOMAIN table[s] \subseteq Handles
       /\ \A h \in DOMAIN table[s] : table[s][h] \in 1..opened

\* No native object has two names, in one table or in two.
Unique ==
  \A s, t \in Sids : \A h \in DOMAIN table[s], g \in DOMAIN table[t] :
    table[s][h] = table[t][g] => s = t /\ h = g

\* A digest's device is an opened one, no digest itself, and carries no other.
Carriers ==
  /\ \A n \in Natives : carrier[n] # n =>
       n <= opened /\ carrier[n] <= opened /\ carrier[carrier[n]] = carrier[n]
  /\ \A m, n \in Natives : carrier[m] # m /\ carrier[n] # n /\ carrier[m] = carrier[n] => m = n

KindsRight ==
  \A s \in Sids : \A h \in DOMAIN table[s] :
    carrier[table[s][h]] # table[s][h] <=> h[1] = "hsh"

Counted == \A n \in Natives : strong[n] = OneIf(Named(n)) + OneIf(Shared(n))

NativeInv == TableTypeOK /\ Unique /\ Carriers /\ KindsRight /\ Counted

\* Within one state a name was given for one thing only.
OneMeaningPerState ==
  \A c \in Conns : \A x, y \in known[c] : x[1] = y[1] /\ x[2] = y[2] => x = y

\* The numbers above nextId are unused, and what a client was told of a name that
\* is still in the table is what it stands for.
NameInv ==
  /\ nextId \in [Sids -> 0..MaxIds]
  /\ known \in [Conns -> SUBSET (Sids \X Handles \X Natives)]
  /\ \A s \in Sids : \A h \in DOMAIN table[s] : h[2] <= nextId[s]
  /\ \A c \in Conns : \A x \in known[c] :
       /\ x[2][2] <= nextId[x[1]]
       /\ x[2] \in DOMAIN table[x[1]] => table[x[1]][x[2]] = x[3]
  /\ OneMeaningPerState

\* A state that does not exist has no names, and a task is where its state is.
PlaceInv ==
  /\ job \in [Sids -> [m : HandleMethods \cup {"none", "done"}, h : Handles \cup {NoHandle}]]
  /\ \A s \in Sids : place[s] \notin {"guard", "pool"} => DOMAIN table[s] = {}
  /\ \A s \in Sids : place[s] # "pool" => job[s].m = "none"
  /\ \A s \in Sids : job[s].m = "done" /\ job[s].h # NoHandle => job[s].h \in DOMAIN table[s]

HandleInv == StateInv /\ NativeInv /\ NameInv /\ PlaceInv

-----------------------------------------------------------------------------
(* What the steps of SessionHandles are to Sessions. *)

\* Every step is a step of the session model, or leaves it alone.
LEMMA SessionSteps == [Next]_vars => [SessNext]_sessVars
<1>1. ASSUME NEW s \in Sids,
             Refused(s) \/ Used(s) \/ ConnectDev(s) \/ DisConnectDev(s) \/ DigestInit(s)
               \/ EndDigest(s)
      PROVE  UNCHANGED sessVars
  BY <1>1 DEF Refused, Used, ConnectDev, DisConnectDev, DigestInit, EndDigest
<1>2. ASSUME NEW s \in Sids, AbandonedEnds(s) \/ HandlerPanics(s) PROVE SessNext
  BY <1>2 DEF AbandonedEnds, HandlerPanics, Unwinds, SessNext
<1>3. ASSUME NEW c \in Conns, Dispatch(c) \/ Reply(c) \/ Abandon(c) \/ Hangup(c) \/ Connect(c)
      PROVE  SessNext
  BY <1>3 DEF Dispatch, Reply, Abandon, Hangup, Connect, SessNext
<1>4. CASE UNCHANGED vars
  BY <1>4 DEF vars
<1>5. QED BY <1>1, <1>2, <1>3, <1>4 DEF Next

\* The handle tables live and die with session states that come and go as Sessions
\* says; the order in which a table and its natives are dropped does not interfere.
THEOREM HandlesImplementSessions == Spec => SessSpec
<1>1. Init => SessInit BY DEF Init
<1>2. QED BY <1>1, SessionSteps, PTL DEF Spec, SessSpec

\* The process starts with empty tables.
LEMMA HandleInit == Init => HandleInv
<1> SUFFICES ASSUME Init PROVE HandleInv
  OBVIOUS
<1> USE MaxIdsAssumption, MaxNativesAssumption, NoHandleAssumption
<1>1. StateInv BY StateInit DEF Init
<1>2. \A s \in Sids : DOMAIN table[s] = {} BY DEF Init
<1>3. \A n \in Natives : ~Named(n) /\ ~Shared(n) BY <1>2 DEF Named, Shared
<1>4. NativeInv
  <2>1. TableTypeOK BY <1>2 DEF Init, TableTypeOK, Natives
  <2>2. Unique /\ KindsRight BY <1>2 DEF Unique, KindsRight
  <2>3. Carriers BY DEF Init, Carriers
  <2>4. Counted BY <1>3 DEF Init, Counted, OneIf
  <2>5. QED BY <2>1, <2>2, <2>3, <2>4 DEF NativeInv
<1>5. NameInv BY <1>2 DEF Init, NameInv, OneMeaningPerState
<1>6. PlaceInv BY <1>2 DEF Init, PlaceInv, NoJob
<1>7. QED BY <1>1, <1>4, <1>5, <1>6 DEF HandleInv

-----------------------------------------------------------------------------
(* Guards that are dropped. *)

\* A native object loses one guard for its name, and one for the digest on it.
LEMMA DroppedCounts ==
  ASSUME NativeInv, NEW G \in SUBSET Natives, NEW n \in Natives
  PROVE  /\ Cardinality({g \in G : g = n}) = OneIf(n \in G)
         /\ Cardinality({g \in G : IsDigest(g) /\ carrier[g] = n})
              = OneIf(\E g \in G : carrier[g] # g /\ carrier[g] = n)
<1> DEFINE A == {g \in G : g = n}
           B == {g \in G : IsDigest(g) /\ carrier[g] = n}
<1>1. Cardinality(A) = OneIf(n \in G)
  <2>1. CASE n \in G
    <3>1. A = {n} BY <2>1
    <3>2. QED BY <2>1, <3>1, FS_Singleton DEF OneIf
  <2>2. CASE n \notin G
    <3>1. A = {} BY <2>2
    <3>2. QED BY <2>2, <3>1, FS_EmptySet DEF OneIf
  <2>3. QED BY <2>1, <2>2
<1>2. Cardinality(B) = OneIf(\E g \in G : carrier[g] # g /\ carrier[g] = n)
  <2>1. ASSUME NEW g \in G, carrier[g] # g, carrier[g] = n
        PROVE  Cardinality(B) = 1
    <3>1. B = {g} BY <2>1 DEF NativeInv, Carriers, IsDigest
    <3>2. QED BY <3>1, FS_Singleton
  <2>2. CASE ~\E g \in G : carrier[g] # g /\ carrier[g] = n
    <3>1. B = {} BY <2>2 DEF IsDigest
    <3>2. QED BY <2>2, <3>1, FS_EmptySet DEF OneIf
  <2>3. QED BY <2>1, <2>2 DEF OneIf
<1>3. QED BY <1>1, <1>2

\* A table that loses names, with their guards dropped, leaves the counts right.
LEMMA Shrinks ==
  ASSUME NativeInv,
         NEW G \in SUBSET Natives,
         DropGuards(G), UNCHANGED <<opened, carrier>>,
         table' = [s \in Sids |-> table'[s]],
         \A s \in Sids : \A h : h \in DOMAIN table'[s] =>
           h \in DOMAIN table[s] /\ table'[s][h] = table[s][h],
         \A s \in Sids : \A h \in DOMAIN table[s] :
           h \in DOMAIN table'[s] <=> table[s][h] \notin G,
         \A g \in G : Named(g)
  PROVE  NativeInv'
<1>1. \A n \in Natives : Named(n)' <=> Named(n) /\ n \notin G
  BY DEF Named
<1>2. \A n \in Natives :
        Shared(n)' <=> Shared(n) /\ ~\E g \in G : carrier[g] # g /\ carrier[g] = n
  BY <1>1 DEF Shared, NativeInv, Carriers
<1>3. ASSUME NEW n \in Natives
      PROVE  strong'[n] = OneIf(Named(n)') + OneIf(Shared(n)') /\ strong'[n] \in Nat
  <2>1. strong'[n] = strong[n] - OneIf(n \in G)
                               - OneIf(\E g \in G : carrier[g] # g /\ carrier[g] = n)
    BY DroppedCounts DEF DropGuards
  <2>2. strong[n] = OneIf(Named(n)) + OneIf(Shared(n)) BY DEF NativeInv, Counted
  <2>3. n \in G => Named(n) OBVIOUS
  <2>4. (\E g \in G : carrier[g] # g /\ carrier[g] = n) => Shared(n) BY DEF Shared
  <2>5. QED BY <1>1, <1>2, <2>1, <2>2, <2>3, <2>4 DEF OneIf
<1>4. TableTypeOK'
  <2>1. strong' \in [Natives -> Nat] BY <1>3 DEF DropGuards
  <2>2. QED BY <2>1 DEF NativeInv, TableTypeOK
<1>5. Unique' BY DEF NativeInv, Unique
<1>6. Carriers' BY DEF NativeInv, Carriers
<1>7. KindsRight' BY DEF NativeInv, KindsRight
<1>8. Counted' BY <1>3 DEF Counted
<1>9. QED BY <1>4, <1>5, <1>6, <1>7, <1>8 DEF NativeInv

\* DisConnectDev, DigestFinal and CloseHash: one name goes.
LEMMA OneNameGoes ==
  ASSUME NativeInv, NEW s \in Sids, NEW h \in DOMAIN table[s],
         DropGuards({table[s][h]}), UNCHANGED <<opened, carrier>>,
         table' = [table EXCEPT ![s] = Restrict(@, DOMAIN @ \ {h})]
  PROVE  /\ NativeInv'
         /\ \A t \in Sids : \A g : g \in DOMAIN table'[t] =>
              g \in DOMAIN table[t] /\ table'[t][g] = table[t][g]
         /\ \A t \in Sids : t # s => table'[t] = table[t]
<1> DEFINE G == {table[s][h]}
<1>0. table = [t \in Sids |-> table[t]] BY DEF NativeInv, TableTypeOK
<1>1. G \in SUBSET Natives /\ \A g \in G : Named(g)
  BY MaxNativesAssumption DEF NativeInv, TableTypeOK, Natives, Named
<1>2. /\ table' = [t \in Sids |-> table'[t]]
      /\ DOMAIN table'[s] = DOMAIN table[s] \ {h}
      /\ \A g \in DOMAIN table[s] \ {h} : table'[s][g] = table[s][g]
      /\ \A t \in Sids : t # s => table'[t] = table[t]
  BY <1>0 DEF Restrict
<1>3. \A t \in Sids : \A g : g \in DOMAIN table'[t] =>
        g \in DOMAIN table[t] /\ table'[t][g] = table[t][g]
  BY <1>2
<1>4. \A t \in Sids : \A g \in DOMAIN table[t] :
        g \in DOMAIN table'[t] <=> table[t][g] \notin G
  BY <1>2 DEF NativeInv, Unique
<1>5. QED BY <1>1, <1>2, <1>3, <1>4, Shrinks

\* A state is dropped: all its names go.
LEMMA AllNamesGo ==
  ASSUME NativeInv, NEW s \in Sids, DropTable(s), UNCHANGED <<opened, carrier>>
  PROVE  /\ NativeInv'
         /\ DOMAIN table'[s] = {}
         /\ \A t \in Sids : t # s => table'[t] = table[t]
<1> DEFINE G == Range(table[s])
<1>0. table = [t \in Sids |-> table[t]] BY DEF NativeInv, TableTypeOK
<1>1. G \in SUBSET Natives /\ \A g \in G : Named(g)
  BY MaxNativesAssumption DEF NativeInv, TableTypeOK, Natives, Named, Range
<1>2. /\ table' = [t \in Sids |-> table'[t]]
      /\ DOMAIN table'[s] = {}
      /\ \A t \in Sids : t # s => table'[t] = table[t]
  BY <1>0 DEF DropTable
<1>3. \A t \in Sids : \A g : g \in DOMAIN table'[t] =>
        g \in DOMAIN table[t] /\ table'[t][g] = table[t][g]
  BY <1>2
<1>4. \A t \in Sids : \A g \in DOMAIN table[t] :
        g \in DOMAIN table'[t] <=> table[t][g] \notin G
  BY <1>2 DEF NativeInv, Unique, Range
<1>5. DropGuards(G) BY DEF DropTable
<1>6. QED BY <1>1, <1>2, <1>3, <1>4, <1>5, Shrinks

-----------------------------------------------------------------------------
(* Names that are issued. *)

\* The numbers a table has not given out yet name nothing, and the native objects
\* not opened yet have no name, no digest on them and no device.
LEMMA Unused ==
  ASSUME NativeInv, NameInv
  PROVE  /\ \A n \in Natives : n > opened => ~Named(n) /\ ~Shared(n) /\ carrier[n] = n
         /\ \A s \in Sids, k \in {"dev", "hsh"}, i \in Nat :
              i > nextId[s] => <<k, i>> \notin DOMAIN table[s]
<1> USE MaxNativesAssumption, MaxIdsAssumption DEF Natives
<1>1. ASSUME NEW n \in Natives, n > opened
      PROVE  ~Named(n) /\ ~Shared(n) /\ carrier[n] = n
  <2>1. ~Named(n) BY <1>1 DEF NativeInv, TableTypeOK, Named
  <2>2. carrier[n] = n BY <1>1 DEF NativeInv, TableTypeOK, Carriers
  <2>3. ~Shared(n) BY <1>1 DEF NativeInv, TableTypeOK, Carriers, Shared
  <2>4. QED BY <2>1, <2>2, <2>3
<1>2. ASSUME NEW s \in Sids, NEW k \in {"dev", "hsh"}, NEW i \in Nat, i > nextId[s]
      PROVE  <<k, i>> \notin DOMAIN table[s]
  BY <1>2 DEF NameInv
<1>3. QED BY <1>1, <1>2

\* What the table of s and the others are after ConnectDev.
LEMMA ConnectDevTable ==
  ASSUME NativeInv, NameInv, NEW s \in Sids, ConnectDev(s)
  PROVE  /\ table' = [t \in Sids |-> table'[t]]
         /\ <<"dev", nextId[s] + 1>> \in Handles
         /\ DOMAIN table'[s] = DOMAIN table[s] \cup {<<"dev", nextId[s] + 1>>}
         /\ table'[s][<<"dev", nextId[s] + 1>>] = opened + 1
         /\ \A h \in DOMAIN table[s] :
              h # <<"dev", nextId[s] + 1>> /\ table'[s][h] = table[s][h]
         /\ \A t \in Sids : t # s => table'[t] = table[t]
<1>0. table = [t \in Sids |-> table[t]] /\ nextId[s] \in 0..MaxIds
  BY DEF NativeInv, TableTypeOK, NameInv
<1>1. <<"dev", nextId[s] + 1>> \notin DOMAIN table[s] BY <1>0, Unused
<1>2. <<"dev", nextId[s] + 1>> \in Handles
  BY <1>0, MaxIdsAssumption DEF ConnectDev, Handles
<1> DEFINE name == <<"dev", nextId[s] + 1>>
<1> HIDE DEF name
<1>3. table' = [table EXCEPT ![s] = Issue(@, name, opened + 1)] BY DEF ConnectDev, name
<1>4. table'[s] = Issue(table[s], name, opened + 1) BY <1>0, <1>3
<1>5. /\ table' = [t \in Sids |-> table'[t]]
      /\ \A t \in Sids : t # s => table'[t] = table[t]
  BY <1>0, <1>3
<1>6. /\ DOMAIN table'[s] = DOMAIN table[s] \cup {name}
      /\ table'[s][name] = opened + 1
      /\ \A h \in DOMAIN table[s] : h # name => table'[s][h] = table[s][h]
  BY <1>4 DEF Issue
<1>7. QED BY <1>1, <1>2, <1>5, <1>6 DEF name

\* ConnectDev: a new device under a new name.
LEMMA ConnectDevNatives ==
  ASSUME NativeInv, NameInv, NEW s \in Sids, ConnectDev(s)
  PROVE  NativeInv'
<1> DEFINE dev == opened + 1
           name == <<"dev", nextId[s] + 1>>
<1>0. /\ dev \in Natives /\ opened \in Nat /\ dev > opened
      /\ opened' = dev /\ UNCHANGED carrier
      /\ strong' = [strong EXCEPT ![dev] = 1]
      /\ name[1] = "dev"
  BY MaxNativesAssumption DEF ConnectDev, NativeInv, TableTypeOK, Natives
<1>1. /\ table' = [t \in Sids |-> table'[t]] /\ name \in Handles
      /\ DOMAIN table'[s] = DOMAIN table[s] \cup {name}
      /\ table'[s][name] = dev
      /\ \A h \in DOMAIN table[s] : h # name /\ table'[s][h] = table[s][h]
      /\ \A t \in Sids : t # s => table'[t] = table[t]
  BY ConnectDevTable
<1>2. ~Named(dev) /\ ~Shared(dev) /\ carrier[dev] = dev BY <1>0, Unused
<1> HIDE DEF dev, name
<1>3. \A n \in Natives : Named(n)' <=> Named(n) \/ n = dev
  BY <1>1 DEF Named
<1>4. \A n \in Natives : Shared(n)' <=> Shared(n)
  BY <1>0, <1>2, <1>3 DEF Shared
<1>5. TableTypeOK'
  BY <1>0, <1>1, MaxNativesAssumption DEF NativeInv, TableTypeOK, Natives
<1>6. \A t \in Sids : \A h \in DOMAIN table[t] : table[t][h] # dev
  BY <1>2 DEF Named
<1>7. Unique' BY <1>1, <1>6 DEF NativeInv, Unique
<1>8. Carriers' BY <1>0 DEF NativeInv, Carriers, TableTypeOK, Natives
<1>9. KindsRight' BY <1>0, <1>1, <1>2 DEF NativeInv, KindsRight
<1>10. Counted'
  <2> SUFFICES ASSUME NEW n \in Natives
               PROVE  strong'[n] = OneIf(Named(n)') + OneIf(Shared(n)')
    BY DEF Counted
  <2>1. CASE n = dev
    BY <1>0, <1>2, <1>3, <1>4, <2>1 DEF OneIf, NativeInv, TableTypeOK
  <2>2. CASE n # dev
    BY <1>0, <1>3, <1>4, <2>2 DEF OneIf, NativeInv, TableTypeOK, Counted
  <2>3. QED BY <2>1, <2>2
<1>11. QED BY <1>5, <1>7, <1>8, <1>9, <1>10 DEF NativeInv

\* What the tables are after DigestInit.
LEMMA DigestInitTable ==
  ASSUME NativeInv, NameInv, NEW s \in Sids, DigestInit(s)
  PROVE  /\ table' = [t \in Sids |-> table'[t]]
         /\ {<<"hsh", nextId[s] + 1>>, <<"dev", nextId[s] + 2>>} \subseteq Handles
         /\ DOMAIN table'[s] = DOMAIN table[s] \cup
                                 {<<"hsh", nextId[s] + 1>>, <<"dev", nextId[s] + 2>>}
         /\ table'[s][<<"hsh", nextId[s] + 1>>] = opened + 2
         /\ table'[s][<<"dev", nextId[s] + 2>>] = opened + 1
         /\ \A h \in DOMAIN table[s] :
              /\ h # <<"hsh", nextId[s] + 1>> /\ h # <<"dev", nextId[s] + 2>>
              /\ table'[s][h] = table[s][h]
         /\ \A t \in Sids : t # s => table'[t] = table[t]
<1>0. table = [t \in Sids |-> table[t]] /\ nextId[s] \in 0..MaxIds
  BY DEF NativeInv, TableTypeOK, NameInv
<1>1. /\ <<"hsh", nextId[s] + 1>> \notin DOMAIN table[s]
      /\ <<"dev", nextId[s] + 2>> \notin DOMAIN table[s]
  BY <1>0, Unused
<1>2. {<<"hsh", nextId[s] + 1>>, <<"dev", nextId[s] + 2>>} \subseteq Handles
  BY <1>0, MaxIdsAssumption DEF DigestInit, Handles
<1> DEFINE name == <<"hsh", nextId[s] + 1>>
           devName == <<"dev", nextId[s] + 2>>
<1>3. name # devName OBVIOUS
<1>4. table' = [table EXCEPT ![s] = Issue(Issue(@, name, opened + 2), devName, opened + 1)]
  BY DEF DigestInit
<1> HIDE DEF name, devName
<1>5. table'[s] = Issue(Issue(table[s], name, opened + 2), devName, opened + 1)
  BY <1>0, <1>4
<1>6. /\ table' = [t \in Sids |-> table'[t]]
      /\ \A t \in Sids : t # s => table'[t] = table[t]
  BY <1>0, <1>4
<1>7. /\ DOMAIN table'[s] = DOMAIN table[s] \cup {name, devName}
      /\ table'[s][name] = opened + 2
      /\ table'[s][devName] = opened + 1
      /\ \A h \in DOMAIN table[s] :
           h # name /\ h # devName => table'[s][h] = table[s][h]
  BY <1>3, <1>5 DEF Issue
<1>8. QED BY <1>1, <1>2, <1>6, <1>7 DEF name, devName

\* DigestInit: a new device and a digest that shares it, under two new names.
LEMMA DigestInitNatives ==
  ASSUME NativeInv, NameInv, NEW s \in Sids, DigestInit(s)
  PROVE  NativeInv'
<1> DEFINE dev == opened + 1
           hash == opened + 2
           name == <<"hsh", nextId[s] + 1>>
           devName == <<"dev", nextId[s] + 2>>
<1>0. /\ dev \in Natives /\ hash \in Natives /\ opened \in Nat
      /\ dev > opened /\ hash > dev /\ hash > opened /\ dev # hash
      /\ opened' = hash /\ carrier' = [carrier EXCEPT ![hash] = dev]
      /\ strong' = [strong EXCEPT ![dev] = 2, ![hash] = 1]
      /\ name[1] = "hsh" /\ devName[1] = "dev"
  BY MaxNativesAssumption DEF DigestInit, NativeInv, TableTypeOK, Natives
<1>1. /\ table' = [t \in Sids |-> table'[t]] /\ {name, devName} \subseteq Handles
      /\ DOMAIN table'[s] = DOMAIN table[s] \cup {name, devName}
      /\ table'[s][name] = hash
      /\ table'[s][devName] = dev
      /\ \A h \in DOMAIN table[s] : h # name /\ h # devName /\ table'[s][h] = table[s][h]
      /\ \A t \in Sids : t # s => table'[t] = table[t]
  BY DigestInitTable
<1>2. /\ ~Named(dev) /\ ~Shared(dev) /\ carrier[dev] = dev
      /\ ~Named(hash) /\ ~Shared(hash) /\ carrier[hash] = hash
  BY <1>0, Unused
<1> HIDE DEF dev, hash, name, devName
<1>a. /\ carrier \in [Natives -> Natives] /\ carrier'[hash] = dev
      /\ \A n \in Natives : n # hash => carrier'[n] = carrier[n]
  BY <1>0 DEF NativeInv, TableTypeOK
<1>3. \A n \in Natives : Named(n)' <=> Named(n) \/ n = dev \/ n = hash
  BY <1>1 DEF Named
<1>4. \A n \in Natives : Shared(n)' <=> Shared(n) \/ n = dev
  <2>1. ASSUME NEW n \in Natives, n = dev PROVE Shared(n)'
    BY <1>0, <1>3, <1>a, <2>1 DEF Shared
  <2>2. ASSUME NEW n \in Natives, n # dev PROVE Shared(n)' <=> Shared(n)
    BY <1>0, <1>2, <1>3, <1>a, <2>2 DEF Shared
  <2>3. QED BY <2>1, <2>2
<1>5. TableTypeOK'
  <2>1. carrier' \in [Natives -> Natives] /\ strong' \in [Natives -> Nat]
    BY <1>0 DEF NativeInv, TableTypeOK
  <2>2. opened' \in 0..MaxNatives BY <1>0, MaxNativesAssumption DEF Natives
  <2>3. ASSUME NEW t \in Sids
        PROVE  /\ DOMAIN table'[t] \subseteq Handles
               /\ \A h \in DOMAIN table'[t] : table'[t][h] \in 1..opened'
    <3>1. CASE t = s
      <4>1. DOMAIN table'[s] \subseteq Handles BY <1>1 DEF NativeInv, TableTypeOK
      <4>2. hash \in 1..hash /\ dev \in 1..hash BY <1>0 DEF Natives
      <4>3. \A h \in DOMAIN table[s] : table'[s][h] \in 1..hash
        BY <1>0, <1>1, MaxNativesAssumption DEF NativeInv, TableTypeOK, Natives
      <4>4. QED BY <1>0, <1>1, <3>1, <4>1, <4>2, <4>3
    <3>2. CASE t # s
      BY <1>0, <1>1, <3>2, MaxNativesAssumption DEF NativeInv, TableTypeOK, Natives
    <3>3. QED BY <3>1, <3>2
  <2>4. QED BY <1>1, <2>1, <2>2, <2>3 DEF TableTypeOK
<1>6. \A t \in Sids : \A h \in DOMAIN table[t] :
        table[t][h] # dev /\ table[t][h] # hash /\ table[t][h] \in Natives
  BY <1>2, MaxNativesAssumption DEF Named, NativeInv, TableTypeOK, Natives
<1>7. Unique' BY <1>0, <1>1, <1>6 DEF NativeInv, Unique
<1>8. Carriers'
  <2>1. \A n \in Natives : carrier[n] # n =>
          /\ n <= opened /\ carrier[n] <= opened /\ carrier[carrier[n]] = carrier[n]
          /\ n # hash /\ carrier[n] # hash /\ carrier[n] # dev
    BY <1>0, <1>a DEF NativeInv, Carriers, Natives
  <2>2. \A n \in Natives : carrier'[n] # n =>
          n <= opened' /\ carrier'[n] <= opened' /\ carrier'[carrier'[n]] = carrier'[n]
    <3> SUFFICES ASSUME NEW n \in Natives, carrier'[n] # n
                 PROVE  /\ n <= opened' /\ carrier'[n] <= opened'
                        /\ carrier'[carrier'[n]] = carrier'[n]
      OBVIOUS
    <3>1. CASE n = hash BY <1>0, <1>2, <1>a, <3>1 DEF Natives
    <3>2. CASE n # hash BY <1>0, <1>a, <2>1, <3>2 DEF Natives
    <3>3. QED BY <3>1, <3>2
  <2>3. \A m, n \in Natives :
          carrier'[m] # m /\ carrier'[n] # n /\ carrier'[m] = carrier'[n] => m = n
    BY <1>0, <1>a, <2>1 DEF NativeInv, Carriers
  <2>4. QED BY <2>2, <2>3 DEF Carriers
<1>9. KindsRight' BY <1>0, <1>1, <1>2, <1>6, <1>a DEF NativeInv, KindsRight
<1>10. Counted'
  <2> SUFFICES ASSUME NEW n \in Natives
               PROVE  strong'[n] = OneIf(Named(n)') + OneIf(Shared(n)')
    BY DEF Counted
  <2>1. CASE n = dev
    BY <1>0, <1>2, <1>3, <1>4, <2>1 DEF OneIf, NativeInv, TableTypeOK
  <2>2. CASE n = hash
    BY <1>0, <1>2, <1>3, <1>4, <2>2 DEF OneIf, NativeInv, TableTypeOK
  <2>3. CASE n # dev /\ n # hash
    BY <1>0, <1>3, <1>4, <2>3 DEF OneIf, NativeInv, TableTypeOK, Counted
  <2>4. QED BY <2>1, <2>2, <2>3
<1>11. QED BY <1>5, <1>7, <1>8, <1>9, <1>10 DEF NativeInv

-----------------------------------------------------------------------------
(* What every step keeps. *)

\* Names go, and new ones have numbers above nextId: what the clients were told
\* stays true.
LEMMA NamesMove ==
  ASSUME NameInv, UNCHANGED known, nextId' \in [Sids -> 0..MaxIds],
         \A t \in Sids : nextId[t] <= nextId'[t],
         \A t \in Sids : \A h \in DOMAIN table'[t] :
           \/ h \in DOMAIN table[t] /\ table'[t][h] = table[t][h]
           \/ nextId[t] < h[2] /\ h[2] <= nextId'[t],
         \A t \in Sids : DOMAIN table[t] \subseteq Handles
  PROVE  NameInv'
<1> USE MaxIdsAssumption
<1>0. nextId \in [Sids -> 0..MaxIds] BY DEF NameInv
<1>1. \A t \in Sids : \A h \in DOMAIN table'[t] : h[2] <= nextId'[t]
  BY <1>0 DEF NameInv, Handles
<1>2. ASSUME NEW c \in Conns, NEW x \in known'[c]
      PROVE  /\ x[2][2] <= nextId'[x[1]]
             /\ x[2] \in DOMAIN table'[x[1]] => table'[x[1]][x[2]] = x[3]
  <2>1. /\ x \in known[c] /\ x[1] \in Sids /\ x[2][2] \in 1..MaxIds
        /\ x[2][2] <= nextId[x[1]]
    BY <1>2 DEF NameInv, Handles
  <2>2. x[2][2] <= nextId'[x[1]] BY <1>0, <2>1
  <2>3. ~(nextId[x[1]] < x[2][2]) BY <1>0, <2>1
  <2>4. QED BY <2>1, <2>2, <2>3 DEF NameInv
<1>3. OneMeaningPerState' BY DEF NameInv, OneMeaningPerState
<1>4. known' \in [Conns -> SUBSET (Sids \X Handles \X Natives)] BY DEF NameInv
<1>5. QED BY <1>1, <1>2, <1>3, <1>4 DEF NameInv

\* A handler that ran on its task with an answer that names what is in the table.
LEMMA HandlerPlaces ==
  ASSUME PlaceInv, NEW s \in Sids, place[s] = "pool", UNCHANGED place,
         NEW h \in Handles \cup {NoHandle}, Answer(s, h),
         h # NoHandle => h \in DOMAIN table'[s],
         \A t \in Sids : t # s => table'[t] = table[t]
  PROVE  PlaceInv'
<1>1. /\ job'[s] = Done(h) /\ \A t \in Sids : t # s => job'[t] = job[t]
      /\ job' \in [Sids -> [m : HandleMethods \cup {"none", "done"}, h : Handles \cup {NoHandle}]]
  BY DEF PlaceInv, Answer, Done
<1>2. \A t \in Sids : place'[t] \notin {"guard", "pool"} => DOMAIN table'[t] = {}
  BY DEF PlaceInv
<1>3. \A t \in Sids : place'[t] # "pool" => job'[t].m = "none" BY <1>1 DEF PlaceInv
<1>4. \A t \in Sids : job'[t].m = "done" /\ job'[t].h # NoHandle => job'[t].h \in DOMAIN table'[t]
  BY <1>1 DEF PlaceInv, Done
<1>5. QED BY <1>1, <1>2, <1>3, <1>4 DEF PlaceInv

\* Nothing is opened, dropped or named.
LEMMA SameNatives ==
  ASSUME NativeInv, UNCHANGED <<table, opened, carrier, strong>>
  PROVE  NativeInv'
<1>1. \A n \in Natives : Named(n)' <=> Named(n) BY DEF Named
<1>2. \A n \in Natives : Shared(n)' <=> Shared(n) BY <1>1 DEF Shared
<1>3. Counted' BY <1>1, <1>2 DEF NativeInv, Counted, OneIf
<1>4. TableTypeOK' BY DEF NativeInv, TableTypeOK
<1>5. Unique' BY DEF NativeInv, Unique
<1>6. Carriers' /\ KindsRight' BY DEF NativeInv, Carriers, KindsRight
<1>7. QED BY <1>3, <1>4, <1>5, <1>6 DEF NativeInv

\* A handler that leaves the table alone.
LEMMA QuietHandler ==
  ASSUME HandleInv, NEW s \in Sids, Refused(s) \/ Used(s)
  PROVE  NativeInv' /\ NameInv' /\ PlaceInv'
<1>1. UNCHANGED <<sessVars, tableVars, nativeVars, known>> /\ Answer(s, NoHandle)
      /\ place[s] = "pool"
  BY DEF Refused, Used
<1>2. UNCHANGED <<table, nextId, opened, carrier, strong, known, place>>
  BY <1>1 DEF tableVars, nativeVars, sessVars
<1>3. PlaceInv' BY <1>1, <1>2, HandlerPlaces DEF HandleInv
<1>4. NativeInv'
  BY <1>2, SameNatives DEF HandleInv
<1>5. NameInv' BY <1>2 DEF HandleInv, NameInv, OneMeaningPerState
<1>6. QED BY <1>3, <1>4, <1>5

\* ConnectDev and DigestInit.
LEMMA OpeningHandler ==
  ASSUME HandleInv, NEW s \in Sids, ConnectDev(s) \/ DigestInit(s)
  PROVE  NativeInv' /\ NameInv' /\ PlaceInv'
<1> USE MaxIdsAssumption
<1>0. /\ NativeInv /\ NameInv /\ PlaceInv /\ nextId \in [Sids -> 0..MaxIds]
      /\ \A t \in Sids : DOMAIN table[t] \subseteq Handles
  BY DEF HandleInv, NameInv, NativeInv, TableTypeOK
<1>1. place[s] = "pool" /\ UNCHANGED <<place, known>>
  BY DEF ConnectDev, DigestInit, Called, sessVars
<1>2. CASE ConnectDev(s)
  <2> DEFINE name == <<"dev", nextId[s] + 1>>
  <2>1. /\ nextId' \in [Sids -> 0..MaxIds] /\ Answer(s, name)
        /\ nextId'[s] = nextId[s] + 1 /\ \A t \in Sids : t # s => nextId'[t] = nextId[t]
    BY <1>0, <1>2 DEF ConnectDev
  <2>2. name \in Handles /\ name[2] = nextId[s] + 1 BY <1>0, <1>2, ConnectDevTable
  <2>3. ASSUME NEW t \in Sids, NEW h \in DOMAIN table'[t]
        PROVE  \/ h \in DOMAIN table[t] /\ table'[t][h] = table[t][h]
               \/ nextId[t] < h[2] /\ h[2] <= nextId'[t]
    <3>1. /\ DOMAIN table'[s] = DOMAIN table[s] \cup {name}
          /\ \A g \in DOMAIN table[s] : table'[s][g] = table[s][g]
          /\ \A u \in Sids : u # s => table'[u] = table[u]
      BY <1>0, <1>2, ConnectDevTable
    <3>2. CASE t # s BY <3>1, <3>2
    <3>3. CASE t = s BY <1>0, <2>1, <2>2, <3>1, <3>3
    <3>4. QED BY <3>2, <3>3
  <2>4. NameInv' BY <1>0, <1>1, <2>1, <2>3, NamesMove
  <2>5. name \in DOMAIN table'[s] /\ \A t \in Sids : t # s => table'[t] = table[t]
    BY <1>0, <1>2, ConnectDevTable
  <2>6. PlaceInv' BY <1>0, <1>1, <2>1, <2>2, <2>5, HandlerPlaces
  <2>7. QED BY <1>0, <1>2, <2>4, <2>6, ConnectDevNatives
<1>3. CASE DigestInit(s)
  <2> DEFINE name == <<"hsh", nextId[s] + 1>>
             devName == <<"dev", nextId[s] + 2>>
  <2>1. /\ nextId' \in [Sids -> 0..MaxIds] /\ Answer(s, name)
        /\ nextId'[s] = nextId[s] + 2 /\ \A t \in Sids : t # s => nextId'[t] = nextId[t]
    BY <1>0, <1>3 DEF DigestInit
  <2>2. /\ name \in Handles /\ name[2] = nextId[s] + 1 /\ devName[2] = nextId[s] + 2
    BY <1>0, <1>3, DigestInitTable
  <2>3. ASSUME NEW t \in Sids, NEW h \in DOMAIN table'[t]
        PROVE  \/ h \in DOMAIN table[t] /\ table'[t][h] = table[t][h]
               \/ nextId[t] < h[2] /\ h[2] <= nextId'[t]
    <3>1. /\ DOMAIN table'[s] = DOMAIN table[s] \cup {name, devName}
          /\ \A g \in DOMAIN table[s] : table'[s][g] = table[s][g]
          /\ \A u \in Sids : u # s => table'[u] = table[u]
      BY <1>0, <1>3, DigestInitTable
    <3>2. CASE t # s BY <3>1, <3>2
    <3>3. CASE t = s BY <1>0, <2>1, <2>2, <3>1, <3>3
    <3>4. QED BY <3>2, <3>3
  <2>4. NameInv' BY <1>0, <1>1, <2>1, <2>3, NamesMove
  <2>5. name \in DOMAIN table'[s] /\ \A t \in Sids : t # s => table'[t] = table[t]
    BY <1>0, <1>3, DigestInitTable
  <2>6. PlaceInv' BY <1>0, <1>1, <2>1, <2>2, <2>5, HandlerPlaces
  <2>7. QED BY <1>0, <1>3, <2>4, <2>6, DigestInitNatives
<1>4. QED BY <1>2, <1>3

\* DisConnectDev, DigestFinal and CloseHash.
LEMMA ClosingHandler ==
  ASSUME HandleInv, NEW s \in Sids, DisConnectDev(s) \/ EndDigest(s)
  PROVE  NativeInv' /\ NameInv' /\ PlaceInv'
<1>0. /\ NativeInv /\ NameInv /\ PlaceInv /\ nextId \in [Sids -> 0..MaxIds]
      /\ \A t \in Sids : DOMAIN table[t] \subseteq Handles
  BY DEF HandleInv, NameInv, NativeInv, TableTypeOK
<1>1. /\ place[s] = "pool" /\ job[s].h \in DOMAIN table[s]
      /\ DropGuards({table[s][job[s].h]}) /\ Answer(s, NoHandle)
      /\ table' = [table EXCEPT ![s] = Restrict(@, DOMAIN @ \ {job[s].h})]
      /\ UNCHANGED <<opened, carrier, nextId, known, place>>
  BY DEF DisConnectDev, EndDigest, Called, sessVars
<1>2. /\ NativeInv'
      /\ \A t \in Sids : \A g : g \in DOMAIN table'[t] =>
           g \in DOMAIN table[t] /\ table'[t][g] = table[t][g]
      /\ \A t \in Sids : t # s => table'[t] = table[t]
  BY <1>0, <1>1, OneNameGoes
<1>3. \A t \in Sids : nextId[t] <= nextId'[t] BY <1>0, <1>1, MaxIdsAssumption
<1>4. \A t \in Sids : \A h \in DOMAIN table'[t] :
        \/ h \in DOMAIN table[t] /\ table'[t][h] = table[t][h]
        \/ nextId[t] < h[2] /\ h[2] <= nextId'[t]
  BY <1>2
<1>5. nextId' \in [Sids -> 0..MaxIds] /\ UNCHANGED known BY <1>0, <1>1
<1>6. NameInv' BY ONLY <1>0, <1>3, <1>4, <1>5, NamesMove
<1>7. PlaceInv' BY <1>0, <1>1, <1>2, HandlerPlaces
<1>8. QED BY <1>2, <1>6, <1>7

\* A state is dropped with its table, by the late thread, by one that unwinds or
\* where its client ends; a client whose handler panicked has a new empty one.
LEMMA StateDropped ==
  ASSUME HandleInv, NEW s \in Sids, DropTable(s), UNCHANGED <<nextId, opened, carrier, known>>,
         place[s] \in {"guard", "pool"},
         \/ place' = [place EXCEPT ![s] = "dropped"]
         \/ (minted < MaxSids /\ place' = [place EXCEPT ![s] = "dropped", ![minted + 1] = "guard"]),
         job' = [job EXCEPT ![s] = NoJob] \/ (UNCHANGED job /\ job[s].m = "none")
  PROVE  NativeInv' /\ NameInv' /\ PlaceInv'
<1>0. /\ NativeInv /\ NameInv /\ PlaceInv /\ nextId \in [Sids -> 0..MaxIds]
      /\ place \in [Sids -> Places]
      /\ \A t \in Sids : DOMAIN table[t] \subseteq Handles
  BY DEF HandleInv, NameInv, NativeInv, TableTypeOK, StateInv, StateTypeOK
<1>1. /\ NativeInv'
      /\ DOMAIN table'[s] = {}
      /\ \A t \in Sids : t # s => table'[t] = table[t]
  BY <1>0, AllNamesGo
<1>2. \A t \in Sids : \A h \in DOMAIN table'[t] :
        \/ h \in DOMAIN table[t] /\ table'[t][h] = table[t][h]
        \/ nextId[t] < h[2] /\ h[2] <= nextId'[t]
  BY <1>1
<1>3. /\ nextId' \in [Sids -> 0..MaxIds] /\ UNCHANGED known
      /\ \A t \in Sids : nextId[t] <= nextId'[t]
  BY <1>0, MaxIdsAssumption
<1>4. NameInv' BY ONLY <1>0, <1>2, <1>3, NamesMove
<1>5. PlaceInv'
  <2>0. job' = [job EXCEPT ![s] = NoJob] \/ (UNCHANGED job /\ job[s].m = "none")
    OBVIOUS
  <2>1. /\ job'[s].m = "none" /\ \A t \in Sids : t # s => job'[t] = job[t]
        /\ job' \in [Sids -> [m : HandleMethods \cup {"none", "done"}, h : Handles \cup {NoHandle}]]
    BY ONLY s \in Sids, <1>0, <2>0 DEF PlaceInv, NoJob
  <2>2. /\ place'[s] = "dropped"
        /\ \A t \in Sids : t # s =>
             place'[t] = place[t] \/ (place[t] = "unborn" /\ place'[t] = "guard")
    <3>1. minted \in 0..MaxSids /\ \A t \in Sids : t > minted => place[t] = "unborn"
      BY DEF HandleInv, StateInv, StateTypeOK, Fresh
    <3>2. minted < MaxSids =>
            minted + 1 \in Sids /\ place[minted + 1] = "unborn" /\ minted + 1 # s
      BY <3>1, MaxSidsAssumption DEF Sids
    <3>3. CASE place' = [place EXCEPT ![s] = "dropped"] BY <1>0, <3>3
    <3>4. CASE minted < MaxSids
                 /\ place' = [place EXCEPT ![s] = "dropped", ![minted + 1] = "guard"]
      BY <1>0, <3>2, <3>4
    <3>5. QED BY <3>3, <3>4
  <2>3. \A t \in Sids : place'[t] \notin {"guard", "pool"} => DOMAIN table'[t] = {}
    BY <1>0, <1>1, <2>2 DEF PlaceInv
  <2>4. \A t \in Sids : place'[t] # "pool" => job'[t].m = "none"
    BY <1>0, <2>1, <2>2 DEF PlaceInv
  <2>5. \A t \in Sids :
          job'[t].m = "done" /\ job'[t].h # NoHandle => job'[t].h \in DOMAIN table'[t]
    BY <1>0, <1>1, <2>1 DEF PlaceInv
  <2>6. QED BY <2>1, <2>3, <2>4, <2>5 DEF PlaceInv
<1>6. QED BY <1>1, <1>4, <1>5

\* A connection is admitted, refused or given a new empty state.
LEMMA StateCreated ==
  ASSUME HandleInv, UNCHANGED <<tableVars, nativeVars, job, known>>,
         \/ UNCHANGED place
         \/ minted < MaxSids /\ place' = [place EXCEPT ![minted + 1] = "guard"]
  PROVE  NativeInv' /\ NameInv' /\ PlaceInv'
<1>1. UNCHANGED <<table, nextId, opened, carrier, strong>> BY DEF tableVars, nativeVars
<1>2. NativeInv' BY <1>1, SameNatives DEF HandleInv
<1>3. NameInv' BY <1>1 DEF HandleInv, NameInv, OneMeaningPerState
<1>4. \A t \in Sids : place'[t] = place[t] \/ (place[t] = "unborn" /\ place'[t] = "guard")
  <2>1. /\ place \in [Sids -> Places] /\ minted \in 0..MaxSids
        /\ \A s \in Sids : s > minted => place[s] = "unborn"
    BY DEF HandleInv, StateInv, StateTypeOK, Fresh
  <2>2. minted < MaxSids => minted + 1 \in Sids /\ place[minted + 1] = "unborn"
    BY <2>1, MaxSidsAssumption DEF Sids
  <2>3. CASE UNCHANGED place BY <2>3
  <2>4. CASE minted < MaxSids /\ place' = [place EXCEPT ![minted + 1] = "guard"]
    BY <2>1, <2>2, <2>4
  <2>5. QED BY <2>3, <2>4
<1>5. PlaceInv' BY <1>1, <1>4 DEF HandleInv, PlaceInv
<1>6. QED BY <1>2, <1>3, <1>5

\* A request goes to its task.
LEMMA DispatchKeeps ==
  ASSUME HandleInv, NEW c \in Conns, Dispatch(c)
  PROVE  NativeInv' /\ NameInv' /\ PlaceInv'
<1>1. UNCHANGED <<table, nextId, opened, carrier, strong, known>>
  BY DEF Dispatch, tableVars, nativeVars
<1>2. NativeInv' BY <1>1, SameNatives DEF HandleInv
<1>3. NameInv' BY <1>1 DEF HandleInv, NameInv, OneMeaningPerState
<1>4. PlaceInv'
  <2>1. cur[c] \in Sids /\ place \in [Sids -> Places] /\ PlaceInv
    BY DEF Dispatch, TakeState, HandleInv, StateInv, StateTypeOK, StatePresent, InSession
  <2>2. /\ place'[cur[c]] = "pool" /\ \A t \in Sids : t # cur[c] => place'[t] = place[t]
        /\ place[cur[c]] = "guard"
    BY <2>1 DEF Dispatch, TakeState
  <2>3. PICK m \in HandleMethods, h \in Handles \cup {NoHandle} :
          job' = [job EXCEPT ![cur[c]] = [m |-> m, h |-> h]]
    BY DEF Dispatch
  <2>4. m # "done" BY DEF HandleMethods
  <2>5. /\ job' \in [Sids -> [m : HandleMethods \cup {"none", "done"}, h : Handles \cup {NoHandle}]]
        /\ job'[cur[c]].m # "done" /\ \A t \in Sids : t # cur[c] => job'[t] = job[t]
    BY <2>1, <2>3, <2>4 DEF PlaceInv
  <2>6. QED BY <1>1, <2>1, <2>2, <2>5 DEF PlaceInv
<1>5. QED BY <1>2, <1>3, <1>4

\* The client learns a name: it is in the table, and stands for what it is told.
LEMMA ReplyKeeps ==
  ASSUME HandleInv, NEW c \in Conns, Reply(c)
  PROVE  NativeInv' /\ NameInv' /\ PlaceInv'
<1> DEFINE s == cur[c]
           h == job[cur[c]].h
<1>0. /\ s \in Sids /\ place \in [Sids -> Places] /\ PlaceInv /\ NameInv /\ NativeInv
      /\ place[s] = "pool"
  BY DEF Reply, PutState, HandleInv, StateInv, StateTypeOK, StatePresent, InSession
<1>1. UNCHANGED <<table, nextId, opened, carrier, strong>>
  BY DEF Reply, tableVars, nativeVars
<1>2. NativeInv' BY <1>0, <1>1, SameNatives
<1>3. h # NoHandle => h \in DOMAIN table[s] /\ h \in Handles
  BY <1>0 DEF Reply, PlaceInv, NativeInv, TableTypeOK
<1>4. known' = [known EXCEPT ![c] = IF h = NoHandle THEN @ ELSE @ \cup {<<s, h, table[s][h]>>}]
  BY DEF Reply
<1>5. PlaceInv'
  <2>1. /\ place'[s] = "guard" /\ \A t \in Sids : t # s => place'[t] = place[t]
    BY <1>0 DEF Reply, PutState
  <2>2. /\ job' \in [Sids -> [m : HandleMethods \cup {"none", "done"}, h : Handles \cup {NoHandle}]]
        /\ job'[s].m = "none" /\ \A t \in Sids : t # s => job'[t] = job[t]
    BY <1>0 DEF PlaceInv, Reply, NoJob
  <2>3. \A t \in Sids : place'[t] \notin {"guard", "pool"} => DOMAIN table'[t] = {}
    BY <1>0, <1>1, <2>1 DEF PlaceInv
  <2>4. \A t \in Sids : place'[t] # "pool" => job'[t].m = "none"
    BY <1>0, <2>1, <2>2 DEF PlaceInv
  <2>5. \A t \in Sids :
          job'[t].m = "done" /\ job'[t].h # NoHandle => job'[t].h \in DOMAIN table'[t]
    BY <1>0, <1>1, <2>2 DEF PlaceInv
  <2>6. QED BY <2>2, <2>3, <2>4, <2>5 DEF PlaceInv
<1> HIDE DEF s, h
<1>6. NameInv'
  <2>1. CASE h = NoHandle
    <3>1. UNCHANGED known BY <1>0, <1>4, <2>1 DEF NameInv
    <3>2. QED BY <1>0, <1>1, <3>1 DEF NameInv, OneMeaningPerState
  <2>2. CASE h # NoHandle
    <3> DEFINE new == <<s, h, table[s][h]>>
    <3>1. /\ new \in Sids \X Handles \X Natives
          /\ new[1] = s /\ new[2] = h /\ new[3] = table[s][h]
      BY <1>0, <1>3, <2>2, MaxNativesAssumption DEF NativeInv, TableTypeOK, Natives
    <3> HIDE DEF new
    <3>2. /\ known' \in [Conns -> SUBSET (Sids \X Handles \X Natives)]
          /\ known'[c] = known[c] \cup {new}
          /\ \A d \in Conns : d # c => known'[d] = known[d]
      BY <1>0, <1>4, <2>2, <3>1 DEF NameInv, new
    <3>3. ASSUME NEW d \in Conns, NEW x \in known'[d]
          PROVE  /\ x[2][2] <= nextId[x[1]]
                 /\ x[2] \in DOMAIN table[x[1]] => table[x[1]][x[2]] = x[3]
      <4>1. CASE x \in known[d] BY <1>0, <4>1 DEF NameInv
      <4>2. CASE x = new BY <1>0, <1>3, <2>2, <3>1, <4>2 DEF NameInv
      <4>3. QED BY <3>2, <3>3, <4>1, <4>2
    <3>4. ASSUME NEW d \in Conns, NEW x \in known'[d], NEW y \in known'[d],
                 x[1] = y[1], x[2] = y[2]
          PROVE  x = y
      <4>1. CASE x \in known[d] /\ y \in known[d]
        BY <1>0, <3>4, <4>1 DEF NameInv, OneMeaningPerState
      <4>2. CASE x = new \/ y = new
        <5>1. x[1] = s /\ x[2] = h /\ y[1] = s /\ y[2] = h BY <3>1, <3>4, <4>2
        <5>2. x[3] = table[s][h] /\ y[3] = table[s][h]
          BY <1>3, <2>2, <3>3, <5>1
        <5>3. x \in Sids \X Handles \X Natives /\ y \in Sids \X Handles \X Natives
          BY <3>2
        <5>4. QED BY <5>1, <5>2, <5>3
      <4>3. QED BY <3>2, <4>1, <4>2
    <3>5. OneMeaningPerState' BY <3>4 DEF OneMeaningPerState
    <3>6. QED BY <1>0, <1>1, <3>2, <3>3, <3>5 DEF NameInv
  <2>3. QED BY <2>1, <2>2
<1>7. QED BY <1>2, <1>5, <1>6

\* HandleInv is kept by every step.
LEMMA HandleStep == HandleInv /\ [Next]_vars => HandleInv'
<1> SUFFICES ASSUME HandleInv, [Next]_vars PROVE HandleInv'
  OBVIOUS
<1>0. StateInv' BY SessionSteps, StateStep DEF HandleInv
<1> DEFINE Rest == NativeInv' /\ NameInv' /\ PlaceInv'
<1>1. ASSUME NEW s \in Sids, Refused(s) \/ Used(s) PROVE Rest
  BY <1>1, QuietHandler
<1>2. ASSUME NEW s \in Sids, ConnectDev(s) \/ DigestInit(s) PROVE Rest
  BY <1>2, OpeningHandler
<1>3. ASSUME NEW s \in Sids, DisConnectDev(s) \/ EndDigest(s) PROVE Rest
  BY <1>3, ClosingHandler
<1>4. ASSUME NEW s \in Sids, AbandonedEnds(s) PROVE Rest
  <2>1. /\ DropTable(s) /\ UNCHANGED <<nextId, opened, carrier, known>>
        /\ place' = [place EXCEPT ![s] = "dropped"] /\ place[s] \in {"guard", "pool"}
        /\ job' = [job EXCEPT ![s] = NoJob]
    BY <1>4 DEF AbandonedEnds, OrphanEnds, Orphan
  <2>2. job' = [job EXCEPT ![s] = NoJob] \/ (UNCHANGED job /\ job[s].m = "none")
    BY <2>1
  <2>3. QED BY <2>1, <2>2, StateDropped
<1>5. ASSUME NEW c \in Conns, Hangup(c) PROVE Rest
  <2>1. cur[c] \in Sids /\ job[cur[c]].m = "none"
    BY <1>5 DEF Hangup, Disconnect, HandleInv, StateInv, StateTypeOK, StatePresent,
                InSession, PlaceInv
  <2>2. /\ DropTable(cur[c]) /\ UNCHANGED <<nextId, opened, carrier, known, job>>
        /\ place' = [place EXCEPT ![cur[c]] = "dropped"]
        /\ place[cur[c]] \in {"guard", "pool"}
    BY <1>5 DEF Hangup, Disconnect, HandleInv, StateInv, StatePresent, InSession
  <2>3. QED BY <2>1, <2>2, StateDropped
<1>6. ASSUME NEW c \in Conns, Dispatch(c) PROVE Rest
  BY <1>6, DispatchKeeps
<1>7. ASSUME NEW c \in Conns, Reply(c) PROVE Rest
  BY <1>7, ReplyKeeps
<1>8. ASSUME NEW c \in Conns, Abandon(c) \/ Connect(c) PROVE Rest
  <2>1. /\ UNCHANGED <<tableVars, nativeVars, job, known>>
        /\ \/ UNCHANGED place
           \/ minted < MaxSids /\ place' = [place EXCEPT ![minted + 1] = "guard"]
    BY <1>8 DEF Abandon, Connect, TimeOut, Admit, Refuse, HandshakeFails, Create, Mint
  <2>2. QED BY <2>1, StateCreated
<1>9. ASSUME NEW s \in Sids, HandlerPanics(s) PROVE Rest
  <2>1. /\ DropTable(s) /\ UNCHANGED <<nextId, opened, carrier, known>>
        /\ job' = [job EXCEPT ![s] = NoJob]
    BY <1>9 DEF HandlerPanics
  <2>2. /\ place[s] \in {"guard", "pool"}
        /\ \/ place' = [place EXCEPT ![s] = "dropped"]
           \/ (minted < MaxSids /\ place' = [place EXCEPT ![s] = "dropped", ![minted + 1] = "guard"])
    BY <1>9 DEF HandlerPanics, MayPanic, Called, Unwinds, OrphanEnds, TaskPanics, Mint
  <2>3. job' = [job EXCEPT ![s] = NoJob] \/ (UNCHANGED job /\ job[s].m = "none")
    BY <2>1
  <2>4. QED BY <2>1, <2>2, <2>3, StateDropped
<1>10. CASE UNCHANGED vars
  <2>1. UNCHANGED <<tableVars, nativeVars, job, known, place>> BY <1>10 DEF vars, sessVars
  <2>2. Rest BY <2>1, StateCreated
  <2>3. QED BY <1>0, <2>2 DEF HandleInv
<1>11. QED
  BY <1>0, <1>1, <1>2, <1>3, <1>4, <1>5, <1>6, <1>7, <1>8, <1>9, <1>10 DEF Next, HandleInv

-----------------------------------------------------------------------------
(* What a reader should know of. *)

\* Every variable keeps its type: a guard is never dropped more often than it was
\* shared, and no table holds what was not opened.
THEOREM HandlesTypeCorrect == Spec => []HandlesTypeOK
<1>1. PermitInv /\ HandleInv => HandlesTypeOK
  <2> SUFFICES ASSUME PermitInv, HandleInv PROVE HandlesTypeOK
    OBVIOUS
  <2>1. SessTypeOK
    BY LiveFinite, MaxConnectionsAssumption
    DEF PermitInv, PermitsConserved, HandleInv, StateInv, StateTypeOK, SessTypeOK
  <2>2. \A s \in Sids : DOMAIN table[s] \subseteq Handles /\ Range(table[s]) \subseteq Natives
    BY MaxNativesAssumption DEF HandleInv, NativeInv, TableTypeOK, Range, Natives
  <2>3. QED
    BY <2>1, <2>2 DEF HandleInv, NativeInv, TableTypeOK, NameInv, PlaceInv, HandlesTypeOK
<1>2. Init => PermitInv /\ HandleInv BY PermitInit, HandleInit DEF Init
<1>3. PermitInv /\ HandleInv /\ [Next]_vars => (PermitInv /\ HandleInv)'
  BY PermitStep, HandleStep, SessionSteps
<1>4. QED BY <1>1, <1>2, <1>3, PTL DEF Spec

\* Whichever of a digest and its device is closed first, and whatever other
\* sessions drop meanwhile, a name in a table stands for an open object of its
\* kind, and a digest's device is open.
THEOREM NamesStayLive == Spec => []NamesAreLive
<1>1. HandleInv => NamesAreLive
  <2> SUFFICES ASSUME HandleInv, NEW s \in Sids, NEW h \in DOMAIN table[s]
               PROVE  /\ strong[table[s][h]] > 0 /\ strong[carrier[table[s][h]]] > 0
                      /\ carrier[table[s][h]] # table[s][h] <=> h[1] = "hsh"
    BY DEF NamesAreLive, IsDigest
  <2> DEFINE n == table[s][h]
  <2>1. n \in Natives /\ carrier[n] \in Natives /\ Named(n)
    BY MaxNativesAssumption DEF HandleInv, NativeInv, TableTypeOK, Natives, Named
  <2>2. carrier[n] # n => Shared(carrier[n]) BY <2>1 DEF Shared
  <2>3. \A k \in Natives : Named(k) \/ Shared(k) => strong[k] > 0
    BY DEF HandleInv, NativeInv, Counted, OneIf
  <2>4. QED BY <2>1, <2>2, <2>3 DEF HandleInv, NativeInv, KindsRight
<1>2. QED BY HandleInit, HandleStep, <1>1, PTL DEF Spec

\* A native object is open only as long as a state that exists has a name for it
\* or for the digest on it: neither a disconnect nor a timeout nor a panic of the
\* handler, which main.rs:281 leaves to the unwinding thread, leaks one.
THEOREM NothingOutlives == Spec => []NothingOutlivesItsState
<1>1. HandleInv => NothingOutlivesItsState
  <2> SUFFICES ASSUME HandleInv, NEW n \in Natives, strong[n] > 0
               PROVE  \E s \in Sids : /\ place[s] \in {"guard", "pool"}
                                       /\ \E g \in Range(table[s]) : n \in {g, carrier[g]}
    BY DEF NothingOutlivesItsState
  <2>1. Named(n) \/ Shared(n) BY DEF HandleInv, NativeInv, Counted, OneIf
  <2>2. PICK d \in Natives : Named(d) /\ n \in {d, carrier[d]} BY <2>1 DEF Shared
  <2>3. PICK s \in Sids : \E h \in DOMAIN table[s] : table[s][h] = d BY <2>2 DEF Named
  <2>4. place[s] \in {"guard", "pool"} BY <2>3 DEF HandleInv, PlaceInv
  <2>5. d \in Range(table[s]) BY <2>3 DEF Range
  <2>6. QED BY <2>2, <2>4, <2>5
<1>2. QED BY HandleInit, HandleStep, <1>1, PTL DEF Spec

\* As long as the state it was given for exists, a name stands for what its client
\* was told, or for nothing, and was told once: only the new table after a timeout
\* or a panic gives a name a second meaning, as the run handle_reuse shows.
THEOREM NamesKeepTheirMeaning ==
  Spec => [](/\ OneMeaningPerState
             /\ \A c \in Conns : \A x \in known[c] :
                  x[2] \in DOMAIN table[x[1]] => table[x[1]][x[2]] = x[3])
<1> DEFINE Kept == \A c \in Conns : \A x \in known[c] :
                     x[2] \in DOMAIN table[x[1]] => table[x[1]][x[2]] = x[3]
<1>1. HandleInv => OneMeaningPerState /\ Kept BY DEF HandleInv, NameInv
<1>2. QED BY HandleInit, HandleStep, <1>1, PTL DEF Spec
=============================================================================
