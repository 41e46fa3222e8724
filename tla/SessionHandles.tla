--------------------------- MODULE SessionHandles ---------------------------
(***************************************************************************)
(* The handles a session keeps from one request to the next.               *)
(*                                                                         *)
(* ConnectDev and DigestInit leave native objects in the HandleTable of    *)
(* the SessionState (session/handles.rs) and answer with a name such as    *)
(* dev-1 or hsh-2.  The table holds guards, and a digest guard shares its  *)
(* device through an Arc, so a native device is disconnected when the last *)
(* of its guards is dropped, whichever of the two names is closed first    *)
(* and whatever thread drops the state.                                    *)
(*                                                                         *)
(* Applications and containers have tables of the same shape, but no       *)
(* method issues a handle for one.  A handler touches only the state it    *)
(* carries, so each of them is one step; the connection may give up on it  *)
(* before that step or after it.  Any other method leaves the table alone, *)
(* and is here because its handler may panic.                              *)
(***************************************************************************)
EXTENDS Sessions, Functions

CONSTANTS
  MaxIds,      \* bound: the last number a table gives out
  MaxNatives,  \* bound: how many native objects are ever opened
  NoHandle     \* no handle in a request or an answer

Handles == {"dev", "hsh"} \X (1..MaxIds)

ASSUME MaxIdsAssumption == MaxIds \in Nat
ASSUME MaxNativesAssumption == MaxNatives \in Nat
ASSUME NoHandleAssumption == NoHandle \notin Handles

Natives == 1..MaxNatives

HandleMethods ==
  {"ConnectDev", "DisConnectDev", "GenerateRandom", "DigestInit", "DigestUpdate",
   "DigestFinal", "CloseHash", "Other"}

VARIABLES
  table,    \* the HandleTable of each state: what its names stand for
  nextId,   \* its next_id
  job,      \* the call the task of each state has to make, or its answer
  opened,   \* how many native objects have been opened so far
  carrier,  \* the device of each native object: a device is its own
  strong,   \* the guards that share each native object; closed when it is 0
  known     \* history: the names each client was given, and for what

tableVars == <<table, nextId>>
nativeVars == <<opened, carrier, strong>>
vars == <<sessVars, tableVars, nativeVars, job, known>>

NoJob == [m |-> "none", h |-> NoHandle]
Done(h) == [m |-> "done", h |-> h]

HandlesTypeOK ==
  /\ SessTypeOK
  /\ \A s \in Sids : DOMAIN table[s] \subseteq Handles /\ Range(table[s]) \subseteq Natives
  /\ nextId \in [Sids -> 0..MaxIds]
  /\ job \in [Sids -> [m : HandleMethods \cup {"none", "done"}, h : Handles \cup {NoHandle}]]
  /\ opened \in 0..MaxNatives
  /\ carrier \in [Natives -> Natives]
  /\ strong \in [Natives -> Nat]
  /\ known \in [Conns -> SUBSET (Sids \X Handles \X Natives)]

Init ==
  /\ SessInit
  /\ table = [s \in Sids |-> <<>>]
  /\ nextId = [s \in Sids |-> 0]
  /\ job = [s \in Sids |-> NoJob]
  /\ opened = 0
  /\ carrier = [n \in Natives |-> n]
  /\ strong = [n \in Natives |-> 0]
  /\ known = [c \in Conns |-> {}]

-----------------------------------------------------------------------------
(* HandleTable and the guards in it. *)

IsDigest(n) == carrier[n] # n

\* Dropping a set of guards: each gives up its own object, and a digest its
\* share of the device.
DropGuards(guards) ==
  strong' = [n \in Natives |->
               strong[n] - Cardinality({g \in guards : g = n})
                         - Cardinality({g \in guards : IsDigest(g) /\ carrier[g] = n})]

\* The names of a table, with one that stands for native object n more.
Issue(t, h, n) == [x \in DOMAIN t \cup {h} |-> IF x = h THEN n ELSE t[x]]

\* Dropping a state: its table and every guard in it.
DropTable(s) ==
  /\ DropGuards(Range(table[s]))
  /\ table' = [table EXCEPT ![s] = <<>>]

-----------------------------------------------------------------------------
(* The handlers, run by the task that carries state s. *)

Called(s, m) == place[s] = "pool" /\ job[s].m = m

Answer(s, h) == job' = [job EXCEPT ![s] = Done(h)]

\* The handle is unknown or of another kind (-11), or the vendor call fails: for
\* all but the three methods that remove the name first, nothing has changed.
Refused(s) ==
  /\ place[s] = "pool"
  /\ job[s].m \in HandleMethods
  /\ job[s].m \in {"DisConnectDev", "DigestFinal", "CloseHash"} =>
       job[s].h \notin DOMAIN table[s]
         \/ job[s].h[1] # IF job[s].m = "DisConnectDev" THEN "dev" ELSE "hsh"
  /\ Answer(s, NoHandle)
  /\ UNCHANGED <<sessVars, tableVars, nativeVars, known>>

\* The device or the digest is used and stays.
Used(s) ==
  /\ place[s] = "pool"
  /\ job[s].h \in DOMAIN table[s]
  /\ \/ job[s].m = "GenerateRandom" /\ job[s].h[1] = "dev"
     \/ job[s].m = "DigestUpdate" /\ job[s].h[1] = "hsh"
  /\ Answer(s, NoHandle)
  /\ UNCHANGED <<sessVars, tableVars, nativeVars, known>>

\* A device is connected and stays in the table.
ConnectDev(s) ==
  /\ Called(s, "ConnectDev")
  /\ opened < MaxNatives /\ nextId[s] < MaxIds
  /\ LET dev == opened + 1
         name == <<"dev", nextId[s] + 1>>
     IN  /\ opened' = dev
         /\ strong' = [strong EXCEPT ![dev] = 1]
         /\ table' = [table EXCEPT ![s] = Issue(@, name, dev)]
         /\ nextId' = [nextId EXCEPT ![s] = @ + 1]
         /\ Answer(s, name)
  /\ UNCHANGED <<sessVars, carrier, known>>

\* Mutant of DisConnectDev: the device is disconnected whoever shares it.
DisConnectDevNow(s) ==
  /\ Called(s, "DisConnectDev")
  /\ job[s].h \in DOMAIN table[s] /\ job[s].h[1] = "dev"
  /\ strong' = [strong EXCEPT ![table[s][job[s].h]] = 0]
  /\ table' = [table EXCEPT ![s] = Restrict(@, DOMAIN @ \ {job[s].h})]
  /\ Answer(s, NoHandle)
  /\ UNCHANGED <<sessVars, nextId, opened, carrier, known>>

\* The name is removed and its guard dropped: the device is disconnected unless a
\* digest shares it.
DisConnectDev(s) ==
  /\ Called(s, "DisConnectDev")
  /\ job[s].h \in DOMAIN table[s] /\ job[s].h[1] = "dev"
  /\ DropGuards({table[s][job[s].h]})
  /\ table' = [table EXCEPT ![s] = Restrict(@, DOMAIN @ \ {job[s].h})]
  /\ Answer(s, NoHandle)
  /\ UNCHANGED <<sessVars, nextId, opened, carrier, known>>

\* On the default provider: a device of its own is opened for the digest, shared
\* with it, and kept under a name the client is not told.
DigestInit(s) ==
  /\ Called(s, "DigestInit")
  /\ opened + 1 < MaxNatives /\ nextId[s] + 1 < MaxIds
  /\ LET dev == opened + 1
         hash == opened + 2
         name == <<"hsh", nextId[s] + 1>>
     IN  /\ opened' = hash
         /\ carrier' = [carrier EXCEPT ![hash] = dev]
         /\ strong' = [strong EXCEPT ![dev] = 2, ![hash] = 1]
         /\ table' = [table EXCEPT ![s] = Issue(Issue(@, name, hash),
                                                <<"dev", nextId[s] + 2>>, dev)]
         /\ nextId' = [nextId EXCEPT ![s] = @ + 2]
         /\ Answer(s, name)
  /\ UNCHANGED <<sessVars, known>>

\* DigestFinal and CloseHash take the digest out of the table and drop it, also
\* when digest_final fails.  The device stays in the table.
EndDigest(s) ==
  /\ Called(s, "DigestFinal") \/ Called(s, "CloseHash")
  /\ job[s].h \in DOMAIN table[s] /\ job[s].h[1] = "hsh"
  /\ DropGuards({table[s][job[s].h]})
  /\ table' = [table EXCEPT ![s] = Restrict(@, DOMAIN @ \ {job[s].h})]
  /\ Answer(s, NoHandle)
  /\ UNCHANGED <<sessVars, nextId, opened, carrier, known>>

-----------------------------------------------------------------------------
(* The connection around its task. *)

\* Where a handler may panic: somewhere in one that leaves the table alone, or in
\* GenerateRandom, which allocates as many bytes as the client asked for.
MayPanic(s) ==
  \/ Called(s, "Other")
  \/ Called(s, "GenerateRandom") /\ job[s].h \in DOMAIN table[s] /\ job[s].h[1] = "dev"

\* The task that carries s ends without a result, awaited or not.
Unwinds(s) == OrphanEnds(s) \/ \E c \in Conns : cur[c] = s /\ TaskPanics(c)

\* Mutant of HandlerPanics: the guards are forgotten, not dropped, as the thread
\* unwinds.
HandlerPanicsLeaking(s) ==
  /\ MayPanic(s)
  /\ Unwinds(s)
  /\ table' = [table EXCEPT ![s] = <<>>]
  /\ job' = [job EXCEPT ![s] = NoJob]
  /\ UNCHANGED <<nextId, nativeVars, known>>

\* The handler panics: its state and the table are dropped as the thread unwinds.
HandlerPanics(s) ==
  /\ MayPanic(s)
  /\ Unwinds(s)
  /\ DropTable(s)
  /\ job' = [job EXCEPT ![s] = NoJob]
  /\ UNCHANGED <<nextId, opened, carrier, known>>

\* A frame arrives; the client may send back any name, its own or not.
Dispatch(c) ==
  /\ TakeState(c)
  /\ \E m \in HandleMethods, h \in Handles \cup {NoHandle} :
       /\ h = NoHandle <=> m \in {"ConnectDev", "DigestInit", "Other"}
       /\ job' = [job EXCEPT ![cur[c]] = [m |-> m, h |-> h]]
  /\ UNCHANGED <<tableVars, nativeVars, known>>

\* The handler was in time: the client learns the name.
Reply(c) ==
  /\ PutState(c)
  /\ job[cur[c]].m = "done"
  /\ LET s == cur[c]
         h == job[cur[c]].h
     IN  known' = [known EXCEPT ![c] =
                     IF h = NoHandle THEN @ ELSE @ \cup {<<s, h, table[s][h]>>}]
  /\ job' = [job EXCEPT ![cur[c]] = NoJob]
  /\ UNCHANGED <<tableVars, nativeVars>>

\* The limit passes before the handler is done, or just as it is.
Abandon(c) ==
  /\ TimeOut(c)
  /\ UNCHANGED <<tableVars, nativeVars, job, known>>

\* Mutant of AbandonedEnds: the late thread forgets the guards of its state.
AbandonedEndsLeaking(s) ==
  /\ job[s].m = "done"
  /\ OrphanEnds(s)
  /\ table' = [table EXCEPT ![s] = <<>>]
  /\ job' = [job EXCEPT ![s] = NoJob]
  /\ UNCHANGED <<nextId, nativeVars, known>>

\* The abandoned handler is done: its state is dropped on its thread.
AbandonedEnds(s) ==
  /\ job[s].m = "done"
  /\ OrphanEnds(s)
  /\ DropTable(s)
  /\ job' = [job EXCEPT ![s] = NoJob]
  /\ UNCHANGED <<nextId, opened, carrier, known>>

\* Mutant of Hangup: the table is drained and then dropped once more.
HangupDroppingTwice(c) ==
  /\ Disconnect(c)
  /\ strong' = [n \in Natives |-> IF n \in Range(table[cur[c]]) THEN strong[n] - 2
                                                               ELSE strong[n]]
  /\ table' = [table EXCEPT ![cur[c]] = <<>>]
  /\ UNCHANGED <<nextId, opened, carrier, job, known>>

\* The client task ends: the state and its table are dropped where it runs.
Hangup(c) ==
  /\ Disconnect(c)
  /\ DropTable(cur[c])
  /\ UNCHANGED <<nextId, opened, carrier, job, known>>

Connect(c) ==
  /\ Admit(c) \/ Refuse(c) \/ HandshakeFails(c) \/ Create(c)
  /\ UNCHANGED <<tableVars, nativeVars, job, known>>

Next ==
  \/ \E s \in Sids : Refused(s)
  \/ \E s \in Sids : Used(s)
  \/ \E s \in Sids : ConnectDev(s)
  \/ \E s \in Sids : DisConnectDev(s)
  \/ \E s \in Sids : DigestInit(s)
  \/ \E s \in Sids : EndDigest(s)
  \/ \E s \in Sids : HandlerPanics(s)
  \/ \E s \in Sids : AbandonedEnds(s)
  \/ \E c \in Conns : Dispatch(c)
  \/ \E c \in Conns : Reply(c)
  \/ \E c \in Conns : Abandon(c)
  \/ \E c \in Conns : Hangup(c)
  \/ \E c \in Conns : Connect(c)

Spec == Init /\ [][Next]_vars

-----------------------------------------------------------------------------
(* Properties. *)

\* What a name stands for is open and of the kind the name says, and a digest's
\* device is open too, whichever of the two names was closed first: no vendor
\* call gets a closed handle or one of another kind.
NamesAreLive ==
  \A s \in Sids : \A h \in DOMAIN table[s] :
    LET n == table[s][h]
    IN  /\ strong[n] > 0 /\ strong[carrier[n]] > 0
        /\ IsDigest(n) <=> h[1] = "hsh"

\* What is open belongs to a state that still exists: neither a disconnect nor
\* an abandoned request nor a handler that panics, awaited or abandoned, leaves a
\* native object behind.
NothingOutlivesItsState ==
  \A n \in Natives :
    strong[n] > 0 =>
      \E s \in Sids : /\ place[s] \in {"guard", "pool"}
                      /\ \E g \in Range(table[s]) : n \in {g, carrier[g]}

\* A name that its connection was given and that is expired is refused: it never
\* stands for anything but what it was given for (docs/SESSION-AND-LIMITS.md:55).
\* After a timeout or a panic the code does not keep this: the numbers of the new
\* table start again.
ExpiredNamesRefused ==
  \A c \in InSession : \A x \in known[c] :
    x[2] \in DOMAIN table[cur[c]] => table[cur[c]][x[2]] = x[3]
=============================================================================
