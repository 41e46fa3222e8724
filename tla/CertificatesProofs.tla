------------------------- MODULE CertificatesProofs -------------------------
(***************************************************************************)
(* The safety properties of Certificates, proved for any number of         *)
(* requests, crashes and retries.                                          *)
(*                                                                         *)
(* What a request finds in its own files depends on no other request       *)
(* unless one has read the same time (FilesInv).  The pair of the CA is    *)
(* sound as long as one request at a time was creating it (CaInv),         *)
(* whatever the clock does.                                                *)
(***************************************************************************)
EXTENDS Certificates, TLAPS

Under(r) == at[r] \notin {"new", "done", "lost"}

\* A request that is under way has read the clock.
Stamped == \A r \in Calls : Under(r) => stamp[r] \in Stamps

TypeInv == CertTypeOK /\ Stamped

\* The directory starts empty, and no request has begun.
LEMMA CertTypeInit == CertInit => TypeInv
  BY DEF CertInit, TypeInv, CertTypeOK, Stamped, Under, Labels, Results

\* Every step keeps the requests, their files and the CA within their types.
LEMMA CertTypeStep == TypeInv /\ [CertNext]_vars => TypeInv'
<1> SUFFICES ASSUME TypeInv, [CertNext]_vars PROVE TypeInv'
  OBVIOUS
<1> USE DEF TypeInv, Stamped, Under, CertTypeOK, Step, Answer, Write, File, Labels, Results, Names,
            SignFiles, KeyFiles, EncFiles, reqVars, caVars, histVars
<1>1. ASSUME NEW r \in Calls, Refuse(r) PROVE TypeInv'
  BY <1>1 DEF Refuse
<1>2. ASSUME NEW r \in Calls, ReadClock(r) PROVE TypeInv'
  BY <1>2 DEF ReadClock
<1>3. ASSUME NEW r \in Calls, WriteCsr(r) PROVE TypeInv'
  BY <1>3 DEF WriteCsr
<1>4. ASSUME NEW r \in Calls, WriteCsrFails(r) PROVE TypeInv'
  <2>1. files' \in [Names \X Stamps -> Calls \cup {NoCall}] BY <1>4 DEF WriteCsrFails
  <2>2. QED BY <1>4, <2>1 DEF WriteCsrFails
<1>5. ASSUME NEW r \in Calls, CheckCa(r) PROVE TypeInv'
  BY <1>5 DEF CheckCa
<1>6. ASSUME NEW r \in Calls, WriteCaKey(r) PROVE TypeInv'
  BY <1>6 DEF WriteCaKey
<1>7. ASSUME NEW r \in Calls, WriteCaCrt(r) PROVE TypeInv'
  BY <1>7 DEF WriteCaCrt
<1>8. ASSUME NEW r \in Calls, CaFails(r) PROVE TypeInv'
  BY <1>8 DEF CaFails
<1>9. ASSUME NEW r \in Calls, ExtractPub(r) PROVE TypeInv'
  BY <1>9 DEF ExtractPub
<1>10. ASSUME NEW r \in Calls, MakeDummy(r) PROVE TypeInv'
  BY <1>10 DEF MakeDummy
<1>11. ASSUME NEW r \in Calls, Sign(r) PROVE TypeInv'
  BY <1>11 DEF Sign
<1>12. ASSUME NEW r \in Calls, SignFails(r) PROVE TypeInv'
  BY <1>12 DEF SignFails, RemoveFiles, Removed
<1>13. ASSUME NEW r \in Calls, ReadSingle(r) PROVE TypeInv'
  <2>0. PICK c \in {File(r, "crt"), NoCall} : cert' = [cert EXCEPT ![r] = c]
    BY <1>13 DEF ReadSingle, ReadBack
  <2>1. cert' \in [Calls -> Calls \cup {NoCall}]
    <3>1. "crt" \in Names /\ stamp[r] \in Stamps BY <1>13 DEF ReadSingle
    <3>2. c \in Calls \cup {NoCall} BY <3>1
    <3>3. QED BY <2>0, <3>2
  <2>2. files' \in [Names \X Stamps -> Calls \cup {NoCall}] /\ stuck' \subseteq Calls \X Names
    BY <1>13 DEF ReadSingle, RemoveFiles, Removed
  <2>3. result' \in [Calls -> Results] BY <1>13 DEF ReadSingle
  <2>4. QED BY <1>13, <2>1, <2>2, <2>3 DEF ReadSingle
<1>14. ASSUME NEW r \in Calls, ReadDouble(r) PROVE TypeInv'
  BY <1>14 DEF ReadDouble, ReadBack
<1>15. ASSUME NEW r \in Calls, MakeEncKey(r) PROVE TypeInv'
  BY <1>15 DEF MakeEncKey
<1>16. ASSUME NEW r \in Calls, ExtractEncPub(r) PROVE TypeInv'
  BY <1>16 DEF ExtractEncPub
<1>17. ASSUME NEW r \in Calls, MakeDummy2(r) PROVE TypeInv'
  BY <1>17 DEF MakeDummy2
<1>18. ASSUME NEW r \in Calls, SignEnc(r) PROVE TypeInv'
  BY <1>18 DEF SignEnc
<1>19. ASSUME NEW r \in Calls, Finish(r) PROVE TypeInv'
  BY <1>19 DEF Finish, RemoveFiles, Removed
<1>20. CASE Crash
  BY <1>20 DEF Crash
<1>21. ASSUME NEW r \in Calls, RemoveKeyFiles(r) PROVE TypeInv'
  BY <1>21 DEF RemoveKeyFiles, RemoveFiles, Removed
<1>22. ASSUME NEW r \in Calls, HandlerPanics(r) PROVE TypeInv'
  BY <1>22 DEF HandlerPanics
<1>23. CASE UNCHANGED vars
  BY <1>23 DEF vars
<1>24. QED
  BY <1>1, <1>2, <1>3, <1>4, <1>5, <1>6, <1>7, <1>8, <1>9, <1>10, <1>11, <1>12, <1>13, <1>14,
     <1>15, <1>16, <1>17, <1>18, <1>19, <1>20, <1>21, <1>22, <1>23 DEF CertNext

\* No request leaves its own bookkeeping, the directory or the CA in a state the
\* handler does not expect.
THEOREM CertTypeCorrect == CertSpec => []CertTypeOK
<1>1. TypeInv => CertTypeOK BY DEF TypeInv
<1>2. QED BY CertTypeInit, CertTypeStep, <1>1, PTL DEF CertSpec

-----------------------------------------------------------------------------
(* The CA. *)

\* As long as no two requests were creating the CA at once, the one that does
\* finds no key and nobody replaces the key it writes.
OneCreator ==
  ~overlap =>
    /\ \A r, q \in Creating : r = q
    /\ \A r \in Calls : at[r] = "cakey" => caKey = NoCall
    /\ \A r \in Calls : at[r] = "cacrt" => caKey = r

PairSound == ~overlap /\ ~cut /\ Creating = {} /\ caKey # NoCall => caKey = caCrt

IssuedSound ==
  ~overlap => \A r \in Calls :
    at[r] = "read" \/ cert[r] # NoCall => issuer[r] = caKey /\ CaMatches

CaInv == TypeInv /\ OneCreator /\ PairSound /\ IssuedSound

\* There is no CA at first.
LEMMA CaInit == CertInit => CaInv
<1>1. CertInit => TypeInv BY CertTypeInit
<1>2. CertInit => OneCreator /\ PairSound /\ IssuedSound
  BY DEF CertInit, OneCreator, PairSound, IssuedSound, Creating
<1>3. QED BY <1>1, <1>2 DEF CaInv

\* CaInv is kept by every step.
LEMMA CaStep == CaInv /\ [CertNext]_vars => CaInv'
<1> SUFFICES ASSUME CaInv, [CertNext]_vars PROVE CaInv'
  OBVIOUS
<1>0. TypeInv' BY CertTypeStep DEF CaInv
<1> USE NoCallAssumption
    DEF CaInv, TypeInv, CertTypeOK, OneCreator, PairSound, IssuedSound, Creating, CaMatches,
        Step, Answer, Write, reqVars, caVars, histVars
<1>1. ASSUME NEW r \in Calls, Refuse(r) PROVE CaInv'
  BY <1>1, <1>0 DEF Refuse
<1>2. ASSUME NEW r \in Calls, ReadClock(r) PROVE CaInv'
  BY <1>2, <1>0 DEF ReadClock
<1>3. ASSUME NEW r \in Calls, WriteCsr(r) PROVE CaInv'
  BY <1>3, <1>0 DEF WriteCsr
<1>4. ASSUME NEW r \in Calls, WriteCsrFails(r) PROVE CaInv'
  BY <1>4, <1>0 DEF WriteCsrFails
<1>5. ASSUME NEW r \in Calls, CheckCa(r) PROVE CaInv'
  BY <1>5, <1>0 DEF CheckCa
<1>6. ASSUME NEW r \in Calls, WriteCaKey(r) PROVE CaInv'
  BY <1>6, <1>0 DEF WriteCaKey
<1>7. ASSUME NEW r \in Calls, WriteCaCrt(r) PROVE CaInv'
  BY <1>7, <1>0 DEF WriteCaCrt
<1>8. ASSUME NEW r \in Calls, CaFails(r) PROVE CaInv'
  BY <1>8, <1>0 DEF CaFails
<1>9. ASSUME NEW r \in Calls, ExtractPub(r) PROVE CaInv'
  BY <1>9, <1>0 DEF ExtractPub
<1>10. ASSUME NEW r \in Calls, MakeDummy(r) PROVE CaInv'
  BY <1>10, <1>0 DEF MakeDummy
<1>11. ASSUME NEW r \in Calls, Sign(r) PROVE CaInv'
  BY <1>11, <1>0 DEF Sign
<1>12. ASSUME NEW r \in Calls, SignFails(r) PROVE CaInv'
  BY <1>12, <1>0 DEF SignFails, RemoveFiles, Removed
<1>13. ASSUME NEW r \in Calls, ReadSingle(r) PROVE CaInv'
  BY <1>13, <1>0 DEF ReadSingle, ReadBack, RemoveFiles, Removed
<1>14. ASSUME NEW r \in Calls, ReadDouble(r) PROVE CaInv'
  BY <1>14, <1>0 DEF ReadDouble, ReadBack
<1>15. ASSUME NEW r \in Calls, MakeEncKey(r) PROVE CaInv'
  BY <1>15, <1>0 DEF MakeEncKey
<1>16. ASSUME NEW r \in Calls, ExtractEncPub(r) PROVE CaInv'
  BY <1>16, <1>0 DEF ExtractEncPub
<1>17. ASSUME NEW r \in Calls, MakeDummy2(r) PROVE CaInv'
  BY <1>17, <1>0 DEF MakeDummy2
<1>18. ASSUME NEW r \in Calls, SignEnc(r) PROVE CaInv'
  BY <1>18, <1>0 DEF SignEnc
<1>19. ASSUME NEW r \in Calls, Finish(r) PROVE CaInv'
  BY <1>19, <1>0 DEF Finish, RemoveFiles, Removed
<1>20. CASE Crash
  BY <1>20, <1>0 DEF Crash
<1>21. ASSUME NEW r \in Calls, RemoveKeyFiles(r) PROVE CaInv'
  BY <1>21, <1>0 DEF RemoveKeyFiles, RemoveFiles, Removed
<1>22. ASSUME NEW r \in Calls, HandlerPanics(r) PROVE CaInv'
  BY <1>22, <1>0 DEF HandlerPanics
<1>23. CASE UNCHANGED vars
  BY <1>23, <1>0 DEF vars
<1>24. QED
  BY <1>1, <1>2, <1>3, <1>4, <1>5, <1>6, <1>7, <1>8, <1>9, <1>10, <1>11, <1>12, <1>13, <1>14,
     <1>15, <1>16, <1>17, <1>18, <1>19, <1>20, <1>21, <1>22, <1>23 DEF CertNext

\* CaInv is an invariant of the handler.
LEMMA CaInvariant == CertSpec => []CaInv
  BY CaInit, CaStep, PTL DEF CertSpec

\* The two files of the CA belong together unless two requests created it at once
\* or something stopped between the two files: for any number of requests.
THEOREM CaPairMatches == CertSpec => []CaMatchesUnlessRaced
<1>1. CaInv => CaMatchesUnlessRaced
  BY DEF CaInv, PairSound, CaMatchesUnlessRaced, CaMatches
<1>2. QED BY CaInvariant, <1>1, PTL

\* A certificate that was issued stays verifiable, through crashes and retries,
\* unless two requests were creating the CA at once.
THEOREM IssuedForGood == CertSpec => []IssuedStaysValid
<1>1. CaInv => IssuedStaysValid BY DEF CaInv, IssuedSound, IssuedStaysValid
<1>2. QED BY CaInvariant, <1>1, PTL
-----------------------------------------------------------------------------
(* The files of one request that no other has read the time of. *)

\* What no request has named is not there.
NoStrays ==
  \A i \in Stamps :
    (\A r \in Calls : stamp[r] # i) => \A n \in Names : files[<<n, i>>] = NoCall

\* The files a request may have when it is at a label.
Written(label) ==
  CASE label \in {"csr", "done"} -> {}
    [] label \in {"ca", "cakey", "cacrt", "pub", "dummy", "sign", "read", "enckey"} -> SignFiles
    [] label = "encpub" -> SignFiles \cup KeyFiles
    [] label \in {"dummy2", "sign2", "finish"} -> SignFiles \cup EncFiles
    [] OTHER -> Names

\* What request r finds in its files is its own, and it is what it wrote, or what
\* it failed to remove.
FilesOf(r) ==
  stamp[r] \in Stamps =>
    /\ \A n \in Names : File(r, n) \in {r, NoCall}
    /\ (at[r] = "done" => result[r] # "disk") =>
         \A n \in Names \ Written(at[r]) : File(r, n) = NoCall \/ <<r, n>> \in stuck

CertOf(r) == cert[r] \in {r, NoCall}

NotBegun(r) ==
  /\ at[r] = "new" => stamp[r] = NoCall
  /\ stamp[r] = NoCall => cert[r] = NoCall

FilesInv ==
  /\ TypeInv
  /\ NoStrays
  /\ \A r \in Calls : NotBegun(r) /\ (Alone(r) => FilesOf(r) /\ CertOf(r))

\* The directory is empty at first.
LEMMA FilesInit == CertInit => FilesInv
<1>1. CertInit => TypeInv BY CertTypeInit
<1>2. CertInit => NoStrays /\ \A r \in Calls : NotBegun(r) /\ FilesOf(r) /\ CertOf(r)
  BY NoCallAssumption DEF CertInit, NoStrays, NotBegun, FilesOf, CertOf
<1>3. QED BY <1>1, <1>2 DEF FilesInv

\* A step of request r, other than the reading of the clock.
OwnStep(r) ==
  \/ Refuse(r) \/ WriteCsr(r) \/ WriteCsrFails(r) \/ CheckCa(r) \/ WriteCaKey(r)
  \/ WriteCaCrt(r) \/ CaFails(r) \/ ExtractPub(r) \/ MakeDummy(r) \/ Sign(r)
  \/ SignFails(r) \/ ReadSingle(r) \/ ReadDouble(r) \/ MakeEncKey(r) \/ ExtractEncPub(r)
  \/ MakeDummy2(r) \/ SignEnc(r) \/ Finish(r) \/ RemoveKeyFiles(r) \/ HandlerPanics(r)

\* Such a step reaches no file and no answer but those of r.
Moves(r) ==
  /\ stamp' = stamp
  /\ \A n \in Names, i \in Stamps : i # stamp[r] => files'[<<n, i>>] = files[<<n, i>>]
  /\ \A q \in Calls \ {r} : at'[q] = at[q] /\ result'[q] = result[q] /\ cert'[q] = cert[q]
  /\ stuck \subseteq stuck'

\* Every step of the handler after the clock stays within its own files.
LEMMA OnlyOwn ==
  ASSUME TypeInv, NEW r \in Calls, OwnStep(r)
  PROVE  Moves(r)
<1> USE DEF TypeInv, CertTypeOK, Moves, Step, Answer, Write, reqVars
<1>1. CASE Refuse(r)
  BY <1>1 DEF Refuse
<1>2. CASE WriteCsr(r)
  BY <1>2 DEF WriteCsr
<1>3. CASE WriteCsrFails(r)
  BY <1>3 DEF WriteCsrFails
<1>4. CASE CheckCa(r)
  BY <1>4 DEF CheckCa
<1>5. CASE WriteCaKey(r)
  BY <1>5 DEF WriteCaKey
<1>6. CASE WriteCaCrt(r)
  BY <1>6 DEF WriteCaCrt
<1>7. CASE CaFails(r)
  BY <1>7 DEF CaFails
<1>8. CASE ExtractPub(r)
  BY <1>8 DEF ExtractPub
<1>9. CASE MakeDummy(r)
  BY <1>9 DEF MakeDummy
<1>10. CASE Sign(r)
  BY <1>10 DEF Sign
<1>11. CASE SignFails(r)
  BY <1>11 DEF SignFails, RemoveFiles, Removed
<1>12. CASE ReadSingle(r)
  BY <1>12 DEF ReadSingle, ReadBack, RemoveFiles, Removed
<1>13. CASE ReadDouble(r)
  BY <1>13 DEF ReadDouble, ReadBack
<1>14. CASE MakeEncKey(r)
  BY <1>14 DEF MakeEncKey
<1>15. CASE ExtractEncPub(r)
  BY <1>15 DEF ExtractEncPub
<1>16. CASE MakeDummy2(r)
  BY <1>16 DEF MakeDummy2
<1>17. CASE SignEnc(r)
  BY <1>17 DEF SignEnc
<1>18. CASE Finish(r)
  BY <1>18 DEF Finish, RemoveFiles, Removed
<1>19. CASE RemoveKeyFiles(r)
  BY <1>19 DEF RemoveKeyFiles, RemoveFiles, Removed
<1>20. CASE HandlerPanics(r)
  BY <1>20 DEF HandlerPanics
<1>21. QED
  BY <1>1, <1>2, <1>3, <1>4, <1>5, <1>6, <1>7, <1>8, <1>9, <1>10, <1>11, <1>12, <1>13, <1>14,
     <1>15, <1>16, <1>17, <1>18, <1>19, <1>20 DEF OwnStep

\* A step of another request leaves the files and the answer of q as they are.
LEMMA OthersKept ==
  ASSUME FilesInv, NEW r \in Calls, Moves(r), NEW q \in Calls, q # r, Alone(q)
  PROVE  FilesOf(q)' /\ CertOf(q)'
<1>1. FilesOf(q) /\ CertOf(q) /\ stamp'[q] = stamp[q] /\ at'[q] = at[q]
      /\ result'[q] = result[q] /\ cert'[q] = cert[q] /\ stuck \subseteq stuck'
  BY DEF FilesInv, Moves
<1>2. stamp[q] # stamp[r] BY DEF Alone
<1>3. stamp[q] \in Stamps => \A n \in Names : File(q, n)' = File(q, n)
  BY <1>1, <1>2 DEF Moves, File
<1>4. FilesOf(q)' BY <1>1, <1>3 DEF FilesOf
<1>5. CertOf(q)' BY <1>1 DEF CertOf
<1>6. QED BY <1>4, <1>5

\* Writing to one of its files, or failing to, changes that file at most.
LEMMA WriteOwn ==
  ASSUME TypeInv, NEW r \in Calls, FilesOf(r), stamp[r] \in Stamps, stamp' = stamp,
         NEW m \in Names, NEW o \in {r, NoCall}, Write(r, m, o) \/ UNCHANGED files
  PROVE  \A n \in Names : File(r, n)' \in {r, NoCall} /\ (n # m => File(r, n)' = File(r, n))
<1> SUFFICES ASSUME NEW n \in Names
             PROVE  File(r, n)' \in {r, NoCall} /\ (n # m => File(r, n)' = File(r, n))
  OBVIOUS
<1>1. File(r, n) \in {r, NoCall} /\ files \in [Names \X Stamps -> Calls \cup {NoCall}]
  BY DEF FilesOf, TypeInv, CertTypeOK
<1>2. CASE UNCHANGED files
  BY <1>1, <1>2 DEF File
<1>3. CASE Write(r, m, o)
  <2>1. <<n, stamp[r]>> \in Names \X Stamps /\ <<m, stamp[r]>> \in Names \X Stamps
    OBVIOUS
  <2>2. n # m => <<n, stamp[r]>> # <<m, stamp[r]>> OBVIOUS
  <2>3. files'[<<n, stamp[r]>>] = IF n = m THEN o ELSE files[<<n, stamp[r]>>]
    BY <1>1, <1>3, <2>1, <2>2 DEF Write
  <2>4. QED BY <1>1, <2>3 DEF File
<1>4. QED BY <1>2, <1>3

\* After remove_file a file is gone, or it is on record that it is not.
LEMMA RemoveOwn ==
  ASSUME TypeInv, NEW r \in Calls, FilesOf(r), stamp[r] \in Stamps, stamp' = stamp,
         NEW names, RemoveFiles(r, names)
  PROVE  \A n \in Names :
           /\ File(r, n)' \in {r, NoCall}
           /\ n \in names => File(r, n)' = NoCall \/ <<r, n>> \in stuck'
           /\ n \notin names => File(r, n)' = File(r, n)
           /\ <<r, n>> \in stuck => <<r, n>> \in stuck'
<1>1. PICK kept \in SUBSET {n \in names : File(r, n) # NoCall} :
        stuck' = stuck \cup ({r} \X kept) /\ files' = Removed(r, names \ kept)
  BY DEF RemoveFiles
<1> SUFFICES ASSUME NEW n \in Names
             PROVE  /\ File(r, n)' \in {r, NoCall}
                    /\ n \in names => File(r, n)' = NoCall \/ <<r, n>> \in stuck'
                    /\ n \notin names => File(r, n)' = File(r, n)
                    /\ <<r, n>> \in stuck => <<r, n>> \in stuck'
  OBVIOUS
<1>2. File(r, n) \in {r, NoCall} BY DEF FilesOf
<1>3. <<n, stamp[r]>> \in Names \X Stamps OBVIOUS
<1>4. File(r, n)' = IF n \in names \ kept THEN NoCall ELSE File(r, n)
  BY <1>1, <1>3 DEF Removed, File
<1>5. n \in kept => <<r, n>> \in stuck' BY <1>1
<1>6. <<r, n>> \in stuck => <<r, n>> \in stuck' BY <1>1
<1>7. QED BY <1>2, <1>4, <1>5, <1>6

\* What a step of r does to its own files.
LEMMA OwnKept ==
  ASSUME FilesInv, NEW r \in Calls, Alone(r), OwnStep(r)
  PROVE  FilesOf(r)' /\ CertOf(r)'
<1>0. TypeInv /\ FilesOf(r) /\ CertOf(r) /\ NotBegun(r) BY DEF FilesInv
<1>01. stamp[r] \in Stamps =>
         /\ \A n \in Names : n \in {"csr", "dummy2"} => File(r, n) \in {r, NoCall}
         /\ {"csr", "pub", "dummy", "encpub", "dummy2", "enccrt"} \subseteq Names
  BY <1>0 DEF FilesOf, Names, SignFiles, EncFiles
<1> USE NoCallAssumption
    DEF FilesInv, TypeInv, Stamped, Under, CertTypeOK, FilesOf, CertOf, Written,
        Step, Answer, Names, SignFiles, KeyFiles, EncFiles, reqVars
<1>1. CASE Refuse(r)
  BY <1>0, <1>1 DEF Refuse, NotBegun
<1>2. CASE WriteCsr(r)
  BY <1>0, <1>2 DEF WriteCsr, Write, File
<1>3. CASE WriteCsrFails(r)
  <2>1. stamp[r] \in Stamps =>
          \A n \in Names : File(r, n)' \in {r, NoCall} /\ (n # "csr" => File(r, n)' = File(r, n))
    <3>1. stamp' = stamp /\ (Write(r, "csr", r) \/ UNCHANGED files)
      BY <1>3 DEF WriteCsrFails
    <3> HIDE DEF FilesOf
    <3>2. QED BY <1>0, <1>01, <3>1, WriteOwn
  <2>2. /\ at[r] = "csr" /\ at'[r] = "done" /\ stamp' = stamp /\ cert' = cert /\ stuck' = stuck
        /\ result'[r] = "disk"
    BY <1>3 DEF WriteCsrFails
  <2>3. QED BY <1>0, <2>1, <2>2
<1>4. CASE CheckCa(r)
  BY <1>0, <1>4 DEF CheckCa, Write, File
<1>5. CASE WriteCaKey(r)
  BY <1>0, <1>5 DEF WriteCaKey, Write, File
<1>6. CASE WriteCaCrt(r)
  BY <1>0, <1>6 DEF WriteCaCrt, Write, File
<1>7. CASE CaFails(r)
  <2>1. /\ at[r] \in {"cakey", "cacrt"} /\ at'[r] = "pub"
        /\ stamp' = stamp /\ cert' = cert /\ result' = result /\ files' = files
        /\ stuck' = stuck
    BY <1>7 DEF CaFails
  <2>2. \A n \in Names : File(r, n)' = File(r, n) BY <2>1 DEF File
  <2>3. QED BY <1>0, <2>1, <2>2
<1>8. CASE ExtractPub(r)
  <2>1. stamp[r] \in Stamps =>
          \A n \in Names : File(r, n)' \in {r, NoCall} /\ (n # "pub" => File(r, n)' = File(r, n))
    <3>1. stamp' = stamp /\ (Write(r, "pub", File(r, "csr")) \/ UNCHANGED files)
      BY <1>8 DEF ExtractPub
    <3> HIDE DEF FilesOf
    <3>2. QED BY <1>0, <1>01, <3>1, WriteOwn
  <2>2. /\ at[r] = "pub" /\ at'[r] = "dummy" /\ stamp' = stamp /\ cert' = cert /\ stuck' = stuck
        /\ result' = result
    BY <1>8 DEF ExtractPub
  <2>3. QED BY <1>0, <2>1, <2>2
<1>9. CASE MakeDummy(r)
  <2>1. stamp[r] \in Stamps =>
          \A n \in Names : File(r, n)' \in {r, NoCall} /\ (n # "dummy" => File(r, n)' = File(r, n))
    <3>1. stamp' = stamp /\ (Write(r, "dummy", r) \/ UNCHANGED files)
      BY <1>9 DEF MakeDummy
    <3> HIDE DEF FilesOf
    <3>2. QED BY <1>0, <1>01, <3>1, WriteOwn
  <2>2. /\ at[r] = "dummy" /\ at'[r] = "sign" /\ stamp' = stamp /\ cert' = cert /\ stuck' = stuck
        /\ result' = result
    BY <1>9 DEF MakeDummy
  <2>3. QED BY <1>0, <2>1, <2>2
<1>10. CASE Sign(r)
  BY <1>0, <1>10 DEF Sign, Write, File
<1>11. CASE SignFails(r)
  <2>1. /\ at[r] = "sign" /\ at'[r] = "done" /\ stamp' = stamp /\ stamp[r] \in Stamps
        /\ cert' = cert
    BY <1>0, <1>11 DEF SignFails
  <2>2. \A n \in Names :
          /\ File(r, n)' \in {r, NoCall}
          /\ n \in SignFiles => File(r, n)' = NoCall \/ <<r, n>> \in stuck'
          /\ n \notin SignFiles => File(r, n)' = File(r, n)
          /\ <<r, n>> \in stuck => <<r, n>> \in stuck'
    <3>1. RemoveFiles(r, SignFiles) BY <1>11 DEF SignFails
    <3> HIDE DEF FilesOf
    <3>2. QED BY <1>0, <2>1, <3>1, RemoveOwn
  <2>3. QED BY <1>0, <2>1, <2>2
<1>12. CASE ReadSingle(r)
  <2>1. /\ at[r] = "read" /\ at'[r] = "done" /\ stamp' = stamp /\ stamp[r] \in Stamps
        /\ cert'[r] \in {File(r, "crt"), NoCall}
    BY <1>0, <1>12 DEF ReadSingle, ReadBack
  <2>2. \A n \in Names :
          /\ File(r, n)' \in {r, NoCall}
          /\ n \in SignFiles => File(r, n)' = NoCall \/ <<r, n>> \in stuck'
          /\ n \notin SignFiles => File(r, n)' = File(r, n)
          /\ <<r, n>> \in stuck => <<r, n>> \in stuck'
    <3>1. RemoveFiles(r, SignFiles) BY <1>12 DEF ReadSingle
    <3> HIDE DEF FilesOf
    <3>2. QED BY <1>0, <2>1, <3>1, RemoveOwn
  <2>3. QED BY <1>0, <2>1, <2>2
<1>13. CASE ReadDouble(r)
  BY <1>0, <1>13 DEF ReadDouble, ReadBack, Write, File
<1>14. CASE MakeEncKey(r)
  <2>1. stamp[r] \in Stamps =>
          \A n \in Names : File(r, n)' \in {r, NoCall} /\ (n \notin KeyFiles => File(r, n)' = File(r, n))
    <3> SUFFICES ASSUME stamp[r] \in Stamps, NEW n \in Names
                 PROVE  File(r, n)' \in {r, NoCall} /\ (n \notin KeyFiles => File(r, n)' = File(r, n))
      OBVIOUS
    <3>1. PICK ns \in SUBSET KeyFiles :
            files' = [f \in Names \X Stamps |->
                        IF f[1] \in ns /\ f[2] = stamp[r] THEN r ELSE files[f]]
      BY <1>14 DEF MakeEncKey
    <3> HIDE DEF Names, KeyFiles
    <3>2. <<n, stamp[r]>> \in Names \X Stamps OBVIOUS
    <3>3. files'[<<n, stamp[r]>>] = IF n \in ns THEN r ELSE files[<<n, stamp[r]>>]
      BY <3>1, <3>2
    <3>4. stamp' = stamp BY <1>14 DEF MakeEncKey
    <3>5. QED BY <1>0, <3>3, <3>4 DEF File
  <2>2. /\ at[r] = "enckey" /\ at'[r] = "encpub" /\ stamp' = stamp /\ cert' = cert /\ stuck' = stuck
        /\ result' = result
    BY <1>14 DEF MakeEncKey
  <2>3. QED BY <1>0, <2>1, <2>2
<1>15. CASE ExtractEncPub(r)
  <2>1. stamp[r] \in Stamps =>
          \A n \in Names : File(r, n)' \in {r, NoCall} /\ (n # "encpub" => File(r, n)' = File(r, n))
    <3>1. stamp' = stamp /\ (Write(r, "encpub", r) \/ UNCHANGED files)
      BY <1>15 DEF ExtractEncPub
    <3> HIDE DEF FilesOf
    <3>2. QED BY <1>0, <1>01, <3>1, WriteOwn
  <2>2. /\ at[r] = "encpub" /\ at'[r] = "rmkeys" /\ stamp' = stamp /\ cert' = cert
        /\ stuck' = stuck /\ result' = result
    BY <1>15 DEF ExtractEncPub
  <2>3. QED BY <1>0, <2>1, <2>2
<1>16. CASE MakeDummy2(r)
  <2>1. stamp[r] \in Stamps =>
          \A n \in Names : File(r, n)' \in {r, NoCall} /\ (n # "dummy2" => File(r, n)' = File(r, n))
    <3>1. stamp' = stamp /\ (Write(r, "dummy2", r) \/ UNCHANGED files)
      BY <1>16 DEF MakeDummy2
    <3> HIDE DEF FilesOf
    <3>2. QED BY <1>0, <1>01, <3>1, WriteOwn
  <2>2. /\ at[r] = "dummy2" /\ at'[r] = "sign2" /\ stamp' = stamp /\ cert' = cert /\ stuck' = stuck
        /\ result' = result
    BY <1>16 DEF MakeDummy2
  <2>3. QED BY <1>0, <2>1, <2>2
<1>17. CASE SignEnc(r)
  <2>1. stamp[r] \in Stamps =>
          \A n \in Names : File(r, n)' \in {r, NoCall} /\ (n # "enccrt" => File(r, n)' = File(r, n))
    <3>1. stamp' = stamp /\ (Write(r, "enccrt", File(r, "dummy2")) \/ UNCHANGED files)
      BY <1>17 DEF SignEnc
    <3> HIDE DEF FilesOf
    <3>2. QED BY <1>0, <1>01, <3>1, WriteOwn
  <2>2. /\ at[r] = "sign2" /\ at'[r] = "finish" /\ stamp' = stamp /\ cert' = cert /\ stuck' = stuck
        /\ result' = result
    BY <1>17 DEF SignEnc
  <2>3. QED BY <1>0, <2>1, <2>2
<1>18. CASE Finish(r)
  <2>1. /\ at[r] = "finish" /\ at'[r] = "done" /\ stamp' = stamp /\ stamp[r] \in Stamps
        /\ cert' = cert
    BY <1>0, <1>18 DEF Finish
  <2>2. \A n \in Names :
          /\ File(r, n)' \in {r, NoCall}
          /\ n \in (SignFiles \cup EncFiles) => File(r, n)' = NoCall \/ <<r, n>> \in stuck'
          /\ n \notin (SignFiles \cup EncFiles) => File(r, n)' = File(r, n)
          /\ <<r, n>> \in stuck => <<r, n>> \in stuck'
    <3>1. RemoveFiles(r, (SignFiles \cup EncFiles)) BY <1>18 DEF Finish
    <3> HIDE DEF FilesOf
    <3>2. QED BY <1>0, <2>1, <3>1, RemoveOwn
  <2>3. QED BY <1>0, <2>1, <2>2
<1>19. CASE RemoveKeyFiles(r)
  <2>1. /\ at[r] = "rmkeys" /\ at'[r] = "dummy2" /\ stamp' = stamp /\ stamp[r] \in Stamps
        /\ cert' = cert /\ result' = result
    BY <1>0, <1>19 DEF RemoveKeyFiles
  <2>2. \A n \in Names :
          /\ File(r, n)' \in {r, NoCall}
          /\ n \in KeyFiles => File(r, n)' = NoCall \/ <<r, n>> \in stuck'
          /\ n \notin KeyFiles => File(r, n)' = File(r, n)
          /\ <<r, n>> \in stuck => <<r, n>> \in stuck'
    <3>1. RemoveFiles(r, KeyFiles) BY <1>19 DEF RemoveKeyFiles
    <3> HIDE DEF FilesOf
    <3>2. QED BY <1>0, <2>1, <3>1, RemoveOwn
  <2>3. QED BY <1>0, <2>1, <2>2
<1>20. CASE HandlerPanics(r)
  BY <1>0, <1>20 DEF HandlerPanics, File
<1>21. QED
  BY <1>1, <1>2, <1>3, <1>4, <1>5, <1>6, <1>7, <1>8, <1>9, <1>10, <1>11, <1>12, <1>13, <1>14,
     <1>15, <1>16, <1>17, <1>18, <1>19, <1>20 DEF OwnStep

\* A request has begun after its first step, and has a certificate only if it has
\* read the clock.
LEMMA BegunKept ==
  ASSUME TypeInv, NEW r \in Calls, NotBegun(r), OwnStep(r)
  PROVE  NotBegun(r)'
<1>1. at'[r] # "new" /\ stamp' = stamp
  BY DEF TypeInv, CertTypeOK, OwnStep, Step, Refuse, WriteCsr, WriteCsrFails, CheckCa, WriteCaKey,
         WriteCaCrt, CaFails, ExtractPub, MakeDummy, Sign, SignFails, ReadSingle, ReadDouble,
         MakeEncKey, ExtractEncPub, RemoveKeyFiles, MakeDummy2, SignEnc, Finish, HandlerPanics
<1>2. cert' = cert \/ at[r] = "read"
  BY DEF OwnStep, Step, Refuse, WriteCsr, WriteCsrFails, CheckCa, WriteCaKey,
         WriteCaCrt, CaFails, ExtractPub, MakeDummy, Sign, SignFails, ReadSingle, ReadDouble,
         MakeEncKey, ExtractEncPub, RemoveKeyFiles, MakeDummy2, SignEnc, Finish, HandlerPanics
<1>3. at[r] = "read" => stamp[r] # NoCall
  BY NoCallAssumption DEF TypeInv, Stamped, Under
<1>4. QED BY <1>1, <1>2, <1>3 DEF NotBegun

\* FilesInv is kept by every step.
LEMMA FilesStep ==
  ASSUME FilesInv, [CertNext]_vars
  PROVE  FilesInv'
<1>0. TypeInv /\ TypeInv' BY CertTypeStep DEF FilesInv
<1>1. ASSUME NEW r \in Calls, OwnStep(r) PROVE FilesInv'
  <2>1. Moves(r) BY <1>0, <1>1, OnlyOwn
  <2>2. \A q \in Calls : Alone(q)' => Alone(q) BY <2>1 DEF Moves, Alone
  <2>3. NoStrays' BY <2>1 DEF FilesInv, NoStrays, Moves
  <2>4. Alone(r) => FilesOf(r)' /\ CertOf(r)' BY <1>1, OwnKept
  <2>5. \A q \in Calls : Alone(q)' => FilesOf(q)' /\ CertOf(q)' BY <2>1, <2>2, <2>4, OthersKept
  <2>6. NotBegun(r)' BY <1>0, <1>1, BegunKept DEF FilesInv
  <2>7. \A q \in Calls : NotBegun(q)' BY <2>1, <2>6 DEF FilesInv, NotBegun, Moves
  <2>8. QED BY <1>0, <2>3, <2>5, <2>7 DEF FilesInv
<1>2. ASSUME NEW r \in Calls, ReadClock(r) PROVE FilesInv'
  <2>1. PICK i \in Stamps : stamp' = [stamp EXCEPT ![r] = i]
    BY <1>2 DEF ReadClock
  <2>2. /\ stamp \in [Calls -> Stamps \cup {NoCall}] /\ at \in [Calls -> Labels]
        /\ at[r] = "new" /\ stamp[r] = NoCall /\ at' = [at EXCEPT ![r] = "csr"]
        /\ files' = files /\ result' = result /\ cert' = cert /\ cert[r] = NoCall
        /\ stuck' = stuck
    BY <1>0, <1>2 DEF ReadClock, Step, TypeInv, CertTypeOK, FilesInv, NotBegun
  <2>3. \A q \in Calls : NotBegun(q)' BY <2>1, <2>2 DEF FilesInv, NotBegun
  <2>4. NoStrays' BY <2>1, <2>2, NoCallAssumption DEF FilesInv, NoStrays
  <2>5. Alone(r)' => FilesOf(r)' /\ CertOf(r)'
    <3>1. SUFFICES ASSUME Alone(r)' PROVE FilesOf(r)' /\ CertOf(r)' OBVIOUS
    <3>2. stamp'[r] = i /\ at'[r] = "csr" BY <2>1, <2>2
    <3>3. \A q \in Calls : stamp[q] # i
      BY <2>1, <2>2, <3>1, <3>2, NoCallAssumption DEF Alone
    <3>4. \A n \in Names : File(r, n)' = NoCall
      BY <2>2, <3>2, <3>3 DEF FilesInv, NoStrays, File
    <3>5. QED BY <2>2, <3>2, <3>4 DEF FilesOf, CertOf
  <2>6. \A q \in Calls \ {r} : Alone(q)' => FilesOf(q)' /\ CertOf(q)'
    <3>1. SUFFICES ASSUME NEW q \in Calls \ {r}, Alone(q)' PROVE FilesOf(q)' /\ CertOf(q)' OBVIOUS
    <3>2. /\ stamp'[q] = stamp[q] /\ at'[q] = at[q] /\ files' = files /\ result' = result
          /\ cert' = cert /\ stuck' = stuck
      BY <2>1, <2>2
    <3>3. CASE stamp[q] \in Stamps
      <4>1. Alone(q) BY <2>1, <2>2, <3>1, <3>2, <3>3, NoCallAssumption DEF Alone
      <4>2. FilesOf(q) /\ CertOf(q) BY <4>1 DEF FilesInv
      <4>3. QED BY <3>2, <4>2 DEF FilesOf, CertOf, File
    <3>4. CASE stamp[q] \notin Stamps
      <4>1. FilesOf(q)' BY <3>2, <3>4 DEF FilesOf
      <4>2. cert[q] = NoCall BY <1>0, <3>4 DEF TypeInv, CertTypeOK, FilesInv, NotBegun
      <4>3. QED BY <3>2, <4>1, <4>2 DEF CertOf
    <3>5. QED BY <3>3, <3>4
  <2>7. QED BY <1>0, <2>3, <2>4, <2>5, <2>6 DEF FilesInv
<1>3. CASE Crash
  <2>1. /\ UNCHANGED <<stamp, files, result, cert, stuck>>
        /\ \A q \in Calls : at'[q] = at[q] \/ (at[q] # "new" /\ at'[q] = "lost")
    BY <1>3 DEF Crash
  <2>2. NoStrays' /\ \A q \in Calls : Alone(q)' = Alone(q)
    BY <2>1 DEF FilesInv, NoStrays, Alone
  <2>3. \A q \in Calls : NotBegun(q)' /\ (Alone(q)' => FilesOf(q)' /\ CertOf(q)')
    BY <2>1, <2>2 DEF FilesInv, NotBegun, FilesOf, CertOf, File, Written
  <2>4. QED BY <1>0, <2>2, <2>3 DEF FilesInv
<1>4. CASE UNCHANGED vars
  BY <1>0, <1>4 DEF vars, reqVars, FilesInv, NoStrays, NotBegun, Alone, FilesOf, CertOf, File
<1>5. QED BY <1>1, <1>2, <1>3, <1>4 DEF CertNext, OwnStep

\* Every certificate that is answered certifies the key of the request it answers,
\* or is empty, unless another request read the same time from the clock.
THEOREM OwnKeyCertified == CertSpec => []CertifiesOwnKey
<1>1. FilesInv => CertifiesOwnKey BY DEF FilesInv, CertOf, CertifiesOwnKey
<1>2. FilesInv /\ [CertNext]_vars => FilesInv' BY FilesStep
<1>3. QED BY FilesInit, <1>1, <1>2, PTL DEF CertSpec

\* And every answer leaves no file of the request but those that remove_file failed
\* on, unless already the CSR could not be written or another request read the
\* same time.
THEOREM FilesAreRemoved == CertSpec => []TempFilesRemoved
<1>1. FilesInv => TempFilesRemoved
  BY DEF FilesInv, TypeInv, CertTypeOK, FilesOf, Written, TempFilesRemoved
<1>2. FilesInv /\ [CertNext]_vars => FilesInv' BY FilesStep
<1>3. QED BY FilesInit, <1>1, <1>2, PTL DEF CertSpec
=============================================================================
