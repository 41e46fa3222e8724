---------------------------- MODULE Certificates ----------------------------
(***************************************************************************)
(* IssueCertificate (main.rs): requests that run openssl on files in the   *)
(* directory for temporary files.                                          *)
(*                                                                         *)
(* Every request names its own files by the time it read from the clock,   *)
(* and nothing keeps two of them from reading the same time.               *)
(* All requests share the key and the certificate of one demo CA, which    *)
(* the first request that finds no key creates; nothing locks the pair, it *)
(* outlives the process, and a request that timed out goes on with its     *)
(* files while the client tries again.                                     *)
(*                                                                         *)
(* A file's content is the request whose data it holds.  openssl is        *)
(* external: a command may fail, it writes a new CA's key before the       *)
(* certificate, and it signs only with a key and a certificate that match. *)
(* Reading a file back and removing one may fail, and no one looks.        *)
(***************************************************************************)
EXTENDS Naturals, FiniteSets

CONSTANTS
  Calls,      \* the IssueCertificate requests
  NoCall,     \* no file, no certificate
  Stamps,     \* what the clock may read
  MaxStuck    \* how many removals may fail (a bound for TLC)

ASSUME NoCallAssumption == NoCall \notin Calls \cup Stamps

\* The files of a request; "dummy" and "dummy2" stand for a CSR and its key.
SignFiles == {"csr", "pub", "dummy", "crt"}
KeyFiles == {"raw", "tmpkey"}
EncFiles == {"encpub", "dummy2", "enccrt"}
Names == SignFiles \cup KeyFiles \cup EncFiles

VARIABLES
  at,      \* the next step of each request
  stamp,   \* req_id: the time in the names of its files
  files,   \* the temporary files: whose data each of them holds
  caKey,   \* skf_ca.key: the request that made it
  caCrt,   \* skf_ca.crt: likewise
  issuer,  \* the CA that signed its certificate
  cert,    \* the signature certificate read back: whose key it certifies
  result,  \* the answer
  overlap, \* history: two requests were creating the CA at once
  cut,     \* history: a CA key was written and its certificate was not
  stuck    \* history: the files, by request and name, that remove_file left

reqVars == <<at, stamp, issuer, cert, result>>
caVars == <<caKey, caCrt>>
histVars == <<overlap, cut>>
vars == <<reqVars, files, caVars, histVars, stuck>>

Labels == {"new", "csr", "ca", "cakey", "cacrt", "pub", "dummy", "sign", "read",
           "enckey", "encpub", "rmkeys", "dummy2", "sign2", "finish", "done", "lost"}
Results == {"none", "ok", "refused", "disk", "unsigned", "nokey"}

CertTypeOK ==
  /\ at \in [Calls -> Labels]
  /\ stamp \in [Calls -> Stamps \cup {NoCall}]
  /\ files \in [Names \X Stamps -> Calls \cup {NoCall}]
  /\ caKey \in Calls \cup {NoCall}
  /\ caCrt \in Calls \cup {NoCall}
  /\ issuer \in [Calls -> Calls \cup {NoCall}]
  /\ cert \in [Calls -> Calls \cup {NoCall}]
  /\ result \in [Calls -> Results]
  /\ overlap \in BOOLEAN
  /\ cut \in BOOLEAN
  /\ stuck \subseteq Calls \X Names

CertInit ==
  /\ at = [r \in Calls |-> "new"]
  /\ stamp = [r \in Calls |-> NoCall]
  /\ files = [f \in Names \X Stamps |-> NoCall]
  /\ caKey = NoCall
  /\ caCrt = NoCall
  /\ issuer = [r \in Calls |-> NoCall]
  /\ cert = [r \in Calls |-> NoCall]
  /\ result = [r \in Calls |-> "none"]
  /\ overlap = FALSE
  /\ cut = FALSE
  /\ stuck = {}

-----------------------------------------------------------------------------
(* Steps and files. *)

Step(r, from, to) == at[r] = from /\ at' = [at EXCEPT ![r] = to]

File(r, n) == files[<<n, stamp[r]>>]

\* The file of request r named n now holds the data of o.
Write(r, n, o) == files' = [files EXCEPT ![<<n, stamp[r]>>] = o]

\* The files without those of request r named.
Removed(r, names) ==
  [f \in Names \X Stamps |-> IF f[1] \in names /\ f[2] = stamp[r] THEN NoCall ELSE files[f]]

\* remove_file on each of them; an error is ignored, and the file stays.
RemoveFiles(r, names) ==
  \E kept \in SUBSET {n \in names : File(r, n) # NoCall} :
    /\ stuck' = stuck \cup ({r} \X kept)
    /\ Cardinality(stuck') <= MaxStuck
    /\ files' = Removed(r, names \ kept)

\* Request r is the only one that has read the time it read.
Alone(r) == \A q \in Calls \ {r} : stamp[q] # stamp[r]

\* The handler returns.
Answer(r, code) == result' = [result EXCEPT ![r] = code]

\* Requests that saw no CA key and have not finished creating one.
Creating == {r \in Calls : at[r] \in {"cakey", "cacrt"}}

CaMatches == caKey # NoCall /\ caKey = caCrt

-----------------------------------------------------------------------------
(* The request and its CSR. *)

\* SKF_RESTRICT_LEGACY, a missing parameter or bad base64: no file was written.
Refuse(r) ==
  /\ Step(r, "new", "done")
  /\ Answer(r, "refused")
  /\ UNCHANGED <<stamp, issuer, cert, files, caVars, histVars, stuck>>

\* req_id is read from the clock.
ReadClock(r) ==
  /\ Step(r, "new", "csr")
  /\ \E i \in Stamps : stamp' = [stamp EXCEPT ![r] = i]
  /\ UNCHANGED <<issuer, cert, result, files, caVars, histVars, stuck>>

\* The CSR is written; its subject and its public key are only read.
WriteCsr(r) ==
  /\ Step(r, "csr", "ca")
  /\ Write(r, "csr", r)
  /\ UNCHANGED <<stamp, issuer, cert, result, caVars, histVars, stuck>>

\* The write fails, perhaps after the file was created.
WriteCsrFails(r) ==
  /\ Step(r, "csr", "done")
  /\ Answer(r, "disk")
  /\ Write(r, "csr", r) \/ UNCHANGED files
  /\ UNCHANGED <<stamp, issuer, cert, caVars, histVars, stuck>>

-----------------------------------------------------------------------------
(* The demo CA. *)

\* Mutant of CheckCa: a new CA for every request.
CheckCaNever(r) ==
  /\ Step(r, "ca", "cakey")
  /\ overlap' = (overlap \/ Creating # {})
  /\ UNCHANGED <<stamp, issuer, cert, result, files, caVars, cut, stuck>>

\* Path::exists on the key, and on nothing else.
CheckCa(r) ==
  /\ Step(r, "ca", IF caKey = NoCall THEN "cakey" ELSE "pub")
  /\ overlap' = (overlap \/ (caKey = NoCall /\ Creating # {}))
  /\ UNCHANGED <<stamp, issuer, cert, result, files, caVars, cut, stuck>>

\* openssl req -x509 writes the new key over what is there by now.
WriteCaKey(r) ==
  /\ Step(r, "cakey", "cacrt")
  /\ caKey' = r
  /\ UNCHANGED <<stamp, issuer, cert, result, files, caCrt, histVars, stuck>>

\* It writes the certificate of that key.
WriteCaCrt(r) ==
  /\ Step(r, "cacrt", "pub")
  /\ caCrt' = r
  /\ UNCHANGED <<stamp, issuer, cert, result, files, caKey, histVars, stuck>>

\* openssl fails before either file, or between the two; nobody looks.
CaFails(r) ==
  /\ \/ Step(r, "cakey", "pub") /\ UNCHANGED cut
     \/ Step(r, "cacrt", "pub") /\ cut' = TRUE
  /\ UNCHANGED <<stamp, issuer, cert, result, files, caVars, overlap, stuck>>

-----------------------------------------------------------------------------
(* The signature certificate. *)

\* Mutant of ExtractPub: the public key of the last CSR that was written.
ExtractAnyPub(r) ==
  /\ Step(r, "pub", "dummy")
  /\ \E f \in Names \X Stamps : f[1] = "csr" /\ Write(r, "pub", files[f])
  /\ UNCHANGED <<stamp, issuer, cert, result, caVars, histVars, stuck>>

\* openssl req -pubkey; its status is not read.
ExtractPub(r) ==
  /\ Step(r, "pub", "dummy")
  /\ Write(r, "pub", File(r, "csr")) \/ UNCHANGED files
  /\ UNCHANGED <<stamp, issuer, cert, result, caVars, histVars, stuck>>

\* openssl req -new for a CSR that openssl can sign; its status is not read.
MakeDummy(r) ==
  /\ Step(r, "dummy", "sign")
  /\ Write(r, "dummy", r) \/ UNCHANGED files
  /\ UNCHANGED <<stamp, issuer, cert, result, caVars, histVars, stuck>>

\* openssl x509 -req with the dummy CSR and the extracted public key.
Sign(r) ==
  /\ Step(r, "sign", "read")
  /\ CaMatches
  /\ File(r, "dummy") # NoCall
  /\ File(r, "pub") # NoCall
  /\ Write(r, "crt", File(r, "pub"))
  /\ issuer' = [issuer EXCEPT ![r] = caKey]
  /\ UNCHANGED <<stamp, cert, result, caVars, histVars, stuck>>

\* Mutant of SignFails: the cleanup forgets the key that was made for the dummy CSR.
SignFailsKeepingDummy(r) ==
  /\ Step(r, "sign", "done")
  /\ RemoveFiles(r, SignFiles \ {"dummy"})
  /\ Answer(r, "unsigned")
  /\ UNCHANGED <<stamp, issuer, cert, caVars, histVars>>

\* Mutant of SignFails: the cleanup takes the CA's certificate along.
SignFailsRemovingCa(r) ==
  /\ Step(r, "sign", "done")
  /\ RemoveFiles(r, SignFiles)
  /\ Answer(r, "unsigned")
  /\ caCrt' = NoCall
  /\ UNCHANGED <<stamp, issuer, cert, caKey, histVars>>

\* openssl cannot be run or does not sign.
SignFails(r) ==
  /\ Step(r, "sign", "done")
  /\ RemoveFiles(r, SignFiles)
  /\ Answer(r, "unsigned")
  /\ UNCHANGED <<stamp, issuer, cert, caVars, histVars>>

\* The certificate is read back; when that fails it is the empty string.
ReadBack(r) == \E c \in {File(r, "crt"), NoCall} : cert' = [cert EXCEPT ![r] = c]

\* What was read is the answer, unless an encryption certificate is wanted and
\* the CSR has no SM2 key for it.
ReadSingle(r) ==
  /\ Step(r, "read", "done")
  /\ ReadBack(r)
  /\ RemoveFiles(r, SignFiles)
  /\ \E code \in {"ok", "nokey"} : Answer(r, code)
  /\ UNCHANGED <<stamp, issuer, caVars, histVars>>

ReadDouble(r) ==
  /\ Step(r, "read", "enckey")
  /\ ReadBack(r)
  /\ UNCHANGED <<stamp, issuer, result, files, caVars, histVars, stuck>>

-----------------------------------------------------------------------------
(* The encryption certificate.  No status is read from here on. *)

\* The new point is written, and openssl makes a key of its own.
MakeEncKey(r) ==
  /\ Step(r, "enckey", "encpub")
  /\ \E ns \in SUBSET KeyFiles :
       files' = [f \in Names \X Stamps |->
                   IF f[1] \in ns /\ f[2] = stamp[r] THEN r ELSE files[f]]
  /\ UNCHANGED <<stamp, issuer, cert, result, caVars, histVars, stuck>>

\* openssl ec -pubout.
ExtractEncPub(r) ==
  /\ Step(r, "encpub", "rmkeys")
  /\ Write(r, "encpub", r) \/ UNCHANGED files
  /\ UNCHANGED <<stamp, issuer, cert, result, caVars, histVars, stuck>>

RemoveKeyFiles(r) ==
  /\ Step(r, "rmkeys", "dummy2")
  /\ RemoveFiles(r, KeyFiles)
  /\ UNCHANGED <<stamp, issuer, cert, result, caVars, histVars>>

MakeDummy2(r) ==
  /\ Step(r, "dummy2", "sign2")
  /\ Write(r, "dummy2", r) \/ UNCHANGED files
  /\ UNCHANGED <<stamp, issuer, cert, result, caVars, histVars, stuck>>

\* The second certificate, if openssl makes one.
SignEnc(r) ==
  /\ Step(r, "sign2", "finish")
  /\ \/ CaMatches /\ File(r, "dummy2") # NoCall /\ Write(r, "enccrt", File(r, "dummy2"))
     \/ UNCHANGED files
  /\ UNCHANGED <<stamp, issuer, cert, result, caVars, histVars, stuck>>

\* Whatever became of it, the answer is a success.
Finish(r) ==
  /\ Step(r, "finish", "done")
  /\ RemoveFiles(r, SignFiles \cup EncFiles)
  /\ Answer(r, "ok")
  /\ UNCHANGED <<stamp, issuer, cert, caVars, histVars>>

-----------------------------------------------------------------------------

\* The handler panics, on a clock before 1970 or in the SM2 and SM4 code of the
\* encryption key; nothing is removed on the way out.
HandlerPanics(r) ==
  /\ \E from \in {"new", "enckey", "finish"} : Step(r, from, "lost")
  /\ UNCHANGED <<stamp, issuer, cert, result, files, caVars, histVars, stuck>>

\* The process ends with requests under way; the files stay.
Crash ==
  /\ at' = [r \in Calls |-> IF at[r] \in {"new", "done"} THEN at[r] ELSE "lost"]
  /\ cut' = (cut \/ \E r \in Calls : at[r] = "cacrt")
  /\ UNCHANGED <<stamp, issuer, cert, result, files, caVars, overlap, stuck>>

CertNext ==
  \/ \E r \in Calls : Refuse(r)
  \/ \E r \in Calls : ReadClock(r)
  \/ \E r \in Calls : WriteCsr(r)
  \/ \E r \in Calls : WriteCsrFails(r)
  \/ \E r \in Calls : CheckCa(r)
  \/ \E r \in Calls : WriteCaKey(r)
  \/ \E r \in Calls : WriteCaCrt(r)
  \/ \E r \in Calls : CaFails(r)
  \/ \E r \in Calls : ExtractPub(r)
  \/ \E r \in Calls : MakeDummy(r)
  \/ \E r \in Calls : Sign(r)
  \/ \E r \in Calls : SignFails(r)
  \/ \E r \in Calls : ReadSingle(r)
  \/ \E r \in Calls : ReadDouble(r)
  \/ \E r \in Calls : MakeEncKey(r)
  \/ \E r \in Calls : ExtractEncPub(r)
  \/ \E r \in Calls : RemoveKeyFiles(r)
  \/ \E r \in Calls : MakeDummy2(r)
  \/ \E r \in Calls : SignEnc(r)
  \/ \E r \in Calls : Finish(r)
  \/ \E r \in Calls : HandlerPanics(r)
  \/ Crash

CertSpec == CertInit /\ [][CertNext]_vars

-----------------------------------------------------------------------------
(* Properties. *)

\* The certificate a request is answered with certifies the key of its own CSR, or
\* is empty because it could not be read back, whatever the other requests, the
\* abandoned ones included, do to the directory meanwhile.  Only a request that
\* read the very same time can put another key's certificate in its place.
CertifiesOwnKey ==
  \A r \in Calls :
    at[r] = "done" /\ result[r] \in {"ok", "nokey"} /\ Alone(r) => cert[r] \in {r, NoCall}

\* Every answer leaves none of the files behind that the request has written, the
\* private keys among them, except one that remove_file failed on, the CSR that
\* could not be written, and what a request that read the same time put there.
TempFilesRemoved ==
  \A r \in Calls :
    at[r] = "done" /\ stamp[r] # NoCall /\ result[r] # "disk" /\ Alone(r) =>
      \A n \in Names : File(r, n) = NoCall \/ <<r, n>> \in stuck

\* The key and the certificate of the CA belong together unless two requests
\* created it at once, or openssl or the process stopped between the two files.
CaMatchesUnlessRaced ==
  caKey # NoCall /\ Creating = {} => CaMatches \/ overlap \/ cut

\* A certificate that was issued can be verified for good: the CA that signed it
\* is never replaced, by an abandoned request or after a restart either, unless
\* two requests were creating the CA at once.
IssuedStaysValid ==
  \A r \in Calls : cert[r] # NoCall => (issuer[r] = caKey /\ CaMatches) \/ overlap

=============================================================================
