--------------------------- MODULE MCCertificates ---------------------------
(* Small instances of Certificates for TLC. *)
EXTENDS Certificates, TLC

CONSTANTS r1, r2, s1, s2

MCCalls == {r1, r2}
MCStamps == {s1, s2}

\* Requests, and times, are interchangeable; the checked formulas name none.
CallSymmetry == Permutations(MCCalls) \cup Permutations(MCStamps)
=============================================================================
