CONSTANTS
  r1 = r1
  r2 = r2
  s1 = s1
  s2 = s2
  Calls <- MCCalls
  NoCall = NoCall
  Stamps <- MCStamps
  MaxStuck = 2
SPECIFICATION CertSpec
SYMMETRY CallSymmetry
INVARIANTS
  CertifiesOwnKey
  TempFilesRemoved
  CaMatchesUnlessRaced
  IssuedStaysValid
CHECK_DEADLOCK FALSE
