---------------------------- MODULE MCLibraries -----------------------------
(* Small instances of Libraries for TLC. *)
EXTENDS Libraries

CONSTANTS c1, c2

MCSlots == {c1, c2}
OneSlot == {c1}
MCAliases == {"gm3000", "other"}

\* With the gate of the default provider, with a gate of one's own, and the exempt
\* pair.
MCRequests ==
  {<<"adapter", "gm3000">>, <<"adapter", "other">>, <<"wait", "gm3000">>, <<"cancel", "gm3000">>}

\* A handler of provider/native.rs and one of main.rs, on one library.
MixedRequests == {<<"adapter", "gm3000">>, <<"raw", "gm3000">>}
=============================================================================
