-------------------------- MODULE MCSessionHandles --------------------------
(* Small instances of SessionHandles for TLC. *)
EXTENDS SessionHandles, TLC

CONSTANTS c1, c2

MCConns == {c1, c2}
OneConn == {c1}

\* Connections are interchangeable; the checked formulas name none of them.
ConnSymmetry == Permutations(MCConns)
=============================================================================
