-------------------------- MODULE MCWindowsService --------------------------
(* Small instances of WindowsService for TLC. *)
EXTENDS WindowsService

CONSTANTS p1, p2

MCPids == {p1, p2}
=============================================================================
