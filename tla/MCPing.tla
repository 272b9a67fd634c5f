------------------------------- MODULE MCPing -------------------------------
(* PingSession on small instances.                                         *)
EXTENDS PingSession, TLC

Symmetry == Permutations(Targets)
=============================================================================
