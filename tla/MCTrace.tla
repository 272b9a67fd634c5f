------------------------------ MODULE MCTrace ------------------------------
(* TraceSession on small instances.                                        *)
EXTENDS TraceSession
=============================================================================
