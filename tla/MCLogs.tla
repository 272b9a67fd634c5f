------------------------------- MODULE MCLogs -------------------------------
(* LogStore on small instances.                                            *)
EXTENDS LogStore
=============================================================================
