------------------------------ MODULE Session ------------------------------
(***************************************************************************)
(* What the user is promised about a stoppable background session (ping,   *)
(* traceroute, packet sender): a session runs until Stop, after Stop every *)
(* worker may finish the one probe it has under way and report it, and the *)
(* session is over only when every worker has ended.  PingSession is shown *)
(* to implement this specification.                                        *)
(***************************************************************************)
EXTENDS Naturals

CONSTANT Members    \* the workers one session may have

VARIABLES phase,    \* "idle", "running" (Stop not pressed) or "stopping"
          live,     \* workers of the session that have not ended
          owed,     \* while stopping: workers that may still report once
          reports   \* results each worker of the session has reported

sessionVars == <<phase, live, owed, reports>>

Phases == {"idle", "running", "stopping"}
NoReports == [m \in Members |-> 0]

SessionTypeOK ==
  /\ phase \in Phases
  /\ live \in SUBSET Members
  /\ owed \in SUBSET live
  /\ reports \in [Members -> Nat]

Init == phase = "idle" /\ live = {} /\ owed = {} /\ reports = NoReports

\* The session is handed to the user: its workers may already be at work.
Start ==
  /\ phase = "idle" /\ phase' = "running"
  /\ live' \in SUBSET Members
  /\ reports' \in [Members -> Nat]
  /\ owed' = {}

\* A worker reports one result: freely while running, once after Stop.
Report(m) ==
  /\ m \in live
  /\ \/ phase = "running" /\ owed' = owed
     \/ phase = "stopping" /\ m \in owed /\ owed' = owed \ {m}
  /\ reports' = [reports EXCEPT ![m] = @ + 1]
  /\ UNCHANGED <<phase, live>>

\* A worker sees the stop flag before it began anything it must report.
Decline(m) ==
  /\ m \in owed /\ owed' = owed \ {m}
  /\ UNCHANGED <<phase, live, reports>>

\* Workers end (a thread that ends may take those it was to start with it).
Exit(M) ==
  /\ M \subseteq live /\ live' = live \ M
  /\ owed' = owed \ M
  /\ UNCHANGED <<phase, reports>>

Stop ==
  /\ phase = "running" /\ phase' = "stopping"
  /\ owed' \in SUBSET live
  /\ UNCHANGED <<live, reports>>

\* The session is dropped, never before its last worker has ended.
Close ==
  /\ phase # "idle" /\ live = {}
  /\ phase' = "idle" /\ owed' = {} /\ reports' = NoReports
  /\ UNCHANGED live

Next ==
  \/ Start \/ Stop \/ Close
  \/ \E m \in Members : Report(m) \/ Decline(m)
  \/ \E M \in SUBSET Members : Exit(M)

Spec == Init /\ [][Next]_sessionVars
=============================================================================
