-------------------------------- MODULE Job --------------------------------
(***************************************************************************)
(* What the user is promised about a background job that a page starts and *)
(* that cannot be stopped (subnet scan, vendor lookup, DNS queries, report *)
(* of the network configuration): while the page says it is running no     *)
(* second one starts, every item is settled once, and the page says it is  *)
(* over only when all items are.                                           *)
(***************************************************************************)
CONSTANT Items

VARIABLES busy,    \* the page shows the job as running
          todo     \* items the job has not finished with

jobVars == <<busy, todo>>

Init == busy = FALSE /\ todo = {}

Start ==
  /\ ~busy /\ busy' = TRUE
  /\ todo' \in SUBSET Items

\* Items are settled: one, or several that fail together.
Do(I) ==
  /\ busy /\ I # {} /\ I \subseteq todo
  /\ todo' = todo \ I
  /\ UNCHANGED busy

Finish ==
  /\ busy /\ todo = {}
  /\ busy' = FALSE
  /\ UNCHANGED todo

Next == Start \/ Finish \/ \E I \in SUBSET Items : Do(I)

Spec == Init /\ [][Next]_jobVars
=============================================================================
