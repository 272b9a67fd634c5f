----------------------------- MODULE NetRefresh -----------------------------
(***************************************************************************)
(* The network configuration page: a thread gathers the report when the    *)
(* page is shown without one, when automatic refresh is due, or on a       *)
(* click, never while one is gathering.                                    *)
(***************************************************************************)
EXTENDS Frame

VARIABLES
  netLoading,  \* net_loading
  netAuto,     \* net_auto
  netReport,   \* net_report holds one
  netThreads   \* threads gathering

netVars == <<netLoading, netAuto, netReport, netThreads>>

NetReady == [job |-> "net", done |-> TRUE]

NetInit ==
  /\ netLoading = FALSE /\ netAuto = FALSE /\ netReport = FALSE
  /\ netThreads = 0

\* Fault: each refresh starts a thread.
RefreshAgain ==
  \/ Launch /\ netLoading' = TRUE /\ netThreads' = netThreads + 1
  \/ starts = MaxStarts /\ UNCHANGED <<netLoading, netThreads, starts>>

\* refresh_netconfig; at the bound of the model there is no further report.
Refresh ==
  \/ /\ ~netLoading /\ Launch
     /\ netLoading' = TRUE /\ netThreads' = netThreads + 1
  \/ /\ netLoading \/ starts = MaxStarts
     /\ UNCHANGED <<netLoading, netThreads, starts>>

\* The top of the page; whether the last report is 3 s old is free.
NetPageTop ==
  \/ (~netReport \/ netAuto) /\ Refresh
  \/ netReport /\ UNCHANGED <<netLoading, netThreads, starts>>

\* The page without a click on it.
ShowNet == NetPageTop /\ UNCHANGED <<netAuto, netReport>>

\* "Refresh": the second of two refreshes does nothing, so one will do.
RefreshClicked ==
  /\ Click
  /\ Refresh /\ UNCHANGED <<netAuto, netReport>>

\* The "Auto-refresh" box, below the top of the page.
AutoClicked ==
  /\ Click
  /\ NetPageTop
  /\ netAuto' = ~netAuto /\ UNCHANGED netReport

\* drain_events.
DrainNet ==
  /\ netReport' = (netReport \/ InChan({NetReady}))
  /\ netLoading' = (netLoading /\ ~InChan({NetReady}))
  /\ UNCHANGED <<netAuto, netThreads>>

\* gather returns: every tool it runs has ended, or none could be started.
Gathered ==
  /\ netThreads > 0 /\ netThreads' = netThreads - 1
  /\ SendEvent(NetReady)
  /\ UNCHANGED <<netLoading, netAuto, netReport>>

-----------------------------------------------------------------------------
(* Properties.                                                             *)

NetTypeOK ==
  /\ netLoading \in BOOLEAN /\ netAuto \in BOOLEAN /\ netReport \in BOOLEAN
  /\ netThreads \in 0 .. 1

\* A refresh as a job (see Job) of one item.
NetJob == INSTANCE Job WITH
  Items <- {1}, busy <- netLoading, todo <- IF netThreads > 0 THEN {1} ELSE {}
=============================================================================
