---------------------------- MODULE VendorLookup ----------------------------
(***************************************************************************)
(* Vendors on the ARP page: "Resolve vendors" replaces all vendors by      *)
(* those of a new run over the MAC addresses of the table, "Resolve" in a  *)
(* row adds one.  One thread looks the addresses up, in the embedded       *)
(* database or online, and reports Done.                                   *)
(***************************************************************************)
EXTENDS Frame

CONSTANTS
  Ouis,     \* prefixes of MAC addresses
  NoOui,    \* of an address without one ("(incomplete)")
  MaxMacs   \* bound: addresses of one run

ASSUME VendorAssumption == NoOui \notin Ouis /\ MaxMacs \in Nat \ {0}

\* The addresses of a run, by their prefix.
MacLists == UNION {[1 .. n -> Ouis \cup {NoOui}] : n \in 1 .. MaxMacs}

VARIABLES
  vendorRunning,  \* arp_vendor_running
  vendors,        \* arp_vendors: the run that found it, 0 for none
  vendorThread,   \* the thread of the last run
  lastBulk        \* history: the last run of "Resolve vendors"

vendorVars == <<vendorRunning, vendors, vendorThread, lastBulk>>

\* `open`: about to get the database.  `at` is the address under way, `seen`
\* the prefixes asked online, `failed` whether the database did not load.  Of
\* a run that is over, run, macs and failed are kept, as history.
VendorThreads ==
  [pc : {"none", "open", "run"}, online : BOOLEAN, run : Nat,
   macs : {<<>>} \cup MacLists, at : 1 .. MaxMacs + 1, seen : SUBSET Ouis,
   failed : BOOLEAN]
NoVendorThread ==
  [pc |-> "none", online |-> FALSE, run |-> 0, macs |-> <<>>, at |-> 1,
   seen |-> {}, failed |-> FALSE]

\* The ArpEvents of a lookup.
VendorFound == [job : {"vendor"}, oui : Ouis, run : Nat]
VendorEvents == VendorFound \cup [job : {"vendor"}, done : BOOLEAN]
VendorError == [job |-> "vendor", done |-> FALSE]
VendorDone == [job |-> "vendor", done |-> TRUE]

VendorInit ==
  /\ vendorRunning = FALSE /\ vendors = [o \in Ouis |-> 0]
  /\ vendorThread = NoVendorThread /\ lastBulk = 0

-----------------------------------------------------------------------------
\* A thread for these addresses, from the source selected.
LookUp(m) ==
  \E o \in BOOLEAN :
    vendorThread' = [NoVendorThread EXCEPT !.pc = IF o THEN "run" ELSE "open",
                       !.online = o, !.run = starts', !.macs = m]

\* Fault: the vendors of earlier runs stay.
BulkKeepsVendors ==
  /\ Click /\ ~vendorRunning /\ Launch
  /\ \E m \in MacLists : (\E i \in DOMAIN m : m[i] \in Ouis) /\ LookUp(m)
  /\ vendorRunning' = TRUE
  /\ lastBulk' = starts'
  /\ UNCHANGED vendors

\* "Resolve vendors", enabled while the table has an address to resolve.
BulkClicked ==
  /\ Click /\ ~vendorRunning /\ Launch
  /\ \E m \in MacLists : (\E i \in DOMAIN m : m[i] \in Ouis) /\ LookUp(m)
  /\ vendorRunning' = TRUE
  /\ vendors' = [o \in Ouis |-> 0] /\ lastBulk' = starts'

\* "Resolve" in a row without vendor.
OneClicked ==
  /\ Click /\ ~vendorRunning /\ Launch
  /\ \E o \in Ouis \cup {NoOui} :
       (o \in Ouis => vendors[o] = 0) /\ LookUp(<<o>>)
  /\ vendorRunning' = TRUE
  /\ UNCHANGED <<vendors, lastBulk>>

\* drain_events: the latest vendor of a prefix counts.  The error is a message
\* for the page.
DrainVendors ==
  /\ vendors' = [o \in Ouis |->
       LET found == Kept(chan, {e \in VendorFound : e.oui = o})
       IN  IF found = <<>> THEN vendors[o] ELSE found[Len(found)].run]
  /\ vendorRunning' = (vendorRunning /\ ~InChan({VendorDone}))
  /\ UNCHANGED <<vendorThread, lastBulk>>

-----------------------------------------------------------------------------
VendorLeft == vendorThread.at <= Len(vendorThread.macs)

\* The embedded database loads, or nothing is looked up.
OpenDatabase ==
  /\ vendorThread.pc = "open"
  /\ \/ vendorThread' = [vendorThread EXCEPT !.pc = "run"] /\ Quiet
     \/ /\ vendorThread' = [vendorThread EXCEPT !.pc = "run", !.failed = TRUE,
                                !.at = Len(vendorThread.macs) + 1]
        /\ SendEvent(VendorError)
  /\ UNCHANGED <<vendorRunning, vendors, lastBulk>>

\* One turn of the loop: an address without prefix is skipped, online also
\* one asked already; a lookup that fails reports that as the vendor.
LookUpNext ==
  /\ vendorThread.pc = "run" /\ VendorLeft
  /\ LET o == vendorThread.macs[vendorThread.at]
     IN  /\ IF o = NoOui \/ o \in vendorThread.seen THEN Quiet
            ELSE SendEvent([job |-> "vendor", oui |-> o,
                            run |-> vendorThread.run])
         /\ vendorThread' = [vendorThread EXCEPT !.at = @ + 1,
              !.seen = IF vendorThread.online THEN @ \cup ({o} \ {NoOui}) ELSE @]
  /\ UNCHANGED <<vendorRunning, vendors, lastBulk>>

FinishVendors ==
  /\ vendorThread.pc = "run" /\ ~VendorLeft
  /\ vendorThread' = [NoVendorThread EXCEPT !.run = vendorThread.run,
                        !.macs = vendorThread.macs, !.failed = vendorThread.failed]
  /\ SendEvent(VendorDone)
  /\ UNCHANGED <<vendorRunning, vendors, lastBulk>>

VendorStep == OpenDatabase \/ LookUpNext \/ FinishVendors

-----------------------------------------------------------------------------
(* Properties.                                                             *)

VendorTypeOK ==
  /\ vendorRunning \in BOOLEAN /\ vendors \in [Ouis -> Nat]
  /\ vendorThread \in VendorThreads /\ lastBulk \in Nat

\* "A new run replaces the previous results" (ui_arp): no vendor is older than
\* the last bulk run, also none still in the channel, and once the page offers
\* the buttons again the last run has answered every prefix it was asked,
\* unless the database failed to load.
VendorsReplaced ==
  /\ \A o \in Ouis : vendors[o] # 0 => vendors[o] >= lastBulk
  /\ \A i \in 1 .. Len(chan) :
       chan[i] \in VendorFound => chan[i].run = vendorThread.run
  /\ ~vendorRunning /\ ~vendorThread.failed =>
       \A i \in DOMAIN vendorThread.macs :
         LET o == vendorThread.macs[i]
         IN  o \in Ouis => vendors[o] = vendorThread.run

\* A lookup as a job (see Job): the addresses ahead.
VendorTodo == IF vendorThread.pc = "none" THEN {}
              ELSE vendorThread.at .. Len(vendorThread.macs)
VendorJob == INSTANCE Job WITH
  Items <- 1 .. MaxMacs, busy <- vendorRunning, todo <- VendorTodo
=============================================================================
