-------------------------- MODULE SourceSelection --------------------------
(***************************************************************************)
(* "Advanced > Source": each feature keeps the source it sends from as an  *)
(* index into one list of interfaces, which any of their pages may gather  *)
(* anew.  A start turns the index into a copy of the interface.            *)
(***************************************************************************)
EXTENDS Naturals, Sequences

CONSTANTS
  Interfaces,  \* interfaces the host may have, numbered by their labels
  MaxIfaces    \* bound: length of the list

ASSUME InterfacesAssumption == Interfaces \subseteq Nat /\ MaxIfaces \in Nat

Features == {"ping", "trace", "dns", "packet"}

VARIABLES
  ifaces,   \* the list, sorted by label
  sel,      \* SourceSel of each feature
  sourced   \* history: how the source of the latest start was found

sourceVars == <<ifaces, sel, sourced>>

Default == [k |-> "default", i |-> 0]
CustomIp == [k |-> "custom", i |-> 0]
Iface(i) == [k |-> "iface", i |-> i]

\* gather_ifaces: those with an address, sorted; lists it may return.
IfaceLists ==
  UNION {{s \in [1 .. n -> Interfaces] : \A i, j \in 1 .. n : i < j => s[i] < s[j]}
           : n \in 0 .. MaxIfaces}

SourceInit ==
  /\ ifaces \in IfaceLists
  /\ sel = [f \in Features |-> Default]
  /\ sourced = "none"

\* source_selector, on the page of f; indices start at 1.
SelectSource(f) ==
  /\ \E s \in {Default, CustomIp} \cup {Iface(i) : i \in 1 .. Len(ifaces)} :
       sel' = [sel EXCEPT ![f] = s]
  /\ UNCHANGED <<ifaces, sourced>>

\* Fault: the page refreshes its own selection only.
RefreshOwn(f) ==
  /\ ifaces' \in IfaceLists
  /\ sel' = IF sel[f].k = "iface" /\ sel[f].i > Len(ifaces')
            THEN [sel EXCEPT ![f] = Default] ELSE sel
  /\ UNCHANGED sourced

\* "Refresh interface list" on the page of f: every selection that is out of
\* range returns to the default.
RefreshIfaces(f) ==
  /\ ifaces' \in IfaceLists
  /\ sel' = [g \in Features |->
               IF sel[g].k = "iface" /\ sel[g].i > Len(ifaces') THEN Default
               ELSE sel[g]]
  /\ UNCHANGED sourced

\* source_config, at the start of f: an interface is looked up in the list, a
\* custom address may be no address.
StartFrom(f) ==
  /\ CASE sel[f].k = "default" -> sourced' = "system"
       [] sel[f].k = "custom" -> sourced' \in {"address", "no address"}
       [] OTHER -> sourced' = IF sel[f].i \in DOMAIN ifaces THEN "interface"
                              ELSE "list changed"
  /\ UNCHANGED <<ifaces, sel>>

SourceNext ==
  \E f \in Features : SelectSource(f) \/ RefreshIfaces(f) \/ StartFrom(f)

SourceSpec == SourceInit /\ [][SourceNext]_sourceVars

-----------------------------------------------------------------------------
(* Properties.                                                             *)

Selections ==
  {Default, CustomIp} \cup {Iface(i) : i \in 1 .. Len(ifaces)}

\* Whatever page refreshes the list, no feature is left with an index outside
\* it, and no start meets "the interface list changed" (advanced_source_ui,
\* source_config).
SourceIndexValid ==
  /\ ifaces \in IfaceLists
  /\ sel \in [Features -> Selections]
  /\ sourced # "list changed"
=============================================================================
