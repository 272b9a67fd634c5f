----------------------- MODULE SourceSelection_proofs -----------------------
(***************************************************************************)
(* SourceIndexValid is inductive: a selection is made from the list shown, *)
(* and a refresh, on whatever page, looks at the selections of all pages.  *)
(***************************************************************************)
EXTENDS SourceSelection, TLAPS

\* A list of gather_ifaces is a sequence: it has a length, and its indices are
\* those up to it.
LEMMA ListLength ==
  ASSUME NEW s \in IfaceLists
  PROVE  Len(s) \in Nat /\ DOMAIN s = 1 .. Len(s)
<1>1. PICK n \in 0 .. MaxIfaces : s \in [1 .. n -> Interfaces]
  BY DEF IfaceLists
<1>2. Len(s) = n /\ n \in Nat
  BY <1>1, InterfacesAssumption
<1> QED BY <1>1, <1>2

\* Interfaces are told apart by their index, other selections have none.
LEMMA InRange ==
  ASSUME NEW s \in IfaceLists, NEW x, x.k = "iface",
         x \in {Default, CustomIp} \cup {Iface(i) : i \in 1 .. Len(s)}
  PROVE  x.i \in 1 .. Len(s) /\ x = Iface(x.i)
BY DEF Default, CustomIp, Iface

\* The other two selections, by their kind.
LEMMA NotAnInterface ==
  ASSUME NEW s \in IfaceLists, NEW x, x.k # "iface",
         x \in {Default, CustomIp} \cup {Iface(i) : i \in 1 .. Len(s)}
  PROVE  x \in {Default, CustomIp} /\ x.k \in {"default", "custom"}
<1>1. x \notin {Iface(i) : i \in 1 .. Len(s)}
  BY DEF Iface
<1> QED BY <1>1 DEF Default, CustomIp

\* At the start no interface is selected.
LEMMA SourceInitValid == SourceInit => SourceIndexValid
BY DEF SourceInit, SourceIndexValid, Selections, Default

\* No step of any page takes a selection out of the list.
LEMMA SourceStepValid ==
  SourceIndexValid /\ [SourceNext]_sourceVars => SourceIndexValid'
<1> SUFFICES ASSUME SourceIndexValid, [SourceNext]_sourceVars
             PROVE  SourceIndexValid'
  OBVIOUS
<1>1. ASSUME NEW f \in Features, SelectSource(f)
      PROVE  SourceIndexValid'
  BY <1>1 DEF SelectSource, SourceIndexValid, Selections
<1>2. ASSUME NEW f \in Features, RefreshIfaces(f)
      PROVE  SourceIndexValid'
  <2>1. ifaces' \in IfaceLists /\ Len(ifaces') \in Nat /\ sourced' = sourced
    BY <1>2, ListLength DEF RefreshIfaces
  <2>2. ASSUME NEW g \in Features
        PROVE  (IF sel[g].k = "iface" /\ sel[g].i > Len(ifaces') THEN Default
                ELSE sel[g]) \in Selections'
    <3>1. CASE sel[g].k = "iface"
      <4>1. sel[g].i \in 1 .. Len(ifaces) /\ sel[g] = Iface(sel[g].i)
        BY <3>1, InRange DEF SourceIndexValid, Selections
      <4>2. CASE sel[g].i > Len(ifaces')
        BY <3>1, <4>2 DEF Selections
      <4>3. CASE ~(sel[g].i > Len(ifaces'))
        <5>1. Len(ifaces) \in Nat
          BY ListLength DEF SourceIndexValid
        <5>2. sel[g].i \in 1 .. Len(ifaces')
          BY <2>1, <4>1, <4>3, <5>1
        <5> QED BY <4>1, <4>3, <5>2 DEF Selections
      <4> QED BY <4>2, <4>3
    <3>2. CASE sel[g].k # "iface"
      <4>1. sel[g] \in {Default, CustomIp}
        BY <3>2, NotAnInterface DEF SourceIndexValid, Selections
      <4> QED BY <3>2, <4>1 DEF Selections
    <3> QED BY <3>1, <3>2
  <2>3. sel' \in [Features -> Selections']
    BY <1>2, <2>2 DEF RefreshIfaces
  <2> QED BY <2>1, <2>3 DEF SourceIndexValid
<1>3. ASSUME NEW f \in Features, StartFrom(f)
      PROVE  SourceIndexValid'
  <2>1. UNCHANGED <<ifaces, sel>>
    BY <1>3 DEF StartFrom
  <2>2. sourced' # "list changed"
    <3>1. CASE sel[f].k = "iface"
      <4>1. sel[f].i \in DOMAIN ifaces
        BY <3>1, InRange, ListLength DEF SourceIndexValid, Selections
      <4> QED BY <1>3, <3>1, <4>1 DEF StartFrom
    <3>2. CASE sel[f].k # "iface"
      <4>1. sel[f].k \in {"default", "custom"}
        BY <3>2, NotAnInterface DEF SourceIndexValid, Selections
      <4> QED BY <1>3, <4>1 DEF StartFrom
    <3> QED BY <3>1, <3>2
  <2> QED BY <2>1, <2>2 DEF SourceIndexValid, Selections
<1>4. CASE UNCHANGED sourceVars
  BY <1>4 DEF sourceVars, SourceIndexValid, Selections
<1> QED BY <1>1, <1>2, <1>3, <1>4 DEF SourceNext

\* No feature ever holds an index outside the list of interfaces, and no start
\* meets "the interface list changed" (advanced_source_ui, source_config),
\* however many interfaces come and go.
THEOREM SourceSelectionsValid == SourceSpec => []SourceIndexValid
BY SourceInitValid, SourceStepValid, PTL DEF SourceSpec
=============================================================================
