------------------------------ MODULE MCParts ------------------------------
(***************************************************************************)
(* Three components that share no state, on small instances in one run:    *)
(* the subnet scan, the ICMP probes and the source selectors.  A behaviour *)
(* is one of one of them, the others resting in an initial state.          *)
(***************************************************************************)
EXTENDS ArpScan, IcmpProbe, SourceSelection

VARIABLE part

partVars == <<part, vars, probeVars, sourceVars>>

PartsInit ==
  /\ part \in {"scan", "probe", "source"}
  /\ Init /\ ProbeInit /\ SourceInit
  /\ part # "probe" => kernel
  /\ part # "source" => ifaces = <<>>

PartsNext ==
  /\ UNCHANGED part
  /\ \/ part = "scan" /\ Next /\ UNCHANGED <<probeVars, sourceVars>>
     \/ part = "probe" /\ ProbeNext /\ UNCHANGED <<vars, sourceVars>>
     \/ part = "source" /\ SourceNext /\ UNCHANGED <<vars, probeVars>>

PartsSpec == PartsInit /\ [][PartsNext]_partVars /\ Fairness /\ ProbeFairness
=============================================================================
