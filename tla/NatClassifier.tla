---------------------------- MODULE NatClassifier ----------------------------
(***************************************************************************)
(* The classification of a network report by NAT type                      *)
(* (src/src/nat_classifier.rs), over the reports a node goes through while *)
(* its net-report learns about the network (swarm/net_report_ext.rs).      *)
(* Addresses are left out: a global address is there or not.               *)
(***************************************************************************)
EXTENDS Naturals

VARIABLE report   \* ExtendedNetworkReport

Opt == {"none", "false", "true"}   \* Option<bool>

Flags == {"global_v4", "global_v6", "udp_v4", "udp_v6"}
MapFlags  == {"mapping_v4", "mapping_v6"}   \* mapping_varies_by_dest_*
PortFlags == {"port_v4", "port_v6"}         \* mapping_varies_by_dest_port_*

\* base is FALSE while there is no base report.
Report == [base : BOOLEAN, flag : [Flags -> BOOLEAN], varies : [MapFlags \cup PortFlags -> Opt]]

\* ExtendedNetworkReport::default()
EmptyReport == [base   |-> FALSE,
                flag   |-> [f \in Flags |-> FALSE],
                varies |-> [f \in MapFlags \cup PortFlags |-> "none"]]

\* Option::or
Or(a, b) == IF a # "none" THEN a ELSE b

\* A variant that looks at the ports first.
PortFirst(address, port) ==
    CASE address = "none"                     -> "Unknown"
      [] address # "none" /\ port = "false"   -> "Easy"
      [] address = "true" /\ port # "false"   -> "Hard"
      [] address = "false" /\ port # "false"  -> "Medium"

\* The match on both kinds of variation.
Verdict(address, port) ==
    CASE address = "true"                     -> "Hard"
      [] address = "false" /\ port # "false"  -> "Medium"
      [] address = "false" /\ port = "false"  -> "Easy"
      [] address = "none"                     -> "Unknown"

\* A variant that asks for no UDP connectivity.
ReachableByAddress(r) == r.base /\ (r.flag["global_v4"] \/ r.flag["global_v6"])

Reachable(r) ==
    /\ r.base
    /\ r.flag["global_v4"] \/ r.flag["global_v6"]
    /\ r.flag["udp_v4"] \/ r.flag["udp_v6"]

classify_nat_type(r) ==
    IF Reachable(r)
    THEN Verdict(Or(r.varies["mapping_v4"], r.varies["mapping_v6"]),
                 Or(r.varies["port_v4"], r.varies["port_v6"]))
    ELSE "Unknown"

p2p_difficulty(type) ==
    CASE type = "Easy" -> 1 [] type = "Medium" -> 3 [] type = "Unknown" -> 4 [] type = "Hard" -> 5

------------------------------------------------------------------------------
NothingReported == report = EmptyReport

\* The first report of the endpoint arrives.
FirstReport ==
    /\ ~report.base
    /\ \E flag \in [Flags -> BOOLEAN] : report' = [report EXCEPT !.base = TRUE, !.flag = flag]

\* A later report has learned how mappings vary, or changed its mind.
Observe ==
    /\ report.base
    /\ \E f \in MapFlags, v \in Opt : report' = [report EXCEPT !.varies[f] = v]

\* Port observations: fields of the report that no probe fills in yet.
ObservePort ==
    /\ report.base
    /\ \E f \in PortFlags, v \in Opt : report' = [report EXCEPT !.varies[f] = v]

\* Any report the type admits, as the unit tests build them.
NextReport == FirstReport \/ Observe \/ ObservePort

Reports == NothingReported /\ [][NextReport]_report

------------------------------------------------------------------------------
(* Properties. *)

(***************************************************************************)
(* A verdict needs evidence: a type is named only after a global address,  *)
(* UDP and some observation of the mapping were all seen; and it is named  *)
(* as soon as they were (test_missing_variation_data, test_unknown).       *)
(* Easy needs an observation of the ports besides: from_base_report leaves *)
(* their fields empty, and as long as no probe fills them in, the swarm    *)
(* client classifies no network as Easy.                                   *)
(***************************************************************************)
DecidedOnEvidence ==
    /\ classify_nat_type(report) # "Unknown" <=>
        /\ report.base
        /\ \E f \in {"global_v4", "global_v6"} : report.flag[f]
        /\ \E f \in {"udp_v4", "udp_v6"} : report.flag[f]
        /\ \E f \in MapFlags : report.varies[f] # "none"
    /\ classify_nat_type(report) = "Easy" => \E f \in PortFlags : report.varies[f] # "none"

(***************************************************************************)
(* Learning how ports are mapped may turn Medium into Easy or back, and    *)
(* touches neither Hard nor Unknown.                                       *)
(***************************************************************************)
PortsOnlyRefine ==
    [][ObservePort /\ classify_nat_type(report) # classify_nat_type(report') =>
          /\ p2p_difficulty(classify_nat_type(report)) < p2p_difficulty("Unknown")
          /\ p2p_difficulty(classify_nat_type(report')) < p2p_difficulty("Unknown")]_report
=============================================================================
