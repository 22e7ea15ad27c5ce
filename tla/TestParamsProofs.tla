--------------------------- MODULE TestParamsProofs ---------------------------
(***************************************************************************)
(* The parameters of a test are usable, and reported as they are used,     *)
(* for every number a coordinator can put into an assignment.  And the     *)
(* classification of networks, the other pure part of the swarm, names a   *)
(* type on evidence only.                                                  *)
(***************************************************************************)
EXTENDS TestParams, NatClassifier, TLAPS

USE NoneAssumption, ChoicesAssumption

TypeInv == config \in [Fields -> Nat \cup {None}]

\* Whole kibibytes survive the way into the report and back.
LEMMA WholeKiB == \A m \in Nat : (m * KiB) \div KiB = m
  BY DEF KiB

\* The executor's chunk size is a positive number of kibibytes within bounds.
LEMMA ChunkIsWhole ==
    ASSUME NEW c \in [Fields -> Nat \cup {None}]
    PROVE  /\ \E m \in Nat : ChunkSize(c) = m * KiB
           /\ ChunkSize(c) >= KiB /\ ChunkSize(c) <= 16 * MiB
<1>1. c["chunk_size_kb"] \in Nat \cup {None}
  BY DEF Fields
<1>2. PICK m \in Nat : (IF c["chunk_size_kb"] = None THEN DEFAULT_CHUNK_SIZE
                        ELSE c["chunk_size_kb"] * KiB) = m * KiB
  BY <1>1 DEF DEFAULT_CHUNK_SIZE, MiB, KiB
<1>3. ChunkSize(c) = Clamp(m * KiB, KiB, 16 * MiB)
  BY <1>2 DEF ChunkSize
<1>4. KiB = 1 * KiB /\ 16 * MiB = 16384 * KiB
  BY DEF KiB, MiB
<1>5. \E k \in Nat : Clamp(m * KiB, KiB, 16 * MiB) = k * KiB
  BY <1>4 DEF Clamp
<1>6. Clamp(m * KiB, KiB, 16 * MiB) >= KiB /\ Clamp(m * KiB, KiB, 16 * MiB) <= 16 * MiB
  BY DEF Clamp, KiB, MiB
<1> QED  BY <1>3, <1>5, <1>6

LEMMA TypeInvariant == Assignments => []TypeInv
<1>1. NothingAsked => TypeInv
  BY DEF NothingAsked, TypeInv
<1>2. TypeInv /\ [NextAssignment]_config => TypeInv'
  <2> SUFFICES ASSUME TypeInv, [NextAssignment]_config PROVE TypeInv'
    OBVIOUS
  <2>1. CASE NextAssignment
    <3>1. PICK f \in Fields : \E v \in Choices[f] : config' = [config EXCEPT ![f] = v]
      BY <2>1 DEF NextAssignment
    <3>2. PICK v \in Nat \cup {None} : config' = [config EXCEPT ![f] = v]
      BY <3>1
    <3> QED  BY <3>1, <3>2 DEF TypeInv
  <2>2. CASE UNCHANGED config
    BY <2>2 DEF TypeInv
  <2> QED  BY <2>1, <2>2
<1> QED  BY <1>1, <1>2, PTL DEF Assignments

\* The chunk named in the report is the chunk on the wire, at both ends.
THEOREM ReportNamesWireChunk == Assignments => []WireChunkIsReported
<1>1. TypeInv => WireChunkIsReported
  <2> SUFFICES ASSUME TypeInv PROVE WireChunkIsReported
    OBVIOUS
  <2>1. PICK m \in Nat : ChunkSize(config) = m * KiB
    BY ChunkIsWhole DEF TypeInv
  <2>2. ReportedKiB(ChunkSize(config)) = m
    BY <2>1, WholeKiB DEF ReportedKiB
  <2>3. WireChunk(ChunkSize(config)) = ChunkSize(config)
    BY <2>1, ChunkIsWhole DEF TypeInv, WireChunk, Clamp, KiB, MiB
  <2> QED  BY <2>1, <2>2, <2>3 DEF WireChunkIsReported
<1> QED  BY <1>1, TypeInvariant, PTL

\* What TestExecution assumes of its constants: no assignment makes a transfer
\* divide by zero.
TransferIsDefined ==
    ParallelStreams(config) \in Nat \ {0} /\ ChunkSize(config) \in Nat \ {0}

LEMMA TransferAlwaysDefined == Assignments => []TransferIsDefined
<1>1. TypeInv => TransferIsDefined
  <2> SUFFICES ASSUME TypeInv PROVE TransferIsDefined
    OBVIOUS
  <2>1. config["parallel_streams"] \in Nat \cup {None}
    BY DEF TypeInv, Fields
  <2>2. ParallelStreams(config) \in Nat \ {0}
    BY <2>1 DEF ParallelStreams, OrElse, Clamp, DEFAULT_PARALLEL_STREAMS
  <2>3. ChunkSize(config) \in Nat \ {0}
    <3>1. PICK m \in Nat : ChunkSize(config) = m * KiB
      BY ChunkIsWhole DEF TypeInv
    <3>2. ChunkSize(config) >= KiB
      BY ChunkIsWhole DEF TypeInv
    <3> QED  BY <3>1, <3>2 DEF KiB
  <2> QED  BY <2>2, <2>3 DEF TransferIsDefined
<1> QED  BY <1>1, TypeInvariant, PTL

------------------------------------------------------------------------------
(* NatClassifier. *)

ReportInv == report \in Report

LEMMA ReportType == Reports => []ReportInv
<1>1. NothingReported => ReportInv
  BY DEF ReportInv, NothingReported, EmptyReport, Report, Opt
<1>2. ReportInv /\ [NextReport]_report => ReportInv'
  <2> SUFFICES ASSUME report \in Report, [NextReport]_report PROVE report' \in Report
    BY DEF ReportInv
  <2>1. CASE FirstReport
    <3>1. PICK flag \in [Flags -> BOOLEAN] :
              report' = [report EXCEPT !.base = TRUE, !.flag = flag]
      BY <2>1 DEF FirstReport
    <3> QED  BY <3>1 DEF Report
  <2>2. CASE Observe \/ ObservePort
    <3>1. PICK f \in MapFlags \cup PortFlags :
              \E v \in Opt : report' = [report EXCEPT !.varies[f] = v]
      BY <2>2 DEF Observe, ObservePort
    <3>2. PICK v \in Opt : report' = [report EXCEPT !.varies[f] = v]
      BY <3>1
    <3> QED  BY <3>1, <3>2 DEF Report
  <2>3. CASE UNCHANGED report
    BY <2>3
  <2> QED  BY <2>1, <2>2, <2>3 DEF NextReport
<1> QED  BY <1>1, <1>2, PTL DEF Reports

\* What the match says, by the two observations.
LEMMA VerdictIs ==
    ASSUME NEW address \in Opt, NEW port \in Opt
    PROVE  /\ Verdict(address, port) = "Unknown" <=> address = "none"
           /\ Verdict(address, port) = "Easy" <=> address = "false" /\ port = "false"
  BY DEF Verdict, Opt

\* A type is named on evidence, and as soon as there is evidence; Easy on an
\* observation of the ports.
THEOREM TypeNeedsEvidence == Reports => []DecidedOnEvidence
<1>1. ReportInv => DecidedOnEvidence
  <2> SUFFICES ASSUME report \in Report PROVE DecidedOnEvidence
    BY DEF ReportInv
  <2>1. /\ report.varies["mapping_v4"] \in Opt /\ report.varies["mapping_v6"] \in Opt
        /\ report.varies["port_v4"] \in Opt /\ report.varies["port_v6"] \in Opt
    BY DEF Report, MapFlags, PortFlags
  <2> DEFINE address == Or(report.varies["mapping_v4"], report.varies["mapping_v6"])
             port == Or(report.varies["port_v4"], report.varies["port_v6"])
  <2>2. address \in Opt /\ port \in Opt
    BY <2>1 DEF Or
  <2>3. address # "none" <=> \E f \in MapFlags : report.varies[f] # "none"
    BY DEF Or, MapFlags
  <2>4. /\ Verdict(address, port) # "Unknown" <=> address # "none"
        /\ Verdict(address, port) = "Easy" => port = "false"
    BY <2>2, VerdictIs
  <2>5. port = "false" => \E f \in PortFlags : report.varies[f] # "none"
    BY DEF Or, PortFlags
  <2>6. Reachable(report) <=> /\ report.base
                              /\ \E f \in {"global_v4", "global_v6"} : report.flag[f]
                              /\ \E f \in {"udp_v4", "udp_v6"} : report.flag[f]
    BY Zenon DEF Reachable
  <2>7. classify_nat_type(report) = IF Reachable(report) THEN Verdict(address, port) ELSE "Unknown"
    BY DEF classify_nat_type
  <2> HIDE DEF address, port
  <2> QED  BY <2>3, <2>4, <2>5, <2>6, <2>7 DEF DecidedOnEvidence
<1> QED  BY <1>1, ReportType, PTL

\* An observation of a port leaves everything else about the report alone.
LEMMA PortObserved ==
    ASSUME report \in Report, ObservePort
    PROVE  /\ report'.base = report.base /\ report'.flag = report.flag
           /\ \A f \in MapFlags : report'.varies[f] = report.varies[f]
           /\ report' \in Report
<1>1. PICK f \in PortFlags : \E v \in Opt : report' = [report EXCEPT !.varies[f] = v]
  BY DEF ObservePort
<1>2. PICK v \in Opt : report' = [report EXCEPT !.varies[f] = v]
  BY <1>1
<1>3. report'.base = report.base /\ report'.flag = report.flag /\ report' \in Report
  BY <1>2 DEF Report
<1>4. report'.varies = [report.varies EXCEPT ![f] = v]
  BY <1>2 DEF Report
<1>5. \A g \in MapFlags : report'.varies[g] = report.varies[g]
  BY <1>4 DEF Report, MapFlags, PortFlags
<1> QED  BY <1>3, <1>5

\* Easy and Medium are told apart by ports; no other types are.
LEMMA PortsTellApart ==
    ASSUME NEW address \in Opt, NEW port \in Opt, NEW other \in Opt,
           Verdict(address, port) # Verdict(address, other)
    PROVE  Verdict(address, port) \in {"Easy", "Medium"}
  BY DEF Verdict, Opt

\* Ports move a network between Easy and Medium, whatever else is known of it.
THEOREM PortsRefineOnly == Reports => PortsOnlyRefine
<1> DEFINE Mild(type) == p2p_difficulty(type) < p2p_difficulty("Unknown")
           Refines == ObservePort /\ classify_nat_type(report) # classify_nat_type(report') =>
                          Mild(classify_nat_type(report)) /\ Mild(classify_nat_type(report'))
<1>1. ReportInv => [Refines]_report
  <2> SUFFICES ASSUME report \in Report, ObservePort,
                      classify_nat_type(report) # classify_nat_type(report')
               PROVE  Mild(classify_nat_type(report)) /\ Mild(classify_nat_type(report'))
    BY DEF ReportInv
  <2> DEFINE Address(r) == Or(r.varies["mapping_v4"], r.varies["mapping_v6"])
             Port(r) == Or(r.varies["port_v4"], r.varies["port_v6"])
  <2>1. \A r \in Report : Address(r) \in Opt /\ Port(r) \in Opt
    BY DEF Report, MapFlags, PortFlags, Or
  <2>2. Address(report') = Address(report)
    BY PortObserved DEF MapFlags
  <2>3. Reachable(report') <=> Reachable(report)
    BY PortObserved, Zenon DEF Reachable
  <2>4. /\ classify_nat_type(report) = IF Reachable(report) THEN Verdict(Address(report), Port(report))
                                                            ELSE "Unknown"
        /\ classify_nat_type(report') = IF Reachable(report') THEN Verdict(Address(report'), Port(report'))
                                                              ELSE "Unknown"
    BY DEF classify_nat_type
  <2> HIDE DEF Address, Port
  <2>5. /\ classify_nat_type(report) = Verdict(Address(report), Port(report))
        /\ classify_nat_type(report') = Verdict(Address(report), Port(report'))
    BY <2>2, <2>3, <2>4, Zenon
  <2>6. Address(report) \in Opt /\ Port(report) \in Opt /\ Port(report') \in Opt
    BY <2>1, PortObserved
  <2>7. classify_nat_type(report) \in {"Easy", "Medium"} /\ classify_nat_type(report') \in {"Easy", "Medium"}
    BY <2>5, <2>6, PortsTellApart
  <2>8. Mild("Easy") /\ Mild("Medium")
    BY DEF p2p_difficulty
  <2> QED  BY <2>7, <2>8
<1>2. [][Refines]_report <=> PortsOnlyRefine
  BY PTL DEF PortsOnlyRefine
<1> QED  BY <1>1, <1>2, ReportType, PTL
=============================================================================
