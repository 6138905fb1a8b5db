------------------------------- MODULE Fac001 -------------------------------
(***************************************************************************)
(* The synthetic facility FAC-001: the inventory                           *)
(* (packages/reference_facility/data) of its nodes, edges, supplies and    *)
(* sub-meters, without ratings, and the switching variants defined over it *)
(* (packages/reference_facility/switching.py).  A constant module.         *)
(***************************************************************************)
EXTENDS Integers, Sequences, Functions

\* The node ids in the order of their strings, and the place of each in it.
NodeIds ==
  <<"AC-001", "ATS-001", "BATT-001", "CAP-001", "CB-LV-INC-001",
    "CB-LV-INC-002", "CB-MV-INC-001", "CB-MV-TX1", "CB-MV-TX2",
    "CB-TIE-001", "CH-001", "CH-002", "DB-001", "DB-002", "DB-003",
    "GEN-001", "HF-001", "INV-001", "M-001", "M-002", "M-003", "M-004",
    "M-005", "M-006", "M-007", "M-008", "MCC-001", "MCC-002", "MCC-003",
    "MTR-DB-003", "MTR-LV-001", "MTR-LV-002", "MTR-MAIN-001", "MTR-MCC-001",
    "MTR-MCC-002", "P-001", "P-002", "P-003", "PL-001", "PL-002", "PV-001",
    "SWGR-LV-001", "SWGR-LV-002", "SWGR-MV-001", "TX-001", "TX-002",
    "UPS-001", "UTIL-001", "VFD-001", "VFD-002", "VFD-003", "VFD-004">>

Id(name) == CHOOSE i \in DOMAIN NodeIds : NodeIds[i] = name

\* The edges that name no switching device: CLOSED.
Wire(id, a, b) ==
  [id |-> id, from |-> a, to |-> b, device |-> {}, sw |-> "CLOSED"]

Switch(id, a, b, device, sw) ==
  [id |-> id, from |-> a, to |-> b, device |-> device, sw |-> sw]

FacilityEdges ==
  <<Switch("E-UTIL-SWGRMV", "UTIL-001", "SWGR-MV-001", {"CB-MV-INC-001"}, "CLOSED"),
    Switch("E-SWGRMV-TX1", "SWGR-MV-001", "TX-001", {"CB-MV-TX1"}, "CLOSED"),
    Switch("E-SWGRMV-TX2", "SWGR-MV-001", "TX-002", {"CB-MV-TX2"}, "CLOSED"),
    Switch("E-TX1-SWGRLV1", "TX-001", "SWGR-LV-001", {"CB-LV-INC-001"}, "CLOSED"),
    Switch("E-TX2-SWGRLV2", "TX-002", "SWGR-LV-002", {"CB-LV-INC-002"}, "CLOSED"),
    Switch("E-TIE", "SWGR-LV-001", "SWGR-LV-002", {"CB-TIE-001"}, "OPEN"),
    Wire("E-LV1-MCC1", "SWGR-LV-001", "MCC-001"),
    Wire("E-LV1-PL1", "SWGR-LV-001", "PL-001"),
    Wire("E-LV1-DB1", "SWGR-LV-001", "DB-001"),
    Wire("E-LV1-DB2", "SWGR-LV-001", "DB-002"),
    Wire("E-LV1-CAP", "SWGR-LV-001", "CAP-001"),
    Wire("E-INV-LV1", "INV-001", "SWGR-LV-001"),
    Wire("E-LV2-MCC2", "SWGR-LV-002", "MCC-002"),
    Wire("E-LV2-MCC3", "SWGR-LV-002", "MCC-003"),
    Wire("E-LV2-PL2", "SWGR-LV-002", "PL-002"),
    Wire("E-LV2-HF", "SWGR-LV-002", "HF-001"),
    Wire("E-LV2-UPS", "SWGR-LV-002", "UPS-001"),
    Wire("E-UPS-DB3", "UPS-001", "DB-003"),
    Wire("E-BATT-UPS", "BATT-001", "UPS-001"),
    Switch("E-GEN-ATS", "GEN-001", "ATS-001", {}, "OPEN"),
    Switch("E-ATS-LV2", "ATS-001", "SWGR-LV-002", {"ATS-001"}, "OPEN"),
    Wire("E-MCC1-M1", "MCC-001", "M-001"),
    Wire("E-MCC1-VFD1", "MCC-001", "VFD-001"),
    Wire("E-VFD1-M2", "VFD-001", "M-002"),
    Wire("E-MCC1-M3", "MCC-001", "M-003"),
    Wire("E-MCC2-VFD2", "MCC-002", "VFD-002"),
    Wire("E-VFD2-M4", "VFD-002", "M-004"),
    Wire("E-MCC2-M5", "MCC-002", "M-005"),
    Wire("E-MCC2-VFD3", "MCC-002", "VFD-003"),
    Wire("E-VFD3-M6", "VFD-003", "M-006"),
    Wire("E-MCC3-VFD4", "MCC-003", "VFD-004"),
    Wire("E-VFD4-M7", "VFD-004", "M-007"),
    Wire("E-MCC3-M8", "MCC-003", "M-008"),
    Wire("E-MCC3-CH1", "MCC-003", "CH-001"),
    Wire("E-MCC3-CH2", "MCC-003", "CH-002"),
    Wire("E-MCC3-AC1", "MCC-003", "AC-001"),
    Wire("E-MCC3-P1", "MCC-003", "P-001"),
    Wire("E-MCC3-P2", "MCC-003", "P-002"),
    Wire("E-MCC3-P3", "MCC-003", "P-003")>>

FacilitySources ==
  <<[node |-> "UTIL-001", type |-> "UTILITY", prio |-> 0],
    [node |-> "GEN-001", type |-> "GENERATOR", prio |-> 1],
    [node |-> "INV-001", type |-> "SOLAR_PV", prio |-> 2],
    [node |-> "UPS-001", type |-> "UPS", prio |-> 2],
    [node |-> "BATT-001", type |-> "BATTERY", prio |-> 3]>>

\* Which node each meter measures, and the branch left without one.
Submeters ==
  <<[meter |-> "MTR-MAIN-001", measures |-> "UTIL-001"],
    [meter |-> "MTR-LV-001", measures |-> "SWGR-LV-001"],
    [meter |-> "MTR-LV-002", measures |-> "SWGR-LV-002"],
    [meter |-> "MTR-MCC-001", measures |-> "MCC-001"],
    [meter |-> "MTR-MCC-002", measures |-> "MCC-002"],
    [meter |-> "MTR-DB-003", measures |-> "DB-003"]>>

MeteringGap == "MCC-003"

-----------------------------------------------------------------------------
(* The variants.                                                            *)

Variants == {"base", "tie_closed", "tx1_out", "utility_loss", "unknown_switch"}

UtilityLossLeavingTheUpsOn ==
  [OPEN |-> {"E-UTIL-SWGRMV"}, CLOSED |-> {"E-GEN-ATS", "E-ATS-LV2"}]

UtilityLossOpeningTheBoard ==
  [OPEN |-> {"E-UTIL-SWGRMV", "E-UPS-DB3"}, CLOSED |-> {"E-GEN-ATS", "E-ATS-LV2"}]

\* The transfer to the generator; the UPS opens its input and runs on battery.
UtilityLossOverrides ==
  [OPEN |-> {"E-UTIL-SWGRMV", "E-LV2-UPS"}, CLOSED |-> {"E-GEN-ATS", "E-ATS-LV2"}]

\* _VARIANT_EDGE_OVERRIDES: the edges a variant moves, by the state it gives.
Overrides(variant) ==
  CASE variant = "tie_closed" -> [CLOSED |-> {"E-TIE"}]
    [] variant = "tx1_out" ->
         [RACKED_OUT |-> {"E-SWGRMV-TX1", "E-TX1-SWGRLV1"}, CLOSED |-> {"E-TIE"}]
    [] variant = "utility_loss"   -> UtilityLossOverrides
    [] variant = "unknown_switch" -> [UNKNOWN |-> {"E-LV2-MCC3"}]
    [] OTHER -> <<>>

Overridden(variant) == UNION Range(Overrides(variant))

\* _apply_switch_states, for one edge.
Applied(variant, e) ==
  LET over  == Overrides(variant)
      given == {s \in DOMAIN over : e.id \in over[s]}
  IN  IF given = {} THEN e.sw ELSE CHOOSE s \in given : TRUE

VariantSourcesWithoutTheInverter(variant, sources) ==
  {s \in Range(sources) : variant = "utility_loss" => s.node \notin {"UTIL-001", "INV-001"}}

VariantSources(variant, sources) ==
  {s \in Range(sources) : variant = "utility_loss" => s.node # "UTIL-001"}

=============================================================================
