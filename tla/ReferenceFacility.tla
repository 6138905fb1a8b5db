------------------------- MODULE ReferenceFacility -------------------------
(***************************************************************************)
(* The metered facility FAC-REF-001 the telemetry generator runs on        *)
(* (packages/reference_facility/facility.py): its radial tree of nodes and *)
(* the engineering data of each.  Powers are in kW and kvar, feeder        *)
(* impedances in 10^-4 ohm, driver factors in per cent, and the tangent of *)
(* a load's angle (reactive over active power) in per mille: the           *)
(* generator's floating-point numbers rounded to integers.                 *)
(***************************************************************************)
EXTENDS Integers, FiniteSetsExt

Motor == {"MTR-001", "MTR-002", "MTR-003"}
Load == {"LIGHT-001", "HVAC-001", "PLUG-001"}
Leaf == Motor \cup Load
LoadBus == {"MCC-001", "PP-001"}
Node == Leaf \cup LoadBus \cup {"UTIL-001", "TX-001", "MSB-001", "CAP-001", "PV-001"}

Parent ==
  [n \in Node \ {"UTIL-001"} |->
     CASE n = "TX-001" -> "UTIL-001"
       [] n = "MSB-001" -> "TX-001"
       [] n \in LoadBus \cup {"CAP-001", "PV-001"} -> "MSB-001"
       [] n \in Motor -> "MCC-001"
       [] n \in Load -> "PP-001"]

ChildrenOf(n) == {c \in DOMAIN Parent : Parent[c] = n}

(* <<feeder_r_ohm, feeder_x_ohm>>, in 10^-4 ohm.                           *)
Feeder ==
  [n \in Node |->
     CASE n = "MSB-001" -> <<9, 6>>
       [] n = "MCC-001" -> <<80, 50>>
       [] n = "PP-001" -> <<120, 70>>
       [] n \in {"CAP-001", "PV-001"} -> <<100, 60>>
       [] n = "MTR-001" -> <<200, 120>>
       [] n = "MTR-002" -> <<250, 150>>
       [] n = "MTR-003" -> <<300, 180>>
       [] n = "LIGHT-001" -> <<500, 250>>
       [] n = "HVAC-001" -> <<400, 220>>
       [] n = "PLUG-001" -> <<600, 300>>
       [] OTHER -> <<0, 0>>]

(* base_kw and the production, thermal and occupancy coefficients of a     *)
(* leaf, the tangent of its load_power_factor, and rated_kw over           *)
(* load_power_factor in kVA.                                               *)
Rating ==
  [n \in Leaf |->
     CASE n = "MTR-001" -> [base |-> 120, prod |-> 260, heat |-> 0, occ |-> 0, tan |-> 646, kva |-> 500]
       [] n = "MTR-002" -> [base |-> 90, prod |-> 200, heat |-> 0, occ |-> 0, tan |-> 672, kva |-> 386]
       [] n = "MTR-003" -> [base |-> 60, prod |-> 140, heat |-> 0, occ |-> 0, tan |-> 698, kva |-> 268]
       [] n = "LIGHT-001" -> [base |-> 15, prod |-> 0, heat |-> 0, occ |-> 40, tan |-> 329, kva |-> 74]
       [] n = "HVAC-001" -> [base |-> 40, prod |-> 0, heat |-> 120, occ |-> 30, tan |-> 540, kva |-> 250]
       [] n = "PLUG-001" -> [base |-> 20, prod |-> 0, heat |-> 0, occ |-> 35, tan |-> 484, kva |-> 78]]

(* _capacity_kva: rated, derived from rated_kw, or the default of a node.  *)
Capacity ==
  [n \in Node |->
     CASE n \in Leaf -> Rating[n].kva
       [] n \in {"MSB-001", "TX-001"} -> 2500
       [] n = "MCC-001" -> 1100
       [] n = "PP-001" -> 500
       [] n = "UTIL-001" -> 4000
       [] n = "PV-001" -> 320
       [] n = "CAP-001" -> 250]

PvCapacity == 300      \* pv_capacity_kw of PV-001
StageKvar == 50        \* cap_stage_kvar of CAP-001
MaxStages == 4         \* cap_max_stages of CAP-001

(* Parent nodes whose power must balance that of their children.           *)
BalanceGroups == {n \in LoadBus \cup {"MSB-001", "TX-001"} : ChildrenOf(n) # {}}
=============================================================================
