-------------------------- MODULE SwitchingVariants --------------------------
(***************************************************************************)
(* The switching variants of the two synthetic facilities, solved.         *)
(*                                                                         *)
(* FAC-001 (packages/reference_facility/switching.py): topology_snapshot   *)
(* loads the files and lays a variant's switch positions over the edges    *)
(* (FacilityLoader).  FAC-REF-001 (topology.py, facility.py): the radial   *)
(* tree, to which a variant adds a generator or an open tie.  A caller     *)
(* solves the snapshot with the topology solver (Energization, step by     *)
(* step) and then asks, as downstream_impact does, what the loss of one    *)
(* node costs it (DownstreamImpact).  Snapshots of edited files are        *)
(* built, and judged by FacilityLoader, but not solved.                    *)
(***************************************************************************)
EXTENDS Energization, FacilityLoader, ReferenceFacility

CONSTANTS
  RefAsked,  \* the variant names a caller may ask FAC-REF-001 for
  Losses,    \* the node, by name, whose loss it then studies
  NoAnswer   \* no variant has been solved yet

ASSUME VariantsAssumption ==
  /\ RefAsked \cup Losses \subseteq STRING
  /\ DOMAIN NodeIds \subseteq NodeId   \* an id is known by its place in the order

VARIABLES
  facility,   \* which of the two is studied; variant is what it is asked for
  status,     \* "asked", "whole" or "survivors"
  lost,       \* the node lost, once one is
  before      \* the verdicts for the variant as built, once it is solved

builtVars == <<files, edits, step, snapshot>>
studyVars == <<vars, builtVars, facility, variant, status, lost, before>>

-----------------------------------------------------------------------------
(* FAC-001.                                                                 *)

\* The snapshot, its nodes numbered; impedances are left out.
Fac001Network ==
  [nodes   |-> {Id(n) : n \in snapshot.nodes},
   edges   |-> [i \in DOMAIN snapshot.edges |->
                  LET e == snapshot.edges[i]
                  IN  [from |-> Id(e.from), to |-> Id(e.to), sw |-> e.sw]],
   sources |-> {[s EXCEPT !.node = Id(s.node)] : s \in snapshot.sources}]

-----------------------------------------------------------------------------
(* FAC-REF-001.                                                             *)

\* Its node ids in the order of their strings.
RefIds ==
  <<"CAP-001", "HVAC-001", "LIGHT-001", "MCC-001", "MSB-001", "MTR-001",
    "MTR-002", "MTR-003", "PLUG-001", "PP-001", "PV-001", "TX-001", "UTIL-001">>

RefId(name) == CHOOSE i \in DOMAIN RefIds : RefIds[i] = name

\* Any other name falls back to "base".
Resolved(name) ==
  IF name \in {"base", "gen_backup", "tie_alt"} THEN name ELSE "base"

RefSourcesWhateverTheVariant(name) ==
  {[node |-> RefId("UTIL-001"), type |-> "UTILITY", prio |-> 0],
   [node |-> RefId("MSB-001"), type |-> "GENERATOR", prio |-> 1]}

RefSources(name) ==
  {[node |-> RefId("UTIL-001"), type |-> "UTILITY", prio |-> 0]}
    \cup IF name = "gen_backup"
           THEN {[node |-> RefId("MSB-001"), type |-> "GENERATOR", prio |-> 1]}
           ELSE {}

\* topology_snapshot of topology.py: a CLOSED edge from each node's parent, the
\* variant's ties OPEN.  (An edge is known by its place; the order of the list
\* is immaterial to a tree.)
RefNetwork(name) ==
  LET feeders == [i \in {RefId(n) : n \in DOMAIN Parent} |->
                    [from |-> RefId(Parent[RefIds[i]]), to |-> i, sw |-> "CLOSED"]]
      ties    == IF name = "tie_alt"
                   THEN <<[from |-> RefId("MCC-001"), to |-> RefId("PP-001"), sw |-> "OPEN"]>>
                   ELSE <<>>
      places  == DOMAIN feeders \cup {Len(RefIds) + k : k \in DOMAIN ties}
  IN  [nodes   |-> DOMAIN RefIds,
       edges   |-> [i \in places |->
                      IF i \in DOMAIN feeders THEN feeders[i] ELSE ties[i - Len(RefIds)]],
       sources |-> RefSources(name)]

-----------------------------------------------------------------------------
(* The study.                                                               *)

Names == IF facility = "FAC-001" THEN NodeIds ELSE RefIds

\* downstream_impact, which compares the two calls of the solver.
Impact ==
  INSTANCE DownstreamImpact
    WITH step <- status, after <- Answer, impact <- NoAnswer,
         Criticality <- {}, NoCriticality <- NoAnswer,
         CriticalityOf <- [n \in NodeId |-> NoAnswer]

\* A call of solve_energization on w begins.
CallSolver(w) ==
  /\ network' = w
  /\ pass' = "definite" /\ pending' = w.sources
  /\ source' = NoSource /\ parents' = NoMap /\ queue' = <<>> /\ results' = NoMap

StudyInit ==
  /\ LoaderInit
  /\ \/ facility = "FAC-001"
     \/ facility = "FAC-REF-001"
  /\ status = "asked" /\ lost = NoNode /\ before = NoAnswer
  /\ network = [nodes |-> {}, edges |-> <<>>, sources |-> {}]
  /\ pass = "returned" /\ pending = {} /\ source = NoSource
  /\ parents = NoMap /\ queue = <<>> /\ results = NoMap

\* topology_snapshot of FAC-001 is called, again perhaps, or the files edited.
BuildFac001 ==
  /\ facility = "FAC-001" /\ status = "asked"
  /\ LoaderNext
  /\ UNCHANGED <<vars, facility, status, lost, before>>

SolveFac001 ==
  /\ facility = "FAC-001" /\ status = "asked"
  /\ step = "built" /\ edits = 0
  /\ CallSolver(Fac001Network)
  /\ status' = "whole"
  /\ UNCHANGED <<builtVars, facility, variant, lost, before>>

SolveFacRef001 ==
  /\ facility = "FAC-REF-001" /\ status = "asked"
  /\ variant' \in {Resolved(name) : name \in RefAsked}
  /\ CallSolver(RefNetwork(variant'))
  /\ status' = "whole"
  /\ UNCHANGED <<builtVars, facility, lost, before>>

SolverStep ==
  /\ StartSearch \/ Visit \/ Advance \/ Claim \/ NextPass \/ DeEnergizeRest
  /\ UNCHANGED <<builtVars, facility, variant, status, lost, before>>

\* downstream_impact keeps the first answer and solves what survives.
SolveSurvivors ==
  /\ status = "whole" /\ pass = "returned"
  /\ \E n \in DOMAIN Names :
       /\ Names[n] \in Losses
       /\ lost' = n
       /\ CallSolver(Impact!Survivors(network, n))
  /\ before' = Answer
  /\ status' = "survivors"
  /\ UNCHANGED <<builtVars, facility, variant>>

Done ==
  /\ status = "survivors" /\ pass = "returned"
  /\ UNCHANGED studyVars

StudyNext ==
  \/ BuildFac001
  \/ SolveFac001
  \/ SolveFacRef001
  \/ SolverStep
  \/ SolveSurvivors
  \/ Done

StudySpec == StudyInit /\ [][StudyNext]_studyVars

-----------------------------------------------------------------------------
(* Properties.                                                              *)

IsSolved(s) == status = s /\ pass = "returned"

\* What the solver said of a node of FAC-001.
Of(name) == results[Id(name)]

Named(ids) == {Names[n] : n \in ids}

PathOf(name) == Named({Of(name).path[k] : k \in DOMAIN Of(name).path})

\* The nodes of FAC-001 some edge mentions; the breakers and meters are none of them.
Wired == {n \in DOMAIN NodeIds :
            \E e \in Range(FacilityEdges) : NodeIds[n] \in {e.from, e.to}}

InState(states) == Named({n \in Wired : results[n].state \in states})

Mcc003Branch ==
  {"MCC-003", "VFD-004", "M-007", "M-008", "CH-001", "CH-002", "AC-001", "P-001", "P-002", "P-003"}

\* What each variant of FAC-001 is built to show (switching.py:24-41, 201-211)
\* is what the solver answers for it: which wired nodes are dead or in doubt and
\* no others, and from where the boards, the transformers and the critical board
\* are supplied.
VariantsAsDescribed ==
  facility = "FAC-001" /\ IsSolved("whole") =>
    /\ InState({"DE_ENERGIZED"}) =
         CASE variant = "tx1_out"      -> {"ATS-001", "TX-001"}
           [] variant = "utility_loss" -> {"UTIL-001"}
           [] OTHER                    -> {"ATS-001"}
    /\ InState({"INDETERMINATE"}) = IF variant = "unknown_switch" THEN Mcc003Branch ELSE {}
    /\ variant = "base" =>
         /\ "SWGR-LV-002" \notin PathOf("SWGR-LV-001")
         /\ "SWGR-LV-001" \notin PathOf("SWGR-LV-002")
    /\ variant = "tx1_out" =>
         "SWGR-LV-002" \in PathOf("SWGR-LV-001") /\ Of("SWGR-LV-001").backfed
    /\ IF variant = "utility_loss"
         THEN /\ InState({"ENERGIZED_PRIMARY"}) = {}
              /\ InState({"ENERGIZED_UPS"}) = {"UPS-001", "BATT-001", "DB-003"}
              /\ "ATS-001" \in PathOf("TX-002") /\ Of("TX-002").backfed
              /\ Of("TX-002").source = Id("GEN-001")
         ELSE \A board \in {"SWGR-LV-001", "SWGR-LV-002", "DB-003"} :
                Of(board).state = "ENERGIZED_PRIMARY"

\* "the UPS, on battery, holds the critical board" (switching.py:37): in every
\* variant DB-003 outlives the loss of any one node but the UPS and itself, and
\* with the UPS it is lost.
CriticalBoardHeld ==
  facility = "FAC-001" /\ IsSolved("survivors") =>
    LET held == Id("DB-003") \in DOMAIN results /\ Of("DB-003").state \in EnergizedStates
    IN  held <=> lost \notin {Id("UPS-001"), Id("DB-003")}

\* What the loss of a supply, a transformer or the MV board costs: no wired node
\* of any variant of FAC-001 loses its last supply with one of them.  The solver
\* holds every source able to carry whatever it is joined to, so the inverter
\* answers for SWGR-LV-001 and, but in utility_loss, the UPS back over its input
\* for SWGR-LV-002 (topology.py:225-238; switching.py:202-205).
UpstreamLossIsCovered ==
  /\ facility = "FAC-001" /\ IsSolved("survivors")
  /\ Names[lost] \in {"UTIL-001", "SWGR-MV-001", "TX-001", "TX-002", "GEN-001",
                      "ATS-001", "INV-001", "BATT-001"}
  => Impact!Impacted \cap Wired = {}

\* The nodes fed through n in the tree of FAC-REF-001.
FedThrough(n) ==
  LET fed[d \in 0 .. Len(RefIds)] ==
        IF d = 0 THEN {n} ELSE fed[d - 1] \cup UNION {ChildrenOf(m) : m \in fed[d - 1]}
  IN  fed[Len(RefIds)] \ {n}

\* The facility is radial: a lost node costs exactly what is fed through it,
\* alternate feed recorded or not; only a generator at the main board
\* (facility.py:314-317) makes the loss of what lies upstream of it harmless.
RadialLossIsSubtree ==
  facility = "FAC-REF-001" /\ IsSolved("survivors") =>
    Named(Impact!Impacted) =
      IF variant = "gen_backup" /\ "MSB-001" \in FedThrough(Names[lost])
        THEN {} ELSE FedThrough(Names[lost])

\* "The TX-002 LV main (E-TX2-SWGRLV2) is in an UNKNOWN position"
\* (switching.py:39).
MainIsUnknown ==
  variant = "unknown_switch" /\ status = "whole" =>
    \E i \in DOMAIN network.edges :
      snapshot.edges[i].id = "E-TX2-SWGRLV2" /\ network.edges[i].sw = "UNKNOWN"

=============================================================================
