# A TLA+ model of S3M ElectricalTwin

S3M ElectricalTwin is an advisory, read-only twin of a facility's electrical
system: it says which parts of a network are energized and what a loss would
take down, generates reference telemetry, and gates what a reasoning engine may
tell an operator. This directory specifies the parts of it that keep state or
search, checks them with TLC, and proves the central results with TLAPS.

Paths below are relative to `src/packages/` unless they say otherwise.

## 1. The system

| Component | State it keeps | Operations | Made correct by |
|---|---|---|---|
| Topology solver (`electrical_engineering/topology.py`, `results.py`) | per call: parent map, queue, results | `solve_energization`, `downstream_impact` | searches reach exactly what is joined; UNKNOWN is never resolved by assumption; claims follow source priority; the impact of a loss is separation from all sources |
| Grounding gate (`s3m_engine_contract/grounding.py`, `card.py`) | the card: claims, causes, texts, report | construction, appending claims, `verify_grounding`, `enforce` | nothing ungrounded leaves; downgraded cards are refusals; removals are recorded; gating is idempotent |
| Refusal (`refusal.py`) | none | `insufficient_data_card` | a refusal always passes the gate |
| Audit chain (`audit.py`) | the record list | `append`, `records`, `verify_chain` | valid means serially built; overlaps and edits are found where they happened |
| Packet, routing, determinism (`packet.py`, `routing.py`, `determinism.py`) | the packet, its `packet_hash` | `route`, `compute_packet_hash`, `assert_deterministic_config`, `invocation_fingerprint` | equal inputs are recorded alike; a fingerprint tells invocations apart |
| Capacitor bank (`reference_facility/telemetry.py`, `_step_capacitor`) | stages in, operation count | one step per timestep | no hunting; the count accounts for the stages |
| Telemetry generator (`telemetry.py`) | the registers of `_RunState` | `generate` | power balances; counters never step back, through STALE and MISSING readings too |
| Facility FAC-REF-001 (`facility.py`, `topology.py`) | constant data | accessors, snapshot of three variants | a tree whose metered groups balance; what a loss costs in it |
| Switching helpers (`switching.py`) | per call: forest, stack | `closed_graph_has_cycle`, `lv_islands`, `lv_island_of`, `topology_snapshot` variants | exact loop answer; islands merge by LV ties only; each variant shows what it is described to show |
| FAC-001 loader (`loader.py`, `models.py`, `data/`) | five data files | `load_reference_facility` | what is let through is closed and whole |
| API service (`src/services/electricaltwin-api/app/`) | `app.state.config` | lifespan, start-up assertion, five read-only endpoints | a forbidden configuration never serves; a serving process answers from its own |

Who calls whom: `downstream_impact` calls `solve_energization` twice; `generate`
steps the capacitor bank inside each timestep; `enforce` calls
`verify_grounding` before and after it changes the card; the refusal and the
audit chain are used by an orchestrator that the repository does not contain,
so their callers are the environment here. A topology snapshot is built by its
caller from a facility and a variant name, and given to the solver. The
canonical model
(`canonical_electrical_model/`) is the shared vocabulary.

What is hard in this code: almost nothing waits, but (a) `append` of the audit
chain reads shared state twice before it writes, and its records stay mutable;
(b) the solver's answer must not depend on list order, and holds for every
position of the UNKNOWN switches at once; (c) the gate changes a card and must
then pass its own check on the result; (d) the generator carries registers
through readings that are sometimes not good; (e) a union-find with path
compression and a stack with duplicates must end and be exact; (f) the variants
are overrides on edges named by strings, whose effect depends on the whole
inventory; (g) a packet may be changed after its hash was written onto it;
(h) requests reach the service before, between and after its lifespans. The list of
hazards with their lines is in `PROJECT.json`.

## 2. The modules

| Module | Models | Proofs |
|---|---|---|
| `Network` | records and vocabularies of a network; what "fed" means (`Reach`, `Feeding`, `Verdicts`, `Resolve`) | `Network_proofs` |
| `EnergizationSpec` | the promise of `solve_energization`, in one step | |
| `Energization` | `solve_energization`, one action per loop iteration | `Energization_proofs` |
| `DownstreamImpact` | `downstream_impact` over the solver's promise | `DownstreamImpact_proofs` |
| `GroundingGate` | card, claims, the eight checks, `enforce`, the refusal card | `GroundingGate_proofs` |
| `AuditChain` | `append` in three steps, edits, `verify_chain` | `AuditChain_proofs` |
| `CapacitorBank` | `_step_capacitor` | `ReferenceFacility_proofs` |
| `ReferenceFacility` | the tree and ratings of FAC-REF-001 | |
| `Telemetry` | `generate`, composed with `CapacitorBank` and `ReferenceFacility` | `ReferenceFacility_proofs` |
| `LoopDetection` | `closed_graph_has_cycle` | `ReferenceFacility_proofs` |
| `LvIslands` | `_lv_closed_components`, `lv_islands`, `lv_island_of` | `ReferenceFacility_proofs` |
| `Fac001` | the inventory of FAC-001 and its five variants | |
| `SwitchingHelpers` | the two together, asked of one snapshot | `ReferenceFacility_proofs` |
| `FacilityLoader` | from edited files through validation to a snapshot | `SwitchingVariants_proofs` |
| `SwitchingVariants` | files, variants, solver and impact: `FacilityLoader`, `Energization` and `DownstreamImpact` composed | `SwitchingVariants_proofs` |
| `EngineContract` | packet, hash, route, card versions, fingerprint, record | `EngineContract_proofs` |
| `ServiceStartup` | configuration, assertion, lifespan, `/health` | `EngineContract_proofs` |

Each `MC*` module gives one of them small constants for TLC. Operators whose
name continues that of the next definition (`FreshForwardOnly` before `Fresh`)
are mutants: plausible mistakes in that definition, each of which violates the
property it stands for in `PROJECT.json`.

### How state and actions correspond to the code

* **Energization.** `parents`, `queue`, `results` are the dictionaries and the
  deque of the same names; `pass`, `pending` and `source` are the program
  counter (two loops over the sorted sources, then the loop over what is left).
  `StartSearch` begins `_bfs_from_source`; `Visit` and `Advance` are its inner
  and outer iteration; `Claim` is the whole loop over the parent map, with
  `_reconstruct_path`; `NextPass` and `DeEnergizeRest` are the passes. Node ids
  are integers because the code only compares them. The sort key is
  `(priority, node_id)`; between equal keys (two records on one node) the
  caller's order decides, so any of them may come first.
* **DownstreamImpact.** Three steps: `SolveBefore`, `SolveAfter`, `Compare`.
  The solver's answers are any that `Verdicts` allows, which is what
  `Energization` is proved to implement.
* **GroundingGate.** A text is the set of faults its patterns find in it
  (`forbidden`, `control`); numbers are equal when they agree within the
  tolerance. `title` and `rationale` are not searched for control language, as
  in `_imperative_fragments`. `AppendClaim` is `card.claims.append`, which the
  model validator never sees; `Enforce` is `enforce` whole.
* **AuditChain.** `ReadLength`, `ReadHead`, `Commit` are the reads and the write
  of `append` in the order Python evaluates them. `Edit` assigns one field of a
  record the chain handed out; `Swap` exchanges two in the list itself, which
  only code that reaches into the chain can do, as its test does. A hash is the tuple of what was hashed.
  `verify_chain` is an operator on one state of the list.
* **CapacitorBank.** A power factor is compared through its tangent, in
  millionths, so that the arithmetic is exact for the rounded thresholds.
* **Telemetry.** `Start` is `_timestamps`, `SolveTimestep` is `_solve_timestep`
  with the bank's step inside, `EmitTimestep` is `_emit_timestep` with every
  register it updates, `Return` the end of the window. The tree is solved in the
  code's order, one named step per group (`Leaves`, `WithPv`, `WithLoadBuses`,
  `WithBank`, `WithMainBus`, `WithTransformer`, `WithUtility`). Powers are
  integers in kW and kvar, time is in half hours, the profiles and the clear sky
  are the code's piecewise-linear tables. What the code draws from hashes and
  cosines (noise, clouds, ambient temperature, quality) is chosen from sets.
  `GeneratorSpec` starts with an empty bank and counts its operations beside the
  run, to relate the generator to `CapacitorBank`.
* **LoopDetection, LvIslands.** One action per loop iteration; `ends` holds the
  roots already found while the second `find` compresses, `stack` is the list
  with its duplicates, and neighbours are pushed in any order because the code
  iterates a set.
* **Fac001, SwitchingVariants.** The inventory is the data files' own, edge by
  edge; a node's number is its place among the sorted ids, since the solver
  breaks ties by id. `BuildFac001` is a step of `FacilityLoader`; `SolveFac001`
  gives the snapshot it built to the solver, `SolveFacRef001` the projection of
  the radial tree. The solver's steps are those of `Energization`;
  `SolveSurvivors` is `downstream_impact` on any one node, its network that of
  `DownstreamImpact!Survivors`. An unknown variant is refused by `switching.py`
  (`Call`) and falls back to `base` in `topology.py` (`Resolved`). Snapshots of
  edited files are built and not solved.
* **FacilityLoader.** `EditNodes`, `EditEdges` and `EditPlans` change one entry
  of the files between calls; `EditValues` puts a value into some record that
  the record's own model refuses. A call goes through `BuildNodes` (KeyError of
  `_build_node` or pydantic's ValidationError, a ValueError, whichever record
  comes first), `Validate` (the integrity checks, ValueError) and
  `ApplySwitchStates` (KeyError on an id no edge bears). Every `raise` ends the
  call; nothing is returned.
* **EngineContract.** `Stamp` writes `packet_hash`, `Amend` changes anything
  else of the packet and leaves the hash, `Refuse` is `insufficient_data_card`,
  `Advise` an engine under a configuration `assert_deterministic_config` passes,
  `Record` the audit record with its fingerprint. `Stamp`, `Amend`, `Advise` and
  what is handed to `Record` are the callers' doing and marked external. A version is a sequence of
  characters, of which only the delimiter is told from the rest. `about` and
  `fresh` are history: the packet a card was built from and whether its stamp
  was up to date; nothing the code does depends on them.
* **ServiceStartup.** `LoadConfig`, `AssertInvariants`, `Serve` and `Shutdown`
  are the lifespan in its order; `config` is its local variable, `state` is
  `app.state.config`, which a shutdown leaves as it is. `Health` answers from
  `_config`. `SetEnvironment` and `Restart` are the surroundings.

## 3. What the runs check

| Run | Instance | States | Shows |
|---|---|---|---|
| `energization` | 4 nodes, a ring and a mesh (parallel, opposed, self-loop edges), every assignment of three switch states, 6 source sets | 66,390 | exactness, no guessing, stable supply, evidence, termination, refinement of `EnergizationSpec` |
| `downstream_impact` | 5 nodes, ring and feeder, 3 switch states, 2 source sets each, every node lost | 6,480 | impact is separation; loss never helps |
| `grounding_gate` | 9 claims, 32 draft cards, 16 packets, up to 3 claims on a card | 189,157 | what leaves the gate |
| `grounding_promise` | the same | violated | finding 1 |
| `audit_chain` | 2 callers, up to 4 records, 2 changes; symmetric callers and contents | 622,062 | overlaps and edits are found where they happened |
| `capacitor_bank` | 4 stages of 50 kvar, loads on both sides of each threshold, 12 operations | 911 | no hunting; stages within their limits and accounted for |
| `telemetry` | 9 windows: morning, noon, week-end, the change to it, empty, refused, in steps of 3 h and 30 min; and one timestep at every half hour of a Friday and a Saturday; extremes of weather | 29,699 | balance, monotone registers, carry-over, temperatures, end |
| `switching_helpers` | ring, mesh and a chain whose unions build a deep forest; two switchboards tied on both voltage levels (7 nodes), an LV ring with a chord; every edge CLOSED or UNKNOWN | 9,518 | forest and components agree, exact answer, return; islands are whole, joined by LV ties only |
| `switching_variants` | the files of FAC-001 with up to 2 edits by 6 names; 5 variants of FAC-001 (52 nodes), 3 of FAC-REF-001 (13 nodes), an unknown name; the loss of every node | 209,104 | a snapshot is closed and whole; the variants are as described; what each loss costs |
| `unknown_main` | the same | violated | finding 2 |
| `engine_contract` | 3 packets, 9 configurations, 2 records | 290,964 | equal inputs, equal records; fingerprints tell apart |
| `service_startup` | 2 profiles and a bad one, outbound or not | 870 | only asserted configurations serve; answers are of the start, and never of an unasserted configuration once a start succeeded |

Why the bounds are enough. A wrong claim order, a missed backward edge or a
guess at an UNKNOWN switch needs at most two sources, two ways round and one
node between them; the ring and the mesh have all of these in every switch
position. Every check of the gate is met by a claim or card that passes it and
one that fails, alone and in pairs with equal ids; three claims let a grounded
and an ungrounded one share an id beside a third. Two callers and two changes
are what an overlap and an edit of an edit take. Twelve operations let the bank
fill and empty. The variants are checked on the facilities themselves, every
node lost in turn, so nothing is scaled down there. Two edits let one file
agree again with the other that was changed; the six names are the bus tie, the
transfer switch, the metering gap, two edges and nothing at all. Two records
compare any two invocations, and the configurations differ in each requirement
and in where a delimiter could stand. `MaxRecords`, `MaxChanges`, `MaxClaims`,
`MaxOps` and `MaxEdits` bound the exploration and are no part of the code; TLC
explores the audit chain's `MaxRecords = 3` to chains of four, since two callers
may both have read the length before the last.

Deadlock is checked except in `audit_chain` and `capacitor_bank`, where only
those bounds end a behaviour. Elsewhere a call that has returned stutters by an
explicit action.

**Fairness.** All fairness is weak fairness of the running call: these are
single-threaded functions that nothing blocks, so a step that can be taken is
taken. `Energization` uses `WF_vars(Next)` and `SwitchingHelpers` weak fairness
of its whole next-state relation; `Telemetry` uses `WF_phase(Advance)`, which says the same (every step moves the
phase) and spares TLC the evaluation of a whole timestep under ENABLED.
The other modules state safety only and assume none: nothing obliges a caller
to call again, an editor to stop or a service to start.

### Findings

1. **`grounding_promise`.** `enforce` says of itself "Return a grounded card,
   applying the report. Never passes a violation."
   (`s3m_engine_contract/grounding.py:411`). The run finds a card that leaves it
   with a violation: the downgrade empties `ranked_causes` (line 442) and keeps
   causal claims, so a grounded causal claim that had its alternatives comes out
   as `ALTERNATIVES_REQUIRED`; texts with forbidden wording stay as well. The
   report on the card says `passed = False`.
   What does hold is `WhatLeavesViolatedIsARefusal`: such a card recommends
   nothing and only its wording or its lone causal claim is at fault.
2. **`unknown_main`.** The docstring of `switching.py` says of `unknown_switch`
   that "The ``TX-002`` LV main (``E-TX2-SWGRLV2``) is in an UNKNOWN position"
   (lines 39-41); the override (line 211), its own comment and the tests have
   the feeder of MCC-003, `E-LV2-MCC3`. Had the docstring been implemented, the
   UPS would have claimed SWGR-LV-002 back over its input and no node would be
   INDETERMINATE at all. `VariantsAsDescribed` follows the code's comment here.

Three more sentences of the repository are true with an exception only, which
the property that holds names.

* "joined with a delimiter that cannot occur in a hex packet hash so distinct
  tuples cannot collide by concatenation" (`determinism.py:35-36`). It cannot
  occur in the hash, but the versions are free strings: prompt `v`, model
  `v<US>v` and prompt `v<US>v`, model `v` give one fingerprint.
  `FingerprintsTellApart`, which is proved, says that this is the only way.
* "Any advisory output can be reproduced from its pinned inputs and checked
  against the recorded fingerprint and hash"
  (`docs/adr/ADR-0008-determinism-and-reproducibility.md:35-36`, under `src/`).
  A refusal takes the hash that is already on the packet (`refusal.py:44`): a
  packet amended after it was stamped is recorded under the old hash, which the
  refusal cannot be checked against. `SameInputsSameRecord`, also proved, says
  that no other record bears an outdated hash (`Outdated`) and that none is
  misrouted; it does not say that there are no such refusals.
* "the service fails closed if the configuration would permit an outbound OT
  connection" (`src/services/electricaltwin-api/app/config.py:9-11`). It does
  when its lifespan runs (`OnlyAssertedConfigsServe`, proved). An application
  used without it, as `tests/test_api.py:8` does, loads the configuration on
  demand (`main.py:135`) and asserts nothing. `AnswersAreOfTheStart`, proved,
  says that this is the only way: a process that has started once answers from
  no unasserted configuration, after its lifespan ended either.

## 4. What is proved

With TLAPS, for every value of the constants that meets the named assumptions.

* **Solver** (`Energization_proofs`; `NodeIdAssumption`, `NetworksAssumption`).
  `IInv` has three parts: the visited set is joined to the source and its
  frontier is the queue (`SearchInv`); no source preferred to the running one is
  pending (`OrderInv`); what is claimed has a verdict `Verdicts` allows and a
  finished source has claimed all it feeds (`ClaimInv`). At the end of a search
  the queue is empty, hence the visited set is sealed, hence it is `Reach`
  (`SearchIsExactAlways`). At the end of the call every claim is one of
  `Verdicts`, which is the step simulation of `ImplementsSpec`. From the same
  invariant and the monotonicity of supply in the closed switches
  (`ResolveBetween`, `ResolveExtremes` in `Network_proofs`) follow
  `NeverGuessesAlways` and `SupplyIsStableAlways`: all open and all closed bound
  what every other position does. What a claim shows for itself rests on
  `WalkInv`, stated beside the model: every entry of the parent map is the
  first edge from its parent (`HopInv`); following the map back from a node ends
  at the source, over entries only (`PathInv`); the queue holds at most two
  levels, in order, and only queued nodes have neighbours beyond the next
  (`LevelInv`), which is why breadth first gives shortest ways; and closing the
  UNKNOWN switches on the way alone would feed the node (`DoubtInv`). Hence
  `PathIsEvidenceAlways` (the path exists, none is shorter, `backfed` is exactly
  a hop against its edge) and `ReasonNamesTheDoubtAlways`.
* **Impact** (`DownstreamImpact_proofs`; `ImpactAssumption`).
  `ImpactIsSeparationAlways`, by exhibiting the set of nodes unfed after the
  loss as the one that is cut off; `LossNeverHelpsAlways`, since a set sealed in
  the network stays sealed in what survives; `BucketsPartitionAlways`.
* **Gate** (`GroundingGate_proofs`; `GateAssumption`).
  `NothingUngroundedLeavesAlways`: a survivor's id is not stripped, so it has no
  fault, so it is grounded. `AuthorityLimitsAlways`: without a structural
  violation the card has no card-level fault; with one it is downgraded. For
  the rest `LeftInv` is needed: a gated card is what `enforce` made of some
  card. Such a card is settled, so a second `enforce` returns it with the same
  violations (`GatingAgainChangesNothingAlways`), and what is left of them is
  out of a downgrade's reach (`WhatLeavesViolatedIsARefusalAlways`).
  `EveryRemovalIsRecordedAlways`; `RefusalAlwaysPassesAlways`, since without a
  recommendation only the claims can be at fault.
* **Audit chain** (`AuditChain_proofs`; `ChainAssumption`), for any number of
  callers. `IInv` is the reason the race is found: the length is read before the
  head, so a caller whose length is still the list's has the list's head. Then
  misplaced records are exactly the faulty ones (`RacesAreDetectedAlways`).
  `AppendsRepairNothingAlways` needs no invariant beyond types.
  `ChangesAreLocatedAlways`: what is said of a record depends on it and the one
  before it, so nothing ahead of a change turns faulty, and every field of a
  record is under one of the three comparisons. `ValidMeansSerialAlways`: the
  calls for the first k records of a valid chain rebuild exactly these records;
  a least k for which they did not would have a faulty record at k.
* **Bank** (`ReferenceFacility_proofs`; `BankAssumption`). One stage is smaller
  than the gap between the thresholds at the least load, so a step is never
  undone at the same load (`NeverHuntsAlways`);
  `OpsAccountForStagesAlways`, the limits of the stages included.
* **Telemetry** (`ReferenceFacility_proofs`; `TelemetryAssumption`: what is
  drawn is integer, in the range the code clamps it to; `ResponseAssumption`:
  the share of the way a temperature goes in one interval is a percentage,
  which a window whose interval is not positive never asks). For every window,
  noise, weather and quality:
  * `UtilitySuppliesAllAlways`. `SolutionInv` says that the solution at hand is
    `Upstream` of a solution of what lies below the main bus. Each step of the
    solve balances the parent it adds and leaves what is solved alone; the
    balances add up over the tree. The lemmas on `SumOver` (a sum exists, does
    not depend on the order in which elements are taken out, takes in one
    element at a time, adds over disjoint sets) are proved for all finite sets.
  * `BusWithinBankPremisesAlways`. At no half hour does a leaf draw less than at
    a tenth of the shift, nor less than at 40 % of it while the clear sky gives
    the PV more than 64 % (`LeafDraws`, `PvInjects`, from the profile tables,
    segment by segment), so that the bus imports more than the least load of
    the bank's premise. `GeneratorNeverHunts` and `GeneratorAccountsForStages`
    then carry the bank's two theorems over to the loads the generator computes
    itself, with no premise left.
  * `TemperaturesStayWithinTargetsAlways` from `TemperatureInv`: a step goes a
    share of the way to a target, and rounding does not overshoot.
  * `CountersNeverDecreaseAlways` from `CountersInv`: the last good value, and
    with it whatever was sent, is never ahead of the register behind it.
* **Switching helpers** (`ReferenceFacility_proofs`; `SnapshotsAssumption`,
  `VoltagesAssumption`), for every set of snapshots.
  `LoopInv`: there are a root `top` and a depth for every node met such that
  each hop to a parent keeps the root and lessens the depth (`Forest`), the
  closed edges passed join a node to its root and close no loop (`Components`),
  and the locals of the running `find` stand in the tree of the end at hand
  (`Locals`). Compression keeps `top` and gives new depths; a union gives one
  tree the other's root. Hence `RootsAreComponentsAlways` and
  `AnswerIsExactAlways`: the pass stops at the first edge whose ends have one
  root, which is the first that closes a loop.
  `IslandInv`: the components found are whole and apart from the one being
  searched; the stack holds all that one still lacks, and perhaps more than
  once; no low-voltage node is lost. Hence `IslandsAreLvOnlyAlways`.
* **Loader** (`SwitchingVariants_proofs`; no assumption). `LoaderInv`: whatever
  is edited, the files keep their shape and no node gets an id that is not of
  the inventory; what validation found holds until the call ends; a snapshot
  is the files with the variant laid over them. As many ids as records means
  that each is borne once, and the overrides of a variant are disjoint, so that
  none is overruled by another. `SnapshotIsClosedAndWholeAlways`, for any names
  an edit may put in the place of others and any number of edits. It is proved
  of `LoaderSpec`, and again, as `StudiedSnapshotIsClosedAndWhole`, of
  `StudySpec`, which goes on to solve what the loader returned.
* **Variants** (`SwitchingVariants_proofs`; `VariantsAssumption`: ids are
  strings, and their places are node ids), for every set of cases (`RefAsked`)
  and of lost nodes (`Losses`). `StudyInv` is three invariants in one: the
  loader's, with unedited files being the delivered ones (`BuiltInv`); the
  solver's, whose step lemmas in `Energization_proofs` hold whoever made the
  call (`SolverInv`); and that the network in the solver's hands is the variant,
  or what the loss leaves of it, and `before` the finished answer on the variant
  (`StageInv`). So each statement about the solver's answer becomes one about
  `Reach` on a known network, and is proved without running a search:
  * `RadialLossIsSubtreeAlways`: in the radial projection a node is lit when
    its parent is, down from the utility to all that is not below the loss;
    what is below it is sealed (`Above`, `Below`), except from a generator at
    the main board.
  * `CriticalBoardHeldAlways`, `UpstreamLossIsCoveredAlways`: what is joined to
    a live node by a closed edge is live (`Joins`, `Lit`), and what only open
    edges and lost nodes surround is dark (`Sealed`, `DarkWhenSealed`). The UPS
    is a source of its own and the critical board's only edge starts there; no
    other of these losses parts a wired node from every source left.
  * `VariantsAsDescribedAlways`: the same two arguments give every node's
    status; whether a node is shown as backfed asks for the path too, which is
    a shortest one (`ShownInv`). A path from the utility to the second board
    goes through its transformer or the tie, and with the transformer's main
    open only the tie is left.
* **Envelope** (`EngineContract_proofs`; `ContractAssumption`). `IInv` says
  that the stamp is the hash of what it was computed of (`StampInv`), hence that
  a card bears its packet's route, and its hash unless it refuses a packet
  changed after it was stamped, and that a record's fingerprint is `Joined` of its own fields. `JoinedTellsApart`
  compares two joined sequences place by place: if the prompts are equally long
  everything is equal; if not, the shorter one's delimiter falls inside the
  longer prompt. `SameInputsSameRecordAlways`, `FingerprintsTellApartAlways`.
* **Service** (`EngineContract_proofs`; `StartupAssumption`,
  `NoConfigAssumption`). `ServiceInv`: past the assertion the local configuration
  has passed it, and `app.state` only ever receives such a one; while serving the
  two are equal. `OnlyAssertedConfigsServeAlways`, `AnswersAreOfTheStartAlways`.

Type correctness is a theorem (`TypeCorrect`) for the solver, the impact, the
gate, the chain and the bank, and a part of the inductive invariant elsewhere;
so is that the criticality buckets partition the impact set. Of these only the
solver's types are an invariant of a run as well.

Where a proof needs induction (the way back through the parent map, the
rebuilt chain, the sums, the profile tables) it takes the least counterexample
(`LeastExists` in `Network_proofs`) and refutes it, since the provers cannot
instantiate the library's induction theorems. What a recursive function of the
model computes is obtained the same way: a function that obeys its equation
exists and is the only one.

Only model-checked:

* liveness: `Terminates`, `AlwaysReturns`, `GenerationEnds`. The provers have
  no rule for fairness, nor for ENABLED. What of it is safety is proved for the
  three searches, which rings and stacks with duplicates could keep going:
  `EveryStepDescends`, `EveryStepOfTheLoopDescends` and
  `EveryStepOfTheIslandsDescends` give a number of steps left, which every step
  of a call lessens. That a call which has not returned can take a step, and
  that it does, stays with TLC.

## 5. Limits of the model

* `SupplyIsStable` is as strong as the code: pass 1 reads UNKNOWN as open when
  it picks the supply, so a preferred source behind an UNKNOWN switch may be the
  true one. The property names exactly that exception.
* `verify_chain` sees one state of the list; an append during a verification is
  not modelled. SHA-256 is injective, and every field other than place and
  links is one `content`.
* Texts are sets of faults: whether the patterns find what they should is not
  a question this model can ask.
* Telemetry in integers: losses at nominal voltage (the droop and noise of
  `telemetry.py:339-344` left out, which the margins of `BusWithinBankPremises`
  absorb), loading in steps of ten per
  cent, active power and the counting channels as the
  representatives of all keys. On this facility's data the bank never steps out
  and no motor stops, so that a start is never counted; `CapacitorBank` covers
  the bank at the loads the data does not reach.
* A card's packet id and hash are not compared with the packet by `enforce`;
  the model gates any card against any packet and does not relate the two.
* `FacilityLoader` edits ids and references, and keeps of malformed values only
  that there are some. A rating, an impedance or an
  annotation that is wrong but present passes in the code and is not modelled.
* SHA-256 is injective in `EngineContract` too, and canonical JSON is faithful:
  a hash is the content it was computed of.

### Not modelled

* **Engineering constants and ranges**: tables and interval checks on floats,
  without state; their tests enumerate them.
* **pydantic's field validation** of the canonical model, beyond the validators
  named above: stateless, one field at a time.
* **Telemetry's measured channels** other than active power and the counting
  ones: they read state and change none.
* **Logging, the safety scan and the build files**: output and text search.
* **The endpoints that serve constants**: they read no state.
