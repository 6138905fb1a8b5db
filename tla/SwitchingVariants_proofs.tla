---------------------- MODULE SwitchingVariants_proofs ----------------------
(***************************************************************************)
(* Proofs about the switching variants of the two facilities: the loader   *)
(* of FAC-001, for all the edits of its files; and the study that solves a *)
(* variant, and what survives of it, with the topology solver.             *)
(***************************************************************************)
EXTENDS SwitchingVariants, Energization_proofs, FiniteSetTheorems, SequenceTheorems

-----------------------------------------------------------------------------
(* The loader of FAC-001.                                                    *)

(* A function, whatever its domain.                                         *)
IsMap(f) == f = [x \in DOMAIN f |-> f[x]]

(* An edge of the files is a record of its five fields.                     *)
IsEdgeRecord(e) == IsMap(e) /\ DOMAIN e = {"id", "from", "to", "device", "sw"}

(* A node record, as far as it is modelled.                                 *)
NodeRecord == [id : Range(NodeIds), complete : BOOLEAN]

(* What every edit keeps: the shape of the files, and that no node gets an  *)
(* id the inventory does not have.                                          *)
FilesInv ==
  /\ IsMap(files)
  /\ DOMAIN files = {"facility", "nodes", "edges", "sources", "submeters", "gap", "malformed"}
  /\ files.nodes \in Seq(NodeRecord)
  /\ IsMap(files.edges)
  /\ \A i \in DOMAIN files.edges : IsEdgeRecord(files.edges[i])

(* What validation has found of the files: every id is borne once, and all  *)
(* that the edges and the supplies name is listed.                          *)
Validated ==
  /\ Cardinality(Ids) = Len(files.nodes)
  /\ \A e \in Range(files.edges) : EdgeResolves(e)
  /\ \A s \in Range(files.sources) : s.node \in Ids
  /\ files.gap \in Ids /\ files.gap \notin MeteredNodeIds

(* What a snapshot that is returned is, of the files and the variant.       *)
Laid ==
  /\ UnknownIds = {}
  /\ snapshot = [nodes   |-> Ids,
                 edges   |-> [i \in DOMAIN files.edges |->
                                [files.edges[i] EXCEPT !.sw = Applied(variant, files.edges[i])]],
                 sources |-> VariantSources(variant, files.sources)]

(* Why a snapshot can be relied on: what validation found is still true     *)
(* when the switch states are applied, and when they have been.             *)
LoaderInv ==
  /\ FilesInv
  /\ step \in {"applying", "built"} => Validated
  /\ step = "built" => Laid

(* The edges of the inventory are records of five fields.                   *)
LEMMA EdgesAreRecords ==
  \A i \in DOMAIN FacilityEdges : IsEdgeRecord(FacilityEdges[i])
<1>1. \A id, a, b : IsEdgeRecord(Wire(id, a, b))
  BY DEF IsEdgeRecord, IsMap, Wire
<1>2. \A id, a, b, d, s : IsEdgeRecord(Switch(id, a, b, d, s))
  BY DEF IsEdgeRecord, IsMap, Switch
<1> QED
  BY <1>1, <1>2 DEF FacilityEdges

(* Taking one out of a sequence leaves a sequence of the same things.       *)
LEMMA WithoutIs ==
  ASSUME NEW S, NEW s \in Seq(S), NEW i \in DOMAIN s
  PROVE  Without(s, i) \in Seq(S)
<1>1. PICK n : n = Len(s)
  OBVIOUS
<1>2. n \in Nat /\ DOMAIN s = 1 .. n /\ (\A j \in 1 .. n : s[j] \in S)
  BY <1>1
<1>3. i \in 1 .. n /\ n - 1 \in Nat
  BY <1>2
<1>4. \A j \in 1 .. n - 1 : (IF j < i THEN s[j] ELSE s[j + 1]) \in S
  BY <1>2, <1>3
<1>5. Without(s, i) = [j \in 1 .. n - 1 |-> IF j < i THEN s[j] ELSE s[j + 1]]
  BY <1>1 DEF Without
<1>6. [j \in 1 .. n - 1 |-> IF j < i THEN s[j] ELSE s[j + 1]] \in [1 .. n - 1 -> S]
  BY <1>4
<1> QED
  BY <1>3, <1>5, <1>6, SeqDef

(* No edit and no call disturbs the shape of the files.                     *)
LEMMA FilesHold ==
  ASSUME FilesInv, [LoaderNext]_loaderVars
  PROVE  FilesInv'
<1>1. /\ IsMap(files)
      /\ DOMAIN files = {"facility", "nodes", "edges", "sources", "submeters", "gap", "malformed"}
      /\ files.nodes \in Seq(NodeRecord)
      /\ IsMap(files.edges)
      /\ \A i \in DOMAIN files.edges : IsEdgeRecord(files.edges[i])
  BY DEF FilesInv
<1>2. CASE EditNodes
  <2>1. PICK i \in DOMAIN files.nodes :
          \/ files' = [files EXCEPT !.nodes = Without(@, i)]
          \/ files' = [files EXCEPT !.nodes = Append(@, @[i])]
          \/ files' = [files EXCEPT !.nodes[i].complete = FALSE]
    BY <1>2 DEF EditNodes, Edited
  <2>2. files.nodes[i] \in NodeRecord
    BY <1>1
  <2>3. PICK r : r = [files.nodes[i] EXCEPT !.complete = FALSE]
    OBVIOUS
  <2>4. r \in NodeRecord
    BY <2>2, <2>3 DEF NodeRecord
  <2>5. PICK s : s \in {Without(files.nodes, i), Append(files.nodes, files.nodes[i]),
                        [files.nodes EXCEPT ![i] = r]}
                 /\ files' = [files EXCEPT !.nodes = s]
    BY <2>1, <2>3
  <2>6. s \in Seq(NodeRecord)
    <3>1. Without(files.nodes, i) \in Seq(NodeRecord)
      BY <1>1, WithoutIs
    <3>2. Append(files.nodes, files.nodes[i]) \in Seq(NodeRecord)
      BY <1>1, <2>2
    <3>3. [files.nodes EXCEPT ![i] = r] \in Seq(NodeRecord)
      BY <1>1, <2>4
    <3> QED
      BY <2>5, <3>1, <3>2, <3>3
  <2>7. /\ IsMap(files') /\ DOMAIN files' = DOMAIN files
        /\ files'.nodes = s /\ files'.edges = files.edges
    BY <1>1, <2>5 DEF IsMap
  <2> QED
    BY <1>1, <2>6, <2>7 DEF FilesInv
<1>3. CASE EditEdges
  <2>1. PICK i \in DOMAIN files.edges, name \in Handled :
          \/ files' = [files EXCEPT !.edges[i].id = name]
          \/ files' = [files EXCEPT !.edges[i].from = name]
          \/ files' = [files EXCEPT !.edges[i].to = name]
          \/ files' = [files EXCEPT !.edges[i].device = {name}]
    BY <1>3 DEF EditEdges, Edited
  <2>2. PICK e : /\ \/ e = [files.edges[i] EXCEPT !.id = name]
                    \/ e = [files.edges[i] EXCEPT !.from = name]
                    \/ e = [files.edges[i] EXCEPT !.to = name]
                    \/ e = [files.edges[i] EXCEPT !.device = {name}]
                 /\ files' = [files EXCEPT !.edges = [files.edges EXCEPT ![i] = e]]
    BY <2>1
  <2>3. IsEdgeRecord(e)
    BY <1>1, <2>2 DEF IsEdgeRecord, IsMap
  <2>4. PICK g : g = [files.edges EXCEPT ![i] = e]
    OBVIOUS
  <2>5. IsMap(g) /\ \A j \in DOMAIN g : IsEdgeRecord(g[j])
    <3>1. DOMAIN g = DOMAIN files.edges /\ IsMap(g)
      BY <2>4 DEF IsMap
    <3>2. \A j \in DOMAIN g : g[j] = e \/ g[j] = files.edges[j]
      BY <1>1, <2>4, <3>1 DEF IsMap
    <3> QED
      BY <1>1, <2>3, <3>1, <3>2
  <2>6. /\ IsMap(files') /\ DOMAIN files' = DOMAIN files
        /\ files'.nodes = files.nodes /\ files'.edges = g
    BY <1>1, <2>2, <2>4 DEF IsMap
  <2> QED
    BY <1>1, <2>5, <2>6 DEF FilesInv
<1>4. CASE EditPlans
  <2>1. PICK x, y, z :
          \/ files' = [files EXCEPT !.facility = x]
          \/ files' = [files EXCEPT !.gap = x]
          \/ files' = [files EXCEPT !.submeters = y]
          \/ files' = [files EXCEPT !.sources = z]
    BY <1>4 DEF EditPlans, Edited
  <2>2. /\ IsMap(files') /\ DOMAIN files' = DOMAIN files
        /\ files'.nodes = files.nodes /\ files'.edges = files.edges
    BY <1>1, <2>1 DEF IsMap
  <2> QED
    BY <1>1, <2>2 DEF FilesInv
<1>5. CASE UNCHANGED files
  BY <1>1, <1>5 DEF FilesInv
<1>6. CASE EditValues
  <2>1. files' = [files EXCEPT !.malformed = TRUE]
    BY <1>6 DEF EditValues, Edited
  <2>2. /\ IsMap(files') /\ DOMAIN files' = DOMAIN files
        /\ files'.nodes = files.nodes /\ files'.edges = files.edges
    BY <1>1, <2>1 DEF IsMap
  <2> QED
    BY <1>1, <2>2 DEF FilesInv
<1> QED
  BY <1>2, <1>3, <1>4, <1>5, <1>6
     DEF LoaderNext, loaderVars, Call, BuildNodes, Validate,
         ApplySwitchStates

(* The files as they are delivered are in the shape the edits keep.         *)
LEMMA LoaderStarts ==
  ASSUME LoaderInit
  PROVE  LoaderInv
<1>1. files = [facility  |-> LoaderFacility,
               nodes     |-> [i \in DOMAIN NodeIds |->
                                [id |-> NodeIds[i], complete |-> TRUE]],
               edges     |-> FacilityEdges,
               sources   |-> FacilitySources,
               submeters |-> Submeters,
               gap       |-> MeteringGap,
               malformed |-> FALSE]
  BY DEF LoaderInit
<1>2. step = "not called"
  BY DEF LoaderInit
<1>3. files.nodes \in Seq(NodeRecord)
  <2>1. DOMAIN NodeIds = 1 .. 52
    BY DEF NodeIds
  <2>2. \A i \in 1 .. 52 : [id |-> NodeIds[i], complete |-> TRUE] \in NodeRecord
    BY <2>1 DEF NodeRecord, Range
  <2>3. [i \in 1 .. 52 |-> [id |-> NodeIds[i], complete |-> TRUE]] \in [1 .. 52 -> NodeRecord]
    BY <2>2
  <2>4. [i \in 1 .. 52 |-> [id |-> NodeIds[i], complete |-> TRUE]] \in Seq(NodeRecord)
    BY <2>3, SeqDef
  <2> QED
    BY <1>1, <2>1, <2>4
<1>4. IsMap(FacilityEdges)
  BY DEF IsMap, FacilityEdges
<1>5. FilesInv
  <2>1. /\ IsMap(files)
        /\ DOMAIN files = {"facility", "nodes", "edges", "sources", "submeters", "gap", "malformed"}
    BY <1>1 DEF IsMap
  <2>2. files.edges = FacilityEdges
    BY <1>1
  <2> QED
    BY <1>3, <1>4, <2>1, <2>2, EdgesAreRecords DEF FilesInv
<1> QED
  BY <1>2, <1>5 DEF LoaderInv

(* Every step of the loader, and every edit, keeps the invariant.           *)
LEMMA LoaderStep ==
  ASSUME LoaderInv, [LoaderNext]_loaderVars
  PROVE  LoaderInv'
<1>0. FilesInv'
  BY FilesHold DEF LoaderInv
<1>1. CASE Validate
  <2>1. files' = files /\ (step' = "applying" => Validated) /\ step' # "built"
    <3>1. files' = files /\ step' # "built"
      BY <1>1 DEF Validate
    <3>2. ASSUME step' = "applying" PROVE Validated
      <4>1. /\ Cardinality(Ids) = Len(files.nodes)
            /\ \A e \in Range(files.edges) : EdgeResolves(e)
            /\ \A s \in Range(files.sources) : s.node \in Ids
            /\ files.gap \in Ids /\ files.gap \notin MeteredNodeIds
        BY <1>1, <3>2, Zenon DEF Validate
      <4> QED
        BY <4>1 DEF Validated
    <3> QED
      BY <3>1, <3>2
  <2>2. Validated => Validated'
    BY <2>1 DEF Validated, Ids, MeteredNodeIds, EdgeResolves
  <2> QED
    BY <1>0, <2>1, <2>2 DEF LoaderInv
<1>2. CASE ApplySwitchStates
  <2>1. /\ files' = files /\ variant' = variant /\ step = "applying" /\ step' # "applying"
        /\ step' = "built" =>
             /\ UnknownIds = {}
             /\ snapshot' =
                  [nodes   |-> Ids,
                   edges   |-> [i \in DOMAIN files.edges |->
                                  [files.edges[i] EXCEPT !.sw = Applied(variant, files.edges[i])]],
                   sources |-> VariantSources(variant, files.sources)]
    BY <1>2 DEF ApplySwitchStates
  <2>2. Validated'
    BY <2>1 DEF LoaderInv, Validated, Ids, MeteredNodeIds, EdgeResolves
  <2>3. step' = "built" => Laid'
    BY <2>1 DEF Laid, Ids, UnknownIds
  <2> QED
    BY <1>0, <2>1, <2>2, <2>3 DEF LoaderInv
<1>3. CASE UNCHANGED loaderVars
  <2>1. files' = files /\ variant' = variant /\ step' = step /\ snapshot' = snapshot
    BY <1>3 DEF loaderVars
  <2>2. Validated => Validated'
    BY <2>1 DEF Validated, Ids, MeteredNodeIds, EdgeResolves
  <2>3. Laid => Laid'
    BY <2>1 DEF Laid, Ids, UnknownIds
  <2> QED
    BY <1>0, <2>1, <2>2, <2>3 DEF LoaderInv
<1>4. CASE EditNodes \/ EditEdges \/ EditPlans \/ EditValues \/ BuildNodes
  <2>1. step' \notin {"applying", "built"}
    BY <1>4 DEF EditNodes, EditEdges, EditPlans, EditValues, BuildNodes,
                Edited
  <2> QED
    BY <1>0, <2>1 DEF LoaderInv
<1>5. ASSUME NEW name, Call(name) PROVE LoaderInv'
  <2>1. step' \notin {"applying", "built"}
    BY <1>5 DEF Call
  <2> QED
    BY <1>0, <2>1 DEF LoaderInv
<1> QED
  BY <1>1, <1>2, <1>3, <1>4, <1>5 DEF LoaderNext

(* The invariant holds at every step, however the files are edited.         *)
LEMMA LoaderHolds == LoaderSpec => []LoaderInv
BY LoaderStarts, LoaderStep, PTL DEF LoaderSpec

(* A variant gives no edge two positions.                                   *)
LEMMA OverridesAreApart ==
  ASSUME NEW v, NEW s \in DOMAIN Overrides(v), NEW t \in DOMAIN Overrides(v), s # t
  PROVE  Overrides(v)[s] \cap Overrides(v)[t] = {}
<1>1. CASE v = "tie_closed"
  BY <1>1 DEF Overrides
<1>2. CASE v = "tx1_out"
  BY <1>2 DEF Overrides
<1>3. CASE v = "utility_loss"
  BY <1>3 DEF Overrides, UtilityLossOverrides
<1>4. CASE v = "unknown_switch"
  BY <1>4 DEF Overrides
<1>5. CASE v \notin {"tie_closed", "tx1_out", "utility_loss", "unknown_switch"}
  BY <1>5 DEF Overrides
<1> QED
  BY <1>1, <1>2, <1>3, <1>4, <1>5

(* An edge takes the position the variant gives it, and keeps its own where *)
(* it gives none.                                                           *)
LEMMA AppliedIs ==
  ASSUME NEW v, NEW e
  PROVE  /\ \A s \in DOMAIN Overrides(v) :
              e.id \in Overrides(v)[s] => Applied(v, e) = s
         /\ Applied(v, e) # e.sw =>
              /\ Applied(v, e) \in DOMAIN Overrides(v)
              /\ e.id \in Overrides(v)[Applied(v, e)]
<1>1. PICK given : given = {s \in DOMAIN Overrides(v) : e.id \in Overrides(v)[s]}
  OBVIOUS
<1>2. Applied(v, e) = IF given = {} THEN e.sw ELSE CHOOSE s \in given : TRUE
  BY <1>1 DEF Applied
<1>3. given # {} => Applied(v, e) \in given
  BY <1>2
<1>4. \A s, t \in given : s = t
  BY <1>1, OverridesAreApart
<1> QED
  BY <1>1, <1>2, <1>3, <1>4

(* As many ids as records: each id is borne once.                           *)
LEMMA IdsAreDistinct ==
  ASSUME FilesInv, Cardinality(Ids) = Len(files.nodes)
  PROVE  \A i, j \in DOMAIN files.nodes : files.nodes[i].id = files.nodes[j].id => i = j
<1>1. PICK n \in Nat : n = Len(files.nodes) /\ DOMAIN files.nodes = 1 .. n
  BY DEF FilesInv
<1>2. PICK f : f = [i \in 1 .. n |-> files.nodes[i].id]
  OBVIOUS
<1>3. Ids = {files.nodes[i].id : i \in 1 .. n}
  BY <1>1 DEF Ids, Range
<1>4. f \in Surjection(1 .. n, Ids)
  <2>1. f \in [1 .. n -> Ids]
    BY <1>2, <1>3
  <2>2. \A x \in Ids : \E i \in 1 .. n : f[i] = x
    BY <1>2, <1>3
  <2> QED
    BY <2>1, <2>2 DEF Surjection
<1>5. Cardinality(Ids) = n
  BY <1>1
<1>6. IsFiniteSet(1 .. n) /\ Cardinality(1 .. n) = n
  <2>1. 1 \in Int /\ n \in Int
    OBVIOUS
  <2>2. IsFiniteSet(1 .. n) /\ Cardinality(1 .. n) = IF 1 > n THEN 0 ELSE n - 1 + 1
    BY <2>1, FS_Interval
  <2> QED
    BY <2>2
<1>7. f \in Injection(1 .. n, Ids)
  BY <1>4, <1>5, <1>6, FS_SurjSameCardinalityImpliesInj
<1> QED
  BY <1>1, <1>2, <1>7 DEF Injection, IsInjective

(* A snapshot the loader has built resolves every reference, and carries the *)
(* variant.                                                                 *)
LEMMA SnapshotHolds == LoaderInv => ASnapshotIsClosedAndWhole
<1> SUFFICES ASSUME LoaderInv, step = "built" PROVE ASnapshotIsClosedAndWhole
  BY DEF ASnapshotIsClosedAndWhole
<1>1. FilesInv /\ Validated /\ Laid
  BY DEF LoaderInv
<1>2. PICK L : L = [i \in DOMAIN files.edges |->
                      [files.edges[i] EXCEPT !.sw = Applied(variant, files.edges[i])]]
  OBVIOUS
<1>3. /\ snapshot.nodes = Ids /\ snapshot.edges = L
      /\ snapshot.sources = VariantSources(variant, files.sources)
      /\ DOMAIN L = DOMAIN files.edges
  BY <1>1, <1>2 DEF Laid
<1>4. \A i \in DOMAIN files.edges :
        /\ L[i].id = files.edges[i].id /\ L[i].device = files.edges[i].device
        /\ L[i].from = files.edges[i].from /\ L[i].to = files.edges[i].to
        /\ L[i].sw = Applied(variant, files.edges[i])
        /\ [L[i] EXCEPT !.sw = files.edges[i].sw] = files.edges[i]
  BY <1>1, <1>2 DEF FilesInv, IsEdgeRecord, IsMap
<1>5. \A i \in DOMAIN files.edges :
        {files.edges[i].from, files.edges[i].to} \cup files.edges[i].device \subseteq Ids
  BY <1>1 DEF Validated, EdgeResolves, Range
<1>6. Ids \subseteq Range(NodeIds)
  <2>1. \A i \in DOMAIN files.nodes : files.nodes[i] \in NodeRecord
    BY <1>1 DEF FilesInv
  <2>2. \A i \in DOMAIN files.nodes : files.nodes[i].id \in Range(NodeIds)
    BY <2>1 DEF NodeRecord
  <2> QED
    BY <2>2 DEF Ids, Range
<1>7. \A s \in snapshot.sources : s.node \in Ids
  BY <1>1, <1>3 DEF Validated, VariantSources
<1>8. Solver!CollectNodeIds(snapshot) = snapshot.nodes
  <2>1. \A i \in DOMAIN L : L[i].from \in Ids /\ L[i].to \in Ids
    BY <1>3, <1>4, <1>5
  <2>2. \A n : n \in Solver!CollectNodeIds(snapshot) <=>
                 /\ n \in Range(NodeIds) \cup Handled
                 /\ \/ n \in Ids
                    \/ \E s \in snapshot.sources : s.node = n
                    \/ \E i \in DOMAIN L : L[i].from = n \/ L[i].to = n
    BY <1>3, Zenon DEF Solver!CollectNodeIds
  <2>3. \A n : n \in Solver!CollectNodeIds(snapshot) <=> n \in Ids
    BY <1>6, <1>7, <2>1, <2>2
  <2> QED
    BY <1>3, <2>3
<1>9. \A i, j \in DOMAIN files.nodes : files.nodes[i].id = files.nodes[j].id => i = j
  BY <1>1, IdsAreDistinct DEF Validated
<1>10. \A e \in Range(snapshot.edges) : e.device \subseteq snapshot.nodes
  <2>1. \A i \in DOMAIN L : L[i].device \subseteq Ids
    BY <1>3, <1>4, <1>5
  <2> QED
    BY <1>3, <2>1 DEF Range
<1>11. files.gap \in snapshot.nodes
       /\ ~\E m \in Range(files.submeters) : m.measures = files.gap
  BY <1>1, <1>3 DEF Validated, MeteredNodeIds
<1>12. ASSUME NEW state \in DOMAIN Overrides(variant),
              NEW id \in Overrides(variant)[state]
       PROVE  \E e \in Range(snapshot.edges) : e.id = id /\ e.sw = state
  <2>1. id \in Overridden(variant)
    BY DEF Overridden, Range
  <2>2. PICK i \in DOMAIN files.edges : files.edges[i].id = id
    BY <1>1, <2>1 DEF Laid, UnknownIds, Range
  <2>3. L[i].id = id /\ L[i].sw = state
    BY <1>4, <2>2, AppliedIs
  <2> QED
    BY <1>3, <2>2, <2>3 DEF Range
<1>13. ASSUME NEW i \in DOMAIN files.edges
       PROVE  /\ [snapshot.edges[i] EXCEPT !.sw = files.edges[i].sw] = files.edges[i]
              /\ snapshot.edges[i].sw # files.edges[i].sw =>
                   files.edges[i].id \in Overrides(variant)[snapshot.edges[i].sw]
  BY <1>3, <1>4, AppliedIs
<1> QED
  BY <1>8, <1>9, <1>10, <1>11, <1>12, <1>13 DEF ASnapshotIsClosedAndWhole

(* A snapshot that is returned is closed and whole: property                *)
(* ASnapshotIsClosedAndWhole of FacilityLoader, for any set of names an     *)
(* edit may put in the place of others and any number of edits.             *)
THEOREM SnapshotIsClosedAndWholeAlways == LoaderSpec => []ASnapshotIsClosedAndWhole
BY SnapshotHolds, LoaderHolds, PTL

-----------------------------------------------------------------------------
(* The study: its invariant.                                                *)

(* The network a study is about, as built.                                  *)
Studied == IF facility = "FAC-001" THEN Fac001Network ELSE RefNetwork(variant)

(* The files as they are delivered.                                         *)
DeliveredFiles ==
  [facility  |-> LoaderFacility,
   nodes     |-> [i \in DOMAIN NodeIds |-> [id |-> NodeIds[i], complete |-> TRUE]],
   edges     |-> FacilityEdges,
   sources   |-> FacilitySources,
   submeters |-> Submeters,
   gap       |-> MeteringGap,
   malformed |-> FALSE]

(* What the loader has done, when it runs inside a study.                   *)
BuiltInv ==
  /\ LoaderInv
  /\ edits \in Nat /\ (edits = 0 => files = DeliveredFiles)
  /\ step \in {"reading", "validating", "applying", "built"} => variant \in Variants

(* What the solver owes its caller at every step.                           *)
SolverInv == TypeOK /\ IInv /\ Recorded /\ ShownInv

(* Which network is in the solver's hands, and what the first answer was.   *)
StageInv ==
  /\ facility \in {"FAC-001", "FAC-REF-001"}
  /\ status \in {"asked", "whole", "survivors"}
  /\ facility = "FAC-REF-001" =>
       /\ step = "not called"
       /\ status # "asked" => variant \in {"base", "gen_backup", "tie_alt"}
  /\ facility = "FAC-001" /\ status # "asked" => step = "built" /\ edits = 0
  /\ status = "asked" => pass = "returned"
  /\ status = "whole" => network = Studied
  /\ status = "survivors" =>
       /\ lost \in DOMAIN Names
       /\ network = Impact!Survivors(Studied, lost)
       /\ DOMAIN before = CollectNodeIds(Studied)
       /\ \A n \in CollectNodeIds(Studied) : before[n] \in Verdicts(Studied, n)

(* The invariant of the study.                                              *)
StudyInv == BuiltInv /\ SolverInv /\ StageInv

-----------------------------------------------------------------------------
(* A call of the solver begins in a state its invariants allow, whatever    *)
(* the solver was doing before.                                             *)
LEMMA CallBegins ==
  ASSUME NEW w, IsNetwork(w), CallSolver(w)
  PROVE  SolverInv'
<1>1. /\ network' = w /\ pass' = "definite" /\ pending' = w.sources
      /\ source' = NoSource /\ parents' = NoMap /\ queue' = <<>> /\ results' = NoMap
  BY DEF CallSolver
<1>2. NoSource \notin w.sources
  BY NetworksAssumption DEF IsNetwork
<1>3. TypeOK'
  <2>1. parents' \in [DOMAIN parents' -> Hop] /\ DOMAIN parents' = {}
    BY <1>1 DEF NoMap
  <2>2. DOMAIN results' = {} /\ results' = [n \in DOMAIN results' |-> results'[n]]
    BY <1>1 DEF NoMap
  <2>3. queue' \in Seq(DOMAIN parents')
    BY <1>1
  <2> QED
    BY <1>1, <2>1, <2>2, <2>3 DEF TypeOK, Pass
<1>4. SearchInv' /\ OrderInv'
  BY <1>1, <1>2 DEF SearchInv, OrderInv
<1>5. ClaimInv'
  BY <1>1, <1>2 DEF ClaimInv, NoMap, Finished, Fed
<1>6. Recorded' /\ ShownInv'
  BY <1>1 DEF Recorded, ShownInv, NoMap
<1> QED
  BY <1>3, <1>4, <1>5, <1>6 DEF SolverInv, IInv

(* The solver before its first call.                                        *)
LEMMA IdleSolver == StudyInit => SolverInv
<1> SUFFICES ASSUME StudyInit PROVE SolverInv
  OBVIOUS
<1>1. /\ network = [nodes |-> {}, edges |-> <<>>, sources |-> {}]
      /\ pass = "returned" /\ pending = {} /\ source = NoSource
      /\ parents = NoMap /\ queue = <<>> /\ results = NoMap
  BY DEF StudyInit
<1>2. /\ network.nodes = {} /\ network.sources = {} /\ DOMAIN network.edges = {}
      /\ IsNetwork(network)
  BY <1>1 DEF IsNetwork
<1>3. CollectNodeIds(network) = {}
  BY <1>2 DEF CollectNodeIds
<1>4. TypeOK
  <2>1. parents \in [DOMAIN parents -> Hop] /\ DOMAIN parents = {}
    BY <1>1 DEF NoMap
  <2>2. DOMAIN results = {} /\ results = [n \in DOMAIN results |-> results[n]]
    BY <1>1 DEF NoMap
  <2>3. queue \in Seq(DOMAIN parents)
    BY <1>1
  <2> QED
    BY <1>1, <1>2, <2>1, <2>2, <2>3 DEF TypeOK, Pass
<1>5. SearchInv /\ OrderInv
  BY <1>1, <1>2 DEF SearchInv, OrderInv
<1>6. ClaimInv
  BY <1>1, <1>3 DEF ClaimInv, NoMap
<1>7. Recorded /\ ShownInv
  BY <1>1 DEF Recorded, ShownInv, NoMap
<1> QED
  BY <1>4, <1>5, <1>6, <1>7 DEF SolverInv, IInv

(* A step of the solver, or none, keeps what it owes.                       *)
LEMMA SolverHolds ==
  ASSUME SolverInv, [Next]_vars
  PROVE  SolverInv'
BY TypeStep, IInvStep, RecordedStep, ShownStep DEF SolverInv

(* What the solver answers once it has returned.                            *)
LEMMA AnswerIs ==
  ASSUME SolverInv, pass = "returned"
  PROVE  /\ DOMAIN results = CollectNodeIds(network)
         /\ DOMAIN Answer = CollectNodeIds(network)
         /\ \A n \in CollectNodeIds(network) :
              Answer[n] = VerdictOf(results[n]) /\ Answer[n] \in Verdicts(network, n)
<1>1. /\ DOMAIN results = CollectNodeIds(network)
      /\ \A n \in DOMAIN results : VerdictOf(results[n]) \in Verdicts(network, n)
  BY DEF SolverInv, IInv, ClaimInv
<1>2. Answer = [n \in DOMAIN results |-> VerdictOf(results[n])]
  BY DEF Answer
<1> QED
  BY <1>1, <1>2

(* The network without a node.                                              *)
LEMMA SurvivorsIs ==
  ASSUME NEW w, IsNetwork(w), NEW x
  PROVE  LET r == Impact!Survivors(w, x) IN
         /\ r.sources = {s \in w.sources : s.node # x}
         /\ \A i : i \in DOMAIN r.edges <=>
                     i \in DOMAIN w.edges /\ w.edges[i].from # x /\ w.edges[i].to # x
         /\ \A i \in DOMAIN r.edges : r.edges[i] = w.edges[i]
         /\ CollectNodeIds(r) \subseteq CollectNodeIds(w) \ {x}
         /\ IsNetwork(r)
<1>1. PICK r : r = Impact!Survivors(w, x)
  OBVIOUS
<1>2. /\ r.nodes = w.nodes \ {x}
      /\ r.sources = {s \in w.sources : s.node # x}
      /\ \A i : i \in DOMAIN r.edges <=>
                  i \in DOMAIN w.edges /\ w.edges[i].from # x /\ w.edges[i].to # x
      /\ \A i \in DOMAIN r.edges : r.edges[i] = w.edges[i]
  BY <1>1 DEF Impact!Survivors
<1>3. IsNetwork(r)
  BY <1>2 DEF IsNetwork
<1>4. CollectNodeIds(r) \subseteq CollectNodeIds(w) \ {x}
  BY <1>2 DEF CollectNodeIds
<1> QED
  BY <1>1, <1>2, <1>3, <1>4

(* Every step of the loader keeps the invariant.                            *)
LEMMA BuiltHolds ==
  ASSUME BuiltInv, [LoaderNext]_loaderVars
  PROVE  BuiltInv'
<1>1. LoaderInv'
  BY LoaderStep DEF BuiltInv
<1>0. edits \in Nat
  BY DEF BuiltInv
<1>2. edits \in Nat /\ (edits = 0 => files = DeliveredFiles)
      /\ (step \in {"reading", "validating", "applying", "built"} => variant \in Variants)
  BY DEF BuiltInv
<1>3. CASE EditNodes \/ EditEdges \/ EditPlans \/ EditValues
  <2>0. edits' = edits + 1
    BY <1>3, Zenon DEF EditNodes, EditEdges, EditPlans, EditValues, Edited
  <2>1. step' = "not called"
    BY <1>3, Zenon DEF EditNodes, EditEdges, EditPlans, EditValues, Edited
  <2>2. edits' \in Nat /\ edits' # 0
    BY <1>0, <2>0
  <2> QED
    BY <1>1, <2>1, <2>2 DEF BuiltInv
<1>4. ASSUME NEW name, Call(name) PROVE BuiltInv'
  <2>1. /\ edits' = edits /\ files' = files /\ variant' = name
        /\ step' = IF name \in Variants THEN "reading" ELSE "ValueError"
    BY <1>4 DEF Call
  <2>2. DeliveredFiles' = DeliveredFiles
    BY DEF DeliveredFiles
  <2> QED
    BY <1>1, <1>2, <2>1, <2>2 DEF BuiltInv
<1>5. CASE BuildNodes \/ Validate \/ ApplySwitchStates \/ UNCHANGED loaderVars
  <2>1. /\ edits' = edits /\ files' = files /\ variant' = variant
        /\ step' \in {"validating", "KeyError", "applying", "ValueError", "built"} \/ step' = step
        /\ step' = step \/ step \in {"reading", "validating", "applying"}
    BY <1>5, Zenon DEF BuildNodes, Validate, ApplySwitchStates, loaderVars
  <2>2. DeliveredFiles' = DeliveredFiles
    BY DEF DeliveredFiles
  <2> QED
    BY <1>1, <1>2, <2>1, <2>2 DEF BuiltInv
<1> QED
  BY <1>3, <1>4, <1>5 DEF LoaderNext

(* The place of every id of FAC-REF-001 in the order of their strings.      *)
LEMMA RefIdsAre ==
  /\ DOMAIN RefIds = 1 .. 13 /\ Len(RefIds) = 13
  /\ \A i \in 1 .. 13 : RefId(RefIds[i]) = i
  /\ RefId("CAP-001") = 1 /\ RefId("HVAC-001") = 2 /\ RefId("LIGHT-001") = 3
  /\ RefId("MCC-001") = 4 /\ RefId("MSB-001") = 5 /\ RefId("MTR-001") = 6
  /\ RefId("MTR-002") = 7 /\ RefId("MTR-003") = 8 /\ RefId("PLUG-001") = 9
  /\ RefId("PP-001") = 10 /\ RefId("PV-001") = 11 /\ RefId("TX-001") = 12
  /\ RefId("UTIL-001") = 13
<1>1. DOMAIN RefIds = 1 .. 13 /\ Len(RefIds) = 13
  BY DEF RefIds
<1>2. \A i, j \in 1 .. 13 : RefIds[i] = RefIds[j] => i = j
  BY DEF RefIds
<1>3. \A i \in 1 .. 13 : RefId(RefIds[i]) = i
  BY <1>1, <1>2 DEF RefId
<1>4. /\ RefIds[1] = "CAP-001" /\ RefIds[2] = "HVAC-001" /\ RefIds[3] = "LIGHT-001"
      /\ RefIds[4] = "MCC-001" /\ RefIds[5] = "MSB-001" /\ RefIds[6] = "MTR-001"
      /\ RefIds[7] = "MTR-002" /\ RefIds[8] = "MTR-003" /\ RefIds[9] = "PLUG-001"
      /\ RefIds[10] = "PP-001" /\ RefIds[11] = "PV-001" /\ RefIds[12] = "TX-001"
      /\ RefIds[13] = "UTIL-001"
  BY DEF RefIds
<1> QED
  BY <1>1, <1>3, <1>4

-----------------------------------------------------------------------------
(* FAC-REF-001, by the places of its ids.                                   *)

(* The edge i of w joins a to b and is CLOSED.                              *)
Closed(w, i, a, b) ==
  /\ i \in DOMAIN w.edges
  /\ w.edges[i].from = a /\ w.edges[i].to = b /\ w.edges[i].sw = "CLOSED"

(* The parent of a node of FAC-REF-001, by the places of their ids: the     *)
(* utility (13) feeds the transformer (12), it the main board (5), and so   *)
(* on.                                                                      *)
Above(i) ==
  CASE i = 12 -> 13
    [] i = 5 -> 12
    [] i \in {1, 4, 10, 11} -> 5
    [] i \in {6, 7, 8} -> 4
    [] i \in {2, 3, 9} -> 10

(* What each feeds, over any number of edges.                               *)
Below(x) ==
  CASE x = 13 -> 1 .. 12
    [] x = 12 -> 1 .. 11
    [] x = 5 -> (1 .. 11) \ {5}
    [] x = 4 -> {6, 7, 8}
    [] x = 10 -> {2, 3, 9}
    [] OTHER -> {}

(* A node lies below x just if its parent is x or does.                     *)
LEMMA BelowIs ==
  ASSUME NEW x \in 1 .. 13
  PROVE  /\ Below(x) \subseteq 1 .. 12 /\ x \notin Below(x)
         /\ \A i \in 1 .. 12 : Above(i) \in 1 .. 13 \ {i}
         /\ \A i \in 1 .. 12 : i \in Below(x) <=> Above(i) = x \/ Above(i) \in Below(x)
<1>1. x = 1 \/ x = 2 \/ x = 3 \/ x = 4 \/ x = 5 \/ x = 6 \/ x = 7 \/ x = 8 \/ x = 9
      \/ x = 10 \/ x = 11 \/ x = 12 \/ x = 13
  OBVIOUS
<1>2. /\ Above(12) = 13 /\ Above(5) = 12 /\ Above(1) = 5 /\ Above(4) = 5 /\ Above(10) = 5
      /\ Above(11) = 5 /\ Above(6) = 4 /\ Above(7) = 4 /\ Above(8) = 4
      /\ Above(2) = 10 /\ Above(3) = 10 /\ Above(9) = 10
  BY DEF Above
<1>3. \A i \in 1 .. 12 : i = 1 \/ i = 2 \/ i = 3 \/ i = 4 \/ i = 5 \/ i = 6 \/ i = 7 \/ i = 8
                         \/ i = 9 \/ i = 10 \/ i = 11 \/ i = 12
  OBVIOUS
<1>4. \A i \in 1 .. 12 : Above(i) \in 1 .. 13 \ {i}
  BY <1>2, <1>3
<1>5. Below(x) \subseteq 1 .. 12 /\ x \notin Below(x)
  BY <1>1 DEF Below
<1>6. \A i \in 1 .. 12 : i \in Below(x) <=> Above(i) = x \/ Above(i) \in Below(x)
  BY <1>1, <1>2, <1>3 DEF Below
<1> QED
  BY <1>4, <1>5, <1>6

(* What topology_snapshot of FAC-REF-001 returns: a CLOSED edge into each of *)
(* the twelve fed nodes, an OPEN tie at most beside them, and the sources.  *)
LEMMA RefNetworkIs ==
  ASSUME NEW v \in {"base", "gen_backup", "tie_alt"}
  PROVE  /\ IsNetwork(RefNetwork(v))
         /\ CollectNodeIds(RefNetwork(v)) = 1 .. 13
         /\ \A i \in 1 .. 12 : Closed(RefNetwork(v), i, Above(i), i)
         /\ \A i \in DOMAIN RefNetwork(v).edges :
              i \in 1 .. 12 \/ (i = 14 /\ RefNetwork(v).edges[i].sw = "OPEN")
         /\ {s.node : s \in RefNetwork(v).sources}
              = IF v = "gen_backup" THEN {5, 13} ELSE {13}
<1>1. PICK F : F = [i \in {RefId(n) : n \in DOMAIN Parent} |->
                      [from |-> RefId(Parent[RefIds[i]]), to |-> i, sw |-> "CLOSED"]]
  OBVIOUS
<1>2. DOMAIN Parent = {RefIds[i] : i \in 1 .. 12}
  BY RefIdsAre DEF Parent, Node, Leaf, Motor, Load, LoadBus, RefIds
<1>3. {RefId(n) : n \in DOMAIN Parent} = 1 .. 12
  BY <1>2, RefIdsAre
<1>4. /\ DOMAIN F = 1 .. 12
      /\ \A i \in 1 .. 12 : F[i] = [from |-> RefId(Parent[RefIds[i]]), to |-> i, sw |-> "CLOSED"]
  BY <1>1, <1>3
<1>5. /\ F[12].from = 13 /\ F[5].from = 12
      /\ F[1].from = 5 /\ F[4].from = 5 /\ F[10].from = 5 /\ F[11].from = 5
      /\ F[6].from = 4 /\ F[7].from = 4 /\ F[8].from = 4
      /\ F[2].from = 10 /\ F[3].from = 10 /\ F[9].from = 10
  BY <1>2, <1>4, RefIdsAre DEF Parent, Leaf, Motor, Load, LoadBus, RefIds
<1>6. PICK T : T = IF v = "tie_alt"
                     THEN <<[from |-> RefId("MCC-001"), to |-> RefId("PP-001"), sw |-> "OPEN"]>>
                     ELSE <<>>
  OBVIOUS
<1>7. PICK w : w = RefNetwork(v)
  OBVIOUS
<1>8. /\ w.nodes = 1 .. 13 /\ w.sources = RefSources(v)
      /\ w.edges = [i \in 1 .. 12 \cup {13 + k : k \in DOMAIN T} |->
                      IF i \in 1 .. 12 THEN F[i] ELSE T[i - 13]]
  <2>1. w = [nodes |-> DOMAIN RefIds,
             edges |-> [i \in DOMAIN F \cup {Len(RefIds) + k : k \in DOMAIN T} |->
                          IF i \in DOMAIN F THEN F[i] ELSE T[i - Len(RefIds)]],
             sources |-> RefSources(v)]
    BY <1>1, <1>6, <1>7, Zenon DEF RefNetwork
  <2>2. DOMAIN F = 1 .. 12 /\ Len(RefIds) = 13 /\ DOMAIN RefIds = 1 .. 13
    BY <1>4, RefIdsAre
  <2> QED
    BY <2>1, <2>2
<1>9. /\ v = "tie_alt" => DOMAIN T = {1} /\ T[1] = [from |-> 4, to |-> 10, sw |-> "OPEN"]
      /\ v # "tie_alt" => DOMAIN T = {}
  BY <1>6, RefIdsAre
<1>10. /\ \A i \in 1 .. 12 : i \in DOMAIN w.edges /\ w.edges[i] = F[i]
       /\ \A i \in DOMAIN w.edges : i \notin 1 .. 12 =>
            i = 14 /\ w.edges[i] = [from |-> 4, to |-> 10, sw |-> "OPEN"]
  BY <1>8, <1>9
<1>11. \A i \in 1 .. 12 : Closed(w, i, Above(i), i)
  <2>1. ASSUME NEW i \in 1 .. 12 PROVE RefId(Parent[RefIds[i]]) = Above(i)
    <3>1. i = 1 \/ i = 2 \/ i = 3 \/ i = 4 \/ i = 5 \/ i = 6 \/ i = 7 \/ i = 8
          \/ i = 9 \/ i = 10 \/ i = 11 \/ i = 12
      OBVIOUS
    <3> QED
      BY <1>4, <1>5, <3>1 DEF Above
  <2> QED
    BY <1>4, <1>10, <2>1 DEF Closed
<1>12. 1 .. 13 \subseteq NodeId
  BY VariantsAssumption DEF NodeIds
<1>13. /\ w.sources \subseteq Source
       /\ {s.node : s \in w.sources} = IF v = "gen_backup" THEN {5, 13} ELSE {13}
  <2>1. PICK u, g : /\ u = [node |-> 13, type |-> "UTILITY", prio |-> 0]
                    /\ g = [node |-> 5, type |-> "GENERATOR", prio |-> 1]
    OBVIOUS
  <2>2. w.sources = {u} \cup IF v = "gen_backup" THEN {g} ELSE {}
    BY <1>8, <2>1, RefIdsAre DEF RefSources
  <2>3. u \in Source /\ g \in Source
    BY <1>12, <2>1 DEF Source, SourceType
  <2>4. u.node = 13 /\ g.node = 5
    BY <2>1
  <2>5. w.sources \subseteq Source
    BY <2>2, <2>3
  <2> QED
    BY <2>2, <2>4, <2>5
<1>14. IsNetwork(w)
  <2>1. \A i \in 1 .. 12 : F[i] \in Edge
    <3>1. \A i \in 1 .. 12 : F[i].from \in NodeId /\ F[i].to \in NodeId
      BY <1>4, <1>5, <1>12
    <3> QED
      BY <1>4, <3>1 DEF Edge, SwitchState
  <2>2. [from |-> 4, to |-> 10, sw |-> "OPEN"] \in Edge
    BY <1>12 DEF Edge, SwitchState
  <2>3. \A i \in DOMAIN w.edges : w.edges[i] \in Edge
    BY <1>10, <2>1, <2>2
  <2>4. DOMAIN w.edges \subseteq Nat \ {0}
    BY <1>10
  <2> QED
    BY <1>8, <1>12, <1>13, <2>3, <2>4 DEF IsNetwork
<1>15. CollectNodeIds(w) = 1 .. 13
  <2>1. \A i \in DOMAIN w.edges : w.edges[i].from \in 1 .. 13 /\ w.edges[i].to \in 1 .. 13
    BY <1>4, <1>5, <1>10
  <2>2. \A s \in w.sources : s.node \in {5, 13}
    BY <1>13
  <2> QED
    BY <1>8, <1>12, <2>1, <2>2 DEF CollectNodeIds
<1>16. \A i \in DOMAIN w.edges : i \in 1 .. 12 \/ (i = 14 /\ w.edges[i].sw = "OPEN")
  BY <1>10
<1> QED
  BY <1>7, <1>11, <1>13, <1>14, <1>15, <1>16

(* The sets the recursion of FedThrough runs through.                       *)
FedSets(n, f) ==
  /\ f[0] = {n}
  /\ \A d \in 0 .. 12 : f[d + 1] = f[d] \cup UNION {ChildrenOf(m) : m \in f[d]}

(* The recursive function of FedThrough is defined: it runs through some    *)
(* such sets.                                                               *)
LEMMA FedSetsExist ==
  ASSUME NEW n \in Node
  PROVE  \E f : FedSets(n, f) /\ FedThrough(n) = f[13] \ {n}
<1>1. PICK F : F = [X \in SUBSET Node |-> X \cup UNION {ChildrenOf(m) : m \in X}]
  OBVIOUS
<1>2. F \in [SUBSET Node -> SUBSET Node]
  <2>1. \A m : ChildrenOf(m) \subseteq Node
    BY DEF ChildrenOf, Parent
  <2> QED
    BY <1>1, <2>1
<1>3. PICK g \in [Nat -> SUBSET Node] : g[0] = {n} /\ \A d \in Nat : g[d + 1] = F[g[d]]
  <2>1. PICK S : S = SUBSET Node
    OBVIOUS
  <2>2. {n} \in S /\ F \in [S -> S]
    BY <1>2, <2>1
  <2>3. \E f \in [Nat -> S] : f[0] = {n} /\ \A d \in Nat : f[d + 1] = F[f[d]]
    BY <2>2, IterationExists
  <2> QED
    BY <2>1, <2>3
<1>4. \A d \in Nat : g[d + 1] = g[d] \cup UNION {ChildrenOf(m) : m \in g[d]}
  BY <1>1, <1>3
<1> DEFINE Equation(h) ==
             h = [d \in 0 .. Len(RefIds) |->
                    IF d = 0 THEN {n}
                    ELSE h[d - 1] \cup UNION {ChildrenOf(m) : m \in h[d - 1]}]
<1>5. Equation([d \in 0 .. 13 |-> g[d]])
  <2>1. PICK h : h = [d \in 0 .. 13 |-> g[d]]
    OBVIOUS
  <2>2. ASSUME NEW d \in 0 .. 13, d # 0
        PROVE  g[d] = h[d - 1] \cup UNION {ChildrenOf(m) : m \in h[d - 1]}
    <3>1. d - 1 \in 0 .. 13 /\ d - 1 \in Nat /\ (d - 1) + 1 = d
      BY <2>2
    <3>2. h[d - 1] = g[d - 1]
      BY <2>1, <3>1
    <3> QED
      BY <1>4, <3>1, <3>2
  <2>3. h = [d \in 0 .. 13 |-> IF d = 0 THEN {n}
                               ELSE h[d - 1] \cup UNION {ChildrenOf(m) : m \in h[d - 1]}]
    BY <1>3, <2>1, <2>2
  <2> QED
    BY <2>1, <2>3, RefIdsAre
<1>6. PICK f : f = CHOOSE h : Equation(h)
  OBVIOUS
<1>7. Equation(f)
  BY <1>5, <1>6
<1>8. FedThrough(n) = f[13] \ {n}
  BY <1>6, RefIdsAre DEF FedThrough
<1>9. f = [d \in 0 .. 13 |-> IF d = 0 THEN {n}
                             ELSE f[d - 1] \cup UNION {ChildrenOf(m) : m \in f[d - 1]}]
  BY <1>7, RefIdsAre
<1>10. f[0] = {n}
  BY <1>9
<1>11. ASSUME NEW d \in 0 .. 12
       PROVE  f[d + 1] = f[d] \cup UNION {ChildrenOf(m) : m \in f[d]}
  <2>1. d + 1 \in 0 .. 13 /\ d + 1 # 0 /\ (d + 1) - 1 = d
    OBVIOUS
  <2> QED
    BY <1>9, <2>1
<1> QED
  BY <1>8, <1>10, <1>11 DEF FedSets

(* What is fed through a node of FAC-REF-001, by the places of the ids.     *)
LEMMA FedThroughIs ==
  ASSUME NEW x \in 1 .. 13
  PROVE  FedThrough(RefIds[x]) = {RefIds[i] : i \in Below(x)}
<1>1. /\ \A i \in 1 .. 13 : RefIds[i] \in Node
      /\ \A m \in Node : \E i \in 1 .. 13 : m = RefIds[i]
      /\ \A i, j \in 1 .. 13 : RefIds[i] = RefIds[j] => i = j
  <2>1. Node = {RefIds[i] : i \in 1 .. 13}
    BY RefIdsAre DEF Node, Leaf, Motor, Load, LoadBus, RefIds
  <2> QED
    BY <2>1, RefIdsAre
<1>2. PICK f : FedSets(RefIds[x], f) /\ FedThrough(RefIds[x]) = f[13] \ {RefIds[x]}
  BY <1>1, FedSetsExist
<1>3. \A i \in 1 .. 12 : RefIds[i] \in DOMAIN Parent /\ Parent[RefIds[i]] = RefIds[Above(i)]
  BY DEF Parent, Node, Leaf, Motor, Load, LoadBus, RefIds, Above
<1>4. RefIds[13] \notin DOMAIN Parent
  BY DEF Parent, RefIds
<1>5. ASSUME NEW m \in Node, NEW c
      PROVE  c \in ChildrenOf(m) <=> \E i \in 1 .. 12 : c = RefIds[i] /\ m = RefIds[Above(i)]
  <2>1. \A i \in 1 .. 13 : i \in 1 .. 12 \/ i = 13
    OBVIOUS
  <2>2. DOMAIN Parent \subseteq Node
    BY DEF Parent
  <2>3. c \in DOMAIN Parent <=> \E i \in 1 .. 12 : c = RefIds[i]
    BY <1>1, <1>3, <1>4, <2>1, <2>2
  <2>4. c \in ChildrenOf(m) <=> c \in DOMAIN Parent /\ Parent[c] = m
    BY DEF ChildrenOf
  <2> QED
    BY <1>3, <2>3, <2>4
<1>6. PICK D : D = {RefIds[i] : i \in Below(x)} \cup {RefIds[x]}
  OBVIOUS
<1>7. \A m \in D : ChildrenOf(m) \subseteq D
  <2> SUFFICES ASSUME NEW j \in Below(x) \cup {x}, NEW c \in ChildrenOf(RefIds[j])
               PROVE  c \in D
    BY <1>6
  <2>1. j \in 1 .. 13
    BY BelowIs
  <2>2. PICK i \in 1 .. 12 : c = RefIds[i] /\ RefIds[j] = RefIds[Above(i)]
    BY <1>1, <1>5, <2>1
  <2>3. Above(i) = j
    BY <1>1, <2>1, <2>2, BelowIs
  <2> QED
    BY <1>6, <2>2, <2>3, BelowIs
<1>8. \A d \in 0 .. 13 : f[d] \subseteq D
  <2> DEFINE Bad == {d \in Nat : d \in 0 .. 13 /\ ~ (f[d] \subseteq D)}
  <2>1. SUFFICES ASSUME Bad # {} PROVE FALSE
    OBVIOUS
  <2>2. PICK d \in Bad : \A e \in Bad : d <= e
    BY <2>1, LeastExists
  <2>3. d # 0
    BY <1>2, <1>6, <2>2 DEF FedSets
  <2>4. d - 1 \in 0 .. 12 /\ d - 1 \in Nat /\ d - 1 \in 0 .. 13 /\ ~(d <= d - 1) /\ (d - 1) + 1 = d
    BY <2>2, <2>3
  <2>5. f[d - 1] \subseteq D
    BY <2>2, <2>4
  <2>6. f[(d - 1) + 1] \subseteq D
    BY <1>2, <1>7, <2>4, <2>5 DEF FedSets
  <2> QED
    BY <2>2, <2>4, <2>6
<1>9. ASSUME NEW d \in 0 .. 12
      PROVE  /\ f[d] \subseteq f[d + 1]
             /\ \A i \in 1 .. 12 : RefIds[Above(i)] \in f[d] => RefIds[i] \in f[d + 1]
  <2>1. f[d + 1] = f[d] \cup UNION {ChildrenOf(m) : m \in f[d]}
    BY <1>2 DEF FedSets
  <2>2. \A i \in 1 .. 12 : RefIds[i] \in ChildrenOf(RefIds[Above(i)])
    BY <1>3 DEF ChildrenOf
  <2> QED
    BY <2>1, <2>2
<1>10. f[4] \subseteq f[13]
  <2>1. /\ f[4] \subseteq f[5] /\ f[5] \subseteq f[6] /\ f[6] \subseteq f[7]
        /\ f[7] \subseteq f[8] /\ f[8] \subseteq f[9] /\ f[9] \subseteq f[10]
        /\ f[10] \subseteq f[11] /\ f[11] \subseteq f[12] /\ f[12] \subseteq f[13]
    BY <1>9
  <2> QED
    BY <2>1
<1>11. \A i \in Below(x) : RefIds[i] \in f[4]
  <2> DEFINE At(d, i) == RefIds[i] \in f[d]
  <2>1. At(0, x)
    BY <1>2 DEF FedSets
  <2>2. \A i \in 1 .. 12 : /\ At(0, Above(i)) => At(1, i)
                           /\ At(1, Above(i)) => At(2, i)
                           /\ At(2, Above(i)) => At(3, i)
                           /\ At(3, Above(i)) => At(4, i)
    BY <1>9
  <2>3. \A i \in 1 .. 13 : /\ At(0, i) => At(1, i)
                           /\ At(1, i) => At(2, i)
                           /\ At(2, i) => At(3, i)
                           /\ At(3, i) => At(4, i)
    BY <1>9
  <2> HIDE DEF At
  <2>4. /\ Above(12) = 13 /\ Above(5) = 12 /\ Above(1) = 5 /\ Above(4) = 5 /\ Above(10) = 5
        /\ Above(11) = 5 /\ Above(6) = 4 /\ Above(7) = 4 /\ Above(8) = 4
        /\ Above(2) = 10 /\ Above(3) = 10 /\ Above(9) = 10
    BY DEF Above
  <2>5. \A i \in Below(x) : At(4, i)
    BY <2>1, <2>2, <2>3, <2>4 DEF Below
  <2> QED
    BY <2>5 DEF At
<1>12. \A i \in Below(x) : RefIds[i] # RefIds[x]
  BY <1>1, BelowIs
<1> QED
  BY <1>2, <1>6, <1>8, <1>10, <1>11, <1>12

-----------------------------------------------------------------------------
(* FAC-001, by the places of its ids.                                       *)

(* The place of every id of FAC-001 in the order of their strings.          *)
LEMMA Fac001IdsAre ==
  /\ DOMAIN NodeIds = 1 .. 52
  /\ \A i \in 1 .. 52 : Id(NodeIds[i]) = i
  /\ Id("AC-001") = 1 /\ Id("ATS-001") = 2 /\ Id("BATT-001") = 3
  /\ Id("CAP-001") = 4 /\ Id("CB-LV-INC-001") = 5
  /\ Id("CB-LV-INC-002") = 6 /\ Id("CB-MV-INC-001") = 7
  /\ Id("CB-MV-TX1") = 8 /\ Id("CB-MV-TX2") = 9 /\ Id("CB-TIE-001") = 10
  /\ Id("CH-001") = 11 /\ Id("CH-002") = 12 /\ Id("DB-001") = 13
  /\ Id("DB-002") = 14 /\ Id("DB-003") = 15 /\ Id("GEN-001") = 16
  /\ Id("HF-001") = 17 /\ Id("INV-001") = 18 /\ Id("M-001") = 19
  /\ Id("M-002") = 20 /\ Id("M-003") = 21 /\ Id("M-004") = 22
  /\ Id("M-005") = 23 /\ Id("M-006") = 24 /\ Id("M-007") = 25
  /\ Id("M-008") = 26 /\ Id("MCC-001") = 27 /\ Id("MCC-002") = 28
  /\ Id("MCC-003") = 29 /\ Id("MTR-DB-003") = 30 /\ Id("MTR-LV-001") = 31
  /\ Id("MTR-LV-002") = 32 /\ Id("MTR-MAIN-001") = 33
  /\ Id("MTR-MCC-001") = 34 /\ Id("MTR-MCC-002") = 35 /\ Id("P-001") = 36
  /\ Id("P-002") = 37 /\ Id("P-003") = 38 /\ Id("PL-001") = 39
  /\ Id("PL-002") = 40 /\ Id("PV-001") = 41 /\ Id("SWGR-LV-001") = 42
  /\ Id("SWGR-LV-002") = 43 /\ Id("SWGR-MV-001") = 44 /\ Id("TX-001") = 45
  /\ Id("TX-002") = 46 /\ Id("UPS-001") = 47 /\ Id("UTIL-001") = 48
  /\ Id("VFD-001") = 49 /\ Id("VFD-002") = 50 /\ Id("VFD-003") = 51
  /\ Id("VFD-004") = 52
<1>1. DOMAIN NodeIds = 1 .. 52
  BY DEF NodeIds
<1>2. \A i, j \in 1 .. 52 : NodeIds[i] = NodeIds[j] => i = j
  BY SMTT(60) DEF NodeIds
<1>3. \A i \in 1 .. 52 : Id(NodeIds[i]) = i
  BY <1>1, <1>2 DEF Id
<1>4. /\ NodeIds[1] = "AC-001" /\ NodeIds[2] = "ATS-001"
      /\ NodeIds[3] = "BATT-001" /\ NodeIds[4] = "CAP-001"
      /\ NodeIds[5] = "CB-LV-INC-001" /\ NodeIds[6] = "CB-LV-INC-002"
      /\ NodeIds[7] = "CB-MV-INC-001" /\ NodeIds[8] = "CB-MV-TX1"
      /\ NodeIds[9] = "CB-MV-TX2" /\ NodeIds[10] = "CB-TIE-001"
      /\ NodeIds[11] = "CH-001" /\ NodeIds[12] = "CH-002"
      /\ NodeIds[13] = "DB-001" /\ NodeIds[14] = "DB-002"
      /\ NodeIds[15] = "DB-003" /\ NodeIds[16] = "GEN-001"
      /\ NodeIds[17] = "HF-001" /\ NodeIds[18] = "INV-001"
      /\ NodeIds[19] = "M-001" /\ NodeIds[20] = "M-002"
      /\ NodeIds[21] = "M-003" /\ NodeIds[22] = "M-004"
      /\ NodeIds[23] = "M-005" /\ NodeIds[24] = "M-006"
      /\ NodeIds[25] = "M-007" /\ NodeIds[26] = "M-008"
      /\ NodeIds[27] = "MCC-001" /\ NodeIds[28] = "MCC-002"
      /\ NodeIds[29] = "MCC-003" /\ NodeIds[30] = "MTR-DB-003"
      /\ NodeIds[31] = "MTR-LV-001" /\ NodeIds[32] = "MTR-LV-002"
      /\ NodeIds[33] = "MTR-MAIN-001" /\ NodeIds[34] = "MTR-MCC-001"
      /\ NodeIds[35] = "MTR-MCC-002" /\ NodeIds[36] = "P-001"
      /\ NodeIds[37] = "P-002" /\ NodeIds[38] = "P-003"
      /\ NodeIds[39] = "PL-001" /\ NodeIds[40] = "PL-002"
      /\ NodeIds[41] = "PV-001" /\ NodeIds[42] = "SWGR-LV-001"
      /\ NodeIds[43] = "SWGR-LV-002" /\ NodeIds[44] = "SWGR-MV-001"
      /\ NodeIds[45] = "TX-001" /\ NodeIds[46] = "TX-002"
      /\ NodeIds[47] = "UPS-001" /\ NodeIds[48] = "UTIL-001"
      /\ NodeIds[49] = "VFD-001" /\ NodeIds[50] = "VFD-002"
      /\ NodeIds[51] = "VFD-003" /\ NodeIds[52] = "VFD-004"
  BY DEF NodeIds
<1> QED
  BY <1>1, <1>3, <1>4

(* The ends of the edges of FAC-001, by the places of their ids.            *)
Ends ==
  <<<<48, 44>>, <<44, 45>>, <<44, 46>>, <<45, 42>>, <<46, 43>>, <<42, 43>>,
    <<42, 27>>, <<42, 39>>, <<42, 13>>, <<42, 14>>, <<42, 4>>, <<18, 42>>,
    <<43, 28>>, <<43, 29>>, <<43, 40>>, <<43, 17>>, <<43, 47>>, <<47, 15>>,
    <<3, 47>>, <<16, 2>>, <<2, 43>>, <<27, 19>>, <<27, 49>>, <<49, 20>>,
    <<27, 21>>, <<28, 50>>, <<50, 22>>, <<28, 23>>, <<28, 51>>, <<51, 24>>,
    <<29, 52>>, <<52, 25>>, <<29, 26>>, <<29, 11>>, <<29, 12>>, <<29, 1>>,
    <<29, 36>>, <<29, 37>>, <<29, 38>>>>

(* The edges of FAC-001 by their ends.                                      *)
LEMMA Fac001EdgesAre ==
  /\ DOMAIN FacilityEdges = 1 .. 39 /\ DOMAIN Ends = 1 .. 39
  /\ \A i \in 1 .. 39 : /\ Id(FacilityEdges[i].from) = Ends[i][1]
                        /\ Id(FacilityEdges[i].to) = Ends[i][2]
                        /\ Ends[i][1] \in 1 .. 52 /\ Ends[i][2] \in 1 .. 52
<1>1. DOMAIN FacilityEdges = 1 .. 39 /\ DOMAIN Ends = 1 .. 39
  BY DEF FacilityEdges, Ends
<1>2. \A i \in 1 .. 39 : /\ Id(FacilityEdges[i].from) = Ends[i][1]
                            /\ Id(FacilityEdges[i].to) = Ends[i][2]
  BY Fac001IdsAre, SMTT(60) DEF FacilityEdges, Wire, Switch, Ends
<1>3. \A i \in 1 .. 39 : Ends[i][1] \in 1 .. 52 /\ Ends[i][2] \in 1 .. 52
  BY DEF Ends
<1> QED
  BY <1>1, <1>2, <1>3

(* The position of the edge i of FAC-001 in a variant.                      *)
Position(v, i) ==
  CASE v = "tx1_out" /\ i \in {2, 4}         -> "RACKED_OUT"
    [] v = "unknown_switch" /\ i = 14        -> "UNKNOWN"
    [] v = "utility_loss" /\ i \in {1, 17}   -> "OPEN"
    [] v # "utility_loss" /\ i \in {20, 21}  -> "OPEN"
    [] v \notin {"tie_closed", "tx1_out"} /\ i = 6 -> "OPEN"
    [] OTHER                                 -> "CLOSED"

(* The positions a variant lays over the edges, edge by edge.               *)
LEMMA PositionIs ==
  ASSUME NEW v \in Variants, NEW i \in 1 .. 39
  PROVE  Applied(v, FacilityEdges[i]) = Position(v, i)
<1>1. PICK e : e = FacilityEdges[i]
  OBVIOUS
<1>2. /\ e.id = "E-UTIL-SWGRMV" <=> i = 1
      /\ e.id = "E-SWGRMV-TX1" <=> i = 2
      /\ e.id = "E-TX1-SWGRLV1" <=> i = 4
      /\ e.id = "E-TIE" <=> i = 6
      /\ e.id = "E-LV2-MCC3" <=> i = 14
      /\ e.id = "E-LV2-UPS" <=> i = 17
      /\ e.id = "E-GEN-ATS" <=> i = 20
      /\ e.id = "E-ATS-LV2" <=> i = 21
  BY <1>1, SMTT(60) DEF FacilityEdges, Wire, Switch
<1>3. e.sw = IF i \in {6, 20, 21} THEN "OPEN" ELSE "CLOSED"
  BY <1>1, SMTT(60) DEF FacilityEdges, Wire, Switch
<1>4. /\ \A s \in DOMAIN Overrides(v) : e.id \in Overrides(v)[s] => Applied(v, e) = s
      /\ Applied(v, e) # e.sw =>
           /\ Applied(v, e) \in DOMAIN Overrides(v)
           /\ e.id \in Overrides(v)[Applied(v, e)]
  BY AppliedIs
<1>5. CASE v = "base"
  <2>1. DOMAIN Overrides(v) = {}
    BY <1>5 DEF Overrides
  <2> QED
    BY <1>1, <1>3, <1>4, <1>5, <2>1 DEF Position
<1>6. CASE v = "tie_closed"
  <2>1. DOMAIN Overrides(v) = {"CLOSED"} /\ Overrides(v)["CLOSED"] = {"E-TIE"}
    BY <1>6 DEF Overrides
  <2> QED
    BY <1>1, <1>2, <1>3, <1>4, <1>6, <2>1 DEF Position
<1>7. CASE v = "tx1_out"
  <2>1. /\ DOMAIN Overrides(v) = {"RACKED_OUT", "CLOSED"}
        /\ Overrides(v)["RACKED_OUT"] = {"E-SWGRMV-TX1", "E-TX1-SWGRLV1"}
        /\ Overrides(v)["CLOSED"] = {"E-TIE"}
    BY <1>7 DEF Overrides
  <2> QED
    BY <1>1, <1>2, <1>3, <1>4, <1>7, <2>1 DEF Position
<1>8. CASE v = "utility_loss"
  <2>1. /\ DOMAIN Overrides(v) = {"OPEN", "CLOSED"}
        /\ Overrides(v)["OPEN"] = {"E-UTIL-SWGRMV", "E-LV2-UPS"}
        /\ Overrides(v)["CLOSED"] = {"E-GEN-ATS", "E-ATS-LV2"}
    BY <1>8 DEF Overrides, UtilityLossOverrides
  <2> QED
    BY <1>1, <1>2, <1>3, <1>4, <1>8, <2>1 DEF Position
<1>9. CASE v = "unknown_switch"
  <2>1. DOMAIN Overrides(v) = {"UNKNOWN"} /\ Overrides(v)["UNKNOWN"] = {"E-LV2-MCC3"}
    BY <1>9 DEF Overrides
  <2> QED
    BY <1>1, <1>2, <1>3, <1>4, <1>9, <2>1 DEF Position
<1> QED
  BY <1>5, <1>6, <1>7, <1>8, <1>9 DEF Variants

(* The five supplies of FAC-001, by the places of the ids.                  *)
Supply(n) ==
  CASE n = 48 -> [node |-> 48, type |-> "UTILITY", prio |-> 0]
    [] n = 16 -> [node |-> 16, type |-> "GENERATOR", prio |-> 1]
    [] n = 18 -> [node |-> 18, type |-> "SOLAR_PV", prio |-> 2]
    [] n = 47 -> [node |-> 47, type |-> "UPS", prio |-> 2]
    [] n = 3  -> [node |-> 3, type |-> "BATTERY", prio |-> 3]

(* The nodes that have one in a variant.                                    *)
SupplyNodes(v) == {3, 16, 18, 47} \cup IF v = "utility_loss" THEN {} ELSE {48}

(* What the study hands to the solver for a variant of FAC-001.             *)
IsFac001(w, v) ==
  /\ IsNetwork(w) /\ CollectNodeIds(w) = 1 .. 52 /\ w.nodes = 1 .. 52
  /\ DOMAIN w.edges = 1 .. 39
  /\ \A i \in 1 .. 39 : /\ w.edges[i].from = Ends[i][1] /\ w.edges[i].to = Ends[i][2]
                        /\ w.edges[i].sw = Position(v, i)
  /\ w.sources = {Supply(n) : n \in SupplyNodes(v)}

(* What topology_snapshot returns for the delivered files is FAC-001 in the *)
(* variant it was asked for.                                                *)
LEMMA Fac001NetworkIs ==
  ASSUME BuiltInv, step = "built", edits = 0
  PROVE  variant \in Variants /\ IsFac001(Fac001Network, variant)
<1>1. variant \in Variants /\ files = DeliveredFiles /\ Laid
  BY DEF BuiltInv, LoaderInv
<1>2. /\ files.edges = FacilityEdges /\ files.sources = FacilitySources
      /\ files.nodes = [i \in DOMAIN NodeIds |-> [id |-> NodeIds[i], complete |-> TRUE]]
  BY <1>1 DEF DeliveredFiles
<1>3. Ids = {NodeIds[i] : i \in 1 .. 52}
  BY <1>2, Fac001IdsAre DEF Ids, Range
<1>4. PICK L : L = [i \in DOMAIN FacilityEdges |->
                      [FacilityEdges[i] EXCEPT !.sw = Applied(variant, FacilityEdges[i])]]
  OBVIOUS
<1>5. /\ snapshot.nodes = Ids /\ snapshot.edges = L
      /\ snapshot.sources = VariantSources(variant, FacilitySources)
  BY <1>1, <1>2, <1>4 DEF Laid
<1>6. PICK w : w = Fac001Network
  OBVIOUS
<1>7. /\ w.nodes = {Id(n) : n \in Ids}
      /\ w.edges = [i \in DOMAIN L |->
                      [from |-> Id(L[i].from), to |-> Id(L[i].to), sw |-> L[i].sw]]
      /\ w.sources = {[s EXCEPT !.node = Id(s.node)] : s \in snapshot.sources}
  BY <1>5, <1>6 DEF Fac001Network
<1>8. w.nodes = 1 .. 52
  BY <1>3, <1>7, Fac001IdsAre
<1>9. ASSUME NEW i \in 1 .. 39
      PROVE  w.edges[i] = [from |-> Ends[i][1], to |-> Ends[i][2], sw |-> Position(variant, i)]
  <2>1. IsEdgeRecord(FacilityEdges[i])
    BY Fac001EdgesAre, EdgesAreRecords
  <2>2. /\ L[i].from = FacilityEdges[i].from /\ L[i].to = FacilityEdges[i].to
        /\ L[i].sw = Applied(variant, FacilityEdges[i])
    BY <1>4, <2>1, Fac001EdgesAre DEF IsEdgeRecord, IsMap
  <2>3. i \in DOMAIN L
    BY <1>4, Fac001EdgesAre
  <2>4. Applied(variant, FacilityEdges[i]) = Position(variant, i)
    BY <1>1, PositionIs
  <2>5. w.edges[i] = [from |-> Id(L[i].from), to |-> Id(L[i].to), sw |-> L[i].sw]
    BY <1>7, <2>3
  <2> QED
    BY <2>2, <2>4, <2>5, Fac001EdgesAre
<1>10. ASSUME NEW i \in 1 .. 39
       PROVE  /\ w.edges[i].from = Ends[i][1] /\ w.edges[i].to = Ends[i][2]
              /\ w.edges[i].sw = Position(variant, i)
  <2>1. PICK a, b, c : a = Ends[i][1] /\ b = Ends[i][2] /\ c = Position(variant, i)
    OBVIOUS
  <2>2. w.edges[i] = [from |-> a, to |-> b, sw |-> c]
    BY <1>9, <2>1
  <2> QED
    BY <2>1, <2>2
<1>11. DOMAIN w.edges = 1 .. 39
  BY <1>4, <1>7, Fac001EdgesAre
<1>12. w.sources = {Supply(n) : n \in SupplyNodes(variant)}
  <2>1. PICK u, g, p, q, b :
          /\ u = [node |-> "UTIL-001", type |-> "UTILITY", prio |-> 0]
          /\ g = [node |-> "GEN-001", type |-> "GENERATOR", prio |-> 1]
          /\ p = [node |-> "INV-001", type |-> "SOLAR_PV", prio |-> 2]
          /\ q = [node |-> "UPS-001", type |-> "UPS", prio |-> 2]
          /\ b = [node |-> "BATT-001", type |-> "BATTERY", prio |-> 3]
    OBVIOUS
  <2>2. Range(FacilitySources) = {u, g, p, q, b}
    BY <2>1 DEF Range, FacilitySources
  <2>3. snapshot.sources = {g, p, q, b} \cup IF variant = "utility_loss" THEN {} ELSE {u}
    BY <1>5, <2>1, <2>2 DEF VariantSources
  <2>4. /\ [u EXCEPT !.node = Id(u.node)] = Supply(48)
        /\ [g EXCEPT !.node = Id(g.node)] = Supply(16)
        /\ [p EXCEPT !.node = Id(p.node)] = Supply(18)
        /\ [q EXCEPT !.node = Id(q.node)] = Supply(47)
        /\ [b EXCEPT !.node = Id(b.node)] = Supply(3)
    BY <2>1, Fac001IdsAre DEF Supply
  <2>5. w.sources = {Supply(16), Supply(18), Supply(47), Supply(3)}
                      \cup IF variant = "utility_loss" THEN {} ELSE {Supply(48)}
    BY <1>7, <2>3, <2>4
  <2> QED
    BY <2>5 DEF SupplyNodes
<1>13. 1 .. 52 \subseteq NodeId
  BY VariantsAssumption DEF NodeIds
<1>14. IsNetwork(w)
  <2>1. ASSUME NEW i \in 1 .. 39 PROVE w.edges[i] \in Edge
    <3>1. Position(variant, i) \in SwitchState
      BY DEF Position, SwitchState
    <3>2. PICK a \in NodeId, b \in NodeId : a = Ends[i][1] /\ b = Ends[i][2]
      BY <1>13, Fac001EdgesAre
    <3>3. w.edges[i] = [from |-> a, to |-> b, sw |-> Position(variant, i)]
      BY <1>9, <3>2
    <3> QED
      BY <3>1, <3>3 DEF Edge
  <2>2. \A n \in SupplyNodes(variant) : Supply(n) \in Source
    BY <1>13 DEF SupplyNodes, Supply, Source, SourceType
  <2> QED
    BY <1>8, <1>11, <1>12, <1>13, <2>1, <2>2 DEF IsNetwork
<1>15. CollectNodeIds(w) = 1 .. 52
  <2>1. \A s \in w.sources : s.node \in 1 .. 52
    BY <1>12 DEF SupplyNodes, Supply
  <2>2. \A i \in DOMAIN w.edges : w.edges[i].from \in 1 .. 52 /\ w.edges[i].to \in 1 .. 52
    BY <1>11, <1>10, Fac001EdgesAre
  <2> QED
    BY <1>8, <1>13, <2>1, <2>2 DEF CollectNodeIds
<1> QED
  BY <1>1, <1>6, <1>8, <1>11, <1>12, <1>14, <1>15, <1>10 DEF IsFac001

-----------------------------------------------------------------------------
(* The invariant holds.                                                     *)

(* Every variant of either facility is a network the solver can be given.   *)
LEMMA StudiedIsNetwork ==
  ASSUME BuiltInv, StageInv, status # "asked"
  PROVE  IsNetwork(Studied)
<1>1. CASE facility = "FAC-001"
  BY <1>1, Fac001NetworkIs DEF StageInv, Studied, IsFac001
<1>2. CASE facility = "FAC-REF-001"
  BY <1>2, RefNetworkIs DEF StageInv, Studied
<1> QED
  BY <1>1, <1>2 DEF StageInv

(* Before the first call.                                                   *)
LEMMA StudyStarts == StudyInit => StudyInv
<1> SUFFICES ASSUME StudyInit PROVE StudyInv
  OBVIOUS
<1>1. BuiltInv
  <2>1. LoaderInv
    BY LoaderStarts DEF StudyInit
  <2> QED
    BY <2>1 DEF StudyInit, LoaderInit, BuiltInv, DeliveredFiles
<1>2. StageInv
  BY DEF StudyInit, LoaderInit, StageInv
<1> QED
  BY <1>1, <1>2, IdleSolver DEF StudyInv

(* Every step of the study.                                                 *)
LEMMA StudyStep == StudyInv /\ [StudyNext]_studyVars => StudyInv'
<1> SUFFICES ASSUME StudyInv, [StudyNext]_studyVars PROVE StudyInv'
  OBVIOUS
<1>0. BuiltInv /\ SolverInv /\ StageInv
  BY DEF StudyInv
<1>1. CASE BuildFac001
  <2>1. LoaderNext /\ UNCHANGED <<vars, facility, status, lost, before>>
        /\ facility = "FAC-001" /\ status = "asked"
    BY <1>1 DEF BuildFac001
  <2>2. BuiltInv'
    BY <1>0, <2>1, BuiltHolds
  <2>3. SolverInv'
    BY <1>0, <2>1, SolverHolds
  <2>4. StageInv'
    BY <1>0, <2>1 DEF StageInv, vars
  <2> QED
    BY <2>2, <2>3, <2>4 DEF StudyInv
<1>2. CASE SolveFac001
  <2>1. /\ facility = "FAC-001" /\ status = "asked" /\ step = "built" /\ edits = 0
        /\ CallSolver(Fac001Network) /\ status' = "whole"
        /\ UNCHANGED <<files, edits, step, snapshot, facility, variant, lost, before>>
    BY <1>2 DEF SolveFac001, builtVars
  <2>2. BuiltInv'
    BY <1>0, <2>1, BuiltHolds DEF loaderVars
  <2>3. SolverInv'
    BY <1>0, <2>1, CallBegins, Fac001NetworkIs DEF IsFac001
  <2>4. StageInv'
    <3>1. Studied' = Fac001Network
      BY <2>1 DEF Studied, Fac001Network
    <3>2. network' = Fac001Network
      BY <2>1 DEF CallSolver
    <3> QED
      BY <2>1, <3>1, <3>2 DEF StageInv
  <2> QED
    BY <2>2, <2>3, <2>4 DEF StudyInv
<1>3. CASE SolveFacRef001
  <2>1. /\ facility = "FAC-REF-001" /\ status = "asked" /\ status' = "whole"
        /\ variant' \in {"base", "gen_backup", "tie_alt"}
        /\ CallSolver(RefNetwork(variant'))
        /\ UNCHANGED <<files, edits, step, snapshot, facility, lost, before>>
    BY <1>3 DEF SolveFacRef001, builtVars, Resolved
  <2>2. step = "not called"
    BY <1>0, <2>1 DEF StageInv
  <2>3. BuiltInv'
    <3>1. LoaderInv'
      BY <1>0, <2>1, <2>2 DEF BuiltInv, LoaderInv, FilesInv
    <3>2. DeliveredFiles' = DeliveredFiles
      BY DEF DeliveredFiles
    <3> QED
      BY <1>0, <2>1, <2>2, <3>1, <3>2 DEF BuiltInv
  <2>4. SolverInv'
    BY <2>1, CallBegins, RefNetworkIs
  <2>5. StageInv'
    <3>1. Studied' = RefNetwork(variant')
      BY <2>1 DEF Studied
    <3>2. network' = RefNetwork(variant')
      BY <2>1 DEF CallSolver
    <3> QED
      BY <2>1, <2>2, <3>1, <3>2 DEF StageInv
  <2> QED
    BY <2>3, <2>4, <2>5 DEF StudyInv
<1>4. CASE SolverStep
  <2>1. /\ StartSearch \/ Visit \/ Advance \/ Claim \/ NextPass \/ DeEnergizeRest
        /\ UNCHANGED <<files, edits, step, snapshot, facility, variant, status, lost, before>>
    BY <1>4 DEF SolverStep, builtVars
  <2>2. BuiltInv'
    BY <1>0, <2>1, BuiltHolds DEF loaderVars
  <2>3. SolverInv'
    BY <1>0, <2>1, SolverHolds DEF Next
  <2>4. network' = network /\ pass # "returned"
    BY <1>0, <2>1 DEF StartSearch, Visit, Advance, Claim, NextPass, DeEnergizeRest,
                      SolverInv, IInv, SearchInv
  <2>5. Studied' = Studied /\ Names' = Names
    BY <2>1 DEF Studied, Fac001Network, Names
  <2>6. StageInv'
    BY <1>0, <2>1, <2>4, <2>5 DEF StageInv
  <2> QED
    BY <2>2, <2>3, <2>6 DEF StudyInv
<1>5. CASE SolveSurvivors
  <2>1. PICK n \in DOMAIN Names : lost' = n /\ CallSolver(Impact!Survivors(network, n))
    BY <1>5 DEF SolveSurvivors
  <2>2. /\ status = "whole" /\ pass = "returned" /\ status' = "survivors"
        /\ before' = Answer
        /\ UNCHANGED <<files, edits, step, snapshot, facility, variant>>
    BY <1>5 DEF SolveSurvivors, builtVars
  <2>3. network = Studied /\ IsNetwork(Studied)
    BY <1>0, <2>2, StudiedIsNetwork DEF StageInv
  <2>4. BuiltInv'
    BY <1>0, <2>2, BuiltHolds DEF loaderVars
  <2>5. SolverInv'
    BY <2>1, <2>3, SurvivorsIs, CallBegins
  <2>6. Studied' = Studied /\ Names' = Names
    BY <2>2 DEF Studied, Fac001Network, Names
  <2>7. /\ DOMAIN before' = CollectNodeIds(Studied)
        /\ \A m \in CollectNodeIds(Studied) : before'[m] \in Verdicts(Studied, m)
    BY <1>0, <2>2, <2>3, AnswerIs
  <2>8. network' = Impact!Survivors(Studied, lost')
    BY <2>1, <2>3 DEF CallSolver
  <2>9. StageInv'
    <3>1. lost' \in DOMAIN Names'
      BY <2>1, <2>6
    <3>2. /\ facility' = facility /\ status' = "survivors" /\ step' = step /\ edits' = edits
          /\ variant' = variant
      BY <2>2
    <3> QED
      BY <1>0, <2>2, <2>6, <2>7, <2>8, <3>1, <3>2 DEF StageInv
  <2> QED
    BY <2>4, <2>5, <2>9 DEF StudyInv
<1>6. CASE Done \/ UNCHANGED studyVars
  <2>1. UNCHANGED <<vars, files, edits, step, snapshot, facility, variant, status, lost, before>>
    BY <1>6 DEF Done, studyVars, builtVars
  <2>2. BuiltInv'
    BY <1>0, <2>1, BuiltHolds DEF loaderVars
  <2>3. SolverInv'
    BY <1>0, <2>1, SolverHolds
  <2>4. Studied' = Studied /\ Names' = Names
    BY <2>1 DEF Studied, Fac001Network, Names
  <2>5. StageInv'
    BY <1>0, <2>1, <2>4 DEF StageInv, vars
  <2> QED
    BY <2>2, <2>3, <2>5 DEF StudyInv
<1> QED
  BY <1>1, <1>2, <1>3, <1>4, <1>5, <1>6 DEF StudyNext

(* Whatever variant is asked for and whichever node is lost, the solver is  *)
(* handed a network it can be given, answers for it as it does for any, and *)
(* downstream_impact has kept the answer for the variant as built.          *)
THEOREM StudyInvariant == StudySpec => []StudyInv
BY StudyStarts, StudyStep, PTL DEF StudySpec

(* A snapshot is closed and whole inside a study too: the solver is never   *)
(* handed one whose references dangle.                                      *)
THEOREM StudiedSnapshotIsClosedAndWhole == StudySpec => []ASnapshotIsClosedAndWhole
<1>1. StudyInv => ASnapshotIsClosedAndWhole
  BY SnapshotHolds DEF StudyInv, BuiltInv
<1> QED
  BY <1>1, StudyInvariant, PTL

(* What downstream_impact compares: the lost node costs a node its supply   *)
(* just if it surely had one, and surely has none any more.                 *)
LEMMA ImpactedIs ==
  ASSUME StudyInv, IsSolved("survivors"), NEW n
  PROVE  n \in Impact!Impacted <=>
           /\ n \in CollectNodeIds(Studied) \ {lost}
           /\ Feeding(Studied, Definite, n) # {}
           /\ Feeding(network, Possible, n) = {}
<1>1. /\ status = "survivors" /\ pass = "returned"
      /\ network = Impact!Survivors(Studied, lost)
      /\ DOMAIN before = CollectNodeIds(Studied)
      /\ \A m \in CollectNodeIds(Studied) : before[m] \in Verdicts(Studied, m)
  BY DEF StudyInv, StageInv, IsSolved
<1>2. /\ DOMAIN Answer = CollectNodeIds(network)
      /\ \A m \in CollectNodeIds(network) : Answer[m] \in Verdicts(network, m)
  BY <1>1, AnswerIs DEF StudyInv
<1>3. n \in Impact!Impacted <=>
        /\ n \in CollectNodeIds(Studied) \ {lost}
        /\ before[n].state \in EnergizedStates
        /\ Impact!StateAfter(n) = "DE_ENERGIZED"
  BY <1>1 DEF Impact!Impacted, Impact!EnergizedStates, EnergizedStates
<1>4. ASSUME n \in CollectNodeIds(Studied)
      PROVE  before[n].state \in EnergizedStates <=> Feeding(Studied, Definite, n) # {}
  <2>1. PICK v : v = before[n] /\ v \in Verdicts(Studied, n)
    BY <1>1, <1>4
  <2>2. \A s \in Preferred(Feeding(Studied, Definite, n)) : s \in Feeding(Studied, Definite, n)
    BY DEF Preferred
  <2> QED
    BY <2>1, <2>2, VerdictKinds DEF EnergizedStates
<1>5. CASE n \in CollectNodeIds(network)
  <2>1. Impact!StateAfter(n) = Answer[n].state
    BY <1>2, <1>5 DEF Impact!StateAfter
  <2>2. PICK v : v = Answer[n] /\ v \in Verdicts(network, n)
    BY <1>2, <1>5
  <2>3. Feeding(network, Definite, n) \subseteq Feeding(network, Possible, n)
    BY DefiniteIsPossible
  <2>4. \A s \in Preferred(Feeding(network, Definite, n)) : s \in Feeding(network, Definite, n)
    BY DEF Preferred
  <2>5. v.state = "DE_ENERGIZED" <=> Feeding(network, Possible, n) = {}
    BY <2>2, <2>3, <2>4, VerdictKinds DEF EnergizedStates
  <2> QED
    BY <1>3, <1>4, <2>1, <2>2, <2>5
<1>6. CASE n \notin CollectNodeIds(network)
  <2>1. Impact!StateAfter(n) = "DE_ENERGIZED"
    BY <1>2, <1>6 DEF Impact!StateAfter
  <2>2. Feeding(network, Possible, n) = {}
    BY <1>6 DEF Feeding, Reach
  <2> QED
    BY <1>3, <1>4, <2>1, <2>2
<1> QED
  BY <1>5, <1>6

-----------------------------------------------------------------------------
(* What a source feeds, and what a loss costs FAC-REF-001.                  *)

(* What the loss of a node of w leaves.                                     *)
Lost(w, x) == Impact!Survivors(w, x)

(* The nodes some source of w is joined to.                                 *)
Lit(w, C) == {n \in CollectNodeIds(w) : Feeding(w, C, n) # {}}

(* A node with a source is fed.                                             *)
LEMMA LitAtSource ==
  ASSUME NEW w, IsNetwork(w), NEW C, NEW s \in w.sources
  PROVE  s.node \in Lit(w, C)
<1>1. s.node \in CollectNodeIds(w)
  BY NetworkParts
<1>2. s \in Feeding(w, C, s.node)
  BY <1>1, ReachStart DEF Feeding
<1> QED
  BY <1>1, <1>2 DEF Lit

(* Both ends of a conducting edge are fed, or neither.                      *)
LEMMA LitHop ==
  ASSUME NEW w, IsNetwork(w), NEW C,
         NEW i \in DOMAIN w.edges, w.edges[i].sw \in C
  PROVE  w.edges[i].from \in Lit(w, C) <=> w.edges[i].to \in Lit(w, C)
<1>1. w.edges[i].from \in CollectNodeIds(w) /\ w.edges[i].to \in CollectNodeIds(w)
  BY NetworkParts
<1>2. ASSUME NEW s \in w.sources
      PROVE  w.edges[i].from \in Reach(w, C, s.node) <=> w.edges[i].to \in Reach(w, C, s.node)
  BY ReachStep
<1> QED
  BY <1>1, <1>2 DEF Lit, Feeding

(* A sealed set without a source is dark.                                   *)
LEMMA DarkWhenSealed ==
  ASSUME NEW w, IsNetwork(w), NEW C, NEW X, Sealed(w, C, X),
         \A s \in w.sources : s.node \notin X
  PROVE  \A n \in X : n \notin Lit(w, C) /\ Feeding(w, C, n) = {}
<1> DEFINE Y == {n \in CollectNodeIds(w) : n \notin X}
<1>1. Sealed(w, C, Y)
  BY NetworkParts DEF Sealed
<1>2. \A s \in w.sources : s.node \in Y
  BY NetworkParts
<1>3. ASSUME NEW n \in X, NEW s \in w.sources, n \in Reach(w, C, s.node) PROVE FALSE
  <2>1. n \in Y
    BY <1>1, <1>2, <1>3 DEF Reach
  <2> QED
    BY <2>1
<1> QED
  BY <1>3 DEF Lit, Feeding

(* What is lost with a node of FAC-REF-001.                                 *)
LEMMA RefLossIs ==
  ASSUME NEW v \in {"base", "gen_backup", "tie_alt"}, NEW x \in 1 .. 13
  PROVE  LET w == RefNetwork(v) IN
         /\ \A n \in 1 .. 13 : n \in Lit(w, Definite)
         /\ \A n \in 1 .. 13 \ {x} :
              n \notin Lit(Lost(w, x), Possible) <=>
                n \in Below(x) /\ ~(v = "gen_backup" /\ 5 \in Below(x))
<1>1. PICK w : w = RefNetwork(v)
  OBVIOUS
<1>2. PICK r : r = Lost(w, x)
  OBVIOUS
<1>3. /\ IsNetwork(w) /\ CollectNodeIds(w) = 1 .. 13
      /\ \A i \in 1 .. 12 : Closed(w, i, Above(i), i)
      /\ \A i \in DOMAIN w.edges : i \in 1 .. 12 \/ w.edges[i].sw = "OPEN"
      /\ {s.node : s \in w.sources} = IF v = "gen_backup" THEN {5, 13} ELSE {13}
  BY <1>1, RefNetworkIs
<1>4. /\ IsNetwork(r)
      /\ r.sources = {s \in w.sources : s.node # x}
      /\ \A i : i \in DOMAIN r.edges <=>
                  i \in DOMAIN w.edges /\ w.edges[i].from # x /\ w.edges[i].to # x
      /\ \A i \in DOMAIN r.edges : r.edges[i] = w.edges[i]
  BY <1>2, <1>3, SurvivorsIs DEF Lost
<1>5. \A i \in 1 .. 12 : i # x /\ Above(i) # x => Closed(r, i, Above(i), i)
  BY <1>3, <1>4 DEF Closed
<1>6. \A i \in DOMAIN r.edges :
        (i \in 1 .. 12 /\ i # x /\ Above(i) # x) \/ r.edges[i].sw = "OPEN"
  BY <1>3, <1>4 DEF Closed
<1>7. /\ Above(12) = 13 /\ Above(5) = 12 /\ Above(1) = 5 /\ Above(4) = 5 /\ Above(10) = 5
      /\ Above(11) = 5 /\ Above(6) = 4 /\ Above(7) = 4 /\ Above(8) = 4
      /\ Above(2) = 10 /\ Above(3) = 10 /\ Above(9) = 10
  BY DEF Above
<1>8. \A n \in 1 .. 13 : n = 1 \/ n = 2 \/ n = 3 \/ n = 4 \/ n = 5 \/ n = 6 \/ n = 7 \/ n = 8
                         \/ n = 9 \/ n = 10 \/ n = 11 \/ n = 12 \/ n = 13
  OBVIOUS
<1>9. \A n \in 1 .. 13 : n \in Lit(w, Definite)
  <2> DEFINE On(n) == n \in Lit(w, Definite)
  <2>1. On(13)
    BY <1>3, LitAtSource
  <2>2. \A i \in 1 .. 12 : On(Above(i)) => On(i)
    BY <1>3, LitHop DEF Closed, Definite
  <2> HIDE DEF On
  <2>3. \A n \in 1 .. 13 : On(n)
    <3>1. On(12) /\ On(5)
      BY <1>7, <2>1, <2>2
    <3>2. On(1) /\ On(4) /\ On(10) /\ On(11)
      BY <1>7, <2>2, <3>1
    <3>3. On(6) /\ On(7) /\ On(8) /\ On(2) /\ On(3) /\ On(9)
      BY <1>7, <2>2, <3>2
    <3> QED
      BY <1>8, <2>1, <3>1, <3>2, <3>3
  <2> QED
    BY <2>3 DEF On
<1>10. ASSUME NEW i \in 1 .. 12, i # x, Above(i) # x
       PROVE  Above(i) \in Lit(r, Possible) <=> i \in Lit(r, Possible)
  BY <1>4, <1>5, <1>10, LitHop DEF Closed, Possible
<1>11. ASSUME NEW n \in Below(x), ~(v = "gen_backup" /\ 5 \in Below(x))
       PROVE  n \notin Lit(r, Possible)
  <2>1. Sealed(r, Possible, Below(x))
    <3> SUFFICES ASSUME NEW i \in DOMAIN r.edges, r.edges[i].sw \in Possible
                 PROVE  r.edges[i].from \in Below(x) <=> r.edges[i].to \in Below(x)
      BY DEF Sealed
    <3>1. i \in 1 .. 12 /\ i # x /\ Above(i) # x
      BY <1>6 DEF Possible
    <3>2. r.edges[i].from = Above(i) /\ r.edges[i].to = i
      BY <1>5, <3>1 DEF Closed
    <3> QED
      BY <3>1, <3>2, BelowIs
  <2>2. \A s \in r.sources : s.node \in (IF v = "gen_backup" THEN {5, 13} ELSE {13})
    BY <1>3, <1>4
  <2>3. 13 \notin Below(x)
    BY BelowIs
  <2>4. \A s \in r.sources : s.node \notin Below(x)
    BY <1>11, <2>2, <2>3
  <2> QED
    BY <1>4, <1>11, <2>1, <2>4, DarkWhenSealed
<1>12. ASSUME NEW n \in 1 .. 13 \ {x}, n \notin Below(x)
       PROVE  n \in Lit(r, Possible)
  <2> DEFINE On(k) == k # x /\ k \notin Below(x) => k \in Lit(r, Possible)
  <2>1. On(13)
    BY <1>3, <1>4, LitAtSource
  <2>2. ASSUME NEW i \in 1 .. 12, On(Above(i)) PROVE On(i)
    <3> SUFFICES ASSUME i # x, i \notin Below(x) PROVE i \in Lit(r, Possible)
      OBVIOUS
    <3>1. Above(i) # x /\ Above(i) \notin Below(x)
      BY BelowIs
    <3> QED
      BY <1>10, <2>2, <3>1
  <2> HIDE DEF On
  <2>3. \A k \in 1 .. 13 : On(k)
    <3>1. On(12)
      BY <1>7, <2>1, <2>2
    <3>4. On(5)
      BY <1>7, <3>1, <2>2
    <3>2. On(1) /\ On(4) /\ On(10) /\ On(11)
      BY <1>7, <2>2, <3>4
    <3>3. On(6) /\ On(7) /\ On(8) /\ On(2) /\ On(3) /\ On(9)
      BY <1>7, <2>2, <3>2
    <3> QED
      BY <1>8, <2>1, <3>1, <3>2, <3>3, <3>4
  <2> QED
    BY <1>12, <2>3 DEF On
<1>13. ASSUME NEW n \in 1 .. 13 \ {x}, v = "gen_backup", 5 \in Below(x)
       PROVE  n \in Lit(r, Possible)
  <2> DEFINE On(k) == k \in Lit(r, Possible)
  <2>1. x = 12 \/ x = 13
    BY <1>8, <1>13 DEF Below
  <2>2. \E s \in r.sources : s.node = 5
    BY <1>3, <1>4, <1>13, <2>1
  <2>3. On(5)
    BY <1>4, <2>2, LitAtSource
  <2>4. x = 13 => On(12)
    BY <1>7, <1>10, <2>3
  <2>5. x = 12 => On(13)
    <3>1. x = 12 => \E s \in r.sources : s.node = 13
      BY <1>3, <1>4
    <3> QED
      BY <1>4, <3>1, LitAtSource
  <2>6. \A i \in 1 .. 11 : i # 5 => Above(i) \in 1 .. 11
    BY <1>7, <1>8
  <2>7. \A i \in 1 .. 11 : i # 5 => (On(Above(i)) => On(i))
    BY <1>10, <2>1, <2>6
  <2> HIDE DEF On
  <2>8. On(1) /\ On(4) /\ On(10) /\ On(11)
    BY <1>7, <2>3, <2>7
  <2>9. On(6) /\ On(7) /\ On(8) /\ On(2) /\ On(3) /\ On(9)
    BY <1>7, <2>7, <2>8
  <2>10. On(n)
    BY <1>8, <2>1, <2>3, <2>4, <2>5, <2>8, <2>9
  <2> QED
    BY <2>10 DEF On
<1> QED
  BY <1>1, <1>2, <1>9, <1>11, <1>12, <1>13

(* For every variant of FAC-REF-001 and every node that may be lost.        *)
LEMMA RadialLoss ==
  ASSUME StudyInv
  PROVE  RadialLossIsSubtree
<1> SUFFICES ASSUME facility = "FAC-REF-001", IsSolved("survivors")
             PROVE  Named(Impact!Impacted) =
                      IF variant = "gen_backup" /\ "MSB-001" \in FedThrough(Names[lost])
                        THEN {} ELSE FedThrough(Names[lost])
  BY DEF RadialLossIsSubtree
<1>1. /\ status = "survivors" /\ variant \in {"base", "gen_backup", "tie_alt"}
      /\ Names = RefIds /\ Studied = RefNetwork(variant)
      /\ lost \in DOMAIN Names /\ network = Lost(Studied, lost)
  BY DEF StudyInv, StageInv, IsSolved, Studied, Names, Lost
<1>2. lost \in 1 .. 13
  BY <1>1, RefIdsAre
<1>3. CollectNodeIds(Studied) = 1 .. 13 /\ IsNetwork(Studied)
  BY <1>1, RefNetworkIs
<1>4. \A n : n \in Impact!Impacted <=>
               /\ n \in 1 .. 13 \ {lost}
               /\ n \in Lit(Studied, Definite)
               /\ n \notin Lit(network, Possible)
  <2>1. ASSUME NEW n, Feeding(network, Possible, n) # {} PROVE n \in CollectNodeIds(network)
    BY <2>1 DEF Feeding, Reach
  <2> QED
    BY <1>3, <2>1, ImpactedIs DEF Lit
<1>5. PICK D : D = Below(lost)
  OBVIOUS
<1>6. D \subseteq 1 .. 13 \ {lost}
  BY <1>2, <1>5, BelowIs
<1>7. \A n : n \in Impact!Impacted <=> n \in D /\ ~(variant = "gen_backup" /\ 5 \in D)
  BY <1>1, <1>2, <1>4, <1>5, <1>6, RefLossIs
<1>8. FedThrough(Names[lost]) = {RefIds[i] : i \in D}
  BY <1>1, <1>2, <1>5, FedThroughIs
<1>9. "MSB-001" \in FedThrough(Names[lost]) <=> 5 \in D
  <2>1. RefIds[5] = "MSB-001"
    BY DEF RefIds
  <2>2. \A i \in D : RefIds[i] = "MSB-001" => i = 5
    BY <1>6, RefIdsAre
  <2> QED
    BY <1>8, <2>1, <2>2
<1> QED
  BY <1>1, <1>7, <1>8, <1>9 DEF Named

(* A lost node of FAC-REF-001 costs exactly what is fed through it, or nothing *)
(* upstream of a generator: property RadialLossIsSubtree of downstream_impact *)
(* over topology_snapshot, for every node and whatever names are asked for. *)
THEOREM RadialLossIsSubtreeAlways == StudySpec => []RadialLossIsSubtree
BY StudyInvariant, RadialLoss, PTL

-----------------------------------------------------------------------------
(* What feeds what in FAC-001, whichever node is lost.                      *)

(* FAC-001 in a variant, without node x; every node is there when x is none *)
(* of them.                                                                 *)
Fac001Without(r, v, x) ==
  /\ IsNetwork(r)
  /\ \A n \in 1 .. 52 \ {x} : n \in CollectNodeIds(r)
  /\ x \notin CollectNodeIds(r) /\ CollectNodeIds(r) \subseteq 1 .. 52
  /\ \A i : i \in DOMAIN r.edges <=> i \in 1 .. 39 /\ Ends[i][1] # x /\ Ends[i][2] # x
  /\ \A i \in DOMAIN r.edges : /\ r.edges[i].from = Ends[i][1] /\ r.edges[i].to = Ends[i][2]
                               /\ r.edges[i].sw = Position(v, i)
  /\ r.sources = {Supply(n) : n \in SupplyNodes(v) \ {x}}

(* FAC-001 as built is FAC-001 without a node it does not have.             *)
LEMMA Fac001Whole ==
  ASSUME NEW w, NEW v, IsFac001(w, v)
  PROVE  Fac001Without(w, v, 0)
<1>1. ASSUME NEW i \in 1 .. 39 PROVE Ends[i][1] # 0 /\ Ends[i][2] # 0
  <2>1. PICK a \in 1 .. 52, b \in 1 .. 52 : a = Ends[i][1] /\ b = Ends[i][2]
    BY Fac001EdgesAre
  <2>2. a # 0 /\ b # 0
    OBVIOUS
  <2> QED
    BY <2>1, <2>2
<1>2. SupplyNodes(v) \ {0} = SupplyNodes(v)
  BY DEF SupplyNodes
<1>3. \A i : i \in DOMAIN w.edges <=> i \in 1 .. 39 /\ Ends[i][1] # 0 /\ Ends[i][2] # 0
  BY <1>1, Zenon DEF IsFac001
<1>4. w.sources = {Supply(n) : n \in SupplyNodes(v) \ {0}}
  BY <1>2 DEF IsFac001
<1>5. /\ \A n \in 1 .. 52 \ {0} : n \in CollectNodeIds(w)
      /\ 0 \notin CollectNodeIds(w) /\ CollectNodeIds(w) \subseteq 1 .. 52
  BY DEF IsFac001
<1> QED
  BY <1>3, <1>4, <1>5 DEF IsFac001, Fac001Without

(* A supply stands at the node it is known by.                              *)
LEMMA SupplyIs ==
  ASSUME NEW v, NEW n \in SupplyNodes(v)
  PROVE  Supply(n).node = n /\ n \in {3, 16, 18, 47, 48}
BY DEF SupplyNodes, Supply

(* What survives the loss of a node of FAC-001.                             *)
LEMMA Fac001Loss ==
  ASSUME NEW w, NEW v, IsFac001(w, v), NEW x
  PROVE  Fac001Without(Lost(w, x), v, x)
<1>1. PICK r : r = Lost(w, x)
  OBVIOUS
<1>2. /\ r.sources = {s \in w.sources : s.node # x}
      /\ \A i : i \in DOMAIN r.edges <=>
                  i \in DOMAIN w.edges /\ w.edges[i].from # x /\ w.edges[i].to # x
      /\ \A i \in DOMAIN r.edges : r.edges[i] = w.edges[i]
      /\ CollectNodeIds(r) \subseteq CollectNodeIds(w) \ {x}
      /\ IsNetwork(r)
  BY <1>1, SurvivorsIs DEF Lost, IsFac001
<1>3. r.sources = {Supply(n) : n \in SupplyNodes(v) \ {x}}
  BY <1>2, SupplyIs DEF IsFac001
<1>4. \A n \in 1 .. 52 \ {x} : n \in CollectNodeIds(r)
  <2>1. r.nodes = 1 .. 52 \ {x}
    BY <1>1 DEF Lost, Impact!Survivors, IsFac001
  <2>2. 1 .. 52 \subseteq NodeId
    BY VariantsAssumption DEF NodeIds
  <2> QED
    BY <2>1, <2>2 DEF CollectNodeIds
<1>5. \A i : i \in DOMAIN r.edges <=> i \in 1 .. 39 /\ Ends[i][1] # x /\ Ends[i][2] # x
  <2>1. DOMAIN w.edges = 1 .. 39
    BY DEF IsFac001
  <2>2. \A i \in 1 .. 39 : w.edges[i].from = Ends[i][1] /\ w.edges[i].to = Ends[i][2]
    BY DEF IsFac001
  <2> QED
    BY <1>2, <2>1, <2>2, Zenon
<1>6. ASSUME NEW i \in DOMAIN r.edges
      PROVE  /\ r.edges[i].from = Ends[i][1] /\ r.edges[i].to = Ends[i][2]
             /\ r.edges[i].sw = Position(v, i)
  BY <1>2, <1>5, Zenon DEF IsFac001
<1>7. x \notin CollectNodeIds(r) /\ CollectNodeIds(r) \subseteq 1 .. 52
  BY <1>2 DEF IsFac001
<1> QED
  BY <1>1, <1>2, <1>3, <1>4, <1>5, <1>6, <1>7, Zenon DEF Fac001Without

(* Every edge of FAC-001.                                                   *)
LEMMA EndsAre ==
  /\ Ends[1][1] = 48 /\ Ends[1][2] = 44 /\ Ends[2][1] = 44 /\ Ends[2][2] = 45
  /\ Ends[3][1] = 44 /\ Ends[3][2] = 46 /\ Ends[4][1] = 45 /\ Ends[4][2] = 42
  /\ Ends[5][1] = 46 /\ Ends[5][2] = 43 /\ Ends[6][1] = 42 /\ Ends[6][2] = 43
  /\ Ends[7][1] = 42 /\ Ends[7][2] = 27 /\ Ends[8][1] = 42 /\ Ends[8][2] = 39
  /\ Ends[9][1] = 42 /\ Ends[9][2] = 13 /\ Ends[10][1] = 42 /\ Ends[10][2] = 14
  /\ Ends[11][1] = 42 /\ Ends[11][2] = 4 /\ Ends[12][1] = 18 /\ Ends[12][2] = 42
  /\ Ends[13][1] = 43 /\ Ends[13][2] = 28 /\ Ends[14][1] = 43 /\ Ends[14][2] = 29
  /\ Ends[15][1] = 43 /\ Ends[15][2] = 40 /\ Ends[16][1] = 43 /\ Ends[16][2] = 17
  /\ Ends[17][1] = 43 /\ Ends[17][2] = 47 /\ Ends[18][1] = 47 /\ Ends[18][2] = 15
  /\ Ends[19][1] = 3 /\ Ends[19][2] = 47 /\ Ends[20][1] = 16 /\ Ends[20][2] = 2
  /\ Ends[21][1] = 2 /\ Ends[21][2] = 43 /\ Ends[22][1] = 27 /\ Ends[22][2] = 19
  /\ Ends[23][1] = 27 /\ Ends[23][2] = 49 /\ Ends[24][1] = 49 /\ Ends[24][2] = 20
  /\ Ends[25][1] = 27 /\ Ends[25][2] = 21 /\ Ends[26][1] = 28 /\ Ends[26][2] = 50
  /\ Ends[27][1] = 50 /\ Ends[27][2] = 22 /\ Ends[28][1] = 28 /\ Ends[28][2] = 23
  /\ Ends[29][1] = 28 /\ Ends[29][2] = 51 /\ Ends[30][1] = 51 /\ Ends[30][2] = 24
  /\ Ends[31][1] = 29 /\ Ends[31][2] = 52 /\ Ends[32][1] = 52 /\ Ends[32][2] = 25
  /\ Ends[33][1] = 29 /\ Ends[33][2] = 26 /\ Ends[34][1] = 29 /\ Ends[34][2] = 11
  /\ Ends[35][1] = 29 /\ Ends[35][2] = 12 /\ Ends[36][1] = 29 /\ Ends[36][2] = 1
  /\ Ends[37][1] = 29 /\ Ends[37][2] = 36 /\ Ends[38][1] = 29 /\ Ends[38][2] = 37
  /\ Ends[39][1] = 29 /\ Ends[39][2] = 38
BY DEF Ends

(* The thirty-nine edges of FAC-001, counted out.                           *)
LEMMA PlacesAre ==
  ASSUME NEW i \in 1 .. 39
  PROVE
    i = 1 \/ i = 2 \/ i = 3 \/ i = 4 \/ i = 5 \/ i = 6 \/ i = 7 \/ i = 8 \/
    i = 9 \/ i = 10 \/ i = 11 \/ i = 12 \/ i = 13 \/ i = 14 \/ i = 15 \/
    i = 16 \/ i = 17 \/ i = 18 \/ i = 19 \/ i = 20 \/ i = 21 \/ i = 22 \/
    i = 23 \/ i = 24 \/ i = 25 \/ i = 26 \/ i = 27 \/ i = 28 \/ i = 29 \/
    i = 30 \/ i = 31 \/ i = 32 \/ i = 33 \/ i = 34 \/ i = 35 \/ i = 36 \/
    i = 37 \/ i = 38 \/ i = 39
OBVIOUS

(* An edge that conducts leads from a to b.                                 *)
Joins(r, C, a, b) ==
  \E i \in DOMAIN r.edges :
    r.edges[i].sw \in C /\ r.edges[i].from = a /\ r.edges[i].to = b

(* What feeds one end of it feeds the other.                                *)
LEMMA JoinedFeeds ==
  ASSUME NEW r, IsNetwork(r), NEW C, NEW a, NEW b, Joins(r, C, a, b)
  PROVE  /\ Feeding(r, C, a) = Feeding(r, C, b)
         /\ a \in Lit(r, C) <=> b \in Lit(r, C)
<1>1. PICK i \in DOMAIN r.edges : r.edges[i].sw \in C /\ r.edges[i].from = a /\ r.edges[i].to = b
  BY DEF Joins
<1>2. Feeding(r, C, a) = Feeding(r, C, b)
  BY <1>1, ReachStep DEF Feeding
<1>3. a \in Lit(r, C) <=> b \in Lit(r, C)
  BY <1>1, LitHop
<1> QED
  BY <1>2, <1>3

(* The edges that conduct, by their ends.                                   *)
LEMMA Fac001Joins ==
  ASSUME NEW r, NEW v \in Variants, NEW x, Fac001Without(r, v, x),
         NEW C, C = Definite \/ C = Possible
  PROVE
    /\ x \notin {48, 44} /\ v # "utility_loss" => Joins(r, C, 48, 44)
    /\ x \notin {44, 45} /\ v # "tx1_out" => Joins(r, C, 44, 45)
    /\ x \notin {44, 46} => Joins(r, C, 44, 46)
    /\ x \notin {45, 42} /\ v # "tx1_out" => Joins(r, C, 45, 42)
    /\ x \notin {46, 43} => Joins(r, C, 46, 43)
    /\ x \notin {42, 43} /\ v \in {"tie_closed", "tx1_out"} => Joins(r, C, 42, 43)
    /\ x \notin {42, 27} => Joins(r, C, 42, 27)
    /\ x \notin {42, 39} => Joins(r, C, 42, 39)
    /\ x \notin {42, 13} => Joins(r, C, 42, 13)
    /\ x \notin {42, 14} => Joins(r, C, 42, 14)
    /\ x \notin {42, 4} => Joins(r, C, 42, 4)
    /\ x \notin {18, 42} => Joins(r, C, 18, 42)
    /\ x \notin {43, 28} => Joins(r, C, 43, 28)
    /\ x \notin {43, 29} /\ (v # "unknown_switch" \/ C = Possible) => Joins(r, C, 43, 29)
    /\ x \notin {43, 40} => Joins(r, C, 43, 40)
    /\ x \notin {43, 17} => Joins(r, C, 43, 17)
    /\ x \notin {43, 47} /\ v # "utility_loss" => Joins(r, C, 43, 47)
    /\ x \notin {47, 15} => Joins(r, C, 47, 15)
    /\ x \notin {3, 47} => Joins(r, C, 3, 47)
    /\ x \notin {16, 2} /\ v = "utility_loss" => Joins(r, C, 16, 2)
    /\ x \notin {2, 43} /\ v = "utility_loss" => Joins(r, C, 2, 43)
    /\ x \notin {27, 19} => Joins(r, C, 27, 19)
    /\ x \notin {27, 49} => Joins(r, C, 27, 49)
    /\ x \notin {49, 20} => Joins(r, C, 49, 20)
    /\ x \notin {27, 21} => Joins(r, C, 27, 21)
    /\ x \notin {28, 50} => Joins(r, C, 28, 50)
    /\ x \notin {50, 22} => Joins(r, C, 50, 22)
    /\ x \notin {28, 23} => Joins(r, C, 28, 23)
    /\ x \notin {28, 51} => Joins(r, C, 28, 51)
    /\ x \notin {51, 24} => Joins(r, C, 51, 24)
    /\ x \notin {29, 52} => Joins(r, C, 29, 52)
    /\ x \notin {52, 25} => Joins(r, C, 52, 25)
    /\ x \notin {29, 26} => Joins(r, C, 29, 26)
    /\ x \notin {29, 11} => Joins(r, C, 29, 11)
    /\ x \notin {29, 12} => Joins(r, C, 29, 12)
    /\ x \notin {29, 1} => Joins(r, C, 29, 1)
    /\ x \notin {29, 36} => Joins(r, C, 29, 36)
    /\ x \notin {29, 37} => Joins(r, C, 29, 37)
    /\ x \notin {29, 38} => Joins(r, C, 29, 38)
<1>1. ASSUME NEW i \in 1 .. 39, Ends[i][1] # x, Ends[i][2] # x, Position(v, i) \in C
      PROVE  Joins(r, C, Ends[i][1], Ends[i][2])
  <2>1. i \in DOMAIN r.edges
    BY <1>1 DEF Fac001Without
  <2>2. /\ r.edges[i].from = Ends[i][1] /\ r.edges[i].to = Ends[i][2]
        /\ r.edges[i].sw = Position(v, i)
    BY <2>1 DEF Fac001Without
  <2> QED
    BY <1>1, <2>1, <2>2, Zenon DEF Joins
<1>2. \A i \in 1 .. 39 \ {1, 2, 4, 6, 14, 17, 20, 21} : Position(v, i) \in C
  BY DEF Position, Definite, Possible
<1>3. /\ v # "utility_loss" => Position(v, 1) \in C /\ Position(v, 17) \in C
      /\ v # "tx1_out" => Position(v, 2) \in C /\ Position(v, 4) \in C
      /\ v \in {"tie_closed", "tx1_out"} => Position(v, 6) \in C
      /\ v # "unknown_switch" \/ C = Possible => Position(v, 14) \in C
      /\ v = "utility_loss" => Position(v, 20) \in C /\ Position(v, 21) \in C
  BY DEF Position, Definite, Possible
<1> DEFINE On(i) == Position(v, i) \in C
           J(a, b) == Joins(r, C, a, b)
<1>4. \A i \in 1 .. 39 : Ends[i][1] # x /\ Ends[i][2] # x /\ On(i) => J(Ends[i][1], Ends[i][2])
  BY <1>1
<1>5. \A i \in 1 .. 39 \ {1, 2, 4, 6, 14, 17, 20, 21} : On(i)
  BY <1>2
<1>6. /\ v # "utility_loss" => On(1) /\ On(17)
      /\ v # "tx1_out" => On(2) /\ On(4)
      /\ v \in {"tie_closed", "tx1_out"} => On(6)
      /\ v # "unknown_switch" \/ C = Possible => On(14)
      /\ v = "utility_loss" => On(20) /\ On(21)
  BY <1>3
<1> HIDE DEF On, J
<1>7. /\ x \notin {48, 44} /\ v # "utility_loss" => J(48, 44)
      /\ x \notin {44, 45} /\ v # "tx1_out" => J(44, 45)
      /\ x \notin {44, 46} => J(44, 46)
      /\ x \notin {45, 42} /\ v # "tx1_out" => J(45, 42)
      /\ x \notin {46, 43} => J(46, 43)
      /\ x \notin {42, 43} /\ v \in {"tie_closed", "tx1_out"} => J(42, 43)
      /\ x \notin {42, 27} => J(42, 27)
      /\ x \notin {42, 39} => J(42, 39)
      /\ x \notin {42, 13} => J(42, 13)
      /\ x \notin {42, 14} => J(42, 14)
      /\ x \notin {42, 4} => J(42, 4)
      /\ x \notin {18, 42} => J(18, 42)
      /\ x \notin {43, 28} => J(43, 28)
  BY <1>4, <1>5, <1>6, EndsAre
<1>8. /\ x \notin {43, 29} /\ (v # "unknown_switch" \/ C = Possible) => J(43, 29)
      /\ x \notin {43, 40} => J(43, 40)
      /\ x \notin {43, 17} => J(43, 17)
      /\ x \notin {43, 47} /\ v # "utility_loss" => J(43, 47)
      /\ x \notin {47, 15} => J(47, 15)
      /\ x \notin {3, 47} => J(3, 47)
      /\ x \notin {16, 2} /\ v = "utility_loss" => J(16, 2)
      /\ x \notin {2, 43} /\ v = "utility_loss" => J(2, 43)
      /\ x \notin {27, 19} => J(27, 19)
      /\ x \notin {27, 49} => J(27, 49)
      /\ x \notin {49, 20} => J(49, 20)
      /\ x \notin {27, 21} => J(27, 21)
      /\ x \notin {28, 50} => J(28, 50)
  BY <1>4, <1>5, <1>6, EndsAre
<1>9. /\ x \notin {50, 22} => J(50, 22)
      /\ x \notin {28, 23} => J(28, 23)
      /\ x \notin {28, 51} => J(28, 51)
      /\ x \notin {51, 24} => J(51, 24)
      /\ x \notin {29, 52} => J(29, 52)
      /\ x \notin {52, 25} => J(52, 25)
      /\ x \notin {29, 26} => J(29, 26)
      /\ x \notin {29, 11} => J(29, 11)
      /\ x \notin {29, 12} => J(29, 12)
      /\ x \notin {29, 1} => J(29, 1)
      /\ x \notin {29, 36} => J(29, 36)
      /\ x \notin {29, 37} => J(29, 37)
      /\ x \notin {29, 38} => J(29, 38)
  BY <1>4, <1>5, <1>6, EndsAre
<1> QED
  BY <1>7, <1>8, <1>9 DEF J

(* A set no edge that conducts leads out of.                                *)
LEMMA Fac001Sealed ==
  ASSUME NEW r, NEW v, NEW x, Fac001Without(r, v, x), NEW C, NEW X,
         \A i \in 1 .. 39 : Position(v, i) \in C /\ Ends[i][1] # x /\ Ends[i][2] # x =>
                             (Ends[i][1] \in X <=> Ends[i][2] \in X)
  PROVE  Sealed(r, C, X)
<1> SUFFICES ASSUME NEW i \in DOMAIN r.edges, r.edges[i].sw \in C
             PROVE  r.edges[i].from \in X <=> r.edges[i].to \in X
  BY DEF Sealed
<1>1. /\ r.edges[i].from = Ends[i][1] /\ r.edges[i].to = Ends[i][2]
      /\ r.edges[i].sw = Position(v, i)
      /\ i \in 1 .. 39 /\ Ends[i][1] # x /\ Ends[i][2] # x
  BY Zenon DEF Fac001Without
<1> QED
  BY <1>1, Zenon

(* What is sealed off with some supplies is fed by them alone.              *)
LEMMA SealedFeeds ==
  ASSUME NEW r, IsNetwork(r), NEW C, NEW X, Sealed(r, C, X), NEW n, NEW s \in Feeding(r, C, n)
  PROVE  s.node \in X <=> n \in X
<1>1. s \in r.sources /\ n \in Reach(r, C, s.node) /\ s.node \in CollectNodeIds(r)
  BY NetworkParts DEF Feeding
<1> DEFINE Y == {m \in CollectNodeIds(r) : m \in X}
           Z == {m \in CollectNodeIds(r) : m \notin X}
<1>2. Sealed(r, C, Y) /\ Sealed(r, C, Z)
  BY NetworkParts DEF Sealed
<1>3. s.node \in Y => n \in Y
  BY <1>1, <1>2 DEF Reach
<1>4. s.node \in Z => n \in Z
  BY <1>1, <1>2 DEF Reach
<1> QED
  BY <1>1, <1>3, <1>4

(* The supplies that are left feed the nodes they stand at.                 *)
LEMMA SupplyFeeds ==
  ASSUME NEW r, NEW v, NEW x, Fac001Without(r, v, x), NEW C, NEW n \in SupplyNodes(v) \ {x}
  PROVE  Supply(n) \in Feeding(r, C, n) /\ n \in Lit(r, C)
<1>1. IsNetwork(r) /\ Supply(n) \in r.sources /\ Supply(n).node = n
  BY SupplyIs DEF Fac001Without
<1> QED
  BY <1>1, NetworkParts, ReachStart DEF Feeding, Lit

(* The nodes of FAC-001 an edge mentions, by their places.                  *)
WiredPlaces == {1, 2, 3, 4} \cup 11 .. 29 \cup 36 .. 40 \cup 42 .. 52

(* They are the ends of the edges.                                          *)
LEMMA WiredPlacesAre ==
  ASSUME NEW n \in 1 .. 52
  PROVE  n \in WiredPlaces <=> \E i \in 1 .. 39 : n = Ends[i][1] \/ n = Ends[i][2]
<1>1. ASSUME NEW i \in 1 .. 39
      PROVE  Ends[i][1] \in WiredPlaces /\ Ends[i][2] \in WiredPlaces
  BY EndsAre, PlacesAre, SMTT(60) DEF WiredPlaces
<1>2. ASSUME n \in WiredPlaces
      PROVE  \E i \in 1 .. 39 : n = Ends[i][1] \/ n = Ends[i][2]
  <2>1. \/ n \in {1, 2, 3, 4, 11, 12, 13, 14, 15, 16, 17, 18, 19, 20, 21, 22, 23, 24}
        \/ n \in {25, 26, 27, 28, 29, 36, 37, 38, 39, 40, 42, 43, 44, 45, 46, 47, 48}
        \/ n \in {49, 50, 51, 52}
    BY <1>2 DEF WiredPlaces
  <2> QED
    BY <2>1, EndsAre, SMTT(60)
<1> QED
  BY <1>1, <1>2, Zenon

(* The wired nodes of the delivered files are those places.                 *)
LEMMA WiredIs ==
  ASSUME BuiltInv, step = "built", edits = 0
  PROVE  Wired = WiredPlaces
<1>1. /\ FilesInv /\ Validated /\ files = DeliveredFiles
  BY DEF BuiltInv, LoaderInv
<1>2. /\ files.edges = FacilityEdges
      /\ files.nodes = [i \in DOMAIN NodeIds |-> [id |-> NodeIds[i], complete |-> TRUE]]
  BY <1>1 DEF DeliveredFiles
<1>3. Ids = {NodeIds[i] : i \in 1 .. 52}
  BY <1>2, Fac001IdsAre DEF Ids, Range
<1>4. \A i \in 1 .. 39 : FacilityEdges[i].from \in Ids /\ FacilityEdges[i].to \in Ids
  BY <1>1, <1>2, Fac001EdgesAre DEF Validated, EdgeResolves, Range
<1>5. ASSUME NEW i \in 1 .. 39, NEW n \in 1 .. 52
      PROVE  /\ NodeIds[n] = FacilityEdges[i].from <=> n = Ends[i][1]
             /\ NodeIds[n] = FacilityEdges[i].to <=> n = Ends[i][2]
  <2>1. PICK a \in 1 .. 52, b \in 1 .. 52 :
          NodeIds[a] = FacilityEdges[i].from /\ NodeIds[b] = FacilityEdges[i].to
    BY <1>3, <1>4
  <2>2. Id(FacilityEdges[i].from) = Ends[i][1] /\ Id(FacilityEdges[i].to) = Ends[i][2]
    BY Fac001EdgesAre
  <2>3. Id(NodeIds[a]) = a /\ Id(NodeIds[b]) = b /\ Id(NodeIds[n]) = n
    BY Fac001IdsAre
  <2> QED
    BY <2>1, <2>2, <2>3, Zenon
<1>6. ASSUME NEW n \in 1 .. 52
      PROVE  n \in Wired <=> \E i \in 1 .. 39 : n = Ends[i][1] \/ n = Ends[i][2]
  <2>1. n \in Wired <=> \E i \in 1 .. 39 : \/ NodeIds[n] = FacilityEdges[i].from
                                           \/ NodeIds[n] = FacilityEdges[i].to
    BY Fac001EdgesAre, Fac001IdsAre DEF Wired, Range
  <2> QED
    BY <1>5, <2>1
<1>7. Wired \subseteq 1 .. 52 /\ WiredPlaces \subseteq 1 .. 52
  BY Fac001IdsAre DEF Wired, WiredPlaces
<1>8. \A n \in 1 .. 52 : n \in Wired <=> n \in WiredPlaces
  BY <1>6, WiredPlacesAre
<1> QED
  BY <1>7, <1>8

(* The supplies of every variant.                                           *)
LEMMA SuppliesAre ==
  ASSUME NEW r, NEW v, NEW x, Fac001Without(r, v, x), NEW C
  PROVE  /\ \A n \in {3, 16, 18, 47} : x # n => n \in Lit(r, C)
         /\ v # "utility_loss" /\ x # 48 => 48 \in Lit(r, C)
BY SupplyFeeds DEF SupplyNodes

(* What no source feeds: the transfer switch behind its open switches, the  *)
(* first transformer racked out, the utility lost.                          *)
LEMMA Fac001Dark ==
  ASSUME NEW r, NEW v \in Variants, NEW x, Fac001Without(r, v, x), NEW n,
         \/ n = 2 /\ v # "utility_loss"
         \/ n = 45 /\ v = "tx1_out"
         \/ n = 48 /\ v = "utility_loss"
  PROVE  n \notin Lit(r, Possible) /\ Feeding(r, Possible, n) = {}
<1>1. \A i \in 1 .. 39 : Ends[i][1] = n \/ Ends[i][2] = n => Position(v, i) \notin Possible
  <2>1. ASSUME NEW i \in 1 .. 39, Ends[i][1] = n \/ Ends[i][2] = n
        PROVE  \/ n = 2 /\ i \in {20, 21}
               \/ n = 45 /\ i \in {2, 4}
               \/ n = 48 /\ i = 1
    BY <2>1, EndsAre, PlacesAre, SMTT(60)
  <2>2. ASSUME NEW i \in 1 .. 39, Ends[i][1] = n \/ Ends[i][2] = n
        PROVE  Position(v, i) \notin Possible
    BY <2>1, <2>2 DEF Position, Possible
  <2> QED
    BY <2>2
<1>2. Sealed(r, Possible, {n})
  BY <1>1, Fac001Sealed
<1>3. ASSUME NEW s \in r.sources PROVE s.node \notin {n}
  <2>1. PICK m \in SupplyNodes(v) : s = Supply(m)
    BY DEF Fac001Without
  <2>2. s.node = m
    BY <2>1, SupplyIs
  <2>3. m \in {3, 16, 18, 47} \/ (m = 48 /\ v # "utility_loss")
    BY DEF SupplyNodes
  <2> QED
    BY <2>2, <2>3
<1> QED
  BY <1>2, <1>3, DarkWhenSealed DEF Fac001Without

(* What lies behind the switch of unknown position.                         *)
DoubtfulPlaces == {1, 11, 12, 25, 26, 29, 36, 37, 38, 52}

(* What the loss of a supply, of a transformer or of the MV board leaves    *)
(* fed, or of nothing: all else.                                            *)
LEMMA Fac001Covered ==
  ASSUME NEW r, NEW v \in Variants, NEW x \in {0, 2, 3, 16, 18, 44, 45, 46, 48},
         Fac001Without(r, v, x), NEW C, C = Definite \/ C = Possible,
         NEW n \in WiredPlaces \ {x},
         ~(n = 2 /\ v # "utility_loss"), ~(n = 45 /\ v = "tx1_out"),
         ~(n = 48 /\ v = "utility_loss"),
         ~(n \in DoubtfulPlaces /\ v = "unknown_switch" /\ C = Definite)
  PROVE  n \in Lit(r, C)
<1> DEFINE On(k) == k \in Lit(r, C)
           J(a, b) == Joins(r, C, a, b)
<1>0. /\ x # 1 /\ x # 4 /\ x # 11 /\ x # 12 /\ x # 13 /\ x # 14 /\ x # 15 /\ x # 17
      /\ x # 19 /\ x # 20 /\ x # 21 /\ x # 22 /\ x # 23 /\ x # 24 /\ x # 25 /\ x # 26
      /\ x # 27 /\ x # 28 /\ x # 29 /\ x # 36 /\ x # 37 /\ x # 38 /\ x # 39 /\ x # 40
      /\ x # 42 /\ x # 43 /\ x # 47 /\ x # 49 /\ x # 50 /\ x # 51 /\ x # 52
  OBVIOUS
<1>1. IsNetwork(r)
  BY DEF Fac001Without
<1>2. \A a, b : J(a, b) => (On(a) <=> On(b))
  BY <1>1, JoinedFeeds
<1>3. /\ x # 3 => On(3)
      /\ x # 16 => On(16)
      /\ x # 18 => On(18)
      /\ On(47)
      /\ v # "utility_loss" /\ x # 48 => On(48)
  BY SuppliesAre
<1>4. /\ x \notin {48, 44} /\ v # "utility_loss" => J(48, 44)
      /\ x \notin {44, 45} /\ v # "tx1_out" => J(44, 45)
      /\ x \notin {44, 46} => J(44, 46)
      /\ x # 45 /\ v # "tx1_out" => J(45, 42)
      /\ x # 46 => J(46, 43)
      /\ v = "tx1_out" => J(42, 43)
      /\ x # 18 => J(18, 42)
      /\ v # "utility_loss" => J(43, 47)
      /\ x \notin {16, 2} /\ v = "utility_loss" => J(16, 2)
      /\ x # 2 /\ v = "utility_loss" => J(2, 43)
      /\ J(47, 15)
  BY <1>0, Fac001Joins, SMTT(60)
<1>5. /\ J(42, 27) /\ J(42, 39) /\ J(42, 13) /\ J(42, 14) /\ J(42, 4)
      /\ J(43, 28) /\ J(43, 40) /\ J(43, 17)
  BY <1>0, Fac001Joins, SMTT(60)
<1>6. /\ J(27, 19) /\ J(27, 49) /\ J(49, 20) /\ J(27, 21)
      /\ J(28, 50) /\ J(50, 22) /\ J(28, 23) /\ J(28, 51) /\ J(51, 24)
  BY <1>0, Fac001Joins, SMTT(60)
<1>7. (v # "unknown_switch" \/ C = Possible) => J(43, 29)
  <2>1. x \notin {43, 29}
    BY <1>0
  <2>2. x \notin {43, 29} /\ (v # "unknown_switch" \/ C = Possible) => J(43, 29)
    BY Fac001Joins, ZenonT(60)
  <2> QED
    BY <2>1, <2>2
<1>8. /\ J(29, 52) /\ J(52, 25) /\ J(29, 26) /\ J(29, 11) /\ J(29, 12) /\ J(29, 1)
      /\ J(29, 36) /\ J(29, 37) /\ J(29, 38)
  BY <1>0, Fac001Joins, SMTT(60)
<1> HIDE DEF On, J
<1>9. On(43)
  <2>1. CASE v # "utility_loss"
    BY <1>2, <1>3, <1>4, <2>1
  <2>2. CASE v = "utility_loss" /\ x \notin {16, 2}
    BY <1>2, <1>3, <1>4, <2>2
  <2>3. CASE v = "utility_loss" /\ x \in {16, 2}
    BY <1>2, <1>3, <1>4, <2>3
  <2> QED
    BY <2>1, <2>2, <2>3
<1>10. On(42)
  <2>1. CASE x # 18
    BY <1>2, <1>3, <1>4, <2>1
  <2>2. CASE x = 18
    BY <1>2, <1>4, <1>9, <2>2
  <2> QED
    BY <2>1, <2>2
<1>11. /\ v # "tx1_out" /\ x # 45 => On(45)
       /\ x # 46 => On(46)
       /\ x # 44 => On(44)
       /\ x # 2 /\ v = "utility_loss" => On(2)
       /\ On(15)
  <2>1. /\ v # "tx1_out" /\ x # 45 => On(45)
        /\ x # 46 => On(46)
        /\ x # 2 /\ v = "utility_loss" => On(2)
        /\ On(15)
    BY <1>2, <1>3, <1>4, <1>9, <1>10
  <2>2. x # 44 => On(44)
    BY <1>2, <1>3, <1>4, <2>1
  <2> QED
    BY <2>1, <2>2
<1>12. /\ On(27) /\ On(39) /\ On(13) /\ On(14) /\ On(4)
       /\ On(28) /\ On(40) /\ On(17)
       /\ v # "unknown_switch" \/ C = Possible => On(29)
  BY <1>2, <1>5, <1>9, <1>10, <1>7
<1>13. /\ On(19) /\ On(49) /\ On(20) /\ On(21) /\ On(50) /\ On(22) /\ On(23)
       /\ On(51) /\ On(24)
       /\ v # "unknown_switch" \/ C = Possible =>
            /\ On(52) /\ On(25) /\ On(26) /\ On(11) /\ On(12) /\ On(1)
            /\ On(36) /\ On(37) /\ On(38)
  BY <1>2, <1>6, <1>12, <1>8
<1>14. On(n)
  <2>1. \/ n \in {1, 11, 12, 25, 26, 29, 36, 37, 38, 52}
        \/ n \in {2, 3, 16, 18, 44, 45, 46, 47, 48}
        \/ n \in {4, 13, 14, 15, 17, 19, 20, 21, 22, 23, 24, 27, 28, 39, 40, 42, 43, 49, 50, 51}
    BY DEF WiredPlaces
  <2>2. CASE n \in {1, 11, 12, 25, 26, 29, 36, 37, 38, 52}
    <3>1. v # "unknown_switch" \/ C = Possible
      BY <2>2 DEF DoubtfulPlaces
    <3> QED
      BY <1>12, <1>13, <2>2, <3>1
  <2>3. CASE n \in {2, 3, 16, 18, 44, 45, 46, 47, 48}
    BY <1>3, <1>11, <2>3
  <2>4. CASE n \in {4, 13, 14, 15, 17, 19, 20, 21, 22, 23, 24, 27, 28, 39, 40, 42, 43, 49, 50, 51}
    BY <1>9, <1>10, <1>11, <1>12, <1>13, <2>4
  <2> QED
    BY <2>1, <2>2, <2>3, <2>4
<1> QED
  BY <1>14 DEF On

-----------------------------------------------------------------------------
(* What a loss costs FAC-001.                                               *)

(* A study of FAC-001 that has answered twice: what was lost, and what of.  *)
LEMMA Fac001Study ==
  ASSUME StudyInv, facility = "FAC-001", status # "asked"
  PROVE  /\ variant \in Variants /\ IsFac001(Studied, variant)
         /\ Wired = WiredPlaces /\ IsNetwork(Studied)
         /\ Names = NodeIds
         /\ status = "whole" => network = Studied
         /\ status = "survivors" =>
              /\ lost \in 1 .. 52
              /\ network = Lost(Studied, lost)
<1>1. step = "built" /\ edits = 0 /\ BuiltInv
  BY DEF StudyInv, StageInv
<1>2. Studied = Fac001Network /\ Names = NodeIds
  BY DEF Studied, Names
<1>3. IsFac001(Studied, variant) /\ variant \in Variants
  BY <1>1, <1>2, Fac001NetworkIs
<1>4. status = "whole" => network = Studied
  BY DEF StudyInv, StageInv
<1>5. status = "survivors" => lost \in DOMAIN Names /\ network = Lost(Studied, lost)
  BY DEF StudyInv, StageInv, Lost
<1> QED
  BY <1>1, <1>2, <1>3, <1>4, <1>5, WiredIs, Fac001IdsAre DEF IsFac001

(* In every variant the critical board outlives the loss of any node but    *)
(* the UPS and itself.                                                      *)
LEMMA CriticalBoard ==
  ASSUME StudyInv
  PROVE  CriticalBoardHeld
<1> SUFFICES ASSUME facility = "FAC-001", IsSolved("survivors")
             PROVE  (Id("DB-003") \in DOMAIN results /\ Of("DB-003").state \in EnergizedStates)
                      <=> lost \notin {Id("UPS-001"), Id("DB-003")}
  BY DEF CriticalBoardHeld
<1>1. Id("DB-003") = 15 /\ Id("UPS-001") = 47 /\ Of("DB-003") = results[15]
  BY Fac001IdsAre DEF Of
<1>2. PICK x : x = lost
  OBVIOUS
<1>3. PICK r : r = network
  OBVIOUS
<1>4. status = "survivors" /\ pass = "returned"
  BY DEF IsSolved
<1>5. x \in 1 .. 52 /\ Fac001Without(r, variant, x) /\ variant \in Variants
  BY <1>2, <1>3, <1>4, Fac001Study, Fac001Loss
<1>6. /\ DOMAIN results = CollectNodeIds(r)
      /\ 15 \in CollectNodeIds(r) => VerdictOf(results[15]) \in Verdicts(r, 15)
  BY <1>3, <1>4, AnswerIs DEF StudyInv
<1>7. VerdictOf(results[15]).state = results[15].state
  BY DEF VerdictOf
<1>8. 15 \in CollectNodeIds(r) =>
        (results[15].state \in EnergizedStates <=> Feeding(r, Definite, 15) # {})
  <2>1. \A s \in Preferred(Feeding(r, Definite, 15)) : s \in Feeding(r, Definite, 15)
    BY DEF Preferred
  <2> QED
    BY <1>6, <1>7, <2>1, VerdictKinds DEF EnergizedStates
<1>9. CASE x \notin {47, 15}
  <2>1. Supply(47) \in Feeding(r, Definite, 47)
    BY <1>5, <1>9, SupplyFeeds DEF SupplyNodes
  <2>2. Joins(r, Definite, 47, 15)
    BY <1>5, <1>9, Fac001Joins
  <2>3. Feeding(r, Definite, 15) # {} /\ 15 \in CollectNodeIds(r)
    BY <1>5, <1>9, <2>1, <2>2, JoinedFeeds DEF Fac001Without
  <2> QED
    BY <1>1, <1>2, <1>6, <1>8, <1>9, <2>3
<1>10. CASE x = 47
  <2>1. \A i \in 1 .. 39 : Ends[i][1] = 15 \/ Ends[i][2] = 15 => Ends[i][1] = 47
    BY EndsAre, PlacesAre, SMTT(60)
  <2>2. \A i \in 1 .. 39 : Ends[i][1] # x /\ Ends[i][2] # x =>
                            (Ends[i][1] \in {15} <=> Ends[i][2] \in {15})
    BY <1>10, <2>1
  <2>3. Sealed(r, Definite, {15})
    BY <1>5, <2>2, Fac001Sealed
  <2>4. \A s \in r.sources : s.node \notin {15}
    BY <1>5, SupplyIs DEF Fac001Without
  <2>5. Feeding(r, Definite, 15) = {}
    BY <1>5, <2>3, <2>4, DarkWhenSealed DEF Fac001Without
  <2> QED
    BY <1>1, <1>2, <1>6, <1>8, <1>10, <2>5
<1>11. CASE x = 15
  <2>1. 15 \notin CollectNodeIds(r)
    BY <1>5, <1>11 DEF Fac001Without
  <2> QED
    BY <1>1, <1>2, <1>6, <1>11, <2>1
<1> QED
  BY <1>9, <1>10, <1>11

(* "the UPS, on battery, holds the critical board" (switching.py): property *)
(* CriticalBoardHeld, for the loss of any node of any variant of FAC-001.   *)
THEOREM CriticalBoardHeldAlways == StudySpec => []CriticalBoardHeld
BY StudyInvariant, CriticalBoard, PTL

(* No wired node loses its last supply with a source, a transformer or the  *)
(* MV board.                                                                *)
LEMMA UpstreamLoss ==
  ASSUME StudyInv
  PROVE  UpstreamLossIsCovered
<1> SUFFICES ASSUME facility = "FAC-001", IsSolved("survivors"),
                    Names[lost] \in {"UTIL-001", "SWGR-MV-001", "TX-001", "TX-002", "GEN-001",
                                     "ATS-001", "INV-001", "BATT-001"},
                    NEW n \in Impact!Impacted, n \in Wired
             PROVE  FALSE
  BY DEF UpstreamLossIsCovered
<1>1. PICK x : x = lost
  OBVIOUS
<1>2. PICK r : r = network
  OBVIOUS
<1>3. PICK w : w = Studied
  OBVIOUS
<1>4. status = "survivors" /\ pass = "returned"
  BY DEF IsSolved
<1>5. /\ x \in 1 .. 52 /\ Fac001Without(r, variant, x) /\ Fac001Without(w, variant, 0)
      /\ variant \in Variants /\ n \in WiredPlaces /\ Names = NodeIds
  BY <1>1, <1>2, <1>3, <1>4, Fac001Study, Fac001Loss, Fac001Whole
<1>6. x \in {2, 3, 16, 18, 44, 45, 46, 48}
  <2>1. Id(NodeIds[x]) = x
    BY <1>5, Fac001IdsAre
  <2> QED
    BY <1>1, <1>5, <2>1, Fac001IdsAre
<1>7. n # x /\ Feeding(w, Definite, n) # {} /\ Feeding(r, Possible, n) = {}
  BY <1>1, <1>2, <1>3, ImpactedIs
<1>8. n \notin Lit(r, Possible)
  BY <1>7 DEF Lit
<1>9. \/ n = 2 /\ variant # "utility_loss"
      \/ n = 45 /\ variant = "tx1_out"
      \/ n = 48 /\ variant = "utility_loss"
  <2>1. Possible # Definite
    BY DEF Possible, Definite
  <2> QED
    BY <1>5, <1>6, <1>7, <1>8, <2>1, Fac001Covered
<1>10. Feeding(w, Possible, n) = {}
  BY <1>5, <1>9, Fac001Dark
<1> QED
  BY <1>7, <1>10, DefiniteIsPossible

(* No wired node of FAC-001 loses its last supply with a source, a transformer *)
(* or the MV board: property UpstreamLossIsCovered of what downstream_impact *)
(* is told by the solver.                                                   *)
THEOREM UpstreamLossIsCoveredAlways == StudySpec => []UpstreamLossIsCovered
BY StudyInvariant, UpstreamLoss, PTL

-----------------------------------------------------------------------------
(* The paths of the variants of FAC-001.                                    *)

(* Behind the switch of unknown position nothing is surely fed.             *)
LEMMA Fac001Doubtful ==
  ASSUME NEW r, NEW x, Fac001Without(r, "unknown_switch", x), NEW n \in DoubtfulPlaces
  PROVE  Feeding(r, Definite, n) = {}
<1>1. ASSUME NEW i \in 1 .. 39, i # 14
      PROVE  Ends[i][1] \in DoubtfulPlaces <=> Ends[i][2] \in DoubtfulPlaces
  BY <1>1, EndsAre, PlacesAre, SMTT(60) DEF DoubtfulPlaces
<1>2. Position("unknown_switch", 14) \notin Definite
  BY DEF Position, Definite
<1>3. Sealed(r, Definite, DoubtfulPlaces)
  BY <1>1, <1>2, Fac001Sealed
<1>4. \A s \in r.sources : s.node \notin DoubtfulPlaces
  BY SupplyIs DEF Fac001Without, DoubtfulPlaces
<1> QED
  BY <1>3, <1>4, DarkWhenSealed DEF Fac001Without

(* Names of FAC-001 and places.                                             *)
LEMMA NamedIs ==
  ASSUME Names = NodeIds, NEW X \in SUBSET (1 .. 52), NEW n \in 1 .. 52
  PROVE  NodeIds[n] \in Named(X) <=> n \in X
<1>1. \A i, j \in 1 .. 52 : NodeIds[i] = NodeIds[j] => i = j
  BY Fac001IdsAre
<1> QED
  BY <1>1 DEF Named

(* What the solver has said of a node, in terms of what feeds it.           *)
LEMMA SaidIs ==
  ASSUME SolverInv, pass = "returned", NEW n \in CollectNodeIds(network)
  PROVE  /\ n \in DOMAIN results
         /\ results[n].state = "DE_ENERGIZED" <=> n \notin Lit(network, Possible)
         /\ results[n].state = "INDETERMINATE" <=>
              n \in Lit(network, Possible) /\ n \notin Lit(network, Definite)
         /\ results[n].state \in EnergizedStates <=> n \in Lit(network, Definite)
         /\ n \in Lit(network, Definite) =>
              \E s \in Preferred(Feeding(network, Definite, n)) :
                results[n].state = StateForSourceType(s.type) /\ results[n].source = s.node
<1>1. PICK v : v = VerdictOf(results[n])
  OBVIOUS
<1>2. n \in DOMAIN results /\ v \in Verdicts(network, n)
  BY <1>1, AnswerIs
<1>3. v.state = results[n].state /\ v.source = results[n].source
  BY <1>1 DEF VerdictOf
<1>4. Feeding(network, Definite, n) \subseteq Feeding(network, Possible, n)
  BY DefiniteIsPossible
<1>5. /\ n \in Lit(network, Definite) <=> Feeding(network, Definite, n) # {}
      /\ n \in Lit(network, Possible) <=> Feeding(network, Possible, n) # {}
  BY DEF Lit
<1>6. \A s \in Preferred(Feeding(network, Definite, n)) : s \in Feeding(network, Definite, n)
  BY DEF Preferred
<1>7. CASE /\ v.state \in EnergizedStates
           /\ \E s \in Preferred(Feeding(network, Definite, n)) :
                v = [state |-> StateForSourceType(s.type), source |-> s.node]
  <2>1. PICK s \in Preferred(Feeding(network, Definite, n)) :
          v = [state |-> StateForSourceType(s.type), source |-> s.node]
    BY <1>7
  <2>2. v.state = StateForSourceType(s.type) /\ v.source = s.node
    BY <2>1
  <2>3. n \in Lit(network, Definite) /\ n \in Lit(network, Possible)
    BY <1>4, <1>5, <1>6, <2>1
  <2> QED
    BY <1>2, <1>3, <1>7, <2>1, <2>2, <2>3 DEF EnergizedStates
<1>8. CASE /\ v.state = "INDETERMINATE"
           /\ Feeding(network, Definite, n) = {} /\ Feeding(network, Possible, n) # {}
  BY <1>2, <1>3, <1>5, <1>8 DEF EnergizedStates
<1>9. CASE /\ v.state = "DE_ENERGIZED"
           /\ Feeding(network, Possible, n) = {} /\ Feeding(network, Definite, n) = {}
  BY <1>2, <1>3, <1>5, <1>9 DEF EnergizedStates
<1> QED
  BY <1>2, <1>7, <1>8, <1>9, VerdictKinds

(* A walk into a set enters it over some hop.                               *)
LEMMA WalkEnters ==
  ASSUME NEW S, NEW p \in Seq(S), p # <<>>, NEW X, p[1] \notin X, p[Len(p)] \in X
  PROVE  \E k \in 1 .. Len(p) - 1 : p[k] \notin X /\ p[k + 1] \in X
<1> DEFINE In == {k \in Nat : k \in 1 .. Len(p) /\ p[k] \in X}
<1>1. Len(p) \in Nat /\ Len(p) \in In
  BY EmptySeq
<1>2. PICK k \in In : \A m \in In : k <= m
  BY <1>1, LeastExists
<1>3. k # 1 /\ k \in 1 .. Len(p)
  BY <1>2
<1>4. k - 1 \in 1 .. Len(p) - 1 /\ k - 1 \in Nat /\ k - 1 \in 1 .. Len(p) /\ ~(k <= k - 1)
      /\ (k - 1) + 1 = k
  BY <1>1, <1>2, <1>3
<1>5. p[k - 1] \notin X /\ p[(k - 1) + 1] \in X
  BY <1>2, <1>4
<1> QED
  BY <1>4, <1>5

(* A hop of a walk shown for FAC-001 as built, by the place of its edge.    *)
LEMMA Fac001Hop ==
  ASSUME NEW w, NEW v, Fac001Without(w, v, 0), NEW a, NEW b, NEW i \in Hops(w, Definite, a, b)
  PROVE  /\ i \in 1 .. 39 /\ Position(v, i) = "CLOSED"
         /\ w.edges[i].from = Ends[i][1]
         /\ \/ Ends[i][1] = a /\ Ends[i][2] = b
            \/ Ends[i][1] = b /\ Ends[i][2] = a
<1>1. i \in DOMAIN w.edges /\ w.edges[i].sw = "CLOSED"
  BY DEF Hops, Definite
<1>2. i \in 1 .. 39 /\ w.edges[i].from = Ends[i][1] /\ w.edges[i].to = Ends[i][2]
      /\ w.edges[i].sw = Position(v, i)
  BY <1>1, Zenon DEF Fac001Without
<1> QED
  BY <1>1, <1>2 DEF Hops

(* Which wired nodes a variant leaves dark or in doubt.                     *)
LEMMA Fac001Fed ==
  ASSUME NEW w, NEW v \in Variants, Fac001Without(w, v, 0), NEW n \in WiredPlaces
  PROVE  /\ n \notin Lit(w, Possible) <=> \/ n = 2 /\ v # "utility_loss"
                                          \/ n = 45 /\ v = "tx1_out"
                                          \/ n = 48 /\ v = "utility_loss"
         /\ n \in Lit(w, Possible) /\ n \notin Lit(w, Definite) <=>
              n \in DoubtfulPlaces /\ v = "unknown_switch"
<1>1. \A C : C = Definite \/ C = Possible =>
        n \in Lit(w, C) \/ \/ n = 2 /\ v # "utility_loss"
                           \/ n = 45 /\ v = "tx1_out"
                           \/ n = 48 /\ v = "utility_loss"
                           \/ n \in DoubtfulPlaces /\ v = "unknown_switch" /\ C = Definite
  <2>1. n \in WiredPlaces \ {0}
    BY DEF WiredPlaces
  <2> QED
    BY <2>1, Fac001Covered
<1>2. Possible # Definite
  BY DEF Possible, Definite
<1>3. \/ n = 2 /\ v # "utility_loss"
      \/ n = 45 /\ v = "tx1_out"
      \/ n = 48 /\ v = "utility_loss"
      => n \notin Lit(w, Possible)
  BY Fac001Dark
<1>4. n \in DoubtfulPlaces /\ v = "unknown_switch" => n \notin Lit(w, Definite)
  BY Fac001Doubtful DEF Lit
<1>5. n \in Lit(w, Definite) => n \in Lit(w, Possible)
  BY DefiniteIsPossible DEF Lit
<1>6. n \in DoubtfulPlaces => n \notin {2, 45, 48}
  BY DEF DoubtfulPlaces
<1> QED
  BY <1>1, <1>2, <1>3, <1>4, <1>5, <1>6

(* The preferred supply of a node the utility feeds is the utility.         *)
LEMMA UtilityIsPreferred ==
  ASSUME NEW w, NEW v, NEW x, Fac001Without(w, v, x), NEW n,
         Supply(48) \in Feeding(w, Definite, n),
         NEW s \in Preferred(Feeding(w, Definite, n))
  PROVE  s = Supply(48)
<1>1. PICK k \in SupplyNodes(v) : s = Supply(k)
  BY DEF Preferred, Feeding, Fac001Without
<1>2. ~Before(Supply(48), s)
  BY DEF Preferred
<1>3. k \in {3, 16, 18, 47} \/ k = 48
  BY DEF SupplyNodes
<1>4. k \in {3, 16, 18, 47} => Supply(48).prio < Supply(k).prio
  BY DEF Supply
<1> QED
  BY <1>1, <1>2, <1>3, <1>4 DEF Before

(* Where the utility's supply goes while it lasts.                          *)
LEMMA UtilityFeeds ==
  ASSUME NEW w, NEW v \in Variants, v # "utility_loss", Fac001Without(w, v, 0)
  PROVE  \A n \in {42, 43, 15} : Supply(48) \in Feeding(w, Definite, n)
<1> DEFINE F(n) == Feeding(w, Definite, n)
           J(a, b) == Joins(w, Definite, a, b)
<1>1. \A a, b : J(a, b) => F(a) = F(b)
  BY JoinedFeeds DEF Fac001Without
<1>2. Supply(48) \in F(48)
  BY SupplyFeeds DEF SupplyNodes
<1>3. /\ J(48, 44) /\ J(44, 46) /\ J(46, 43) /\ J(43, 47) /\ J(47, 15)
      /\ v # "tx1_out" => J(44, 45) /\ J(45, 42)
      /\ v = "tx1_out" => J(42, 43)
  BY Fac001Joins, SMTT(60)
<1> HIDE DEF F, J
<1>4. Supply(48) \in F(44) /\ Supply(48) \in F(43) /\ Supply(48) \in F(15)
  BY <1>1, <1>2, <1>3
<1>5. Supply(48) \in F(42)
  BY <1>1, <1>3, <1>4
<1> QED
  BY <1>4, <1>5 DEF F

(* With the utility lost: the UPS holds what is behind its open input, the  *)
(* generator leads the rest.                                                *)
LEMMA UtilityLost ==
  ASSUME NEW w, Fac001Without(w, "utility_loss", 0)
  PROVE  /\ \A n \in {3, 15, 47} : \A s \in Preferred(Feeding(w, Definite, n)) : s = Supply(47)
         /\ \A n : n \notin {3, 15, 47} =>
              \A s \in Feeding(w, Definite, n) : s \in {Supply(16), Supply(18)}
         /\ \A s \in Preferred(Feeding(w, Definite, 46)) : s = Supply(16)
<1> DEFINE F(n) == Feeding(w, Definite, n)
           J(a, b) == Joins(w, Definite, a, b)
<1>1. \A a, b : J(a, b) => F(a) = F(b)
  BY JoinedFeeds DEF Fac001Without
<1>2. Supply(47) \in F(47) /\ Supply(16) \in F(16)
  BY SupplyFeeds DEF SupplyNodes
<1>3. "utility_loss" \in Variants
  BY DEF Variants
<1>4. J(47, 15) /\ J(3, 47) /\ J(16, 2) /\ J(2, 43) /\ J(46, 43)
  BY <1>3, Fac001Joins, SMTT(60)
<1>5. Sealed(w, Definite, {3, 15, 47})
  <2>1. ASSUME NEW i \in 1 .. 39, i # 17
        PROVE  Ends[i][1] \in {3, 15, 47} <=> Ends[i][2] \in {3, 15, 47}
    BY <2>1, EndsAre, PlacesAre, SMTT(60)
  <2>2. Position("utility_loss", 17) \notin Definite
    BY DEF Position, Definite
  <2> QED
    BY <2>1, <2>2, Fac001Sealed
<1>6. ASSUME NEW n, NEW s \in F(n)
      PROVE  /\ s \in {Supply(3), Supply(16), Supply(18), Supply(47)}
             /\ n \in {3, 15, 47} <=> s.node \in {3, 15, 47}
  <2>1. PICK k \in SupplyNodes("utility_loss") : s = Supply(k)
    BY DEF Feeding, Fac001Without
  <2>2. n \in {3, 15, 47} <=> s.node \in {3, 15, 47}
    BY <1>5, SealedFeeds DEF Fac001Without
  <2> QED
    BY <2>1, <2>2 DEF SupplyNodes
<1>7. /\ Supply(3).node = 3 /\ Supply(16).node = 16 /\ Supply(18).node = 18 /\ Supply(47).node = 47
      /\ Supply(3).prio = 3 /\ Supply(16).prio = 1 /\ Supply(18).prio = 2 /\ Supply(47).prio = 2
  BY DEF Supply
<1> HIDE DEF J
<1>8. /\ \A n \in {3, 15, 47} : Supply(47) \in F(n)
      /\ Supply(16) \in F(46)
  <2> HIDE DEF F
  <2> QED
    BY <1>1, <1>2, <1>4
<1>9. ASSUME NEW n \in {3, 15, 47}, NEW s \in Preferred(F(n))
      PROVE  s = Supply(47)
  <2>1. s \in F(n) /\ ~Before(Supply(47), s)
    BY <1>8 DEF Preferred
  <2>2. s \in {Supply(3), Supply(47)}
    BY <1>6, <1>7, <2>1
  <2> QED
    BY <1>7, <2>1, <2>2 DEF Before
<1>10. ASSUME NEW n, n \notin {3, 15, 47}, NEW s \in F(n)
       PROVE  s \in {Supply(16), Supply(18)}
  BY <1>6, <1>7, <1>10
<1>11. ASSUME NEW s \in Preferred(F(46))
       PROVE  s = Supply(16)
  <2>1. s \in F(46) /\ ~Before(Supply(16), s)
    BY <1>8 DEF Preferred
  <2>2. s \in {Supply(16), Supply(18)}
    BY <1>10, <2>1
  <2> QED
    BY <1>7, <2>1, <2>2 DEF Before
<1> QED
  BY <1>9, <1>10, <1>11

(* What a definite result of FAC-001 shows of its path.                     *)
LEMMA ShownPath ==
  ASSUME NEW w, NEW n, NEW r, Shown(w, n, r), r.state # "INDETERMINATE"
  PROVE  LET p == r.path IN
         /\ p \in Seq(CollectNodeIds(w)) /\ p # <<>> /\ Len(p) \in Nat /\ Len(p) >= 1
         /\ DOMAIN p = 1 .. Len(p)
         /\ p[1] = r.source /\ p[Len(p)] = n
         /\ \A k \in 1 .. Len(p) - 1 : \E i : FirstHop(w, Definite, p[k], p[k + 1], i)
         /\ r.backfed <=> \E k \in 1 .. Len(p) - 1, i \in DOMAIN w.edges :
                            FirstHop(w, Definite, p[k], p[k + 1], i) /\ w.edges[i].from # p[k]
         /\ \E V, level : /\ Levels(w, Definite, r.source, V, level)
                          /\ n \in V /\ level[n] = Len(p)
<1>1. PICK p : p = r.path
  OBVIOUS
<1>2. CarriedBy(r) = Definite
  BY DEF CarriedBy
<1>3. /\ p \in Seq(CollectNodeIds(w)) /\ p # <<>>
      /\ p[1] = r.source /\ p[Len(p)] = n
      /\ \A k \in 1 .. Len(p) - 1 :
           p[k + 1] # p[k] /\ \E i : FirstHop(w, Definite, p[k], p[k + 1], i)
      /\ r.backfed <=> \E k \in 1 .. Len(p) - 1, i \in DOMAIN w.edges :
                         FirstHop(w, Definite, p[k], p[k + 1], i) /\ w.edges[i].from # p[k]
      /\ \E V, level : /\ Levels(w, Definite, r.source, V, level)
                       /\ n \in V /\ level[n] = Len(p)
  BY <1>1, <1>2, Zenon DEF Shown
<1>4. Len(p) \in Nat /\ Len(p) >= 1 /\ DOMAIN p = 1 .. Len(p)
  BY <1>3, EmptySeq
<1> QED
  BY <1>1, <1>3, <1>4

(* With the first transformer out, SWGR-LV-001 is fed over the tie, from    *)
(* SWGR-LV-002 and against the tie's declared direction.                    *)
LEMMA TiePath ==
  ASSUME NEW w, Fac001Without(w, "tx1_out", 0),
         NEW r, Shown(w, 42, r), r.state # "INDETERMINATE", r.source = 48
  PROVE  r.backfed /\ \E k \in DOMAIN r.path : r.path[k] = 43
<1>1. PICK p : p = r.path
  OBVIOUS
<1>2. /\ p \in Seq(CollectNodeIds(w)) /\ p # <<>> /\ Len(p) \in Nat
      /\ DOMAIN p = 1 .. Len(p)
      /\ p[1] = 48 /\ p[Len(p)] = 42
      /\ \A k \in 1 .. Len(p) - 1 : \E i : FirstHop(w, Definite, p[k], p[k + 1], i)
      /\ r.backfed <=> \E k \in 1 .. Len(p) - 1, i \in DOMAIN w.edges :
                         FirstHop(w, Definite, p[k], p[k + 1], i) /\ w.edges[i].from # p[k]
  BY <1>1, ShownPath
<1> DEFINE X == {4, 13, 14, 18, 19, 20, 21, 27, 39, 42, 49}
<1>3. \A i \in 1 .. 39 : Position("tx1_out", i) = "CLOSED" =>
        i = 6 \/ (Ends[i][1] \in X <=> Ends[i][2] \in X)
  <2>1. ASSUME NEW i \in 1 .. 39, i # 6, i # 4
        PROVE  Ends[i][1] \in X <=> Ends[i][2] \in X
    BY <2>1, EndsAre, PlacesAre, SMTT(60)
  <2>2. Position("tx1_out", 4) # "CLOSED"
    BY DEF Position
  <2> QED
    BY <2>1, <2>2
<1>4. PICK k \in 1 .. Len(p) - 1 : p[k] \notin X /\ p[k + 1] \in X
  <2>1. 48 \notin X /\ 42 \in X
    OBVIOUS
  <2> HIDE DEF X
  <2> QED
    BY <1>2, <2>1, WalkEnters
<1>5. PICK i : FirstHop(w, Definite, p[k], p[k + 1], i)
  BY <1>2
<1>6. i \in Hops(w, Definite, p[k], p[k + 1]) /\ i \in DOMAIN w.edges
  BY <1>5 DEF FirstHop, Hops
<1>7. /\ i \in 1 .. 39 /\ Position("tx1_out", i) = "CLOSED"
      /\ w.edges[i].from = Ends[i][1]
      /\ \/ Ends[i][1] = p[k] /\ Ends[i][2] = p[k + 1]
         \/ Ends[i][1] = p[k + 1] /\ Ends[i][2] = p[k]
  BY <1>6, Fac001Hop
<1> HIDE DEF X
<1>8. i = 6
  BY <1>3, <1>4, <1>7
<1>9. Ends[6][1] = 42 /\ Ends[6][2] = 43 /\ 43 \notin X /\ 42 \in X
  BY EndsAre DEF X
<1>10. p[k] = 43 /\ w.edges[i].from = 42
  BY <1>4, <1>7, <1>8, <1>9
<1>11. r.backfed
  BY <1>2, <1>5, <1>6, <1>10
<1>12. k \in DOMAIN p
  BY <1>2
<1> QED
  BY <1>1, <1>10, <1>11, <1>12

(* With the utility lost, TX-002 is fed from the generator over the         *)
(* transfer switch, against the direction it was built for.                 *)
LEMMA GeneratorPath ==
  ASSUME NEW w, Fac001Without(w, "utility_loss", 0),
         NEW r, Shown(w, 46, r), r.state # "INDETERMINATE", r.source = 16
  PROVE  r.backfed /\ \E k \in DOMAIN r.path : r.path[k] = 2
<1>1. PICK p : p = r.path
  OBVIOUS
<1>2. /\ p \in Seq(CollectNodeIds(w)) /\ p # <<>> /\ Len(p) \in Nat
      /\ DOMAIN p = 1 .. Len(p)
      /\ p[1] = 16 /\ p[Len(p)] = 46
      /\ \A k \in 1 .. Len(p) - 1 : \E i : FirstHop(w, Definite, p[k], p[k + 1], i)
      /\ r.backfed <=> \E k \in 1 .. Len(p) - 1, i \in DOMAIN w.edges :
                         FirstHop(w, Definite, p[k], p[k + 1], i) /\ w.edges[i].from # p[k]
  BY <1>1, ShownPath
<1> DEFINE X == {44, 45, 46}
           Y == 1 .. 52 \ {16}
<1>3. \A i \in 1 .. 39 : Position("utility_loss", i) = "CLOSED" =>
        \/ Ends[i][1] \in X /\ Ends[i][2] \notin X
        \/ Ends[i][1] \in X <=> Ends[i][2] \in X
  <2>1. ASSUME NEW i \in 1 .. 39, i # 1
        PROVE  \/ Ends[i][1] \in X /\ Ends[i][2] \notin X
               \/ Ends[i][1] \in X <=> Ends[i][2] \in X
    BY <2>1, EndsAre, PlacesAre, SMTT(60)
  <2>2. Position("utility_loss", 1) # "CLOSED"
    BY DEF Position
  <2> QED
    BY <2>1, <2>2
<1>4. \A i \in 1 .. 39 : \/ Ends[i][1] \in Y <=> Ends[i][2] \in Y
                         \/ Ends[i][1] = 16 /\ Ends[i][2] = 2
  <2>1. ASSUME NEW i \in 1 .. 39, i # 20
        PROVE  Ends[i][1] \in Y <=> Ends[i][2] \in Y
    BY <2>1, EndsAre, PlacesAre, SMTT(60)
  <2>2. Ends[20][1] = 16 /\ Ends[20][2] = 2
    BY EndsAre
  <2> QED
    BY <2>1, <2>2
<1>5. 16 \notin X /\ 46 \in X /\ 16 \notin Y /\ 46 \in Y /\ 2 \in Y
  OBVIOUS
<1> HIDE DEF X, Y
<1>6. ASSUME NEW k \in 1 .. Len(p) - 1
      PROVE  \E i \in DOMAIN w.edges :
               /\ FirstHop(w, Definite, p[k], p[k + 1], i)
               /\ i \in 1 .. 39 /\ Position("utility_loss", i) = "CLOSED"
               /\ w.edges[i].from = Ends[i][1]
               /\ \/ Ends[i][1] = p[k] /\ Ends[i][2] = p[k + 1]
                  \/ Ends[i][1] = p[k + 1] /\ Ends[i][2] = p[k]
  <2>1. PICK i : FirstHop(w, Definite, p[k], p[k + 1], i)
    BY <1>2
  <2>2. i \in Hops(w, Definite, p[k], p[k + 1]) /\ i \in DOMAIN w.edges
    BY <2>1 DEF FirstHop, Hops
  <2> QED
    BY <2>1, <2>2, Fac001Hop
<1>7. r.backfed
  <2>1. PICK k \in 1 .. Len(p) - 1 : p[k] \notin X /\ p[k + 1] \in X
    BY <1>2, <1>5, WalkEnters
  <2>2. PICK i \in DOMAIN w.edges :
          /\ FirstHop(w, Definite, p[k], p[k + 1], i)
          /\ i \in 1 .. 39 /\ Position("utility_loss", i) = "CLOSED"
          /\ w.edges[i].from = Ends[i][1]
          /\ \/ Ends[i][1] = p[k] /\ Ends[i][2] = p[k + 1]
             \/ Ends[i][1] = p[k + 1] /\ Ends[i][2] = p[k]
    BY <1>6
  <2>3. w.edges[i].from # p[k]
    BY <1>3, <2>1, <2>2
  <2> QED
    BY <1>2, <2>2, <2>3
<1>8. \E k \in DOMAIN p : p[k] = 2
  <2>1. PICK k \in 1 .. Len(p) - 1 : p[k] \notin Y /\ p[k + 1] \in Y
    BY <1>2, <1>5, WalkEnters
  <2>2. PICK i \in 1 .. 39 : \/ Ends[i][1] = p[k] /\ Ends[i][2] = p[k + 1]
                             \/ Ends[i][1] = p[k + 1] /\ Ends[i][2] = p[k]
    BY <1>6
  <2>3. p[k + 1] = 2
    BY <1>4, <1>5, <2>1, <2>2
  <2>4. k + 1 \in DOMAIN p
    BY <1>2
  <2> QED
    BY <2>3, <2>4
<1> QED
  BY <1>1, <1>7, <1>8

(* The edges at the utility and at the MV board.                            *)
LEMMA FromUtilityAndBoard ==
  ASSUME NEW i \in 1 .. 39
  PROVE  /\ Ends[i][2] # 48 /\ (Ends[i][1] = 48 => Ends[i][2] = 44)
         /\ Ends[i][1] = 44 => Ends[i][2] \in {45, 46}
         /\ Ends[i][2] = 44 => Ends[i][1] = 48
<1>1. i \in 4 .. 39 => Ends[i][1] \notin {44, 48} /\ Ends[i][2] \notin {44, 48}
  BY EndsAre, PlacesAre, SMTT(60)
<1>2. i \in 2 .. 3 => Ends[i][1] = 44 /\ Ends[i][2] \in {45, 46}
  BY EndsAre
<1>3. i = 1 => Ends[i][1] = 48 /\ Ends[i][2] = 44
  BY EndsAre
<1>4. i = 1 \/ i \in 2 .. 3 \/ i \in 4 .. 39
  OBVIOUS
<1> QED
  BY <1>1, <1>2, <1>3, <1>4

(* Where a hop from the utility or the MV board leads.                      *)
LEMMA HopFromUtilityOrBoard ==
  ASSUME NEW w, NEW v, Fac001Without(w, v, 0), NEW a, NEW b, NEW i \in Hops(w, Definite, a, b)
  PROVE  /\ a = 48 => b = 44
         /\ a = 44 => b \in {45, 46, 48}
<1>1. i \in 1 .. 39
  BY Fac001Hop
<1>2. \/ Ends[i][1] = a /\ Ends[i][2] = b
      \/ Ends[i][1] = b /\ Ends[i][2] = a
  BY Fac001Hop
<1>3. PICK t, u : t = Ends[i][1] /\ u = Ends[i][2]
  OBVIOUS
<1>4. /\ u # 48 /\ (t = 48 => u = 44)
      /\ t = 44 => u \in {45, 46}
      /\ u = 44 => t = 48
  BY <1>1, <1>3, FromUtilityAndBoard
<1>5. (t = a /\ u = b) \/ (t = b /\ u = a)
  BY <1>2, <1>3
<1> QED
  BY <1>4, <1>5

(* With both transformers in and the tie open, neither board is fed over    *)
(* the other: a shortest way from the utility has three hops.               *)
LEMMA OwnTransformerPath ==
  ASSUME NEW w, Fac001Without(w, "base", 0),
         NEW n \in {42, 43}, NEW o \in {42, 43}, n # o,
         NEW r, Shown(w, n, r), r.state # "INDETERMINATE", r.source = 48
  PROVE  \A k \in DOMAIN r.path : r.path[k] # o
<1>1. PICK p : p = r.path
  OBVIOUS
<1>2. /\ Len(p) \in Nat /\ DOMAIN p = 1 .. Len(p) /\ p[1] = 48 /\ p[Len(p)] = n
      /\ \A k \in 1 .. Len(p) - 1 : \E i : FirstHop(w, Definite, p[k], p[k + 1], i)
  BY <1>1, ShownPath
<1>3. PICK V, level : Levels(w, Definite, 48, V, level) /\ n \in V /\ level[n] = Len(p)
  BY <1>1, ShownPath
<1>4. Len(p) <= 4
  <2>1. ASSUME NEW i \in {1, 2, 3, 4, 5}
        PROVE  i \in Hops(w, Definite, Ends[i][1], Ends[i][2])
    <3>1. i \in 1 .. 39
      OBVIOUS
    <3>2. Ends[i][1] # 0 /\ Ends[i][2] # 0
      BY EndsAre
    <3>3. i \in DOMAIN w.edges
      BY <3>1, <3>2 DEF Fac001Without
    <3>4. w.edges[i].from = Ends[i][1] /\ w.edges[i].to = Ends[i][2]
          /\ w.edges[i].sw = Position("base", i)
      BY <3>3 DEF Fac001Without
    <3>5. Position("base", i) \in Definite
      BY DEF Position, Definite
    <3> QED
      BY <3>3, <3>4, <3>5 DEF Hops
  <2>2. /\ 1 \in Hops(w, Definite, 48, 44)
        /\ 2 \in Hops(w, Definite, 44, 45) /\ 3 \in Hops(w, Definite, 44, 46)
        /\ 4 \in Hops(w, Definite, 45, 42) /\ 5 \in Hops(w, Definite, 46, 43)
    BY <2>1, EndsAre
  <2>3. /\ 48 \in V /\ level \in [V -> Nat] /\ level[48] = 1
        /\ \A m \in V : \A a, i : i \in Hops(w, Definite, m, a) => a \in V /\ level[a] <= level[m] + 1
    BY <1>3 DEF Levels, Hops
  <2> DEFINE At(m, d) == m \in V /\ level[m] <= d
  <2>4. At(44, 2)
    BY <2>2, <2>3
  <2>5. At(45, 3) /\ At(46, 3)
    BY <2>2, <2>3, <2>4
  <2>6. At(42, 4) /\ At(43, 4)
    BY <2>2, <2>3, <2>5
  <2> QED
    BY <1>3, <2>6
<1>5. ASSUME NEW k \in 1 .. Len(p) - 1
      PROVE  /\ p[k] = 48 => p[k + 1] = 44
             /\ p[k] = 44 => p[k + 1] \in {45, 46, 48}
  <2>1. PICK i : i \in Hops(w, Definite, p[k], p[k + 1])
    BY <1>2 DEF FirstHop
  <2> QED
    BY <2>1, HopFromUtilityOrBoard
<1>6. ASSUME NEW k \in 1 .. Len(p), p[k] = o
      PROVE  FALSE
  <2>1. Len(p) \in Nat /\ p[1] = 48 /\ p[Len(p)] = n
    BY <1>2
  <2>2. k # 1 /\ k # Len(p)
    BY <1>6, <2>1
  <2>3. k = 2 \/ k = 3
    BY <1>4, <2>1, <2>2
  <2>4. p[2] = 44
    <3>1. 1 \in 1 .. Len(p) - 1 /\ 1 + 1 = 2
      BY <2>1, <2>2, <2>3
    <3> QED
      BY <1>2, <1>5, <3>1
  <2>5. CASE k = 2
    BY <1>6, <2>4, <2>5
  <2>6. CASE k = 3
    <3>1. 2 \in 1 .. Len(p) - 1 /\ 2 + 1 = 3
      BY <2>1, <2>2, <2>6
    <3>2. p[3] \in {45, 46, 48}
      BY <1>5, <2>4, <3>1
    <3> QED
      BY <1>6, <2>6, <3>2
  <2> QED
    BY <2>3, <2>5, <2>6
<1> QED
  BY <1>1, <1>2, <1>6

(* The ids the descriptions of the variants speak of, by their places.      *)
LEMMA DescribedIds ==
  /\ NodeIds[1] = "AC-001" /\ NodeIds[2] = "ATS-001" /\ NodeIds[3] = "BATT-001"
  /\ NodeIds[11] = "CH-001" /\ NodeIds[12] = "CH-002" /\ NodeIds[15] = "DB-003"
  /\ NodeIds[25] = "M-007" /\ NodeIds[26] = "M-008" /\ NodeIds[29] = "MCC-003"
  /\ NodeIds[36] = "P-001" /\ NodeIds[37] = "P-002" /\ NodeIds[38] = "P-003"
  /\ NodeIds[42] = "SWGR-LV-001" /\ NodeIds[43] = "SWGR-LV-002" /\ NodeIds[45] = "TX-001"
  /\ NodeIds[47] = "UPS-001" /\ NodeIds[48] = "UTIL-001" /\ NodeIds[52] = "VFD-004"
BY DEF NodeIds

(* What the solver has made of a variant of FAC-001, by the places of ids.  *)
LEMMA VariantSolved ==
  ASSUME StudyInv, facility = "FAC-001", IsSolved("whole")
  PROVE  /\ variant \in Variants /\ Names = NodeIds /\ Wired = WiredPlaces
         /\ Fac001Without(network, variant, 0)
         /\ \A n \in WiredPlaces :
              /\ results[n].state = "DE_ENERGIZED" <=>
                   \/ n = 2 /\ variant # "utility_loss"
                   \/ n = 45 /\ variant = "tx1_out"
                   \/ n = 48 /\ variant = "utility_loss"
              /\ results[n].state = "INDETERMINATE" <=>
                   n \in DoubtfulPlaces /\ variant = "unknown_switch"
         /\ \A n \in 1 .. 52 :
              results[n].state \in EnergizedStates =>
                /\ Shown(network, n, results[n])
                /\ \E s \in Preferred(Feeding(network, Definite, n)) :
                     results[n].state = StateForSourceType(s.type) /\ results[n].source = s.node
         /\ \A n \in 1 .. 52 : Feeding(network, Definite, n) # {} =>
                                 results[n].state \in EnergizedStates
<1>1. status = "whole" /\ pass = "returned" /\ SolverInv
  BY DEF IsSolved, StudyInv
<1>2. /\ variant \in Variants /\ Names = NodeIds /\ Wired = WiredPlaces
      /\ Fac001Without(network, variant, 0)
  BY <1>1, Fac001Study, Fac001Whole
<1>3. \A n \in 1 .. 52 : n \in CollectNodeIds(network)
  BY <1>2 DEF Fac001Without
<1>4. WiredPlaces \subseteq 1 .. 52
  BY DEF WiredPlaces
<1>5. ASSUME NEW n \in WiredPlaces
      PROVE  /\ results[n].state = "DE_ENERGIZED" <=>
                   \/ n = 2 /\ variant # "utility_loss"
                   \/ n = 45 /\ variant = "tx1_out"
                   \/ n = 48 /\ variant = "utility_loss"
             /\ results[n].state = "INDETERMINATE" <=>
                   n \in DoubtfulPlaces /\ variant = "unknown_switch"
  <2>1. n \in CollectNodeIds(network)
    BY <1>3, <1>4
  <2>2. /\ results[n].state = "DE_ENERGIZED" <=> n \notin Lit(network, Possible)
        /\ results[n].state = "INDETERMINATE" <=>
             n \in Lit(network, Possible) /\ n \notin Lit(network, Definite)
    BY <1>1, <2>1, SaidIs
  <2> QED
    BY <1>2, <2>2, Fac001Fed
<1>6. ASSUME NEW n \in 1 .. 52, results[n].state \in EnergizedStates
      PROVE  /\ Shown(network, n, results[n])
             /\ \E s \in Preferred(Feeding(network, Definite, n)) :
                  results[n].state = StateForSourceType(s.type) /\ results[n].source = s.node
  <2>1. n \in DOMAIN results /\ n \in Lit(network, Definite)
    BY <1>1, <1>3, <1>6, SaidIs
  <2>2. results[n].state # "DE_ENERGIZED"
    BY <1>6 DEF EnergizedStates
  <2>3. Shown(network, n, results[n])
    BY <1>1, <2>1, <2>2 DEF SolverInv, ShownInv
  <2> QED
    BY <1>1, <1>3, <2>1, <2>3, SaidIs
<1>7. ASSUME NEW n \in 1 .. 52, Feeding(network, Definite, n) # {}
      PROVE  results[n].state \in EnergizedStates
  <2>1. n \in CollectNodeIds(network) /\ n \in Lit(network, Definite)
    BY <1>3, <1>7 DEF Lit
  <2> QED
    BY <1>1, <2>1, SaidIs
<1> QED
  BY <1>2, <1>5, <1>6, <1>7

(* The dead and the doubtful of every variant.                              *)
LEMMA DeadAndDoubtful ==
  ASSUME StudyInv, facility = "FAC-001", IsSolved("whole")
  PROVE  /\ InState({"DE_ENERGIZED"}) =
              CASE variant = "tx1_out"      -> {"ATS-001", "TX-001"}
                [] variant = "utility_loss" -> {"UTIL-001"}
                [] OTHER                    -> {"ATS-001"}
         /\ InState({"INDETERMINATE"}) = IF variant = "unknown_switch" THEN Mcc003Branch ELSE {}
<1>1. /\ variant \in Variants /\ Names = NodeIds /\ Wired = WiredPlaces
      /\ \A n \in WiredPlaces :
              /\ results[n].state = "DE_ENERGIZED" <=>
                   \/ n = 2 /\ variant # "utility_loss"
                   \/ n = 45 /\ variant = "tx1_out"
                   \/ n = 48 /\ variant = "utility_loss"
              /\ results[n].state = "INDETERMINATE" <=>
                   n \in DoubtfulPlaces /\ variant = "unknown_switch"
  BY VariantSolved
<1>2. PICK D : D = {n \in Wired : results[n].state \in {"DE_ENERGIZED"}}
  OBVIOUS
<1>3. PICK U : U = {n \in Wired : results[n].state \in {"INDETERMINATE"}}
  OBVIOUS
<1>4. /\ InState({"DE_ENERGIZED"}) = {NodeIds[n] : n \in D}
      /\ InState({"INDETERMINATE"}) = {NodeIds[n] : n \in U}
  BY <1>1, <1>2, <1>3 DEF InState, Named
<1>5. /\ 2 \in WiredPlaces /\ 45 \in WiredPlaces /\ 48 \in WiredPlaces
      /\ DoubtfulPlaces \subseteq WiredPlaces
  BY DEF WiredPlaces, DoubtfulPlaces
<1>6. \A n : n \in D <=> \/ n = 2 /\ variant # "utility_loss"
                         \/ n = 45 /\ variant = "tx1_out"
                         \/ n = 48 /\ variant = "utility_loss"
  BY <1>1, <1>2, <1>5
<1>7. \A n : n \in U <=> n \in DoubtfulPlaces /\ variant = "unknown_switch"
  BY <1>1, <1>3, <1>5
<1>8. InState({"DE_ENERGIZED"}) =
        CASE variant = "tx1_out"      -> {"ATS-001", "TX-001"}
          [] variant = "utility_loss" -> {"UTIL-001"}
          [] OTHER                    -> {"ATS-001"}
  <2>1. CASE variant = "tx1_out"
    <3>1. D = {2, 45}
      BY <1>6, <2>1
    <3> QED
      BY <1>4, <2>1, <3>1, DescribedIds
  <2>2. CASE variant = "utility_loss"
    <3>1. D = {48}
      BY <1>6, <2>2
    <3> QED
      BY <1>4, <2>2, <3>1, DescribedIds
  <2>3. CASE variant # "tx1_out" /\ variant # "utility_loss"
    <3>1. D = {2}
      BY <1>6, <2>3
    <3> QED
      BY <1>4, <2>3, <3>1, DescribedIds
  <2> QED
    BY <2>1, <2>2, <2>3
<1>9. InState({"INDETERMINATE"}) = IF variant = "unknown_switch" THEN Mcc003Branch ELSE {}
  <2>1. CASE variant = "unknown_switch"
    <3>1. U = DoubtfulPlaces
      BY <1>7, <2>1
    <3>2. {NodeIds[n] : n \in DoubtfulPlaces} = Mcc003Branch
      BY DescribedIds, SMTT(30) DEF DoubtfulPlaces, Mcc003Branch
    <3> QED
      BY <1>4, <2>1, <3>1, <3>2
  <2>2. CASE variant # "unknown_switch"
    <3>1. U = {}
      BY <1>7, <2>2
    <3> QED
      BY <1>4, <2>2, <3>1
  <2> QED
    BY <2>1, <2>2
<1> QED
  BY <1>8, <1>9

(* A node is on the path of a node just if the path visits its place.       *)
LEMMA PathOfIs ==
  ASSUME Names = NodeIds, NEW name, Shown(network, Id(name), Of(name)),
         CollectNodeIds(network) \subseteq 1 .. 52,
         Of(name).state # "INDETERMINATE", NEW n \in 1 .. 52
  PROVE  NodeIds[n] \in PathOf(name) <=> \E k \in DOMAIN Of(name).path : Of(name).path[k] = n
<1>1. PICK p : p = Of(name).path
  OBVIOUS
<1>2. p \in Seq(CollectNodeIds(network)) /\ Len(p) \in Nat /\ DOMAIN p = 1 .. Len(p)
  BY <1>1, ShownPath
<1>3. PICK X : X = {p[k] : k \in DOMAIN p}
  OBVIOUS
<1>4. \A k \in DOMAIN p : p[k] \in 1 .. 52
  BY <1>2, ElementOfSeq
<1>5. X \in SUBSET (1 .. 52)
  BY <1>3, <1>4
<1>6. PathOf(name) = Named(X)
  BY <1>1, <1>3 DEF PathOf
<1>7. NodeIds[n] \in Named(X) <=> n \in X
  BY <1>5, NamedIs
<1> QED
  BY <1>1, <1>3, <1>6, <1>7

(* The boards while the utility lasts.                                      *)
LEMMA BoardsOnUtility ==
  ASSUME StudyInv, facility = "FAC-001", IsSolved("whole"), variant # "utility_loss"
  PROVE  \A n \in {42, 43, 15} :
           /\ results[n].state = "ENERGIZED_PRIMARY" /\ results[n].source = 48
           /\ Shown(network, n, results[n])
<1> TAKE n \in {42, 43, 15}
<1>1. variant \in Variants /\ Fac001Without(network, variant, 0)
  BY VariantSolved
<1>2. Supply(48) \in Feeding(network, Definite, n)
  BY <1>1, UtilityFeeds
<1>3. n \in 1 .. 52
  OBVIOUS
<1>4. results[n].state \in EnergizedStates
  BY <1>2, <1>3, VariantSolved
<1>5. /\ Shown(network, n, results[n])
      /\ \E s \in Preferred(Feeding(network, Definite, n)) :
           results[n].state = StateForSourceType(s.type) /\ results[n].source = s.node
  BY <1>3, <1>4, VariantSolved
<1>6. results[n].state = StateForSourceType(Supply(48).type) /\ results[n].source = Supply(48).node
  BY <1>1, <1>2, <1>5, UtilityIsPreferred
<1>7. Supply(48).type = "UTILITY" /\ Supply(48).node = 48
  BY DEF Supply
<1> QED
  BY <1>5, <1>6, <1>7 DEF StateForSourceType

(* The states of the wired nodes with the utility lost.                     *)
LEMMA StatesWithoutUtility ==
  ASSUME StudyInv, facility = "FAC-001", IsSolved("whole"), variant = "utility_loss",
         NEW n \in WiredPlaces
  PROVE  /\ results[n].state # "ENERGIZED_PRIMARY"
         /\ results[n].state = "ENERGIZED_UPS" <=> n \in {3, 15, 47}
<1>1. Fac001Without(network, "utility_loss", 0) /\ n \in 1 .. 52
  BY VariantSolved DEF WiredPlaces
<1>2. /\ StateForSourceType(Supply(47).type) = "ENERGIZED_UPS"
      /\ StateForSourceType(Supply(16).type) = "ENERGIZED_BACKUP"
      /\ StateForSourceType(Supply(18).type) = "ENERGIZED_BACKUP"
  BY DEF Supply, StateForSourceType
<1>3. CASE results[n].state \in EnergizedStates
  <2>1. PICK s \in Preferred(Feeding(network, Definite, n)) :
          results[n].state = StateForSourceType(s.type)
    BY <1>1, <1>3, VariantSolved
  <2>2. s \in Feeding(network, Definite, n)
    BY DEF Preferred
  <2>3. CASE n \in {3, 15, 47}
    <3>1. s = Supply(47)
      BY <1>1, <2>3, UtilityLost
    <3> QED
      BY <1>2, <2>1, <2>3, <3>1
  <2>4. CASE n \notin {3, 15, 47}
    <3>1. s \in {Supply(16), Supply(18)}
      BY <1>1, <2>2, <2>4, UtilityLost
    <3> QED
      BY <1>2, <2>1, <2>4, <3>1
  <2> QED
    BY <2>3, <2>4
<1>4. CASE results[n].state \notin EnergizedStates
  <2>1. results[n].state # "DE_ENERGIZED" \/ n = 48
    BY VariantSolved
  <2>2. results[n].state # "INDETERMINATE"
    BY VariantSolved
  <2>3. n \in {3, 15, 47} => Feeding(network, Definite, n) # {}
    <3>1. Supply(47) \in Feeding(network, Definite, 47)
      BY <1>1, SupplyFeeds DEF SupplyNodes
    <3>2. Joins(network, Definite, 47, 15) /\ Joins(network, Definite, 3, 47)
      BY <1>1, Fac001Joins DEF Variants
    <3> QED
      BY <1>1, <3>1, <3>2, JoinedFeeds DEF Fac001Without
  <2>4. n \notin {3, 15, 47}
    BY <1>1, <1>4, <2>3, VariantSolved
  <2> QED
    BY <1>4, <2>4 DEF EnergizedStates
<1> QED
  BY <1>3, <1>4

(* Every variant of FAC-001 is what it is built to show.                    *)
LEMMA Described ==
  ASSUME StudyInv
  PROVE  VariantsAsDescribed
<1> SUFFICES ASSUME facility = "FAC-001", IsSolved("whole")
    PROVE
    /\ InState({"DE_ENERGIZED"}) =
         CASE variant = "tx1_out"      -> {"ATS-001", "TX-001"}
           [] variant = "utility_loss" -> {"UTIL-001"}
           [] OTHER                    -> {"ATS-001"}
    /\ InState({"INDETERMINATE"}) = IF variant = "unknown_switch" THEN Mcc003Branch ELSE {}
    /\ variant = "base" =>
         /\ "SWGR-LV-002" \notin PathOf("SWGR-LV-001")
         /\ "SWGR-LV-001" \notin PathOf("SWGR-LV-002")
    /\ variant = "tx1_out" =>
         "SWGR-LV-002" \in PathOf("SWGR-LV-001") /\ Of("SWGR-LV-001").backfed
    /\ IF variant = "utility_loss"
         THEN /\ InState({"ENERGIZED_PRIMARY"}) = {}
              /\ InState({"ENERGIZED_UPS"}) = {"UPS-001", "BATT-001", "DB-003"}
              /\ "ATS-001" \in PathOf("TX-002") /\ Of("TX-002").backfed
              /\ Of("TX-002").source = Id("GEN-001")
         ELSE \A board \in {"SWGR-LV-001", "SWGR-LV-002", "DB-003"} :
                Of(board).state = "ENERGIZED_PRIMARY"
  BY DEF VariantsAsDescribed
<1>1. /\ Names = NodeIds /\ Wired = WiredPlaces /\ variant \in Variants
      /\ Fac001Without(network, variant, 0)
      /\ CollectNodeIds(network) \subseteq 1 .. 52
  BY VariantSolved DEF Fac001Without
<1>2. /\ Id("SWGR-LV-001") = 42 /\ Id("SWGR-LV-002") = 43 /\ Id("DB-003") = 15
      /\ Id("TX-002") = 46 /\ Id("GEN-001") = 16
  BY Fac001IdsAre
<1>3. /\ Of("SWGR-LV-001") = results[42] /\ Of("SWGR-LV-002") = results[43]
      /\ Of("DB-003") = results[15] /\ Of("TX-002") = results[46]
  BY <1>2 DEF Of
<1>4. ASSUME variant = "base"
      PROVE  /\ "SWGR-LV-002" \notin PathOf("SWGR-LV-001")
             /\ "SWGR-LV-001" \notin PathOf("SWGR-LV-002")
  <2>1. \A n \in {42, 43} : /\ results[n].state # "INDETERMINATE" /\ results[n].source = 48
                            /\ Shown(network, n, results[n])
    BY <1>4, BoardsOnUtility
  <2>2. /\ \A k \in DOMAIN results[42].path : results[42].path[k] # 43
        /\ \A k \in DOMAIN results[43].path : results[43].path[k] # 42
    BY <1>1, <1>4, <2>1, OwnTransformerPath
  <2>3. NodeIds[43] \notin PathOf("SWGR-LV-001")
    <3>1. Id("SWGR-LV-001") = 42 /\ Of("SWGR-LV-001") = results[42]
      BY <1>2, <1>3
    <3>2. /\ Names = NodeIds /\ CollectNodeIds(network) \subseteq 1 .. 52
          /\ Shown(network, Id("SWGR-LV-001"), Of("SWGR-LV-001"))
          /\ Of("SWGR-LV-001").state # "INDETERMINATE"
      BY <1>1, <2>1, <3>1
    <3>3. 43 \in 1 .. 52
      OBVIOUS
    <3>4. NodeIds[43] \in PathOf("SWGR-LV-001") <=>
             \E k \in DOMAIN Of("SWGR-LV-001").path : Of("SWGR-LV-001").path[k] = 43
      BY <3>2, <3>3, PathOfIs
    <3> QED
      BY <2>2, <3>1, <3>4
  <2>4. NodeIds[42] \notin PathOf("SWGR-LV-002")
    <3>1. Id("SWGR-LV-002") = 43 /\ Of("SWGR-LV-002") = results[43]
      BY <1>2, <1>3
    <3>2. /\ Names = NodeIds /\ CollectNodeIds(network) \subseteq 1 .. 52
          /\ Shown(network, Id("SWGR-LV-002"), Of("SWGR-LV-002"))
          /\ Of("SWGR-LV-002").state # "INDETERMINATE"
      BY <1>1, <2>1, <3>1
    <3>3. 42 \in 1 .. 52
      OBVIOUS
    <3>4. NodeIds[42] \in PathOf("SWGR-LV-002") <=>
             \E k \in DOMAIN Of("SWGR-LV-002").path : Of("SWGR-LV-002").path[k] = 42
      BY <3>2, <3>3, PathOfIs
    <3> QED
      BY <2>2, <3>1, <3>4
  <2> QED
    BY <2>3, <2>4, DescribedIds
<1>5. ASSUME variant = "tx1_out"
      PROVE  "SWGR-LV-002" \in PathOf("SWGR-LV-001") /\ Of("SWGR-LV-001").backfed
  <2>1. /\ results[42].state # "INDETERMINATE" /\ results[42].source = 48
        /\ Shown(network, 42, results[42])
    BY <1>5, BoardsOnUtility
  <2>2. /\ results[42].backfed
        /\ \E k \in DOMAIN results[42].path : results[42].path[k] = 43
    BY <1>1, <1>5, <2>1, TiePath
  <2>3. NodeIds[43] \in PathOf("SWGR-LV-001")
    <3>1. Id("SWGR-LV-001") = 42 /\ Of("SWGR-LV-001") = results[42]
      BY <1>2, <1>3
    <3>2. /\ Names = NodeIds /\ CollectNodeIds(network) \subseteq 1 .. 52
          /\ Shown(network, Id("SWGR-LV-001"), Of("SWGR-LV-001"))
          /\ Of("SWGR-LV-001").state # "INDETERMINATE"
      BY <1>1, <2>1, <3>1
    <3>3. 43 \in 1 .. 52
      OBVIOUS
    <3>4. NodeIds[43] \in PathOf("SWGR-LV-001") <=>
             \E k \in DOMAIN Of("SWGR-LV-001").path : Of("SWGR-LV-001").path[k] = 43
      BY <3>2, <3>3, PathOfIs
    <3> QED
      BY <2>2, <3>1, <3>4
  <2> QED
    BY <1>3, <2>2, <2>3, DescribedIds
<1>6. ASSUME variant # "utility_loss"
      PROVE  \A board \in {"SWGR-LV-001", "SWGR-LV-002", "DB-003"} :
                Of(board).state = "ENERGIZED_PRIMARY"
  BY <1>3, <1>6, BoardsOnUtility
<1>7. ASSUME variant = "utility_loss"
      PROVE  /\ InState({"ENERGIZED_PRIMARY"}) = {}
             /\ InState({"ENERGIZED_UPS"}) = {"UPS-001", "BATT-001", "DB-003"}
  <2>1. \A n \in WiredPlaces : /\ results[n].state # "ENERGIZED_PRIMARY"
                               /\ results[n].state = "ENERGIZED_UPS" <=> n \in {3, 15, 47}
    BY <1>7, StatesWithoutUtility
  <2>2. {n \in WiredPlaces : results[n].state \in {"ENERGIZED_PRIMARY"}} = {}
    BY <2>1
  <2>3. {n \in WiredPlaces : results[n].state \in {"ENERGIZED_UPS"}} = {3, 15, 47}
    BY <2>1 DEF WiredPlaces
  <2>4. InState({"ENERGIZED_PRIMARY"}) = {}
    BY <1>1, <2>2 DEF InState, Named
  <2>5. InState({"ENERGIZED_UPS"}) = {NodeIds[n] : n \in {3, 15, 47}}
    BY <1>1, <2>3 DEF InState, Named
  <2>6. {NodeIds[n] : n \in {3, 15, 47}} = {"UPS-001", "BATT-001", "DB-003"}
    BY DescribedIds
  <2> QED
    BY <2>4, <2>5, <2>6
<1>8. ASSUME variant = "utility_loss"
      PROVE  /\ "ATS-001" \in PathOf("TX-002") /\ Of("TX-002").backfed
             /\ Of("TX-002").source = Id("GEN-001")
  <2>1. Fac001Without(network, "utility_loss", 0)
    BY <1>1, <1>8
  <2>2. results[46].state \in EnergizedStates
    <3>1. Supply(16) \in Feeding(network, Definite, 16)
      BY <2>1, SupplyFeeds DEF SupplyNodes
    <3>2. /\ Joins(network, Definite, 16, 2) /\ Joins(network, Definite, 2, 43)
          /\ Joins(network, Definite, 46, 43)
      <4>1. "utility_loss" \in Variants
        BY DEF Variants
      <4>2. 0 \notin {16, 2, 43, 46}
        OBVIOUS
      <4>3. Joins(network, Definite, 16, 2)
        BY <2>1, <4>1, <4>2, Fac001Joins, SMTT(60)
      <4>4. Joins(network, Definite, 2, 43)
        BY <2>1, <4>1, <4>2, Fac001Joins, SMTT(60)
      <4>5. Joins(network, Definite, 46, 43)
        BY <2>1, <4>1, <4>2, Fac001Joins, SMTT(60)
      <4> QED
        BY <4>3, <4>4, <4>5
    <3>3. Supply(16) \in Feeding(network, Definite, 46)
      BY <2>1, <3>1, <3>2, JoinedFeeds DEF Fac001Without
    <3> QED
      BY <3>3, VariantSolved
  <2>3. PICK s \in Preferred(Feeding(network, Definite, 46)) : results[46].source = s.node
    BY <2>2, VariantSolved
  <2>4. s = Supply(16)
    BY <2>1, UtilityLost
  <2>5. results[46].source = 16
    BY <2>3, <2>4 DEF Supply
  <2>6. Shown(network, 46, results[46]) /\ results[46].state # "INDETERMINATE"
    BY <2>2, VariantSolved DEF EnergizedStates
  <2>7. /\ results[46].backfed
        /\ \E k \in DOMAIN results[46].path : results[46].path[k] = 2
    BY <2>1, <2>5, <2>6, GeneratorPath
  <2>8. NodeIds[2] \in PathOf("TX-002")
    <3>1. Id("TX-002") = 46 /\ Of("TX-002") = results[46]
      BY <1>2, <1>3
    <3>2. /\ Names = NodeIds /\ CollectNodeIds(network) \subseteq 1 .. 52
          /\ Shown(network, Id("TX-002"), Of("TX-002")) /\ Of("TX-002").state # "INDETERMINATE"
      BY <1>1, <2>6, <3>1
    <3>3. 2 \in 1 .. 52
      OBVIOUS
    <3>4. NodeIds[2] \in PathOf("TX-002") <=>
             \E k \in DOMAIN Of("TX-002").path : Of("TX-002").path[k] = 2
      BY <3>2, <3>3, PathOfIs
    <3> QED
      BY <2>7, <3>1, <3>4
  <2> QED
    BY <1>2, <1>3, <2>5, <2>7, <2>8, DescribedIds
<1> QED
  BY <1>4, <1>5, <1>6, <1>7, <1>8, DeadAndDoubtful

(* Every variant of FAC-001 is solved to what switching.py describes: property *)
(* VariantsAsDescribed, in whatever order the solver takes its sources, nodes *)
(* and edges.                                                               *)
THEOREM VariantsAsDescribedAlways == StudySpec => []VariantsAsDescribed
BY StudyInvariant, Described, PTL

=============================================================================
