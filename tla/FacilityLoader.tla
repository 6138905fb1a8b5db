--------------------------- MODULE FacilityLoader ---------------------------
(***************************************************************************)
(* From the files of FAC-001 to a snapshot a solver can be given:          *)
(* topology_snapshot (switching.py) loads the files afresh at every call   *)
(* (loader.py), validates them as a whole (ReferenceFacility, models.py)   *)
(* and lays the switch positions of a variant over the edges.  Between     *)
(* calls the files may be edited.                                          *)
(*                                                                         *)
(* Of a node record only its id and the presence of a rating and a         *)
(* criticality are kept; annotations, ratings and impedances are not.      *)
(* Whether some record holds a value its own model refuses is one flag.    *)
(***************************************************************************)
EXTENDS Fac001, FiniteSets

CONSTANTS
  Handled,    \* the names an edit may touch or put in the place of another
  MaxEdits,   \* how often the files are edited
  NoSnapshot  \* no call has built a snapshot from the files as they are

VARIABLES
  files,     \* facility.json, nodes.json, edges.json, sources.json, metering.json
  edits,     \* how often they were edited
  variant,   \* the variant the running or last call asks for
  step,      \* how far it has come, or how it ended
  snapshot   \* what it returned

loaderVars == <<files, edits, variant, step, snapshot>>

Idle == {"not called", "ValueError", "KeyError", "built"}

\* The facility the loader writes into every node record.
LoaderFacility == "FAC-001"

LoaderInit ==
  /\ files = [facility  |-> LoaderFacility,
              nodes     |-> [i \in DOMAIN NodeIds |-> [id |-> NodeIds[i], complete |-> TRUE]],
              edges     |-> FacilityEdges,
              sources   |-> FacilitySources,
              submeters |-> Submeters,
              gap       |-> MeteringGap,
              malformed |-> FALSE]
  /\ edits = 0
  /\ variant = "base" /\ step = "not called" /\ snapshot = NoSnapshot

-----------------------------------------------------------------------------
(* The files are edited, by hand, between two calls.                        *)

Edited(inventory) ==
  /\ step \in Idle
  /\ edits < MaxEdits
  /\ edits' = edits + 1
  /\ files' = inventory
  /\ step' = "not called" /\ snapshot' = NoSnapshot
  /\ UNCHANGED variant

Without(s, i) == [j \in 1 .. Len(s) - 1 |-> IF j < i THEN s[j] ELSE s[j + 1]]

EditNodes ==
  \E i \in {j \in DOMAIN files.nodes : files.nodes[j].id \in Handled} :
    \/ Edited([files EXCEPT !.nodes = Without(@, i)])
    \/ Edited([files EXCEPT !.nodes = Append(@, @[i])])
    \/ Edited([files EXCEPT !.nodes[i].complete = FALSE])

EditEdges ==
  \E i \in {j \in DOMAIN files.edges : files.edges[j].id \in Handled}, name \in Handled :
    \/ Edited([files EXCEPT !.edges[i].id = name])
    \/ Edited([files EXCEPT !.edges[i].from = name])
    \/ Edited([files EXCEPT !.edges[i].to = name])
    \/ Edited([files EXCEPT !.edges[i].device = {name}])

EditPlans ==
  \E name \in Handled :
    \/ Edited([files EXCEPT !.facility = name])
    \/ Edited([files EXCEPT !.gap = name])
    \/ Edited([files EXCEPT !.submeters[1].meter = name])
    \/ Edited([files EXCEPT !.submeters[1].measures = name])
    \/ Edited([files EXCEPT !.sources[1].node = name])

\* A value is put into some record that its own model refuses, such as an empty
\* id, an unknown asset type or switch state, or a field the model forbids.
EditValues ==
  ~files.malformed /\ Edited([files EXCEPT !.malformed = TRUE])

-----------------------------------------------------------------------------
(* topology_snapshot.                                                       *)

Call(name) ==
  /\ step \in Idle
  /\ variant' = name
  /\ step' = IF name \in Variants THEN "reading" ELSE "ValueError"
  /\ snapshot' = NoSnapshot
  /\ UNCHANGED <<files, edits>>

\* load_reference_facility builds record after record: a field a node lacks is a
\* KeyError of _build_node, a value a model refuses pydantic's ValidationError, a
\* ValueError.  Whichever comes first in the files ends the call.
BuildNodes ==
  /\ step = "reading"
  /\ LET lacking == {i \in DOMAIN files.nodes : ~files.nodes[i].complete}
         raised  == {"KeyError" : i \in lacking}
                      \cup (IF files.malformed THEN {"ValueError"} ELSE {})
     IN  IF raised = {} THEN step' = "validating" ELSE step' \in raised
  /\ UNCHANGED <<files, edits, variant, snapshot>>

Ids == {node.id : node \in Range(files.nodes)}

MeteredNodeIds == {m.measures : m \in Range(files.submeters)}

EdgeResolvesByItsEnds(e) == {e.from, e.to} \subseteq Ids

EdgeResolves(e) == {e.from, e.to} \cup e.device \subseteq Ids

\* _check_referential_integrity.
Validate ==
  /\ step = "validating"
  /\ step' =
       IF /\ Cardinality(Ids) = Len(files.nodes)
          /\ Ids # {} => files.facility = LoaderFacility
          /\ \A e \in Range(files.edges) : EdgeResolves(e)
          /\ \A s \in Range(files.sources) : s.node \in Ids
          /\ \A m \in Range(files.submeters) : {m.meter, m.measures} \subseteq Ids
          /\ files.gap \in Ids
          /\ files.gap \notin MeteredNodeIds
         THEN "applying" ELSE "ValueError"
  /\ UNCHANGED <<files, edits, variant, snapshot>>

UnknownIdsUnchecked == {}

\* The overridden ids no edge bears.
UnknownIds == Overridden(variant) \ {e.id : e \in Range(files.edges)}

ApplySwitchStates ==
  /\ step = "applying"
  /\ IF UnknownIds # {}
       THEN step' = "KeyError" /\ UNCHANGED snapshot
       ELSE /\ step' = "built"
            /\ snapshot' =
                 [nodes   |-> Ids,
                  edges   |-> [i \in DOMAIN files.edges |->
                                 [files.edges[i] EXCEPT !.sw = Applied(variant, files.edges[i])]],
                  sources |-> VariantSources(variant, files.sources)]
  /\ UNCHANGED <<files, edits, variant>>

LoaderNext ==
  \/ EditNodes \/ EditEdges \/ EditPlans \/ EditValues
  \/ \E name \in Variants \cup {"islanded"} : Call(name)
  \/ BuildNodes
  \/ Validate
  \/ ApplySwitchStates

LoaderSpec == LoaderInit /\ [][LoaderNext]_loaderVars

-----------------------------------------------------------------------------
(* Properties.                                                              *)

\* The vocabulary of the solver, over names.
Solver == INSTANCE Network WITH NodeId <- Range(NodeIds) \cup Handled, NoNode <- NoSnapshot

\* However the files were edited, a snapshot that is returned is one its users
\* can rely on.  The solver will report on the listed nodes and no others; each
\* bears its id alone, every switching device of an edge among them; the branch
\* left without a meter can be looked up and is unmetered; and the variant is in
\* force as a whole: each position it gives is that of some edge, and no edge is
\* in another position than the variant or the files give it (models.py:61-68,
\* loader.py:80-83, switching.py:174-186).
ASnapshotIsClosedAndWhole ==
  step = "built" =>
    /\ Solver!CollectNodeIds(snapshot) = snapshot.nodes
    /\ \A i, j \in DOMAIN files.nodes : files.nodes[i].id = files.nodes[j].id => i = j
    /\ \A e \in Range(snapshot.edges) : e.device \subseteq snapshot.nodes
    /\ files.gap \in snapshot.nodes
    /\ ~\E m \in Range(files.submeters) : m.measures = files.gap
    /\ \A state \in DOMAIN Overrides(variant) : \A id \in Overrides(variant)[state] :
         \E e \in Range(snapshot.edges) : e.id = id /\ e.sw = state
    /\ \A i \in DOMAIN files.edges :
         LET was == files.edges[i]
             is  == snapshot.edges[i]
         IN  [is EXCEPT !.sw = was.sw] = was
               /\ (is.sw # was.sw => was.id \in Overrides(variant)[is.sw])

=============================================================================
