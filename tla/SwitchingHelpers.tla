-------------------------- MODULE SwitchingHelpers --------------------------
(***************************************************************************)
(* The two analyses of packages/reference_facility/switching.py asked of   *)
(* one snapshot, as its tests ask them: first for the low-voltage islands  *)
(* (LvIslands), then whether the closed switches form a loop               *)
(* (LoopDetection).  Neither call changes the snapshot.                    *)
(***************************************************************************)
EXTENDS LoopDetection

ASSUME VoltagesAssumption ==
  \A w \in Networks :
    w.lv \subseteq w.nodes /\ w.gear \subseteq w.nodes /\ IsFiniteSet(w.lv)

VARIABLES
  starts, seen, stack, component,   \* locals of _lv_closed_components
  components                        \* what it returned

Islands == INSTANCE LvIslands

islandVars == <<starts, seen, stack, component, components>>
loopVars == <<pc, position, parent, node, root, ends, result>>

HelpersInit == LoopInit /\ Islands!Init

AskForIslands ==
  /\ Islands!Next
  /\ UNCHANGED loopVars

AskForALoop ==
  /\ Islands!Done
  /\ LoopNext
  /\ UNCHANGED islandVars

HelpersNext == AskForIslands \/ AskForALoop

HelpersSpec ==
  HelpersInit /\ [][HelpersNext]_<<vars, islandVars>>
    /\ WF_<<vars, islandVars>>(HelpersNext)

-----------------------------------------------------------------------------

\* A transformer never merges two islands (LvIslands; lv_islands and
\* lv_island_of of switching.py).
IslandsAreLvOnly == Islands!IslandsAreLvOnly

=============================================================================
