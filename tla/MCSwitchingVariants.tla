------------------------- MODULE MCSwitchingVariants -------------------------
(***************************************************************************)
(* Every variant of both facilities, a name neither knows, and the loss of *)
(* every node of either.  The files of FAC-001 as they are, and with two   *)
(* edits around the bus tie, the transfer path and the metering gap, by    *)
(* names of nodes, of edges, and of nothing at all.                        *)
(***************************************************************************)
EXTENDS SwitchingVariants

MCRefAsked == {"base", "gen_backup", "tie_alt", "islanded"}

MCHandled == {"ATS-001", "MCC-003", "CB-TIE-001", "E-TIE", "E-LV2-UPS", "nothing"}

MCLosses == Range(NodeIds) \cup Range(RefIds)

=============================================================================
