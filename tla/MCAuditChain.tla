---------------------------- MODULE MCAuditChain ----------------------------
(***************************************************************************)
(* Two callers, chains of up to four records, up to two changes to them.   *)
(* Callers are interchangeable, and so are contents.                       *)
(***************************************************************************)
EXTENDS AuditChain, TLC

Symmetries == Permutations(Caller) \cup Permutations(Content)

=============================================================================
