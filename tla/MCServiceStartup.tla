-------------------------- MODULE MCServiceStartup --------------------------
(***************************************************************************)
(* Both deployment profiles.                                               *)
(***************************************************************************)
EXTENDS ServiceStartup

=============================================================================
