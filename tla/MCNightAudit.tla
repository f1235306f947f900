---------------------------- MODULE MCNightAudit ----------------------------
(* NightAudit on a small instance: a slow or dead call and the one that     *)
(* takes its row over.  No symmetry, because liveness is checked;           *)
(* NightAuditProofs has the safety part for any number of calls and faults. *)
EXTENDS NightAudit, TLC
=============================================================================
