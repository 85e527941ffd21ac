---------------------------- MODULE MCAuditFetch ----------------------------
(***************************************************************************)
(* TLC instance of AuditFetch: one name, one address of either kind.       *)
(***************************************************************************)
EXTENDS AuditFetch
=============================================================================
