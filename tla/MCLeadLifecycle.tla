-------------------------- MODULE MCLeadLifecycle --------------------------
(***************************************************************************)
(* TLC instance of LeadLifecycle.                                          *)
(***************************************************************************)
EXTENDS LeadLifecycle, TLC

LeadSymmetry == Permutations(Visits)
=============================================================================
