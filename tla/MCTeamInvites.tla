---------------------------- MODULE MCTeamInvites ----------------------------
(* TeamInvites for TLC: an owner and a guest; the concurrent requests are  *)
(* interchangeable.                                                        *)
EXTENDS TeamInvites, TLC

Symmetric == Permutations(Requests)
=============================================================================
