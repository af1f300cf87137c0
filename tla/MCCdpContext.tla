---------------------------- MODULE MCCdpContext ----------------------------
(* CdpContext for TLC.  Platforms, calls and contexts are interchangeable. *)
EXTENDS CdpContext, TLC

Symmetry == Permutations(Platforms) \cup Permutations(Calls) \cup Permutations(Ctxs)
=============================================================================
