---------------------------- MODULE MCCdpManager ----------------------------
(* CdpManager for TLC: the bounds are given in the .cfg files. *)
EXTENDS CdpManager
=============================================================================
