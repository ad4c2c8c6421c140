---------------------------- MODULE MCRlusdFunding ----------------------------
(* The instances of RlusdFunding for TLC are in the configurations. *)
EXTENDS RlusdFunding
=============================================================================
