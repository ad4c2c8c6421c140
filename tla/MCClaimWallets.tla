---------------------------- MODULE MCClaimWallets ----------------------------
(* The claim wallets of both top-up commands, for TLC. *)
EXTENDS ClaimWallets
=============================================================================
