---------------------------- MODULE MCPayerJournal ----------------------------
(* Small instances of PayerJournal for TLC. *)
EXTENDS PayerJournal
=============================================================================
