--------------------------- MODULE SettlementStore ---------------------------
(***************************************************************************)
(* One record of the settlement store (replay_store.py): what is kept in   *)
(* Redis under facilitator:settlement:<hash>, and the atomic operations on *)
(* it.  get is a plain read; reserve is SET NX; update is the monotonic    *)
(* Lua script.  A pending record has no TTL; a terminal one has one.       *)
(***************************************************************************)
EXTENDS Naturals

CONSTANTS
    Fp,     \* fingerprints of payment requests (requirements_fingerprint)
    NoFp    \* the fingerprint field of an absent record

ASSUME NoFpAssumption == NoFp \notin Fp

Terminal == {"failed", "validated"}
Status == {"pending"} \union Terminal

\* first: first_ledger_sequence, where the Tx requests for the hash begin.
Record == [status : Status, fp : Fp, first : Nat]
NoRecord == [status |-> "absent", fp |-> NoFp, first |-> 0]

Rank(s) == CASE s = "pending" -> 0 [] s = "failed" -> 1 [] s = "validated" -> 2

\* Mutants: SET without NX; the script writes a missing key; every record is
\* stored with EX.
ReserveAlways(current) == TRUE
UpdatedUnguarded(current, candidate) ==
    IF current = NoRecord THEN candidate
    ELSE IF Rank(candidate.status) > Rank(current.status) THEN candidate
    ELSE current
TtlOnEveryRecord(current) == current # NoRecord

\* SET NX succeeds only on an absent key.
CanReserve(current) == current = NoRecord

\* What the Lua script leaves in the key.
Updated(current, candidate) ==
    IF /\ current # NoRecord
       /\ \/ current.status = "pending" /\ candidate.status = "pending"
          \/ Rank(candidate.status) > Rank(current.status)
    THEN candidate
    ELSE current

\* Redis may drop a key only if it was stored with a TTL.
HasTtl(current) == current # NoRecord /\ current.status # "pending"
=============================================================================
