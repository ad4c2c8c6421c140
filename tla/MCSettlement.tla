----------------------------- MODULE MCSettlement -----------------------------
(* Small instances of Settlement for TLC. *)
EXTENDS Settlement, TLC

CONSTANTS t1, t2, s0, s1, f2

\* Two transactions of one payer compete for slot s1: t1 spends it as a
\* ticket, t2 as the sequence number that follows s0.
RivalSlot == [t \in Tx |-> s1]
TicketAndSequence == [t \in Tx |-> IF t = t1 THEN {} ELSE {s0}]
NoneBefore == [t \in Tx |-> {}]

\* t2 is over one ledger before t1, so that it may be reserved too late.
Last == [t \in Tx |-> IF t = t2 THEN 1 ELSE 2]
SoonLast == [t \in Tx |-> 1]

AllAcceptable == Tx \X Fp
\* t2 does not pay what f2 asks for.
MostAcceptable == AllAcceptable \ {<<t2, f2>>}
\* The requests allow different timeouts: f2 is too short for LastLedger 2
\* at ledger 0.
Windows == [f \in Fp |-> IF f = f2 THEN 1 ELSE 2]

\* Workers differ only in their names; used where no liveness is checked.
Symmetry == Permutations(Worker)
=============================================================================
