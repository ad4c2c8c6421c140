--------------------------- MODULE MCFacilitatorApi ---------------------------
(* Small instances of FacilitatorApi for TLC. *)
EXTENDS FacilitatorApi, TLC

CONSTANTS k1, f1, f2, f3

\* f1 and f2 reuse one identifier, f3 carries none.
Keys == [f \in Fp |-> IF f = f3 THEN NoKey ELSE k1]

OneSlot == [t \in Tx |-> CHOOSE s \in Slot : TRUE]
NoneBefore == [t \in Tx |-> {}]
SoonLast == [t \in Tx |-> 1]
AllAcceptable == Tx \X Fp
\* The transaction does not pay what f3 asks for.
MostAcceptable == Tx \X (Fp \ {f3})
\* The workers, and the two requests with an identifier, are alike.
Symmetry == Permutations(Worker) \union Permutations({f1, f2})
Windows == [f \in Fp |-> 1]
=============================================================================
