--------------------------- MODULE MCResourceServer ---------------------------
(* Small instances of ResourceServer for TLC. *)
EXTENDS ResourceServer, TLC

CONSTANTS t1, i1, i2, i3, i6, k1, k2, f1, f2, page, tool, other

\* All invocations carry transaction t1.  The HTTP requests i1 and i2 differ in
\* their bodies only, and so does the safe i5; the call i3 of a tool carries
\* another payload; i6 shows the payload of i1 to another route.
Txs == [i \in Invocation |-> t1]
Keys == [i \in Invocation |-> IF i = i3 THEN k2 ELSE k1]
Fps == [i \in Invocation |-> IF i = i3 THEN f2 ELSE f1]
Names == [i \in Invocation |-> IF i = i3 THEN tool ELSE page]
Protects == [i \in Invocation |-> IF i = i6 THEN other ELSE Names[i]]

Tickets == [t \in Tx |-> t]
NoneBefore == [t \in Tx |-> {}]
Last == [t \in Tx |-> 2]

Symmetry == Permutations(Request)
=============================================================================
