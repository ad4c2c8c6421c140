-------------------------- MODULE SettlementContract --------------------------
(***************************************************************************)
(* What the settlement service promises, without workers, store or RPC.    *)
(* Each signed transaction serves at most one payment request; every       *)
(* verdict ever returned about it is for that request, there is only one,  *)
(* and it agrees with the ledger for good: "validated" is said only of a   *)
(* delivered payment, "failed" only of one that will never be delivered.   *)
(***************************************************************************)
CONSTANTS Tx, Fp

VARIABLES
    binding,   \* the request each transaction serves, as a set of at most one
    verdict,   \* the verdict returned about each transaction, likewise
    paid       \* the transactions whose payment the ledger delivered

vars == <<binding, verdict, paid>>

Init ==
    /\ binding = [t \in Tx |-> {}]
    /\ verdict = [t \in Tx |-> {}]
    /\ paid = {}

Bind(t, f) ==
    /\ binding[t] = {}
    /\ binding' = [binding EXCEPT ![t] = {f}]
    /\ UNCHANGED <<verdict, paid>>

Answer(t, f, s) ==
    /\ f \in binding[t]
    /\ s = (IF t \in paid THEN "validated" ELSE "failed")
    /\ verdict[t] = {}
    /\ verdict' = [verdict EXCEPT ![t] = {[fp |-> f, status |-> s]}]
    /\ UNCHANGED <<binding, paid>>

\* The ledger delivers payments, none of which was called failed.
Pay(S) ==
    /\ \A t \in S : verdict[t] = {}
    /\ paid' = paid \union S
    /\ UNCHANGED <<binding, verdict>>

Next ==
    \/ \E t \in Tx, f \in Fp : Bind(t, f)
    \/ \E t \in Tx, f \in Fp, s \in {"validated", "failed"} : Answer(t, f, s)
    \/ \E S \in SUBSET Tx : Pay(S)

Spec == Init /\ [][Next]_vars
=============================================================================
