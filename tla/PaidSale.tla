------------------------------- MODULE PaidSale -------------------------------
(***************************************************************************)
(* What a merchant promises about its paid routes and tools, without       *)
(* requests, identifiers, response store and facilitator.  An unsafe       *)
(* handler runs once for an invocation, protected bytes are sold only for  *)
(* a delivered payment and, if the handler is unsafe, after its run, and   *)
(* one transaction buys one resource, and one unsafe invocation of it.     *)
(***************************************************************************)
CONSTANTS
    Tx,           \* signed transactions
    Invocation,   \* what is requested with which payment
    Unsafe,       \* the invocations that must not be repeated
    TxOf,         \* the transaction that pays for an invocation
    ResourceOf    \* the resource it asks for

VARIABLES
    paid,   \* the transactions whose payment the ledger delivered
    runs,   \* how often the handler ran for each unsafe invocation
    sold    \* the invocations whose protected bytes were sent

vars == <<paid, runs, sold>>

Init ==
    /\ paid = {}
    /\ runs = [i \in Invocation |-> 0]
    /\ sold = {}

Pay(S) ==
    /\ paid' = paid \union S
    /\ UNCHANGED <<runs, sold>>

Run(i) ==
    /\ i \in Unsafe /\ runs[i] = 0
    /\ runs' = [runs EXCEPT ![i] = 1]
    /\ UNCHANGED <<paid, sold>>

\* The transaction has bought nothing but this resource and this invocation.
Unspent(i) ==
    \A j \in sold : TxOf[j] = TxOf[i] =>
        /\ ResourceOf[j] = ResourceOf[i]
        /\ {i, j} \subseteq Unsafe => i = j

Sell(i) ==
    /\ TxOf[i] \in paid
    /\ i \in Unsafe => runs[i] = 1
    /\ Unspent(i)
    /\ sold' = sold \union {i}
    /\ UNCHANGED <<paid, runs>>

Next ==
    \/ \E S \in SUBSET Tx : Pay(S)
    \/ \E i \in Invocation : Run(i) \/ Sell(i)

Spec == Init /\ [][Next]_vars
=============================================================================
