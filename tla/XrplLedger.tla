------------------------------ MODULE XrplLedger ------------------------------
(***************************************************************************)
(* The XRP Ledger as the facilitator sees it through JSON-RPC.  The ledger *)
(* itself is external: it is modelled by what the facilitator's requests   *)
(* (Ledger, AccountInfo, AccountObjects, SubmitOnly, Tx) can observe.      *)
(*                                                                         *)
(* A signed transaction spends one "slot" of the payer's account: its      *)
(* sequence number, or a ticket.  A sequence number is current once every  *)
(* earlier one is used; a ticket has nothing before it.  A slot is used at *)
(* most once, and a transaction never validates after its                  *)
(* LastLedgerSequence.                                                     *)
(***************************************************************************)
EXTENDS Naturals

CONSTANTS
    Tx,           \* signed transactions, identified by their hash
    Slot,         \* sequence numbers and tickets of the paying accounts
    SlotOf,       \* the slot each transaction spends
    Before,       \* the slots that must be used before a transaction is current
    LastLedger,   \* LastLedgerSequence of each transaction
    MaxLedger     \* bound on the validated ledger index (model bound)

ASSUME LedgerAssumption ==
    /\ SlotOf \in [Tx -> Slot]
    /\ Before \in [Tx -> SUBSET Slot]
    /\ LastLedger \in [Tx -> Nat]
    /\ MaxLedger \in Nat

VARIABLES
    ledger,   \* index of the newest validated ledger
    used,     \* slots consumed by validated transactions
    result,   \* what each transaction did in a validated ledger
    network   \* transactions some server has relayed, candidates for a ledger

ledgerVars == <<ledger, used, result, network>>

\* "delivered": tesSUCCESS with exactly the required amount in
\* delivered_amount; "short": tesSUCCESS with any other delivered_amount
\* (missing and "unavailable" included); "tec": a validated failure.
Outcome == {"delivered", "short", "tec"}

LedgerTypeOK ==
    /\ ledger \in Nat
    /\ used \in SUBSET Slot
    /\ result \in [Tx -> Outcome \union {"none"}]
    /\ network \in SUBSET Tx

LedgerInit ==
    /\ ledger = 0
    /\ used = {}
    /\ result = [t \in Tx |-> "none"]
    /\ network = {}

\* What AccountInfo / AccountObjects on the validated ledger say of the slot.
Available(t) == SlotOf[t] \notin used /\ Before[t] \subseteq used

\* A ledger closes over a set S of relayed transactions, while other
\* transactions of the same accounts may use further slots U.
CloseLedger ==
    /\ ledger < MaxLedger
    /\ \E U \in SUBSET (Slot \ used), S \in SUBSET network :
          /\ \A t \in S : /\ SlotOf[t] \in U
                          /\ Before[t] \subseteq used \union U
                          /\ ledger < LastLedger[t]
          /\ \A t, u \in S : SlotOf[t] = SlotOf[u] => t = u
          /\ used' = used \union U
          /\ \E out \in [S -> Outcome] :
                result' = [t \in Tx |-> IF t \in S THEN out[t] ELSE result[t]]
    /\ ledger' = ledger + 1
    /\ UNCHANGED network

\* Anyone who holds the signed blob may relay it: the payer itself, another
\* facilitator, or a submission that was delayed on its way.
Broadcast(t) ==
    /\ t \notin network
    /\ network' = network \union {t}
    /\ UNCHANGED <<ledger, used, result>>

\* No transaction of this hash can be validated with another outcome than
\* the one it already has.
Settled(t) == result[t] # "none" \/ ledger >= LastLedger[t]

\* What a Tx request for the hash can be answered, with min_ledger low and
\* max_ledger LastLedger[t].  A range that ends before it begins is an error,
\* whatever became of the transaction.  A server that cannot answer raises or
\* reports another error; txnNotFound comes with searched_all only from a
\* server holding every ledger of the requested range, so not before
\* LastLedgerSequence has been validated.
ValidRange(t, low) == low <= LastLedger[t]
TxAnswers(t, low) ==
    {"error"} \union
    (IF ~ ValidRange(t, low) THEN {}
     ELSE {"txnNotFound", "unvalidated"} \union
          (IF result[t] # "none" THEN {result[t]}
           ELSE IF ledger >= LastLedger[t] THEN {"txnNotFound_searched_all"}
           ELSE {}))
=============================================================================
