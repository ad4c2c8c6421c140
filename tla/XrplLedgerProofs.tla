--------------------------- MODULE XrplLedgerProofs ---------------------------
(***************************************************************************)
(* Facts about the ledger that the proofs of its users share.              *)
(***************************************************************************)
EXTENDS XrplLedger, TLAPS

\* A validated transaction's slot is used.
SlotsSpent == \A t \in Tx : result[t] # "none" => SlotOf[t] \in used

\* Closing a ledger and relaying a transaction keep the ledger's types.
LEMMA LedgerStepType ==
    ASSUME LedgerTypeOK, CloseLedger \/ \E t \in Tx : Broadcast(t)
    PROVE  LedgerTypeOK'
BY LedgerAssumption DEF LedgerTypeOK, CloseLedger, Broadcast, Outcome

\* A closing ledger changes no outcome that is settled: the slot of a
\* validated transaction is spent, and an expired one cannot be included.
LEMMA CloseLedgerStable ==
    ASSUME LedgerTypeOK, SlotsSpent, CloseLedger
    PROVE  /\ SlotsSpent'
           /\ \A t \in Tx : Settled(t) => Settled(t)' /\ result'[t] = result[t]
<1>1. PICK U \in SUBSET (Slot \ used), S \in SUBSET network :
         /\ \A t \in S : SlotOf[t] \in U /\ ledger < LastLedger[t]
         /\ used' = used \union U
         /\ \E out \in [S -> Outcome] :
               result' = [t \in Tx |-> IF t \in S THEN out[t] ELSE result[t]]
  BY DEF CloseLedger
<1>2. \A t \in Tx : t \notin S => result'[t] = result[t]
  BY <1>1
<1>3. \A t \in S : t \in Tx /\ ~ Settled(t) /\ SlotOf[t] \in used'
  BY <1>1, LedgerAssumption DEF Settled, SlotsSpent, LedgerTypeOK
<1>4. ledger' = ledger + 1 /\ ledger \in Nat
  BY DEF CloseLedger, LedgerTypeOK
<1>5. SlotsSpent'
  BY <1>1, <1>2, <1>3 DEF SlotsSpent
<1>6. \A t \in Tx : Settled(t) => Settled(t)' /\ result'[t] = result[t]
  BY <1>2, <1>3, <1>4, LedgerAssumption DEF Settled
<1> QED BY <1>5, <1>6
=============================================================================
