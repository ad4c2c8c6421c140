-------------------------- MODULE RlusdFundingProofs --------------------------
(***************************************************************************)
(* Proofs about RlusdFunding, for any target, window, number of            *)
(* transactions and ledgers, with a kill at any step.                      *)
(***************************************************************************)
EXTENDS RlusdFunding, TLAPS

(***************************************************************************)
(* The inductive invariant                                                 *)
(***************************************************************************)

\* Steps that go on to a new transaction, and those that prepare one.
Free == {"balance", "xrp", "faucet", "faucetWait", "trust", "need", "quote", "prepare",
         "simulate", "journal"}
Drafting == {"quote", "prepare", "simulate", "journal"}

\* Nothing is pending where a new transaction is made.
PendingPlace == /\ pc = "query" => pending # NoTx
                /\ pc \in Free => pending = NoTx

\* The draft fits the balance of the moment, which nothing changes meanwhile,
\* unless the balance was not read.
DraftFits ==
    pc \in Drafting =>
        draft \in Draft /\ (draft.blind \/ rlusd + draft.amount <= Target + excess)

\* What is pending or relayed was signed, and what took effect used a sequence
\* number of the account.
KnownIsSigned == network \subseteq Signed /\ (pending # NoTx => pending \in Signed)
OutcomeUsed ==
    \A i \in TxId : outcome[i] # "none" => i \in Signed /\ txs[i].seq < sequence

\* The pending transaction fits the balance for as long as it can take effect.
PendingFits ==
    pending # NoTx /\ Open(pending) =>
        txs[pending].blind \/ rlusd + txs[pending].amount <= Target + excess

\* A reported absence is final.
AbsentIsFinal ==
    absent => pc = "expiry" /\ outcome[pending] = "none" /\ txs[pending].last <= ledger

CompletedTrue == \A i \in completed : outcome[i] = "success"

FundingInv ==
    /\ TypeOK /\ PendingPlace /\ DraftFits /\ KnownIsSigned /\ OutcomeUsed /\ OpenIsJournaled
    /\ PendingFits /\ AbsentIsFinal /\ CompletedTrue /\ CompletedIsExact /\ NeverOverfunded

\* The faucet's part: no request without an attempt in the file.
FaucetInv ==
    /\ asked \in 0 .. 1
    /\ ~ recent => asked = 0
    /\ pc = "faucet" => asked = 0 /\ recent

\* The transactions and what they did, as far as the types go.
LedgerTypes ==
    /\ ledger \in Nat /\ sequence \in Nat /\ rlusd \in Nat /\ excess \in Nat
    /\ txs \in [TxId -> Draft \union {NoDraft}]
    /\ outcome \in [TxId -> {"none", "success", "tec"}]

\* A draft has what every transaction has.
LEMMA DraftFields ==
    ASSUME NEW d \in Draft \union {NoDraft}
    PROVE  d.amount \in 0 .. Target /\ d.seq \in Nat /\ d.last \in Nat /\ d.blind \in BOOLEAN
<1>1. CASE d \in Draft
  BY <1>1 DEF Draft
<1>2. CASE d = NoDraft
  BY <1>2, FundingAssumption DEF NoDraft
<1> QED BY <1>1, <1>2

\* autofill changes the sequence number and the last ledger only.
LEMMA Autofilled ==
    ASSUME NEW d \in Draft, NEW m \in Nat, NEW n \in Nat
    PROVE  /\ [d EXCEPT !.seq = m, !.last = n] \in Draft
           /\ [d EXCEPT !.seq = m, !.last = n].amount = d.amount
           /\ [d EXCEPT !.seq = m, !.last = n].blind = d.blind
BY DEF Draft

\* A step of the run that leaves the journal and the ledger alone.
LEMMA PlainStep ==
    ASSUME FundingInv, TypeOK',
           UNCHANGED <<pending, completed, ledger, sequence, rlusd, excess, outcome, txs, network>>,
           PendingPlace', DraftFits', absent' \in BOOLEAN,
           absent' => absent /\ pc' = pc
    PROVE  FundingInv'
<1>1. CompletedTrue' /\ CompletedIsExact' /\ NeverOverfunded' /\ OutcomeUsed' /\ KnownIsSigned'
  BY DEF FundingInv, CompletedTrue, CompletedIsExact, NeverOverfunded, OutcomeUsed,
     KnownIsSigned, Signed
<1>2. OpenIsJournaled' /\ PendingFits'
  BY DEF FundingInv, OpenIsJournaled, PendingFits, Open
<1>3. AbsentIsFinal'
  BY DEF FundingInv, AbsentIsFinal
<1> QED BY <1>1, <1>2, <1>3 DEF FundingInv

\* The steps of the run that only read, decide or ask the faucet.
LEMMA ReadStep ==
    ASSUME FundingInv,
           \/ Start \/ Prepare \/ Simulate \/ Balance \/ EnsureXrp \/ RequestXrp \/ AwaitXrp
           \/ EnsureTrustline \/ ReadNeed \/ Quote \/ Stop \/ FaucetPays \/ DelayOver
    PROVE  FundingInv'
<1>1. /\ UNCHANGED <<pending, completed, ledger, sequence, rlusd, excess, outcome, txs, network>>
  BY DEF Start, Prepare, Simulate, Balance, EnsureXrp, RequestXrp, AwaitXrp, EnsureTrustline,
     ReadNeed, Quote, Stop, FaucetPays, DelayOver, fileVars, ledgerVars
<1>2. TypeOK /\ PendingPlace /\ DraftFits /\ AbsentIsFinal /\ NeverOverfunded
  BY DEF FundingInv
<1>3. recent' \in BOOLEAN /\ trust' \in BOOLEAN /\ rich' \in BOOLEAN /\ absent' \in BOOLEAN
  BY <1>2 DEF TypeOK, Start, Prepare, Simulate, Balance, EnsureXrp, RequestXrp, AwaitXrp,
     EnsureTrustline, ReadNeed, Quote, Stop, FaucetPays, DelayOver, Exit, Attempted, fileVars,
     ledgerVars
<1>4. asked' \in 0 .. 2
  <2>1. asked \in 0 .. 2
    BY <1>2 DEF TypeOK
  <2>2. asked' \in {asked, 0} \/ RequestXrp
    BY DEF Start, Prepare, Simulate, Balance, EnsureXrp, AwaitXrp, EnsureTrustline, ReadNeed,
       Quote, Stop, FaucetPays, DelayOver
  <2> QED BY <2>1, <2>2 DEF RequestXrp
<1>5. absent' => absent /\ pc' = pc
  <2>1. pc \in PC
    BY <1>2 DEF TypeOK
  <2>2. CASE FaucetPays \/ DelayOver
    BY <2>2 DEF FaucetPays, DelayOver
  <2>3. CASE Stop
    BY <2>3 DEF Stop, Exit
  <2>4. CASE pc # "expiry" /\ (absent' = absent \/ Exit)
    BY <1>2, <2>4 DEF AbsentIsFinal, Exit
  <2> QED
    BY <2>2, <2>3, <2>4 DEF Start, Prepare, Simulate, Balance, EnsureXrp, RequestXrp, AwaitXrp,
       EnsureTrustline, ReadNeed, Quote
<1>6. /\ pc' \in PC
      /\ pc' = "query" => pending # NoTx
      /\ pc' \in Free => pending = NoTx
      /\ pc' \in {"expiry", "submit", "wait"} => pending # NoTx
  BY <1>2 DEF PC, Free, PendingPlace, TypeOK, Start, Prepare, Simulate, Balance, EnsureXrp,
     RequestXrp, AwaitXrp, EnsureTrustline, ReadNeed, Quote, Stop, FaucetPays, DelayOver, Goto,
     Exit
<1>7. draft' \in Draft \union {NoDraft} /\ DraftFits'
  <2>1. /\ rlusd \in Nat /\ ledger \in Nat /\ sequence \in Nat /\ Target \in Nat /\ Window \in Nat
        /\ draft \in Draft \union {NoDraft} /\ rlusd <= Target + excess /\ excess \in Nat
    BY <1>2, FundingAssumption DEF TypeOK, NeverOverfunded
  <2>2. CASE UNCHANGED draft /\ (pc' \in Drafting => pc \in Drafting)
    BY <1>1, <1>2, <2>1, <2>2 DEF DraftFits
  <2>3. CASE Exit
    BY <2>3 DEF Exit, DraftFits, Drafting
  <2>4. CASE Prepare
    <3>1. draft \in Draft /\ (draft.blind \/ rlusd + draft.amount <= Target + excess)
      BY <1>2, <2>4 DEF Prepare, DraftFits, Drafting
    <3>2. draft' \in Draft /\ draft'.amount = draft.amount /\ draft'.blind = draft.blind
      <4>1. ledger + Window \in Nat /\ sequence \in Nat
        BY <2>1
      <4>2. draft' = [draft EXCEPT !.seq = sequence, !.last = ledger + Window]
        BY <2>4 DEF Prepare
      <4> QED BY <3>1, <4>1, <4>2, Autofilled
    <3> QED BY <1>1, <3>1, <3>2 DEF DraftFits
  <2>5. CASE EnsureTrustline /\ draft' = [NoDraft EXCEPT !.purpose = "trustline"]
    <3>1. draft' = [purpose |-> "trustline", amount |-> 0, seq |-> 0, last |-> 0, blind |-> FALSE]
      BY <2>5 DEF NoDraft
    <3>2. draft' \in Draft /\ draft'.amount = 0
      BY <2>1, <3>1 DEF Draft
    <3> QED BY <1>1, <2>1, <3>2 DEF DraftFits
  <2>6. CASE ReadNeed
    <3>1. PICK balance \in {rlusd, 0} :
             \/ balance >= Target /\ Exit
             \/ /\ balance < Target
                /\ draft' = [NoDraft EXCEPT !.purpose = "conversion",
                                            !.amount = Needed(balance),
                                            !.blind = (balance # rlusd)]
      BY <2>6 DEF ReadNeed, Readings
    <3>2. CASE balance < Target /\ draft' = [purpose |-> "conversion", amount |-> Target - balance,
                                             seq |-> 0, last |-> 0, blind |-> (balance # rlusd)]
      <4>1. /\ draft' \in Draft /\ draft'.amount = Target - balance
            /\ draft'.blind = (balance # rlusd)
        BY <2>1, <3>1, <3>2 DEF Draft
      <4>2. draft'.blind \/ rlusd + draft'.amount <= Target + excess
        <5>1. CASE balance = rlusd
          BY <2>1, <3>2, <4>1, <5>1
        <5>2. CASE balance # rlusd
          BY <4>1, <5>2
        <5> QED BY <5>1, <5>2
      <4> QED BY <1>1, <4>1, <4>2 DEF DraftFits
    <3> QED BY <2>3, <3>1, <3>2 DEF NoDraft, Needed
  <2> QED
    BY <2>1, <2>2, <2>3, <2>4, <2>5, <2>6 DEF Start, Simulate, Balance, EnsureXrp, RequestXrp, AwaitXrp,
       EnsureTrustline, ReadNeed, Quote, Stop, FaucetPays, DelayOver, Goto, Drafting
<1>8. TypeOK'
  <2>1. /\ pending' \in TxId \union {NoTx} /\ completed' \subseteq TxId
        /\ ledger' \in Nat /\ sequence' \in Nat /\ rlusd' \in Nat /\ excess' \in Nat
        /\ txs' \in [TxId -> Draft \union {NoDraft}]
        /\ outcome' \in [TxId -> {"none", "success", "tec"}] /\ network' \subseteq TxId
    BY <1>1, <1>2 DEF TypeOK
  <2> QED BY <1>1, <1>3, <1>4, <1>6, <1>7, <2>1 DEF TypeOK
<1>9. PendingPlace'
  BY <1>1, <1>6 DEF PendingPlace
<1> QED BY <1>1, <1>3, <1>5, <1>7, <1>8, <1>9, PlainStep

\* A pending transaction that can no longer take effect leaves the journal.
LEMMA ClearStep ==
    ASSUME FundingInv, pending # NoTx, ~ Open(pending), pending' = NoTx,
           UNCHANGED <<recent, ledgerVars, txs, network, asked>>,
           \/ outcome[pending] = "success" /\ completed' = completed \union {pending}
           \/ outcome[pending] # "success" /\ UNCHANGED completed,
           pc' \in {"idle", "balance", "need"}, draft' \in Draft \union {NoDraft},
           absent' = FALSE
    PROVE  FundingInv'
<1>1. TypeOK'
  BY DEF FundingInv, TypeOK, ledgerVars, PC
<1>2. PendingPlace' /\ DraftFits' /\ AbsentIsFinal'
  BY DEF PendingPlace, DraftFits, AbsentIsFinal, Drafting
<1>3. KnownIsSigned' /\ OutcomeUsed' /\ NeverOverfunded' /\ PendingFits'
  BY DEF FundingInv, KnownIsSigned, OutcomeUsed, NeverOverfunded, PendingFits, Signed, ledgerVars
<1>4. OpenIsJournaled'
  BY DEF FundingInv, OpenIsJournaled, Open, ledgerVars
<1>5. CompletedTrue' /\ CompletedIsExact'
  BY DEF FundingInv, CompletedTrue, CompletedIsExact, ledgerVars
<1> QED BY <1>1, <1>2, <1>3, <1>4, <1>5 DEF FundingInv

\* What reconciliation and submission do.
LEMMA ReconcileStep ==
    ASSUME FundingInv, Query \/ CheckExpiry \/ Wait
    PROVE  FundingInv'
<1>1. TypeOK /\ PendingPlace /\ pending # NoTx /\ pending \in TxId
  BY DEF FundingInv, TypeOK, PendingPlace, Query, CheckExpiry, Wait
<1>2. /\ ledger \in Nat /\ sequence \in Nat /\ txs[pending].last \in Nat /\ txs[pending].seq \in Nat
  BY <1>1, DraftFields DEF TypeOK
<1>3. outcome[pending] # "none" => ~ Open(pending)
  BY DEF Open
<1>4. ASSUME outcome[pending] = "success", Succeed, UNCHANGED <<recent, ledgerVars, txs, network, asked>>
      PROVE  FundingInv'
  <2>1. AfterSuccess \in {"idle", "balance", "need"}
    <3>1. draft.purpose \in {"none", "trustline", "conversion"}
      BY <1>1 DEF TypeOK, Draft, NoDraft
    <3> QED BY <3>1 DEF AfterSuccess
  <2>2. /\ completed' = completed \union {pending} /\ pending' = NoTx
        /\ pc' \in {"idle", "balance", "need"} /\ draft' = NoDraft /\ absent' = FALSE
    BY <1>4, <2>1 DEF Succeed, RecordTerminal, Goto
  <2> QED BY <1>1, <1>3, <1>4, <2>2, ClearStep
<1>5. ASSUME outcome[pending] = "tec", FailValidated, UNCHANGED <<recent, ledgerVars, txs, network, asked>>
      PROVE  FundingInv'
  BY <1>1, <1>3, <1>5, ClearStep DEF FailValidated, ClearFailed, Exit
<1>6. CASE Wait
  BY <1>4, <1>5, <1>6 DEF Wait
<1>7. CASE Query
  <2>1. CASE /\ Goto("expiry") /\ UNCHANGED <<pending, completed, draft>>
             /\ absent' \in IF outcome[pending] = "none" /\ ledger >= txs[pending].last
                            THEN BOOLEAN ELSE {FALSE}
    <3>1. absent' \in BOOLEAN /\ (absent' => outcome[pending] = "none" /\ txs[pending].last <= ledger)
      BY <1>2, <2>1
    <3>2. UNCHANGED <<recent, ledger, sequence, rlusd, trust, rich, outcome, excess, txs, network, asked>>
      BY <1>7 DEF Query, ledgerVars
    <3>3. TypeOK'
      BY <1>1, <2>1, <3>1, <3>2 DEF TypeOK, Goto, PC
    <3>4. CompletedTrue' /\ CompletedIsExact' /\ NeverOverfunded' /\ OutcomeUsed' /\ KnownIsSigned'
      BY <2>1, <3>2 DEF FundingInv, CompletedTrue, CompletedIsExact, NeverOverfunded, OutcomeUsed,
         KnownIsSigned, Signed
    <3>5. OpenIsJournaled' /\ PendingFits'
      BY <2>1, <3>2 DEF FundingInv, OpenIsJournaled, PendingFits, Open
    <3>6. AbsentIsFinal' /\ PendingPlace' /\ DraftFits'
      BY <2>1, <3>1, <3>2 DEF AbsentIsFinal, PendingPlace, DraftFits, Goto, Free, Drafting
    <3> QED BY <3>3, <3>4, <3>5, <3>6 DEF FundingInv
  <2> QED BY <1>4, <1>5, <1>7, <2>1 DEF Query
<1>8. CASE CheckExpiry
  <2>0. draft \in Draft \union {NoDraft}
    BY <1>1 DEF TypeOK
  <2>1. CASE ledger >= txs[pending].last /\ Authoritative /\ pending' = NoTx /\ absent' = FALSE
             /\ Goto("balance") /\ UNCHANGED draft
    <3>1. outcome[pending] = "none" /\ ~ Open(pending)
      BY <1>2, <2>1 DEF FundingInv, AbsentIsFinal, Authoritative, Open
    <3> QED BY <1>1, <1>8, <2>0, <2>1, <3>1, ClearStep DEF CheckExpiry, Goto
  <2>2. ASSUME UNCHANGED <<pending, completed, recent, ledgerVars, txs, network, asked>>,
               pc' \in {"submit", "idle"}, draft' \in Draft \union {NoDraft}, absent' = FALSE
        PROVE  FundingInv'
    <3>1. TypeOK'
      BY <1>1, <2>2 DEF TypeOK, ledgerVars, PC
    <3>2. PendingPlace' /\ DraftFits'
      BY <2>2 DEF PendingPlace, DraftFits, Free, Drafting
    <3> QED BY <2>2, <3>1, <3>2, PlainStep DEF ledgerVars
  <2> QED BY <1>8, <2>0, <2>1, <2>2 DEF CheckExpiry, Exit, Goto
<1> QED BY <1>6, <1>7, <1>8

\* The blob of the pending transaction is relayed or not.
LEMMA SubmitStep ==
    ASSUME FundingInv, Submit
    PROVE  FundingInv'
<1>1. /\ UNCHANGED <<pending, completed, recent, draft, absent, ledger, sequence, rlusd, trust, rich,
                     outcome, excess, txs, asked>>
      /\ pc = "submit" /\ pc' = "wait" /\ network' \subseteq network \union {pending}
  BY DEF Submit, fileVars, ledgerVars, Goto
<1>2. TypeOK'
  BY <1>1 DEF FundingInv, TypeOK, PC
<1>3. PendingPlace' /\ DraftFits' /\ AbsentIsFinal'
  BY <1>1 DEF FundingInv, PendingPlace, DraftFits, AbsentIsFinal, Free, Drafting
<1>4. KnownIsSigned' /\ OutcomeUsed' /\ NeverOverfunded' /\ CompletedTrue' /\ CompletedIsExact'
  BY <1>1 DEF FundingInv, TypeOK, KnownIsSigned, OutcomeUsed, NeverOverfunded, CompletedTrue,
     CompletedIsExact, Signed
<1>5. OpenIsJournaled' /\ PendingFits'
  BY <1>1 DEF FundingInv, OpenIsJournaled, PendingFits, Open
<1> QED BY <1>2, <1>3, <1>4, <1>5 DEF FundingInv

\* A new transaction is written where none is pending.
LEMMA JournalStep ==
    ASSUME FundingInv, Journal
    PROVE  FundingInv'
<1>0. NoTx \notin TxId
  BY FundingAssumption DEF TxId, NoTx
<1>1. PICK i \in TxId : i \notin Signed /\ txs' = [txs EXCEPT ![i] = draft] /\ Write(i)
  BY DEF Journal
<1>2. /\ UNCHANGED <<completed, recent, draft, absent, ledger, sequence, rlusd, trust, rich,
                     outcome, excess, network, asked>>
      /\ pc = "journal" /\ pc' = "submit" /\ pending' = i /\ pending = NoTx
  BY <1>1 DEF FundingInv, PendingPlace, Free, Journal, ledgerVars, Write, Goto
<1>3. /\ draft \in Draft /\ (draft.blind \/ rlusd + draft.amount <= Target + excess)
      /\ i # NoTx
  BY <1>2, FundingAssumption DEF FundingInv, DraftFits, Drafting, TxId, NoTx
<1>4. draft # NoDraft
  BY <1>3 DEF Draft, NoDraft
<1>5. txs'[i] = draft /\ \A j \in TxId \ {i} : txs'[j] = txs[j]
  BY <1>1 DEF FundingInv, TypeOK
<1>6. TypeOK'
  BY <1>1, <1>2, <1>3 DEF FundingInv, TypeOK, PC
<1>7. PendingPlace' /\ DraftFits' /\ AbsentIsFinal'
  BY <1>2 DEF FundingInv, PendingPlace, DraftFits, AbsentIsFinal, Free, Drafting
<1>8. Signed \subseteq Signed' /\ i \in Signed'
  BY <1>1, <1>4, <1>5 DEF Signed
<1>9. KnownIsSigned' /\ NeverOverfunded' /\ CompletedTrue'
  BY <1>2, <1>8 DEF FundingInv, KnownIsSigned, NeverOverfunded, CompletedTrue
<1>10. OutcomeUsed'
  BY <1>1, <1>2, <1>5, <1>8 DEF FundingInv, OutcomeUsed
<1>11. CompletedIsExact'
  BY <1>0, <1>2 DEF FundingInv, CompletedIsExact
<1>12. OpenIsJournaled'
  <2>1. ASSUME NEW j \in network', Open(j)', j # i
        PROVE  FALSE
    <3>1. j \in network /\ j \in TxId
      BY <1>2, <2>1 DEF FundingInv, TypeOK
    <3>2. Open(j)
      BY <1>2, <1>5, <2>1, <3>1 DEF Open
    <3> QED BY <1>0, <1>2, <3>1, <3>2 DEF FundingInv, OpenIsJournaled
  <2> QED BY <1>2, <2>1 DEF OpenIsJournaled
<1>13. PendingFits'
  BY <1>2, <1>3, <1>5 DEF PendingFits
<1> QED BY <1>6, <1>7, <1>9, <1>10, <1>11, <1>12, <1>13 DEF FundingInv

\* A ledger closes: only the pending transaction can be in it.
LEMMA CloseStep ==
    ASSUME FundingInv, CloseLedger
    PROVE  FundingInv'
<1>1. /\ UNCHANGED <<pending, completed, recent, pc, draft, absent, txs, network, asked>>
      /\ ledger' = ledger + 1
  BY DEF CloseLedger, fileVars
<1>2. /\ TypeOK /\ ledger \in Nat /\ sequence \in Nat /\ rlusd \in Nat /\ Target \in Nat
      /\ excess \in Nat
  BY FundingAssumption DEF FundingInv, TypeOK
<1>3. \A i \in TxId : /\ txs[i].amount \in 0 .. Target /\ txs[i].seq \in Nat
                      /\ txs[i].last \in Nat /\ txs[i].blind \in BOOLEAN
  BY <1>2, DraftFields DEF TypeOK
<1>4. PendingPlace' /\ KnownIsSigned' /\ (pending # NoTx => pending \in TxId)
  BY <1>1, <1>2 DEF FundingInv, TypeOK, PendingPlace, KnownIsSigned, Signed
<1>5. CASE sequence' \in {sequence, sequence + 1} /\ UNCHANGED <<rlusd, trust, rich, outcome, excess>>
  <2>1. TypeOK'
    BY <1>1, <1>2, <1>5 DEF TypeOK
  <2>2. \A i \in TxId : Open(i)' => Open(i)
    BY <1>1, <1>2, <1>3, <1>5 DEF Open
  <2>3. OutcomeUsed'
    BY <1>1, <1>2, <1>3, <1>5 DEF FundingInv, OutcomeUsed, Signed
  <2>4. OpenIsJournaled' /\ PendingFits'
    BY <1>1, <1>2, <1>4, <1>5, <2>2 DEF FundingInv, TypeOK, OpenIsJournaled, PendingFits
  <2>5. DraftFits' /\ NeverOverfunded' /\ CompletedTrue' /\ CompletedIsExact'
    BY <1>1, <1>5 DEF FundingInv, DraftFits, NeverOverfunded, CompletedTrue, CompletedIsExact
  <2>6. AbsentIsFinal'
    <3>1. absent => pending \in TxId
      BY <1>2 DEF FundingInv, AbsentIsFinal, TypeOK
    <3> QED BY <1>1, <1>2, <1>3, <1>5, <3>1 DEF FundingInv, AbsentIsFinal
  <2> QED BY <1>4, <2>1, <2>3, <2>4, <2>5, <2>6 DEF FundingInv
<1>6. ASSUME NEW i \in network, Include(i)
      PROVE  FundingInv'
  <2>1. i \in TxId /\ i \in Signed
    BY <1>2 DEF FundingInv, TypeOK, KnownIsSigned
  <2>2. Open(i)
    BY <1>2, <1>3, <1>6, <2>1 DEF FundingInv, OutcomeUsed, TypeOK, Include, Open
  <2>3. /\ pending = i /\ pending # NoTx
        /\ txs[i].blind \/ rlusd + txs[i].amount <= Target + excess
    <3>1. NoTx \notin TxId
      BY FundingAssumption DEF TxId, NoTx
    <3> QED BY <2>1, <2>2, <3>1 DEF FundingInv, OpenIsJournaled, PendingFits
  <2>4. /\ sequence' = sequence + 1 /\ rich' \in BOOLEAN /\ trust' \in BOOLEAN
        /\ \/ UNCHANGED <<rlusd, excess>>
           \/ /\ rlusd' = rlusd + txs[i].amount
              /\ excess' = IF txs[i].blind THEN excess + txs[i].amount ELSE excess
        /\ \E o \in {"success", "tec"} : outcome' = [outcome EXCEPT ![i] = o]
    BY <1>2, <1>6 DEF Include, TypeOK
  <2>5. /\ outcome'[i] \in {"success", "tec"} /\ \A j \in TxId \ {i} : outcome'[j] = outcome[j]
        /\ outcome' \in [TxId -> {"none", "success", "tec"}]
    BY <1>2, <2>1, <2>4 DEF TypeOK
  <2>6. rlusd' \in Nat /\ excess' \in Nat /\ rlusd' <= Target + excess'
    BY <1>2, <1>3, <2>1, <2>3, <2>4 DEF FundingInv, NeverOverfunded
  <2>7. TypeOK'
    BY <1>1, <1>2, <2>4, <2>5, <2>6 DEF TypeOK
  <2>8. \A j \in TxId : Open(j)' => Open(j) /\ j # i
    BY <1>1, <1>2, <1>3, <2>4, <2>5 DEF Open
  <2>9. OutcomeUsed'
    BY <1>1, <1>2, <1>3, <1>6, <2>1, <2>4, <2>5 DEF FundingInv, OutcomeUsed, Signed, Include
  <2>10. OpenIsJournaled' /\ PendingFits'
    BY <1>1, <1>2, <2>1, <2>3, <2>8 DEF FundingInv, TypeOK, OpenIsJournaled, PendingFits
  <2>11. DraftFits' /\ NeverOverfunded'
    BY <1>1, <2>3, <2>6 DEF FundingInv, PendingPlace, DraftFits, NeverOverfunded, Free, Drafting
  <2>12. CompletedTrue'
    <3>1. i \notin completed
      BY <2>2 DEF FundingInv, CompletedTrue, Open
    <3> QED BY <1>1, <1>2, <2>5, <3>1 DEF FundingInv, CompletedTrue, TypeOK
  <2>13. CompletedIsExact'
    BY <1>1, <2>3, <2>5 DEF FundingInv, CompletedIsExact
  <2>14. AbsentIsFinal'
    <3>1. ~ absent
      BY <1>2, <1>3, <2>1, <2>2, <2>3 DEF FundingInv, AbsentIsFinal, Open
    <3> QED BY <1>1, <3>1 DEF AbsentIsFinal
  <2> QED BY <1>4, <2>7, <2>9, <2>10, <2>11, <2>12, <2>13, <2>14 DEF FundingInv
<1> QED BY <1>5, <1>6 DEF CloseLedger

(***************************************************************************)
(* Theorems                                                                *)
(***************************************************************************)

\* Whatever can still take effect is journaled and fits the balance, wherever
\* the command is killed and rerun.
THEOREM FundingInvariant == Spec => []FundingInv
<1>1. Init => FundingInv
  <2> SUFFICES ASSUME Init
               PROVE  FundingInv
    OBVIOUS
  <2>1. TypeOK
    <3>1. rlusd \in Nat /\ excess \in Nat /\ trust \in BOOLEAN
      BY FundingAssumption DEF Init
    <3>2. /\ pending \in TxId \union {NoTx} /\ completed \subseteq TxId /\ network \subseteq TxId
          /\ txs \in [TxId -> Draft \union {NoDraft}]
          /\ outcome \in [TxId -> {"none", "success", "tec"}]
          /\ draft \in Draft \union {NoDraft} /\ pc \in PC /\ asked \in 0 .. 2
          /\ ledger \in Nat /\ sequence \in Nat
      BY DEF Init, PC
    <3>3. recent \in BOOLEAN /\ absent \in BOOLEAN /\ rich \in BOOLEAN
      BY DEF Init
    <3>4. pc \notin {"expiry", "submit", "wait"}
      BY DEF Init
    <3> QED BY <3>1, <3>2, <3>3, <3>4 DEF TypeOK
  <2>2. NeverOverfunded
    BY FundingAssumption DEF Init, NeverOverfunded
  <2> QED
    BY <2>1, <2>2 DEF Init, FundingInv, PendingPlace, DraftFits, KnownIsSigned, OutcomeUsed,
       OpenIsJournaled, PendingFits, AbsentIsFinal, CompletedTrue, CompletedIsExact, Free,
       Drafting
<1>2. FundingInv /\ [Next]_vars => FundingInv'
  <2>1. ASSUME FundingInv, UNCHANGED vars
        PROVE  FundingInv'
    <3>1. TypeOK' /\ PendingPlace' /\ DraftFits' /\ absent' = absent /\ pc' = pc
      BY <2>1 DEF FundingInv, TypeOK, PendingPlace, DraftFits, vars, fileVars, ledgerVars
    <3>2. absent' \in BOOLEAN
      BY <3>1 DEF TypeOK
    <3> QED BY <2>1, <3>1, <3>2, PlainStep DEF vars, fileVars, ledgerVars
  <2> QED
    BY <2>1, ReadStep, ReconcileStep, SubmitStep, JournalStep, CloseStep DEF Next, Run
<1> QED BY <1>1, <1>2, PTL DEF Spec

\* Every variable keeps its type, and something is pending wherever the run
\* waits for it.
THEOREM TypeCorrect == Spec => []TypeOK
<1>1. FundingInv => TypeOK
  BY DEF FundingInv
<1> QED BY <1>1, FundingInvariant, PTL

\* "Safely rebroadcast the identical signed transaction": what the command buys
\* beyond the target, it buys on a balance read from an error answer, whatever
\* ledgers close between its steps.
THEOREM NeverOverfundedTheorem == Spec => []NeverOverfunded
<1>1. FundingInv => NeverOverfunded
  BY DEF FundingInv
<1> QED BY <1>1, FundingInvariant, PTL

\* A transaction that somebody may have seen and that may still take effect is
\* the one in the state file.
THEOREM JournaledTheorem == Spec => []OpenIsJournaled
<1>1. FundingInv => OpenIsJournaled
  BY DEF FundingInv
<1> QED BY <1>1, FundingInvariant, PTL

\* The completed transactions in the state file are those that succeeded.
THEOREM CompletedTheorem == Spec => []CompletedIsExact
<1>1. FundingInv => CompletedIsExact
  BY DEF FundingInv
<1> QED BY <1>1, FundingInvariant, PTL

\* The faucet is asked once per retry delay, because the attempt is written
\* before the request.
THEOREM FaucetTheorem == Spec => []FaucetAskedOnce
<1>1. Init => FaucetInv
  BY DEF Init, FaucetInv
<1>2. TypeOK /\ FaucetInv /\ [Next]_vars => FaucetInv'
  <2> SUFFICES ASSUME TypeOK, FaucetInv, [Next]_vars
               PROVE  FaucetInv'
    OBVIOUS
  <2>1. CASE RequestXrp
    BY <2>1 DEF FaucetInv, RequestXrp, fileVars, Goto
  <2>2. CASE DelayOver
    BY <2>2 DEF FaucetInv, DelayOver
  <2>3. CASE EnsureXrp
    BY <2>3 DEF FaucetInv, EnsureXrp, Exit, Attempted, Goto
  <2>4. CASE UNCHANGED <<recent, asked>> /\ pc' # "faucet"
    BY <2>4 DEF FaucetInv
  <2>5. CASE CloseLedger \/ FaucetPays \/ UNCHANGED vars
    BY <2>5 DEF FaucetInv, CloseLedger, FaucetPays, vars, fileVars
  <2>6. AfterSuccess # "faucet"
    <3>1. draft.purpose \in {"none", "trustline", "conversion"}
      BY DEF TypeOK, Draft, NoDraft
    <3> QED BY <3>1 DEF AfterSuccess
  <2> QED
    BY <2>1, <2>2, <2>3, <2>4, <2>5, <2>6 DEF Next, Run, Start, Query, CheckExpiry, Submit, Wait, Prepare,
       Simulate, Journal, Balance, AwaitXrp, EnsureTrustline, ReadNeed, Quote, Stop, Succeed,
       FailValidated, Exit, Goto, fileVars
<1>3. FaucetInv => FaucetAskedOnce
  BY DEF FaucetInv, FaucetAskedOnce
<1> QED BY <1>1, <1>2, <1>3, TypeCorrect, PTL DEF Spec
=============================================================================
