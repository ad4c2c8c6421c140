----------------------------- MODULE RlusdFunding -----------------------------
(***************************************************************************)
(* The journaled funding command (devtools/rlusd_fund.py): it raises a     *)
(* wallet to a target RLUSD balance, if need be after asking the XRP       *)
(* faucet and setting a trust line, and may be killed and rerun at will.   *)
(*                                                                         *)
(* The wallet's lock file is held for the whole of a run, so one run at a  *)
(* time is modelled: pc is where it is.  Every request to a server and     *)
(* every atomic write of the state file is one step.  The ledger, the      *)
(* faucet and xrpl-py's submit_and_wait are external; a validated success  *)
(* is reported with its metadata and, without tfPartialPayment, delivered  *)
(* in full.                                                                *)
(***************************************************************************)
EXTENDS Naturals

CONSTANTS
    Target,     \* target_rlusd
    Window,     \* how far autofill puts LastLedgerSequence ahead
    MaxTx,      \* bound on the transactions signed (model bound)
    MaxLedger   \* bound on the validated ledger index (model bound)

ASSUME FundingAssumption ==
    /\ Target \in Nat \ {0}
    /\ Window \in Nat \ {0}
    /\ MaxTx \in Nat
    /\ MaxLedger \in Nat

VARIABLES
    \* the state file, and the age of its last_faucet_attempt_at
    pending,     \* the pending transaction, 0 if there is none
    completed,   \* completed_transaction_hashes
    recent,      \* is the last faucet attempt within FAUCET_RETRY_DELAY?
    \* the run
    pc,
    draft,       \* the transaction being prepared
    absent,      \* did the Tx request answer txnNotFound with searched_all?
    \* the ledger, as far as it concerns the wallet
    ledger,      \* index of the newest validated ledger
    sequence,    \* the account's next sequence number
    rlusd,       \* validated RLUSD balance
    trust,       \* is the trust line's limit sufficient?
    rich,        \* does the XRP balance reach minimum_xrp?
    txs,         \* the transactions signed
    outcome,     \* what each did in a validated ledger
    network,     \* transactions some server has relayed
    \* history
    asked,       \* faucet requests within the current retry delay, up to 2
    excess       \* RLUSD bought although the balance was not read

fileVars == <<pending, completed, recent>>
ledgerVars == <<ledger, sequence, rlusd, trust, rich, outcome, excess>>
vars == <<fileVars, pc, draft, absent, ledgerVars, txs, network, asked>>

TxId == 1 .. MaxTx
NoTx == 0
\* blind (history): the amount was computed from an answer without the balance.
Draft == [purpose : {"trustline", "conversion"}, amount : 0 .. Target,
          seq : Nat, last : Nat, blind : BOOLEAN]
NoDraft == [purpose |-> "none", amount |-> 0, seq |-> 0, last |-> 0, blind |-> FALSE]

PC == {"idle", "query", "expiry", "balance", "xrp", "faucet", "faucetWait", "trust",
       "need", "quote", "prepare", "simulate", "journal", "submit", "wait"}

TypeOK ==
    /\ pending \in TxId \union {NoTx}
    /\ completed \subseteq TxId
    /\ recent \in BOOLEAN
    /\ pc \in PC
    /\ draft \in Draft \union {NoDraft}
    /\ absent \in BOOLEAN
    /\ ledger \in Nat /\ sequence \in Nat /\ rlusd \in Nat
    /\ trust \in BOOLEAN /\ rich \in BOOLEAN
    /\ txs \in [TxId -> Draft \union {NoDraft}]
    /\ outcome \in [TxId -> {"none", "success", "tec"}]
    /\ network \subseteq TxId
    /\ asked \in 0 .. 2
    /\ excess \in Nat
    /\ pc \in {"expiry", "submit", "wait"} => pending # NoTx

Init ==
    /\ pending = NoTx /\ completed = {} /\ recent = FALSE
    /\ pc = "idle" /\ draft = NoDraft /\ absent = FALSE
    /\ ledger = 0 /\ sequence = 0
    /\ rlusd \in 0 .. Target - 1 /\ trust = (rlusd > 0) /\ rich \in BOOLEAN
    /\ txs = [i \in TxId |-> NoDraft]
    /\ outcome = [i \in TxId |-> "none"]
    /\ network = {}
    /\ asked = 0 /\ excess = 0

\* The run goes on, or ends (with a result, an error, or killed).
Goto(label) == pc' = label
Exit == pc' = "idle" /\ draft' = NoDraft /\ absent' = FALSE

Signed == {i \in TxId : txs[i] # NoDraft}

-----------------------------------------------------------------------------
(* Reconciliation of a pending transaction *)

\* main takes the lock and fund_rlusd_wallet loads the state file.
Start ==
    /\ pc = "idle"
    /\ Goto(IF pending = NoTx THEN "balance" ELSE "query")
    /\ UNCHANGED <<fileVars, draft, absent, ledgerVars, txs, network, asked>>

\* What is done after a transaction has succeeded: a rerun that reconciled it
\* has no draft of its own and reads the balance first.
AfterSuccess == CASE draft.purpose = "none" -> "balance"
                  [] draft.purpose = "trustline" -> "need"
                  [] draft.purpose = "conversion" -> "idle"

\* _record_terminal_transaction
RecordTerminal == /\ completed' = completed \union {pending}
                  /\ pending' = NoTx

Succeed ==
    /\ RecordTerminal
    /\ Goto(AfterSuccess)
    /\ draft' = NoDraft
    /\ absent' = FALSE

\* Mutant: a validated failure stays in the journal.
KeepFailed == UNCHANGED pending

\* A validated failure: the journal is cleared and the run fails.
ClearFailed == pending' = NoTx

FailValidated ==
    /\ ClearFailed
    /\ Exit
    /\ UNCHANGED completed

\* Mutant: the transaction is dropped however the absence was reported.
DropWhenNotFound == TRUE

\* May a transaction past its last ledger be given up?
Authoritative == absent

\* The Tx request of reconcile_pending_transaction; it may raise.  A server
\* that holds the whole range says so, which it cannot before
\* LastLedgerSequence is validated.
Query ==
    /\ pc = "query"
    /\ \/ outcome[pending] = "success" /\ Succeed
       \/ outcome[pending] = "tec" /\ FailValidated
       \/ /\ Goto("expiry")
          /\ absent' \in IF outcome[pending] = "none" /\ ledger >= txs[pending].last
                         THEN BOOLEAN ELSE {FALSE}
          /\ UNCHANGED <<pending, completed, draft>>
    /\ UNCHANGED <<recent, ledgerVars, txs, network, asked>>

\* The Ledger request that follows.
CheckExpiry ==
    /\ pc = "expiry"
    /\ \/ /\ ledger >= txs[pending].last /\ Authoritative
          /\ pending' = NoTx /\ absent' = FALSE /\ Goto("balance")
          /\ UNCHANGED draft
       \/ /\ ledger >= txs[pending].last /\ ~ Authoritative
          /\ Exit /\ UNCHANGED pending
       \/ /\ ledger < txs[pending].last
          /\ Goto("submit") /\ absent' = FALSE /\ UNCHANGED <<pending, draft>>
    /\ UNCHANGED <<completed, recent, ledgerVars, txs, network, asked>>

-----------------------------------------------------------------------------
(* Submission *)

\* submit_and_wait: the blob is relayed or not, the run learns of it or not.
Submit ==
    /\ pc = "submit"
    /\ network' \in {network, network \union {pending}}
    /\ Goto("wait")
    /\ UNCHANGED <<fileVars, draft, absent, ledgerVars, txs, asked>>

\* It returns the validated outcome; everything else is an exception, which
\* leaves the transaction pending (Stop).
Wait ==
    /\ pc = "wait"
    /\ \/ outcome[pending] = "success" /\ Succeed
       \/ outcome[pending] = "tec" /\ FailValidated
    /\ UNCHANGED <<recent, ledgerVars, txs, network, asked>>

\* autofill: the next sequence number, and a last ledger.
Prepare ==
    /\ pc = "prepare"
    /\ draft' = [draft EXCEPT !.seq = sequence, !.last = ledger + Window]
    /\ Goto(IF draft.purpose = "conversion" THEN "simulate" ELSE "journal")
    /\ UNCHANGED <<fileVars, absent, ledgerVars, txs, network, asked>>

\* _simulate_exact_payment, also when the server does not implement it.
Simulate ==
    /\ pc = "simulate"
    /\ Goto("journal")
    /\ UNCHANGED <<fileVars, draft, absent, ledgerVars, txs, network, asked>>

\* Mutant: the transaction is submitted before it is written.
SubmitFirst(i) == network' \in {network, network \union {i}} /\ UNCHANGED pending

\* The signed transaction is written before anybody sees it.
Write(i) == pending' = i /\ UNCHANGED network

Journal ==
    /\ pc = "journal"
    /\ \E i \in TxId :
          /\ i \notin Signed /\ \A j \in TxId : j < i => j \in Signed
          /\ draft.last <= MaxLedger
          /\ txs' = [txs EXCEPT ![i] = draft]
          /\ Write(i)
    /\ Goto("submit")
    /\ UNCHANGED <<completed, recent, draft, absent, ledgerVars, asked>>

-----------------------------------------------------------------------------
(* fund_rlusd_wallet *)

\* A balance that cannot be read counts as zero.
Balance ==
    /\ pc = "balance"
    /\ \/ rlusd >= Target /\ Exit
       \/ Goto("xrp") /\ UNCHANGED <<draft, absent>>
    /\ UNCHANGED <<fileVars, ledgerVars, txs, network, asked>>

\* Mutant: the attempt is written after the request.
WriteLater == recent

\* last_faucet_attempt_at is written before the request.
Attempted == TRUE

\* ensure_testnet_xrp.
EnsureXrp ==
    /\ pc = "xrp"
    /\ \/ rich /\ Goto("trust") /\ UNCHANGED <<recent, draft, absent>>
       \/ recent /\ Exit /\ UNCHANGED recent
       \/ /\ ~ recent /\ recent' = Attempted
          /\ Goto("faucet") /\ UNCHANGED <<draft, absent>>
    /\ UNCHANGED <<pending, completed, ledgerVars, txs, network, asked>>

\* The request, whose own answer does not matter.
RequestXrp ==
    /\ pc = "faucet"
    /\ asked' = IF asked < 2 THEN asked + 1 ELSE asked
    /\ Goto("faucetWait")
    /\ UNCHANGED <<fileVars, draft, absent, ledgerVars, txs, network>>

AwaitXrp ==
    /\ pc = "faucetWait"
    /\ \/ rich /\ Goto("trust") /\ UNCHANGED <<draft, absent>>
       \/ ~ rich /\ Exit
    /\ UNCHANGED <<fileVars, ledgerVars, txs, network, asked>>

\* _ensure_rlusd_trustline_journaled: an AccountLines answer that is an error
\* has no lines either, so that the trust line is set once more.
EnsureTrustline ==
    /\ pc = "trust"
    /\ \/ trust /\ Goto("need") /\ UNCHANGED draft
       \/ /\ draft' = [NoDraft EXCEPT !.purpose = "trustline"]
          /\ Goto("prepare")
    /\ UNCHANGED <<fileVars, absent, ledgerVars, txs, network, asked>>

\* What get_validated_trustline_balance may return: an error answer is read
\* as a balance of zero.
Readings == {rlusd, 0}

\* Mutant: the whole target is bought.
WholeTarget(balance) == Target

\* What is missing is bought.
Needed(balance) == Target - balance

ReadNeed ==
    /\ pc = "need"
    /\ \E balance \in Readings :
          \/ balance >= Target /\ Exit
          \/ /\ balance < Target
             /\ draft' = [NoDraft EXCEPT !.purpose = "conversion",
                                         !.amount = Needed(balance),
                                         !.blind = (balance # rlusd)]
             /\ Goto("quote")
             /\ UNCHANGED absent
    /\ UNCHANGED <<fileVars, ledgerVars, txs, network, asked>>

\* A quote within the caps and enough spendable XRP; refusals are Stop.
Quote ==
    /\ pc = "quote"
    /\ Goto("prepare")
    /\ UNCHANGED <<fileVars, draft, absent, ledgerVars, txs, network, asked>>

\* A request fails, a cap is exceeded, or the process is killed.
Stop ==
    /\ pc # "idle"
    /\ Exit
    /\ UNCHANGED <<fileVars, ledgerVars, txs, network, asked>>

Run ==
    \/ Start \/ Query \/ CheckExpiry \/ Submit \/ Wait \/ Prepare \/ Simulate \/ Journal
    \/ Balance \/ EnsureXrp \/ RequestXrp \/ AwaitXrp \/ EnsureTrustline \/ ReadNeed
    \/ Quote

-----------------------------------------------------------------------------
(* Environment *)

\* A ledger closes, with one of the wallet's relayed transactions, with a
\* transaction from elsewhere that uses the sequence number, or without.
Include(i) ==
    /\ txs[i].seq = sequence /\ ledger < txs[i].last
    /\ sequence' = sequence + 1
    /\ rich' \in {FALSE, rich}
    /\ \/ /\ outcome' = [outcome EXCEPT ![i] = "success"]
          /\ trust' = (trust \/ txs[i].purpose = "trustline")
          /\ rlusd' = rlusd + txs[i].amount
          /\ excess' = IF txs[i].blind THEN excess + txs[i].amount ELSE excess
       \/ outcome' = [outcome EXCEPT ![i] = "tec"] /\ UNCHANGED <<trust, rlusd, excess>>

CloseLedger ==
    /\ ledger < MaxLedger
    /\ ledger' = ledger + 1
    /\ \/ \E i \in network : Include(i)
       \/ /\ sequence' \in {sequence, sequence + 1}
          /\ UNCHANGED <<rlusd, trust, rich, outcome, excess>>
    /\ UNCHANGED <<fileVars, pc, draft, absent, txs, network, asked>>

FaucetPays ==
    /\ asked > 0
    /\ rich' = TRUE
    /\ UNCHANGED <<fileVars, pc, draft, absent, ledger, sequence, rlusd, trust, outcome,
                   excess, txs, network, asked>>

\* The retry delay is over; two minutes do not pass between writing the
\* attempt and sending the request.
DelayOver ==
    /\ pc # "faucet"
    /\ recent' = FALSE /\ asked' = 0
    /\ UNCHANGED <<pending, completed, pc, draft, absent, ledgerVars, txs, network>>

Next == Run \/ Stop \/ CloseLedger \/ FaucetPays \/ DelayOver

Spec == Init /\ [][Next]_vars

\* Every call of a run returns or raises, and the operator reruns the command;
\* ledgers close; not every rerun is killed at the same place, and some Tx
\* request is answered by a server that holds the whole range.
ConclusiveQuery == Query /\ (pending' = NoTx \/ absent')
Fairness ==
    /\ WF_vars(CloseLedger)
    /\ WF_vars(Run \/ Stop)
    /\ SF_vars(ConclusiveQuery)
    /\ SF_vars(CheckExpiry /\ pending' = NoTx)

FairSpec == Spec /\ Fairness

-----------------------------------------------------------------------------
(* Properties *)

\* A transaction that may still take effect.
Open(i) ==
    /\ outcome[i] = "none"
    /\ txs[i].seq >= sequence
    /\ ledger < txs[i].last

\* However often the command is killed and rerun while its transactions are on
\* their way, it does not buy RLUSD twice ("safely rebroadcast the identical
\* signed transaction"): all that exceeds the target was bought because an
\* error answer was read as an empty wallet.
NeverOverfunded == rlusd <= Target + excess

\* Whatever somebody may have seen and may still take effect is in the state
\* file, so there is never more than one such transaction.
OpenIsJournaled == \A i \in network : Open(i) => pending = i

\* What the state file lists as completed is what validated ledgers contain:
\* nothing is listed early, and nothing that succeeded is given up as absent
\* although ledgers close between the two requests of a reconciliation.
CompletedIsExact ==
    \A i \in TxId \ {pending} : i \in completed <=> outcome[i] = "success"

\* The faucet is asked once per retry delay, also by reruns after a crash.
FaucetAskedOnce == asked <= 1

\* A journaled transaction does not stay pending for ever: some rerun gets
\* past it.
PendingCleared == pending # NoTx ~> pending = NoTx
=============================================================================
