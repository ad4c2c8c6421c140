----------------------------- MODULE PayerJournal -----------------------------
(***************************************************************************)
(* The payer's crash-safe journal (journal.py) as XRPLPayer.pay (payer.py) *)
(* and XRPLMCPClient (mcp.py) use it from several processes.  Everything   *)
(* the journal keeps is keyed by the request fingerprint, so the module    *)
(* follows one fingerprint; an HTTP request and a tool call never share    *)
(* one, so all its callers are of one kind.                                *)
(*                                                                         *)
(* Journal calls run under an exclusive flock: each is one step.  A call   *)
(* that writes both files can be cut in two by a crash, as the lock dies   *)
(* with its holder.  The merchant and its facilitator are external: they   *)
(* answer a dispatched payload, possibly several times, as the settlement  *)
(* contract allows; HashlessFailures adds the verification failures that   *)
(* carry no transaction hash.                                              *)
(***************************************************************************)
EXTENDS Naturals, FiniteSets

CONSTANTS
    Caller,            \* pay or call_tool calls, in processes sharing the journal
    NoCaller,          \* owner of nothing
    MaxPayload,        \* bound on the payloads signed (model bound)
    HashlessFailures,  \* may a failed settlement come without its hash?
    LateAnswers,       \* may a paid entry lapse under a call that uses it?
    Crashes            \* may a process die?

ASSUME JournalAssumption ==
    /\ NoCaller \notin Caller
    /\ MaxPayload \in Nat
    /\ HashlessFailures \in BOOLEAN
    /\ LateAnswers \in BOOLEAN
    /\ Crashes \in BOOLEAN

\* Signed payloads, each with its own transaction hash; 0 is none, and in a
\* receipt the empty hash.
Payload == 1 .. MaxPayload
NoPayload == 0

VARIABLES
    attempt,     \* the fingerprint's entry in the attempt index
    receipts,    \* the terminal receipts of the fingerprint in the JSONL file;
                 \* nothing reads the pending ones
    pc,          \* where each caller is
    payload,     \* the payload a caller holds
    answer,      \* the settlement a caller received; "lost" if it raised
    signed,      \* number of payloads signed so far
    dispatched,  \* payloads that crossed the transport boundary
    outcome,     \* what became of each payload on the ledger
    client,      \* the kind of the fingerprint: pay, or a tool call
    concluded    \* history: terminal outcomes applied to the entry, up to
                 \* MaxPayload

vars ==
    <<attempt, receipts, pc, payload, answer, signed, dispatched, outcome, client, concluded>>

\* live: lease_expires_at lies in the future.
Attempt == [state : {"claimed", "ready", "pending", "paid"}, owner : Caller,
            live : BOOLEAN, payload : Payload \union {NoPayload}]
NoAttempt == [state |-> "none", owner |-> NoCaller, live |-> FALSE,
              payload |-> NoPayload]

PC == {"idle", "claim", "validate", "sign", "persist", "send", "await",
       "record", "release"}
Answer == {"none", "paid", "pending", "failed", "refused", "lost"}
ReceiptState == {"paid", "failed"}

TypeOK ==
    /\ attempt \in Attempt \union {NoAttempt}
    /\ receipts \subseteq [state : ReceiptState, tx : Payload \union {NoPayload}]
    /\ pc \in [Caller -> PC]
    /\ payload \in [Caller -> Payload \union {NoPayload}]
    /\ answer \in [Caller -> Answer]
    /\ signed \in 0 .. MaxPayload
    /\ dispatched \in SUBSET Payload
    /\ outcome \in [Payload -> {"open", "paid", "failed"}]
    /\ client \in {"http", "mcp"}
    /\ concluded \in 0 .. MaxPayload

Init ==
    /\ attempt = NoAttempt
    /\ receipts = {}
    /\ pc = [c \in Caller |-> "idle"]
    /\ payload = [c \in Caller |-> NoPayload]
    /\ answer = [c \in Caller |-> "none"]
    /\ signed = 0
    /\ dispatched = {}
    /\ outcome = [p \in Payload |-> "open"]
    /\ client \in {"http", "mcp"}
    /\ concluded = 0

Goto(c, label) == pc' = [pc EXCEPT ![c] = label]

-----------------------------------------------------------------------------
(* The journal's operations on the attempt *)

\* _prune_expired_paid_unlocked
Pruned(a) == IF a.state = "paid" /\ ~ a.live THEN NoAttempt ELSE a

\* Mutants of Claimable: a lapsed lease is taken over although a payload was
\* persisted; no lease is ever taken over.
ReclaimOnLapse(a) == a = NoAttempt \/ ~ a.live
ClaimOnlyFree(a) == a = NoAttempt

\* claim_attempt takes the entry over: none, or an unsigned claim whose
\* lease ran out.
Claimable(a) == a = NoAttempt \/ (a.payload = NoPayload /\ ~ a.live)

\* persist_attempt_payload may write the caller's payload.
MayPersist(a, c) == a # NoAttempt /\ a.payload = NoPayload /\ a.owner = c

\* The hash in the receipt of a caller's settlement.
ReceiptTx(c) == IF answer[c] = "refused" THEN NoPayload ELSE payload[c]
StateOf(ans) ==
    CASE ans = "paid" -> "paid"
      [] ans \in {"pending", "lost"} -> "pending"
      [] ans \in {"failed", "refused"} -> "failed"
Receipt(c) == [state |-> StateOf(answer[c]), tx |-> ReceiptTx(c)]

\* record_outcome ignores what is no news about a finished transaction.
Late(r) ==
    /\ r.state # "paid"
    /\ \E old \in receipts : old.tx = r.tx

\* Mutant: a failed outcome keeps the entry.
KeepFailed(a, r) == [a EXCEPT !.state = r.state, !.live = (r.state = "paid")]

\* What record_outcome makes of the entry, whatever payload it holds.
AfterOutcome(a, r) ==
    CASE r.state = "pending" -> [a EXCEPT !.state = "pending", !.live = FALSE]
      [] r.state = "paid" -> [a EXCEPT !.state = "paid", !.live = TRUE]
      [] r.state = "failed" -> NoAttempt

-----------------------------------------------------------------------------
(* XRPLPayer.pay *)

\* The unpaid request was answered with a canonical 402 challenge.
Challenged(c) ==
    /\ pc[c] = "idle"
    /\ Goto(c, "claim")
    /\ UNCHANGED <<attempt, receipts, payload, answer, signed, dispatched, outcome, client, concluded>>

\* The stored payload is the one to send; _resume_pending hands it to the
\* upstream MCP client as the payment for the challenge.
Resume(c, p) ==
    /\ payload' = [payload EXCEPT ![c] = p]
    /\ Goto(c, "validate")

\* _claim_or_wait: own the entry, or take the payload in it, or ask again.
Claim(c) ==
    /\ pc[c] = "claim" /\ payload[c] = NoPayload
    /\ \/ /\ Claimable(Pruned(attempt))
          /\ attempt' = [state |-> "claimed", owner |-> c, live |-> TRUE,
                         payload |-> NoPayload]
          /\ Goto(c, "sign")
          /\ UNCHANGED payload
       \/ /\ ~ Claimable(Pruned(attempt))
          /\ attempt.payload # NoPayload
          /\ Resume(c, attempt.payload)
          /\ UNCHANGED attempt
    /\ UNCHANGED <<receipts, answer, signed, dispatched, outcome, client, concluded>>

\* pay records a pending outcome, though it sent nothing; call_tool only
\* releases its claim.
Mismatch(c) ==
    \/ /\ client = "http"
       /\ Goto(c, "record")
       /\ answer' = [answer EXCEPT ![c] = "lost"]
    \/ client = "mcp" /\ Goto(c, "release") /\ UNCHANGED answer

\* _validate_payload_for_challenge; a changed challenge raises.
Validate(c) ==
    /\ pc[c] = "validate"
    /\ \/ Goto(c, "send") /\ UNCHANGED answer
       \/ Mismatch(c)
    /\ UNCHANGED <<attempt, receipts, payload, signed, dispatched, outcome, client, concluded>>

\* create_payment_payload: spend limits, tickets, autofill and signature, or
\* an exception.
Sign(c) ==
    /\ pc[c] = "sign"
    /\ \/ /\ signed < MaxPayload
          /\ signed' = signed + 1
          /\ payload' = [payload EXCEPT ![c] = signed + 1]
          /\ Goto(c, "persist")
       \/ Goto(c, "release") /\ UNCHANGED <<signed, payload>>
    /\ UNCHANGED <<attempt, receipts, answer, dispatched, outcome, client, concluded>>

\* persist_attempt_payload: somebody else's payload wins over the caller's.
Persist(c) ==
    /\ pc[c] = "persist"
    /\ \/ /\ attempt.payload # NoPayload
          /\ payload' = [payload EXCEPT ![c] = attempt.payload]
          /\ Goto(c, "send")
          /\ UNCHANGED attempt
       \/ /\ attempt.payload = NoPayload /\ MayPersist(attempt, c)
          /\ attempt' = [attempt EXCEPT !.state = "ready", !.live = FALSE,
                                        !.payload = payload[c]]
          /\ Goto(c, "send")
          /\ UNCHANGED payload
       \/ /\ attempt.payload = NoPayload /\ ~ MayPersist(attempt, c)
          /\ payload' = [payload EXCEPT ![c] = NoPayload]
          /\ Goto(c, "release")
          /\ UNCHANGED attempt
    /\ UNCHANGED <<receipts, answer, signed, dispatched, outcome, client, concluded>>

Send(c) ==
    /\ pc[c] = "send"
    /\ dispatched' = dispatched \union {payload[c]}
    /\ Goto(c, "await")
    /\ UNCHANGED <<attempt, receipts, payload, answer, signed, outcome, client, concluded>>

\* What the merchant can answer, by the settlement contract.  A 402 or 200
\* without PAYMENT-RESPONSE counts as pending.
Answers(p) ==
    {"pending", "lost"}
        \union (IF outcome[p] # "failed" THEN {"paid"} ELSE {})
        \union (IF outcome[p] # "paid" THEN {"failed"} ELSE {})
        \union (IF HashlessFailures THEN {"refused"} ELSE {})

Receive(c) ==
    /\ pc[c] = "await"
    /\ \E a \in Answers(payload[c]) :
          /\ answer' = [answer EXCEPT ![c] = a]
          /\ outcome' = IF a \in {"paid", "failed"}
                        THEN [outcome EXCEPT ![payload[c]] = a] ELSE outcome
    /\ Goto(c, "record")
    /\ UNCHANGED <<attempt, receipts, payload, signed, dispatched, client, concluded>>

\* The call is over and its locals are gone.
Leave(c) ==
    /\ Goto(c, "idle")
    /\ payload' = [payload EXCEPT ![c] = NoPayload]
    /\ answer' = [answer EXCEPT ![c] = "none"]

\* record_outcome: the receipt is appended, then the index replaced.
Append(r) == receipts' = IF r.state = "pending" THEN receipts ELSE receipts \union {r}
Conclude(r) == concluded' = IF r.state # "pending" /\ concluded < MaxPayload
                            THEN concluded + 1 ELSE concluded

Record(c) ==
    /\ pc[c] = "record"
    /\ \/ Late(Receipt(c)) /\ UNCHANGED <<attempt, receipts, concluded>>
       \/ /\ ~ Late(Receipt(c))
          /\ Append(Receipt(c))
          /\ \/ attempt = NoAttempt /\ UNCHANGED <<attempt, concluded>>
             \/ /\ attempt # NoAttempt
                /\ attempt' = AfterOutcome(attempt, Receipt(c))
                /\ Conclude(Receipt(c))
    /\ \/ answer[c] # "lost" /\ Leave(c)
       \/ answer[c] = "lost" /\ Goto(c, "release") /\ UNCHANGED <<payload, answer>>
    /\ UNCHANGED <<signed, dispatched, outcome, client>>

\* release_claim on the way out of an exception.
Release(c) ==
    /\ pc[c] = "release"
    /\ attempt' = IF attempt.owner = c /\ attempt.payload = NoPayload
                  THEN NoAttempt ELSE attempt
    /\ Leave(c)
    /\ UNCHANGED <<receipts, signed, dispatched, outcome, client, concluded>>

-----------------------------------------------------------------------------
(* call_tool_with_payment with a payload of the application's own *)

\* A new payload, or one that was offered before.
Supply(c) ==
    /\ client = "mcp" /\ pc[c] = "idle"
    /\ \E p \in Payload :
          /\ p <= signed + 1
          /\ payload' = [payload EXCEPT ![c] = p]
          /\ signed' = IF p > signed THEN p ELSE signed
    /\ Goto(c, "claim")
    /\ UNCHANGED <<attempt, receipts, answer, dispatched, outcome, client, concluded>>

\* Mutant: the application's payload is sent whatever is bound.
SendOwn(a, p) == a.payload # NoPayload

\* The entry holds this very payload.
SameWinner(a, p) == a.payload # NoPayload /\ a.payload = p

\* The same claim; a different payload bound to the request raises.
ClaimSupplied(c) ==
    /\ pc[c] = "claim" /\ payload[c] # NoPayload
    /\ \/ /\ Claimable(Pruned(attempt))
          /\ attempt' = [state |-> "claimed", owner |-> c, live |-> TRUE,
                         payload |-> NoPayload]
          /\ Goto(c, "persist")
          /\ UNCHANGED <<payload, answer>>
       \/ /\ ~ Claimable(Pruned(attempt))
          /\ attempt.payload # NoPayload
          /\ \/ /\ SameWinner(attempt, payload[c])
                /\ Goto(c, "send")
                /\ UNCHANGED <<payload, answer>>
             \/ ~ SameWinner(attempt, payload[c]) /\ Leave(c)
          /\ UNCHANGED attempt
    /\ UNCHANGED <<receipts, signed, dispatched, outcome, client, concluded>>

-----------------------------------------------------------------------------
(* Maintenance, time and crashes *)

\* prune_expired_attempts, also run by a claim for another fingerprint.
Prune ==
    /\ attempt.state = "paid" /\ ~ attempt.live
    /\ attempt' = Pruned(attempt)
    /\ UNCHANGED <<receipts, pc, payload, answer, signed, dispatched, outcome, client, concluded>>

\* 30 seconds for a claim, 300 for a paid entry.  Unless LateAnswers, every
\* call that was past its claim when the entry became paid is over by then.
LeaseLapses ==
    /\ attempt.live
    /\ attempt.state = "paid" /\ ~ LateAnswers =>
          \A c \in Caller : pc[c] \in {"idle", "claim", "release"}
    /\ attempt' = [attempt EXCEPT !.live = FALSE]
    /\ UNCHANGED <<receipts, pc, payload, answer, signed, dispatched, outcome, client, concluded>>

\* The process dies, or the PAYMENT-RESPONSE header does not decode.
Crash(c) ==
    /\ Crashes
    /\ pc[c] # "idle"
    /\ Leave(c)
    /\ UNCHANGED <<attempt, receipts, signed, dispatched, outcome, client, concluded>>

\* Inside record_outcome, after the fsync of the receipt.
CrashAfterAppend(c) ==
    /\ Crashes
    /\ pc[c] = "record"
    /\ ~ Late(Receipt(c))
    /\ Append(Receipt(c))
    /\ Leave(c)
    /\ UNCHANGED <<attempt, signed, dispatched, outcome, client, concluded>>

Step(c) ==
    \/ Claim(c) \/ ClaimSupplied(c) \/ Validate(c) \/ Sign(c) \/ Persist(c) \/ Send(c)
    \/ Receive(c) \/ Record(c) \/ Release(c)

Next ==
    \/ \E c \in Caller : Challenged(c) \/ Supply(c) \/ Step(c) \/ Crash(c) \/ CrashAfterAppend(c)
    \/ Prune \/ LeaseLapses

Spec == Init /\ [][Next]_vars

\* The processes that live keep running, time passes, and a caller that asks
\* again and again is served while the entry keeps being free for it.
Fairness ==
    /\ WF_vars(LeaseLapses)
    /\ \A c \in Caller : WF_vars(Step(c)) /\ SF_vars(Claim(c) \/ ClaimSupplied(c))

FairSpec == Spec /\ Fairness

-----------------------------------------------------------------------------
(* Properties *)

\* "Pending/indeterminate attempts remain until a terminal response": as long
\* as no terminal outcome of the request is on file, the payload that left a
\* process is recoverable from the index, whoever crashes, waits or takes a
\* claim over; so there is one such payload at most.
AttemptOutlivesPayload ==
    receipts = {} => \A p \in dispatched : attempt.payload = p

\* However callers race, crash and answer late, and though an outcome without
\* its hash is applied to whatever entry there is, each payment for the same
\* request after the first one has an outcome of its own before it.
PaymentsConcluded == Cardinality(dispatched) <= concluded + 1

\* "A late pending/failure response from a concurrent caller cannot regress
\* an already terminal attempt": a paid entry stays as it is until it lapses.
PaidNotRegressed ==
    [][attempt.state = "paid" /\ attempt.live =>
          attempt' \in {attempt, [attempt EXCEPT !.live = FALSE]}]_vars

\* A caller waiting for another's claim gets on, even if the owner died
\* between claiming and signing.
WaitersProceed ==
    \A c \in Caller : pc[c] = "claim" ~> pc[c] # "claim"
=============================================================================
