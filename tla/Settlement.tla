------------------------------ MODULE Settlement ------------------------------
(***************************************************************************)
(* Settlement of signed XRPL payments by any number of facilitator         *)
(* instances sharing one Redis: ExactXRPLFacilitatorScheme.settle and what *)
(* it calls (xrpl_service.py), over the settlement store (replay_store.py) *)
(* and the ledger.                                                         *)
(*                                                                         *)
(* A worker is one settle call.  Its program counter stops at every Redis  *)
(* command and every JSON-RPC request, the points where other workers, the *)
(* ledger and crashes interleave:                                          *)
(*                                                                         *)
(*   get -> window -> account -> simulate -> first -> reserve              *)
(*       -> submit -> wait -> update -> done                               *)
(*   reserve -> reget;  get, reget, reserve -> query -> expiry -> update   *)
(***************************************************************************)
EXTENDS XrplLedger, SettlementStore

CONSTANTS
    Worker,       \* concurrent settle calls, of all instances
    NoTx,         \* the transaction of an idle worker
    Acceptable,   \* <<tx, fp>>: envelope, signature and structure checks pass
    Window,       \* ledgers a request lets LastLedgerSequence lie ahead
    SlowWorkers   \* may a worker take longer than a record's TTL to reserve?

ASSUME SettlementAssumption ==
    /\ NoTx \notin Tx
    /\ Acceptable \subseteq Tx \X Fp
    /\ Window \in [Fp -> Nat]
    /\ SlowWorkers \in BOOLEAN

VARIABLES
    store,      \* the settlement record of each hash
    pc,         \* where each worker is
    job,        \* the transaction and the request each worker settles
    first,      \* first_ledger_sequence of the state each worker works on
    reply,      \* the response of each worker; its verdict while at "update"
    bound,      \* history: fingerprints each hash was reserved for
    submitted,  \* history: hashes a facilitator submitted
    told        \* history: verdicts about each hash returned to callers

workVars == <<pc, job, first, reply>>
historyVars == <<bound, submitted, told>>
vars == <<ledgerVars, store, workVars, historyVars>>

\* Between the first look at the store and the reservation.
Verifying == {"window", "account", "simulate", "first", "reserve"}
\* Holding a record of its own fingerprint.
Owning == {"submit", "wait", "query", "expiry", "update"}
PC == {"idle", "get", "reget", "done"} \union Verifying \union Owning

\* "refused": verification failed, no hash in the response; "mismatch":
\* transaction_hash_request_mismatch; "error": an exception reached the
\* caller, or the worker died.
Reply == Terminal \union {"none", "pending", "refused", "mismatch", "error"}

Verdict == [fp : Fp, status : Terminal]
IdleJob == [tx |-> NoTx, fp |-> NoFp]

TypeOK ==
    /\ LedgerTypeOK
    /\ store \in [Tx -> Record \union {NoRecord}]
    /\ pc \in [Worker -> PC]
    /\ job \in [Worker -> [tx : Tx \union {NoTx}, fp : Fp \union {NoFp}]]
    /\ \A w \in Worker : pc[w] # "idle" => job[w].tx \in Tx /\ job[w].fp \in Fp
    /\ first \in [Worker -> Nat]
    /\ reply \in [Worker -> Reply]
    /\ \A w \in Worker : pc[w] = "update" => reply[w] \in Terminal
    /\ bound \in [Tx -> SUBSET Fp]
    /\ submitted \in SUBSET Tx
    /\ told \in [Tx -> SUBSET Verdict]

Init ==
    /\ LedgerInit
    /\ store = [t \in Tx |-> NoRecord]
    /\ pc = [w \in Worker |-> "idle"]
    /\ job = [w \in Worker |-> IdleJob]
    /\ first = [w \in Worker |-> 0]
    /\ reply = [w \in Worker |-> "none"]
    /\ bound = [t \in Tx |-> {}]
    /\ submitted = {}
    /\ told = [t \in Tx |-> {}]

-----------------------------------------------------------------------------
(* Responses *)

\* The worker moves on without answering; Goto leaves its state alone, too.
Proceed(w, label) == pc' = [pc EXCEPT ![w] = label] /\ UNCHANGED <<reply, told>>
Goto(w, label) == Proceed(w, label) /\ UNCHANGED first

\* The worker answers r (_pending_response, _state_response, an error).
Finish(w, r) ==
    /\ pc' = [pc EXCEPT ![w] = "done"]
    /\ reply' = [reply EXCEPT ![w] = r]
    /\ told' = IF r \in Terminal
               THEN [told EXCEPT ![job[w].tx] =
                        @ \union {[fp |-> job[w].fp, status |-> r]}]
               ELSE told
    /\ first' = [first EXCEPT ![w] = 0]

\* The worker has a verdict and goes on to store it.
Conclude(w, status) ==
    /\ pc' = [pc EXCEPT ![w] = "update"]
    /\ reply' = [reply EXCEPT ![w] = status]
    /\ UNCHANGED <<told, first>>

-----------------------------------------------------------------------------
(* Reading answers of the ledger *)

\* Mutants: engine result stored as the status; delivered amount unchecked;
\* any txnNotFound taken for an absence; an absence never believed.
EngineResultAsStatus(answer) == IF answer = "delivered" THEN "validated" ELSE answer
AnySuccessValidates(answer) == IF answer = "tec" THEN "failed" ELSE "validated"
AnyNotFoundIsAbsence(answer) == answer \in {"txnNotFound", "txnNotFound_searched_all"}
NeverAbsent(answer) == FALSE

\* _query_transaction and the classification that follows it.
Found(answer) == answer \in Outcome
VerdictOf(answer) == IF answer = "delivered" THEN "validated" ELSE "failed"
AuthoritativeAbsence(answer) == answer = "txnNotFound_searched_all"

\* The two ledger checks of verification.
InWindow(t, f) ==
    /\ LastLedger[t] > ledger
    /\ LastLedger[t] <= ledger + Window[f]
SlotIsFresh(t) == Available(t)

-----------------------------------------------------------------------------
(* settle *)

Call(w, t, f) ==
    /\ pc[w] = "idle"
    /\ pc' = [pc EXCEPT ![w] = "get"]
    /\ job' = [job EXCEPT ![w] = [tx |-> t, fp |-> f]]
    /\ UNCHANGED <<ledgerVars, store, first, reply, historyVars>>

\* A pending record is reconciled, from its own first ledger on.
Reconcile(w, record) ==
    /\ Proceed(w, "query")
    /\ first' = [first EXCEPT ![w] = record.first]

\* Mutant: the stored fingerprint is not compared.
ExistingAnyFingerprint(w, record) ==
    \/ record.status # "pending" /\ Finish(w, record.status)
    \/ record.status = "pending" /\ Reconcile(w, record)

\* An existing record decides: another fingerprint is a business failure, a
\* terminal record is the answer, a pending one is reconciled.
Existing(w, record) ==
    \/ record.fp # job[w].fp /\ Finish(w, "mismatch")
    \/ record.fp = job[w].fp /\ record.status # "pending" /\ Finish(w, record.status)
    \/ record.fp = job[w].fp /\ record.status = "pending" /\ Reconcile(w, record)

Get(w) ==
    /\ pc[w] = "get"
    /\ \/ store[job[w].tx] # NoRecord /\ Existing(w, store[job[w].tx])
       \/ store[job[w].tx] = NoRecord /\ Goto(w, "window")
    /\ UNCHANGED <<ledgerVars, store, job, bound, submitted>>

\* _verify_envelope, _verify_signature, _verify_structure: what the payload
\* says agrees with the requirements, whatever the ledger.
StaticChecks(t, f) == <<t, f>> \in Acceptable

\* Static checks, then LastLedgerSequence against the validated ledger.
VerifyWindow(w) ==
    /\ pc[w] = "window"
    /\ \/ /\ StaticChecks(job[w].tx, job[w].fp)
          /\ InWindow(job[w].tx, job[w].fp)
          /\ Goto(w, "account")
       \/ /\ ~ (/\ StaticChecks(job[w].tx, job[w].fp)
                /\ InWindow(job[w].tx, job[w].fp))
          /\ Finish(w, "refused")
    /\ UNCHANGED <<ledgerVars, store, job, bound, submitted>>

\* Signing authority and the account's sequence or tickets.
VerifyAccount(w) ==
    /\ pc[w] = "account"
    /\ \/ SlotIsFresh(job[w].tx) /\ Goto(w, "simulate")
       \/ ~ SlotIsFresh(job[w].tx) /\ Finish(w, "refused")
    /\ UNCHANGED <<ledgerVars, store, job, bound, submitted>>

\* Simulation, or targeted balance checks when it is unavailable: balances,
\* reserves and the open ledger are not modelled, so either may happen.
VerifySimulation(w) ==
    /\ pc[w] = "simulate"
    /\ Goto(w, "first") \/ Finish(w, "refused")
    /\ UNCHANGED <<ledgerVars, store, job, bound, submitted>>

ReadFirstLedger(w) ==
    /\ pc[w] = "first"
    /\ first' = [first EXCEPT ![w] = ledger]
    /\ Proceed(w, "reserve")
    /\ UNCHANGED <<ledgerVars, store, job, bound, submitted>>

\* A transaction already past its last ledger is reconciled, not submitted.
AfterReserve(w) == IF first[w] >= LastLedger[job[w].tx] THEN "query" ELSE "submit"

Reserve(w) ==
    /\ pc[w] = "reserve"
    /\ \/ /\ CanReserve(store[job[w].tx])
          /\ store' = [store EXCEPT ![job[w].tx] =
                          [status |-> "pending", fp |-> job[w].fp, first |-> first[w]]]
          /\ bound' = [bound EXCEPT ![job[w].tx] = @ \union {job[w].fp}]
          /\ Goto(w, AfterReserve(w))
       \/ /\ ~ CanReserve(store[job[w].tx])
          /\ Goto(w, "reget")
          /\ UNCHANGED <<store, bound>>
    /\ UNCHANGED <<ledgerVars, job, submitted>>

\* After a lost reservation; the winner's record may be gone again.
Reget(w) ==
    /\ pc[w] = "reget"
    /\ \/ store[job[w].tx] # NoRecord /\ Existing(w, store[job[w].tx])
       \/ store[job[w].tx] = NoRecord /\ Finish(w, "pending")
    /\ UNCHANGED <<ledgerVars, store, job, bound, submitted>>

\* SubmitOnly.  The server may relay the transaction or not, and the worker
\* may learn of it or not: an engine result other than tesSUCCESS is only
\* logged, an exception answers pending.
Submit(w) ==
    /\ pc[w] = "submit"
    /\ submitted' = submitted \union {job[w].tx}
    /\ network' \in {network, network \union {job[w].tx}}
    /\ Goto(w, "wait") \/ Finish(w, "pending")
    /\ UNCHANGED <<ledger, used, result, store, job, bound>>

\* One round of _wait_for_validation; giving up is its time-out.
Poll(w) ==
    /\ pc[w] = "wait"
    /\ \E answer \in TxAnswers(job[w].tx, first[w]) :
          \/ Found(answer) /\ Conclude(w, VerdictOf(answer))
          \/ ~ Found(answer) /\ Finish(w, "pending")
    /\ UNCHANGED <<ledgerVars, store, job, bound, submitted>>

\* _reconcile: the Tx request, for the ledgers from first_ledger_sequence to
\* last_ledger_sequence of the state.
Query(w) ==
    /\ pc[w] = "query"
    /\ \E answer \in TxAnswers(job[w].tx, first[w]) :
          \/ Found(answer) /\ Conclude(w, VerdictOf(answer))
          \/ ~ Found(answer) /\ AuthoritativeAbsence(answer) /\ Goto(w, "expiry")
          \/ ~ Found(answer) /\ ~ AuthoritativeAbsence(answer) /\ Finish(w, "pending")
    /\ UNCHANGED <<ledgerVars, store, job, bound, submitted>>

\* _reconcile: the Ledger request that follows an authoritative absence.
CheckExpiry(w) ==
    /\ pc[w] = "expiry"
    /\ \/ ledger >= LastLedger[job[w].tx] /\ Conclude(w, "failed")
       \/ Finish(w, "pending")    \* the request failed, or too early
    /\ UNCHANGED <<ledgerVars, store, job, bound, submitted>>

\* Store the verdict, then answer it whatever the store kept.
Update(w) ==
    /\ pc[w] = "update"
    /\ store' = [store EXCEPT ![job[w].tx] =
                    Updated(@, [status |-> reply[w], fp |-> job[w].fp, first |-> first[w]])]
    /\ Finish(w, reply[w])
    /\ UNCHANGED <<ledgerVars, job, bound, submitted>>

\* The process dies, or Redis or a request outside the guarded ones raises.
Abort(w) ==
    /\ pc[w] \notin {"idle", "done"}
    /\ Finish(w, "error")
    /\ UNCHANGED <<ledgerVars, store, job, bound, submitted>>

\* The caller takes the response; the worker can serve another call.
Return(w) ==
    /\ pc[w] = "done"
    /\ pc' = [pc EXCEPT ![w] = "idle"]
    /\ job' = [job EXCEPT ![w] = IdleJob]
    /\ reply' = [reply EXCEPT ![w] = "none"]
    /\ UNCHANGED <<ledgerVars, store, first, historyVars>>

-----------------------------------------------------------------------------
(* The environment of the workers *)

\* Redis drops a record whose TTL has run out.  The TTL is at least 300
\* seconds from the record's last write; unless SlowWorkers, no worker that
\* looked at the store before is still short of its reservation by then.
Expire(t) ==
    /\ HasTtl(store[t])
    /\ SlowWorkers \/ \A w \in Worker : ~ (job[w].tx = t /\ pc[w] \in Verifying)
    /\ store' = [store EXCEPT ![t] = NoRecord]
    /\ UNCHANGED <<ledgerVars, workVars, historyVars>>

Ledger ==
    /\ CloseLedger \/ \E t \in Tx : Broadcast(t)
    /\ UNCHANGED <<store, workVars, historyVars>>

Step(w) ==
    \/ Get(w) \/ VerifyWindow(w) \/ VerifyAccount(w) \/ VerifySimulation(w)
    \/ ReadFirstLedger(w) \/ Reserve(w) \/ Reget(w) \/ Submit(w)
    \/ Poll(w) \/ Query(w) \/ CheckExpiry(w) \/ Update(w)

Next ==
    \/ \E w \in Worker, t \in Tx, f \in Fp : Call(w, t, f)
    \/ \E w \in Worker : Step(w) \/ Abort(w) \/ Return(w)
    \/ \E t \in Tx : Expire(t)
    \/ Ledger

Spec == Init /\ [][Next]_vars

-----------------------------------------------------------------------------
(* Liveness.  Ledgers keep closing; a step that keeps being possible is    *)
(* not aborted forever, and a Tx or Ledger request that keeps being made   *)
(* is answered conclusively at some time, if it can be.  Nothing else is   *)
(* assumed: not that anybody calls again, not that a submission arrives,   *)
(* not that a relayed transaction is ever included.                        *)

ConclusiveQuery(w) == Query(w) /\ pc'[w] # "done"
ConclusiveExpiry(w) == CheckExpiry(w) /\ pc'[w] # "done"

Fairness ==
    /\ WF_vars(Ledger /\ ledger' # ledger)
    /\ \A w \in Worker :
          /\ WF_vars(Step(w)) /\ WF_vars(Return(w))
          /\ SF_vars(Get(w)) /\ SF_vars(Update(w))
          /\ SF_vars(ConclusiveQuery(w)) /\ SF_vars(ConclusiveExpiry(w))

FairSpec == Spec /\ Fairness

-----------------------------------------------------------------------------
(* Properties *)

\* A payment is called successful, in a response or in the store, only if a
\* validated ledger delivered exactly the required amount: settle never
\* takes a submission, a simulation or a short delivery for a payment.
SuccessIsDelivered ==
    \A t \in Tx :
        \/ result[t] = "delivered"
        \/ /\ store[t].status # "validated"
           /\ \A v \in told[t] : v.status # "validated"

\* A payment is called failed, in a response or in the store, only if it
\* can never be delivered: whatever RPC errors, partial histories and
\* delays settle met, the payer is free to pay again.
FailureIsFinal ==
    \A t \in Tx :
        (store[t].status = "failed" \/ \E v \in told[t] : v.status = "failed")
            => Settled(t) /\ result[t] # "delivered"

\* "It does not rebroadcast": whatever workers race, crash or retry, a hash
\* that was submitted is not submitted again, nor by two workers at once.
NoRebroadcast ==
    \A v, w \in Worker :
        pc[w] = "submit" =>
            /\ job[w].tx \notin submitted
            /\ pc[v] = "submit" /\ job[v].tx = job[w].tx => v = w

\* One signed transaction pays for one request: no verdict about a hash is
\* returned for two fingerprints, even after its record expired.
OnePaymentOneRequest ==
    \A t \in Tx : \A v, u \in told[t] : v.fp = u.fp

\* The reservation outlives every chance of the transaction: once a hash
\* was reserved its record is only missing when the ledger has settled it.
ReservationHeld ==
    \A t \in Tx : bound[t] # {} /\ store[t] = NoRecord => Settled(t)

\* A record begins pending, is decided once, for the fingerprint it began
\* with, and disappears only after that.
RecordLifecycle ==
    [][\A t \in Tx : store'[t] # store[t] =>
          \/ store[t] = NoRecord /\ store'[t].status = "pending"
          \/ /\ store[t].status = "pending"
             /\ store'[t].status \in Terminal
             /\ store'[t].fp = store[t].fp
          \/ store[t].status \in Terminal /\ store'[t] = NoRecord]_vars

\* The service keeps the contract of SettlementContract.
Contract == INSTANCE SettlementContract WITH
    binding <- bound,
    verdict <- told,
    paid <- {t \in Tx : result[t] = "delivered"}

\* Every step of the workers, the store and the ledger is a step of the
\* contract, or none of its business.
KeepsContract == Contract!Spec

\* settle is called for what is recorded about the transaction.
Asked(t) == \E w \in Worker : pc[w] = "get" /\ job[w] = [tx |-> t, fp |-> store[t].fp]
Pending(t) == store[t].status = "pending"

\* A reservation made in time does not stay pending while settle is called
\* again and again, although pending records have no TTL, a crashed worker
\* submits nothing, and the calls crash and meet servers with a partial
\* history, too.
PendingResolves ==
    \A t \in Tx :
        []<>Asked(t) => (Pending(t) /\ ValidRange(t, store[t].first) ~> ~ Pending(t))

\* "Retains the reservation through submission errors/timeouts until
\* LastLedgerSequence has passed": the same of every reservation.
ReservationEnds ==
    \A t \in Tx : []<>Asked(t) => (Pending(t) ~> ~ Pending(t))
=============================================================================
