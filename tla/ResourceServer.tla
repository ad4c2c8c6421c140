---------------------------- MODULE ResourceServer ----------------------------
(***************************************************************************)
(* A merchant's paid routes: PaymentMiddlewareASGI and the hooks of        *)
(* create_resource_server (middleware.py), and its paid MCP tools:         *)
(* create_xrpl_mcp_payment_wrapper (mcp.py), over one                      *)
(* RedisResourceResponseStore (response_store.py).  The order is verify,   *)
(* handler, settle, release.  For unsafe methods and for tools that are    *)
(* not idempotent an identifier is bound in Redis before the handler runs, *)
(* and its output is stored before settlement, so that a retry can resume. *)
(*                                                                         *)
(* The upstream x402 middleware that calls the hooks is external, and so   *)
(* is the facilitator, which answers as SettlementContract allows.         *)
(***************************************************************************)
EXTENDS XrplLedger

CONSTANTS
    Request,      \* concurrent HTTP requests and tool calls
    Invocation,   \* what is requested: payload; method, URL and body, or
                  \* tool and arguments
    NoInvocation,
    Tool,         \* the tool calls among them
    Unsafe,       \* unsafe methods, and tools that are not idempotent
    TxOf,         \* the signed transaction in the payload
    KeyOf,        \* the payment identifier in the payload
    FpOf,         \* the facilitator's fingerprint: payload and requirements
    ResourceOf,   \* the resource the route or tool protects
    NamedIn,      \* the resource the payload names
    Key, Fp, Resource,
    Window,       \* ledgers a verified payment may have left; a TTL outlasts them
    SlowRequests  \* may a verified request take longer than a TTL to bind?

ASSUME ResourceAssumption ==
    /\ NoInvocation \notin Invocation
    /\ Unsafe \subseteq Invocation
    /\ Tool \subseteq Invocation
    /\ TxOf \in [Invocation -> Tx]
    /\ KeyOf \in [Invocation -> Key]
    /\ FpOf \in [Invocation -> Fp]
    /\ ResourceOf \in [Invocation -> Resource]
    /\ NamedIn \in [Invocation -> Resource]
    /\ Window \in Nat
    /\ SlowRequests \in BOOLEAN

\* requirements_fingerprint, as the facilitator computes it, covers the signed
\* transaction, the identifier with what scopes it, and the resource named.
ASSUME FingerprintAssumption ==
    \A i, j \in Invocation : FpOf[i] = FpOf[j] =>
        TxOf[i] = TxOf[j] /\ KeyOf[i] = KeyOf[j] /\ NamedIn[i] = NamedIn[j]

VARIABLES
    store,     \* the record of each identifier
    pc,        \* where each request is
    inv,       \* the invocation of each request
    cached,    \* is the request served from the stored response?
    bound,     \* the facilitator's binding of each transaction
    ran,       \* history: handler runs of each unsafe invocation, up to 2
    released   \* history: invocations whose protected bytes were sent

serverVars == <<store, pc, inv, cached, bound, ran, released>>
vars == <<ledgerVars, serverVars>>

\* The record's fingerprint covers the whole invocation.
StoredFp == Invocation
\* until: no ledger before this one is validated when the TTL runs out.
Record == [fp : StoredFp, state : {"bound", "response"}, until : Nat]
NoRecord == [fp |-> NoInvocation, state |-> "none", until |-> 0]

\* Verified and not yet the owner of the identifier.
Binding == {"get", "bind", "reread", "bindAgain", "rereadAgain"}
PC == {"idle", "verify", "recover", "handler", "check", "put", "settle", "answer",
       "settleAgain", "answerAgain"} \union Binding

TypeOK ==
    /\ LedgerTypeOK
    /\ store \in [Key -> Record \union {NoRecord}]
    /\ pc \in [Request -> PC]
    /\ inv \in [Request -> Invocation \union {NoInvocation}]
    /\ \A r \in Request : pc[r] # "idle" => inv[r] \in Invocation
    /\ cached \in [Request -> BOOLEAN]
    /\ bound \in [Tx -> SUBSET Fp]
    /\ ran \in [Invocation -> 0 .. 2]
    /\ released \subseteq Invocation

Init ==
    /\ LedgerInit
    /\ store = [k \in Key |-> NoRecord]
    /\ pc = [r \in Request |-> "idle"]
    /\ inv = [r \in Request |-> NoInvocation]
    /\ cached = [r \in Request |-> FALSE]
    /\ bound = [t \in Tx |-> {}]
    /\ ran = [i \in Invocation |-> 0]
    /\ released = {}

TxFor(r) == TxOf[inv[r]]
KeyFor(r) == KeyOf[inv[r]]

Goto(r, label) ==
    pc' = [pc EXCEPT ![r] = label] /\ UNCHANGED <<inv, cached, released>>

\* A response goes out, with or without protected bytes.
Respond(r, bytes) ==
    /\ pc' = [pc EXCEPT ![r] = "idle"]
    /\ inv' = [inv EXCEPT ![r] = NoInvocation]
    /\ cached' = [cached EXCEPT ![r] = FALSE]
    /\ released' = IF bytes THEN released \union {inv[r]} ELSE released
Reject(r) == Respond(r, FALSE)

-----------------------------------------------------------------------------
(* The response store *)

\* Mutants: the fingerprint is not compared; the status code
\* in place of the state; a binding taken for a response.
MatchAny(record, i) == TRUE
StatusAsState(i) == [fp |-> i, state |-> "200", until |-> ledger + Window]
AnyRecord(record) == record # NoRecord

\* _validate_fingerprint
Matches(record, i) == record.fp = i
Foreign(record, i) == record # NoRecord /\ ~ Matches(record, i)
CanBind(record) == record = NoRecord
\* _ttl: every SET gives the key the whole of it.
Until == ledger + Window
BoundRecord(i) == [fp |-> i, state |-> "bound", until |-> Until]
ResponseRecord(i) == [fp |-> i, state |-> "response", until |-> Until]
HasResponse(record) == record.state = "response"

-----------------------------------------------------------------------------
(* Verification *)

\* A paid request for a route, or a paid call of a tool.
Arrive(r, i) ==
    /\ pc[r] = "idle"
    /\ pc' = [pc EXCEPT ![r] = "verify"]
    /\ inv' = [inv EXCEPT ![r] = i]
    /\ UNCHANGED <<ledgerVars, store, cached, bound, ran, released>>

\* Mutant: the resource in the payload is not compared.
AnyResource(i) == TRUE

\* _bind_payload_to_authoritative_resource, before the facilitator is asked
Authoritative(i) == NamedIn[i] = ResourceOf[i]

\* The facilitator's /verify: the first check that fails names the reason.
VerifyAnswers(t) ==
    IF ledger >= LastLedger[t] THEN {"expired"}
    ELSE IF LastLedger[t] > ledger + Window THEN {"invalid"}
    ELSE IF ~ Available(t) THEN {"stale"}
    ELSE {"valid", "invalid"}

\* _is_stale_authorization_failure on a route with recovery
MayRecover(r, reason) == reason = "stale" /\ inv[r] \in Unsafe

Verified(r) ==
    \E reason \in IF Authoritative(inv[r]) THEN VerifyAnswers(TxFor(r))
                  ELSE {"resource_mismatch"} :
       \/ reason = "valid" /\ Goto(r, IF inv[r] \in Unsafe THEN "get" ELSE "handler")
       \/ MayRecover(r, reason) /\ Goto(r, "recover")
       \/ reason # "valid" /\ ~ MayRecover(r, reason) /\ Reject(r)

\* The hooks around verification of an HTTP payment.
Verify(r) ==
    /\ pc[r] = "verify" /\ inv[r] \notin Tool
    /\ Verified(r)
    /\ UNCHANGED <<ledgerVars, store, bound, ran>>

\* verify_payment of the tools' _SettlementCapturingResourceServer.
VerifyTool(r) ==
    /\ pc[r] = "verify" /\ inv[r] \in Tool
    /\ Verified(r)
    /\ UNCHANGED <<ledgerVars, store, bound, ran>>

\* recover_cached_authorization: a stored response makes the payment valid.
\* verify_payment of a tool looks in the same way.
Recover(r) ==
    /\ pc[r] = "recover"
    /\ LET record == store[KeyFor(r)] IN
          \/ Matches(record, inv[r]) /\ HasResponse(record) /\ Goto(r, "get")
          \/ ~ (Matches(record, inv[r]) /\ HasResponse(record)) /\ Reject(r)
    /\ UNCHANGED <<ledgerVars, store, bound, ran>>

\* recover_handler: serve the stored response, or bind the identifier.
Get(r) ==
    /\ pc[r] = "get" /\ inv[r] \notin Tool
    /\ LET record == store[KeyFor(r)] IN
          \/ /\ Matches(record, inv[r]) /\ HasResponse(record)
             /\ pc' = [pc EXCEPT ![r] = "settle"]
             /\ cached' = [cached EXCEPT ![r] = TRUE]
             /\ UNCHANGED <<inv, released>>
          \/ Foreign(record, inv[r]) /\ Reject(r)    \* HTTP 409
          \/ ~ Foreign(record, inv[r]) /\ ~ HasResponse(record) /\ Goto(r, "bind")
    /\ UNCHANGED <<ledgerVars, store, bound, ran>>

\* load_cached_response: recoverable finds what it returns.
LoadCached(r) ==
    /\ pc[r] = "get" /\ inv[r] \in Tool
    /\ LET record == store[KeyFor(r)] IN
          \/ /\ Matches(record, inv[r]) /\ HasResponse(record)
             /\ pc' = [pc EXCEPT ![r] = "handler"]
             /\ cached' = [cached EXCEPT ![r] = TRUE]
             /\ UNCHANGED <<inv, released>>
          \/ Foreign(record, inv[r]) /\ Reject(r)    \* the hook returns False
          \/ ~ Foreign(record, inv[r]) /\ ~ HasResponse(record) /\ Goto(r, "bind")
    /\ UNCHANGED <<ledgerVars, store, bound, ran>>

\* bind: SET NX, twice if the record disappears between SET and GET.
Bind(r) ==
    /\ pc[r] \in {"bind", "bindAgain"}
    /\ \/ /\ CanBind(store[KeyFor(r)])
          /\ store' = [store EXCEPT ![KeyFor(r)] = BoundRecord(inv[r])]
          /\ Goto(r, "handler")
       \/ /\ ~ CanBind(store[KeyFor(r)])
          /\ Goto(r, IF pc[r] = "bind" THEN "reread" ELSE "rereadAgain")
          /\ UNCHANGED store
    /\ UNCHANGED <<ledgerVars, bound, ran>>

\* Another fingerprint is a conflict, one's own a request in progress; both
\* abort, as does a record that disappeared twice.
Reread(r) ==
    /\ pc[r] \in {"reread", "rereadAgain"}
    /\ \/ store[KeyFor(r)] = NoRecord /\ pc[r] = "reread" /\ Goto(r, "bindAgain")
       \/ (store[KeyFor(r)] # NoRecord \/ pc[r] = "rereadAgain") /\ Reject(r)
    /\ UNCHANGED <<ledgerVars, store, bound, ran>>

-----------------------------------------------------------------------------
(* Handler and settlement *)

\* The protected handler ran; what fails is not settled.
Executed(r) ==
    /\ ran' = IF inv[r] \in Unsafe /\ ran[inv[r]] < 2
              THEN [ran EXCEPT ![inv[r]] = @ + 1] ELSE ran
    /\ \/ Goto(r, IF inv[r] \in Unsafe THEN "check" ELSE "settle")
       \/ Reject(r)

\* The handler and its buffered body, or an error response.
Handle(r) ==
    /\ pc[r] = "handler" /\ inv[r] \notin Tool
    /\ Executed(r)
    /\ UNCHANGED <<ledgerVars, store, bound>>

\* Mutant: the handler runs before the stored result is looked at.
RunFirst(r) ==
    /\ pc[r] = "handler" /\ inv[r] \in Tool
    /\ Executed(r)
    /\ UNCHANGED <<ledgerVars, store, bound>>

\* recoverable: the stored result, or the handler's; an exception or a
\* result that is neither dict nor string ends the call.
RunTool(r) ==
    /\ pc[r] = "handler" /\ inv[r] \in Tool
    /\ \/ cached[r] /\ Goto(r, "settle") /\ UNCHANGED ran
       \/ ~ cached[r] /\ Executed(r)
    /\ UNCHANGED <<ledgerVars, store, bound>>

\* put: GET and compare, then SET.
Check(r) ==
    /\ pc[r] = "check"
    /\ LET record == store[KeyFor(r)] IN
          \/ ~ Foreign(record, inv[r]) /\ Goto(r, "put")
          \/ Foreign(record, inv[r]) /\ Reject(r)
    /\ UNCHANGED <<ledgerVars, store, bound, ran>>

Put(r) ==
    /\ pc[r] = "put"
    /\ store' = [store EXCEPT ![KeyFor(r)] = ResponseRecord(inv[r])]
    /\ Goto(r, "settle")
    /\ UNCHANGED <<ledgerVars, bound, ran>>

\* /settle reaches the facilitator: a fresh transaction is bound to its
\* fingerprint and submitted, or refused.
Settle(r) ==
    /\ pc[r] \in {"settle", "settleAgain"}
    /\ \/ /\ bound[TxFor(r)] = {}
          /\ ledger < LastLedger[TxFor(r)] /\ Available(TxFor(r))
          /\ bound' = [bound EXCEPT ![TxFor(r)] = {FpOf[inv[r]]}]
          /\ network' \in {network, network \union {TxFor(r)}}
       \/ UNCHANGED <<bound, network>>
    /\ Goto(r, IF pc[r] = "settle" THEN "answer" ELSE "answerAgain")
    /\ UNCHANGED <<ledger, used, result, store, ran>>

\* The contract: verdicts only for the bound request, in agreement with the
\* ledger for good.
SettleAnswers(t, f) ==
    {"pending", "refused"} \union
    IF f \notin bound[t] THEN {}
    ELSE IF result[t] = "delivered" THEN {"success"}
    ELSE IF Settled(t) THEN {"failed"} ELSE {}

\* Mutant: a stored response replaces whatever the settlement answered.
RestoreAlways(r, answer) == answer = "success" \/ cached[r]

\* dispatch restores the stored response only over a 2xx or 3xx.
SendsBytes(r, answer) == answer = "success"

\* The upstream server repeats a pending settlement once.
SettleAnswered(r) ==
    /\ pc[r] \in {"answer", "answerAgain"} /\ inv[r] \notin Tool
    /\ \E answer \in SettleAnswers(TxFor(r), FpOf[inv[r]]) :
          \/ answer = "pending" /\ pc[r] = "answer" /\ Goto(r, "settleAgain")
          \/ /\ ~ (answer = "pending" /\ pc[r] = "answer")
             /\ Respond(r, SendsBytes(r, answer))
    /\ UNCHANGED <<ledgerVars, store, bound, ran>>

\* Upstream does the same for a tool; _preserve_pending_settlement_response
\* adds the receipt of a settlement that is still pending to the error.
ToolAnswered(r) ==
    /\ pc[r] \in {"answer", "answerAgain"} /\ inv[r] \in Tool
    /\ \E answer \in SettleAnswers(TxFor(r), FpOf[inv[r]]) :
          \/ answer = "pending" /\ pc[r] = "answer" /\ Goto(r, "settleAgain")
          \/ answer = "pending" /\ pc[r] = "answerAgain" /\ Reject(r)
          \/ answer # "pending" /\ Respond(r, answer = "success")
    /\ UNCHANGED <<ledgerVars, store, bound, ran>>

-----------------------------------------------------------------------------
(* Environment *)

\* The process dies, or a call to Redis or to the facilitator raises.
Crash(r) ==
    /\ pc[r] # "idle"
    /\ Reject(r)
    /\ UNCHANGED <<ledgerVars, store, bound, ran>>

\* A record's TTL runs out.  _ttl exceeds the payments' timeouts, so by then
\* every transaction that was verified before the SET has expired; unless
\* SlowRequests, nobody who was verified before is still short of binding.
Lapse(k) ==
    /\ store[k] # NoRecord
    /\ ledger >= store[k].until
    /\ SlowRequests \/ \A r \in Request :
          inv[r] # NoInvocation /\ KeyFor(r) = k => pc[r] \notin Binding
    /\ store' = [store EXCEPT ![k] = NoRecord]
    /\ UNCHANGED <<ledgerVars, pc, inv, cached, bound, ran, released>>

Ledger ==
    /\ CloseLedger \/ \E t \in Tx : Broadcast(t)
    /\ UNCHANGED serverVars

Next ==
    \/ \E r \in Request, i \in Invocation : Arrive(r, i)
    \/ \E r \in Request :
          \/ Verify(r) \/ VerifyTool(r) \/ Recover(r) \/ Get(r) \/ LoadCached(r)
          \/ Bind(r) \/ Reread(r) \/ Handle(r) \/ RunTool(r)
          \/ Check(r) \/ Put(r) \/ Settle(r) \/ SettleAnswered(r) \/ ToolAnswered(r) \/ Crash(r)
    \/ \E k \in Key : Lapse(k)
    \/ Ledger

Spec == Init /\ [][Next]_vars

-----------------------------------------------------------------------------
(* Properties *)

\* "Only then releases protected bytes": they are sent only when a validated
\* ledger delivered the payment, also on a retry served from the store.
ReleasedIsPaid ==
    \A i \in released : result[TxOf[i]] = "delivered"

\* "A still-valid retry cannot repeat the handler after cache expiry": an
\* unsafe handler runs at most once per invocation, whatever requests race
\* or crash, and however long the client keeps retrying.
HandlerOnce == \A i \in Unsafe : ran[i] <= 1

\* One signed transaction buys at most one unsafe invocation, although the
\* facilitator does not see the body or the arguments and the store does not
\* see the hash.
OnePaymentOneResource ==
    \A i, j \in released \intersect Unsafe : TxOf[i] = TxOf[j] => i = j

\* One signed transaction buys one resource, however often a safe request
\* for it is repeated: a payload shown to another route or tool of the same
\* price releases nothing there, although the facilitator, which is not told
\* where the payload was shown, answers success again.
OneResourcePerPayment ==
    \A i, j \in released : TxOf[i] = TxOf[j] => ResourceOf[i] = ResourceOf[j]

\* The merchant keeps the promise of PaidSale: whatever requests race, crash
\* and repeat, each step is the one payment, run or sale that it may be,
\* run and payment before the sale, or none of the buyer's business.
Sale == INSTANCE PaidSale WITH
    paid <- {t \in Tx : result[t] = "delivered"},
    runs <- ran,
    sold <- released
KeepsPromise == Sale!Spec

\* "A later identical request resumes settlement from the cached protected
\* response": verification does not turn away a request whose payment was
\* delivered and whose response is stored.
ResumesFromStore ==
    \A r \in Request :
        /\ pc[r] = "verify" /\ inv[r] \in Unsafe
        /\ result[TxFor(r)] = "delivered"
        /\ Matches(store[KeyFor(r)], inv[r]) /\ HasResponse(store[KeyFor(r)])
        => \A reason \in VerifyAnswers(TxFor(r)) : reason = "valid" \/ MayRecover(r, reason)
=============================================================================
