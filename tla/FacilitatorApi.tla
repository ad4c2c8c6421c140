---------------------------- MODULE FacilitatorApi ----------------------------
(***************************************************************************)
(* The facilitator's POST /settle and POST /verify (factory.py) with their *)
(* payment-identifier cache (idempotency.py), composed with Settlement.    *)
(*                                                                         *)
(* A payment identifier names a Redis hash with two fields: the            *)
(* fingerprint of the request it was first used for, and the response of   *)
(* its settlement.  The fingerprint covers the payload's extensions, so it *)
(* determines the identifier.  Each Redis command is one step; settle runs *)
(* in a thread of its own, as a worker of Settlement.                      *)
(***************************************************************************)
EXTENDS Settlement

CONSTANTS
    Key,           \* payment identifiers, scoped to network and payee
    NoKey,         \* no identifier in the request
    KeyOf          \* the identifier of each request

ASSUME ApiAssumption ==
    /\ NoKey \notin Key
    /\ KeyOf \in [Fp -> Key \union {NoKey}]

VARIABLES
    idem,      \* the hash of each identifier
    at,        \* where each request is
    req,       \* the transaction and the fingerprint of each request
    out,       \* the settlement response of each request
    answered,  \* history: verdicts returned, cached ones included
    crossed    \* history: identifiers whose hash lapsed under a request that
               \* had compared the fingerprint and not renewed the TTL yet

apiVars == <<idem, at, req, out, answered, crossed>>
allVars == <<vars, apiVars>>

\* Cached responses: everything but settlement_pending.
Cacheable == Terminal \union {"refused", "mismatch"}
Response == [tx : Tx, fp : Fp, reply : Cacheable]
NoResponse == [tx |-> NoTx, fp |-> NoFp, reply |-> "none"]
Hash == [fp : Fp \union {NoFp}, settle : Response \union {NoResponse}, ttl : BOOLEAN]
NoHash == [fp |-> NoFp, settle |-> NoResponse, ttl |-> FALSE]

Binding == {"hsetnx", "hget", "expire"}
Bound == {"lookup", "settle", "settling", "index", "put", "touch"}

ApiTypeOK ==
    /\ idem \in [Key -> Hash]
    /\ at \in [Worker -> {"idle"} \union Binding \union Bound]
    /\ req \in [Worker -> [tx : Tx \union {NoTx}, fp : Fp \union {NoFp}]]
    /\ \A w \in Worker : at[w] # "idle" => req[w].tx \in Tx /\ req[w].fp \in Fp
    /\ out \in [Worker -> Cacheable \union {"none"}]
    /\ answered \subseteq Response
    /\ crossed \subseteq Key

ApiInit ==
    /\ Init
    /\ idem = [k \in Key |-> NoHash]
    /\ at = [w \in Worker |-> "idle"]
    /\ req = [w \in Worker |-> IdleJob]
    /\ out = [w \in Worker |-> "none"]
    /\ answered = {}
    /\ crossed = {}

KeyFor(w) == KeyOf[req[w].fp]
ResponseOf(w, r) == [tx |-> req[w].tx, fp |-> req[w].fp, reply |-> r]

Move(w, label) == at' = [at EXCEPT ![w] = label]

\* The HTTP response is sent; a is what it says, and of which request.
Reply200(w, a) ==
    /\ Move(w, "idle")
    /\ req' = [req EXCEPT ![w] = IdleJob]
    /\ out' = [out EXCEPT ![w] = "none"]
    /\ answered' = IF a.reply \in Terminal THEN answered \union {a} ELSE answered
\* Pending, 409 and 5xx say nothing final.
ReplyOther(w) == Reply200(w, NoResponse)

-----------------------------------------------------------------------------
(* bind *)

\* Authenticated and parsed; without an identifier there is nothing to bind.
Request(w, t, f) ==
    /\ at[w] = "idle"
    /\ Move(w, IF KeyOf[f] = NoKey THEN "settle" ELSE "hsetnx")
    /\ req' = [req EXCEPT ![w] = [tx |-> t, fp |-> f]]
    /\ UNCHANGED <<vars, idem, out, answered>>

HSetNx(w) ==
    /\ at[w] = "hsetnx"
    /\ idem' = IF idem[KeyFor(w)].fp = NoFp
               THEN [idem EXCEPT ![KeyFor(w)].fp = req[w].fp] ELSE idem
    /\ Move(w, "hget")
    /\ UNCHANGED <<vars, req, out, answered>>

\* Mutant: the fingerprint is not compared.
AnyRequest(w) == TRUE

\* Does the identifier stand for this request?
SameRequest(w) == idem[KeyFor(w)].fp = req[w].fp

HGetFingerprint(w) ==
    /\ at[w] = "hget"
    /\ \/ SameRequest(w) /\ Move(w, "expire") /\ UNCHANGED <<req, out, answered>>
       \/ ~ SameRequest(w) /\ ReplyOther(w)    \* HTTP 409
    /\ UNCHANGED <<vars, idem>>

\* EXPIRE does nothing to a key that is gone.
Touched(hash) == IF hash = NoHash THEN hash ELSE [hash EXCEPT !.ttl = TRUE]

ExpireBinding(w) ==
    /\ at[w] = "expire"
    /\ idem' = [idem EXCEPT ![KeyFor(w)] = Touched(@)]
    /\ Move(w, "lookup")
    /\ UNCHANGED <<vars, req, out, answered>>

-----------------------------------------------------------------------------
(* The endpoints *)

\* /verify needs the binding only; it reads the ledger and answers.
Verified(w) ==
    /\ at[w] = "lookup"
    /\ ReplyOther(w)
    /\ UNCHANGED <<vars, idem>>

\* /settle: a cached response is final, otherwise settle.
Lookup(w) ==
    /\ at[w] = "lookup"
    /\ LET cached == idem[KeyFor(w)].settle IN
          \/ cached # NoResponse /\ Reply200(w, cached)
          \/ cached = NoResponse /\ Move(w, "settle") /\ UNCHANGED <<req, out, answered>>
    /\ UNCHANGED <<vars, idem>>

CallSettle(w) ==
    /\ at[w] = "settle"
    /\ Call(w, req[w].tx, req[w].fp)
    /\ Move(w, "settling")
    /\ UNCHANGED <<idem, req, out, answered>>

\* Mutant: a pending response is cached like any other.
PutPendingToo(r) == r # "error"

\* Is the response stored under the identifier?
Final(r) == r \in Cacheable

\* The thread ends; success goes through the Bazaar catalog first.
SettleReturned(w) ==
    /\ at[w] = "settling"
    /\ Return(w)
    /\ \/ /\ Final(reply[w])
          /\ Move(w, IF reply[w] = "validated" THEN "index" ELSE "put")
          /\ out' = [out EXCEPT ![w] = reply[w]]
          /\ UNCHANGED <<req, answered>>
       \/ ~ Final(reply[w]) /\ ReplyOther(w)
    /\ UNCHANGED idem

Index(w) ==
    /\ at[w] = "index"
    /\ Move(w, "put")
    /\ UNCHANGED <<vars, idem, req, out, answered>>

\* HSET; put without an identifier does nothing.
Put(w) ==
    /\ at[w] = "put"
    /\ \/ /\ KeyFor(w) # NoKey
          /\ idem' = [idem EXCEPT ![KeyFor(w)].settle = ResponseOf(w, out[w])]
          /\ Move(w, "touch")
          /\ UNCHANGED <<req, out, answered>>
       \/ KeyFor(w) = NoKey /\ Reply200(w, ResponseOf(w, out[w])) /\ UNCHANGED idem
    /\ UNCHANGED vars

Touch(w) ==
    /\ at[w] = "touch"
    /\ idem' = [idem EXCEPT ![KeyFor(w)] = Touched(@)]
    /\ Reply200(w, ResponseOf(w, out[w]))
    /\ UNCHANGED vars

\* A Redis command raises, or the process dies outside settle.
Fail(w) ==
    /\ at[w] \notin {"idle", "settling"}
    /\ ReplyOther(w)
    /\ UNCHANGED <<vars, idem>>

\* A hash's TTL runs out.  It is at least 300 seconds; unless SlowWorkers, a
\* request that renewed it at the end of bind is over by then.  A hash of an
\* earlier request may lapse between any two commands of bind.
Lapse(k) ==
    /\ idem[k].ttl
    /\ SlowWorkers \/ \A w \in Worker : ~ (at[w] \in Bound /\ KeyFor(w) = k)
    /\ idem' = [idem EXCEPT ![k] = NoHash]
    /\ crossed' = crossed \union
                     {j \in {k} : \E w \in Worker : at[w] = "expire" /\ KeyFor(w) = k}
    /\ UNCHANGED <<vars, at, req, out, answered>>

ApiStep(w) ==
    \/ HSetNx(w) \/ HGetFingerprint(w) \/ ExpireBinding(w) \/ Verified(w)
    \/ Lookup(w) \/ CallSettle(w) \/ SettleReturned(w) \/ Index(w) \/ Put(w)
    \/ Touch(w) \/ Fail(w)

SettlementStep ==
    /\ \/ \E w \in Worker : Step(w) \/ Abort(w)
       \/ \E t \in Tx : Expire(t)
       \/ Ledger
    /\ UNCHANGED apiVars

ApiNext ==
    \/ /\ \/ \E w \in Worker, t \in Tx, f \in Fp : Request(w, t, f)
          \/ \E w \in Worker : ApiStep(w)
       /\ UNCHANGED crossed
    \/ \E k \in Key : Lapse(k)
    \/ SettlementStep

ApiSpec == ApiInit /\ [][ApiNext]_allVars

-----------------------------------------------------------------------------
(* Properties *)

\* Whatever route it took (a thread, another instance's thread, the cache),
\* a verdict of /settle agrees with the ledger, and all verdicts about one
\* transaction are for one request.
AnswersAgree ==
    \A a, b \in answered : a.tx = b.tx =>
        /\ a.fp = b.fp /\ a.reply = b.reply
        /\ (a.reply = "validated") = (result[a.tx] = "delivered")
        /\ Settled(a.tx)

\* "Matching retries return cached results; mismatches return HTTP 409": a
\* request that got past bind is given no response of another request,
\* although bind and put are several commands and the hash may lapse between
\* them.  Only a hash that lapsed between the comparison and EXPIRE may mix
\* two requests up: the request goes on as bound, and is not.
CachedForItsRequest ==
    \A w \in Worker : at[w] = "lookup" =>
        \/ KeyFor(w) \in crossed
        \/ idem[KeyFor(w)].settle.fp \in {NoFp, req[w].fp}

\* The HTTP responses of /settle, cached ones included, keep the contract of
\* SettlementContract: it is what a merchant is told that is a verdict here.
Verdict200(a) == [fp |-> a.fp, status |-> a.reply]
Endpoints == INSTANCE SettlementContract WITH
    binding <- bound,
    verdict <- [t \in Tx |-> {Verdict200(a) : a \in {b \in answered : b.tx = t}}],
    paid <- {t \in Tx : result[t] = "delivered"}
EndpointsKeepContract == Endpoints!Spec

\* "Matching retries return cached results": once a success is cached, it is
\* what the identifier returns until its TTL runs out.
CachedSuccessKept ==
    [][\A k \in Key : idem[k].settle.reply = "validated" =>
          idem'[k] = NoHash \/ idem'[k].settle = idem[k].settle]_allVars
=============================================================================
