------------------------- MODULE FacilitatorApiProofs -------------------------
(***************************************************************************)
(* Proofs about FacilitatorApi, for any number of requests, identifiers,   *)
(* transactions and ledgers.  The endpoints only drive settle, so what     *)
(* SettlementProofs shows of settle carries over; on top of it the cache   *)
(* is shown to keep apart what is bound apart.                             *)
(***************************************************************************)
EXTENDS FacilitatorApi, SettlementProofs, TLAPS

(***************************************************************************)
(* The endpoints use settle as Settlement describes it                     *)
(***************************************************************************)

\* A step of the API takes one step of settle, or none.
LEMMA ApiStepSettles ==
    ASSUME ApiTypeOK, [ApiNext]_allVars
    PROVE  [Next]_vars
<1>1. ASSUME NEW w \in Worker, CallSettle(w)
      PROVE  Next
  <2>1. req[w].tx \in Tx /\ req[w].fp \in Fp
    BY <1>1 DEF CallSettle, ApiTypeOK
  <2>2. Call(w, req[w].tx, req[w].fp)
    BY <1>1 DEF CallSettle
  <2> QED BY <2>1, <2>2 DEF Next
<1>2. ASSUME NEW w \in Worker, SettleReturned(w)
      PROVE  Next
  BY <1>2 DEF SettleReturned, Next
<1>3. CASE SettlementStep
  BY <1>3 DEF SettlementStep, Next
<1>4. ASSUME NEW w \in Worker, ApiStep(w), ~ CallSettle(w), ~ SettleReturned(w)
      PROVE  UNCHANGED vars
  BY <1>4 DEF ApiStep, HSetNx, HGetFingerprint, ExpireBinding, Verified, Lookup, Index,
     Put, Touch, Fail
<1>5. CASE \/ \E w \in Worker, t \in Tx, f \in Fp : Request(w, t, f)
           \/ \E k \in Key : Lapse(k)
           \/ UNCHANGED allVars
  BY <1>5 DEF Request, Lapse, allVars
<1> QED BY <1>1, <1>2, <1>3, <1>4, <1>5 DEF ApiNext

(***************************************************************************)
(* Type correctness                                                        *)
(***************************************************************************)

\* Past settle a request holds a final response, and it only works on a
\* hash when it carries an identifier.
HoldsOutcome == \A w \in Worker : at[w] \in {"index", "put", "touch"} => out[w] \in Cacheable
HasIdentifier ==
    \A w \in Worker : at[w] \in Binding \union {"lookup", "touch"} => KeyFor(w) \in Key

ApiTypeInv == TypeOK /\ ApiTypeOK /\ HoldsOutcome /\ HasIdentifier

\* Moving on keeps the types.
LEMMA MoveType ==
    ASSUME ApiTypeInv, NEW w \in Worker,
           NEW label \in Binding \union Bound, Move(w, label), at[w] # "idle",
           label \in {"index", "put", "touch"} => out[w] \in Cacheable,
           label \in Binding \union {"lookup", "touch"} => KeyFor(w) \in Key,
           UNCHANGED <<req, out, answered, crossed>>, idem' \in [Key -> Hash]
    PROVE  ApiTypeOK' /\ HoldsOutcome' /\ HasIdentifier'
<1>1. ApiTypeOK'
  BY DEF ApiTypeInv, ApiTypeOK, Move
<1>2. HoldsOutcome'
  BY DEF ApiTypeInv, ApiTypeOK, HoldsOutcome, Move
<1>3. HasIdentifier'
  BY DEF ApiTypeInv, ApiTypeOK, HasIdentifier, Move, KeyFor
<1> QED BY <1>1, <1>2, <1>3

\* Answering keeps the types.
LEMMA ReplyType ==
    ASSUME ApiTypeInv, NEW w \in Worker, NEW a, Reply200(w, a), at[w] # "idle",
           a.reply \in Terminal => a \in Response, idem' \in [Key -> Hash], UNCHANGED crossed
    PROVE  ApiTypeOK' /\ HoldsOutcome' /\ HasIdentifier'
<1>1. req[w].fp \in Fp
  BY DEF ApiTypeInv, ApiTypeOK
<1>2. answered' \subseteq Response
  BY DEF ApiTypeInv, ApiTypeOK, Reply200
<1>3. ApiTypeOK'
  BY <1>2 DEF ApiTypeInv, ApiTypeOK, Reply200, Move, IdleJob
<1>4. HoldsOutcome'
  BY DEF ApiTypeInv, ApiTypeOK, HoldsOutcome, Reply200, Move
<1>5. HasIdentifier'
  BY DEF ApiTypeInv, ApiTypeOK, HasIdentifier, Reply200, Move, KeyFor, Binding
<1> QED BY <1>3, <1>4, <1>5

\* A response that says nothing final names no transaction.
LEMMA NoResponseSilent == NoResponse.reply \notin Terminal
BY DEF NoResponse, Terminal

\* Binding, caching and the TTL leave well-formed hashes.
LEMMA HashType ==
    ASSUME NEW hash \in Hash
    PROVE  /\ Touched(hash) \in Hash
           /\ \A f \in Fp : [hash EXCEPT !.fp = f] \in Hash
           /\ \A r \in Response : [hash EXCEPT !.settle = r] \in Hash
           /\ NoHash \in Hash
<1>1. NoHash \in Hash
  BY DEF NoHash, Hash
<1>2. Touched(hash) \in Hash
  BY DEF Touched, Hash
<1>3. \A f \in Fp : [hash EXCEPT !.fp = f] \in Hash
  BY DEF Hash
<1>4. \A r \in Response : [hash EXCEPT !.settle = r] \in Hash
  BY DEF Hash
<1> QED BY <1>1, <1>2, <1>3, <1>4

\* Every step of a request keeps the types.
LEMMA ApiStepType ==
    ASSUME ApiTypeInv, NEW w \in Worker, ApiStep(w), UNCHANGED crossed
    PROVE  ApiTypeOK' /\ HoldsOutcome' /\ HasIdentifier'
<1>1. ApiTypeOK /\ TypeOK /\ HoldsOutcome /\ HasIdentifier
  BY DEF ApiTypeInv
<1>2. at[w] # "idle" /\ req[w].tx \in Tx /\ req[w].fp \in Fp
  BY <1>1 DEF ApiStep, HSetNx, HGetFingerprint, ExpireBinding, Verified, Lookup, CallSettle,
     SettleReturned, Index, Put, Touch, Fail, ApiTypeOK
<1>3. idem \in [Key -> Hash]
  BY <1>1 DEF ApiTypeOK
<1>4. KeyFor(w) \in Key \union {NoKey}
  BY <1>2, ApiAssumption DEF KeyFor
<1>5. CASE HSetNx(w)
  <2>1. KeyFor(w) \in Key
    BY <1>1, <1>5 DEF HSetNx, HasIdentifier, Binding
  <2>2. idem' \in [Key -> Hash]
    BY <1>2, <1>3, <1>5, <2>1, HashType DEF HSetNx
  <2> QED BY <1>2, <1>5, <2>1, <2>2, MoveType DEF HSetNx, Binding
<1>6. CASE HGetFingerprint(w)
  <2>1. KeyFor(w) \in Key /\ idem' = idem
    BY <1>1, <1>6 DEF HGetFingerprint, HasIdentifier, Binding
  <2>2. CASE Move(w, "expire") /\ UNCHANGED <<req, out, answered>>
    BY <1>2, <1>3, <2>1, <2>2, MoveType DEF Binding
  <2>3. CASE ReplyOther(w)
    BY <1>2, <1>3, <2>1, <2>3, ReplyType, NoResponseSilent DEF ReplyOther
  <2> QED BY <1>6, <2>2, <2>3 DEF HGetFingerprint
<1>7. CASE ExpireBinding(w)
  <2>1. KeyFor(w) \in Key
    BY <1>1, <1>7 DEF ExpireBinding, HasIdentifier, Binding
  <2>2. idem' \in [Key -> Hash]
    BY <1>3, <1>7, <2>1, HashType DEF ExpireBinding
  <2> QED BY <1>2, <1>7, <2>1, <2>2, MoveType DEF ExpireBinding, Bound
<1>8. CASE Verified(w) \/ Fail(w)
  BY <1>2, <1>3, <1>8, ReplyType, NoResponseSilent DEF Verified, Fail, ReplyOther
<1>9. CASE Lookup(w)
  <2>1. KeyFor(w) \in Key /\ idem' = idem
    BY <1>1, <1>9 DEF Lookup, HasIdentifier
  <2>2. CASE idem[KeyFor(w)].settle # NoResponse /\ Reply200(w, idem[KeyFor(w)].settle)
    <3>1. idem[KeyFor(w)].settle \in Response
      BY <1>3, <2>1, <2>2 DEF Hash
    <3> QED BY <1>2, <1>3, <2>1, <2>2, <3>1, ReplyType
  <2>3. CASE Move(w, "settle") /\ UNCHANGED <<req, out, answered>>
    BY <1>2, <1>3, <2>1, <2>3, MoveType DEF Binding, Bound
  <2> QED BY <1>9, <2>2, <2>3 DEF Lookup
<1>10. CASE CallSettle(w)
  BY <1>2, <1>3, <1>10, MoveType DEF CallSettle, Binding, Bound
<1>11. CASE SettleReturned(w)
  <2>1. CASE ReplyOther(w)
    BY <1>2, <1>3, <1>11, <2>1, ReplyType, NoResponseSilent DEF SettleReturned, ReplyOther
  <2>2. CASE /\ Final(reply[w])
             /\ Move(w, IF reply[w] = "validated" THEN "index" ELSE "put")
             /\ out' = [out EXCEPT ![w] = reply[w]]
             /\ UNCHANGED <<req, answered>>
    <3>1. /\ idem' = idem /\ reply[w] \in Cacheable
          /\ at' = [at EXCEPT ![w] = IF reply[w] = "validated" THEN "index" ELSE "put"]
      BY <1>11, <2>2 DEF SettleReturned, Final, Move
    <3>2. ApiTypeOK'
      BY <1>1, <1>2, <2>2, <3>1 DEF ApiTypeOK, Bound
    <3>3. HoldsOutcome'
      BY <1>1, <2>2, <3>1 DEF ApiTypeOK, HoldsOutcome
    <3>4. HasIdentifier'
      BY <1>1, <2>2, <3>1 DEF ApiTypeOK, HasIdentifier, KeyFor, Binding
    <3> QED BY <3>2, <3>3, <3>4
  <2> QED BY <1>11, <2>1, <2>2 DEF SettleReturned
<1>12. CASE Index(w)
  BY <1>1, <1>2, <1>3, <1>12, MoveType DEF Index, HoldsOutcome, Binding, Bound
<1>13. CASE Put(w)
  <2>1. out[w] \in Cacheable /\ ResponseOf(w, out[w]) \in Response
    BY <1>1, <1>2, <1>13 DEF Put, HoldsOutcome, ResponseOf, Response
  <2>2. CASE Reply200(w, ResponseOf(w, out[w])) /\ UNCHANGED idem
    BY <1>2, <1>3, <2>1, <2>2, ReplyType
  <2>3. CASE /\ KeyFor(w) # NoKey
             /\ idem' = [idem EXCEPT ![KeyFor(w)].settle = ResponseOf(w, out[w])]
             /\ Move(w, "touch")
             /\ UNCHANGED <<req, out, answered>>
    <3>1. KeyFor(w) \in Key
      BY <1>4, <2>3
    <3>2. idem' \in [Key -> Hash]
      BY <1>3, <2>1, <2>3, <3>1, HashType
    <3> QED BY <1>2, <2>1, <2>3, <3>1, <3>2, MoveType DEF Bound
  <2> QED BY <1>13, <2>2, <2>3 DEF Put
<1>14. CASE Touch(w)
  <2>1. KeyFor(w) \in Key
    BY <1>1, <1>14 DEF Touch, HasIdentifier
  <2>2. idem' \in [Key -> Hash]
    BY <1>3, <1>14, <2>1, HashType DEF Touch
  <2>3. ResponseOf(w, out[w]) \in Response
    BY <1>1, <1>2, <1>14 DEF Touch, HoldsOutcome, ResponseOf, Response
  <2> QED BY <1>2, <1>14, <2>2, <2>3, ReplyType DEF Touch
<1> QED
  BY <1>5, <1>6, <1>7, <1>8, <1>9, <1>10, <1>11, <1>12, <1>13, <1>14 DEF ApiStep

\* Every step of the facilitator keeps the types.
LEMMA ApiNextType == ApiTypeInv /\ [ApiNext]_allVars => ApiTypeInv'
<1> SUFFICES ASSUME ApiTypeInv, [ApiNext]_allVars
             PROVE  ApiTypeInv'
  OBVIOUS
<1>1. TypeOK'
  BY ApiStepSettles, StepType DEF ApiTypeInv
<1>2. ASSUME NEW w \in Worker, NEW t \in Tx, NEW f \in Fp, Request(w, t, f), UNCHANGED crossed
      PROVE  ApiTypeOK' /\ HoldsOutcome' /\ HasIdentifier'
  <2>1. KeyOf[f] \in Key \union {NoKey}
    BY ApiAssumption
  <2>2. ApiTypeOK'
    BY <1>2 DEF ApiTypeInv, ApiTypeOK, Request, Move, Binding, Bound
  <2>3. HoldsOutcome'
    BY <1>2 DEF ApiTypeInv, ApiTypeOK, HoldsOutcome, Request, Move
  <2>4. HasIdentifier'
    BY <1>2, <2>1 DEF ApiTypeInv, ApiTypeOK, HasIdentifier, Request, Move, KeyFor, Binding
  <2> QED BY <2>2, <2>3, <2>4
<1>3. ASSUME NEW k \in Key, Lapse(k)
      PROVE  ApiTypeOK' /\ HoldsOutcome' /\ HasIdentifier'
  <2>1. idem' \in [Key -> Hash]
    BY <1>3, HashType DEF ApiTypeInv, ApiTypeOK, Lapse
  <2> QED BY <1>3, <2>1 DEF ApiTypeInv, ApiTypeOK, HoldsOutcome, HasIdentifier, KeyFor, Lapse
<1>4. CASE SettlementStep \/ UNCHANGED allVars
  <2>1. UNCHANGED <<idem, at, req, out, answered, crossed>>
    BY <1>4 DEF SettlementStep, allVars, apiVars
  <2>2. ApiTypeOK'
    BY <2>1 DEF ApiTypeInv, ApiTypeOK
  <2>3. HoldsOutcome' /\ HasIdentifier'
    BY <2>1 DEF ApiTypeInv, HoldsOutcome, HasIdentifier, KeyFor
  <2> QED BY <1>1, <2>2, <2>3 DEF ApiTypeInv
<1> QED BY <1>1, <1>2, <1>3, <1>4, ApiStepType DEF ApiNext, ApiTypeInv

\* The initial state of the API is well typed.
LEMMA ApiInitType == ApiInit => ApiTypeInv
<1> SUFFICES ASSUME ApiInit
             PROVE  ApiTypeInv
  OBVIOUS
<1>1. TypeOK
  BY InitType DEF ApiInit
<1>2. NoHash \in Hash
  BY DEF NoHash, Hash
<1>3. ApiTypeOK
  BY <1>2 DEF ApiInit, ApiTypeOK, IdleJob
<1>4. HoldsOutcome /\ HasIdentifier
  BY DEF ApiInit, HoldsOutcome, HasIdentifier, Binding
<1> QED BY <1>1, <1>3, <1>4 DEF ApiTypeInv

\* The types of the endpoints' state, with what their responses rest on.
THEOREM ApiTypeInvariant == ApiSpec => []ApiTypeInv
BY ApiInitType, ApiNextType, PTL DEF ApiSpec

\* The hashes, requests and responses of the endpoints always have their
\* types: nothing is cached or answered that is not a response.
THEOREM ApiTypeCorrect == ApiSpec => []ApiTypeOK
<1>1. ApiTypeInv => ApiTypeOK
  BY DEF ApiTypeInv
<1> QED BY <1>1, ApiTypeInvariant, PTL

\* The endpoints, whatever requests, cache and Redis do, call settle only as
\* Settlement allows: every theorem about Spec holds of the API.
THEOREM ApiImplementsSettlement == ApiSpec => Spec
<1>1. ApiInit => Init
  BY DEF ApiInit
<1>2. ApiTypeInv /\ [ApiNext]_allVars => [Next]_vars
  BY ApiStepSettles DEF ApiTypeInv
<1> QED BY <1>1, <1>2, ApiTypeInvariant, PTL DEF ApiSpec, Spec

(***************************************************************************)
(* An identifier stands for one request                                    *)
(***************************************************************************)

\* Of an identifier that was never crossed by a lapse: a request past bind
\* finds its own fingerprint in its hash for as long as it runs, and a hash
\* holds only a response of the request it is bound to.
BoundToRequest ==
    \A w \in Worker : at[w] \in {"expire"} \union Bound /\ KeyFor(w) # NoKey =>
        KeyFor(w) \in crossed \/ idem[KeyFor(w)].fp = req[w].fp
ResponseOfBinding == \A k \in Key \ crossed : idem[k].settle.fp \in {NoFp, idem[k].fp}

CacheInv == ApiTypeInv /\ BoundToRequest /\ ResponseOfBinding

\* A step of one request leaves every other request where it is.
LEMMA OtherRequests ==
    ASSUME ApiTypeOK, NEW w \in Worker, NEW v \in Worker, v # w,
           ApiStep(w) \/ \E t \in Tx, f \in Fp : Request(w, t, f)
    PROVE  at'[v] = at[v] /\ req'[v] = req[v] /\ out'[v] = out[v]
<1>1. ASSUME NEW label, Move(w, label)
      PROVE  at'[v] = at[v]
  BY <1>1 DEF Move, ApiTypeOK
<1>2. ASSUME NEW a, Reply200(w, a)
      PROVE  at'[v] = at[v] /\ req'[v] = req[v] /\ out'[v] = out[v]
  BY <1>2 DEF Reply200, Move, ApiTypeOK
<1>3. CASE SettleReturned(w)
  BY <1>1, <1>2, <1>3 DEF SettleReturned, ReplyOther, ApiTypeOK
<1>4. CASE \E t \in Tx, f \in Fp : Request(w, t, f)
  BY <1>1, <1>4 DEF Request, ApiTypeOK
<1>5. CASE HSetNx(w) \/ HGetFingerprint(w) \/ ExpireBinding(w) \/ Verified(w)
  BY <1>1, <1>2, <1>5 DEF HSetNx, HGetFingerprint, ExpireBinding, Verified, ReplyOther
<1>6. CASE Lookup(w) \/ CallSettle(w) \/ Index(w) \/ Put(w) \/ Touch(w) \/ Fail(w)
  BY <1>1, <1>2, <1>6 DEF Lookup, CallSettle, Index, Put, Touch, Fail, ReplyOther
<1> QED BY <1>3, <1>4, <1>5, <1>6 DEF ApiStep

\* Only a request that was bound, or finds itself bound, goes on as bound.
LEMMA OwnRequest ==
    ASSUME ApiTypeOK, NEW w \in Worker, ApiStep(w), at'[w] \in {"expire"} \union Bound
    PROVE  /\ req'[w] = req[w]
           /\ at[w] \in {"expire"} \union Bound \/ (at[w] = "hget" /\ SameRequest(w))
<1>1. ASSUME NEW a, Reply200(w, a)
      PROVE  FALSE
  BY <1>1 DEF Reply200, Move, ApiTypeOK, Bound
<1>2. ~ HSetNx(w)
  BY DEF HSetNx, Move, ApiTypeOK, Bound
<1>3. CASE HGetFingerprint(w) \/ ExpireBinding(w)
  BY <1>1, <1>3 DEF HGetFingerprint, ExpireBinding, ReplyOther
<1>4. CASE Lookup(w) \/ CallSettle(w) \/ SettleReturned(w) \/ Index(w) \/ Put(w)
  BY <1>1, <1>4 DEF Lookup, CallSettle, SettleReturned, Index, Put, ReplyOther, Bound
<1> QED BY <1>1, <1>2, <1>3, <1>4 DEF ApiStep, Verified, Touch, Fail, ReplyOther

\* No command of a request rebinds a hash, and put writes the response of
\* the bound request, if no hash lapsed under a request that holds it.
LEMMA BindingKept ==
    ASSUME CacheInv, NEW w \in Worker, ApiStep(w), NEW k \in Key \ crossed
    PROVE  /\ idem[k].fp # NoFp => idem'[k].fp = idem[k].fp
           /\ idem'[k].settle.fp \in {NoFp, idem'[k].fp}
<1>1. /\ idem \in [Key -> Hash] /\ idem[k] \in Hash
      /\ idem[k].settle.fp \in {NoFp, idem[k].fp}
  BY DEF CacheInv, ApiTypeInv, ApiTypeOK, ResponseOfBinding
<1>2. CASE idem'[k] = idem[k]
  BY <1>1, <1>2
<1>3. CASE idem'[k] = [idem[k] EXCEPT !.fp = req[w].fp] /\ idem[k].fp = NoFp
  BY <1>1, <1>3 DEF Hash
<1>4. CASE idem'[k] = Touched(idem[k])
  BY <1>1, <1>4 DEF Touched, Hash
<1>5. CASE Put(w) /\ KeyFor(w) = k
  <2>1. KeyFor(w) # NoKey /\ at[w] = "put"
    BY <1>5, ApiAssumption DEF Put
  <2>2. idem[k].fp = req[w].fp
    BY <1>5, <2>1 DEF CacheInv, BoundToRequest, Bound
  <2>3. idem' = [idem EXCEPT ![k].settle = ResponseOf(w, out[w])]
    BY <1>5, <2>1 DEF Put
  <2>4. idem'[k] = [idem[k] EXCEPT !.settle = ResponseOf(w, out[w])]
    BY <1>1, <2>3
  <2>5. idem'[k].fp = idem[k].fp /\ idem'[k].settle = ResponseOf(w, out[w])
    BY <1>1, <2>4 DEF Hash
  <2> QED BY <2>2, <2>5 DEF ResponseOf
<1>6. CASE HSetNx(w)
  BY <1>1, <1>2, <1>3, <1>6 DEF HSetNx
<1>7. CASE ExpireBinding(w) \/ Touch(w)
  BY <1>1, <1>2, <1>4, <1>7 DEF ExpireBinding, Touch
<1>8. CASE Put(w) /\ KeyFor(w) # k
  BY <1>1, <1>2, <1>8 DEF Put
<1> QED
  BY <1>2, <1>5, <1>6, <1>7, <1>8 DEF ApiStep, HGetFingerprint, Verified, Lookup, CallSettle,
     SettleReturned, Index, Fail

\* Bound requests stay bound, when no hash lapses past the end of its bind.
LEMMA CacheStep ==
    ASSUME ~ SlowWorkers, CacheInv, [ApiNext]_allVars
    PROVE  CacheInv'
<1>1. ApiTypeInv /\ ApiTypeInv' /\ ApiTypeOK
  BY ApiNextType DEF CacheInv, ApiTypeInv
<1>2. \A w \in Worker : at[w] # "idle" => req[w].fp \in Fp /\ req[w].fp # NoFp
  BY <1>1, NoFpAssumption DEF ApiTypeOK
<1>3. \A w \in Worker : at[w] # "idle" => KeyFor(w) \in Key \union {NoKey}
  BY <1>2, ApiAssumption DEF KeyFor
<1>4. ASSUME NEW w \in Worker, ApiStep(w)
      PROVE  UNCHANGED crossed => BoundToRequest' /\ ResponseOfBinding'
  <2> HAVE UNCHANGED crossed
  <2>1. ResponseOfBinding'
    BY <1>4, BindingKept DEF ResponseOfBinding
  <2>2. ASSUME NEW v \in Worker, at'[v] \in {"expire"} \union Bound, KeyOf[req'[v].fp] # NoKey,
             KeyOf[req'[v].fp] \notin crossed
        PROVE  idem'[KeyOf[req'[v].fp]].fp = req'[v].fp
    <3>1. /\ req'[v] = req[v]
          /\ at[v] \in {"expire"} \union Bound \/ (at[v] = "hget" /\ SameRequest(v))
      BY <1>1, <1>4, <2>2, OtherRequests, OwnRequest
    <3>2. at[v] # "idle" /\ KeyFor(v) \in Key \ crossed
      BY <1>3, <2>2, <3>1 DEF Bound, KeyFor
    <3>3. idem[KeyFor(v)].fp = req[v].fp
      BY <2>2, <3>1 DEF CacheInv, BoundToRequest, SameRequest, KeyFor
    <3>4. idem'[KeyFor(v)].fp = idem[KeyFor(v)].fp
      BY <1>2, <1>4, <3>2, <3>3, BindingKept
    <3> QED BY <3>1, <3>3, <3>4 DEF KeyFor
  <2> QED BY <2>1, <2>2 DEF BoundToRequest, KeyFor
<1>5. ASSUME NEW w \in Worker, NEW t \in Tx, NEW f \in Fp, Request(w, t, f)
      PROVE  UNCHANGED crossed => BoundToRequest' /\ ResponseOfBinding'
  <2> HAVE UNCHANGED crossed
  <2>1. /\ idem' = idem /\ req'[w].fp = f
        /\ at'[w] = IF KeyOf[f] = NoKey THEN "settle" ELSE "hsetnx"
    BY <1>1, <1>5 DEF Request, Move, ApiTypeOK
  <2>2. \A v \in Worker \ {w} : at'[v] = at[v] /\ req'[v] = req[v]
    BY <1>1, <1>5, OtherRequests
  <2>3. ResponseOfBinding'
    BY <2>1 DEF CacheInv, ResponseOfBinding
  <2>4. BoundToRequest'
    BY <2>1, <2>2 DEF CacheInv, BoundToRequest, KeyFor, Bound
  <2> QED BY <2>3, <2>4
<1>6. ASSUME NEW k \in Key, Lapse(k)
      PROVE  BoundToRequest' /\ ResponseOfBinding'
  <2>1. \A w \in Worker : at[w] \in Bound => KeyFor(w) # k
    BY <1>6 DEF Lapse
  <2>2. idem' = [idem EXCEPT ![k] = NoHash] /\ UNCHANGED <<at, req>>
    BY <1>6 DEF Lapse
  <2>3. /\ crossed \subseteq crossed'
        /\ \A w \in Worker : at[w] = "expire" /\ KeyFor(w) = k => k \in crossed'
    BY <1>6 DEF Lapse
  <2>4. BoundToRequest'
    BY <1>1, <1>3, <2>1, <2>2, <2>3 DEF CacheInv, BoundToRequest, KeyFor, ApiTypeOK, Bound
  <2>5. ResponseOfBinding'
    BY <1>1, <2>2, <2>3 DEF CacheInv, ResponseOfBinding, ApiTypeOK, NoHash, NoResponse
  <2> QED BY <2>4, <2>5
<1>7. CASE SettlementStep \/ UNCHANGED allVars
  <2>1. UNCHANGED <<idem, at, req, crossed>>
    BY <1>7 DEF SettlementStep, allVars, apiVars
  <2>2. BoundToRequest' /\ ResponseOfBinding'
    BY <2>1 DEF CacheInv, BoundToRequest, ResponseOfBinding, KeyFor
  <2> QED BY <1>1, <2>2 DEF CacheInv
<1> QED BY <1>1, <1>4, <1>5, <1>6, <1>7 DEF ApiNext, CacheInv

\* A request that got past bind is only shown responses of itself, whenever
\* hashes lapse, unless one lapsed between the comparison and EXPIRE.
THEOREM CachedTheorem ==
    ASSUME ~ SlowWorkers
    PROVE  ApiSpec => []CachedForItsRequest
<1>1. ApiInit => CacheInv
  <2>1. ASSUME ApiInit
        PROVE  BoundToRequest /\ ResponseOfBinding
    BY <2>1 DEF ApiInit, BoundToRequest, ResponseOfBinding, Bound, NoHash, NoResponse
  <2> QED BY <2>1, ApiInitType DEF CacheInv
<1>2. CacheInv /\ [ApiNext]_allVars => CacheInv'
  BY CacheStep
<1>3. CacheInv => CachedForItsRequest
  <2> SUFFICES ASSUME CacheInv, NEW w \in Worker, at[w] = "lookup", KeyFor(w) \notin crossed
               PROVE  idem[KeyFor(w)].settle.fp \in {NoFp, req[w].fp}
    BY DEF CachedForItsRequest
  <2>1. KeyFor(w) \in Key
    BY DEF CacheInv, ApiTypeInv, HasIdentifier
  <2>2. idem[KeyFor(w)].fp = req[w].fp
    BY <2>1, ApiAssumption DEF CacheInv, BoundToRequest, Bound
  <2> QED BY <2>1, <2>2 DEF CacheInv, ResponseOfBinding
<1> QED BY <1>1, <1>2, <1>3, PTL DEF ApiSpec

(***************************************************************************)
(* Whatever is answered was told by settle                                 *)
(***************************************************************************)

\* Settle said s of transaction t to a request with fingerprint f.
Told(t, f, s) == s \in Terminal => t \in Tx /\ [fp |-> f, status |-> s] \in told[t]

SettlingOwn ==
    \A w \in Worker : /\ at[w] = "settling" => job[w] = req[w]
                      /\ pc[w] # "idle" => at[w] = "settling"
DoneIsTold == \A w \in Worker : pc[w] = "done" => Told(job[w].tx, job[w].fp, reply[w])
OutcomeIsTold ==
    \A w \in Worker : at[w] \in {"index", "put", "touch"} =>
        Told(req[w].tx, req[w].fp, out[w])
CacheIsTold ==
    \A k \in Key : Told(idem[k].settle.tx, idem[k].settle.fp, idem[k].settle.reply)
AnsweredIsTold == \A a \in answered : a.reply \in Terminal /\ Told(a.tx, a.fp, a.reply)

AnswerInv ==
    /\ ApiTypeInv
    /\ SettlingOwn /\ DoneIsTold /\ OutcomeIsTold /\ CacheIsTold /\ AnsweredIsTold

\* What settle has told stays told.
LEMMA ToldGrows ==
    ASSUME TypeOK, [Next]_vars, NEW t \in Tx
    PROVE  told[t] \subseteq told'[t]
<1>1. ASSUME NEW w \in Worker, NEW r, Finish(w, r)
      PROVE  told[t] \subseteq told'[t]
  BY <1>1 DEF Finish, TypeOK
<1>2. CASE UNCHANGED told
  BY <1>2
<1> QED
  BY <1>1, <1>2 DEF Next, Step, vars, historyVars, Call, Get, Reget, Existing, VerifyWindow,
     VerifyAccount, VerifySimulation, ReadFirstLedger, Reserve, Submit, Poll, Query,
     CheckExpiry, Update, Abort, Return, Expire, Ledger, Reconcile, Goto, Proceed, Conclude

\* So whatever was told of a transaction still was after any step.
LEMMA StaysTold ==
    ASSUME TypeOK, [Next]_vars, NEW t, NEW f, NEW s, Told(t, f, s)
    PROVE  s \in Terminal => t \in Tx /\ [fp |-> f, status |-> s] \in told'[t]
BY ToldGrows DEF Told

\* A settle call that ends has told its caller what it answers.
LEMMA EndTells ==
    ASSUME TypeOK, NEW w \in Worker, Step(w) \/ Abort(w)
    PROVE  /\ pc[w] # "idle" /\ job' = job
           /\ pc'[w] = "done" =>
                 (reply'[w] \in Terminal => /\ job[w].tx \in Tx
                                            /\ [fp |-> job[w].fp, status |-> reply'[w]]
                                                  \in told'[job[w].tx])
<1>1. pc[w] \notin {"idle", "done"} /\ job' = job
  BY DEF Step, Abort, Get, Reget, VerifyWindow, VerifyAccount, VerifySimulation,
     ReadFirstLedger, Reserve, Submit, Poll, Query, CheckExpiry, Update
<1>2. job[w].tx \in Tx
  BY <1>1 DEF TypeOK
<1>3. ASSUME NEW r, Finish(w, r)
      PROVE  reply'[w] \in Terminal =>
                [fp |-> job[w].fp, status |-> reply'[w]] \in told'[job[w].tx]
  BY <1>2, <1>3 DEF Finish, TypeOK
<1>4. ASSUME NEW label \in PC \ {"done"}, Proceed(w, label)
      PROVE  pc'[w] # "done"
  BY <1>4 DEF Proceed, TypeOK
<1>5. ASSUME NEW r, Conclude(w, r)
      PROVE  pc'[w] # "done"
  BY <1>5 DEF Conclude, TypeOK
<1>6. {"window", "account", "simulate", "first", "reserve", "reget", "submit", "wait", "query",
       "expiry"} \subseteq PC \ {"done"}
  BY DEF PC, Verifying, Owning
<1>7. CASE Get(w) \/ Reget(w) \/ VerifyWindow(w) \/ VerifyAccount(w) \/ VerifySimulation(w)
  BY <1>1, <1>2, <1>3, <1>4, <1>6, <1>7 DEF Get, Reget, Existing, Reconcile, Goto, VerifyWindow,
     VerifyAccount, VerifySimulation
<1>8. CASE ReadFirstLedger(w) \/ Reserve(w) \/ Submit(w)
  BY <1>1, <1>2, <1>3, <1>4, <1>6, <1>8 DEF ReadFirstLedger, Reserve, AfterReserve, Goto,
     Submit
<1>9. CASE Poll(w) \/ Query(w) \/ CheckExpiry(w) \/ Update(w) \/ Abort(w)
  BY <1>1, <1>2, <1>3, <1>4, <1>5, <1>6, <1>9 DEF Poll, Query, CheckExpiry, Goto, Update, Abort
<1> QED BY <1>7, <1>8, <1>9 DEF Step

\* A request that is settling is the one its thread settles.
LEMMA SettlingStep ==
    ASSUME AnswerInv, [ApiNext]_allVars
    PROVE  SettlingOwn'
<1>1. TypeOK /\ ApiTypeOK /\ SettlingOwn
  BY DEF AnswerInv, ApiTypeInv
<1>2. ASSUME NEW w \in Worker, ApiStep(w)
      PROVE  SettlingOwn'
  <2>1. CASE CallSettle(w)
    <3>1. /\ pc' = [pc EXCEPT ![w] = "get"]
          /\ job' = [job EXCEPT ![w] = [tx |-> req[w].tx, fp |-> req[w].fp]]
          /\ at' = [at EXCEPT ![w] = "settling"] /\ req' = req
      BY <2>1 DEF CallSettle, Call, Move
    <3>2. [tx |-> req[w].tx, fp |-> req[w].fp] = req[w]
      BY <1>1 DEF ApiTypeOK
    <3> QED BY <1>1, <3>1, <3>2 DEF SettlingOwn, TypeOK, ApiTypeOK
  <2>2. CASE SettleReturned(w)
    <3>1. pc' = [pc EXCEPT ![w] = "idle"] /\ job' = [job EXCEPT ![w] = IdleJob]
      BY <2>2 DEF SettleReturned, Return
    <3>2. at'[w] # "settling"
      BY <1>1, <2>2 DEF SettleReturned, ReplyOther, Reply200, Move, ApiTypeOK
    <3>3. \A v \in Worker \ {w} : at'[v] = at[v] /\ req'[v] = req[v]
      BY <1>1, <1>2, OtherRequests
    <3> QED BY <1>1, <3>1, <3>2, <3>3 DEF SettlingOwn, TypeOK
  <2>3. CASE ~ CallSettle(w) /\ ~ SettleReturned(w)
    <3>1. pc' = pc /\ job' = job
      BY <1>2, <2>3 DEF ApiStep, HSetNx, HGetFingerprint, ExpireBinding, Verified, Lookup,
         Index, Put, Touch, Fail, vars, workVars
    <3>2. at[w] # "settling" /\ at'[w] # "settling"
      BY <1>1, <1>2, <2>3 DEF ApiStep, HSetNx, HGetFingerprint, ExpireBinding, Verified,
         Lookup, Index, Put, Touch, Fail, ReplyOther, Reply200, Move, ApiTypeOK
    <3>3. \A v \in Worker \ {w} : at'[v] = at[v] /\ req'[v] = req[v]
      BY <1>1, <1>2, OtherRequests
    <3> QED BY <1>1, <3>1, <3>2, <3>3 DEF SettlingOwn
  <2> QED BY <2>1, <2>2, <2>3
<1>3. ASSUME NEW w \in Worker, NEW t \in Tx, NEW f \in Fp, Request(w, t, f)
      PROVE  SettlingOwn'
  <2>1. pc' = pc /\ job' = job /\ at[w] = "idle" /\ at'[w] # "settling"
    BY <1>1, <1>3 DEF Request, Move, vars, workVars, ApiTypeOK
  <2>2. \A v \in Worker \ {w} : at'[v] = at[v] /\ req'[v] = req[v]
    BY <1>1, <1>3, OtherRequests
  <2> QED BY <1>1, <2>1, <2>2 DEF SettlingOwn
<1>4. CASE SettlementStep
  <2>1. at' = at /\ req' = req
    BY <1>4 DEF SettlementStep, apiVars
  <2>2. ASSUME NEW w \in Worker, Step(w) \/ Abort(w)
        PROVE  SettlingOwn'
    <3>1. pc[w] # "idle" /\ job' = job
      BY <1>1, <2>2, EndTells
    <3>2. \A v \in Worker \ {w} : pc'[v] = pc[v]
      BY <1>1, <2>2, OthersUnmoved
    <3> QED BY <1>1, <2>1, <3>1, <3>2 DEF SettlingOwn
  <2>3. CASE Ledger \/ \E t \in Tx : Expire(t)
    BY <1>1, <2>1, <2>3 DEF SettlingOwn, Ledger, Expire, workVars
  <2> QED BY <1>4, <2>2, <2>3 DEF SettlementStep
<1>5. CASE UNCHANGED allVars \/ \E k \in Key : Lapse(k)
  <2>1. pc' = pc /\ job' = job /\ at' = at /\ req' = req
    BY <1>5 DEF Lapse, allVars, apiVars, vars, workVars
  <2> QED BY <1>1, <2>1 DEF SettlingOwn
<1> QED BY <1>2, <1>3, <1>4, <1>5 DEF ApiNext

\* What a finished settle call answers was told.
LEMMA DoneStep ==
    ASSUME AnswerInv, [ApiNext]_allVars
    PROVE  DoneIsTold'
<1>1. TypeOK /\ ApiTypeOK /\ DoneIsTold /\ [Next]_vars
  BY ApiStepSettles DEF AnswerInv, ApiTypeInv
<1> SUFFICES ASSUME NEW v \in Worker, pc'[v] = "done"
             PROVE  Told(job[v].tx, job[v].fp, reply[v])'
  BY DEF DoneIsTold
<1>2. CASE pc'[v] = pc[v] /\ job'[v] = job[v] /\ reply'[v] = reply[v]
  <2>1. Told(job[v].tx, job[v].fp, reply[v])
    BY <1>1, <1>2 DEF DoneIsTold
  <2> QED BY <1>1, <1>2, <2>1, StaysTold DEF Told
<1>3. CASE Step(v) \/ Abort(v)
  BY <1>1, <1>3, EndTells DEF Told
<1>4. ASSUME NEW w \in Worker, w # v,
             \/ \E t \in Tx, f \in Fp : Call(w, t, f)
             \/ Step(w) \/ Abort(w) \/ Return(w)
      PROVE  pc'[v] = pc[v] /\ job'[v] = job[v] /\ reply'[v] = reply[v]
  BY <1>1, <1>4, OthersUnmoved
<1>5. CASE Return(v) \/ \E t \in Tx, f \in Fp : Call(v, t, f)
  BY <1>1, <1>5 DEF Return, Call, TypeOK
<1>6. CASE Ledger \/ (\E t \in Tx : Expire(t)) \/ UNCHANGED vars
  BY <1>2, <1>6 DEF Ledger, Expire, vars, workVars
<1> QED BY <1>1, <1>2, <1>3, <1>4, <1>5, <1>6 DEF Next

\* The response a request carries from settle to the cache was told to it.
LEMMA OutcomeStep ==
    ASSUME AnswerInv, [ApiNext]_allVars
    PROVE  OutcomeIsTold'
<1>1. /\ TypeOK /\ ApiTypeOK /\ [Next]_vars
      /\ SettlingOwn /\ DoneIsTold /\ OutcomeIsTold
  BY ApiStepSettles DEF AnswerInv, ApiTypeInv
<1> SUFFICES ASSUME NEW v \in Worker, at'[v] \in {"index", "put", "touch"}
             PROVE  Told(req[v].tx, req[v].fp, out[v])'
  BY DEF OutcomeIsTold
<1>2. CASE /\ at[v] \in {"index", "put", "touch"}
           /\ req'[v] = req[v] /\ out'[v] = out[v]
  <2>1. Told(req[v].tx, req[v].fp, out[v])
    BY <1>1, <1>2 DEF OutcomeIsTold
  <2> QED BY <1>1, <1>2, <2>1, StaysTold DEF Told
<1>3. CASE SettleReturned(v)
  <2>1. req'[v] = req[v] /\ out'[v] = reply[v]
    BY <1>1, <1>3 DEF SettleReturned, ReplyOther, Reply200, Move, ApiTypeOK
  <2>2. job[v] = req[v] /\ Told(job[v].tx, job[v].fp, reply[v])
    BY <1>1, <1>3 DEF SettleReturned, Return, SettlingOwn, DoneIsTold
  <2> QED BY <1>1, <2>1, <2>2, StaysTold DEF Told
<1>4. CASE ApiStep(v) /\ ~ SettleReturned(v)
  <2>1. ASSUME NEW a, Reply200(v, a)
        PROVE  FALSE
    BY <1>1, <2>1 DEF Reply200, Move, ApiTypeOK
  <2>2. CASE Index(v) \/ Put(v)
    BY <1>2, <2>1, <2>2 DEF Index, Put
  <2>3. ASSUME HSetNx(v) \/ HGetFingerprint(v) \/ ExpireBinding(v) \/ Lookup(v) \/ CallSettle(v)
        PROVE  FALSE
    BY <1>1, <2>1, <2>3 DEF HSetNx, HGetFingerprint, ExpireBinding, Lookup, CallSettle,
       ReplyOther, Move, ApiTypeOK
  <2> QED BY <1>4, <2>1, <2>2, <2>3 DEF ApiStep, Verified, Touch, Fail, ReplyOther
<1>5. ASSUME NEW t \in Tx, NEW f \in Fp, Request(v, t, f)
      PROVE  FALSE
  BY <1>1, <1>5 DEF Request, Move, ApiTypeOK
<1>6. ASSUME NEW w \in Worker, w # v, ApiStep(w) \/ \E t \in Tx, f \in Fp : Request(w, t, f)
      PROVE  at'[v] = at[v] /\ req'[v] = req[v] /\ out'[v] = out[v]
  BY <1>1, <1>6, OtherRequests
<1>7. CASE SettlementStep \/ (\E k \in Key : Lapse(k)) \/ UNCHANGED allVars
  BY <1>2, <1>7 DEF SettlementStep, Lapse, allVars, apiVars
<1> QED BY <1>2, <1>3, <1>4, <1>5, <1>6, <1>7 DEF ApiNext

\* Whatever is cached was told.
LEMMA CacheToldStep ==
    ASSUME AnswerInv, [ApiNext]_allVars
    PROVE  CacheIsTold'
<1>1. /\ TypeOK /\ ApiTypeOK /\ [Next]_vars /\ OutcomeIsTold /\ CacheIsTold
      /\ idem \in [Key -> Hash]
  BY ApiStepSettles DEF AnswerInv, ApiTypeInv, ApiTypeOK
<1> SUFFICES ASSUME NEW k \in Key
             PROVE  Told(idem[k].settle.tx, idem[k].settle.fp, idem[k].settle.reply)'
  BY DEF CacheIsTold
<1>2. idem[k] \in Hash
  BY <1>1
<1>3. CASE idem'[k].settle = idem[k].settle
  <2>1. Told(idem[k].settle.tx, idem[k].settle.fp, idem[k].settle.reply)
    BY <1>1 DEF CacheIsTold
  <2> QED BY <1>1, <1>3, <2>1, StaysTold DEF Told
<1>4. CASE idem'[k] = NoHash
  BY <1>4 DEF Told, NoHash, NoResponse, Terminal
<1>5. ASSUME NEW w \in Worker, HSetNx(w)
      PROVE  idem'[k].settle = idem[k].settle
  BY <1>1, <1>2, <1>5 DEF HSetNx, Hash
<1>6. ASSUME NEW w \in Worker, ExpireBinding(w) \/ Touch(w)
      PROVE  idem'[k].settle = idem[k].settle
  <2>1. idem'[k] \in {idem[k], Touched(idem[k])}
    BY <1>1, <1>6 DEF ExpireBinding, Touch
  <2> QED BY <1>2, <2>1 DEF Touched, Hash
<1>7. ASSUME NEW w \in Worker, Put(w), idem'[k].settle # idem[k].settle
      PROVE  Told(idem[k].settle.tx, idem[k].settle.fp, idem[k].settle.reply)'
  <2>1. idem' = [idem EXCEPT ![KeyFor(w)].settle = ResponseOf(w, out[w])]
    BY <1>7 DEF Put
  <2>2. KeyFor(w) = k
    BY <1>1, <1>7, <2>1
  <2>3. idem'[k] = [idem[k] EXCEPT !.settle = ResponseOf(w, out[w])]
    BY <1>1, <2>1, <2>2
  <2>4. idem'[k].settle = ResponseOf(w, out[w])
    BY <1>2, <2>3 DEF Hash
  <2>5. Told(req[w].tx, req[w].fp, out[w])
    BY <1>1, <1>7 DEF Put, OutcomeIsTold
  <2> QED BY <1>1, <2>4, <2>5, StaysTold DEF Told, ResponseOf
<1>8. ASSUME NEW w \in Worker, ApiStep(w)
      PROVE  Told(idem[k].settle.tx, idem[k].settle.fp, idem[k].settle.reply)'
  BY <1>3, <1>5, <1>6, <1>7, <1>8 DEF ApiStep, HGetFingerprint, Verified, Lookup, CallSettle,
     SettleReturned, Index, Fail
<1>9. ASSUME NEW j \in Key, Lapse(j)
      PROVE  Told(idem[k].settle.tx, idem[k].settle.fp, idem[k].settle.reply)'
  BY <1>1, <1>3, <1>4, <1>9 DEF Lapse
<1>10. CASE \/ \E w \in Worker, t \in Tx, f \in Fp : Request(w, t, f)
            \/ SettlementStep \/ UNCHANGED allVars
  BY <1>3, <1>10 DEF Request, SettlementStep, allVars, apiVars
<1> QED BY <1>8, <1>9, <1>10 DEF ApiNext

\* A request answers what it was told, or what is cached for it.
LEMMA AnsweredStep ==
    ASSUME AnswerInv, [ApiNext]_allVars
    PROVE  AnsweredIsTold'
<1>1. /\ TypeOK /\ ApiTypeOK /\ [Next]_vars /\ OutcomeIsTold /\ CacheIsTold /\ AnsweredIsTold
      /\ HoldsOutcome /\ HasIdentifier
  BY ApiStepSettles DEF AnswerInv, ApiTypeInv
<1>2. CASE answered' = answered
  BY <1>1, <1>2, StaysTold DEF AnsweredIsTold, Told
<1>3. ASSUME NEW w \in Worker, NEW a, Reply200(w, a),
             a.reply \in Terminal => a \in Response,
             Told(a.tx, a.fp, a.reply)
      PROVE  AnsweredIsTold'
  <2>1. CASE a.reply \in Terminal
    <3>1. answered' = answered \union {a}
      BY <1>3, <2>1 DEF Reply200
    <3>3. \A b \in answered' : b.reply \in Terminal /\ Told(b.tx, b.fp, b.reply)
      BY <1>1, <1>3, <2>1, <3>1 DEF AnsweredIsTold
    <3> QED BY <1>1, <3>3, StaysTold DEF AnsweredIsTold, Told
  <2>2. CASE a.reply \notin Terminal
    BY <1>2, <1>3, <2>2 DEF Reply200
  <2> QED BY <2>1, <2>2
<1>4. ASSUME NEW w \in Worker, ReplyOther(w)
      PROVE  AnsweredIsTold'
  BY <1>2, <1>4, NoResponseSilent DEF ReplyOther, Reply200
<1>5. ASSUME NEW w \in Worker, Lookup(w)
      PROVE  AnsweredIsTold'
  <2>1. KeyFor(w) \in Key
    BY <1>1, <1>5 DEF Lookup, HasIdentifier
  <2>2. CASE idem[KeyFor(w)].settle # NoResponse /\ Reply200(w, idem[KeyFor(w)].settle)
    <3>1. idem[KeyFor(w)].settle \in Response
      BY <1>1, <2>1, <2>2 DEF ApiTypeOK, Hash
    <3>2. Told(idem[KeyFor(w)].settle.tx, idem[KeyFor(w)].settle.fp, idem[KeyFor(w)].settle.reply)
      BY <1>1, <2>1 DEF CacheIsTold
    <3> QED BY <1>3, <2>2, <3>1, <3>2
  <2> QED BY <1>2, <1>5, <2>2 DEF Lookup
<1>6. ASSUME NEW w \in Worker, Put(w) \/ Touch(w)
      PROVE  AnsweredIsTold'
  <2>1. at[w] \in {"put", "touch"} /\ req[w].tx \in Tx /\ req[w].fp \in Fp
    BY <1>1, <1>6 DEF Put, Touch, ApiTypeOK
  <2>2. ResponseOf(w, out[w]) \in Response /\ ResponseOf(w, out[w]).fp = req[w].fp
    BY <1>1, <2>1 DEF ResponseOf, Response, HoldsOutcome
  <2>3. Told(ResponseOf(w, out[w]).tx, ResponseOf(w, out[w]).fp, ResponseOf(w, out[w]).reply)
    BY <1>1, <2>1 DEF ResponseOf, OutcomeIsTold
  <2> QED BY <1>2, <1>3, <1>6, <2>2, <2>3 DEF Put, Touch
<1>7. ASSUME NEW w \in Worker, ApiStep(w)
      PROVE  AnsweredIsTold'
  BY <1>2, <1>4, <1>5, <1>6, <1>7 DEF ApiStep, HSetNx, HGetFingerprint, ExpireBinding,
     Verified, CallSettle, SettleReturned, Index, Fail
<1>8. CASE \/ \E w \in Worker, t \in Tx, f \in Fp : Request(w, t, f)
           \/ \E k \in Key : Lapse(k)
           \/ SettlementStep \/ UNCHANGED allVars
  BY <1>2, <1>8 DEF Request, Lapse, SettlementStep, allVars, apiVars
<1> QED BY <1>7, <1>8 DEF ApiNext

\* The inductive invariant of the endpoints: cache, responses in hand and
\* responses sent say only what settle told.
THEOREM AnswerInvariant ==
    ApiSpec => []AnswerInv
<1>1. ApiInit => AnswerInv
  <2> SUFFICES ASSUME ApiInit
               PROVE  AnswerInv
    OBVIOUS
  <2>2. SettlingOwn /\ DoneIsTold
    BY DEF ApiInit, Init, SettlingOwn, DoneIsTold
  <2>3. OutcomeIsTold /\ CacheIsTold /\ AnsweredIsTold
    BY DEF ApiInit, OutcomeIsTold, CacheIsTold, AnsweredIsTold, Told, NoHash, NoResponse, Terminal
  <2> QED BY <2>2, <2>3, ApiInitType DEF AnswerInv
<1>2. AnswerInv /\ [ApiNext]_allVars => AnswerInv'
  <2> SUFFICES ASSUME AnswerInv, [ApiNext]_allVars
               PROVE  AnswerInv'
    OBVIOUS
  <2>1. ApiTypeInv'
    BY ApiNextType DEF AnswerInv
  <2>2. SettlingOwn' /\ DoneIsTold' /\ OutcomeIsTold' /\ CacheIsTold' /\ AnsweredIsTold'
    BY SettlingStep, DoneStep, OutcomeStep, CacheToldStep, AnsweredStep
  <2> QED BY <2>1, <2>2 DEF AnswerInv
<1> QED BY <1>1, <1>2, PTL DEF ApiSpec

\* All verdicts of /settle about a transaction agree with each other, with
\* the request it was reserved for and with the ledger, cached ones too.
THEOREM AnswersTheorem ==
    ASSUME ~ SlowWorkers
    PROVE  ApiSpec => []AnswersAgree
<1>1. BindInv /\ AnswerInv => AnswersAgree
  <2> SUFFICES ASSUME BindInv, AnswerInv, NEW a \in answered, NEW b \in answered, a.tx = b.tx
               PROVE  /\ a.fp = b.fp /\ a.reply = b.reply
                      /\ (a.reply = "validated") = (result[a.tx] = "delivered")
                      /\ Settled(a.tx)
    BY DEF AnswersAgree
  <2>1. a \in Response /\ b \in Response /\ AnsweredIsTold
    BY DEF AnswerInv, ApiTypeInv, ApiTypeOK
  <2>2. /\ a.tx \in Tx /\ a.reply \in Terminal /\ b.reply \in Terminal
        /\ [fp |-> a.fp, status |-> a.reply] \in told[a.tx]
        /\ [fp |-> b.fp, status |-> b.reply] \in told[a.tx]
    BY <2>1 DEF AnsweredIsTold, Told
  <2>3. a.fp = b.fp
    BY <2>2 DEF BindInv, OneBinding, ToldBound
  <2>4. Sound(a.tx, a.reply) /\ Sound(a.tx, b.reply)
    BY <2>2 DEF BindInv, HeldInv, TruthInv, ToldSound
  <2>5. (a.reply = "validated") = (result[a.tx] = "delivered")
    BY <2>2, <2>4 DEF Sound, Terminal
  <2>6. a.reply = b.reply
    BY <2>2, <2>4 DEF Sound, Terminal
  <2>7. Settled(a.tx)
    BY <2>2, <2>4 DEF Sound, Settled, Terminal
  <2> QED BY <2>3, <2>5, <2>6, <2>7
<1> QED BY <1>1, AnswerInvariant, BindInvariant, ApiImplementsSettlement, PTL

(***************************************************************************)
(* The endpoints keep the contract                                         *)
(***************************************************************************)

\* What the endpoints have said, when R was returned.
Said(R) == [t \in Tx |-> {Verdict200(a) : a \in {b \in R : b.tx = t}}]

\* One response at a time is returned, and it changes nothing else.
LEMMA AnsweredGrows ==
    ASSUME [ApiNext]_allVars
    PROVE  \/ UNCHANGED answered
           \/ \E a : answered' = answered \union {a} /\ UNCHANGED vars
<1>1. ASSUME NEW w \in Worker, NEW a, Reply200(w, a)
      PROVE  UNCHANGED answered \/ \E b : answered' = answered \union {b}
  BY <1>1 DEF Reply200
<1>2. ASSUME NEW w \in Worker, ReplyOther(w)
      PROVE  UNCHANGED answered
  BY <1>2 DEF ReplyOther, Reply200, NoResponse, Terminal
<1>3. ASSUME NEW w \in Worker, Lookup(w) \/ Put(w) \/ Touch(w)
      PROVE  UNCHANGED answered \/ \E a : answered' = answered \union {a} /\ UNCHANGED vars
  <2>1. UNCHANGED vars /\ (UNCHANGED answered \/ \E a : Reply200(w, a))
    BY <1>3 DEF Lookup, Put, Touch
  <2> QED BY <1>1, <2>1
<1>4. ASSUME NEW w \in Worker, ApiStep(w), ~ Lookup(w), ~ Put(w), ~ Touch(w)
      PROVE  UNCHANGED answered
  BY <1>2, <1>4 DEF ApiStep, HSetNx, HGetFingerprint, ExpireBinding, Verified, CallSettle,
     SettleReturned, Index, Fail
<1>5. CASE \/ \E w \in Worker, t \in Tx, f \in Fp : Request(w, t, f)
           \/ \E k \in Key : Lapse(k)
           \/ SettlementStep \/ UNCHANGED allVars
  BY <1>5 DEF Request, Lapse, SettlementStep, allVars, apiVars
<1> QED BY <1>3, <1>4, <1>5 DEF ApiNext

EndpointInv == BindInv /\ AnswerInv /\ AnswersAgree

\* A response is the one verdict about its transaction, or repeats it.
LEMMA ResponseAnswers ==
    ASSUME EndpointInv, EndpointInv', NEW a, answered' = answered \union {a}, UNCHANGED vars
    PROVE  [Endpoints!Next]_(Endpoints!vars)
<1>1. UNCHANGED <<bound, told, result, used, ledger>>
  BY DEF vars, ledgerVars, historyVars
<1>2. /\ answered \subseteq Response /\ a \in Response /\ a \in answered'
      /\ a.tx \in Tx /\ a.fp \in Fp
  BY DEF EndpointInv, AnswerInv, ApiTypeInv, ApiTypeOK, Response
<1>3. a.reply \in Terminal /\ [fp |-> a.fp, status |-> a.reply] \in told'[a.tx]
  BY <1>2 DEF EndpointInv, AnswerInv, AnsweredIsTold, Told
<1>4. a.fp \in bound[a.tx]
  BY <1>1, <1>2, <1>3 DEF EndpointInv, BindInv, ToldBound
<1>5. (a.reply = "validated") = (result'[a.tx] = "delivered")
  BY <1>2 DEF EndpointInv, AnswersAgree
<1>6. a.reply = IF a.tx \in {t \in Tx : result[t] = "delivered"} THEN "validated" ELSE "failed"
  BY <1>1, <1>2, <1>3, <1>5 DEF Terminal
<1>7. \A b \in answered : b.tx = a.tx => Verdict200(b) = Verdict200(a)
  <2>1. \A b \in answered : b.tx = a.tx => b.fp = a.fp /\ b.reply = a.reply
    BY <1>2 DEF EndpointInv, AnswersAgree
  <2> QED BY <2>1 DEF Verdict200
<1>8. \A u \in Tx \ {a.tx} : Said(answered')[u] = Said(answered)[u]
  BY DEF Said
<1>9. Said(answered')[a.tx] = {Verdict200(a)}
  BY <1>2, <1>7 DEF Said
<1>10. CASE \E b \in answered : b.tx = a.tx
  <2>1. Said(answered)[a.tx] = {Verdict200(a)}
    BY <1>2, <1>7, <1>10 DEF Said
  <2>2. Said(answered') = Said(answered)
    BY <1>8, <1>9, <2>1 DEF Said
  <2> QED BY <1>1, <2>2 DEF Endpoints!vars, Said
<1>11. CASE \A b \in answered : b.tx # a.tx
  <2>1. Said(answered)[a.tx] = {}
    BY <1>2, <1>11 DEF Said
  <2>2. Said(answered') = [Said(answered) EXCEPT ![a.tx] = {Verdict200(a)}]
    BY <1>8, <1>9 DEF Said
  <2>3. Endpoints!Answer(a.tx, a.fp, a.reply)
    BY <1>1, <1>4, <1>6, <2>1, <2>2 DEF Endpoints!Answer, Said, Verdict200
  <2> QED BY <1>2, <1>3, <2>3 DEF Endpoints!Next, Terminal
<1> QED BY <1>10, <1>11

\* Every step of the endpoints and of settlement is one of the contract.
LEMMA StepEndpoints ==
    ASSUME EndpointInv, EndpointInv', [ApiNext]_allVars
    PROVE  [Endpoints!Next]_(Endpoints!vars)
<1> DEFINE Paid == {t \in Tx : result[t] = "delivered"}
<1>1. /\ TypeOK /\ SlotsSpent /\ BindInv /\ AnswersAgree /\ [Next]_vars
      /\ answered \subseteq Response
  BY ApiStepSettles
     DEF EndpointInv, BindInv, HeldInv, TruthInv, AnswerInv, ApiTypeInv, ApiTypeOK
<1>2. CASE answered' # answered
  BY <1>2, AnsweredGrows, ResponseAnswers
<1>3. CASE UNCHANGED answered /\ result' # result
  <2>1. Ledger /\ UNCHANGED bound
    BY <1>1, <1>3 DEF Next, Step, vars, ledgerVars, historyVars, Call, Get, Reget, VerifyWindow,
       VerifyAccount, VerifySimulation, ReadFirstLedger, Reserve, Submit, Poll, Query, CheckExpiry,
       Update, Abort, Return, Expire, Ledger
  <2>2. \A t \in Tx : Settled(t) => result'[t] = result[t]
    BY <1>1, <2>1, CloseLedgerStable DEF Ledger, Broadcast, TypeOK
  <2>3. PICK S \in SUBSET Tx :
            S = {t \in Tx : result'[t] = "delivered" /\ result[t] # "delivered"}
    OBVIOUS
  <2>4. Paid' = Paid \union S
    BY <2>2, <2>3 DEF Settled
  <2>5. \A t \in S : ~ Settled(t)
    BY <2>2, <2>3
  <2>6. \A t \in S : Said(answered)[t] = {}
    BY <1>1, <2>3, <2>5 DEF AnswersAgree, Said
  <2>7. Endpoints!Pay(S)
    BY <1>3, <2>1, <2>4, <2>6 DEF Endpoints!Pay, Said
  <2> QED BY <2>7 DEF Endpoints!Next
<1>4. CASE UNCHANGED <<answered, result>> /\ bound' # bound
  <2>1. PICK w \in Worker : /\ Reserve(w) /\ job[w].tx \in Tx /\ bound[job[w].tx] = {}
                            /\ bound' = [bound EXCEPT ![job[w].tx] = {job[w].fp}]
    BY <1>1, <1>4, BoundStep
  <2>2. job[w].fp \in Fp
    BY <1>1, <2>1 DEF TypeOK, Reserve
  <2>3. Endpoints!Bind(job[w].tx, job[w].fp)
    BY <1>4, <2>1 DEF Endpoints!Bind
  <2> QED BY <2>1, <2>2, <2>3 DEF Endpoints!Next
<1>5. CASE UNCHANGED <<answered, result, bound>>
  BY <1>5 DEF Endpoints!vars
<1> QED BY <1>2, <1>3, <1>4, <1>5

\* What POST /settle answers over HTTP, from threads and from the identifier
\* cache of any number of instances, implements the settlement contract.
THEOREM EndpointsTheorem ==
    ASSUME ~ SlowWorkers
    PROVE  ApiSpec => EndpointsKeepContract
<1>1. ApiInit => Endpoints!Init
  BY DEF ApiInit, Init, LedgerInit, Endpoints!Init
<1>2. ApiSpec => []EndpointInv
  BY BindInvariant, ApiImplementsSettlement, AnswerInvariant, AnswersTheorem, PTL DEF EndpointInv
<1> QED BY <1>1, <1>2, StepEndpoints, PTL DEF ApiSpec, EndpointsKeepContract, Endpoints!Spec

=============================================================================
