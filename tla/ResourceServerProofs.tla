-------------------------- MODULE ResourceServerProofs --------------------------
(***************************************************************************)
(* Proofs about ResourceServer, for any number of requests, invocations,   *)
(* identifiers, transactions and ledgers.                                  *)
(***************************************************************************)
EXTENDS ResourceServer, XrplLedgerProofs, TLAPS

(***************************************************************************)
(* Type correctness                                                        *)
(***************************************************************************)

\* What the types say of the variables that belong to requests.
RequestTypeOK ==
    /\ pc \in [Request -> PC]
    /\ inv \in [Request -> Invocation \union {NoInvocation}]
    /\ \A r \in Request : pc[r] # "idle" => inv[r] \in Invocation
    /\ cached \in [Request -> BOOLEAN]
    /\ released \subseteq Invocation

\* Moving on keeps the types of what it assigns.
LEMMA GotoType ==
    ASSUME RequestTypeOK, NEW r \in Request, NEW label \in PC, pc[r] # "idle", Goto(r, label)
    PROVE  RequestTypeOK'
BY DEF RequestTypeOK, Goto

\* Answering keeps the types of what it assigns.
LEMMA RespondType ==
    ASSUME RequestTypeOK, NEW r \in Request, NEW bytes \in BOOLEAN, pc[r] # "idle",
           Respond(r, bytes)
    PROVE  RequestTypeOK'
BY DEF RequestTypeOK, Respond, PC

\* A transaction of a request that has arrived is one of the ledger's.
LEMMA RequestFacts ==
    ASSUME TypeOK, NEW r \in Request, pc[r] # "idle"
    PROVE  /\ inv[r] \in Invocation
           /\ TxFor(r) \in Tx /\ KeyFor(r) \in Key /\ FpOf[inv[r]] \in Fp
           /\ LastLedger[TxFor(r)] \in Nat /\ ledger \in Nat /\ Window \in Nat
<1>1. inv[r] \in Invocation
  BY DEF TypeOK
<1> QED BY <1>1, ResourceAssumption, LedgerAssumption DEF TypeOK, LedgerTypeOK, TxFor, KeyFor

\* Verification goes on only with a payment that is in its window and that
\* names the resource.
LEMMA VerifiedCases ==
    ASSUME TypeOK, NEW r \in Request, pc[r] = "verify", Verified(r)
    PROVE  \/ Reject(r)
           \/ /\ Authoritative(inv[r])
              /\ ledger < LastLedger[TxFor(r)] /\ LastLedger[TxFor(r)] <= ledger + Window
              /\ \/ inv[r] \in Unsafe /\ Goto(r, "get")
                 \/ inv[r] \in Unsafe /\ Goto(r, "recover")
                 \/ inv[r] \notin Unsafe /\ Goto(r, "handler")
<1>1. LastLedger[TxFor(r)] \in Nat /\ ledger \in Nat /\ Window \in Nat
  BY RequestFacts
<1>2. PICK reason \in IF Authoritative(inv[r]) THEN VerifyAnswers(TxFor(r))
                      ELSE {"resource_mismatch"} :
         \/ reason = "valid" /\ Goto(r, IF inv[r] \in Unsafe THEN "get" ELSE "handler")
         \/ MayRecover(r, reason) /\ Goto(r, "recover")
         \/ reason # "valid" /\ ~ MayRecover(r, reason) /\ Reject(r)
  BY DEF Verified
<1>3. reason \in {"valid", "stale"} =>
         /\ Authoritative(inv[r])
         /\ ledger < LastLedger[TxFor(r)] /\ LastLedger[TxFor(r)] <= ledger + Window
  BY <1>1, <1>2 DEF VerifyAnswers
<1> QED BY <1>2, <1>3 DEF MayRecover

\* What a handler's run leads to.
LEMMA ExecutedType ==
    ASSUME TypeOK, NEW r \in Request, pc[r] = "handler", Executed(r)
    PROVE  RequestTypeOK' /\ ran' \in [Invocation -> 0 .. 2]
<1>1. RequestTypeOK /\ pc[r] # "idle"
  BY DEF TypeOK, RequestTypeOK
<1>2. RequestTypeOK'
  BY <1>1, GotoType, RespondType DEF Executed, Reject, PC
<1>3. ran' \in [Invocation -> 0 .. 2]
  <2>1. inv[r] \in Invocation /\ ran \in [Invocation -> 0 .. 2]
    BY <1>1 DEF TypeOK
  <2>2. ran[inv[r]] < 2 => ran[inv[r]] + 1 \in 0 .. 2
    BY <2>1
  <2> QED BY <2>1, <2>2 DEF Executed
<1> QED BY <1>2, <1>3

\* The initial state is well typed.
LEMMA InitType == Init => TypeOK
BY DEF Init, TypeOK, LedgerInit, LedgerTypeOK, PC, NoRecord

\* Every step keeps the types.
LEMMA StepType == TypeOK /\ [Next]_vars => TypeOK'
<1> SUFFICES ASSUME TypeOK, [Next]_vars
             PROVE  TypeOK'
  OBVIOUS
<1>0. RequestTypeOK
  BY DEF TypeOK, RequestTypeOK
<1>1. ASSUME NEW r \in Request, NEW i \in Invocation, Arrive(r, i)
      PROVE  TypeOK'
  BY <1>1 DEF TypeOK, Arrive, LedgerTypeOK, ledgerVars, PC
<1>2. ASSUME NEW r \in Request,
             \/ Verify(r) \/ VerifyTool(r) \/ Recover(r) \/ Get(r) \/ LoadCached(r)
             \/ Reread(r) \/ Check(r) \/ SettleAnswered(r) \/ ToolAnswered(r) \/ Crash(r)
      PROVE  TypeOK'
  <2>1. pc[r] # "idle" /\ UNCHANGED <<ledgerVars, store, bound, ran>>
    BY <1>2 DEF Verify, VerifyTool, Recover, Get, LoadCached, Reread, Check, SettleAnswered,
       ToolAnswered, Crash
  <2>2. RequestTypeOK'
    <3>1. CASE \E label \in PC : Goto(r, label)
      BY <1>0, <2>1, <3>1, GotoType
    <3>2. CASE \E bytes \in BOOLEAN : Respond(r, bytes)
      BY <1>0, <2>1, <3>2, RespondType
    <3>3. CASE Verify(r) \/ VerifyTool(r)
      BY <3>1, <3>2, <3>3, VerifiedCases DEF Verify, VerifyTool, PC, Binding, Reject
    <3>4. CASE Recover(r) \/ Reread(r) \/ Check(r) \/ Crash(r)
      BY <3>1, <3>2, <3>4 DEF Recover, Reread, Check, Crash, PC, Binding, Reject
    <3>5. CASE Get(r) \/ LoadCached(r)
      <4>1. CASE \E label \in PC : /\ pc' = [pc EXCEPT ![r] = label]
                                   /\ cached' = [cached EXCEPT ![r] = TRUE]
                                   /\ UNCHANGED <<inv, released>>
        BY <1>0, <2>1, <4>1 DEF RequestTypeOK
      <4> QED BY <3>1, <3>2, <3>5, <4>1 DEF Get, LoadCached, PC, Binding, Reject
    <3>6. CASE SettleAnswered(r) \/ ToolAnswered(r)
      <4>1. \A answer : SendsBytes(r, answer) \in BOOLEAN /\ (answer = "success") \in BOOLEAN
        BY DEF SendsBytes
      <4> QED BY <3>1, <3>2, <3>6, <4>1 DEF SettleAnswered, ToolAnswered, PC, Reject
    <3> QED BY <1>2, <3>3, <3>4, <3>5, <3>6
  <2> QED BY <2>1, <2>2 DEF TypeOK, RequestTypeOK, LedgerTypeOK, ledgerVars
<1>3. ASSUME NEW r \in Request, Bind(r) \/ Put(r)
      PROVE  TypeOK'
  <2>1. /\ pc[r] # "idle" /\ UNCHANGED <<ledgerVars, bound, ran>>
        /\ \E label \in PC : Goto(r, label)
    BY <1>3 DEF Bind, Put, PC, Binding
  <2>2. RequestTypeOK'
    BY <1>0, <2>1, GotoType
  <2>3. BoundRecord(inv[r]) \in Record /\ ResponseRecord(inv[r]) \in Record
    BY <2>1, RequestFacts DEF BoundRecord, ResponseRecord, Record, StoredFp, Until
  <2>4. store' \in [Key -> Record \union {NoRecord}]
    BY <1>3, <2>1, <2>3, RequestFacts DEF Bind, Put, TypeOK
  <2> QED BY <2>1, <2>2, <2>4 DEF TypeOK, RequestTypeOK, LedgerTypeOK, ledgerVars
<1>4. ASSUME NEW r \in Request, Handle(r) \/ RunTool(r)
      PROVE  TypeOK'
  <2>1. pc[r] = "handler" /\ UNCHANGED <<ledgerVars, store, bound>>
    BY <1>4 DEF Handle, RunTool
  <2>2. CASE Executed(r)
    BY <2>1, <2>2, ExecutedType DEF TypeOK, RequestTypeOK, LedgerTypeOK, ledgerVars
  <2>3. CASE Goto(r, "settle") /\ UNCHANGED ran
    <3>1. RequestTypeOK'
      BY <1>0, <2>1, <2>3, GotoType DEF PC
    <3> QED BY <2>1, <2>3, <3>1 DEF TypeOK, RequestTypeOK, LedgerTypeOK, ledgerVars
  <2> QED BY <1>4, <2>2, <2>3 DEF Handle, RunTool
<1>5. ASSUME NEW r \in Request, Settle(r)
      PROVE  TypeOK'
  <2>1. pc[r] # "idle" /\ UNCHANGED <<ledger, used, result, store, ran>>
    BY <1>5 DEF Settle
  <2>2. RequestTypeOK'
    BY <1>0, <1>5, <2>1, GotoType DEF Settle, PC
  <2>3. bound' \in [Tx -> SUBSET Fp] /\ network' \in SUBSET Tx
    <3>1. {FpOf[inv[r]]} \in SUBSET Fp /\ TxFor(r) \in Tx
      BY <2>1, RequestFacts
    <3> QED BY <1>5, <3>1 DEF Settle, TypeOK, LedgerTypeOK
  <2> QED BY <2>1, <2>2, <2>3 DEF TypeOK, RequestTypeOK, LedgerTypeOK
<1>6. ASSUME NEW k \in Key, Lapse(k)
      PROVE  TypeOK'
  BY <1>6 DEF Lapse, TypeOK, LedgerTypeOK, ledgerVars
<1>7. CASE Ledger
  BY <1>7, LedgerStepType DEF Ledger, TypeOK, serverVars
<1>8. CASE UNCHANGED vars
  BY <1>8 DEF vars, TypeOK, LedgerTypeOK, ledgerVars, serverVars
<1> QED BY <1>1, <1>2, <1>3, <1>4, <1>5, <1>6, <1>7, <1>8 DEF Next

\* Every variable keeps its type: in particular a record is a binding or a
\* response of an invocation.
THEOREM TypeCorrect == Spec => []TypeOK
BY InitType, StepType, PTL DEF Spec

(***************************************************************************)
(* Protected bytes are paid for, and paid for where they are               *)
(***************************************************************************)

\* No step changes an outcome that is settled.
LEMMA SettledStable ==
    ASSUME TypeOK, SlotsSpent, [Next]_vars
    PROVE  /\ SlotsSpent'
           /\ \A t \in Tx : Settled(t) => Settled(t)' /\ result'[t] = result[t]
<1>1. CASE CloseLedger
  <2>1. LedgerTypeOK
    BY DEF TypeOK
  <2> QED BY <1>1, <2>1, CloseLedgerStable DEF CloseLedger, LedgerTypeOK
<1>2. CASE UNCHANGED <<ledger, used, result>>
  BY <1>2 DEF SlotsSpent, Settled, TypeOK, LedgerTypeOK
<1> QED
  BY <1>1, <1>2 DEF Next, vars, ledgerVars, Arrive, Verify, VerifyTool, Recover, Get, LoadCached,
     Bind, Reread, Handle, RunTool, Check, Put, Settle, SettleAnswered, ToolAnswered, Crash,
     Lapse, Ledger, Broadcast

\* The facilitator's binding of each transaction never changes, and nothing
\* is released by anything but a success for the bound request.
OneBound == \A t \in Tx : \A f, g \in bound[t] : f = g

\* Only the answer to a settlement releases bytes, and only a success does.
LEMMA ReleaseCases ==
    ASSUME TypeOK, [Next]_vars, NEW i \in released', i \notin released
    PROVE  \E r \in Request :
              /\ pc[r] \in {"answer", "answerAgain"} /\ i = inv[r]
              /\ result[TxOf[i]] = "delivered" /\ FpOf[i] \in bound[TxOf[i]]
              /\ UNCHANGED <<ledgerVars, store, bound, ran>>
<1>1. ASSUME NEW r \in Request, NEW bytes \in BOOLEAN, Respond(r, bytes)
      PROVE  bytes /\ i = inv[r]
  BY <1>1 DEF Respond
<1>2. ASSUME NEW r \in Request, SettleAnswered(r) \/ ToolAnswered(r)
      PROVE  /\ pc[r] \in {"answer", "answerAgain"} /\ i = inv[r]
             /\ result[TxOf[i]] = "delivered" /\ FpOf[i] \in bound[TxOf[i]]
             /\ UNCHANGED <<ledgerVars, store, bound, ran>>
  <2>1. PICK answer \in SettleAnswers(TxFor(r), FpOf[inv[r]]) : Respond(r, answer = "success")
    BY <1>1, <1>2 DEF SettleAnswered, ToolAnswered, SendsBytes, Goto, Reject
  <2>2. answer = "success" /\ i = inv[r]
    BY <1>1, <2>1
  <2> QED BY <1>2, <2>2 DEF SettleAnswered, ToolAnswered, SettleAnswers, TxFor
<1>3. ASSUME NEW r \in Request, Reject(r)
      PROVE  FALSE
  BY <1>1, <1>3 DEF Reject
<1>4. ASSUME NEW r \in Request, pc[r] = "verify", Verified(r)
      PROVE  FALSE
  BY <1>3, <1>4, VerifiedCases DEF Goto
<1>5. ASSUME NEW r \in Request,
             \/ Recover(r) \/ Get(r) \/ LoadCached(r) \/ Bind(r) \/ Reread(r) \/ Handle(r)
             \/ RunTool(r) \/ Check(r) \/ Put(r) \/ Settle(r) \/ Crash(r)
      PROVE  FALSE
  BY <1>3, <1>5 DEF Recover, Get, LoadCached, Bind, Reread, Handle, RunTool, Executed, Check,
     Put, Settle, Crash, Goto
<1>6. CASE \/ \E r \in Request, j \in Invocation : Arrive(r, j)
           \/ (\E k \in Key : Lapse(k)) \/ Ledger \/ UNCHANGED vars
  BY <1>6 DEF Arrive, Lapse, Ledger, vars, serverVars
<1> QED BY <1>2, <1>4, <1>5, <1>6 DEF Next, Verify, VerifyTool

\* The facilitator binds a transaction once.
LEMMA BoundGrows ==
    ASSUME TypeOK, OneBound, [Next]_vars
    PROVE  OneBound' /\ \A t \in Tx : bound[t] \subseteq bound'[t]
<1>1. ASSUME NEW r \in Request, Settle(r)
      PROVE  OneBound' /\ \A t \in Tx : bound[t] \subseteq bound'[t]
  <2>1. CASE UNCHANGED bound
    BY <2>1 DEF OneBound
  <2>2. CASE bound[TxFor(r)] = {} /\ bound' = [bound EXCEPT ![TxFor(r)] = {FpOf[inv[r]]}]
    <3>1. \A t \in Tx : t # TxFor(r) => bound'[t] = bound[t]
      BY <2>2 DEF TypeOK
    <3>2. TxFor(r) \in Tx => bound'[TxFor(r)] = {FpOf[inv[r]]}
      BY <2>2 DEF TypeOK
    <3> QED BY <2>2, <3>1, <3>2 DEF OneBound
  <2> QED BY <1>1, <2>1, <2>2 DEF Settle
<1>2. CASE UNCHANGED bound
  BY <1>2 DEF OneBound
<1> QED
  BY <1>1, <1>2 DEF Next, vars, serverVars, Arrive, Verify, VerifyTool, Recover, Get, LoadCached,
     Bind, Reread, Handle, RunTool, Check, Put, SettleAnswered, ToolAnswered, Crash, Lapse, Ledger

PaidInv == TypeOK /\ SlotsSpent /\ ReleasedIsPaid

\* What was released was and stays delivered.
THEOREM PaidInvariant == Spec => []PaidInv
<1>1. Init => PaidInv
  BY InitType DEF Init, LedgerInit, PaidInv, SlotsSpent, ReleasedIsPaid
<1>2. PaidInv /\ [Next]_vars => PaidInv'
  <2> SUFFICES ASSUME PaidInv, [Next]_vars
               PROVE  PaidInv'
    OBVIOUS
  <2>1. TypeOK /\ SlotsSpent /\ TypeOK'
    BY StepType DEF PaidInv
  <2>2. \A t \in Tx : result[t] = "delivered" => result'[t] = "delivered"
    BY <2>1, SettledStable DEF Settled
  <2>3. ASSUME NEW i \in released'
        PROVE  result'[TxOf[i]] = "delivered"
    <3>1. TxOf[i] \in Tx
      BY <2>1, ResourceAssumption DEF TypeOK
    <3>2. result[TxOf[i]] = "delivered"
      BY <2>1, ReleaseCases DEF PaidInv, ReleasedIsPaid
    <3> QED BY <2>2, <3>1, <3>2
  <2> QED BY <2>1, <2>3, SettledStable DEF PaidInv, ReleasedIsPaid
<1> QED BY <1>1, <1>2, PTL DEF Spec

\* Protected bytes are sent only for a payment that a validated ledger has
\* delivered, whatever TTLs run out and however slow the handlers are.
THEOREM PaidTheorem == Spec => []ReleasedIsPaid
<1>1. PaidInv => ReleasedIsPaid
  BY DEF PaidInv
<1> QED BY <1>1, PaidInvariant, PTL

(***************************************************************************)
(* Requests one at a time                                                  *)
(***************************************************************************)

Stays(r) == pc'[r] = pc[r] /\ inv'[r] = inv[r] /\ cached'[r] = cached[r]

\* The steps of a request that has arrived.
Acts(r) ==
    \/ Verify(r) \/ VerifyTool(r) \/ Recover(r) \/ Get(r) \/ LoadCached(r)
    \/ Bind(r) \/ Reread(r) \/ Handle(r) \/ RunTool(r)
    \/ Check(r) \/ Put(r) \/ Settle(r) \/ SettleAnswered(r) \/ ToolAnswered(r)

\* Seen from one request, a step is somebody else's, its end, its arrival, or
\* one of its own.
LEMMA Moves ==
    ASSUME TypeOK, [Next]_vars, NEW r \in Request
    PROVE  \/ Stays(r)
           \/ pc'[r] = "idle" /\ cached'[r] = FALSE
           \/ \E i \in Invocation : Arrive(r, i)
           \/ Acts(r) /\ inv'[r] = inv[r] /\ pc'[r] # "idle" /\ pc[r] # "idle"
<1>1. ASSUME NEW s \in Request, NEW bytes \in BOOLEAN, Respond(s, bytes)
      PROVE  Stays(r) \/ (pc'[r] = "idle" /\ cached'[r] = FALSE)
  <2>1. CASE s # r
    BY <1>1, <2>1 DEF Respond, TypeOK, Stays
  <2>2. CASE s = r
    <3>1. pc'[r] = "idle"
      BY <1>1, <2>2 DEF Respond, TypeOK
    <3>2. cached'[r] = FALSE
      BY <1>1, <2>2 DEF Respond, TypeOK
    <3> QED BY <3>1, <3>2
  <2> QED BY <2>1, <2>2
<1>2. ASSUME NEW s \in Request, s # r, NEW label \in PC, Goto(s, label)
      PROVE  Stays(r)
  BY <1>2 DEF Goto, TypeOK, Stays
<1>3. ASSUME NEW s \in Request, s # r, Acts(s)
      PROVE  Stays(r) \/ (pc'[r] = "idle" /\ cached'[r] = FALSE)
  <2>1. CASE \E label \in PC : Goto(s, label)
    BY <1>2, <1>3, <2>1
  <2>2. CASE \E bytes \in BOOLEAN : Respond(s, bytes)
    BY <1>1, <2>2
  <2>3. CASE Verify(s) \/ VerifyTool(s)
    BY <2>1, <2>2, <2>3, VerifiedCases DEF Verify, VerifyTool, Reject, PC, Binding
  <2>4. CASE Get(s) \/ LoadCached(s)
    <3>1. ASSUME NEW label \in PC, pc' = [pc EXCEPT ![s] = label], UNCHANGED inv,
                 cached' = [cached EXCEPT ![s] = TRUE]
          PROVE  Stays(r)
      <4>1. pc'[r] = pc[r] /\ inv'[r] = inv[r]
        BY <1>3, <3>1 DEF TypeOK
      <4>2. cached'[r] = cached[r]
        BY <1>3, <3>1 DEF TypeOK
      <4> QED BY <4>1, <4>2 DEF Stays
    <3> QED BY <2>1, <2>2, <2>4, <3>1 DEF Get, LoadCached, Reject, PC, Binding
  <2>5. CASE SettleAnswered(s) \/ ToolAnswered(s)
    <3>1. \A answer : SendsBytes(s, answer) \in BOOLEAN /\ (answer = "success") \in BOOLEAN
      BY DEF SendsBytes
    <3> QED BY <2>1, <2>2, <2>5, <3>1 DEF SettleAnswered, ToolAnswered, Reject, PC
  <2> QED
    BY <1>3, <2>1, <2>2, <2>3, <2>4, <2>5 DEF Acts, Recover, Bind, Reread, Handle, RunTool,
       Executed, Check, Put, Settle, Reject, PC, Binding
<1>4. ASSUME Acts(r)
      PROVE  \/ pc'[r] = "idle" /\ cached'[r] = FALSE
             \/ inv'[r] = inv[r] /\ pc'[r] # "idle" /\ pc[r] # "idle"
  <2>1. pc[r] # "idle"
    BY <1>4 DEF Acts, Verify, VerifyTool, Recover, Get, LoadCached, Bind, Reread, Handle, RunTool,
       Check, Put, Settle, SettleAnswered, ToolAnswered
  <2>2. CASE \E bytes \in BOOLEAN : Respond(r, bytes)
    BY <2>1, <2>2 DEF Respond, TypeOK
  <2>3. CASE \E label \in PC \ {"idle"} : Goto(r, label)
    BY <2>1, <2>3 DEF Goto, TypeOK
  <2>4. CASE Verify(r) \/ VerifyTool(r)
    BY <2>2, <2>3, <2>4, VerifiedCases DEF Verify, VerifyTool, Reject, PC, Binding
  <2>5. CASE Get(r) \/ LoadCached(r)
    <3>1. CASE \E label \in PC \ {"idle"} : /\ pc' = [pc EXCEPT ![r] = label]
                                            /\ UNCHANGED <<inv, released>>
      BY <2>1, <3>1 DEF TypeOK
    <3> QED BY <2>2, <2>3, <2>5, <3>1 DEF Get, LoadCached, Reject, PC, Binding
  <2>6. CASE SettleAnswered(r) \/ ToolAnswered(r)
    <3>1. \A answer : SendsBytes(r, answer) \in BOOLEAN /\ (answer = "success") \in BOOLEAN
      BY DEF SendsBytes
    <3> QED BY <2>2, <2>3, <2>6, <3>1 DEF SettleAnswered, ToolAnswered, Reject, PC
  <2> QED
    BY <1>4, <2>2, <2>3, <2>4, <2>5, <2>6 DEF Acts, Recover, Bind, Reread, Handle, RunTool,
       Executed, Check, Put, Settle, Reject, PC, Binding
<1>5. ASSUME NEW s \in Request, NEW i \in Invocation, Arrive(s, i), s # r
      PROVE  Stays(r)
  BY <1>5 DEF Arrive, Stays, TypeOK
<1>6. CASE (\E k \in Key : Lapse(k)) \/ Ledger \/ UNCHANGED vars
  BY <1>6 DEF Lapse, Ledger, vars, serverVars, Stays
<1>7. ASSUME NEW s \in Request, Crash(s)
      PROVE  Stays(r) \/ (pc'[r] = "idle" /\ cached'[r] = FALSE)
  BY <1>1, <1>7 DEF Crash, Reject
<1> QED BY <1>3, <1>4, <1>5, <1>6, <1>7 DEF Next, Acts

\* Whoever got past verification named the resource it asks for.
VerifiedRight ==
    \A r \in Request : pc[r] \notin {"idle", "verify"} => Authoritative(inv[r])
ReleasedBound ==
    \A i \in released : FpOf[i] \in bound[TxOf[i]] /\ Authoritative(i)

ResourceInv == TypeOK /\ OneBound /\ VerifiedRight /\ ReleasedBound

\* Nobody gets past verification in another way.
LEMMA VerifiedRightStep ==
    ASSUME TypeOK, VerifiedRight, [Next]_vars
    PROVE  VerifiedRight'
<1> SUFFICES ASSUME NEW r \in Request, pc'[r] \notin {"idle", "verify"}
             PROVE  Authoritative(inv'[r])
  BY DEF VerifiedRight, Authoritative
<1>1. CASE Stays(r)
  BY <1>1 DEF Stays, VerifiedRight
<1>2. CASE Acts(r) /\ inv'[r] = inv[r] /\ pc[r] # "idle"
  <2>1. CASE pc[r] # "verify"
    BY <1>2, <2>1 DEF VerifiedRight
  <2>2. CASE pc[r] = "verify"
    <3>1. Verified(r)
      BY <1>2, <2>2 DEF Acts, Verify, VerifyTool, Recover, Get, LoadCached, Bind, Reread, Handle,
         RunTool, Check, Put, Settle, SettleAnswered, ToolAnswered
    <3>2. ~ Reject(r)
      BY DEF Reject, Respond, TypeOK
    <3> QED BY <1>2, <2>2, <3>1, <3>2, VerifiedCases
  <2> QED BY <2>1, <2>2
<1>3. \A i \in Invocation : ~ Arrive(r, i)
  BY DEF Arrive, TypeOK
<1> QED BY <1>1, <1>2, <1>3, Moves

\* What is released is bound at the facilitator, and named the resource.
THEOREM ResourceInvariant == Spec => []ResourceInv
<1>1. Init => ResourceInv
  BY InitType DEF Init, ResourceInv, OneBound, VerifiedRight, ReleasedBound
<1>2. ResourceInv /\ [Next]_vars => ResourceInv'
  <2> SUFFICES ASSUME ResourceInv, [Next]_vars
               PROVE  ResourceInv'
    OBVIOUS
  <2>1. TypeOK /\ OneBound /\ VerifiedRight /\ ReleasedBound /\ TypeOK'
    BY StepType DEF ResourceInv
  <2>2. OneBound' /\ \A t \in Tx : bound[t] \subseteq bound'[t]
    BY <2>1, BoundGrows
  <2>3. ASSUME NEW i \in released'
        PROVE  FpOf[i] \in bound'[TxOf[i]] /\ Authoritative(i)
    <3>1. TxOf[i] \in Tx
      BY <2>1, ResourceAssumption DEF TypeOK
    <3>2. FpOf[i] \in bound[TxOf[i]] /\ Authoritative(i)
      <4>1. CASE i \in released
        BY <2>1, <4>1 DEF ReleasedBound
      <4>2. CASE i \notin released
        <5>1. PICK r \in Request : /\ pc[r] \in {"answer", "answerAgain"} /\ i = inv[r]
                                  /\ FpOf[i] \in bound[TxOf[i]]
          BY <2>1, <4>2, ReleaseCases
        <5>2. Authoritative(inv[r])
          BY <2>1, <5>1 DEF VerifiedRight
        <5> QED BY <5>1, <5>2
      <4> QED BY <4>1, <4>2
    <3> QED BY <2>2, <3>1, <3>2
  <2>4. ReleasedBound'
    BY <2>3 DEF ReleasedBound, Authoritative
  <2> QED BY <2>1, <2>2, <2>4, VerifiedRightStep DEF ResourceInv
<1> QED BY <1>1, <1>2, PTL DEF Spec

\* One signed transaction buys one resource, whatever TTLs run out and however
\* often its payload is shown to other routes and tools.
THEOREM OneResourceTheorem == Spec => []OneResourcePerPayment
<1>1. ResourceInv => OneResourcePerPayment
  <2> SUFFICES ASSUME ResourceInv, NEW i \in released, NEW j \in released, TxOf[i] = TxOf[j]
               PROVE  ResourceOf[i] = ResourceOf[j]
    BY DEF OneResourcePerPayment
  <2>1. i \in Invocation /\ j \in Invocation /\ TxOf[i] \in Tx
    BY ResourceAssumption DEF ResourceInv, TypeOK
  <2>2. FpOf[i] = FpOf[j]
    BY <2>1 DEF ResourceInv, OneBound, ReleasedBound
  <2>3. NamedIn[i] = NamedIn[j]
    BY <2>1, <2>2, FingerprintAssumption
  <2> QED BY <2>3 DEF ResourceInv, ReleasedBound, Authoritative
<1> QED BY <1>1, ResourceInvariant, PTL

(***************************************************************************)
(* An unsafe handler runs once                                             *)
(***************************************************************************)

\* After the handler.
Late == {"check", "put", "settle", "answer", "settleAgain", "answerAgain"}

\* About to run the handler of an unsafe invocation.
Holds(r) == pc[r] = "handler" /\ inv[r] \in Unsafe /\ ~ cached[r]

\* The handler of i has run, or somebody is about to run it.
Taken(i) == ran[i] > 0 \/ \E r \in Request : Holds(r) /\ inv[r] = i

\* One signed transaction under one identifier.
SamePayment(i, j) == KeyOf[i] = KeyOf[j] /\ TxOf[i] = TxOf[j]

\* Nobody can bind the identifier of i for its payment any more: a record
\* stands in the way for as long as the payment can be verified, or the
\* payment has expired and nobody verified in time is still on the way.
Guarded(i) ==
    \/ /\ store[KeyOf[i]] # NoRecord
       /\ LastLedger[TxOf[i]] <= store[KeyOf[i]].until
    \/ /\ LastLedger[TxOf[i]] <= ledger
       /\ \A r \in Request : pc[r] \in Binding => ~ SamePayment(inv[r], i)

InTime ==
    \A r \in Request :
        pc[r] \notin {"idle", "verify"} => LastLedger[TxFor(r)] <= ledger + Window
UnsafeBinds ==
    \A r \in Request :
        pc[r] \in Binding \union {"recover", "check", "put"} => inv[r] \in Unsafe
CachedIsLate ==
    \A r \in Request :
        cached[r] => pc[r] \in Late \/ (pc[r] = "handler" /\ inv[r] \in Tool)
RecordsOutlast ==
    \A k \in Key : store[k] # NoRecord =>
        KeyOf[store[k].fp] = k /\ LastLedger[TxOf[store[k].fp]] <= store[k].until
TakenInTime ==
    \A i \in Unsafe : Taken(i) => LastLedger[TxOf[i]] <= ledger + Window
TakenGuarded == \A i \in Unsafe : Taken(i) => Guarded(i)
OneHolder ==
    \A r, s \in Request : Holds(r) /\ Holds(s) /\ inv[r] = inv[s] => r = s
HoldersFirst == \A r \in Request : Holds(r) => ran[inv[r]] = 0
OneTaker ==
    \A i, j \in Unsafe : SamePayment(i, j) /\ Taken(i) /\ Taken(j) => i = j

OnceInv ==
    /\ TypeOK /\ InTime /\ UnsafeBinds /\ CachedIsLate /\ RecordsOutlast
    /\ TakenInTime /\ TakenGuarded /\ OneHolder /\ HoldersFirst /\ OneTaker
    /\ HandlerOnce

\* The identifier of an unsafe invocation is bound: its handler is next.
Binds(r) ==
    /\ pc[r] \in {"bind", "bindAgain"}
    /\ store[KeyFor(r)] = NoRecord
    /\ store' = [store EXCEPT ![KeyFor(r)] = BoundRecord(inv[r])]
    /\ pc' = [pc EXCEPT ![r] = "handler"]
    /\ UNCHANGED <<ledgerVars, inv, cached, ran>>

\* The record in the store that a step writes or removes.
Stores(r) ==
    /\ pc[r] = "put"
    /\ store' = [store EXCEPT ![KeyFor(r)] = ResponseRecord(inv[r])]
    /\ UNCHANGED <<ledgerVars, inv>>

\* What a request does next, given where it is.
LEMMA ActsAt ==
    ASSUME TypeOK, NEW r \in Request, Acts(r)
    PROVE  /\ pc[r] = "verify" => Verified(r) /\ UNCHANGED <<ledgerVars, store, bound, ran>>
           /\ pc[r] = "recover" => Recover(r)
           /\ pc[r] = "get" => Get(r) \/ LoadCached(r)
           /\ pc[r] \in {"bind", "bindAgain"} => Bind(r)
           /\ pc[r] \in {"reread", "rereadAgain"} => Reread(r)
           /\ pc[r] = "handler" => Handle(r) \/ RunTool(r)
           /\ pc[r] = "check" => Check(r)
           /\ pc[r] = "put" => Put(r)
           /\ pc[r] \in {"settle", "settleAgain"} => Settle(r)
           /\ pc[r] \in {"answer", "answerAgain"} => SettleAnswered(r) \/ ToolAnswered(r)
           /\ pc[r] \in PC
BY DEF Acts, Verify, VerifyTool, Recover, Get, LoadCached, Bind, Reread, Handle, RunTool,
   Check, Put, Settle, SettleAnswered, ToolAnswered, TypeOK

\* Only a binding makes a request the one that runs an unsafe handler.
LEMMA HoldsCases ==
    ASSUME TypeOK, [Next]_vars, NEW r \in Request, Holds(r)'
    PROVE  (Stays(r) /\ Holds(r)) \/ (Binds(r) /\ inv[r] \in Unsafe /\ inv'[r] = inv[r])
<1>1. pc'[r] = "handler" /\ inv'[r] \in Unsafe
  BY DEF Holds
<1>2. ~ cached'[r]
  BY DEF Holds
<1>3. CASE Stays(r)
  BY <1>3 DEF Stays, Holds
<1>4. CASE Acts(r) /\ inv'[r] = inv[r] /\ pc[r] # "idle"
  <2>1. CASE pc[r] = "verify"
    BY <1>1, <1>4, <2>1, ActsAt, VerifiedCases DEF Goto, Reject, Respond, TypeOK
  <2>2. CASE pc[r] = "get"
    <3>1. CASE LoadCached(r) /\ cached' = [cached EXCEPT ![r] = TRUE]
      BY <1>2, <3>1 DEF TypeOK
    <3> QED BY <1>1, <1>4, <2>2, <3>1, ActsAt DEF Get, LoadCached, Goto, Reject, Respond, TypeOK
  <2>3. CASE pc[r] \in {"bind", "bindAgain"}
    BY <1>1, <1>4, <2>3, ActsAt DEF Bind, Binds, CanBind, Goto, TypeOK
  <2>4. CASE pc[r] \in {"recover", "reread", "rereadAgain"}
    BY <1>1, <1>4, <2>4, ActsAt DEF Recover, Reread, Goto, Reject, Respond, TypeOK
  <2>5. CASE pc[r] = "handler"
    BY <1>1, <1>4, <2>5, ActsAt DEF Handle, RunTool, Executed, Goto, Reject, Respond, TypeOK
  <2>6. CASE pc[r] \in {"check", "put", "settle", "settleAgain"}
    BY <1>1, <1>4, <2>6, ActsAt DEF Check, Put, Settle, Goto, Reject, Respond, TypeOK
  <2>7. CASE pc[r] \in {"answer", "answerAgain"}
    BY <1>1, <1>4, <2>7, ActsAt DEF SettleAnswered, ToolAnswered, Goto, Reject, Respond, TypeOK
  <2> QED BY <1>4, <2>1, <2>2, <2>3, <2>4, <2>5, <2>6, <2>7, ActsAt DEF PC, Binding
<1>5. \A i \in Invocation : ~ Arrive(r, i)
  BY <1>1 DEF Arrive, TypeOK
<1> QED BY <1>1, <1>3, <1>4, <1>5, Moves

\* A handler runs once for whoever was about to run it.
LEMMA RanCases ==
    ASSUME TypeOK, CachedIsLate, [Next]_vars, NEW i \in Invocation, ran'[i] # ran[i]
    PROVE  /\ ran'[i] = ran[i] + 1
           /\ \E r \in Request : Holds(r) /\ inv[r] = i /\ ~ Holds(r)'
           /\ ledger' = ledger
<1>1. ASSUME NEW r \in Request, Handle(r) \/ RunTool(r)
      PROVE  /\ ran'[i] = ran[i] + 1 /\ Holds(r) /\ inv[r] = i /\ ~ Holds(r)'
             /\ ledger' = ledger
  <2>1. Executed(r) /\ pc[r] = "handler" /\ ledger' = ledger
    BY <1>1 DEF Handle, RunTool, ledgerVars
  <2>2. inv[r] = i /\ i \in Unsafe /\ ran'[i] = ran[i] + 1
    BY <2>1 DEF Executed, TypeOK
  <2>3. pc'[r] # "handler"
    BY <2>1 DEF Executed, Goto, Reject, Respond, TypeOK
  <2>4. ~ cached[r]
    <3>1. CASE Handle(r)
      BY <2>1, <3>1 DEF Handle, CachedIsLate, Late
    <3>2. CASE RunTool(r)
      BY <3>2, <1>1 DEF RunTool
    <3> QED BY <1>1, <3>1, <3>2
  <2> QED BY <2>1, <2>2, <2>3, <2>4 DEF Holds
<1>2. CASE UNCHANGED ran
  BY <1>2
<1> QED
  BY <1>1, <1>2 DEF Next, vars, serverVars, Arrive, Verify, VerifyTool, Recover, Get, LoadCached,
     Bind, Reread, Check, Put, Settle, SettleAnswered, ToolAnswered, Crash, Lapse, Ledger

\* The store changes by bindings, by responses and by TTLs.
LEMMA StoreCases ==
    ASSUME TypeOK, [Next]_vars
    PROVE  \/ UNCHANGED store
           \/ \E r \in Request : Binds(r) \/ Stores(r)
           \/ \E k \in Key : Lapse(k)
<1>1. ASSUME NEW r \in Request, Bind(r) \/ Put(r)
      PROVE  UNCHANGED store \/ Binds(r) \/ Stores(r)
  BY <1>1 DEF Bind, Put, Binds, Stores, CanBind, Goto
<1> QED
  BY <1>1 DEF Next, vars, serverVars, Arrive, Verify, VerifyTool, Recover, Get, LoadCached,
     Reread, Handle, RunTool, Check, Settle, SettleAnswered, ToolAnswered, Crash, Ledger

\* Ledgers are only added.
LEMMA LedgerGrows ==
    ASSUME TypeOK, [Next]_vars
    PROVE  ledger \in Nat /\ ledger' \in Nat /\ ledger <= ledger'
<1>1. ledger \in Nat
  BY DEF TypeOK, LedgerTypeOK
<1>2. CASE CloseLedger
  BY <1>1, <1>2 DEF CloseLedger
<1>3. CASE UNCHANGED ledger
  BY <1>1, <1>3
<1> QED
  BY <1>2, <1>3 DEF Next, vars, ledgerVars, Arrive, Verify, VerifyTool, Recover, Get, LoadCached,
     Bind, Reread, Handle, RunTool, Check, Put, Settle, SettleAnswered, ToolAnswered, Crash,
     Lapse, Ledger, Broadcast

\* Where a request is, and what it is served from, follows from what it did.
LEMMA PlaceStep ==
    ASSUME TypeOK, InTime, UnsafeBinds, CachedIsLate, [Next]_vars
    PROVE  InTime' /\ UnsafeBinds' /\ CachedIsLate'
<1>0. ledger \in Nat /\ ledger' \in Nat /\ ledger <= ledger' /\ Window \in Nat
  BY LedgerGrows, ResourceAssumption
<1>1. ASSUME NEW r \in Request, pc'[r] \notin {"idle", "verify"}
      PROVE  LastLedger[TxOf[inv'[r]]] <= ledger' + Window
  <2>1. pc[r] \notin {"idle", "verify"} /\ inv'[r] = inv[r] =>
           LastLedger[TxOf[inv'[r]]] <= ledger' + Window
    BY <1>0, <1>1, RequestFacts DEF InTime, TxFor
  <2>2. CASE Acts(r) /\ inv'[r] = inv[r] /\ pc[r] = "verify"
    <3>1. ~ Reject(r)
      BY <1>1 DEF Reject, Respond, TypeOK
    <3> QED BY <1>0, <2>2, <3>1, ActsAt, VerifiedCases DEF TxFor, ledgerVars
  <2>3. \A i \in Invocation : ~ Arrive(r, i)
    BY <1>1 DEF Arrive, TypeOK
  <2> QED BY <1>1, <2>1, <2>2, <2>3, Moves DEF Stays
<1>2. ASSUME NEW r \in Request, pc'[r] \in Binding \union {"recover", "check", "put"}
      PROVE  inv'[r] \in Unsafe
  <2>1. CASE Stays(r)
    BY <1>2, <2>1 DEF Stays, UnsafeBinds
  <2>2. CASE Acts(r) /\ inv'[r] = inv[r]
    <3>1. CASE pc[r] \in Binding \union {"recover", "check", "put"}
      BY <2>2, <3>1 DEF UnsafeBinds
    <3>2. CASE pc[r] = "verify"
      BY <1>2, <2>2, <3>2, ActsAt, VerifiedCases DEF Reject, Respond, Goto, TypeOK, Binding
    <3>3. CASE pc[r] = "handler"
      BY <1>2, <2>2, <3>3, ActsAt DEF Handle, RunTool, Executed, Reject, Respond, Goto, TypeOK,
         Binding
    <3>4. CASE pc[r] \in {"settle", "settleAgain", "answer", "answerAgain"}
      BY <1>2, <2>2, <3>4, ActsAt DEF Settle, SettleAnswered, ToolAnswered, Reject, Respond, Goto,
         TypeOK, Binding
    <3>5. pc[r] # "idle"
      BY <2>2 DEF Acts, Verify, VerifyTool, Recover, Get, LoadCached, Bind, Reread, Handle,
         RunTool, Check, Put, Settle, SettleAnswered, ToolAnswered
    <3> QED BY <2>2, <3>1, <3>2, <3>3, <3>4, <3>5, ActsAt DEF PC
  <2>3. \A i \in Invocation : ~ Arrive(r, i)
    BY <1>2 DEF Arrive, TypeOK, Binding
  <2> QED BY <1>2, <2>1, <2>2, <2>3, Moves DEF Binding
<1>3. ASSUME NEW r \in Request, cached'[r]
      PROVE  pc'[r] \in Late \/ (pc'[r] = "handler" /\ inv'[r] \in Tool)
  <2>1. CASE Stays(r)
    BY <1>3, <2>1 DEF Stays, CachedIsLate
  <2>2. CASE Acts(r) /\ inv'[r] = inv[r] /\ pc'[r] # "idle"
    <3>1. CASE pc[r] \in Late
      BY <2>2, <3>1, ActsAt DEF Late, Check, Put, Settle, SettleAnswered, ToolAnswered, Reject,
         Respond, Goto, TypeOK
    <3>2. CASE pc[r] = "handler"
      BY <2>2, <3>2, ActsAt DEF Late, Handle, RunTool, Executed, Reject, Respond, Goto, TypeOK
    <3>3. CASE pc[r] = "get"
      <4>1. CASE Goto(r, "bind")
        BY <1>3, <3>3, <4>1 DEF Goto, CachedIsLate, Late
      <4>2. CASE pc' = [pc EXCEPT ![r] = "settle"]
        BY <4>2 DEF Late, TypeOK
      <4>3. CASE pc' = [pc EXCEPT ![r] = "handler"] /\ inv[r] \in Tool
        BY <2>2, <4>3 DEF TypeOK
      <4>4. ~ Reject(r)
        BY <2>2 DEF Reject, Respond, TypeOK
      <4> QED BY <2>2, <3>3, <4>1, <4>2, <4>3, <4>4, ActsAt DEF Get, LoadCached
    <3>4. CASE pc[r] \notin Late \union {"handler", "get"}
      <4>1. ~ cached[r]
        BY <3>4 DEF CachedIsLate
      <4>2. ~ Reject(r)
        BY <2>2 DEF Reject, Respond, TypeOK
      <4>3. \E label \in PC : Goto(r, label)
        <5>1. CASE pc[r] = "verify"
          BY <2>2, <4>2, <5>1, ActsAt, VerifiedCases DEF PC, Binding
        <5>2. CASE pc[r] # "verify"
          <6>1. pc[r] \in Binding \union {"recover"} /\ pc[r] # "get"
            BY <2>2, <3>4, <5>2, ActsAt DEF PC, Late, Acts, Verify, VerifyTool, Recover, Get,
               LoadCached, Bind, Reread, Handle, RunTool, Check, Put, Settle, SettleAnswered,
               ToolAnswered
          <6> QED BY <2>2, <4>2, <6>1, ActsAt DEF Recover, Bind, Reread, PC, Binding
        <5> QED BY <5>1, <5>2
      <4> QED BY <1>3, <4>1, <4>3 DEF Goto
    <3> QED BY <3>1, <3>2, <3>3, <3>4
  <2>3. ASSUME NEW i \in Invocation, Arrive(r, i)
        PROVE  FALSE
    <3>1. pc[r] = "idle" /\ cached'[r] = cached[r]
      BY <2>3 DEF Arrive
    <3> QED BY <1>3, <3>1 DEF CachedIsLate, Late
  <2> QED BY <1>3, <2>1, <2>2, <2>3, Moves
<1>4. InTime'
  BY <1>1 DEF InTime, TxFor
<1>5. UnsafeBinds'
  BY <1>2 DEF UnsafeBinds
<1>6. CachedIsLate'
  BY <1>3 DEF CachedIsLate
<1> QED BY <1>4, <1>5, <1>6

\* An invocation becomes taken when its identifier is bound.
LEMMA TakenCases ==
    ASSUME TypeOK, CachedIsLate, [Next]_vars, NEW i \in Invocation, Taken(i)'
    PROVE  Taken(i) \/ \E r \in Request : Binds(r) /\ inv[r] = i /\ i \in Unsafe
<1>1. CASE ran'[i] > 0
  <2>1. CASE ran'[i] = ran[i]
    BY <1>1, <2>1 DEF Taken
  <2>2. CASE ran'[i] # ran[i]
    BY <2>2, RanCases DEF Taken
  <2> QED BY <2>1, <2>2
<1>2. ASSUME NEW r \in Request, Holds(r)', inv'[r] = i
      PROVE  Taken(i) \/ (Binds(r) /\ inv[r] = i /\ i \in Unsafe)
  BY <1>2, HoldsCases DEF Taken, Stays
<1> QED BY <1>1, <1>2 DEF Taken

\* Where nothing is in the way nobody has taken the payment before.
LEMMA FreshBind ==
    ASSUME TypeOK, TakenGuarded, NEW r \in Request, Binds(r),
           NEW i \in Unsafe, SamePayment(inv[r], i)
    PROVE  ~ Taken(i)
BY DEF TakenGuarded, Guarded, Binds, SamePayment, KeyFor, Binding

\* No two requests bind in one step.
LEMMA OneBinds ==
    ASSUME TypeOK, NEW r \in Request, NEW s \in Request, Binds(r), Binds(s)
    PROVE  r = s
BY DEF Binds, TypeOK

\* Records stay as long as their payments can be verified.
LEMMA RecordsStep ==
    ASSUME TypeOK, InTime, RecordsOutlast, [Next]_vars
    PROVE  RecordsOutlast'
<1> SUFFICES ASSUME NEW k \in Key, store'[k] # NoRecord
             PROVE  /\ KeyOf[store'[k].fp] = k
                    /\ LastLedger[TxOf[store'[k].fp]] <= store'[k].until
  BY DEF RecordsOutlast
<1>1. CASE store'[k] = store[k]
  BY <1>1 DEF RecordsOutlast
<1>2. ASSUME NEW r \in Request, Binds(r) \/ Stores(r), KeyFor(r) = k
      PROVE  /\ KeyOf[store'[k].fp] = k
             /\ LastLedger[TxOf[store'[k].fp]] <= store'[k].until
  <2>1. pc[r] \notin {"idle", "verify"}
    BY <1>2 DEF Binds, Stores
  <2>2. store'[k] = BoundRecord(inv[r]) \/ store'[k] = ResponseRecord(inv[r])
    BY <1>2 DEF Binds, Stores, TypeOK
  <2>3. store'[k].fp = inv[r] /\ store'[k].until = ledger + Window
    BY <2>2 DEF BoundRecord, ResponseRecord, Until
  <2>4. LastLedger[TxFor(r)] <= ledger + Window
    BY <2>1 DEF InTime
  <2> QED BY <1>2, <2>3, <2>4 DEF TxFor, KeyFor
<1>3. ASSUME NEW r \in Request, Binds(r) \/ Stores(r), KeyFor(r) # k
      PROVE  store'[k] = store[k]
  BY <1>3 DEF Binds, Stores, TypeOK
<1>4. ASSUME NEW m \in Key, Lapse(m)
      PROVE  store'[k] = store[k]
  BY <1>4 DEF Lapse, TypeOK
<1> QED BY <1>1, <1>2, <1>3, <1>4, StoreCases

\* Whoever gets into Binding has an unexpired payment, or finds its record.
LEMMA EntersBinding ==
    ASSUME TypeOK, RecordsOutlast, [Next]_vars, NEW r \in Request,
           pc'[r] \in Binding, ~ (pc[r] \in Binding /\ inv'[r] = inv[r])
    PROVE  /\ inv'[r] = inv[r] /\ inv[r] \in Invocation
           /\ UNCHANGED <<ledger, store>>
           /\ \/ ledger < LastLedger[TxFor(r)]
              \/ /\ store[KeyFor(r)] # NoRecord
                 /\ LastLedger[TxFor(r)] <= store[KeyFor(r)].until
<1>1. Acts(r) /\ inv'[r] = inv[r] /\ pc[r] # "idle"
  <2>1. \A i \in Invocation : ~ Arrive(r, i)
    BY DEF Arrive, TypeOK, Binding
  <2> QED BY <2>1, Moves DEF Stays, Binding
<1>2. inv[r] \in Invocation /\ ~ Reject(r)
  BY <1>1 DEF TypeOK, Reject, Respond, Binding
<1>3. CASE pc[r] = "verify"
  BY <1>1, <1>2, <1>3, ActsAt, VerifiedCases DEF ledgerVars
<1>4. CASE pc[r] = "recover"
  <2>1. store[KeyFor(r)].fp = inv[r] /\ UNCHANGED <<ledger, store>>
    BY <1>1, <1>2, <1>4, ActsAt DEF Recover, Matches, ledgerVars
  <2>2. store[KeyFor(r)] # NoRecord
    BY <1>2, <2>1, ResourceAssumption DEF NoRecord
  <2>3. KeyFor(r) \in Key
    BY <1>1, RequestFacts
  <2> QED BY <1>1, <1>2, <2>1, <2>2, <2>3 DEF RecordsOutlast, TxFor
<1>5. CASE pc[r] = "handler"
  BY <1>1, <1>5, ActsAt DEF Handle, RunTool, Executed, Goto, Reject, Respond, TypeOK, Binding
<1>6. CASE pc[r] \in {"check", "put", "settle", "settleAgain"}
  BY <1>1, <1>6, ActsAt DEF Check, Put, Settle, Goto, Reject, Respond, TypeOK, Binding
<1>7. CASE pc[r] \in {"answer", "answerAgain"}
  BY <1>1, <1>7, ActsAt DEF SettleAnswered, ToolAnswered, Goto, Reject, Respond, TypeOK, Binding
<1> QED BY <1>1, <1>3, <1>4, <1>5, <1>6, <1>7, ActsAt DEF PC

\* What is guarded stays guarded: records are replaced by records that last as
\* long, and when one lapses the payment has expired for everybody.
LEMMA GuardedStep ==
    ASSUME ~ SlowRequests, TypeOK, RecordsOutlast, [Next]_vars,
           NEW i \in Unsafe, LastLedger[TxOf[i]] <= ledger + Window, Guarded(i)
    PROVE  Guarded(i)'
<1> DEFINE k == KeyOf[i]
           last == LastLedger[TxOf[i]]
<1>0. /\ i \in Invocation /\ k \in Key /\ TxOf[i] \in Tx /\ last \in Nat /\ Window \in Nat
      /\ ledger \in Nat /\ ledger' \in Nat /\ ledger <= ledger'
  BY LedgerGrows, ResourceAssumption, LedgerAssumption
<1>1. CASE store[k] # NoRecord /\ last <= store[k].until
  <2>1. CASE store'[k] = store[k]
    BY <1>1, <2>1 DEF Guarded
  <2>2. ASSUME NEW r \in Request, Binds(r)
        PROVE  store'[k] = store[k]
    BY <1>0, <1>1, <2>2 DEF Binds, TypeOK
  <2>3. ASSUME NEW r \in Request, Stores(r)
        PROVE  Guarded(i)'
    <3>1. CASE KeyFor(r) # k
      BY <2>1, <2>3, <3>1 DEF Stores, TypeOK
    <3>2. CASE KeyFor(r) = k
      <4>1. store'[k] = ResponseRecord(inv[r])
        BY <1>0, <2>3, <3>2 DEF Stores, TypeOK
      <4>2. store'[k].until = ledger + Window /\ store'[k].state = "response"
        BY <4>1 DEF ResponseRecord, Until
      <4>3. store'[k] # NoRecord
        BY <4>2 DEF NoRecord
      <4> QED BY <4>2, <4>3 DEF Guarded
    <3> QED BY <3>1, <3>2
  <2>4. ASSUME NEW m \in Key, Lapse(m)
        PROVE  Guarded(i)'
    <3>1. CASE m # k
      BY <1>0, <2>1, <2>4, <3>1 DEF Lapse, TypeOK
    <3>2. CASE m = k
      <4>1. store[k] \in Record
        BY <1>0, <1>1 DEF TypeOK
      <4>2. store[k].until \in Nat
        BY <4>1 DEF Record
      <4>3. last <= ledger /\ ledger' = ledger /\ pc' = pc /\ inv' = inv
        BY <1>0, <1>1, <2>4, <3>2, <4>2 DEF Lapse, ledgerVars
      <4>4. ASSUME NEW r \in Request, pc[r] \in Binding
            PROVE  ~ SamePayment(inv[r], i)
        <5>1. inv[r] \in Invocation
          BY <4>4 DEF TypeOK, Binding
        <5>2. inv[r] # NoInvocation
          BY <5>1, ResourceAssumption
        <5> QED BY <2>4, <3>2, <4>4, <5>2 DEF Lapse, SamePayment, KeyFor
      <4>5. \A r \in Request : pc'[r] \in Binding => ~ SamePayment(inv'[r], i)
        BY <4>3, <4>4
      <4> QED BY <4>3, <4>5 DEF Guarded, SamePayment
    <3> QED BY <3>1, <3>2
  <2> QED BY <2>1, <2>2, <2>3, <2>4, StoreCases
<1>2. CASE last <= ledger /\ \A r \in Request : pc[r] \in Binding => ~ SamePayment(inv[r], i)
  <2>1. CASE \A r \in Request : pc'[r] \in Binding => ~ SamePayment(inv'[r], i)
    BY <1>0, <1>2, <2>1 DEF Guarded, SamePayment
  <2>2. ASSUME NEW r \in Request, pc'[r] \in Binding, SamePayment(inv'[r], i)
        PROVE  Guarded(i)'
    <3>1. ~ (pc[r] \in Binding /\ inv'[r] = inv[r])
      BY <1>2, <2>2
    <3>2. inv'[r] = inv[r] /\ UNCHANGED store
      BY <2>2, <3>1, EntersBinding
    <3>3. KeyFor(r) = k /\ LastLedger[TxFor(r)] = last
      BY <2>2, <3>2 DEF SamePayment, KeyFor, TxFor
    <3>4. store[k] # NoRecord /\ last <= store[k].until
      BY <1>0, <1>2, <2>2, <3>1, <3>3, EntersBinding
    <3> QED BY <3>2, <3>4 DEF Guarded
  <2> QED BY <2>1, <2>2
<1> QED BY <1>1, <1>2 DEF Guarded

\* The invariant that makes a handler run once: every invocation whose
\* handler ran or is about to run is guarded against another binding.
THEOREM OnceInvariant ==
    ASSUME ~ SlowRequests
    PROVE  Spec => []OnceInv
<1>1. Init => OnceInv
  <2> SUFFICES ASSUME Init
               PROVE  OnceInv
    OBVIOUS
  <2>1. TypeOK /\ HandlerOnce
    BY InitType, ResourceAssumption DEF Init, HandlerOnce
  <2>2. InTime /\ UnsafeBinds /\ RecordsOutlast
    BY DEF Init, InTime, UnsafeBinds, RecordsOutlast, Binding
  <2>3. CachedIsLate
    BY DEF Init, CachedIsLate
  <2>4. \A r \in Request : ~ Holds(r)
    BY DEF Init, Holds
  <2>5. \A i \in Unsafe : ~ Taken(i)
    BY <2>4, ResourceAssumption DEF Init, Taken
  <2> QED
    BY <2>1, <2>2, <2>3, <2>4, <2>5 DEF OnceInv, TakenInTime, TakenGuarded, OneHolder,
       HoldersFirst, OneTaker
<1>2. OnceInv /\ [Next]_vars => OnceInv'
  <2> SUFFICES ASSUME OnceInv, [Next]_vars
               PROVE  OnceInv'
    OBVIOUS
  <2>1. /\ TypeOK /\ InTime /\ UnsafeBinds /\ CachedIsLate /\ RecordsOutlast
        /\ TakenInTime /\ TakenGuarded /\ OneHolder /\ HoldersFirst /\ OneTaker /\ HandlerOnce
    BY DEF OnceInv
  <2>2. TypeOK' /\ InTime' /\ UnsafeBinds' /\ CachedIsLate' /\ RecordsOutlast'
    BY <2>1, StepType, PlaceStep, RecordsStep
  <2>3. ledger \in Nat /\ ledger' \in Nat /\ ledger <= ledger' /\ Window \in Nat
    BY <2>1, LedgerGrows, ResourceAssumption
  <2>4. ASSUME NEW i \in Unsafe
        PROVE  i \in Invocation /\ LastLedger[TxOf[i]] \in Nat /\ ran[i] \in 0 .. 2
    BY <2>1, ResourceAssumption, LedgerAssumption DEF TypeOK
  <2>5. TakenInTime'
    <3> SUFFICES ASSUME NEW i \in Unsafe, Taken(i)'
                 PROVE  LastLedger[TxOf[i]] <= ledger' + Window
      BY DEF TakenInTime
    <3>1. CASE Taken(i)
      BY <2>1, <2>3, <2>4, <3>1 DEF TakenInTime
    <3>2. ASSUME NEW r \in Request, Binds(r), inv[r] = i
          PROVE  LastLedger[TxOf[i]] <= ledger' + Window
      <4>1. pc[r] \notin {"idle", "verify"}
        BY <3>2 DEF Binds
      <4> QED BY <2>1, <2>3, <2>4, <3>2, <4>1 DEF InTime, TxFor
    <3> QED BY <2>1, <2>4, <3>1, <3>2, TakenCases
  <2>6. TakenGuarded'
    <3> SUFFICES ASSUME NEW i \in Unsafe, Taken(i)'
                 PROVE  Guarded(i)'
      BY DEF TakenGuarded
    <3>1. CASE Taken(i)
      BY <2>1, <3>1, GuardedStep DEF TakenGuarded, TakenInTime
    <3>2. ASSUME NEW r \in Request, Binds(r), inv[r] = i
          PROVE  Guarded(i)'
      <4>1. pc[r] \notin {"idle", "verify"} /\ KeyFor(r) = KeyOf[i] /\ KeyFor(r) \in Key
        BY <2>1, <2>4, <3>2, ResourceAssumption DEF Binds, KeyFor
      <4>2. store'[KeyOf[i]] = BoundRecord(i)
        BY <2>1, <3>2, <4>1 DEF Binds, TypeOK
      <4>3. store'[KeyOf[i]].until = ledger + Window /\ store'[KeyOf[i]].state = "bound"
        BY <4>2 DEF BoundRecord, Until
      <4>4. store'[KeyOf[i]] # NoRecord
        BY <4>3 DEF NoRecord
      <4>5. LastLedger[TxOf[i]] <= ledger + Window
        BY <2>1, <3>2, <4>1 DEF InTime, TxFor
      <4> QED BY <4>3, <4>4, <4>5 DEF Guarded
    <3> QED BY <2>1, <2>4, <3>1, <3>2, TakenCases
  <2>7. OneHolder'
    <3> SUFFICES ASSUME NEW r \in Request, NEW s \in Request, Holds(r)', Holds(s)',
                        inv'[r] = inv'[s]
                 PROVE  r = s
      BY DEF OneHolder
    <3>1. ASSUME NEW x \in Request, NEW y \in Request, inv[x] = inv[y], inv[x] \in Unsafe,
                 Binds(x), Holds(y)
          PROVE  FALSE
      BY <2>1, <3>1, FreshBind DEF SamePayment, Taken
    <3>2. \/ Stays(r) /\ Holds(r)
          \/ Binds(r) /\ inv[r] \in Unsafe /\ inv'[r] = inv[r]
      BY <2>1, HoldsCases
    <3>3. \/ Stays(s) /\ Holds(s)
          \/ Binds(s) /\ inv[s] \in Unsafe /\ inv'[s] = inv[s]
      BY <2>1, HoldsCases
    <3> QED BY <2>1, <3>1, <3>2, <3>3, OneBinds DEF OneHolder, Stays
  <2>8. HoldersFirst'
    <3> SUFFICES ASSUME NEW r \in Request, Holds(r)'
                 PROVE  ran'[inv'[r]] = 0
      BY DEF HoldersFirst
    <3>1. CASE Stays(r) /\ Holds(r)
      <4>1. inv[r] \in Invocation /\ ran[inv[r]] = 0 /\ inv'[r] = inv[r]
        BY <2>1, <3>1, ResourceAssumption DEF HoldersFirst, Holds, Stays
      <4>2. ran'[inv[r]] = ran[inv[r]]
        BY <2>1, <3>1, <4>1, RanCases DEF OneHolder
      <4> QED BY <4>1, <4>2
    <3>2. CASE Binds(r) /\ inv[r] \in Unsafe /\ inv'[r] = inv[r]
      <4>1. ~ Taken(inv[r])
        BY <2>1, <3>2, FreshBind DEF SamePayment
      <4>2. ran[inv[r]] = 0
        BY <2>4, <3>2, <4>1 DEF Taken
      <4>3. ran' = ran
        BY <3>2 DEF Binds
      <4> QED BY <3>2, <4>2, <4>3
    <3> QED BY <2>1, <3>1, <3>2, HoldsCases
  <2>9. OneTaker'
    <3> SUFFICES ASSUME NEW i \in Unsafe, NEW j \in Unsafe, SamePayment(i, j), Taken(i)', Taken(j)'
                 PROVE  i = j
      BY DEF OneTaker, SamePayment
    <3>1. ASSUME NEW x \in Unsafe, NEW y \in Unsafe, SamePayment(x, y), Taken(y),
                 NEW r \in Request, Binds(r), inv[r] = x
          PROVE  FALSE
      BY <2>1, <3>1, FreshBind
    <3>2. SamePayment(j, i)
      BY DEF SamePayment
    <3>3. Taken(i) \/ \E r \in Request : Binds(r) /\ inv[r] = i
      BY <2>1, <2>4, TakenCases
    <3>4. Taken(j) \/ \E r \in Request : Binds(r) /\ inv[r] = j
      BY <2>1, <2>4, TakenCases
    <3> QED BY <2>1, <3>1, <3>2, <3>3, <3>4, OneBinds DEF OneTaker
  <2>10. HandlerOnce'
    <3> SUFFICES ASSUME NEW i \in Unsafe
                 PROVE  ran'[i] <= 1
      BY DEF HandlerOnce
    <3>1. CASE ran'[i] = ran[i]
      BY <2>1, <3>1 DEF HandlerOnce
    <3>2. CASE ran'[i] # ran[i]
      BY <2>1, <2>4, <3>2, RanCases DEF HoldersFirst
    <3> QED BY <3>1, <3>2
  <2> QED BY <2>2, <2>5, <2>6, <2>7, <2>8, <2>9, <2>10 DEF OnceInv
<1> QED BY <1>1, <1>2, PTL DEF Spec

\* "A still-valid retry cannot repeat the handler after cache expiry": an
\* unsafe handler runs at most once per invocation, for any requests, any
\* identifiers reused for later transactions, and any length of retrying, if
\* verification is followed by the binding within a TTL.
THEOREM HandlerOnceTheorem ==
    ASSUME ~ SlowRequests
    PROVE  Spec => []HandlerOnce
<1>1. OnceInv => HandlerOnce
  BY DEF OnceInv
<1> QED BY <1>1, OnceInvariant, PTL

(***************************************************************************)
(* One payment buys one unsafe invocation                                  *)
(***************************************************************************)

\* Whatever is stored, served or released comes from a run of the handler.
StoredRan == \A k \in Key : store[k].state = "response" => ran[store[k].fp] > 0
ServedRan ==
    \A r \in Request :
        inv[r] \in Unsafe /\ (pc[r] \in Late \/ cached[r]) => ran[inv[r]] > 0
ReleasedRan == \A i \in released \intersect Unsafe : ran[i] > 0

RanInv ==
    /\ TypeOK /\ InTime /\ UnsafeBinds /\ CachedIsLate
    /\ StoredRan /\ ServedRan /\ ReleasedRan

\* A run that is counted stays counted.
LEMMA RanGrows ==
    ASSUME TypeOK, CachedIsLate, [Next]_vars, NEW i \in Invocation, ran[i] > 0
    PROVE  ran'[i] > 0
<1>1. ran[i] \in 0 .. 2
  BY DEF TypeOK
<1> QED BY <1>1, RanCases

\* A request that is served past its handler ran it, or was served from a
\* response that somebody's run had stored.
LEMMA ServedStep ==
    ASSUME RanInv, [Next]_vars, NEW r \in Request, inv'[r] \in Unsafe,
           pc'[r] \in Late \/ cached'[r]
    PROVE  ran'[inv'[r]] > 0
<1>0. TypeOK /\ CachedIsLate /\ StoredRan /\ ServedRan
  BY DEF RanInv
<1>1. CASE inv'[r] = inv[r] /\ (pc[r] \in Late \/ cached[r])
  BY <1>0, <1>1, RanGrows, ResourceAssumption DEF ServedRan
<1>2. CASE Stays(r)
  BY <1>1, <1>2 DEF Stays
<1>3. CASE Acts(r) /\ inv'[r] = inv[r] /\ pc'[r] # "idle" /\ pc[r] # "idle"
  <2>1. inv[r] \in Invocation /\ inv[r] \in Unsafe /\ ~ Reject(r)
    BY <1>0, <1>3, ResourceAssumption DEF Reject, Respond, TypeOK
  <2>2. ASSUME NEW label \in PC, label \notin Late, Goto(r, label)
        PROVE  ran'[inv'[r]] > 0
    <3>1. pc'[r] = label /\ pc'[r] \notin Late
      BY <1>0, <2>2 DEF Goto, TypeOK
    <3>2. cached'[r] = cached[r]
      BY <2>2 DEF Goto
    <3>3. cached[r]
      BY <3>1, <3>2
    <3> QED BY <1>1, <1>3, <3>3
  <2>3. CASE pc[r] = "verify"
    BY <1>0, <1>3, <2>1, <2>2, <2>3, ActsAt, VerifiedCases DEF PC, Binding, Late
  <2>4. CASE pc[r] \in {"recover", "reread", "rereadAgain", "bind", "bindAgain"}
    BY <1>0, <1>3, <2>1, <2>2, <2>4, ActsAt DEF Recover, Reread, Bind, PC, Binding, Late
  <2>5. CASE pc[r] = "get"
    <3>1. ASSUME Matches(store[KeyFor(r)], inv[r]), HasResponse(store[KeyFor(r)]), UNCHANGED ran
          PROVE  ran'[inv'[r]] > 0
      <4>1. KeyFor(r) \in Key
        BY <1>0, <1>3, RequestFacts
      <4>2. ran[store[KeyFor(r)].fp] > 0
        BY <1>0, <3>1, <4>1 DEF StoredRan, HasResponse
      <4> QED BY <1>3, <3>1, <4>2 DEF Matches
    <3> QED BY <1>0, <1>3, <2>1, <2>2, <2>5, <3>1, ActsAt DEF Get, LoadCached, PC, Binding, Late
  <2>6. CASE pc[r] = "handler"
    <3>1. CASE Executed(r)
      <4>1. ran[inv[r]] \in 0 .. 2 /\ ran \in [Invocation -> 0 .. 2]
        BY <1>0, <2>1 DEF TypeOK
      <4>2. ran'[inv[r]] > 0
        BY <2>1, <3>1, <4>1 DEF Executed
      <4> QED BY <1>3, <4>2
    <3>2. CASE cached[r]
      BY <1>1, <1>3, <3>2
    <3> QED BY <1>0, <1>3, <2>6, <3>1, <3>2, ActsAt DEF Handle, RunTool
  <2>7. CASE pc[r] \in Late
    BY <1>1, <1>3, <2>7
  <2> QED BY <1>0, <1>3, <2>3, <2>4, <2>5, <2>6, <2>7, ActsAt DEF PC, Binding, Late
<1>4. ASSUME NEW i \in Invocation, Arrive(r, i)
      PROVE  FALSE
  <2>1. pc[r] = "idle" /\ pc'[r] = "verify"
    BY <1>0, <1>4 DEF Arrive, TypeOK
  <2>2. cached'[r] = cached[r]
    BY <1>4 DEF Arrive
  <2> QED BY <1>0, <2>1, <2>2 DEF CachedIsLate, Late
<1>5. CASE pc'[r] = "idle" /\ cached'[r] = FALSE
  BY <1>5 DEF Late
<1> QED BY <1>0, <1>2, <1>3, <1>4, <1>5, Moves

\* Whatever is stored, served or released comes from a counted run.
THEOREM RanInvariant == Spec => []RanInv
<1>1. Init => RanInv
  <2> SUFFICES ASSUME Init
               PROVE  RanInv
    OBVIOUS
  <2>1. TypeOK /\ InTime /\ UnsafeBinds /\ StoredRan /\ ReleasedRan
    BY InitType DEF Init, InTime, UnsafeBinds, StoredRan, ReleasedRan, NoRecord, Binding
  <2>2. CachedIsLate
    BY DEF Init, CachedIsLate
  <2>3. ServedRan
    BY ResourceAssumption DEF Init, ServedRan
  <2> QED BY <2>1, <2>2, <2>3 DEF RanInv
<1>2. RanInv /\ [Next]_vars => RanInv'
  <2> SUFFICES ASSUME RanInv, [Next]_vars
               PROVE  RanInv'
    OBVIOUS
  <2>1. /\ TypeOK /\ InTime /\ UnsafeBinds /\ CachedIsLate
        /\ StoredRan /\ ServedRan /\ ReleasedRan
    BY DEF RanInv
  <2>2. TypeOK' /\ InTime' /\ UnsafeBinds' /\ CachedIsLate'
    BY <2>1, StepType, PlaceStep
  <2>3. StoredRan'
    <3> SUFFICES ASSUME NEW k \in Key, store'[k].state = "response"
                 PROVE  ran'[store'[k].fp] > 0
      BY DEF StoredRan
    <3>1. CASE store'[k] = store[k]
      <4>1. ran[store[k].fp] > 0
        BY <2>1, <3>1 DEF StoredRan
      <4>2. store[k].fp \in Invocation
        BY <2>1, <3>1 DEF TypeOK, Record, NoRecord, StoredFp
      <4> QED BY <2>1, <3>1, <4>1, <4>2, RanGrows
    <3>2. ASSUME NEW r \in Request, Binds(r)
          PROVE  store'[k] = store[k]
      BY <2>1, <3>2 DEF Binds, TypeOK, BoundRecord
    <3>3. ASSUME NEW r \in Request, Stores(r)
          PROVE  store'[k] = store[k] \/ ran'[store'[k].fp] > 0
      <4>1. CASE KeyFor(r) # k
        BY <2>1, <3>3, <4>1 DEF Stores, TypeOK
      <4>2. CASE KeyFor(r) = k
        <5>1. store'[k].fp = inv[r]
          BY <2>1, <3>3, <4>2 DEF Stores, TypeOK, ResponseRecord
        <5>2. inv[r] \in Unsafe /\ inv[r] \in Invocation /\ pc[r] \in Late
          BY <2>1, <3>3, ResourceAssumption DEF Stores, UnsafeBinds, Late
        <5> QED BY <2>1, <5>1, <5>2, RanGrows DEF ServedRan
      <4> QED BY <4>1, <4>2
    <3>4. ASSUME NEW m \in Key, Lapse(m)
          PROVE  store'[k] = store[k]
      BY <2>1, <3>4 DEF Lapse, TypeOK, NoRecord
    <3> QED BY <2>1, <3>1, <3>2, <3>3, <3>4, StoreCases
  <2>4. ServedRan'
    BY ServedStep DEF ServedRan
  <2>5. ReleasedRan'
    <3> SUFFICES ASSUME NEW i \in released', i \in Unsafe
                 PROVE  ran'[i] > 0
      BY DEF ReleasedRan
    <3>1. i \in Invocation
      BY ResourceAssumption
    <3>2. ran[i] > 0
      <4>1. CASE i \in released
        BY <2>1, <4>1 DEF ReleasedRan
      <4>2. CASE i \notin released
        <5>1. PICK r \in Request : pc[r] \in {"answer", "answerAgain"} /\ i = inv[r]
          BY <2>1, <4>2, ReleaseCases
        <5>2. pc[r] \in Late
          BY <5>1 DEF Late
        <5>3. inv[r] \in Unsafe
          BY <5>1
        <5>4. ran[inv[r]] > 0
          BY <2>1, <5>2, <5>3 DEF ServedRan
        <5> QED BY <5>1, <5>4
      <4> QED BY <4>1, <4>2
    <3> QED BY <2>1, <3>1, <3>2, RanGrows
  <2> QED BY <2>2, <2>3, <2>4, <2>5 DEF RanInv
<1> QED BY <1>1, <1>2, PTL DEF Spec

\* One signed transaction buys at most one unsafe invocation: what was
\* released ran, is what the facilitator bound, and so shares the identifier
\* that only one invocation was able to bind for this payment.
THEOREM OnePaymentTheorem ==
    ASSUME ~ SlowRequests
    PROVE  Spec => []OnePaymentOneResource
<1>1. OnceInv /\ RanInv /\ ResourceInv => OnePaymentOneResource
  <2> SUFFICES ASSUME OnceInv, RanInv, ResourceInv, NEW i \in released \intersect Unsafe,
                      NEW j \in released \intersect Unsafe, TxOf[i] = TxOf[j]
               PROVE  i = j
    BY DEF OnePaymentOneResource
  <2>1. i \in Invocation /\ j \in Invocation /\ TxOf[i] \in Tx
    BY ResourceAssumption
  <2>2. FpOf[i] = FpOf[j]
    BY <2>1 DEF ResourceInv, OneBound, ReleasedBound
  <2>3. SamePayment(i, j)
    BY <2>1, <2>2, FingerprintAssumption DEF SamePayment
  <2>4. Taken(i) /\ Taken(j)
    BY DEF RanInv, ReleasedRan, Taken
  <2> QED BY <2>3, <2>4 DEF OnceInv, OneTaker
<1> QED BY <1>1, OnceInvariant, RanInvariant, ResourceInvariant, PTL

(***************************************************************************)
(* The promise and the contract                                            *)
(***************************************************************************)

\* One answer at a time releases bytes.
LEMMA ReleaseStep ==
    ASSUME TypeOK, [Next]_vars
    PROVE  \/ UNCHANGED released
           \/ \E r \in Request :
                 /\ inv[r] \in Invocation /\ released' = released \union {inv[r]}
                 /\ UNCHANGED <<ledgerVars, bound, ran>>
<1>1. ASSUME NEW r \in Request, NEW bytes \in BOOLEAN, Respond(r, bytes)
      PROVE  UNCHANGED released \/ released' = released \union {inv[r]}
  BY <1>1 DEF Respond
<1>2. ASSUME NEW r \in Request, SettleAnswered(r) \/ ToolAnswered(r)
      PROVE  \/ UNCHANGED released
             \/ /\ inv[r] \in Invocation /\ released' = released \union {inv[r]}
                /\ UNCHANGED <<ledgerVars, bound, ran>>
  <2>1. UNCHANGED <<ledgerVars, bound, ran>> /\ pc[r] \in {"answer", "answerAgain"}
    BY <1>2 DEF SettleAnswered, ToolAnswered
  <2>2. inv[r] \in Invocation
    BY <2>1, RequestFacts
  <2>3. UNCHANGED released \/ \E answer : Respond(r, answer = "success")
    BY <1>2 DEF SettleAnswered, ToolAnswered, SendsBytes, Goto, Reject, Respond
  <2> QED BY <1>1, <2>1, <2>2, <2>3
<1>3. ASSUME NEW r \in Request, Reject(r)
      PROVE  UNCHANGED released
  BY <1>3 DEF Reject, Respond
<1>4. ASSUME NEW r \in Request, pc[r] = "verify", Verified(r)
      PROVE  UNCHANGED released
  BY <1>3, <1>4, VerifiedCases DEF Goto
<1>5. ASSUME NEW r \in Request,
             \/ Recover(r) \/ Get(r) \/ LoadCached(r) \/ Bind(r) \/ Reread(r) \/ Handle(r)
             \/ RunTool(r) \/ Check(r) \/ Put(r) \/ Settle(r) \/ Crash(r)
      PROVE  UNCHANGED released
  BY <1>3, <1>5 DEF Recover, Get, LoadCached, Bind, Reread, Handle, RunTool, Executed, Check,
     Put, Settle, Crash, Goto
<1>6. CASE \/ \E r \in Request, j \in Invocation : Arrive(r, j)
           \/ (\E k \in Key : Lapse(k)) \/ Ledger \/ UNCHANGED vars
  BY <1>6 DEF Arrive, Lapse, Ledger, vars, serverVars
<1> QED BY <1>2, <1>4, <1>5, <1>6 DEF Next, Verify, VerifyTool

\* One handler at a time runs.
LEMMA RunStep ==
    ASSUME TypeOK, [Next]_vars
    PROVE  \/ UNCHANGED ran
           \/ \E r \in Request :
                 /\ inv[r] \in Unsafe /\ ran' = [ran EXCEPT ![inv[r]] = @ + 1]
                 /\ UNCHANGED <<ledgerVars, released>>
<1>1. ASSUME NEW r \in Request, Handle(r) \/ RunTool(r)
      PROVE  \/ UNCHANGED ran
             \/ /\ inv[r] \in Unsafe /\ ran' = [ran EXCEPT ![inv[r]] = @ + 1]
                /\ UNCHANGED <<ledgerVars, released>>
  <2>1. UNCHANGED ran \/ Executed(r)
    BY <1>1 DEF Handle, RunTool
  <2>2. UNCHANGED ledgerVars
    BY <1>1 DEF Handle, RunTool
  <2> QED BY <2>1, <2>2 DEF Executed, Goto, Reject, Respond
<1> QED
  BY <1>1 DEF Next, vars, serverVars, Arrive, Verify, VerifyTool, Recover, Get, LoadCached,
     Bind, Reread, Check, Put, Settle, SettleAnswered, ToolAnswered, Crash, Lapse, Ledger

\* Payments are delivered by ledgers.
LEMMA PaidStep ==
    ASSUME TypeOK, SlotsSpent, [Next]_vars
    PROVE  \/ UNCHANGED result
           \/ /\ UNCHANGED serverVars
              /\ \A t \in Tx : result[t] = "delivered" => result'[t] = "delivered"
<1>1. \A t \in Tx : result[t] = "delivered" => result'[t] = "delivered"
  BY SettledStable DEF Settled
<1> QED
  BY <1>1 DEF Next, vars, ledgerVars, serverVars, Arrive, Verify, VerifyTool, Recover, Get,
     LoadCached, Bind, Reread, Handle, RunTool, Check, Put, Settle, SettleAnswered, ToolAnswered,
     Crash, Lapse, Ledger

SaleInv == PaidInv /\ ResourceInv /\ OnceInv /\ RanInv /\ OnePaymentOneResource /\ OneResourcePerPayment

\* Every step is a payment, a run or a sale, or leaves them alone.
LEMMA StepKeepsPromise ==
    ASSUME SaleInv, SaleInv', [Next]_vars
    PROVE  [Sale!Next]_(Sale!vars)
<1> DEFINE Paid == {t \in Tx : result[t] = "delivered"}
<1>1. TypeOK /\ SlotsSpent /\ TypeOK'
  BY DEF SaleInv, PaidInv
<1>2. CASE UNCHANGED <<result, ran, released>>
  BY <1>2 DEF Sale!vars
<1>3. CASE result' # result
  <2>1. /\ UNCHANGED <<ran, released>>
        /\ \A t \in Tx : result[t] = "delivered" => result'[t] = "delivered"
    BY <1>1, <1>3, PaidStep DEF serverVars
  <2>2. PICK S \in SUBSET Tx :
            S = {t \in Tx : result'[t] = "delivered" /\ result[t] # "delivered"}
    OBVIOUS
  <2>3. Paid' = Paid \union S
    BY <2>1, <2>2
  <2>4. Sale!Pay(S)
    BY <2>1, <2>3 DEF Sale!Pay
  <2> QED BY <2>4 DEF Sale!Next
<1>4. CASE ran' # ran
  <2>1. PICK r \in Request :
            /\ inv[r] \in Unsafe /\ ran' = [ran EXCEPT ![inv[r]] = @ + 1]
            /\ UNCHANGED <<ledgerVars, released>>
    BY <1>1, <1>4, RunStep
  <2>2. inv[r] \in Invocation /\ ran[inv[r]] \in 0 .. 2 /\ ran \in [Invocation -> 0 .. 2]
    BY <1>1, <2>1, ResourceAssumption DEF TypeOK
  <2>3. ran'[inv[r]] # ran[inv[r]]
    BY <2>1, <2>2
  <2>4. ran[inv[r]] = 0
    BY <1>1, <2>2, <2>3, RanCases DEF SaleInv, OnceInv, HoldersFirst
  <2>5. ran' = [ran EXCEPT ![inv[r]] = 1] /\ UNCHANGED <<result, released>>
    BY <2>1, <2>2, <2>4 DEF ledgerVars
  <2>6. Sale!Run(inv[r])
    BY <2>1, <2>4, <2>5 DEF Sale!Run
  <2> QED BY <2>2, <2>6 DEF Sale!Next
<1>5. CASE released' # released
  <2>1. PICK r \in Request :
            /\ inv[r] \in Invocation /\ released' = released \union {inv[r]}
            /\ UNCHANGED <<ledgerVars, bound, ran>>
    BY <1>1, <1>5, ReleaseStep
  <2> DEFINE i == inv[r]
  <2>2. i \in released' /\ i \notin released /\ TxOf[i] \in Tx
    BY <1>5, <2>1, ResourceAssumption
  <2>3. TxOf[i] \in Paid
    BY <1>1, <2>2, ReleaseCases
  <2>4. i \in Unsafe => ran[i] = 1
    <3> SUFFICES ASSUME i \in Unsafe
                 PROVE  ran[i] = 1
      OBVIOUS
    <3>1. ran'[i] > 0 /\ ran' = ran /\ ran[i] <= 1
      BY <2>1, <2>2 DEF SaleInv, RanInv, ReleasedRan, OnceInv, HandlerOnce
    <3>2. ran[i] \in 0 .. 2
      BY <1>1, <2>1 DEF TypeOK
    <3> QED BY <3>1, <3>2
  <2>5. Sale!Unspent(i)
    <3> SUFFICES ASSUME NEW j \in released, TxOf[j] = TxOf[i]
                 PROVE  ResourceOf[j] = ResourceOf[i] /\ ({i, j} \subseteq Unsafe => i = j)
      BY DEF Sale!Unspent
    <3>1. j \in released' /\ i \in released'
      BY <2>1, <2>2
    <3> QED BY <3>1 DEF SaleInv, OnePaymentOneResource, OneResourcePerPayment
  <2>6. Sale!Sell(i)
    BY <2>1, <2>3, <2>4, <2>5 DEF Sale!Sell, ledgerVars
  <2> QED BY <2>1, <2>6 DEF Sale!Next
<1> QED BY <1>2, <1>3, <1>4, <1>5

\* The paid routes and tools of any number of racing, crashing and repeated
\* requests implement PaidSale.
THEOREM PromiseTheorem ==
    ASSUME ~ SlowRequests
    PROVE  Spec => KeepsPromise
<1>1. Init => Sale!Init
  BY DEF Init, LedgerInit, Sale!Init
<1>2. Spec => []SaleInv
  BY PaidInvariant, ResourceInvariant, OnceInvariant, RanInvariant, OnePaymentTheorem,
     OneResourceTheorem, PTL DEF SaleInv
<1> QED BY <1>1, <1>2, StepKeepsPromise, PTL DEF Spec, KeepsPromise, Sale!Spec

=============================================================================
