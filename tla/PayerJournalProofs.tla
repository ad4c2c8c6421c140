-------------------------- MODULE PayerJournalProofs --------------------------
(***************************************************************************)
(* Proofs about PayerJournal, for any number of callers and payloads, with *)
(* crashes anywhere.                                                       *)
(***************************************************************************)
EXTENDS PayerJournal, FiniteSetTheorems, TLAPS

(***************************************************************************)
(* Type correctness                                                        *)
(***************************************************************************)

\* Whoever is past its claim has a payload, and what is recorded is an answer.
HasPayload ==
    \A c \in Caller :
        pc[c] \in {"persist", "validate", "send", "await", "record"} => payload[c] \in Payload
HasAnswer == \A c \in Caller : pc[c] = "record" => answer[c] # "none"

TypeInv == TypeOK /\ HasPayload /\ HasAnswer

\* What the types say of one caller's variables.
CallerOK ==
    /\ pc \in [Caller -> PC]
    /\ payload \in [Caller -> Payload \union {NoPayload}]
    /\ answer \in [Caller -> Answer]
    /\ HasPayload /\ HasAnswer

\* A call that is over keeps the types of what it forgets.
LEMMA LeaveType ==
    ASSUME CallerOK, NEW c \in Caller, Leave(c)
    PROVE  CallerOK'
BY DEF CallerOK, Leave, Goto, PC, Answer, HasPayload, HasAnswer

\* So does a step to a place where no payload is needed, or one is at hand.
LEMMA GotoType ==
    ASSUME CallerOK, NEW c \in Caller, NEW label \in PC, Goto(c, label),
           NEW p \in Payload \union {NoPayload}, payload' = [payload EXCEPT ![c] = p],
           NEW a \in Answer, answer' = [answer EXCEPT ![c] = a],
           label \in {"persist", "validate", "send", "await", "record"} => p \in Payload,
           label = "record" => a # "none"
    PROVE  CallerOK'
BY DEF CallerOK, Goto, HasPayload, HasAnswer

\* What an outcome makes of an entry is an entry.
LEMMA OutcomeType ==
    ASSUME NEW a \in Attempt, NEW r, r.state \in ReceiptState \union {"pending"}
    PROVE  /\ AfterOutcome(a, r) \in Attempt \union {NoAttempt}
           /\ r.state = "failed" => AfterOutcome(a, r) = NoAttempt
           /\ r.state # "failed" => /\ AfterOutcome(a, r).payload = a.payload
                                    /\ AfterOutcome(a, r).state = r.state
           /\ r.state = "paid" => AfterOutcome(a, r).live
BY DEF AfterOutcome, Attempt, ReceiptState

\* A new claim is an entry, and an entry whose lease lapses stays one.
LEMMA EntryType ==
    /\ \A c \in Caller : [state |-> "claimed", owner |-> c, live |-> TRUE,
                          payload |-> NoPayload] \in Attempt
    /\ \A a \in Attempt : [a EXCEPT !.live = FALSE] \in Attempt
BY DEF Attempt, NoPayload

\* What a caller records is a receipt.
LEMMA ReceiptType ==
    ASSUME TypeInv, NEW c \in Caller, pc[c] = "record"
    PROVE  /\ Receipt(c) \in [state : ReceiptState \union {"pending"}, tx : Payload \union {NoPayload}]
           /\ Receipt(c).state = StateOf(answer[c])
           /\ answer[c] = "paid" => StateOf(answer[c]) = "paid"
           /\ answer[c] \in {"pending", "lost"} => StateOf(answer[c]) = "pending"
           /\ answer[c] \in {"failed", "refused"} => StateOf(answer[c]) = "failed"
           /\ answer[c] \in {"paid", "pending", "lost", "failed", "refused"}
<1>1. answer[c] \in {"paid", "pending", "lost", "failed", "refused"}
  BY DEF TypeInv, TypeOK, HasAnswer, Answer
<1>2. payload[c] \in Payload \union {NoPayload}
  BY DEF TypeInv, TypeOK
<1> QED BY <1>1, <1>2 DEF Receipt, ReceiptTx, StateOf, ReceiptState

\* The initial state is well typed.
LEMMA InitType == Init => TypeInv
BY JournalAssumption DEF Init, TypeInv, TypeOK, HasPayload, HasAnswer, PC, Answer, Payload, NoPayload

\* Every step keeps the types.
LEMMA StepType == TypeInv /\ [Next]_vars => TypeInv'
<1> SUFFICES ASSUME TypeInv, [Next]_vars
             PROVE  TypeInv'
  OBVIOUS
<1> DEFINE Shared ==
      /\ attempt \in Attempt \union {NoAttempt}
      /\ receipts \subseteq [state : ReceiptState, tx : Payload \union {NoPayload}]
      /\ signed \in 0 .. MaxPayload
      /\ dispatched \in SUBSET Payload
      /\ outcome \in [Payload -> {"open", "paid", "failed"}]
      /\ client \in {"http", "mcp"}
      /\ concluded \in 0 .. MaxPayload
<1>0. CallerOK /\ Shared
  BY DEF TypeInv, TypeOK, CallerOK
<1>1. CallerOK' /\ Shared' => TypeInv'
  BY DEF TypeInv, TypeOK, CallerOK
<1>2. ASSUME NEW c \in Caller, UNCHANGED <<payload, answer>>
      PROVE  /\ payload' = [payload EXCEPT ![c] = payload[c]]
             /\ answer' = [answer EXCEPT ![c] = answer[c]]
             /\ payload[c] \in Payload \union {NoPayload} /\ answer[c] \in Answer
  BY <1>0, <1>2 DEF CallerOK
<1>3. ASSUME NEW c \in Caller, Challenged(c)
      PROVE  TypeInv'
  <2>1. CallerOK'
    BY <1>0, <1>2, <1>3, GotoType DEF Challenged, PC
  <2> QED BY <1>0, <1>1, <1>3, <2>1 DEF Challenged
<1>4. ASSUME NEW c \in Caller, Claim(c)
      PROVE  TypeInv'
  <2>1. attempt.payload \in Payload \union {NoPayload}
    BY <1>0 DEF Attempt, NoAttempt, NoPayload
  <2>2. answer' = [answer EXCEPT ![c] = answer[c]] /\ answer[c] \in Answer
    BY <1>0, <1>4 DEF Claim, CallerOK
  <2>3. CASE UNCHANGED payload /\ Goto(c, "sign")
    <3>0. payload' = [payload EXCEPT ![c] = payload[c]] /\ payload[c] \in Payload \union {NoPayload}
      BY <1>0, <2>3 DEF CallerOK
    <3>1. CallerOK'
      BY <1>0, <2>2, <2>3, <3>0, GotoType DEF PC
    <3>2. attempt' \in Attempt \union {NoAttempt}
      BY <1>0, <1>4, EntryType DEF Claim
    <3> QED BY <1>0, <1>1, <1>4, <3>1, <3>2 DEF Claim
  <2>4. CASE Resume(c, attempt.payload) /\ attempt.payload # NoPayload /\ UNCHANGED attempt
    <3>1. CallerOK'
      BY <1>0, <1>4, <2>1, <2>2, <2>4, GotoType DEF Claim, Resume, PC
    <3> QED BY <1>0, <1>1, <1>4, <2>4, <3>1 DEF Claim
  <2> QED BY <1>4, <2>3, <2>4 DEF Claim
<1>5. ASSUME NEW c \in Caller, ClaimSupplied(c)
      PROVE  TypeInv'
  <2>1. payload[c] \in Payload
    BY <1>0, <1>5 DEF ClaimSupplied, CallerOK
  <2>2. CallerOK'
    <3>1. CASE Leave(c)
      BY <1>0, <3>1, LeaveType
    <3>2. CASE UNCHANGED <<payload, answer>> /\ (Goto(c, "persist") \/ Goto(c, "send"))
      BY <1>0, <1>2, <2>1, <3>2, GotoType DEF PC
    <3> QED BY <1>5, <3>1, <3>2 DEF ClaimSupplied
  <2>3. attempt' \in Attempt \union {NoAttempt}
    BY <1>0, <1>5, EntryType DEF ClaimSupplied
  <2> QED BY <1>0, <1>1, <1>5, <2>2, <2>3 DEF ClaimSupplied
<1>6. ASSUME NEW c \in Caller, Validate(c)
      PROVE  TypeInv'
  <2>1. payload[c] \in Payload
    BY <1>0, <1>6 DEF Validate, CallerOK, HasPayload
  <2>2. CallerOK'
    <3>1. CASE UNCHANGED answer /\ (Goto(c, "send") \/ Goto(c, "release"))
      BY <1>0, <1>2, <1>6, <2>1, <3>1, GotoType DEF Validate, PC
    <3>2. CASE answer' = [answer EXCEPT ![c] = "lost"] /\ Goto(c, "record")
      <4>1. payload' = [payload EXCEPT ![c] = payload[c]]
        BY <1>0, <1>6 DEF Validate, CallerOK
      <4> QED BY <1>0, <2>1, <3>2, <4>1, GotoType DEF PC, Answer
    <3> QED BY <1>6, <3>1, <3>2 DEF Validate, Mismatch
  <2> QED BY <1>0, <1>1, <1>6, <2>2 DEF Validate
<1>7. ASSUME NEW c \in Caller, Sign(c)
      PROVE  TypeInv'
  <2>1. CASE /\ signed < MaxPayload /\ signed' = signed + 1
             /\ payload' = [payload EXCEPT ![c] = signed + 1] /\ Goto(c, "persist")
    <3>1. signed + 1 \in Payload /\ signed' \in 0 .. MaxPayload
      BY <1>0, <2>1, JournalAssumption DEF Payload
    <3>2. answer' = [answer EXCEPT ![c] = answer[c]] /\ answer[c] \in Answer
      BY <1>0, <1>7 DEF Sign, CallerOK
    <3>3. CallerOK'
      BY <1>0, <2>1, <3>1, <3>2, GotoType DEF PC
    <3> QED BY <1>0, <1>1, <1>7, <3>1, <3>3 DEF Sign
  <2>2. CASE Goto(c, "release") /\ UNCHANGED <<signed, payload>>
    <3>1. CallerOK'
      BY <1>0, <1>2, <1>7, <2>2, GotoType DEF Sign, PC
    <3> QED BY <1>0, <1>1, <1>7, <2>2, <3>1 DEF Sign
  <2> QED BY <1>7, <2>1, <2>2 DEF Sign
<1>8. ASSUME NEW c \in Caller, Persist(c)
      PROVE  TypeInv'
  <2>1. attempt.payload \in Payload \union {NoPayload} /\ payload[c] \in Payload
    BY <1>0, <1>8 DEF Attempt, NoAttempt, NoPayload, Persist, CallerOK, HasPayload
  <2>2. answer' = [answer EXCEPT ![c] = answer[c]] /\ answer[c] \in Answer
    BY <1>0, <1>8 DEF Persist, CallerOK
  <2>3. CallerOK'
    <3>1. CASE attempt.payload # NoPayload /\ payload' = [payload EXCEPT ![c] = attempt.payload]
               /\ Goto(c, "send")
      BY <1>0, <2>1, <2>2, <3>1, GotoType DEF PC
    <3>2. CASE UNCHANGED payload /\ Goto(c, "send")
      BY <1>0, <1>2, <1>8, <2>1, <2>2, <3>2, GotoType DEF Persist, PC
    <3>3. CASE payload' = [payload EXCEPT ![c] = NoPayload] /\ Goto(c, "release")
      BY <1>0, <2>2, <3>3, GotoType DEF PC
    <3> QED BY <1>8, <3>1, <3>2, <3>3 DEF Persist
  <2>4. attempt' \in Attempt \union {NoAttempt}
    <3>1. CASE MayPersist(attempt, c) /\ attempt' = [attempt EXCEPT !.state = "ready",
                                                       !.live = FALSE, !.payload = payload[c]]
      BY <1>0, <2>1, <3>1 DEF MayPersist, Attempt
    <3> QED BY <1>0, <1>8, <3>1 DEF Persist
  <2> QED BY <1>0, <1>1, <1>8, <2>3, <2>4 DEF Persist
<1>9. ASSUME NEW c \in Caller, Send(c)
      PROVE  TypeInv'
  <2>1. payload[c] \in Payload
    BY <1>0, <1>9 DEF Send, CallerOK, HasPayload
  <2>2. CallerOK'
    BY <1>0, <1>2, <1>9, <2>1, GotoType DEF Send, PC
  <2> QED BY <1>0, <1>1, <1>9, <2>1, <2>2 DEF Send
<1>10. ASSUME NEW c \in Caller, Receive(c)
       PROVE  TypeInv'
  <2>1. payload[c] \in Payload
    BY <1>0, <1>10 DEF Receive, CallerOK, HasPayload
  <2>2. PICK a \in Answers(payload[c]) :
             /\ answer' = [answer EXCEPT ![c] = a]
             /\ outcome' = IF a \in {"paid", "failed"}
                           THEN [outcome EXCEPT ![payload[c]] = a] ELSE outcome
    BY <1>10 DEF Receive
  <2>3. a \in Answer /\ a # "none"
    BY <2>2 DEF Answers, Answer
  <2>4. payload' = [payload EXCEPT ![c] = payload[c]]
    BY <1>0, <1>10 DEF Receive, CallerOK
  <2>5. CallerOK'
    BY <1>0, <1>10, <2>1, <2>2, <2>3, <2>4, GotoType DEF Receive, PC
  <2> QED BY <1>0, <1>1, <1>10, <2>1, <2>2, <2>5 DEF Receive
<1>11. ASSUME NEW c \in Caller, Record(c) \/ CrashAfterAppend(c)
       PROVE  TypeInv'
  <2>1. payload[c] \in Payload /\ pc[c] = "record"
    BY <1>0, <1>11 DEF Record, CrashAfterAppend, CallerOK, HasPayload
  <2>2. /\ Receipt(c) \in [state : ReceiptState \union {"pending"}, tx : Payload \union {NoPayload}]
        /\ Receipt(c).state \in ReceiptState \union {"pending"}
    BY <2>1, ReceiptType
  <2>3. CallerOK'
    <3>1. CASE Leave(c)
      BY <1>0, <3>1, LeaveType
    <3>2. CASE Goto(c, "release") /\ UNCHANGED <<payload, answer>>
      BY <1>0, <1>2, <3>2, GotoType DEF PC
    <3> QED BY <1>11, <3>1, <3>2 DEF Record, CrashAfterAppend
  <2>4. attempt' \in Attempt \union {NoAttempt}
    BY <1>0, <1>11, <2>2, OutcomeType DEF Record, CrashAfterAppend
  <2>5. concluded' \in 0 .. MaxPayload
    BY <1>0, <1>11, JournalAssumption DEF Record, CrashAfterAppend, Conclude
  <2>6. receipts' \subseteq [state : ReceiptState, tx : Payload \union {NoPayload}]
    <3>1. Receipt(c).state # "pending" =>
             Receipt(c) \in [state : ReceiptState, tx : Payload \union {NoPayload}]
      BY <2>2
    <3> QED BY <1>0, <1>11, <3>1 DEF Record, CrashAfterAppend, Append
  <2> QED BY <1>0, <1>1, <1>11, <2>3, <2>4, <2>5, <2>6 DEF Record, CrashAfterAppend
<1>12. ASSUME NEW c \in Caller, Release(c) \/ Crash(c)
       PROVE  TypeInv'
  <2>1. CallerOK'
    BY <1>0, <1>12, LeaveType DEF Release, Crash
  <2> QED BY <1>0, <1>1, <1>12, <2>1 DEF Release, Crash
<1>13. ASSUME NEW c \in Caller, Supply(c)
       PROVE  TypeInv'
  <2>1. PICK p \in Payload : /\ p <= signed + 1
                             /\ payload' = [payload EXCEPT ![c] = p]
                             /\ signed' = IF p > signed THEN p ELSE signed
    BY <1>13 DEF Supply
  <2>2. answer' = [answer EXCEPT ![c] = answer[c]] /\ answer[c] \in Answer
    BY <1>0, <1>13 DEF Supply, CallerOK
  <2>3. CallerOK'
    BY <1>0, <1>13, <2>1, <2>2, GotoType DEF Supply, PC
  <2>4. signed' \in 0 .. MaxPayload
    BY <1>0, <2>1, JournalAssumption DEF Payload
  <2> QED BY <1>0, <1>1, <1>13, <2>3, <2>4 DEF Supply
<1>14. CASE Prune \/ LeaseLapses
  <2>1. attempt' \in Attempt \union {NoAttempt}
    <3>1. CASE Prune
      BY <1>0, <3>1 DEF Prune, Pruned
    <3>2. CASE LeaseLapses
      <4>1. attempt # NoAttempt
        BY <3>2 DEF LeaseLapses, NoAttempt
      <4> QED BY <1>0, <3>2, <4>1, EntryType DEF LeaseLapses
    <3> QED BY <1>14, <3>1, <3>2
  <2>2. CallerOK'
    BY <1>0, <1>14 DEF Prune, LeaseLapses, CallerOK, HasPayload, HasAnswer
  <2> QED BY <1>0, <1>1, <1>14, <2>1, <2>2 DEF Prune, LeaseLapses
<1>15. CASE UNCHANGED vars
  BY <1>15 DEF vars, TypeInv, TypeOK, HasPayload, HasAnswer
<1> QED
  BY <1>3, <1>4, <1>5, <1>6, <1>7, <1>8, <1>9, <1>10, <1>11, <1>12, <1>13, <1>14, <1>15
     DEF Next, Step

\* Every variable keeps its type: a payload is at hand wherever one is sent,
\* recorded or persisted.
THEOREM TypeCorrect == Spec => []TypeOK
<1>1. TypeInv => TypeOK
  BY DEF TypeInv
<1> QED BY <1>1, InitType, StepType, PTL DEF Spec

(***************************************************************************)
(* Each payment but the last is concluded                                  *)
(***************************************************************************)

\* Past the claim and the signature.
Holding == {"validate", "send", "await", "record"}

\* The payloads that left a process, are about to, or are the entry's.
Bound ==
    dispatched \union {payload[c] : c \in {d \in Caller : pc[d] \in Holding}}
               \union ({attempt.payload} \ {NoPayload})

\* The entry's payload still lacks an outcome.
OpenEntry == attempt.payload # NoPayload /\ attempt.state # "paid"

\* All of them but an open entry's have had an outcome applied, and an outcome
\* that was applied is on file.
BoundInv ==
    /\ concluded < MaxPayload => Cardinality(Bound) <= concluded + (IF OpenEntry THEN 1 ELSE 0)
    /\ receipts = {} => concluded = 0 /\ attempt.state # "paid"

\* They are payloads, and so finitely many.
LEMMA BoundFinite ==
    ASSUME TypeInv
    PROVE  /\ IsFiniteSet(Bound) /\ Cardinality(Bound) \in Nat
           /\ Bound \subseteq Payload /\ Cardinality(Bound) <= MaxPayload
<1>1. IsFiniteSet(Payload) /\ Cardinality(Payload) = MaxPayload
  BY FS_Interval, JournalAssumption DEF Payload
<1>2. Bound \subseteq Payload
  <2>1. attempt.payload \in Payload \union {NoPayload}
    BY DEF TypeInv, TypeOK, Attempt, NoAttempt
  <2> QED BY <2>1 DEF TypeInv, TypeOK, HasPayload, Bound, Holding
<1> QED BY <1>1, <1>2, FS_Subset, FS_CardinalityType

\* A step that adds none, and leaves an open entry open or counts an outcome.
LEMMA BoundSame ==
    ASSUME TypeInv, TypeInv', BoundInv, Bound' \subseteq Bound,
           \/ concluded' = concluded /\ (OpenEntry => OpenEntry')
           \/ concluded' = IF concluded < MaxPayload THEN concluded + 1 ELSE concluded,
           receipts' = {} => /\ receipts = {} /\ concluded' = concluded
                             /\ attempt'.state = "paid" => attempt.state = "paid"
    PROVE  BoundInv'
<1>1. /\ Cardinality(Bound) \in Nat /\ Cardinality(Bound') \in Nat
      /\ Cardinality(Bound') <= Cardinality(Bound)
  BY BoundFinite, FS_Subset, FS_CardinalityType
<1>2. concluded \in 0 .. MaxPayload /\ concluded' \in 0 .. MaxPayload /\ MaxPayload \in Nat
  BY JournalAssumption DEF TypeInv, TypeOK
<1>3. concluded' < MaxPayload => concluded < MaxPayload
  BY <1>2
<1>4. ASSUME concluded' < MaxPayload
      PROVE  Cardinality(Bound') <= concluded' + (IF OpenEntry' THEN 1 ELSE 0)
  <2>1. Cardinality(Bound) <= concluded + (IF OpenEntry THEN 1 ELSE 0)
    BY <1>3, <1>4 DEF BoundInv
  <2>2. CASE concluded' = concluded /\ (OpenEntry => OpenEntry')
    BY <1>1, <1>2, <2>1, <2>2
  <2>3. CASE concluded' = concluded + 1
    BY <1>1, <1>2, <2>1, <2>3
  <2> QED BY <1>3, <1>4, <2>2, <2>3
<1> QED BY <1>4 DEF BoundInv

\* A step of one caller that sends or takes what is among them already.
LEMMA BoundSubset ==
    ASSUME NEW c \in Caller, \A p \in dispatched' : p \in Bound,
           \A d \in Caller \ {c} : pc'[d] = pc[d] /\ payload'[d] = payload[d],
           pc'[c] \in Holding => payload'[c] \in Bound,
           attempt'.payload \in {attempt.payload, NoPayload}
    PROVE  Bound' \subseteq Bound
BY DEF Bound

\* Every step keeps the count, whatever failures look like and however late an
\* answer comes.
LEMMA BoundStep == TypeInv /\ BoundInv /\ [Next]_vars => BoundInv'
<1> SUFFICES ASSUME TypeInv, BoundInv, [Next]_vars
             PROVE  BoundInv'
  OBVIOUS
<1>0. TypeInv'
  BY StepType
<1>1. /\ pc \in [Caller -> PC] /\ payload \in [Caller -> Payload \union {NoPayload}]
      /\ \A c \in Caller : pc[c] \in Holding => payload[c] \in Bound
      /\ dispatched \subseteq Bound
      /\ attempt.payload # NoPayload => attempt.payload \in Bound
  BY DEF TypeInv, TypeOK, Bound
<1>2. ASSUME NEW c \in Caller, UNCHANGED <<attempt, concluded>>, receipts \subseteq receipts',
             dispatched' \subseteq Bound,
             \A d \in Caller \ {c} : pc'[d] = pc[d] /\ payload'[d] = payload[d],
             pc'[c] \in Holding => payload'[c] \in Bound
      PROVE  BoundInv'
  <2>1. Bound' \subseteq Bound
    BY <1>2, BoundSubset
  <2> QED BY <1>0, <1>2, <2>1, BoundSame DEF OpenEntry
<1>3. ASSUME NEW c \in Caller, Challenged(c) \/ Supply(c) \/ Crash(c) \/ Sign(c)
      PROVE  BoundInv'
  <2>1. /\ UNCHANGED <<attempt, concluded, receipts, dispatched>> /\ pc'[c] \notin Holding
        /\ \A d \in Caller \ {c} : pc'[d] = pc[d] /\ payload'[d] = payload[d]
    BY <1>1, <1>3 DEF Challenged, Supply, Crash, Sign, Leave, Goto, Holding
  <2> QED BY <1>1, <1>2, <2>1
<1>4. ASSUME NEW c \in Caller, Validate(c) \/ Send(c) \/ Receive(c)
      PROVE  BoundInv'
  <2>1. /\ UNCHANGED <<attempt, concluded, receipts, payload>> /\ pc[c] \in Holding
        /\ dispatched' \subseteq dispatched \union {payload[c]}
        /\ \A d \in Caller \ {c} : pc'[d] = pc[d]
    BY <1>1, <1>4 DEF Validate, Mismatch, Send, Receive, Goto, Holding
  <2> QED BY <1>1, <1>2, <2>1
<1>5. ASSUME NEW c \in Caller, Claim(c) \/ ClaimSupplied(c)
      PROVE  BoundInv'
  <2>1. /\ UNCHANGED <<concluded, receipts, dispatched>>
        /\ \A d \in Caller \ {c} : pc'[d] = pc[d] /\ payload'[d] = payload[d]
    BY <1>1, <1>5 DEF Claim, ClaimSupplied, Resume, Leave, Goto
  <2>2. CASE /\ Claimable(Pruned(attempt))
             /\ attempt' = [state |-> "claimed", owner |-> c, live |-> TRUE, payload |-> NoPayload]
             /\ Goto(c, "sign") \/ Goto(c, "persist")
    <3>1. ~ OpenEntry
      BY <2>2 DEF Claimable, Pruned, OpenEntry, NoAttempt
    <3>2. attempt'.payload = NoPayload /\ attempt'.state = "claimed" /\ pc'[c] \notin Holding
      BY <1>1, <2>2 DEF Goto, Holding
    <3>3. Bound' \subseteq Bound
      BY <1>1, <2>1, <3>2, BoundSubset
    <3> QED BY <1>0, <2>1, <3>1, <3>2, <3>3, BoundSame
  <2>3. CASE UNCHANGED attempt /\ (pc'[c] \in Holding => payload'[c] \in Bound)
    BY <1>1, <1>2, <2>1, <2>3
  <2> QED
    BY <1>1, <1>5, <2>2, <2>3 DEF Claim, ClaimSupplied, Resume, SameWinner, Leave, Goto, Holding
<1>6. ASSUME NEW c \in Caller, Persist(c)
      PROVE  BoundInv'
  <2>1. /\ UNCHANGED <<concluded, receipts, dispatched>> /\ payload[c] \in Payload
        /\ \A d \in Caller \ {c} : pc'[d] = pc[d] /\ payload'[d] = payload[d]
    BY <1>1, <1>6 DEF Persist, Goto, TypeInv, HasPayload
  <2>2. CASE UNCHANGED attempt /\ (pc'[c] \in Holding => payload'[c] \in Bound)
    BY <1>1, <1>2, <2>1, <2>2
  <2>3. CASE /\ attempt.payload = NoPayload /\ MayPersist(attempt, c) /\ UNCHANGED payload
             /\ attempt' = [attempt EXCEPT !.state = "ready", !.live = FALSE, !.payload = payload[c]]
    <3>1. attempt'.state = "ready" /\ attempt'.payload = payload[c]
      BY <2>3 DEF TypeInv, TypeOK, MayPersist, Attempt
    <3>2. Bound' \subseteq Bound \union {payload[c]}
      BY <1>1, <2>1, <2>3, <3>1 DEF Bound
    <3>3. payload[c] # NoPayload
      BY <2>1, JournalAssumption DEF Payload, NoPayload
    <3>4. OpenEntry' /\ ~ OpenEntry
      BY <2>3, <3>1, <3>3 DEF OpenEntry
    <3>5. /\ Cardinality(Bound) \in Nat /\ Cardinality(Bound') \in Nat
          /\ Cardinality(Bound') <= Cardinality(Bound) + 1
      <4>1. IsFiniteSet(Bound) /\ Cardinality(Bound) \in Nat
        BY BoundFinite
      <4>2. /\ IsFiniteSet(Bound \union {payload[c]})
            /\ Cardinality(Bound \union {payload[c]}) <= Cardinality(Bound) + 1
        BY <4>1, FS_AddElement
      <4>3. /\ Cardinality(Bound') <= Cardinality(Bound \union {payload[c]})
            /\ Cardinality(Bound') \in Nat
        BY <3>2, <4>2, FS_Subset, FS_CardinalityType
      <4>4. Cardinality(Bound \union {payload[c]}) \in Nat
        BY <4>2, FS_CardinalityType
      <4> QED BY <4>1, <4>2, <4>3, <4>4
    <3>6. concluded \in Nat
      BY DEF TypeInv, TypeOK
    <3>7. concluded < MaxPayload => Cardinality(Bound) <= concluded
      BY <3>4, <3>6 DEF BoundInv
    <3>8. concluded < MaxPayload => Cardinality(Bound') <= concluded + 1
      BY <3>5, <3>6, <3>7
    <3> QED BY <2>1, <3>1, <3>4, <3>8 DEF BoundInv
  <2> QED BY <1>1, <1>6, <2>2, <2>3 DEF Persist, Goto, Holding
<1>7. ASSUME NEW c \in Caller, Record(c) \/ CrashAfterAppend(c)
      PROVE  BoundInv'
  <2>1. /\ UNCHANGED dispatched /\ pc[c] = "record" /\ pc'[c] \notin Holding
        /\ \A d \in Caller \ {c} : pc'[d] = pc[d] /\ payload'[d] = payload[d]
        /\ receipts \subseteq receipts'
    BY <1>1, <1>7 DEF Record, CrashAfterAppend, Append, Leave, Goto, Holding
  <2>2. CASE UNCHANGED <<attempt, concluded>>
    BY <1>1, <1>2, <2>1, <2>2
  <2>3. CASE /\ attempt # NoAttempt /\ attempt' = AfterOutcome(attempt, Receipt(c))
             /\ Append(Receipt(c)) /\ Conclude(Receipt(c))
    <3>1. attempt \in Attempt /\ Receipt(c).state \in ReceiptState \union {"pending"}
      BY <2>1, <2>3, ReceiptType DEF TypeInv, TypeOK
    <3>2. attempt'.payload \in {attempt.payload, NoPayload}
      BY <2>3, <3>1, OutcomeType DEF NoAttempt
    <3>3. Bound' \subseteq Bound
      BY <1>1, <2>1, <3>2, BoundSubset
    <3>4. CASE Receipt(c).state = "pending"
      <4>1. /\ attempt'.payload = attempt.payload /\ attempt'.state = "pending"
            /\ concluded' = concluded
        BY <2>3, <3>1, <3>4, OutcomeType DEF Conclude
      <4>2. OpenEntry => OpenEntry'
        BY <4>1 DEF OpenEntry
      <4> QED BY <1>0, <2>1, <3>3, <4>1, <4>2, BoundSame
    <3>5. CASE Receipt(c).state # "pending"
      <4>1. concluded' = IF concluded < MaxPayload THEN concluded + 1 ELSE concluded
        BY <2>3, <3>5 DEF Conclude
      <4>2. receipts' # {}
        BY <2>3, <3>5 DEF Append
      <4> QED BY <1>0, <3>3, <4>1, <4>2, BoundSame
    <3> QED BY <3>4, <3>5
  <2> QED BY <1>7, <2>2, <2>3 DEF Record, CrashAfterAppend
<1>8. ASSUME NEW c \in Caller, Release(c)
      PROVE  BoundInv'
  <2>1. /\ UNCHANGED <<concluded, receipts, dispatched>> /\ pc'[c] \notin Holding
        /\ \A d \in Caller \ {c} : pc'[d] = pc[d] /\ payload'[d] = payload[d]
    BY <1>1, <1>8 DEF Release, Leave, Goto, Holding
  <2>2. CASE UNCHANGED attempt
    BY <1>1, <1>2, <2>1, <2>2
  <2>3. CASE attempt.payload = NoPayload /\ attempt' = NoAttempt
    <3>1. attempt'.payload = NoPayload /\ attempt'.state = "none" /\ ~ OpenEntry
      BY <2>3 DEF NoAttempt, OpenEntry
    <3>2. Bound' \subseteq Bound
      BY <1>1, <2>1, <3>1, BoundSubset
    <3> QED BY <1>0, <2>1, <3>1, <3>2, BoundSame
  <2> QED BY <1>8, <2>2, <2>3 DEF Release
<1>9. CASE Prune \/ LeaseLapses
  <2>1. /\ UNCHANGED <<receipts, pc, payload, dispatched, concluded>>
        /\ attempt'.payload \in {attempt.payload, NoPayload}
        /\ OpenEntry => OpenEntry'
        /\ attempt'.state = "paid" => attempt.state = "paid"
    <3>1. CASE Prune
      BY <3>1 DEF Prune, Pruned, NoAttempt, OpenEntry
    <3>2. CASE LeaseLapses
      BY <3>2 DEF LeaseLapses, TypeInv, TypeOK, Attempt, NoAttempt, OpenEntry
    <3> QED BY <1>9, <3>1, <3>2
  <2>2. Bound' \subseteq Bound
    BY <2>1 DEF Bound
  <2> QED BY <1>0, <2>1, <2>2, BoundSame
<1>10. CASE UNCHANGED vars
  BY <1>10 DEF vars, BoundInv, Bound, OpenEntry
<1> QED
  BY <1>3, <1>4, <1>5, <1>6, <1>7, <1>8, <1>9, <1>10 DEF Next, Step

\* At first nothing is bound.
LEMMA BoundInit == Init => BoundInv
<1> SUFFICES ASSUME Init
             PROVE  BoundInv
  OBVIOUS
<1>1. Bound = {}
  BY DEF Init, Bound, Holding, NoAttempt
<1>2. Cardinality(Bound) = 0
  BY <1>1, FS_EmptySet
<1> QED BY <1>2 DEF Init, BoundInv, OpenEntry, NoAttempt

\* The invariant that counts the payloads bound to the request against the
\* outcomes applied to its entry.
THEOREM BoundInvariant == Spec => [](TypeInv /\ BoundInv)
BY InitType, StepType, BoundInit, BoundStep, PTL DEF Spec

\* However callers race, crash and answer late, each payment for the request
\* after the first has an outcome applied to the entry before it: for any
\* number of callers and payloads, with failures that carry no hash.
THEOREM ConcludedTheorem == Spec => []PaymentsConcluded
<1>1. TypeInv /\ BoundInv => PaymentsConcluded
  <2> SUFFICES ASSUME TypeInv, BoundInv
               PROVE  PaymentsConcluded
    OBVIOUS
  <2>1. /\ Cardinality(dispatched) \in Nat /\ Cardinality(Bound) \in Nat
        /\ Cardinality(dispatched) <= Cardinality(Bound)
        /\ Cardinality(Bound) <= MaxPayload
    <3>1. dispatched \subseteq Bound
      BY DEF Bound
    <3> QED BY <3>1, BoundFinite, FS_Subset, FS_CardinalityType
  <2>2. concluded \in 0 .. MaxPayload /\ MaxPayload \in Nat
    BY JournalAssumption DEF TypeInv, TypeOK
  <2>3. concluded < MaxPayload => Cardinality(Bound) <= concluded + 1
    <3>1. concluded + (IF OpenEntry THEN 1 ELSE 0) <= concluded + 1
      BY <2>2
    <3> QED BY <2>1, <2>2, <3>1 DEF BoundInv
  <2>4. Cardinality(dispatched) <= concluded + 1
    BY <2>1, <2>2, <2>3
  <2> QED BY <2>4 DEF PaymentsConcluded
<1> QED BY <1>1, BoundInvariant, PTL

\* "Pending/indeterminate attempts remain until a terminal response": for any
\* number of processes, crashing anywhere, the payload that left one of them is
\* the one in the index as long as no terminal response is on file.
THEOREM AttemptTheorem == Spec => []AttemptOutlivesPayload
<1>1. TypeInv /\ BoundInv => AttemptOutlivesPayload
  <2> SUFFICES ASSUME TypeInv, BoundInv, receipts = {}, NEW p \in dispatched
               PROVE  attempt.payload = p
    BY DEF AttemptOutlivesPayload
  <2>1. concluded = 0 /\ Cardinality(Bound) \in Nat /\ p \in Bound
    BY BoundFinite DEF BoundInv, Bound
  <2>2. MaxPayload \in Nat /\ 0 < MaxPayload
    BY JournalAssumption DEF TypeInv, TypeOK, Payload
  <2>3. Cardinality(Bound) <= 0 + (IF OpenEntry THEN 1 ELSE 0)
    BY <2>1, <2>2 DEF BoundInv
  <2>4. IsFiniteSet({p}) /\ Cardinality({p}) = 1 /\ Cardinality({p}) <= Cardinality(Bound)
    <3>1. IsFiniteSet(Bound) /\ {p} \in SUBSET Bound
      BY <2>1, BoundFinite
    <3>2. Cardinality({p}) <= Cardinality(Bound)
      BY <3>1, FS_Subset
    <3> QED BY <3>2, FS_Singleton
  <2>5. OpenEntry
    BY <2>1, <2>3, <2>4
  <2>6. attempt.payload \in Bound
    BY <2>5 DEF OpenEntry, Bound
  <2>7. ASSUME attempt.payload # p
        PROVE  FALSE
    <3>1. {p} \union {attempt.payload} \subseteq Bound
      BY <2>1, <2>6
    <3>2. Cardinality({p} \union {attempt.payload}) = 2
      <4>1. attempt.payload \notin {p}
        BY <2>7
      <4>2. Cardinality({p} \union {attempt.payload}) = Cardinality({p}) + 1
        BY <2>4, <4>1, FS_AddElement
      <4> QED BY <2>4, <4>2
    <3>3. Cardinality({p} \union {attempt.payload}) <= Cardinality(Bound)
      BY <3>1, BoundFinite, FS_Subset
    <3> QED BY <2>1, <2>3, <2>5, <3>2, <3>3
  <2> QED BY <2>7
<1> QED BY <1>1, BoundInvariant, PTL

(***************************************************************************)
(* A paid entry is not regressed, if failures carry their hash             *)
(***************************************************************************)

\* The payloads with a terminal response in the receipts.
Ended == {p \in Payload : \E old \in receipts : old.tx = p}

\* Whoever holds a payload holds the entry's, or one that is known to have
\* failed: no answer to it can touch the entry any more.
HoldersKnown ==
    \A c \in Caller : pc[c] \in Holding =>
        \/ payload[c] = attempt.payload
        \/ payload[c] \in Ended /\ outcome[payload[c]] = "failed"

\* The answers at hand are what became of the payloads, and carry their hash.
AnswersTrue ==
    \A c \in Caller : pc[c] = "record" =>
        /\ answer[c] # "refused"
        /\ answer[c] \in {"paid", "failed"} => outcome[payload[c]] = answer[c]

PaidIsEnded == attempt.state = "paid" => attempt.payload \in Ended

\* A paid entry lapses when nobody uses it.
LapsedUnused ==
    attempt.state = "paid" /\ attempt.live = FALSE =>
        \A c \in Caller : pc[c] \in {"idle", "claim", "release"}

\* A payload that left a process and has no terminal response is the entry's.
Recoverable == \A p \in dispatched \ Ended : attempt.payload = p

JournalInv ==
    /\ TypeInv /\ HoldersKnown /\ AnswersTrue /\ PaidIsEnded /\ LapsedUnused /\ Recoverable

\* An entry can be taken over when it holds no payload, or one that is paid
\* for and that nobody uses any more.
LEMMA ClaimableCases ==
    ASSUME JournalInv, Claimable(Pruned(attempt))
    PROVE  \/ attempt.payload = NoPayload
           \/ /\ attempt.payload \in Ended
              /\ \A c \in Caller : pc[c] \in {"idle", "claim", "release"}
<1>1. CASE attempt.state = "paid" /\ ~ attempt.live
  <2>1. attempt \in Attempt
    BY <1>1 DEF JournalInv, TypeInv, TypeOK, NoAttempt
  <2>2. attempt.live = FALSE
    BY <1>1, <2>1 DEF Attempt
  <2> QED BY <1>1, <2>2 DEF JournalInv, PaidIsEnded, LapsedUnused
<1>2. CASE ~ (attempt.state = "paid" /\ ~ attempt.live)
  <2>1. Pruned(attempt) = attempt
    BY <1>2 DEF Pruned
  <2> QED BY <2>1 DEF Claimable, NoAttempt
<1> QED BY <1>1, <1>2

\* Where nothing is left to protect a new entry may take the place of the old.
LEMMA NothingOpen ==
    ASSUME JournalInv, attempt.payload = NoPayload \/ attempt.payload \in Ended
    PROVE  dispatched \subseteq Ended
<1>1. 0 \notin Payload
  BY JournalAssumption DEF Payload
<1> QED BY <1>1 DEF JournalInv, TypeInv, TypeOK, Recoverable, NoPayload

\* An answer that is news is about the payload in the entry; a second one
\* about a finished payload repeats that it is paid.
LEMMA NewsIsOwn ==
    ASSUME JournalInv, NEW c \in Caller, pc[c] = "record", ~ Late(Receipt(c))
    PROVE  /\ payload[c] = attempt.payload /\ attempt \in Attempt
           /\ payload[c] \in Ended => Receipt(c).state = "paid"
<1>1. Receipt(c).tx = payload[c] /\ Receipt(c).state = StateOf(answer[c])
  BY DEF JournalInv, AnswersTrue, Receipt, ReceiptTx
<1>2. payload[c] \in Ended => Receipt(c).state = "paid"
  BY <1>1 DEF JournalInv, Ended, Late
<1>3. Receipt(c).state = "paid" => outcome[payload[c]] = "paid"
  <2>1. Receipt(c).state = "paid" => answer[c] = "paid"
    BY <1>1, ReceiptType DEF JournalInv
  <2> QED BY <2>1 DEF JournalInv, AnswersTrue
<1>4. payload[c] = attempt.payload
  BY <1>2, <1>3 DEF JournalInv, HoldersKnown, Holding
<1>5. attempt # NoAttempt
  <2>1. payload[c] \in Payload /\ 0 \notin Payload
    BY JournalAssumption DEF JournalInv, TypeInv, HasPayload, Payload
  <2> QED BY <1>4, <2>1 DEF NoAttempt, NoPayload
<1> QED BY <1>2, <1>4, <1>5 DEF JournalInv, TypeInv, TypeOK

\* Every step keeps the invariant, if failures carry their hash and an answer
\* does not take longer than a paid entry lasts.
LEMMA JournalStep ==
    ASSUME ~ HashlessFailures, ~ LateAnswers, JournalInv, [Next]_vars
    PROVE  JournalInv'
<1>0. TypeInv'
  BY StepType DEF JournalInv
<1>1. /\ TypeOK /\ HasPayload /\ HasAnswer /\ HoldersKnown /\ AnswersTrue
      /\ PaidIsEnded /\ LapsedUnused /\ Recoverable
  BY DEF JournalInv, TypeInv
<1>2. NoPayload \notin Payload
  BY JournalAssumption DEF Payload, NoPayload
<1>3. ASSUME NEW c \in Caller, Challenged(c) \/ Supply(c) \/ Crash(c)
      PROVE  JournalInv'
  <2>1. /\ UNCHANGED <<attempt, receipts, dispatched, outcome, Ended>>
        /\ pc' = [pc EXCEPT ![c] = "claim"] \/ pc' = [pc EXCEPT ![c] = "idle"]
        /\ \A d \in Caller \ {c} : payload'[d] = payload[d] /\ answer'[d] = answer[d]
    BY <1>1, <1>3 DEF Challenged, Supply, Crash, Leave, Goto, TypeOK, Ended
  <2> QED
    BY <1>0, <1>1, <2>1 DEF JournalInv, TypeOK, HoldersKnown, AnswersTrue, PaidIsEnded, LapsedUnused, Recoverable, Holding
<1>4. ASSUME NEW c \in Caller, Claim(c) \/ ClaimSupplied(c)
      PROVE  JournalInv'
  <2>0. /\ UNCHANGED <<receipts, dispatched, outcome, Ended>>
        /\ \A d \in Caller \ {c} : /\ payload'[d] = payload[d] /\ answer'[d] = answer[d]
                                   /\ pc'[d] = pc[d]
        /\ pc[c] = "claim"
    BY <1>1, <1>4 DEF Claim, ClaimSupplied, Resume, Leave, Goto, TypeOK, Ended
  <2>1. CASE /\ Claimable(Pruned(attempt))
             /\ attempt' = [state |-> "claimed", owner |-> c, live |-> TRUE, payload |-> NoPayload]
             /\ pc' = [pc EXCEPT ![c] = "sign"] \/ pc' = [pc EXCEPT ![c] = "persist"]
    <3>1. dispatched \subseteq Ended
      BY <2>1, ClaimableCases, NothingOpen
    <3>2. \A d \in Caller : pc[d] \in Holding =>
             payload[d] \in Ended /\ outcome[payload[d]] = "failed"
      BY <1>1, <1>2, <2>1, ClaimableCases DEF HoldersKnown, Holding, HasPayload
    <3>3. attempt'.state = "claimed" /\ attempt'.payload = NoPayload
      BY <2>1
    <3>4. pc'[c] \in {"sign", "persist"}
      BY <1>1, <2>1 DEF TypeOK
    <3> QED
      BY <1>0, <1>1, <2>0, <3>1, <3>2, <3>3, <3>4 DEF JournalInv, HoldersKnown, AnswersTrue,
         PaidIsEnded, LapsedUnused, Recoverable, Holding
  <2>2. CASE ~ Claimable(Pruned(attempt)) /\ UNCHANGED attempt
             /\ \/ pc'[c] = "idle"
                \/ pc'[c] \in {"validate", "send"} /\ payload'[c] = attempt.payload
    <3>1. ~ (attempt.state = "paid" /\ attempt.live = FALSE)
      BY <2>2 DEF Claimable, Pruned
    <3> QED
      BY <1>0, <1>1, <2>0, <2>2, <3>1 DEF JournalInv, HoldersKnown, AnswersTrue,
         PaidIsEnded, LapsedUnused, Recoverable, Holding
  <2> QED
    BY <1>1, <1>4, <2>1, <2>2 DEF Claim, ClaimSupplied, Resume, SameWinner, Leave, Goto, TypeOK
<1>5. ASSUME NEW c \in Caller, Validate(c)
      PROVE  JournalInv'
  <2>1. /\ UNCHANGED <<attempt, receipts, dispatched, outcome, Ended, payload>>
        /\ pc[c] = "validate" /\ pc'[c] \in {"send", "record", "release"}
        /\ pc'[c] = "record" => answer'[c] = "lost"
        /\ \A d \in Caller \ {c} : answer'[d] = answer[d] /\ pc'[d] = pc[d]
    BY <1>1, <1>5 DEF Validate, Mismatch, Goto, TypeOK, Ended
  <2> QED
    BY <1>0, <1>1, <2>1 DEF JournalInv, HoldersKnown, AnswersTrue, PaidIsEnded, LapsedUnused, Recoverable, Holding
<1>6. ASSUME NEW c \in Caller, Sign(c)
      PROVE  JournalInv'
  <2>1. /\ UNCHANGED <<attempt, receipts, dispatched, outcome, Ended, answer>>
        /\ pc[c] = "sign" /\ pc'[c] \in {"persist", "release"}
        /\ \A d \in Caller \ {c} : payload'[d] = payload[d] /\ pc'[d] = pc[d]
    BY <1>1, <1>6 DEF Sign, Goto, TypeOK, Ended
  <2> QED
    BY <1>0, <1>1, <2>1 DEF JournalInv, HoldersKnown, AnswersTrue, PaidIsEnded, LapsedUnused, Recoverable, Holding
<1>7. ASSUME NEW c \in Caller, Persist(c)
      PROVE  JournalInv'
  <2>1. /\ UNCHANGED <<receipts, dispatched, outcome, Ended, answer>>
        /\ pc[c] = "persist" /\ pc'[c] \in {"send", "release"}
        /\ \A d \in Caller \ {c} : payload'[d] = payload[d] /\ pc'[d] = pc[d]
    BY <1>1, <1>7 DEF Persist, Goto, TypeOK, Ended
  <2>2. CASE UNCHANGED attempt /\ (pc'[c] = "send" => payload'[c] = attempt.payload)
    BY <1>0, <1>1, <2>1, <2>2 DEF JournalInv, HoldersKnown, AnswersTrue, PaidIsEnded, LapsedUnused, Recoverable, Holding
  <2>3. CASE /\ attempt.payload = NoPayload /\ UNCHANGED payload
             /\ attempt'.state = "ready" /\ attempt'.payload = payload[c]
    <3>1. dispatched \subseteq Ended
      BY <2>3, NothingOpen
    <3>2. \A d \in Caller : pc[d] \in Holding =>
             payload[d] \in Ended /\ outcome[payload[d]] = "failed"
      BY <1>1, <1>2, <2>3 DEF HoldersKnown, Holding, HasPayload
    <3> QED
      BY <1>0, <1>1, <2>1, <2>3, <3>1, <3>2 DEF JournalInv, HoldersKnown, AnswersTrue,
         PaidIsEnded, LapsedUnused, Recoverable, Holding
  <2>4. ASSUME MayPersist(attempt, c),
               attempt' = [attempt EXCEPT !.state = "ready", !.live = FALSE, !.payload = payload[c]]
        PROVE  attempt'.state = "ready" /\ attempt'.payload = payload[c]
    BY <1>1, <2>4 DEF TypeOK, MayPersist, Attempt
  <2> QED BY <1>1, <1>7, <2>2, <2>3, <2>4 DEF Persist, Goto, TypeOK, Ended
<1>8. ASSUME NEW c \in Caller, Send(c)
      PROVE  JournalInv'
  <2>1. /\ UNCHANGED <<attempt, receipts, outcome, Ended, answer, payload>>
        /\ dispatched' = dispatched \union {payload[c]}
        /\ pc[c] = "send" /\ pc'[c] = "await"
        /\ \A d \in Caller \ {c} : pc'[d] = pc[d]
    BY <1>1, <1>8 DEF Send, Goto, TypeOK, Ended
  <2> QED
    BY <1>0, <1>1, <2>1 DEF JournalInv, HoldersKnown, AnswersTrue, PaidIsEnded, LapsedUnused, Recoverable, Holding
<1>9. ASSUME NEW c \in Caller, Receive(c)
      PROVE  JournalInv'
  <2>1. PICK a \in Answers(payload[c]) :
             /\ answer' = [answer EXCEPT ![c] = a]
             /\ outcome' = IF a \in {"paid", "failed"}
                           THEN [outcome EXCEPT ![payload[c]] = a] ELSE outcome
    BY <1>9 DEF Receive
  <2>2. /\ a # "refused"
        /\ a = "paid" => outcome[payload[c]] # "failed"
        /\ a = "failed" => outcome[payload[c]] # "paid"
    BY <2>1 DEF Answers
  <2>3. /\ UNCHANGED <<attempt, receipts, dispatched, Ended, payload>>
        /\ pc[c] = "await" /\ pc'[c] = "record" /\ answer'[c] = a
        /\ \A d \in Caller \ {c} : pc'[d] = pc[d] /\ answer'[d] = answer[d]
    BY <1>1, <1>9, <2>1 DEF Receive, Goto, TypeOK, Ended
  <2>4. payload[c] \in Payload
    BY <1>1, <2>3 DEF HasPayload
  <2>5. /\ a \in {"paid", "failed"} => outcome'[payload[c]] = a
        /\ \A p \in Payload : outcome[p] \in {"paid", "failed"} => outcome'[p] = outcome[p]
    BY <1>1, <2>1, <2>2, <2>4 DEF TypeOK
  <2>6. HoldersKnown'
    BY <1>1, <2>3, <2>4, <2>5 DEF HoldersKnown, Holding, HasPayload
  <2>7. AnswersTrue'
    BY <1>1, <2>2, <2>3, <2>4, <2>5 DEF AnswersTrue, HasPayload
  <2> QED
    BY <1>0, <1>1, <2>3, <2>6, <2>7 DEF JournalInv, PaidIsEnded, LapsedUnused,
       Recoverable
<1>10. ASSUME NEW c \in Caller, Record(c) \/ CrashAfterAppend(c)
       PROVE  JournalInv'
  <2>1. /\ UNCHANGED <<dispatched, outcome>> /\ pc[c] = "record"
        /\ pc'[c] \in {"idle", "release"}
        /\ \A d \in Caller \ {c} : /\ payload'[d] = payload[d] /\ answer'[d] = answer[d]
                                   /\ pc'[d] = pc[d]
    BY <1>1, <1>10 DEF Record, CrashAfterAppend, Leave, Goto, TypeOK
  <2>2. /\ payload[c] \in Payload /\ Receipt(c).tx = payload[c]
        /\ Receipt(c).state \in {"paid", "pending", "failed"}
        /\ Receipt(c).state = StateOf(answer[c])
        /\ Receipt(c).state = "failed" => outcome[payload[c]] = "failed"
    <3>1. payload[c] \in Payload /\ Receipt(c).tx = payload[c]
      BY <1>1, <2>1 DEF HasPayload, AnswersTrue, Receipt, ReceiptTx
    <3>2. Receipt(c).state = "failed" => answer[c] = "failed"
      BY <1>1, <2>1, ReceiptType DEF JournalInv, AnswersTrue
    <3> QED BY <1>1, <2>1, <3>1, <3>2, ReceiptType DEF JournalInv, AnswersTrue, ReceiptState
  <2>3. /\ Ended \subseteq Ended'
        /\ Receipt(c).state # "pending" => payload[c] \in Ended'
        /\ receipts \subseteq receipts'
    <3>1. receipts \subseteq receipts'
      BY <1>10 DEF Record, CrashAfterAppend, Append
    <3>2. Receipt(c).state # "pending" => \E old \in receipts' : old.tx = payload[c]
      <4>1. CASE Late(Receipt(c)) /\ UNCHANGED receipts
        BY <2>2, <4>1 DEF Late
      <4>2. CASE Append(Receipt(c))
        BY <2>2, <4>2 DEF Append
      <4> QED BY <1>10, <4>1, <4>2 DEF Record, CrashAfterAppend
    <3> QED BY <2>2, <3>1, <3>2 DEF Ended
  <2>5. AnswersTrue'
    BY <1>1, <2>1 DEF AnswersTrue
  <2>6. CASE UNCHANGED attempt
    BY <1>0, <1>1, <2>1, <2>3, <2>5, <2>6 DEF JournalInv, HoldersKnown, Holding, PaidIsEnded,
       LapsedUnused, Recoverable
  <2>7. CASE ~ Late(Receipt(c)) /\ attempt # NoAttempt /\ attempt' = AfterOutcome(attempt, Receipt(c))
    <3>1. payload[c] = attempt.payload /\ attempt \in Attempt
      BY <2>1, <2>7, NewsIsOwn
    <3>2. CASE Receipt(c).state = "failed"
      <4>1. attempt' = NoAttempt /\ attempt.payload \in Ended' /\ outcome[attempt.payload] = "failed"
        BY <2>2, <2>3, <2>7, <3>1, <3>2, OutcomeType DEF ReceiptState
      <4>2. dispatched \subseteq Ended'
        BY <1>1, <2>3, <4>1 DEF Recoverable
      <4>3. HoldersKnown'
        BY <1>1, <2>1, <2>3, <4>1 DEF HoldersKnown, Holding
      <4>4. attempt'.state = "none"
        BY <4>1 DEF NoAttempt
      <4> QED
        BY <1>0, <2>1, <2>5, <4>2, <4>3, <4>4 DEF JournalInv, PaidIsEnded, LapsedUnused,
           Recoverable
    <3>3. CASE Receipt(c).state # "failed"
      <4>1. attempt'.payload = attempt.payload /\ attempt'.state = Receipt(c).state
        BY <2>2, <2>7, <3>1, <3>3, OutcomeType DEF ReceiptState
      <4>2. HoldersKnown' /\ Recoverable' /\ PaidIsEnded'
        BY <1>1, <2>1, <2>3, <3>1, <4>1 DEF HoldersKnown, Holding, Recoverable,
           PaidIsEnded
      <4>3. LapsedUnused'
        <5>1. attempt'.state = "paid" => attempt'.live
          BY <2>2, <2>7, <3>1, <4>1, OutcomeType DEF ReceiptState
        <5> QED BY <5>1 DEF LapsedUnused
      <4> QED BY <1>0, <2>5, <4>2, <4>3 DEF JournalInv
    <3> QED BY <3>2, <3>3
  <2> QED BY <1>10, <2>6, <2>7 DEF Record, CrashAfterAppend
<1>11. ASSUME NEW c \in Caller, Release(c)
       PROVE  JournalInv'
  <2>1. /\ UNCHANGED <<receipts, dispatched, outcome, Ended>> /\ pc'[c] = "idle"
        /\ \A d \in Caller \ {c} : /\ payload'[d] = payload[d] /\ answer'[d] = answer[d]
                                   /\ pc'[d] = pc[d]
    BY <1>1, <1>11 DEF Release, Leave, Goto, TypeOK, Ended
  <2>2. CASE UNCHANGED attempt
    BY <1>0, <1>1, <2>1, <2>2 DEF JournalInv, HoldersKnown, AnswersTrue, PaidIsEnded, LapsedUnused, Recoverable, Holding
  <2>3. CASE attempt.payload = NoPayload /\ attempt' = NoAttempt
    <3>1. attempt'.payload = attempt.payload /\ attempt'.state = "none"
      BY <2>3 DEF NoAttempt
    <3> QED
      BY <1>0, <1>1, <2>1, <3>1 DEF JournalInv, HoldersKnown, AnswersTrue, PaidIsEnded, LapsedUnused, Recoverable, Holding
  <2> QED BY <1>11, <2>2, <2>3 DEF Release
<1>12. CASE Prune
  <2>1. Pruned(attempt) = NoAttempt /\ attempt' = NoAttempt
    BY <1>12 DEF Prune, Pruned
  <2>2. Claimable(Pruned(attempt))
    BY <2>1 DEF Claimable
  <2>3. dispatched \subseteq Ended
    BY <2>2, ClaimableCases, NothingOpen
  <2>4. \A d \in Caller : pc[d] \in Holding => payload[d] \in Ended /\ outcome[payload[d]] = "failed"
    BY <1>1, <1>2, <2>2, ClaimableCases DEF HoldersKnown, Holding, HasPayload
  <2>5. attempt'.state = "none" /\ UNCHANGED <<receipts, pc, payload, answer, dispatched, outcome, Ended>>
    BY <1>12, <2>1 DEF NoAttempt, Prune, Ended
  <2> QED
    BY <1>0, <1>1, <2>3, <2>4, <2>5 DEF JournalInv, HoldersKnown, AnswersTrue, PaidIsEnded, LapsedUnused, Recoverable, Holding
<1>13. CASE LeaseLapses
  <2>1. /\ UNCHANGED <<receipts, pc, payload, answer, dispatched, outcome, Ended>>
        /\ attempt.state = "paid" => \A c \in Caller : pc[c] \in {"idle", "claim", "release"}
    BY <1>13 DEF LeaseLapses, Ended
  <2>2. attempt'.state = attempt.state /\ attempt'.payload = attempt.payload
    BY <1>1, <1>13 DEF LeaseLapses, TypeOK, Attempt, NoAttempt
  <2> QED
    BY <1>0, <1>1, <2>1, <2>2 DEF JournalInv, HoldersKnown, AnswersTrue, PaidIsEnded, LapsedUnused, Recoverable, Holding
<1>14. CASE UNCHANGED vars
  BY <1>0, <1>1, <1>14 DEF vars, Ended, JournalInv, HoldersKnown, AnswersTrue, PaidIsEnded, LapsedUnused, Recoverable, Holding
<1> QED
  BY <1>3, <1>4, <1>5, <1>6, <1>7, <1>8, <1>9, <1>10, <1>11, <1>12, <1>13, <1>14 DEF Next, Step

\* The invariant holds from the start.
LEMMA JournalInit == Init => JournalInv
BY InitType DEF Init, JournalInv, HoldersKnown, AnswersTrue, PaidIsEnded,
   LapsedUnused, Recoverable, Holding, NoAttempt

\* The invariant of the journal: holders know the entry's payload, answers that
\* are news are about it, and what is paid is Ended.
THEOREM JournalInvariant ==
    ASSUME ~ HashlessFailures, ~ LateAnswers
    PROVE  Spec => []JournalInv
<1>1. JournalInv /\ [Next]_vars => JournalInv'
  BY JournalStep
<1> QED BY <1>1, JournalInit, PTL DEF Spec

\* "A late pending/failure response from a concurrent caller cannot regress
\* an already terminal attempt": nothing but its lapse changes a paid entry.
THEOREM PaidTheorem ==
    ASSUME ~ HashlessFailures, ~ LateAnswers
    PROVE  Spec => PaidNotRegressed
<1>1. JournalInv /\ [Next]_vars =>
         [attempt.state = "paid" /\ attempt.live =>
             attempt' \in {attempt, [attempt EXCEPT !.live = FALSE]}]_vars
  <2> SUFFICES ASSUME JournalInv, [Next]_vars, attempt.state = "paid", attempt.live,
                      attempt' # attempt
               PROVE  attempt' = [attempt EXCEPT !.live = FALSE]
    BY DEF vars
  <2>1. /\ attempt.payload \in Payload /\ attempt.payload # NoPayload
        /\ attempt.payload \in Ended /\ attempt \in Attempt
    <3>1. attempt.payload \in Ended /\ Ended \subseteq Payload
      BY DEF JournalInv, PaidIsEnded, Ended
    <3>2. attempt \in Attempt
      BY DEF JournalInv, TypeInv, TypeOK, NoAttempt
    <3>3. NoPayload \notin Payload
      BY JournalAssumption DEF NoPayload, Payload
    <3> QED BY <3>1, <3>2, <3>3
  <2>2. attempt.live = TRUE
    BY <2>1 DEF Attempt
  <2>3. ~ Claimable(Pruned(attempt))
    BY <2>1, <2>2 DEF Claimable, Pruned, NoAttempt
  <2>4. ASSUME NEW c \in Caller, Record(c)
        PROVE  FALSE
    <3>1. pc[c] = "record" /\ ~ Late(Receipt(c)) /\ attempt' = AfterOutcome(attempt, Receipt(c))
      BY <2>4 DEF Record
    <3>2. Receipt(c).state = "paid"
      BY <2>1, <3>1, NewsIsOwn
    <3>3. attempt' = [attempt EXCEPT !.state = "paid", !.live = TRUE]
      BY <3>1, <3>2 DEF AfterOutcome
    <3>4. attempt' = attempt
      BY <2>1, <2>2, <3>3 DEF Attempt
    <3> QED BY <3>4
  <2>5. ASSUME NEW c \in Caller, Claim(c) \/ ClaimSupplied(c) \/ Persist(c) \/ Release(c)
        PROVE  FALSE
    BY <2>1, <2>3, <2>5 DEF Claim, ClaimSupplied, Persist, Release
  <2>6. ~ Prune
    BY <2>2 DEF Prune
  <2>7. CASE LeaseLapses
    BY <2>7 DEF LeaseLapses
  <2> QED
    BY <2>4, <2>5, <2>6, <2>7 DEF Next, Step, Challenged, Supply, Validate, Sign, Send, Receive,
       Crash, CrashAfterAppend, vars
<1> QED BY <1>1, JournalInvariant, PTL DEF Spec, PaidNotRegressed
=============================================================================
