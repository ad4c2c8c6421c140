--------------------------- MODULE SettlementProofs ---------------------------
(***************************************************************************)
(* Proofs about Settlement, for any number of workers, transactions,       *)
(* requests and ledgers.                                                   *)
(***************************************************************************)
EXTENDS Settlement, XrplLedgerProofs, TLAPS

(***************************************************************************)
(* Type correctness                                                        *)
(***************************************************************************)

\* Moving on and answering keep the types of what they assign.
LEMMA GotoType ==
    ASSUME TypeOK, NEW w \in Worker, NEW label \in PC \ {"idle", "update"}, Proceed(w, label),
           pc[w] # "idle", UNCHANGED job
    PROVE  /\ pc' \in [Worker -> PC]
           /\ \A v \in Worker : pc'[v] # "idle" => job'[v].tx \in Tx /\ job'[v].fp \in Fp
           /\ reply' \in [Worker -> Reply]
           /\ \A v \in Worker : pc'[v] = "update" => reply'[v] \in Terminal
           /\ told' \in [Tx -> SUBSET Verdict]
BY DEF TypeOK, Proceed

\* Answering keeps the types of what it assigns.
LEMMA FinishType ==
    ASSUME TypeOK, NEW w \in Worker, NEW r \in Reply, Finish(w, r),
           pc[w] # "idle", UNCHANGED job
    PROVE  /\ pc' \in [Worker -> PC]
           /\ \A v \in Worker : pc'[v] # "idle" => job'[v].tx \in Tx /\ job'[v].fp \in Fp
           /\ reply' \in [Worker -> Reply]
           /\ \A v \in Worker : pc'[v] = "update" => reply'[v] \in Terminal
           /\ told' \in [Tx -> SUBSET Verdict]
           /\ first' \in [Worker -> Nat]
<1>1. job[w].tx \in Tx /\ job[w].fp \in Fp
  BY DEF TypeOK
<1>2. r \in Terminal => [fp |-> job[w].fp, status |-> r] \in Verdict
  BY <1>1 DEF Verdict
<1>3. told' \in [Tx -> SUBSET Verdict]
  BY <1>1, <1>2 DEF TypeOK, Finish
<1> QED
  BY <1>3 DEF TypeOK, Finish, PC

\* A verdict on its way to the store is a terminal status.
LEMMA ConcludeType ==
    ASSUME TypeOK, NEW w \in Worker, NEW s \in Terminal, Conclude(w, s),
           pc[w] # "idle", UNCHANGED job
    PROVE  /\ pc' \in [Worker -> PC]
           /\ \A v \in Worker : pc'[v] # "idle" => job'[v].tx \in Tx /\ job'[v].fp \in Fp
           /\ reply' \in [Worker -> Reply]
           /\ \A v \in Worker : pc'[v] = "update" => reply'[v] \in Terminal
           /\ told' \in [Tx -> SUBSET Verdict]
           /\ first' \in [Worker -> Nat]
BY DEF TypeOK, Conclude, PC, Owning, Reply

\* A record found for the worker's hash leads on with the types kept.
LEMMA ExistingType ==
    ASSUME TypeOK, NEW w \in Worker, NEW record \in Record, Existing(w, record),
           pc[w] # "idle", UNCHANGED job
    PROVE  /\ pc' \in [Worker -> PC]
           /\ \A v \in Worker : pc'[v] # "idle" => job'[v].tx \in Tx /\ job'[v].fp \in Fp
           /\ reply' \in [Worker -> Reply]
           /\ \A v \in Worker : pc'[v] = "update" => reply'[v] \in Terminal
           /\ told' \in [Tx -> SUBSET Verdict]
           /\ first' \in [Worker -> Nat]
<1>1. CASE Finish(w, "mismatch")
  BY <1>1, FinishType DEF Reply
<1>2. CASE record.status # "pending" /\ Finish(w, record.status)
  <2>1. record.status \in Reply
    BY <1>2 DEF Record, Status, Reply
  <2> QED BY <1>2, <2>1, FinishType
<1>3. CASE Reconcile(w, record)
  <2>1. first' \in [Worker -> Nat]
    BY <1>3 DEF Reconcile, Record, TypeOK
  <2> QED BY <1>3, <2>1, GotoType DEF Reconcile, PC, Owning
<1> QED BY <1>1, <1>2, <1>3 DEF Existing

\* Classifying an answer yields a terminal status.
LEMMA VerdictOfType == \A answer : VerdictOf(answer) \in Terminal
BY DEF VerdictOf, Terminal

\* The update script returns one of the two records it is given.
LEMMA UpdatedType ==
    \A current, candidate : Updated(current, candidate) \in {current, candidate}
BY DEF Updated

\* The initial state is well typed.
LEMMA InitType == Init => TypeOK
BY DEF Init, TypeOK, LedgerInit, LedgerTypeOK, PC, IdleJob, Reply

\* Every step of settle, of its environment and of the ledger keeps the types.
LEMMA StepType == TypeOK /\ [Next]_vars => TypeOK'
<1> SUFFICES ASSUME TypeOK, [Next]_vars
             PROVE  TypeOK'
  OBVIOUS
<1>1. ASSUME NEW w \in Worker, NEW t \in Tx, NEW f \in Fp, Call(w, t, f)
      PROVE  TypeOK'
  BY <1>1 DEF TypeOK, Call, ledgerVars, historyVars, LedgerTypeOK, PC
<1>2. ASSUME NEW w \in Worker, Get(w)
      PROVE  TypeOK'
  <2>1. job[w].tx \in Tx /\ pc[w] # "idle"
    BY <1>2 DEF Get, TypeOK
  <2>2. CASE store[job[w].tx] # NoRecord /\ Existing(w, store[job[w].tx])
    <3>1. store[job[w].tx] \in Record
      BY <2>1, <2>2 DEF TypeOK
    <3> QED BY <1>2, <2>1, <2>2, <3>1, ExistingType
            DEF Get, TypeOK, LedgerTypeOK, ledgerVars
  <2>3. CASE Goto(w, "window")
    BY <1>2, <2>1, <2>3, GotoType DEF Goto, Get, TypeOK, LedgerTypeOK, ledgerVars, PC, Verifying
  <2> QED BY <1>2, <2>2, <2>3 DEF Get
<1>3. ASSUME NEW w \in Worker, Reget(w)
      PROVE  TypeOK'
  <2>1. job[w].tx \in Tx /\ pc[w] # "idle"
    BY <1>3 DEF Reget, TypeOK
  <2>2. CASE store[job[w].tx] # NoRecord /\ Existing(w, store[job[w].tx])
    <3>1. store[job[w].tx] \in Record
      BY <2>1, <2>2 DEF TypeOK
    <3> QED BY <1>3, <2>1, <2>2, <3>1, ExistingType
            DEF Reget, TypeOK, LedgerTypeOK, ledgerVars
  <2>3. CASE Finish(w, "pending")
    BY <1>3, <2>1, <2>3, FinishType DEF Reget, TypeOK, LedgerTypeOK, ledgerVars, Reply
  <2> QED BY <1>3, <2>2, <2>3 DEF Reget
<1>4. ASSUME NEW w \in Worker, VerifyWindow(w) \/ VerifyAccount(w) \/ VerifySimulation(w)
      PROVE  TypeOK'
  <2>1. pc[w] # "idle" /\ UNCHANGED <<ledgerVars, store, job, bound, submitted>>
    BY <1>4 DEF VerifyWindow, VerifyAccount, VerifySimulation
  <2>2. CASE Finish(w, "refused")
    BY <2>1, <2>2, FinishType DEF TypeOK, LedgerTypeOK, ledgerVars, Reply
  <2>3. CASE \E label \in Verifying : Goto(w, label)
    BY <2>1, <2>3, GotoType DEF Goto, TypeOK, LedgerTypeOK, ledgerVars, PC, Verifying
  <2> QED BY <1>4, <2>2, <2>3 DEF VerifyWindow, VerifyAccount, VerifySimulation, Verifying
<1>5. ASSUME NEW w \in Worker, ReadFirstLedger(w)
      PROVE  TypeOK'
  <2>1. first' \in [Worker -> Nat]
    BY <1>5 DEF ReadFirstLedger, TypeOK, LedgerTypeOK
  <2> QED BY <1>5, <2>1, GotoType
          DEF ReadFirstLedger, TypeOK, LedgerTypeOK, ledgerVars, PC, Verifying
<1>6. ASSUME NEW w \in Worker, Reserve(w)
      PROVE  TypeOK'
  <2>1. job[w].tx \in Tx /\ job[w].fp \in Fp /\ pc[w] # "idle"
    BY <1>6 DEF Reserve, TypeOK
  <2>2. store' \in [Tx -> Record \union {NoRecord}]
    <3>1. [status |-> "pending", fp |-> job[w].fp, first |-> first[w]] \in Record
      BY <2>1 DEF Record, Status, TypeOK
    <3> QED BY <1>6, <2>1, <3>1 DEF Reserve, TypeOK
  <2>5. bound' \in [Tx -> SUBSET Fp]
    BY <1>6, <2>1 DEF Reserve, TypeOK
  <2>3. PICK label \in {"query", "submit", "reget"} : Goto(w, label)
    BY <1>6 DEF Reserve, AfterReserve
  <2>4. label \in PC \ {"idle", "update"}
    BY DEF PC, Owning
  <2> QED BY <1>6, <2>1, <2>2, <2>3, <2>4, <2>5, GotoType
          DEF Goto, Reserve, TypeOK, LedgerTypeOK, ledgerVars
<1>7. ASSUME NEW w \in Worker, Submit(w)
      PROVE  TypeOK'
  <2>1. job[w].tx \in Tx /\ pc[w] # "idle"
    BY <1>7 DEF Submit, TypeOK
  <2>2. LedgerTypeOK' /\ submitted' \in SUBSET Tx
    BY <1>7, <2>1 DEF Submit, TypeOK, LedgerTypeOK
  <2>3. CASE Goto(w, "wait")
    BY <1>7, <2>1, <2>2, <2>3, GotoType DEF Goto, Submit, TypeOK, PC, Owning
  <2>4. CASE Finish(w, "pending")
    BY <1>7, <2>1, <2>2, <2>4, FinishType DEF Submit, TypeOK, Reply
  <2> QED BY <1>7, <2>3, <2>4 DEF Submit
<1>8. ASSUME NEW w \in Worker, Poll(w) \/ Query(w) \/ CheckExpiry(w)
      PROVE  TypeOK'
  <2>1. pc[w] # "idle" /\ UNCHANGED <<ledgerVars, store, job, bound, submitted>>
    BY <1>8 DEF Poll, Query, CheckExpiry
  <2>2. CASE Finish(w, "pending")
    BY <2>1, <2>2, FinishType DEF TypeOK, LedgerTypeOK, ledgerVars, Reply
  <2>3. CASE Goto(w, "expiry")
    BY <2>1, <2>3, GotoType DEF Goto, TypeOK, LedgerTypeOK, ledgerVars, PC, Owning
  <2>4. CASE \E s \in Terminal : Conclude(w, s)
    BY <2>1, <2>4, ConcludeType DEF TypeOK, LedgerTypeOK, ledgerVars
  <2> QED BY <1>8, <2>2, <2>3, <2>4, VerdictOfType DEF Poll, Query, CheckExpiry, Terminal
<1>9. ASSUME NEW w \in Worker, Update(w)
      PROVE  TypeOK'
  <2>1. job[w].tx \in Tx /\ job[w].fp \in Fp /\ pc[w] # "idle" /\ reply[w] \in Terminal
    BY <1>9 DEF Update, TypeOK
  <2>2. [status |-> reply[w], fp |-> job[w].fp, first |-> first[w]] \in Record
    BY <2>1 DEF Record, Status, TypeOK
  <2>3. store' \in [Tx -> Record \union {NoRecord}]
    BY <1>9, <2>1, <2>2, UpdatedType DEF Update, TypeOK
  <2>4. Finish(w, reply[w]) /\ reply[w] \in Reply /\ UNCHANGED job
    BY <1>9, <2>1 DEF Update, Reply
  <2> QED BY <1>9, <2>1, <2>3, <2>4, FinishType
          DEF Update, TypeOK, LedgerTypeOK, ledgerVars
<1>10. ASSUME NEW w \in Worker, Abort(w)
       PROVE  TypeOK'
  BY <1>10, FinishType DEF Abort, TypeOK, LedgerTypeOK, ledgerVars, Reply
<1>11. ASSUME NEW w \in Worker, Return(w)
       PROVE  TypeOK'
  BY <1>11 DEF Return, TypeOK, LedgerTypeOK, ledgerVars, historyVars, IdleJob, PC, Reply
<1>12. ASSUME NEW t \in Tx, Expire(t)
       PROVE  TypeOK'
  BY <1>12 DEF Expire, TypeOK, LedgerTypeOK, ledgerVars, workVars, historyVars
<1>13. CASE Ledger
  BY <1>13, LedgerStepType DEF Ledger, TypeOK, workVars, historyVars
<1>14. CASE UNCHANGED vars
  BY <1>14 DEF vars, TypeOK, LedgerTypeOK, ledgerVars, workVars, historyVars
<1> QED BY <1>1, <1>2, <1>3, <1>4, <1>5, <1>6, <1>7, <1>8, <1>9, <1>10, <1>11,
           <1>12, <1>13, <1>14 DEF Next, Step

\* Every variable keeps its type: in particular a worker that is about to
\* write the store holds a terminal status.
THEOREM TypeCorrect == Spec => []TypeOK
BY InitType, StepType, PTL DEF Spec

(***************************************************************************)
(* Verdicts agree with the ledger                                          *)
(***************************************************************************)

\* Status s may be said of transaction t.
Sound(t, s) ==
    /\ s = "validated" => result[t] = "delivered"
    /\ s = "failed" => Settled(t) /\ result[t] # "delivered"

StoreSound == \A t \in Tx : Sound(t, store[t].status)
ToldSound == \A t \in Tx : \A v \in told[t] : Sound(t, v.status)
WorkersSound ==
    \A w \in Worker :
        /\ pc[w] = "update" => Sound(job[w].tx, reply[w])
        /\ pc[w] = "expiry" => Settled(job[w].tx) /\ result[job[w].tx] = "none"

TruthInv == TypeOK /\ SlotsSpent /\ StoreSound /\ ToldSound /\ WorkersSound

\* No step of anyone changes an outcome that is settled.
LEMMA SettledStable ==
    ASSUME TypeOK, SlotsSpent, [Next]_vars
    PROVE  /\ SlotsSpent'
           /\ \A t \in Tx : Settled(t) => Settled(t)' /\ result'[t] = result[t]
<1>1. CASE CloseLedger
  BY <1>1, CloseLedgerStable DEF TypeOK
<1>2. CASE UNCHANGED <<ledger, used, result>>
  BY <1>2 DEF SlotsSpent, Settled
<1> QED
  BY <1>1, <1>2 DEF Next, Step, vars, ledgerVars, Call, Get, VerifyWindow, VerifyAccount,
     VerifySimulation, ReadFirstLedger, Reserve, Reget, Submit, Poll, Query, CheckExpiry,
     Update, Abort, Return, Expire, Ledger, Broadcast

\* What may be said of a transaction may be said of it for ever.
LEMMA SoundStable ==
    ASSUME TypeOK, SlotsSpent, [Next]_vars, NEW t \in Tx, NEW s, Sound(t, s)
    PROVE  Sound(t, s)'
<1>1. result[t] = "delivered" => Settled(t)
  BY DEF Settled
<1> QED BY <1>1, SettledStable DEF Sound

\* A conclusive answer about a transaction may be passed on.
LEMMA AnswerSound ==
    ASSUME LedgerTypeOK, NEW t \in Tx, NEW low \in Nat, NEW answer \in TxAnswers(t, low)
    PROVE  /\ Found(answer) => Sound(t, VerdictOf(answer))
           /\ AuthoritativeAbsence(answer) => Settled(t) /\ result[t] = "none"
BY DEF LedgerTypeOK, TxAnswers, Found, VerdictOf, AuthoritativeAbsence, Sound, Settled, Outcome

\* A step of one worker leaves every other worker where it is.
LEMMA OthersUnmoved ==
    ASSUME TypeOK, NEW v \in Worker, NEW w \in Worker, v # w,
           \/ \E t \in Tx, f \in Fp : Call(v, t, f)
           \/ Step(v) \/ Abort(v) \/ Return(v)
    PROVE  pc'[w] = pc[w] /\ job'[w] = job[w] /\ reply'[w] = reply[w] /\ first'[w] = first[w]
<1>1. ASSUME NEW label, Goto(v, label)
      PROVE  pc'[w] = pc[w] /\ reply'[w] = reply[w] /\ first'[w] = first[w]
  BY <1>1 DEF Goto, Proceed, TypeOK
<1>2. ASSUME NEW r, Finish(v, r)
      PROVE  pc'[w] = pc[w] /\ reply'[w] = reply[w] /\ first'[w] = first[w]
  BY <1>2 DEF Finish, TypeOK
<1>3. ASSUME NEW s, Conclude(v, s)
      PROVE  pc'[w] = pc[w] /\ reply'[w] = reply[w] /\ first'[w] = first[w]
  BY <1>3 DEF Conclude, TypeOK
<1>4. ASSUME NEW t \in Tx, NEW f \in Fp, Call(v, t, f)
      PROVE  pc'[w] = pc[w] /\ job'[w] = job[w] /\ reply'[w] = reply[w] /\ first'[w] = first[w]
  BY <1>4 DEF Call, TypeOK
<1>5. CASE Return(v)
  BY <1>5 DEF Return, TypeOK
<1>6. CASE Get(v) \/ Reget(v)
  BY <1>1, <1>2, <1>6 DEF Get, Reget, Existing, Reconcile, Proceed, TypeOK
<1>7. CASE VerifyWindow(v) \/ VerifyAccount(v) \/ VerifySimulation(v)
  BY <1>1, <1>2, <1>7 DEF VerifyWindow, VerifyAccount, VerifySimulation
<1>8. CASE ReadFirstLedger(v) \/ Reserve(v)
  BY <1>1, <1>8 DEF ReadFirstLedger, Reserve, Proceed, TypeOK
<1>9. CASE Submit(v) \/ Abort(v) \/ Update(v)
  BY <1>1, <1>2, <1>9 DEF Submit, Abort, Update, TypeOK
<1>10. CASE Poll(v) \/ Query(v) \/ CheckExpiry(v)
  BY <1>1, <1>2, <1>3, <1>10 DEF Poll, Query, CheckExpiry
<1> QED BY <1>4, <1>5, <1>6, <1>7, <1>8, <1>9, <1>10 DEF Step

\* The store only ever holds sound records: reserving writes a pending one,
\* updating one of a sound verdict.
LEMMA StoreSoundStep == TruthInv /\ [Next]_vars => StoreSound'
<1> SUFFICES ASSUME TruthInv, [Next]_vars, NEW t \in Tx
             PROVE  Sound(t, store[t].status)'
  BY DEF StoreSound
<1>1. TypeOK /\ SlotsSpent /\ TypeOK' /\ Sound(t, store[t].status)
  BY StepType DEF TruthInv, StoreSound
<1>2. CASE store'[t] = store[t]
  BY <1>1, <1>2, SoundStable
<1>3. ASSUME NEW w \in Worker, Reserve(w), store'[t] # store[t]
      PROVE  Sound(t, store[t].status)'
  <2>1. store'[t].status = "pending"
    BY <1>1, <1>3 DEF Reserve, TypeOK
  <2> QED BY <2>1 DEF Sound
<1>4. ASSUME NEW w \in Worker, Update(w), store'[t] # store[t]
      PROVE  Sound(t, store[t].status)'
  <2>1. job[w].tx = t /\ store'[t].status = reply[w]
    BY <1>1, <1>4, UpdatedType DEF Update, TypeOK
  <2>2. Sound(t, reply[w])
    BY <1>4, <2>1 DEF Update, TruthInv, WorkersSound
  <2> QED BY <1>1, <2>1, <2>2, SoundStable
<1>5. ASSUME NEW u \in Tx, Expire(u), store'[t] # store[t]
      PROVE  Sound(t, store[t].status)'
  <2>1. store'[t].status = "absent"
    BY <1>1, <1>5 DEF Expire, TypeOK, NoRecord
  <2> QED BY <2>1 DEF Sound
<1> QED
  BY <1>2, <1>3, <1>4, <1>5 DEF Next, Step, vars, Call, Get, VerifyWindow, VerifyAccount,
     VerifySimulation, ReadFirstLedger, Reget, Submit, Poll, Query, CheckExpiry,
     Abort, Return, Ledger

\* A worker tells a terminal verdict only from a record or from its update.
LEMMA FinishSound ==
    ASSUME TypeOK, ToldSound, NEW w \in Worker, pc[w] # "idle", NEW r, Finish(w, r),
           r \in Terminal => Sound(job[w].tx, r), NEW t \in Tx, NEW v \in told'[t]
    PROVE  Sound(t, v.status)
<1>1. CASE v \in told[t]
  BY <1>1 DEF ToldSound
<1>2. CASE v \notin told[t]
  <2>1. job[w].tx \in Tx
    BY DEF TypeOK
  <2>2. t = job[w].tx /\ r \in Terminal /\ v = [fp |-> job[w].fp, status |-> r]
    BY <1>2, <2>1 DEF Finish, TypeOK
  <2> QED BY <2>2
<1> QED BY <1>1, <1>2

\* Responses stay sound: every terminal one repeats a sound record or verdict.
LEMMA ToldSoundStep == TruthInv /\ [Next]_vars => ToldSound'
<1> SUFFICES ASSUME TruthInv, [Next]_vars, NEW t \in Tx, NEW v \in told'[t]
             PROVE  Sound(t, v.status)'
  BY DEF ToldSound
<1>1. TypeOK /\ SlotsSpent /\ StoreSound /\ ToldSound
  BY DEF TruthInv
<1> SUFFICES Sound(t, v.status)
  BY <1>1, SoundStable
<1>2. CASE told' = told
  BY <1>1, <1>2 DEF ToldSound
<1>3. ASSUME NEW w \in Worker, Get(w) \/ Reget(w), told' # told
      PROVE  Sound(t, v.status)
  <2>1. PICK r \in {"mismatch", "pending", store[job[w].tx].status} : Finish(w, r)
    BY <1>3 DEF Get, Reget, Existing, Reconcile, Goto, Proceed
  <2>2. job[w].tx \in Tx /\ pc[w] # "idle"
    BY <1>1, <1>3 DEF TypeOK, Get, Reget
  <2>3. r \in Terminal => Sound(job[w].tx, r)
    BY <1>1, <2>2 DEF StoreSound, Terminal
  <2> QED BY <1>1, <2>1, <2>2, <2>3, FinishSound
<1>4. ASSUME NEW w \in Worker, Update(w)
      PROVE  Sound(t, v.status)
  BY <1>1, <1>4, FinishSound DEF Update, TruthInv, WorkersSound
<1>5. ASSUME NEW w \in Worker, Finish(w, "refused") \/ Finish(w, "pending") \/ Finish(w, "error")
      PROVE  told' = told
  BY <1>5 DEF Finish, Terminal
<1> QED
  BY <1>2, <1>3, <1>4, <1>5 DEF Next, Step, vars, historyVars, Call, VerifyWindow, VerifyAccount,
     VerifySimulation, ReadFirstLedger, Reserve, Submit, Poll, Query, CheckExpiry,
     Abort, Return, Expire, Ledger, Goto, Proceed, Conclude

\* The verdict a worker carries to its update comes from a conclusive answer,
\* or from an expiry it has seen confirmed.
LEMMA WorkersSoundStep == TruthInv /\ [Next]_vars => WorkersSound'
<1> SUFFICES ASSUME TruthInv, [Next]_vars, NEW w \in Worker
             PROVE  /\ pc'[w] = "update" => Sound(job[w].tx, reply[w])'
                    /\ pc'[w] = "expiry" => Settled(job[w].tx)' /\ result'[job'[w].tx] = "none"
  BY DEF WorkersSound
<1>1. TypeOK /\ SlotsSpent /\ WorkersSound
  BY DEF TruthInv
<1>2. CASE pc'[w] = pc[w] /\ job'[w] = job[w] /\ reply'[w] = reply[w]
  <2>1. pc[w] # "idle" => job[w].tx \in Tx
    BY <1>1 DEF TypeOK
  <2> QED BY <1>1, <1>2, <2>1, SoundStable, SettledStable DEF WorkersSound
<1>3. CASE pc'[w] \notin {"update", "expiry"}
  BY <1>3
<1>4. CASE Poll(w) \/ Query(w)
  BY <1>1, <1>4, AnswerSound DEF Poll, Query, Conclude, Goto, Proceed, Finish, TypeOK, Sound, Settled,
     ledgerVars
<1>5. CASE CheckExpiry(w)
  BY <1>1, <1>5 DEF CheckExpiry, Conclude, Finish, TypeOK, Sound, Settled, ledgerVars, WorkersSound
<1>6. CASE \/ \E t \in Tx, f \in Fp : Call(w, t, f)
           \/ Return(w) \/ Get(w) \/ Reget(w) \/ VerifyWindow(w) \/ VerifyAccount(w)
           \/ VerifySimulation(w) \/ ReadFirstLedger(w) \/ Reserve(w) \/ Submit(w)
           \/ Update(w) \/ Abort(w)
  BY <1>1, <1>3, <1>6 DEF Call, Return, Get, Reget, Existing, VerifyWindow, VerifyAccount,
     VerifySimulation, ReadFirstLedger, Reserve, AfterReserve, Submit, Update, Abort,
     Reconcile, Goto, Proceed, Finish, TypeOK
<1>7. CASE Ledger \/ (\E t \in Tx : Expire(t)) \/ UNCHANGED vars
  BY <1>2, <1>7 DEF Ledger, Expire, vars, workVars
<1>8. CASE \E v \in Worker \ {w} : \/ \E t \in Tx, f \in Fp : Call(v, t, f)
                                 \/ Step(v) \/ Abort(v) \/ Return(v)
  BY <1>1, <1>2, <1>8, OthersUnmoved
<1> QED BY <1>4, <1>5, <1>6, <1>7, <1>8 DEF Next, Step

\* Everything the service holds or says of a transaction (records, verdicts
\* on their way to the store, responses) agrees with the ledger for good.
THEOREM TruthInvariant == Spec => []TruthInv
<1>1. Init => TruthInv
  <2>1. ASSUME Init
        PROVE  SlotsSpent /\ StoreSound /\ ToldSound /\ WorkersSound
    BY <2>1 DEF Init, LedgerInit, SlotsSpent, StoreSound, ToldSound, WorkersSound, Sound, NoRecord
  <2> QED BY <2>1, InitType DEF TruthInv
<1>2. TruthInv /\ [Next]_vars => TruthInv'
  BY StepType, SettledStable, StoreSoundStep, ToldSoundStep, WorkersSoundStep DEF TruthInv
<1> QED BY <1>1, <1>2, PTL DEF Spec

\* Settlement never calls a payment successful that a validated ledger did
\* not deliver in full: neither in a response nor in the store.
THEOREM SuccessTheorem == Spec => []SuccessIsDelivered
<1>1. TruthInv => SuccessIsDelivered
  BY DEF TruthInv, StoreSound, ToldSound, Sound, SuccessIsDelivered
<1> QED BY <1>1, TruthInvariant, PTL

\* Settlement never calls a payment failed that is, or ever will be,
\* delivered; so the payer may safely pay again.
THEOREM FailureTheorem == Spec => []FailureIsFinal
<1>1. TruthInv => FailureIsFinal
  BY DEF TruthInv, StoreSound, ToldSound, Sound, FailureIsFinal
<1> QED BY <1>1, TruthInvariant, PTL

(***************************************************************************)
(* Reservations                                                            *)
(***************************************************************************)

\* A reserved hash whose record is gone is settled, by soundness of the
\* terminal record that expired.
HeldInv == TruthInv /\ ReservationHeld

\* A record only disappears when it is terminal, and a terminal record is
\* about a settled transaction.
LEMMA HeldStep == HeldInv /\ [Next]_vars => ReservationHeld'
<1> SUFFICES ASSUME HeldInv, [Next]_vars, NEW t \in Tx, bound'[t] # {}, store'[t] = NoRecord
             PROVE  Settled(t)'
  BY DEF ReservationHeld
<1>1. TypeOK /\ SlotsSpent /\ StoreSound /\ ReservationHeld
  BY DEF HeldInv, TruthInv
<1> SUFFICES Settled(t)
  BY <1>1, SettledStable
<1>2. CASE store'[t] = store[t] /\ bound'[t] = bound[t]
  BY <1>1, <1>2 DEF ReservationHeld
<1>3. ASSUME NEW u \in Tx, Expire(u), store'[t] # store[t]
      PROVE  Settled(t)
  <2>1. t = u /\ HasTtl(store[t])
    BY <1>1, <1>3 DEF Expire, TypeOK
  <2>2. store[t].status \in Terminal
    BY <1>1, <2>1 DEF HasTtl, TypeOK, Record, Status
  <2> QED BY <1>1, <2>2 DEF StoreSound, Sound, Settled, Terminal
<1>4. ASSUME NEW w \in Worker, Reserve(w) \/ Update(w)
      PROVE  store'[t] = store[t] /\ bound'[t] = bound[t]
  <2>1. \A s, f, n : [status |-> s, fp |-> f, first |-> n] = NoRecord => s = "absent"
    BY DEF NoRecord
  <2>2. CASE Reserve(w)
    BY <1>1, <2>1, <2>2 DEF Reserve, TypeOK
  <2>3. CASE Update(w)
    BY <1>1, <2>1, <2>3, UpdatedType DEF Update, TypeOK, Terminal
  <2> QED BY <1>4, <2>2, <2>3
<1>5. CASE \E u \in Tx : Expire(u)
  BY <1>2, <1>3, <1>5 DEF Expire, historyVars
<1> QED
  BY <1>2, <1>4, <1>5 DEF Next, Step, vars, historyVars, Call, Get, VerifyWindow, VerifyAccount,
     VerifySimulation, ReadFirstLedger, Reget, Submit, Poll, Query, CheckExpiry, Abort,
     Return, Ledger

\* The reservation of a hash outlives every chance of its transaction,
\* whatever crashes, RPC errors and time-outs the workers meet.
THEOREM ReservationTheorem == Spec => []ReservationHeld
<1>1. Init => ReservationHeld
  BY DEF Init, ReservationHeld
<1>2. TruthInv /\ ReservationHeld /\ [Next]_vars => ReservationHeld'
  BY HeldStep DEF HeldInv
<1> QED BY <1>1, <1>2, TruthInvariant, PTL DEF Spec

(***************************************************************************)
(* One transaction, one request                                            *)
(***************************************************************************)

\* Workers that may still reserve t.
MayReserve(w, t) ==
    /\ job[w].tx = t
    /\ \/ pc[w] \in {"simulate", "first", "reserve"}
       \/ pc[w] = "account" /\ SlotOf[t] \notin used

OneBinding == \A t \in Tx : \A f, g \in bound[t] : f = g
RecordBound == \A t \in Tx : store[t] # NoRecord => store[t].fp \in bound[t]
OwnersBound == \A w \in Worker : pc[w] \in Owning => job[w].fp \in bound[job[w].tx]
ToldBound == \A t \in Tx : \A v \in told[t] : v.fp \in bound[t]
SubmittedBound == \A t \in submitted : bound[t] # {}
NoneMayRebind ==
    \A t \in Tx : bound[t] # {} /\ store[t] = NoRecord => \A w \in Worker : ~ MayReserve(w, t)

BindInv ==
    /\ HeldInv
    /\ OneBinding /\ RecordBound /\ OwnersBound /\ ToldBound /\ SubmittedBound
    /\ NoneMayRebind /\ NoRebroadcast

\* A hash is bound by the reservation that finds no record, and then for the
\* first time.
LEMMA BoundStep ==
    ASSUME BindInv, [Next]_vars
    PROVE  \/ UNCHANGED bound
           \/ \E w \in Worker :
                 /\ Reserve(w) /\ job[w].tx \in Tx /\ bound[job[w].tx] = {}
                 /\ bound' = [bound EXCEPT ![job[w].tx] = {job[w].fp}]
                 /\ store' = [store EXCEPT ![job[w].tx] =
                                 [status |-> "pending", fp |-> job[w].fp, first |-> first[w]]]
<1>1. TypeOK /\ NoneMayRebind
  BY DEF BindInv, HeldInv, TruthInv
<1>2. ASSUME NEW w \in Worker, Reserve(w), ~ UNCHANGED bound
      PROVE  /\ job[w].tx \in Tx /\ bound[job[w].tx] = {}
             /\ bound' = [bound EXCEPT ![job[w].tx] = {job[w].fp}]
             /\ store' = [store EXCEPT ![job[w].tx] =
                             [status |-> "pending", fp |-> job[w].fp, first |-> first[w]]]
  <2>1. job[w].tx \in Tx
    BY <1>1, <1>2 DEF TypeOK, Reserve
  <2>2. store[job[w].tx] = NoRecord /\ MayReserve(w, job[w].tx)
    BY <1>2 DEF Reserve, CanReserve, MayReserve
  <2>3. bound[job[w].tx] = {}
    BY <1>1, <2>1, <2>2 DEF NoneMayRebind
  <2> QED BY <1>2, <2>1, <2>3 DEF Reserve
<1> QED
  BY <1>2 DEF Next, Step, vars, historyVars, Call, Get, VerifyWindow, VerifyAccount,
     VerifySimulation, ReadFirstLedger, Reget, Submit, Poll, Query, CheckExpiry, Update,
     Abort, Return, Expire, Ledger

\* The fingerprints a hash was reserved for are never forgotten.
LEMMA BoundGrows ==
    ASSUME BindInv, [Next]_vars
    PROVE  OneBinding' /\ \A t \in Tx : bound[t] \subseteq bound'[t]
<1>1. OneBinding /\ bound \in [Tx -> SUBSET Fp]
  BY DEF BindInv, HeldInv, TruthInv, TypeOK
<1>2. CASE UNCHANGED bound
  BY <1>1, <1>2 DEF OneBinding
<1>3. CASE \E w \in Worker :
              /\ job[w].tx \in Tx /\ bound[job[w].tx] = {}
              /\ bound' = [bound EXCEPT ![job[w].tx] = {job[w].fp}]
  <2>1. PICK w \in Worker :
              /\ job[w].tx \in Tx /\ bound[job[w].tx] = {}
              /\ bound' = [bound EXCEPT ![job[w].tx] = {job[w].fp}]
    BY <1>3
  <2>2. \A t \in Tx : bound'[t] = IF t = job[w].tx THEN {job[w].fp} ELSE bound[t]
    BY <1>1, <2>1
  <2> QED BY <1>1, <2>1, <2>2 DEF OneBinding
<1> QED BY <1>2, <1>3, BoundStep

\* Whatever is written to a record is for the one fingerprint bound to it.
LEMMA RecordBoundStep == BindInv /\ [Next]_vars => RecordBound'
<1> SUFFICES ASSUME BindInv, [Next]_vars, NEW t \in Tx, store'[t] # NoRecord
             PROVE  store'[t].fp \in bound'[t]
  BY DEF RecordBound
<1>1. TypeOK /\ RecordBound /\ OwnersBound
  BY DEF BindInv, HeldInv, TruthInv
<1>2. CASE store'[t] = store[t]
  BY <1>1, <1>2, BoundGrows DEF RecordBound
<1>3. ASSUME NEW w \in Worker, Reserve(w), store'[t] # store[t]
      PROVE  store'[t].fp \in bound'[t]
  BY <1>1, <1>3 DEF Reserve, TypeOK
<1>4. ASSUME NEW w \in Worker, Update(w), store'[t] # store[t]
      PROVE  store'[t].fp \in bound'[t]
  <2>1. t = job[w].tx /\ store'[t].fp = job[w].fp
    BY <1>1, <1>4, UpdatedType DEF Update, TypeOK
  <2>2. job[w].fp \in bound[t]
    BY <1>1, <1>4, <2>1 DEF Update, OwnersBound, Owning
  <2> QED BY <2>1, <2>2, BoundGrows
<1>5. ASSUME NEW u \in Tx, Expire(u)
      PROVE  store'[t] = store[t]
  BY <1>1, <1>5 DEF Expire, TypeOK
<1> QED
  BY <1>2, <1>3, <1>4, <1>5 DEF Next, Step, vars, Call, Get, VerifyWindow, VerifyAccount,
     VerifySimulation, ReadFirstLedger, Reget, Submit, Poll, Query, CheckExpiry, Abort,
     Return, Ledger

\* Where the worker that takes a step may be afterwards.
LEMMA OwnMove ==
    ASSUME TypeOK, NEW w \in Worker,
           \/ \E t \in Tx, f \in Fp : Call(w, t, f)
           \/ Step(w) \/ Abort(w) \/ Return(w)
    PROVE  /\ pc'[w] \in Owning =>
                 /\ job'[w] = job[w] /\ job[w].tx \in Tx
                 /\ \/ pc[w] \in Owning
                    \/ pc[w] = "reserve" /\ store[job[w].tx] = NoRecord /\ Reserve(w)
                    \/ store[job[w].tx] # NoRecord /\ store[job[w].tx].fp = job[w].fp
           /\ pc'[w] = "submit" =>
                 /\ job'[w] = job[w] /\ job[w].tx \in Tx
                 /\ pc[w] = "reserve" /\ store[job[w].tx] = NoRecord /\ Reserve(w)
<1>1. job[w].tx \in Tx \/ pc[w] = "idle"
  BY DEF TypeOK
<1>2. CASE Get(w) \/ Reget(w)
  BY <1>1, <1>2 DEF Get, Reget, Existing, Reconcile, Goto, Proceed, Finish, TypeOK, Owning
<1>3. CASE Reserve(w)
  BY <1>1, <1>3 DEF Reserve, CanReserve, AfterReserve, Goto, Proceed, TypeOK, Owning
<1>4. CASE Submit(w) \/ Poll(w) \/ Query(w) \/ CheckExpiry(w) \/ Update(w)
  BY <1>1, <1>4 DEF Submit, Poll, Query, CheckExpiry, Update, Goto, Proceed, Finish, Conclude, TypeOK, Owning
<1>5. CASE VerifyWindow(w) \/ VerifyAccount(w) \/ VerifySimulation(w) \/ ReadFirstLedger(w)
           \/ Abort(w)
  BY <1>5 DEF VerifyWindow, VerifyAccount, VerifySimulation, ReadFirstLedger, Abort, Goto, Proceed,
     Finish, TypeOK, Owning
<1>6. CASE Return(w) \/ \E t \in Tx, f \in Fp : Call(w, t, f)
  BY <1>6 DEF Return, Call, TypeOK, Owning
<1> QED BY <1>2, <1>3, <1>4, <1>5, <1>6 DEF Step

\* A worker past its reservation, or reconciling a record, works for the
\* fingerprint the hash is bound to.
LEMMA OwnersBoundStep == BindInv /\ [Next]_vars => OwnersBound'
<1> SUFFICES ASSUME BindInv, [Next]_vars, NEW w \in Worker, pc'[w] \in Owning
             PROVE  job'[w].fp \in bound'[job'[w].tx]
  BY DEF OwnersBound
<1>1. TypeOK /\ RecordBound /\ OwnersBound
  BY DEF BindInv, HeldInv, TruthInv
<1>2. CASE pc'[w] = pc[w] /\ job'[w] = job[w]
  <2>1. job[w].tx \in Tx
    BY <1>1, <1>2 DEF TypeOK, Owning
  <2> QED BY <1>1, <1>2, <2>1, BoundGrows DEF OwnersBound
<1>3. CASE \/ \E t \in Tx, f \in Fp : Call(w, t, f)
           \/ Step(w) \/ Abort(w) \/ Return(w)
  <2>1. job'[w] = job[w] /\ job[w].tx \in Tx
    BY <1>1, <1>3, OwnMove
  <2>2. CASE pc[w] \in Owning
    BY <1>1, <2>1, <2>2, BoundGrows DEF OwnersBound
  <2>3. CASE Reserve(w) /\ store[job[w].tx] = NoRecord
    BY <1>1, <2>1, <2>3 DEF Reserve, CanReserve, TypeOK
  <2>4. CASE store[job[w].tx] # NoRecord /\ store[job[w].tx].fp = job[w].fp
    BY <1>1, <2>1, <2>4, BoundGrows DEF RecordBound
  <2> QED BY <1>1, <1>3, <2>2, <2>3, <2>4, OwnMove
<1>4. CASE Ledger \/ (\E t \in Tx : Expire(t)) \/ UNCHANGED vars
  BY <1>2, <1>4 DEF Ledger, Expire, vars, workVars
<1>5. CASE \E v \in Worker \ {w} : \/ \E t \in Tx, f \in Fp : Call(v, t, f)
                                 \/ Step(v) \/ Abort(v) \/ Return(v)
  BY <1>1, <1>2, <1>5, OthersUnmoved
<1> QED BY <1>3, <1>4, <1>5 DEF Next

\* Terminal responses are given for the bound fingerprint only.
LEMMA ToldBoundStep == BindInv /\ [Next]_vars => ToldBound'
<1> SUFFICES ASSUME BindInv, [Next]_vars, NEW t \in Tx, NEW v \in told'[t]
             PROVE  v.fp \in bound'[t]
  BY DEF ToldBound
<1>1. TypeOK /\ RecordBound /\ OwnersBound /\ ToldBound
  BY DEF BindInv, HeldInv, TruthInv
<1>2. CASE told' = told
  BY <1>1, <1>2, BoundGrows DEF ToldBound
<1>3. ASSUME NEW w \in Worker, NEW r, Finish(w, r), pc[w] # "idle",
             r \in Terminal => job[w].fp \in bound[job[w].tx]
      PROVE  v.fp \in bound'[t]
  <2>1. job[w].tx \in Tx
    BY <1>1, <1>3 DEF TypeOK
  <2>2. v \in told[t] \/ (t = job[w].tx /\ r \in Terminal /\ v = [fp |-> job[w].fp, status |-> r])
    BY <1>1, <1>3, <2>1 DEF Finish, TypeOK
  <2> QED BY <1>1, <1>3, <2>2, BoundGrows DEF ToldBound
<1>4. ASSUME NEW w \in Worker, Get(w) \/ Reget(w), told' # told
      PROVE  v.fp \in bound'[t]
  <2>1. pc[w] # "idle" /\ job[w].tx \in Tx
    BY <1>1, <1>4 DEF Get, Reget, TypeOK
  <2>2. CASE Finish(w, "mismatch") \/ Finish(w, "pending")
    BY <1>3, <2>1, <2>2 DEF Terminal
  <2>3. CASE /\ store[job[w].tx] # NoRecord /\ store[job[w].tx].fp = job[w].fp
             /\ Finish(w, store[job[w].tx].status)
    BY <1>1, <1>3, <2>1, <2>3 DEF RecordBound
  <2> QED BY <1>4, <2>2, <2>3 DEF Get, Reget, Existing, Reconcile, Goto, Proceed
<1>5. ASSUME NEW w \in Worker, Update(w)
      PROVE  v.fp \in bound'[t]
  BY <1>1, <1>3, <1>5 DEF Update, OwnersBound, Owning
<1>6. ASSUME NEW w \in Worker, Finish(w, "refused") \/ Finish(w, "pending") \/ Finish(w, "error")
      PROVE  told' = told
  BY <1>6 DEF Finish, Terminal
<1> QED
  BY <1>2, <1>4, <1>5, <1>6 DEF Next, Step, vars, historyVars, Call, VerifyWindow, VerifyAccount,
     VerifySimulation, ReadFirstLedger, Reserve, Submit, Poll, Query, CheckExpiry,
     Abort, Return, Expire, Ledger, Goto, Proceed, Conclude

\* Only reserved hashes are submitted.
LEMMA SubmittedBoundStep == BindInv /\ [Next]_vars => SubmittedBound'
<1> SUFFICES ASSUME BindInv, [Next]_vars, NEW t \in submitted'
             PROVE  bound'[t] # {}
  BY DEF SubmittedBound
<1>1. TypeOK /\ OwnersBound /\ SubmittedBound
  BY DEF BindInv, HeldInv, TruthInv
<1>2. CASE submitted' = submitted
  BY <1>1, <1>2, BoundGrows DEF SubmittedBound, TypeOK
<1>3. ASSUME NEW w \in Worker, Submit(w)
      PROVE  bound'[t] # {}
  <2>1. job[w].tx \in Tx /\ bound[job[w].tx] # {}
    BY <1>1, <1>3 DEF Submit, TypeOK, OwnersBound, Owning
  <2>2. t \in Tx /\ bound[t] # {}
    BY <1>1, <1>3, <2>1 DEF Submit, SubmittedBound, TypeOK
  <2> QED BY <2>2, BoundGrows
<1> QED
  BY <1>2, <1>3 DEF Next, Step, vars, historyVars, Call, Get, VerifyWindow, VerifyAccount,
     VerifySimulation, ReadFirstLedger, Reserve, Reget, Poll, Query, CheckExpiry, Update,
     Abort, Return, Expire, Ledger

\* While a bound hash has no record nobody comes to reserve it again: the
\* record expired when no worker was verifying, and since then the window
\* or the slot refuses it.
LEMMA NoneMayRebindStep ==
    ASSUME ~ SlowWorkers, BindInv, [Next]_vars
    PROVE  NoneMayRebind'
<1> SUFFICES ASSUME NEW t \in Tx, bound'[t] # {}, store'[t] = NoRecord,
                    NEW w \in Worker, MayReserve(w, t)'
             PROVE  FALSE
  BY DEF NoneMayRebind
<1>1. TypeOK /\ SlotsSpent /\ NoneMayRebind /\ ReservationHeld
  BY DEF BindInv, HeldInv, TruthInv
<1>2. used \subseteq used'
  BY DEF Next, Step, vars, ledgerVars, Call, Get, VerifyWindow, VerifyAccount,
     VerifySimulation, ReadFirstLedger, Reserve, Reget, Submit, Poll, Query, CheckExpiry,
     Update, Abort, Return, Expire, Ledger, Broadcast, CloseLedger
<1>3. CASE store[t] # NoRecord
  <2>1. ASSUME NEW v \in Worker, Reserve(v) \/ Update(v)
        PROVE  FALSE
    <3>1. \A s, f, n : [status |-> s, fp |-> f, first |-> n] = NoRecord => s = "absent"
      BY DEF NoRecord
    <3>2. CASE Reserve(v)
      BY <1>1, <1>3, <3>1, <3>2 DEF Reserve, TypeOK
    <3>3. CASE Update(v)
      BY <1>1, <1>3, <3>1, <3>3, UpdatedType DEF Update, TypeOK, Terminal
    <3> QED BY <2>1, <3>2, <3>3
  <2>2. PICK u \in Tx : Expire(u)
    BY <1>3, <2>1 DEF Next, Step, vars, Call, Get, VerifyWindow, VerifyAccount,
       VerifySimulation, ReadFirstLedger, Reget, Submit, Poll, Query, CheckExpiry, Abort,
       Return, Ledger
  <2>3. u = t
    BY <1>1, <1>3, <2>2 DEF Expire, TypeOK
  <2> QED BY <2>2, <2>3 DEF Expire, workVars, MayReserve, Verifying
<1>4. CASE store[t] = NoRecord
  <2>1. bound[t] # {}
    <3>1. ASSUME NEW v \in Worker, job[v].tx \in Tx,
                 bound' = [bound EXCEPT ![job[v].tx] = {job[v].fp}],
                 store' = [store EXCEPT ![job[v].tx] =
                                 [status |-> "pending", fp |-> job[v].fp, first |-> first[v]]]
          PROVE  bound[t] # {}
      BY <1>1, <3>1 DEF TypeOK, NoRecord
    <3> QED BY <3>1, BoundStep
  <2>2. ~ MayReserve(w, t) /\ Settled(t)
    BY <1>1, <1>4, <2>1 DEF NoneMayRebind, ReservationHeld
  <2>3. CASE pc'[w] = pc[w] /\ job'[w] = job[w]
    BY <1>2, <2>2, <2>3 DEF MayReserve
  <2>4. CASE VerifyWindow(w)
    <3>1. job[w].tx = t /\ LastLedger[t] > ledger
      BY <1>1, <2>4 DEF VerifyWindow, InWindow, Goto, Proceed, Finish, TypeOK, MayReserve
    <3>2. result[t] # "none"
      BY <1>1, <2>2, <3>1, LedgerAssumption DEF Settled, TypeOK, LedgerTypeOK
    <3>3. SlotOf[t] \in used'
      BY <1>1, <1>2, <3>2 DEF SlotsSpent
    <3> QED BY <1>1, <2>4, <3>3 DEF VerifyWindow, Goto, Proceed, Finish, TypeOK, MayReserve
  <2>5. CASE VerifyAccount(w)
    BY <1>1, <2>2, <2>5 DEF VerifyAccount, SlotIsFresh, Available, Goto, Proceed, Finish, TypeOK, MayReserve
  <2>6. CASE VerifySimulation(w) \/ ReadFirstLedger(w)
    BY <1>1, <2>2, <2>6 DEF VerifySimulation, ReadFirstLedger, Goto, Proceed, Finish, TypeOK, MayReserve
  <2>7. CASE Get(w) \/ Reget(w)
    BY <1>1, <2>7 DEF Get, Reget, Existing, Reconcile, Goto, Proceed, Finish, TypeOK, MayReserve
  <2>8. CASE Reserve(w) \/ Submit(w) \/ Poll(w) \/ Query(w) \/ CheckExpiry(w) \/ Update(w) \/ Abort(w)
    BY <1>1, <2>8 DEF Reserve, AfterReserve, Submit, Poll, Query, CheckExpiry, Update, Abort,
       Goto, Proceed, Finish, Conclude, TypeOK, MayReserve
  <2>9. CASE Return(w) \/ \E u \in Tx, f \in Fp : Call(w, u, f)
    BY <1>1, <2>9 DEF Return, Call, TypeOK, MayReserve
  <2>10. CASE Ledger \/ (\E u \in Tx : Expire(u)) \/ UNCHANGED vars
    BY <2>3, <2>10 DEF Ledger, Expire, vars, workVars
  <2>11. CASE \E v \in Worker \ {w} : \/ \E u \in Tx, f \in Fp : Call(v, u, f)
                                    \/ Step(v) \/ Abort(v) \/ Return(v)
    BY <1>1, <2>3, <2>11, OthersUnmoved
  <2> QED BY <2>4, <2>5, <2>6, <2>7, <2>8, <2>9, <2>10, <2>11 DEF Next, Step
<1> QED BY <1>3, <1>4

\* A worker about to submit is the first and the only one for its hash: it
\* comes from the reservation that bound the hash.
LEMMA NoRebroadcastStep == BindInv /\ [Next]_vars => NoRebroadcast'
<1> SUFFICES ASSUME BindInv, [Next]_vars
             PROVE  NoRebroadcast'
  OBVIOUS
<1>1. /\ TypeOK /\ RecordBound /\ OwnersBound /\ SubmittedBound /\ NoneMayRebind
      /\ NoRebroadcast
  BY DEF BindInv, HeldInv, TruthInv
<1> DEFINE Moves(w) == \/ \E t \in Tx, f \in Fp : Call(w, t, f)
                       \/ Step(w) \/ Abort(w) \/ Return(w)
\* A worker newly at "submit" has just bound its hash.
<1>2. ASSUME NEW w \in Worker, Moves(w), pc'[w] = "submit"
      PROVE  /\ job'[w] = job[w] /\ job[w].tx \in Tx
             /\ bound[job[w].tx] = {} /\ submitted' = submitted
  <2>1. /\ job'[w] = job[w] /\ job[w].tx \in Tx
        /\ pc[w] = "reserve" /\ store[job[w].tx] = NoRecord /\ Reserve(w)
    BY <1>1, <1>2, OwnMove
  <2>2. bound[job[w].tx] = {}
    BY <1>1, <2>1 DEF NoneMayRebind, MayReserve
  <2> QED BY <2>1, <2>2 DEF Reserve
<1>3. ASSUME NEW w \in Worker, Moves(w)
      PROVE  NoRebroadcast'
  <2>1. \A v \in Worker \ {w} : pc'[v] = pc[v] /\ job'[v] = job[v]
    BY <1>1, <1>3, OthersUnmoved
  <2>2. CASE pc'[w] = "submit"
    <3>1. /\ job'[w] = job[w] /\ job[w].tx \in Tx
          /\ bound[job[w].tx] = {} /\ submitted' = submitted
      BY <1>2, <1>3, <2>2
    <3>2. job'[w].tx \notin submitted'
      BY <1>1, <3>1 DEF SubmittedBound
    <3>3. \A v \in Worker \ {w} : pc'[v] = "submit" => job'[v].tx # job'[w].tx
      BY <1>1, <2>1, <3>1 DEF OwnersBound, Owning
    <3>4. \A v \in Worker \ {w} : pc'[v] = "submit" => job'[v].tx \notin submitted'
      BY <1>1, <2>1, <3>1 DEF NoRebroadcast
    <3>5. \A u, v \in Worker \ {w} :
             pc'[u] = "submit" /\ pc'[v] = "submit" /\ job'[u].tx = job'[v].tx => u = v
      BY <1>1, <2>1 DEF NoRebroadcast
    <3> QED BY <3>2, <3>3, <3>4, <3>5 DEF NoRebroadcast
  <2>3. CASE pc'[w] # "submit"
    <3>1. \A v \in Worker : pc'[v] = "submit" => v # w /\ pc[v] = "submit" /\ job'[v] = job[v]
      BY <2>1, <2>3
    <3>2. CASE submitted' = submitted
      BY <1>1, <3>1, <3>2 DEF NoRebroadcast
    <3>3. CASE Submit(w)
      <4>1. pc[w] = "submit" /\ submitted' = submitted \union {job[w].tx}
        BY <3>3 DEF Submit
      <4>2. \A v \in Worker : pc'[v] = "submit" => job'[v].tx \notin submitted'
        BY <1>1, <3>1, <4>1 DEF NoRebroadcast
      <4> QED BY <1>1, <3>1, <4>2 DEF NoRebroadcast
    <3> QED
      BY <1>3, <3>2, <3>3 DEF Step, historyVars, Call, Get, VerifyWindow, VerifyAccount,
         VerifySimulation, ReadFirstLedger, Reserve, Reget, Poll, Query, CheckExpiry, Update,
         Abort, Return
  <2> QED BY <2>2, <2>3
<1>4. CASE Ledger \/ (\E t \in Tx : Expire(t)) \/ UNCHANGED vars
  <2>1. UNCHANGED <<pc, job, submitted>>
    BY <1>4 DEF Ledger, Expire, vars, workVars, historyVars
  <2> QED BY <1>1, <2>1 DEF NoRebroadcast
<1> QED BY <1>3, <1>4 DEF Next

\* The whole inductive invariant, when records outlive the workers that
\* looked before them.
THEOREM BindInvariant ==
    ASSUME ~ SlowWorkers
    PROVE  Spec => []BindInv
<1>1. Init => BindInv
  <2>1. ASSUME Init
        PROVE  /\ OneBinding /\ RecordBound /\ OwnersBound /\ ToldBound /\ SubmittedBound
               /\ NoneMayRebind /\ NoRebroadcast /\ ReservationHeld
    BY <2>1 DEF Init, OneBinding, RecordBound, OwnersBound, ToldBound, SubmittedBound,
       NoneMayRebind, NoRebroadcast, ReservationHeld, Owning
  <2>2. ASSUME Init
        PROVE  SlotsSpent /\ StoreSound /\ ToldSound /\ WorkersSound
    BY <2>2 DEF Init, LedgerInit, SlotsSpent, StoreSound, ToldSound, WorkersSound, Sound, NoRecord
  <2> QED BY <2>1, <2>2, InitType DEF BindInv, HeldInv, TruthInv
<1>2. BindInv /\ [Next]_vars => BindInv'
  <2> SUFFICES ASSUME BindInv, [Next]_vars
               PROVE  BindInv'
    OBVIOUS
  <2>1. TruthInv'
    BY StepType, SettledStable, StoreSoundStep, ToldSoundStep, WorkersSoundStep
       DEF BindInv, HeldInv, TruthInv
  <2>2. ReservationHeld' /\ OneBinding'
    BY HeldStep, BoundGrows DEF BindInv
  <2> QED BY <2>1, <2>2, RecordBoundStep, OwnersBoundStep, ToldBoundStep, SubmittedBoundStep,
             NoneMayRebindStep, NoRebroadcastStep DEF BindInv, HeldInv
<1> QED BY <1>1, <1>2, PTL DEF Spec

\* A submitted hash is never submitted again, by any instance.
THEOREM NoRebroadcastTheorem ==
    ASSUME ~ SlowWorkers
    PROVE  Spec => []NoRebroadcast
<1>1. BindInv => NoRebroadcast
  BY DEF BindInv
<1> QED BY <1>1, BindInvariant, PTL

\* One signed transaction never serves two payment requests.
THEOREM OneRequestTheorem ==
    ASSUME ~ SlowWorkers
    PROVE  Spec => []OnePaymentOneRequest
<1>1. BindInv => OnePaymentOneRequest
  BY DEF BindInv, OneBinding, ToldBound, OnePaymentOneRequest
<1> QED BY <1>1, BindInvariant, PTL

\* Two workers that conclude differently would raise a failed record to
\* validated; soundness of both verdicts excludes it.
LEMMA LifecycleStep ==
    ASSUME BindInv, [Next]_vars, NEW t \in Tx, store'[t] # store[t]
    PROVE  \/ store[t] = NoRecord /\ store'[t].status = "pending"
           \/ /\ store[t].status = "pending"
              /\ store'[t].status \in Terminal
              /\ store'[t].fp = store[t].fp
           \/ store[t].status \in Terminal /\ store'[t] = NoRecord
<1>1. TypeOK /\ StoreSound /\ WorkersSound /\ OneBinding /\ RecordBound /\ OwnersBound
  BY DEF BindInv, HeldInv, TruthInv
<1>2. ASSUME NEW w \in Worker, Reserve(w)
      PROVE  store[t] = NoRecord /\ store'[t].status = "pending"
  BY <1>1, <1>2 DEF Reserve, CanReserve, TypeOK
<1>3. ASSUME NEW w \in Worker, Update(w)
      PROVE  /\ store[t].status = "pending"
             /\ store'[t].status \in Terminal
             /\ store'[t].fp = store[t].fp
  <2>1. t = job[w].tx /\ reply[w] \in Terminal /\ pc[w] = "update"
    BY <1>1, <1>3 DEF Update, TypeOK
  <2>2. store'[t] = Updated(store[t], [status |-> reply[w], fp |-> job[w].fp, first |-> first[w]])
    BY <1>1, <1>3, <2>1 DEF Update, TypeOK
  <2>3. store[t] \in Record /\ store'[t] = [status |-> reply[w], fp |-> job[w].fp, first |-> first[w]]
        /\ Rank(reply[w]) > Rank(store[t].status)
    BY <1>1, <2>1, <2>2 DEF Updated, TypeOK, Terminal
  <2>4. store[t].fp = job[w].fp
    <3>1. store[t].fp \in bound[t]
      BY <1>1, <2>3 DEF RecordBound, Record, NoRecord, Status, Terminal
    <3>2. job[w].fp \in bound[t]
      BY <1>1, <2>1 DEF OwnersBound, Owning
    <3> QED BY <1>1, <3>1, <3>2 DEF OneBinding
  <2>5. Sound(t, reply[w]) /\ Sound(t, store[t].status)
    BY <1>1, <2>1 DEF WorkersSound, StoreSound
  <2>6. store[t].status = "pending"
    BY <2>1, <2>3, <2>5 DEF Rank, Record, Status, Terminal, Sound
  <2> QED BY <2>1, <2>3, <2>4, <2>6
<1>4. ASSUME NEW u \in Tx, Expire(u)
      PROVE  store[t].status \in Terminal /\ store'[t] = NoRecord
  BY <1>1, <1>4 DEF Expire, HasTtl, TypeOK, Record, Status
<1> QED
  BY <1>2, <1>3, <1>4 DEF Next, Step, vars, Call, Get, VerifyWindow, VerifyAccount,
     VerifySimulation, ReadFirstLedger, Reget, Submit, Poll, Query, CheckExpiry, Abort,
     Return, Ledger

\* A settlement record is decided once and for the request that made it.
THEOREM LifecycleTheorem ==
    ASSUME ~ SlowWorkers
    PROVE  Spec => RecordLifecycle
<1>1. BindInv /\ [Next]_vars =>
         [\A t \in Tx : store'[t] # store[t] =>
            \/ store[t] = NoRecord /\ store'[t].status = "pending"
            \/ /\ store[t].status = "pending"
               /\ store'[t].status \in Terminal
               /\ store'[t].fp = store[t].fp
            \/ store[t].status \in Terminal /\ store'[t] = NoRecord]_vars
  BY LifecycleStep
<1> QED BY <1>1, BindInvariant, PTL DEF Spec, RecordLifecycle

(***************************************************************************)
(* The contract                                                            *)
(***************************************************************************)

\* Answering a terminal status is an Answer of the contract, or repeats one.
LEMMA FinishAnswers ==
    ASSUME BindInv, NEW w \in Worker, pc[w] # "idle", NEW r, Finish(w, r),
           r \in Terminal => Sound(job[w].tx, r) /\ job[w].fp \in bound[job[w].tx],
           UNCHANGED <<bound, result>>
    PROVE  [Contract!Next]_(Contract!vars)
<1>1. TypeOK /\ ToldSound /\ OneBinding /\ ToldBound
  BY DEF BindInv, HeldInv, TruthInv
<1>2. job[w].tx \in Tx /\ job[w].fp \in Fp
  BY <1>1 DEF TypeOK
<1>3. CASE told' = told
  BY <1>3 DEF Contract!vars
<1>4. CASE told' # told
  <2>1. r \in Terminal
    BY <1>4 DEF Finish
  <2>2. told' = [told EXCEPT ![job[w].tx] = @ \union {[fp |-> job[w].fp, status |-> r]}]
    BY <2>1 DEF Finish
  <2>3. told[job[w].tx] = {}
    <3> SUFFICES ASSUME NEW v \in told[job[w].tx]
                 PROVE  FALSE
      OBVIOUS
    <3>1. v \in Verdict /\ v.fp = job[w].fp
      BY <1>1, <1>2, <2>1 DEF TypeOK, ToldBound, OneBinding
    <3>2. v.status = r
      BY <1>1, <1>2, <2>1, <3>1 DEF ToldSound, Sound, Verdict, Terminal
    <3>3. v = [fp |-> job[w].fp, status |-> r]
      BY <3>1, <3>2 DEF Verdict
    <3> QED BY <1>1, <1>2, <1>4, <2>2, <3>3 DEF TypeOK
  <2>4. told' = [told EXCEPT ![job[w].tx] = {[fp |-> job[w].fp, status |-> r]}]
    BY <1>1, <1>2, <2>2, <2>3 DEF TypeOK
  <2>5. r = IF job[w].tx \in {t \in Tx : result[t] = "delivered"} THEN "validated" ELSE "failed"
    BY <1>2, <2>1 DEF Sound, Terminal
  <2>6. Contract!Answer(job[w].tx, job[w].fp, r)
    BY <2>1, <2>3, <2>4, <2>5 DEF Contract!Answer
  <2> QED BY <1>2, <2>1, <2>6 DEF Contract!Next, Terminal
<1> QED BY <1>3, <1>4

\* A closing ledger pays transactions nobody called failed.
LEMMA CloseLedgerPays ==
    ASSUME BindInv, Ledger
    PROVE  [Contract!Next]_(Contract!vars)
<1>1. TypeOK /\ SlotsSpent /\ ToldSound
  BY DEF BindInv, HeldInv, TruthInv
<1> DEFINE Paid == {t \in Tx : result[t] = "delivered"}
<1>2. UNCHANGED <<bound, told>>
  BY DEF Ledger, historyVars
<1>3. \A t \in Tx : Settled(t) => result'[t] = result[t]
  BY <1>1, CloseLedgerStable DEF Ledger, Broadcast, TypeOK
<1>4. \A t \in Paid' \ Paid : told[t] = {}
  <2> SUFFICES ASSUME NEW t \in Tx, result'[t] = "delivered", result[t] # "delivered",
                      NEW v \in told[t]
               PROVE  FALSE
    OBVIOUS
  <2>1. ~ Settled(t)
    BY <1>3
  <2>2. v.status \in Terminal /\ Sound(t, v.status)
    BY <1>1 DEF TypeOK, Verdict, ToldSound
  <2> QED BY <2>1, <2>2 DEF Sound, Settled, Terminal
<1>5. Paid \subseteq Paid'
  BY <1>3 DEF Settled
<1>6. PICK S \in SUBSET Tx :
          S = {t \in Tx : result'[t] = "delivered" /\ result[t] # "delivered"}
  OBVIOUS
<1>7. Contract!Pay(S)
  <2>1. Paid' = Paid \union S
    BY <1>5, <1>6
  <2>2. \A t \in S : told[t] = {}
    BY <1>4, <1>6
  <2> QED BY <1>2, <2>1, <2>2 DEF Contract!Pay
<1> QED BY <1>7 DEF Contract!Next

\* Every step is a step of the contract, or leaves its variables alone.
LEMMA StepKeepsContract == BindInv /\ [Next]_vars => [Contract!Next]_(Contract!vars)
<1> SUFFICES ASSUME BindInv, [Next]_vars
             PROVE  [Contract!Next]_(Contract!vars)
  OBVIOUS
<1>1. /\ TypeOK /\ StoreSound /\ WorkersSound /\ RecordBound /\ OwnersBound
  BY DEF BindInv, HeldInv, TruthInv
<1>2. CASE Ledger
  BY <1>2, CloseLedgerPays
<1>3. CASE UNCHANGED <<bound, told, result>>
  BY <1>3 DEF Contract!vars
<1>4. ASSUME NEW w \in Worker, Reserve(w)
      PROVE  [Contract!Next]_(Contract!vars)
  <2>1. UNCHANGED <<told, result>>
    BY <1>4 DEF Reserve, Goto, Proceed, ledgerVars
  <2>2. CASE UNCHANGED bound
    BY <1>3, <2>1, <2>2
  <2>3. ASSUME NEW v \in Worker, Reserve(v), job[v].tx \in Tx, bound[job[v].tx] = {},
               bound' = [bound EXCEPT ![job[v].tx] = {job[v].fp}]
        PROVE  [Contract!Next]_(Contract!vars)
    <3>1. job[v].fp \in Fp
      BY <1>1, <2>3 DEF TypeOK, Reserve
    <3>2. Contract!Bind(job[v].tx, job[v].fp)
      BY <2>1, <2>3 DEF Contract!Bind
    <3> QED BY <2>3, <3>1, <3>2 DEF Contract!Next
  <2> QED BY <2>2, <2>3, BoundStep
<1>5. ASSUME NEW w \in Worker, Get(w) \/ Reget(w)
      PROVE  [Contract!Next]_(Contract!vars)
  <2>1. pc[w] # "idle" /\ job[w].tx \in Tx /\ UNCHANGED <<bound, result>>
    BY <1>1, <1>5 DEF Get, Reget, TypeOK, ledgerVars
  <2>2. CASE Finish(w, "mismatch") \/ Finish(w, "pending")
    BY <2>1, <2>2, FinishAnswers DEF Terminal
  <2>3. CASE /\ store[job[w].tx] # NoRecord /\ store[job[w].tx].fp = job[w].fp
             /\ Finish(w, store[job[w].tx].status)
    BY <1>1, <2>1, <2>3, FinishAnswers DEF RecordBound, StoreSound
  <2>4. CASE UNCHANGED told
    BY <1>3, <2>1, <2>4
  <2> QED BY <1>5, <2>2, <2>3, <2>4 DEF Get, Reget, Existing, Reconcile, Goto, Proceed
<1>6. ASSUME NEW w \in Worker, Update(w)
      PROVE  [Contract!Next]_(Contract!vars)
  BY <1>1, <1>6, FinishAnswers DEF Update, WorkersSound, OwnersBound, Owning, ledgerVars
<1>7. ASSUME NEW w \in Worker, Finish(w, "refused") \/ Finish(w, "pending") \/ Finish(w, "error")
      PROVE  told' = told
  BY <1>7 DEF Finish, Terminal
<1> QED
  BY <1>2, <1>3, <1>4, <1>5, <1>6, <1>7 DEF Next, Step, vars, historyVars, ledgerVars, Call,
     VerifyWindow, VerifyAccount, VerifySimulation, ReadFirstLedger, Submit, Poll, Query,
     CheckExpiry, Abort, Return, Expire, Goto, Proceed, Conclude

\* Any number of racing, crashing facilitators implement the contract.
THEOREM ContractTheorem ==
    ASSUME ~ SlowWorkers
    PROVE  Spec => KeepsContract
<1>1. Init => Contract!Init
  BY DEF Init, LedgerInit, Contract!Init
<1> QED BY <1>1, StepKeepsContract, BindInvariant, PTL DEF Spec, KeepsContract, Contract!Spec
=============================================================================
