-------------------------- MODULE ClaimWalletsProofs --------------------------
(***************************************************************************)
(* Proofs about ClaimWallets, for any number of wallets and payments, with *)
(* a kill, a failed request or an error answer at any step, and any number *)
(* of torn writes.                                                         *)
(***************************************************************************)
EXTENDS ClaimWallets, FiniteSetTheorems, WellFoundedInduction, TLAPS

(***************************************************************************)
(* The inductive invariant                                                 *)
(***************************************************************************)

\* The types, without the bound on the balances.
ClaimTypes ==
    /\ asset \in {"RLUSD", "USDC"}
    /\ cache \in [merchant : 0 .. MaxAccount, buyer : 0 .. MaxAccount]
    /\ file \in ClaimState /\ mem \in ClaimState
    /\ pc \in PC
    /\ cur \in 0 .. MaxAccount
    /\ todo \subseteq Account
    /\ mode \in {"tracked", "claimed", "failed"}
    /\ recovered \in BOOLEAN
    /\ exists \in [Account -> BOOLEAN] /\ line \in [Account -> BOOLEAN]
    /\ balance \in [Account -> Nat]
    /\ minting \subseteq Account
    /\ made \in 0 .. MaxAccount /\ claims \in 0 .. MaxClaims /\ calm \in BOOLEAN
    /\ lost \subseteq Account /\ faults \in 0 .. MaxFaults

\* The steps at which the run has a wallet in its hands, and those of its recovery.
WithWallet == {"inspect", "sweep", "line", "reset", "ready", "delete",
               "track", "claimLine", "mint", "await"}
Recovery == {"inspect", "sweep", "line", "reset", "ready", "delete"}

Disposable(a) == a \in Account /\ a <= made /\ a # cache.merchant /\ a # cache.buyer

\* Only disposable wallets are ever recovered.
CurDisposable ==
    /\ pc \in WithWallet => Disposable(cur)
    /\ mode # "tracked" => pc \in Recovery
    /\ \A a \in todo : Disposable(a)

\* A wallet nobody has made is nowhere.
Unmade ==
    /\ cache.merchant <= made /\ cache.buyer <= made
    /\ \A a \in Account : a > made =>
           /\ ~ exists[a] /\ a \notin minting
           /\ file.wallets[a].status = "none" /\ mem.wallets[a].status = "none"

\* The cached wallets are not disposable ones.
CachedUntracked ==
    \A a \in Account : a = cache.merchant \/ a = cache.buyer =>
        file.wallets[a].status = "none" /\ mem.wallets[a].status = "none"

\* The cached wallets go with all the others, and between two runs; a cache
\* that is torn is forgotten as a whole.
CachedAlive ==
    /\ pc # "idle" => HasRoot(cache.merchant) /\ HasRoot(cache.buyer)
    /\ ~ HasRoot(cache.merchant) \/ ~ HasRoot(cache.buyer) =>
           \A a \in Account : exists[a] => a \in lost
    /\ HasRoot(cache.merchant) => line[cache.merchant]
    /\ HasRoot(cache.buyer) => line[cache.buyer]

\* No line and no money without an account, and no money without a line.
Rooted == \A a \in Account : line[a] \/ balance[a] > 0 => exists[a]
Lined == \A a \in Account : balance[a] > 0 => line[a]

\* What a trust line and a faucet payment can meet is tracked, or forgotten.
DeletedUnlined ==
    \A a \in Account : mem.wallets[a].status = "deleted" => ~ line[a] \/ a \in lost
FileLined ==
    \A a \in Account :
        file.wallets[a].status # "none" /\ line[a] => Tracked(a) \/ a \in lost
MintingTracked == \A a \in minting : line[a] => Tracked(a) \/ a \in lost

\* The run's copy knows every tracked wallet.
MemKeeps ==
    pc \notin {"idle", "load"} =>
        /\ mem.owner = cache.merchant
        /\ \A a \in Account : Tracked(a) => mem.wallets[a].status \notin {"none", "deleted"}

\* A new wallet on its way into the file.
NewWallet ==
    /\ pc \in {"track", "claimLine"} /\ asset = "USDC" =>
           /\ cur \notin minting
           /\ file.wallets[cur].status = "none" /\ mem.wallets[cur].status = "none"
    /\ pc = "track" => file.wallets[cur].status = "none" /\ mem.wallets[cur].status = "none"
    /\ pc \in {"claimLine", "mint", "await"} /\ asset = "RLUSD" => Tracked(cur)
    /\ pc \in {"mint", "await"} => asset = "RLUSD"

StrandInv ==
    /\ ClaimTypes /\ CurDisposable /\ Unmade /\ CachedUntracked /\ CachedAlive
    /\ Rooted /\ Lined /\ DeletedUnlined /\ FileLined /\ MintingTracked /\ MemKeeps
    /\ NewWallet /\ NothingStranded

\* At most one wallet waits, in the file and in the run's copy, and none when
\* the USDC command makes a new one.
Waits(c, a) == c.wallets[a].status = "awaiting_manual_funding"
OneWaits(c) == \A a, b \in Account : Waits(c, a) /\ Waits(c, b) => a = b

\* The type of wrote, which no step looks at but the torn write.
WroteType == wrote \in BOOLEAN

AwaitInv ==
    /\ OneWaits(file) /\ OneWaits(mem)
    /\ pc \in {"create", "track", "claimLine"} /\ asset = "USDC" =>
           \A a \in Account : ~ Waits(mem, a)

(***************************************************************************)
(* The claim state                                                         *)
(***************************************************************************)

\* A claim state says something of every wallet.
LEMMA EntryType ==
    ASSUME NEW c \in ClaimState, NEW a \in Account
    PROVE  /\ c.owner \in 0 .. MaxAccount /\ c.cooling \in BOOLEAN
           /\ c.wallets \in [Account -> Entry] /\ c.wallets[a] \in Entry
           /\ c.wallets[a].status \in Status \union {"none"} /\ c.wallets[a].hash \in BOOLEAN
BY DEF ClaimState, Entry

\* An empty claim state tracks nothing.
LEMMA FreshState ==
    ASSUME NEW o \in 0 .. MaxAccount
    PROVE  /\ Fresh(o) \in ClaimState /\ Fresh(o).owner = o
           /\ \A a \in Account : Fresh(o).wallets[a].status = "none"
<1>1. Untracked \in Entry /\ Untracked.status = "none"
  BY DEF Untracked, Entry
<1> QED BY <1>1 DEF Fresh, ClaimState

\* An entry with another status.
LEMMA EntryStatus ==
    ASSUME NEW e \in Entry, NEW s \in Status \union {"none"}
    PROVE  [e EXCEPT !.status = s] \in Entry /\ [e EXCEPT !.status = s].status = s
BY DEF Entry

\* A claim state with another entry.
LEMMA EntrySet ==
    ASSUME NEW c \in ClaimState, NEW w \in Account, NEW e \in Entry
    PROVE  LET d == [c EXCEPT !.wallets[w] = e]
           IN  /\ d \in ClaimState /\ d.owner = c.owner /\ d.wallets[w] = e
               /\ \A a \in Account \ {w} : d.wallets[a] = c.wallets[a]
BY DEF ClaimState

\* A claim state with another status of a wallet.
LEMMA StatusSet ==
    ASSUME NEW c \in ClaimState, NEW w \in Account, NEW s \in Status \union {"none"}
    PROVE  LET d == [c EXCEPT !.wallets[w].status = s]
           IN  /\ d \in ClaimState /\ d.owner = c.owner /\ d.wallets[w].status = s
               /\ \A a \in Account \ {w} : d.wallets[a] = c.wallets[a]
<1> DEFINE e == [c.wallets[w] EXCEPT !.status = s]
<1>1. e \in Entry /\ e.status = s
  BY EntryType, EntryStatus
<1>2. [c EXCEPT !.wallets[w].status = s] = [c EXCEPT !.wallets[w] = e]
  BY DEF ClaimState
<1> HIDE DEF e
<1> QED BY <1>1, <1>2, EntrySet

\* The cooldown says nothing of the wallets.
LEMMA CoolingSet ==
    ASSUME NEW c \in ClaimState, NEW b \in BOOLEAN
    PROVE  LET d == [c EXCEPT !.cooling = b]
           IN  d \in ClaimState /\ d.owner = c.owner /\ d.wallets = c.wallets
BY DEF ClaimState

(***************************************************************************)
(* What a step of a run does                                               *)
(***************************************************************************)

\* To the ledger: accounts, lines and balances of disposable wallets only go,
\* and the faucet is only asked for tracked ones.
LedgerStep ==
    /\ UNCHANGED <<asset, cache, made>>
    /\ exists' \in [Account -> BOOLEAN] /\ line' \in [Account -> BOOLEAN]
    /\ balance' \in [Account -> Nat] /\ minting' \subseteq Account
    /\ claims' \in 0 .. MaxClaims /\ calm' \in BOOLEAN
    /\ lost \subseteq lost' /\ lost' \subseteq Account /\ faults' \in 0 .. MaxFaults
    /\ \A a \in Account : exists'[a] => exists[a]
    /\ \A a \in Account : line'[a] => line[a]
    /\ \A a \in Account : balance'[a] > 0 =>
           balance[a] > 0 \/ a = cache.merchant \/ a = cache.buyer
    /\ \A a \in minting' : a \in minting \/ (Tracked(a) /\ a <= made)
    /\ exists'[cache.merchant] /\ exists'[cache.buyer]
    /\ line'[cache.merchant] /\ line'[cache.buyer]
    /\ Rooted' /\ Lined'

\* To the files: a wallet only counts as deleted when its line is gone, or when
\* it is lost, and the file says so too.
FilesStep ==
    /\ mem' \in ClaimState /\ mem'.owner = mem.owner
    /\ file' = file \/ file' = mem'
    /\ \A a \in Account :
           \/ mem'.wallets[a].status = mem.wallets[a].status
           \/ Disposable(a) /\ mem'.wallets[a].status \notin {"none", "deleted"}
           \/ /\ Disposable(a) /\ mem'.wallets[a].status = "deleted"
              /\ (~ line'[a] \/ a \in lost') /\ file' = mem'

\* To the run itself.
RunTypes == /\ pc \in PC /\ cur \in 0 .. MaxAccount /\ todo \subseteq Account
            /\ mode \in {"tracked", "claimed", "failed"} /\ recovered \in BOOLEAN

\* A step of a run that goes on.
LEMMA RunStep ==
    ASSUME StrandInv, pc \notin {"idle", "load"}, pc' \notin {"idle", "load"},
           LedgerStep, FilesStep, RunTypes', CurDisposable', NewWallet'
    PROVE  StrandInv'
<1> USE DEF StrandInv
<1>1. ClaimTypes'
  BY DEF ClaimTypes, LedgerStep, FilesStep, RunTypes
<1>2. Unmade'
  <2>1. made \in Nat /\ made' = made /\ cache' = cache
    BY DEF ClaimTypes, LedgerStep
  <2>2. ASSUME NEW a \in Account, a > made
        PROVE  ~ exists'[a] /\ a \notin minting' /\ mem'.wallets[a].status = "none"
    <3>1. ~ Disposable(a) /\ ~ (a <= made)
      BY <2>1, <2>2 DEF Disposable, Account
    <3> QED BY <2>2, <3>1 DEF Unmade, LedgerStep, FilesStep
  <2>3. ASSUME NEW a \in Account, a > made
        PROVE  file'.wallets[a].status = "none"
    BY <2>2, <2>3 DEF Unmade, FilesStep
  <2> QED BY <2>1, <2>2, <2>3 DEF Unmade
<1>3. CachedUntracked'
  BY DEF CachedUntracked, LedgerStep, FilesStep, Disposable
<1>4. CachedAlive'
  <2>1. HasRoot(cache.merchant) /\ HasRoot(cache.buyer)
    BY DEF CachedAlive
  <2> QED BY <2>1 DEF LedgerStep, HasRoot, CachedAlive
<1>5. DeletedUnlined'
  BY DEF DeletedUnlined, LedgerStep, FilesStep
<1>6. MemKeeps' /\ mem.owner = cache.merchant
  BY DEF MemKeeps, Tracked, LedgerStep, FilesStep
<1>7. ASSUME NEW a \in Account, Tracked(a), line'[a]
      PROVE  Tracked(a)' \/ a \in lost'
  BY <1>6, <1>7 DEF MemKeeps, Tracked, LedgerStep, FilesStep
<1>8. FileLined'
  BY <1>5, <1>6, <1>7 DEF FileLined, DeletedUnlined, Tracked, LedgerStep, FilesStep
<1>9. MintingTracked'
  BY <1>7 DEF MintingTracked, LedgerStep
<1>10. NothingStranded'
  <2> SUFFICES ASSUME NEW a \in Account, balance'[a] > 0,
                      a # cache'.merchant, a # cache'.buyer
               PROVE  Tracked(a)' \/ a \in lost'
    BY DEF NothingStranded
  <2>1. balance[a] > 0 /\ line'[a]
    BY DEF LedgerStep, Lined
  <2>2. Tracked(a) \/ a \in lost
    BY <2>1 DEF NothingStranded, LedgerStep
  <2> QED BY <2>1, <2>2, <1>7 DEF LedgerStep
<1> QED BY <1>1, <1>2, <1>3, <1>4, <1>5, <1>6, <1>8, <1>9, <1>10 DEF LedgerStep

\* The end of a run, or its death.
LEMMA ExitStep ==
    ASSUME StrandInv, pc # "idle", LedgerStep, Exit, file' = file
    PROVE  StrandInv'
<1> USE DEF StrandInv
<1>0. NoWallet \in 0 .. MaxAccount
  BY ClaimAssumption DEF NoWallet
<1>f. mem' \in ClaimState /\ \A a \in Account : mem'.wallets[a].status = "none"
  BY <1>0, FreshState DEF Exit
<1>1. ClaimTypes'
  BY <1>0, <1>f DEF ClaimTypes, LedgerStep, Exit, PC
<1>2. Unmade'
  BY <1>f DEF Unmade, LedgerStep, ClaimTypes, Account
<1>3. CachedUntracked'
  BY <1>f DEF CachedUntracked, LedgerStep
<1>4. CachedAlive'
  <2>1. HasRoot(cache.merchant) /\ HasRoot(cache.buyer)
    BY DEF CachedAlive
  <2> QED BY <2>1 DEF LedgerStep, HasRoot, CachedAlive
<1>5. DeletedUnlined'
  BY <1>f DEF DeletedUnlined
<1>6. MemKeeps' /\ CurDisposable' /\ NewWallet'
  BY DEF MemKeeps, CurDisposable, NewWallet, Exit, WithWallet, Recovery
<1>7. ASSUME NEW a \in Account
      PROVE  Tracked(a)' <=> Tracked(a)
  BY DEF Tracked, LedgerStep
<1>8. FileLined' /\ MintingTracked'
  BY <1>7 DEF FileLined, MintingTracked, LedgerStep
<1>10. NothingStranded'
  BY <1>7 DEF NothingStranded, LedgerStep
<1> QED BY <1>1, <1>2, <1>3, <1>4, <1>5, <1>6, <1>8, <1>10 DEF LedgerStep


\* A step that leaves the ledger alone, whatever it forgets.
LEMMA LedgerSame ==
    ASSUME StrandInv, pc # "idle", UNCHANGED <<asset, cache, ledgerVars, made, claims>>,
           calm' \in BOOLEAN, lost \subseteq lost', lost' \subseteq Account,
           faults' \in 0 .. MaxFaults
    PROVE  LedgerStep
<1>1. UNCHANGED <<asset, cache, exists, balance, line, minting, made, claims>>
  BY DEF ledgerVars
<1>2. /\ exists[cache.merchant] /\ exists[cache.buyer]
      /\ line[cache.merchant] /\ line[cache.buyer]
  BY DEF StrandInv, CachedAlive, HasRoot
<1>3. Rooted' /\ Lined'
  BY <1>1 DEF StrandInv, Rooted, Lined
<1> QED BY <1>1, <1>2, <1>3 DEF StrandInv, ClaimTypes, LedgerStep

LEMMA LedgerKept ==
    ASSUME StrandInv, pc # "idle", UNCHANGED <<asset, cache, ledgerVars, worldVars>>
    PROVE  LedgerStep
<1>1. UNCHANGED <<asset, cache, ledgerVars, made, claims>> /\ UNCHANGED <<lost, faults, calm>>
  BY DEF worldVars
<1> QED BY <1>1, LedgerSame DEF StrandInv, ClaimTypes

\* A fault adds to what is lost.
LEMMA FaultTypes ==
    ASSUME StrandInv, NEW S \in SUBSET Account, Fault(S)
    PROVE  lost' = lost \union S /\ lost' \subseteq Account /\ faults' \in 0 .. MaxFaults
<1>1. faults \in 0 .. MaxFaults /\ MaxFaults \in Nat /\ lost \subseteq Account
  BY ClaimAssumption DEF StrandInv, ClaimTypes
<1>2. faults > 0 /\ faults' = faults - 1 /\ lost' = lost \union S
  BY DEF Fault
<1> QED BY <1>1, <1>2

LEMMA LedgerFault ==
    ASSUME StrandInv, pc # "idle", UNCHANGED <<asset, cache, ledgerVars, made, claims, calm>>,
           NEW S \in SUBSET Account, Fault(S)
    PROVE  LedgerStep
BY FaultTypes, LedgerSame DEF StrandInv, ClaimTypes

\* A step that leaves the claim state alone, or writes it.
LEMMA FilesKept ==
    ASSUME StrandInv, mem' = mem, file' = file \/ file' = mem'
    PROVE  FilesStep
BY DEF FilesStep, StrandInv, ClaimTypes

\* A step that sets the status of its wallet.
LEMMA StatusStep ==
    ASSUME StrandInv, pc \in WithWallet, NEW s \in Status \union {"none"}, SetStatus(s),
           file' = file \/ file' = mem',
           \/ s \notin {"none", "deleted"}
           \/ s = mem.wallets[cur].status
           \/ s = "deleted" /\ (~ line'[cur] \/ cur \in lost') /\ file' = mem'
    PROVE  FilesStep /\ mem'.wallets[cur].status = s
<1>1. Disposable(cur) /\ cur \in Account /\ mem \in ClaimState
  BY DEF StrandInv, CurDisposable, Disposable, ClaimTypes
<1>2. /\ mem' \in ClaimState /\ mem'.owner = mem.owner /\ mem'.wallets[cur].status = s
      /\ \A a \in Account \ {cur} : mem'.wallets[a] = mem.wallets[a]
  BY <1>1, StatusSet DEF SetStatus
<1> QED BY <1>1, <1>2 DEF FilesStep

\* The recovered wallets are still disposable after a step.
LEMMA DisposableKept ==
    ASSUME UNCHANGED <<cache, made>>
    PROVE  \A a : Disposable(a)' <=> Disposable(a)
BY DEF Disposable

\* A run that goes on with the same wallet.
LEMMA SameWallet ==
    ASSUME StrandInv, UNCHANGED <<cache, made, cur, todo>>, recovered' \in BOOLEAN,
           pc \in WithWallet, pc' \in Recovery, mode' \in {"tracked", "claimed", "failed"}
    PROVE  RunTypes' /\ CurDisposable' /\ NewWallet' /\ pc' \notin {"idle", "load"}
<1>1. CurDisposable'
  BY DisposableKept DEF StrandInv, CurDisposable
<1>2. pc' \in PC
  BY DEF Recovery, PC
<1>3. NewWallet' /\ pc' \notin {"idle", "load"}
  BY DEF Recovery, NewWallet
<1> QED BY <1>1, <1>2, <1>3 DEF StrandInv, ClaimTypes, RunTypes

\* A run that goes on without one.
LEMMA NoWalletLeft ==
    ASSUME StrandInv, UNCHANGED <<cache, made, todo>>, cur' \in {cur, NoWallet},
           pc' \in PC \ WithWallet, mode' = "tracked", recovered' \in BOOLEAN
    PROVE  RunTypes' /\ CurDisposable' /\ NewWallet'
<1>1. CurDisposable'
  BY DisposableKept DEF StrandInv, CurDisposable
<1>2. NewWallet'
  BY DEF NewWallet, WithWallet
<1> QED BY <1>1, <1>2, ClaimAssumption DEF StrandInv, ClaimTypes, RunTypes, NoWallet

\* The recovery of a wallet is over.
LEMMA RecoveredStep ==
    ASSUME StrandInv, pc \in WithWallet, Recovered, recovered' \in BOOLEAN,
           LedgerStep, FilesStep
    PROVE  StrandInv'
<1>1. UNCHANGED <<cache, made, todo>> /\ cur' = NoWallet /\ mode' = "tracked"
  BY DEF Recovered, LedgerStep
<1>2. pc' \in {"next", "bridge"}
  BY DEF Recovered
<1>3. pc' \in PC \ WithWallet /\ pc' \notin {"idle", "load"} /\ pc \notin {"idle", "load"}
  BY <1>2 DEF PC, WithWallet
<1>4. RunTypes' /\ CurDisposable' /\ NewWallet'
  BY <1>1, <1>3, NoWalletLeft
<1> QED BY <1>3, <1>4, RunStep

\* An exception ends the run, or the wallet is recovered once more.
LEMMA RaiseStep ==
    ASSUME StrandInv, pc # "idle", Raise, LedgerStep, file' = file
    PROVE  StrandInv'
<1> DEFINE again == mode = "claimed" \/ (asset = "RLUSD" /\ pc \in {"claimLine", "mint", "await"})
<1>1. CASE ~ again
  BY <1>1, ExitStep DEF Raise
<1>2. CASE again
  <2>1. /\ SetStatus("claim_failed") /\ mode' = "failed" /\ pc' = "inspect"
        /\ UNCHANGED <<cur, todo, recovered>>
    BY <1>2 DEF Raise
  <2>2. pc \in WithWallet
    BY <1>2 DEF StrandInv, CurDisposable, WithWallet, Recovery
  <2>3. pc' \in Recovery /\ UNCHANGED <<cache, made>> /\ recovered' \in BOOLEAN
    BY <2>1 DEF Recovery, LedgerStep, StrandInv, ClaimTypes
  <2>4. RunTypes' /\ CurDisposable' /\ NewWallet' /\ pc' \notin {"idle", "load"}
    BY <2>1, <2>2, <2>3, SameWallet
  <2>6. FilesStep
    BY <2>1, <2>2, StatusStep DEF Status
  <2>7. pc \notin {"idle", "load"}
    BY <2>2 DEF WithWallet
  <2> QED BY <2>4, <2>6, <2>7, RunStep
<1> QED BY <1>1, <1>2


(***************************************************************************)
(* The steps of a run                                                      *)
(***************************************************************************)

\* The loop takes a wallet that is on its list.
LEMMA LeastIn ==
    ASSUME NEW S \in SUBSET Account, S # {}
    PROVE  Min(S) \in S
<1>1. S \subseteq Nat
  BY ClaimAssumption DEF Account
<1>2. PICK x \in S : \A y \in S : ~ (<<y, x>> \in OpToRel(<, Nat))
  BY <1>1, NatLessThanWellFounded, WFMin, Zenon
<1>3. \A y \in S : x <= y
  <2> SUFFICES ASSUME NEW y \in S
               PROVE  x <= y
    OBVIOUS
  <2>1. x \in Nat /\ y \in Nat
    BY <1>1
  <2>2. ~ (y < x)
    BY <2>1, <1>2 DEF OpToRel
  <2> QED BY <2>1, <2>2
<1> QED BY <1>3 DEF Min

LEMMA LoadInv ==
    ASSUME StrandInv, Load
    PROVE  StrandInv'
<1> USE DEF StrandInv
<1>1. /\ pc = "load" /\ pc' = "next"
      /\ UNCHANGED <<asset, cache, file, cur, mode, recovered, exists, balance, line, minting,
                     made, claims, lost, faults, calm>>
  BY DEF Load, fileVars, ledgerVars, worldVars
<1>2. cache.merchant \in 0 .. MaxAccount
  BY DEF ClaimTypes
<1>3. /\ mem' \in ClaimState /\ mem'.owner = cache.merchant
      /\ \A a \in Account : \/ mem'.wallets[a].status = "none" /\ ~ Tracked(a)
                            \/ mem'.wallets[a].status = file.wallets[a].status
  <2>1. CASE file.owner = cache.merchant
    BY <2>1 DEF Load, ClaimTypes
  <2>2. CASE file.owner # cache.merchant
    BY <2>2, <1>2, FreshState DEF Load, Tracked
  <2> QED BY <2>1, <2>2
<1>4. todo' \subseteq Account /\ \A a \in todo' : mem'.wallets[a].status # "none"
  BY DEF Load, Skipped
<1>5. \A a \in Account : Tracked(a)' <=> Tracked(a)
  BY <1>1 DEF Tracked
<1>6. ClaimTypes'
  BY <1>1, <1>3, <1>4 DEF ClaimTypes, PC
<1>7. Unmade' /\ CachedUntracked'
  BY <1>1, <1>3 DEF Unmade, CachedUntracked
<1>8. CurDisposable'
  <2>1. ASSUME NEW a \in todo'
        PROVE  Disposable(a)'
    <3>1. a \in Account /\ file.wallets[a].status # "none"
      BY <1>3, <1>4
    <3>2. a <= made
      BY <3>1 DEF Unmade, ClaimTypes, Account
    <3> QED BY <1>1, <3>1, <3>2 DEF Disposable, CachedUntracked
  <2> QED BY <2>1, <1>1 DEF CurDisposable, WithWallet, Recovery
<1>9. CachedAlive' /\ Rooted' /\ Lined'
  BY <1>1 DEF CachedAlive, Rooted, Lined, HasRoot
<1>10. FileLined' /\ MintingTracked' /\ NothingStranded'
  BY <1>1, <1>5 DEF FileLined, MintingTracked, NothingStranded, ClaimTypes
<1>11. DeletedUnlined'
  BY <1>1, <1>3 DEF DeletedUnlined, FileLined, Tracked
<1>12. MemKeeps' /\ NewWallet'
  BY <1>1, <1>3, <1>5 DEF MemKeeps, NewWallet, Tracked
<1> QED BY <1>6, <1>7, <1>8, <1>9, <1>10, <1>11, <1>12

LEMMA NextWalletInv ==
    ASSUME StrandInv, NextWallet
    PROVE  StrandInv'
<1>1. /\ pc = "next" /\ UNCHANGED <<mem, file, cache, made, mode, recovered>>
      /\ UNCHANGED <<asset, cache, ledgerVars, worldVars>>
  BY DEF NextWallet, fileVars, worldVars
<1>2. LedgerStep /\ FilesStep
  BY <1>1, LedgerKept, FilesKept
<1>3. mode = "tracked"
  BY <1>1 DEF StrandInv, CurDisposable, Recovery
<1>4. CASE todo = {}
  <2>1. pc' = "decide" /\ UNCHANGED <<cur, todo>>
    BY <1>4 DEF NextWallet
  <2>2. pc' \in PC \ WithWallet /\ recovered' \in BOOLEAN
    BY <2>1, <1>1 DEF PC, WithWallet, StrandInv, ClaimTypes
  <2>3. RunTypes' /\ CurDisposable' /\ NewWallet'
    BY <1>1, <1>3, <2>1, <2>2, NoWalletLeft
  <2> QED BY <1>1, <1>2, <2>1, <2>3, RunStep
<1>5. CASE todo # {}
  <2>1. pc' = "inspect" /\ cur' = Min(todo) /\ todo' = todo \ {Min(todo)}
    BY <1>5 DEF NextWallet
  <2>2. cur' \in todo /\ todo' \subseteq todo
    BY <1>5, <2>1, LeastIn DEF StrandInv, ClaimTypes
  <2>3. CurDisposable'
    BY <1>1, <1>3, <2>1, <2>2, DisposableKept DEF StrandInv, CurDisposable, WithWallet
  <2>4. cur' \in 0 .. MaxAccount /\ todo' \subseteq Account
    BY <2>2, ClaimAssumption DEF StrandInv, ClaimTypes, Account
  <2>5. RunTypes' /\ NewWallet'
    BY <1>1, <2>1, <2>4 DEF StrandInv, ClaimTypes, RunTypes, NewWallet, PC
  <2> QED BY <1>1, <1>2, <2>1, <2>3, <2>5, RunStep
<1> QED BY <1>4, <1>5


\* A run that goes on with the recovery of the same wallet.
LEMMA GotoStep ==
    ASSUME StrandInv, pc \in WithWallet, NEW l \in Recovery, Goto(l), UNCHANGED <<mem, file>>,
           LedgerStep
    PROVE  StrandInv'
<1>1. pc' = l /\ UNCHANGED <<cur, todo, mode, recovered, cache, made>>
  BY DEF Goto, LedgerStep
<1>2. recovered' \in BOOLEAN /\ mode' \in {"tracked", "claimed", "failed"}
  BY <1>1 DEF StrandInv, ClaimTypes
<1>3. RunTypes' /\ CurDisposable' /\ NewWallet' /\ pc' \notin {"idle", "load"}
  BY <1>1, <1>2, SameWallet
<1>4. pc \notin {"idle", "load"}
  BY DEF WithWallet
<1> QED BY <1>3, <1>4, FilesKept, RunStep

\* A recovery that ends with a status other than deleted.
LEMMA KeptStep ==
    ASSUME StrandInv, pc \in WithWallet, NEW s \in Status \ {"deleted"}, SetStatus(s),
           Recovered, UNCHANGED recovered, LedgerStep
    PROVE  StrandInv'
<1>1. file' = mem' /\ recovered' \in BOOLEAN /\ s # "none"
  BY DEF Recovered, StrandInv, ClaimTypes, Status
<1>2. FilesStep
  BY <1>1, StatusStep
<1> QED BY <1>1, <1>2, RecoveredStep

LEMMA InspectInv ==
    ASSUME StrandInv, Inspect
    PROVE  StrandInv'
<1>1. pc = "inspect" /\ UNCHANGED <<asset, cache, ledgerVars, worldVars>>
  BY DEF Inspect
<1>2. /\ UNCHANGED <<asset, cache, exists, line, balance, minting, made>>
      /\ pc \in WithWallet /\ pc \notin {"idle", "load"} /\ recovered \in BOOLEAN
      /\ Disposable(cur) /\ cur \in Account
  BY <1>1 DEF ledgerVars, worldVars, WithWallet, StrandInv, CurDisposable, ClaimTypes, Disposable
<1>3. LedgerStep
  BY <1>1, LedgerKept
<1>4. CASE ~ HasRoot(cur) /\ SetStatus("deleted") /\ Recovered /\ UNCHANGED recovered
  <2>1. cur # NoWallet
    BY <1>2 DEF Account, NoWallet
  <2>2. ~ line'[cur] /\ file' = mem'
    BY <1>2, <1>4, <2>1 DEF HasRoot, StrandInv, Rooted, Recovered
  <2>3. FilesStep
    BY <1>2, <1>4, <2>2, StatusStep DEF Status
  <2> QED BY <1>2, <1>3, <1>4, <2>3, RecoveredStep
<1>5. CASE KeepWaiting /\ UNCHANGED <<mem, recovered>> /\ Recovered
  <2>1. FilesStep
    BY <1>5, FilesKept DEF Recovered
  <2> QED BY <1>2, <1>3, <1>5, <2>1, RecoveredStep
<1>6. CASE Goto(IF balance[cur] > 0 THEN "sweep" ELSE "line") /\ UNCHANGED <<mem, file>>
  BY <1>2, <1>3, <1>6, GotoStep DEF Recovery
<1> QED BY <1>4, <1>5, <1>6 DEF Inspect

LEMMA InspectLineInv ==
    ASSUME StrandInv, InspectLine
    PROVE  StrandInv'
<1>1. pc \in WithWallet /\ pc # "idle" /\ UNCHANGED <<asset, cache, ledgerVars, worldVars>>
  BY DEF InspectLine, WithWallet
<1>2. LedgerStep
  BY <1>1, LedgerKept
<1>3. CASE Goto("ready") /\ UNCHANGED <<mem, file>>
  BY <1>1, <1>2, <1>3, GotoStep DEF Recovery
<1>4. CASE SetStatus("delete_failed") /\ Recovered /\ UNCHANGED recovered
  BY <1>1, <1>2, <1>4, KeptStep DEF Status
<1>5. CASE Goto("reset") /\ UNCHANGED <<mem, file>>
  BY <1>1, <1>2, <1>5, GotoStep DEF Recovery
<1> QED BY <1>3, <1>4, <1>5 DEF InspectLine

LEMMA InspectAgeInv ==
    ASSUME StrandInv, InspectAge
    PROVE  StrandInv'
<1>1. pc \in WithWallet /\ pc # "idle" /\ UNCHANGED <<asset, cache, ledgerVars, worldVars>>
  BY DEF InspectAge, WithWallet
<1>2. LedgerStep
  BY <1>1, LedgerKept
<1>3. CASE SetStatus(TooYoung) /\ Recovered /\ UNCHANGED recovered
  <2>1. cur \in Account /\ mem \in ClaimState /\ recovered' \in BOOLEAN /\ file' = mem'
    BY <1>1, <1>3 DEF StrandInv, CurDisposable, Disposable, ClaimTypes, Recovered
  <2>2. /\ TooYoung \in Status \union {"none"}
        /\ TooYoung \notin {"none", "deleted"} \/ TooYoung = mem.wallets[cur].status
    BY <2>1, EntryType DEF TooYoung, Status
  <2>3. FilesStep
    BY <1>1, <1>3, <2>1, <2>2, StatusStep
  <2> QED BY <1>1, <1>2, <1>3, <2>1, <2>3, RecoveredStep
<1>4. CASE Goto("delete") /\ UNCHANGED <<mem, file>>
  BY <1>1, <1>2, <1>4, GotoStep DEF Recovery
<1> QED BY <1>3, <1>4 DEF InspectAge

\* A wallet whose root is not read is lost when the file says it is deleted.
LEMMA RootUnreadInv ==
    ASSUME StrandInv, RootUnread
    PROVE  StrandInv'
<1>1. /\ pc \in WithWallet /\ pc # "idle" /\ UNCHANGED <<asset, cache, ledgerVars, made, claims, calm>>
      /\ SetStatus("deleted") /\ Recovered /\ UNCHANGED recovered /\ Fault({cur})
  BY DEF RootUnread, WithWallet
<1>2. {cur} \in SUBSET Account /\ recovered' \in BOOLEAN /\ file' = mem'
  BY <1>1 DEF StrandInv, CurDisposable, Disposable, ClaimTypes, Recovered
<1>3. LedgerStep
  BY <1>1, <1>2, LedgerFault
<1>4. cur \in lost'
  BY <1>1 DEF Fault
<1>5. FilesStep
  BY <1>1, <1>2, <1>4, StatusStep DEF Status
<1> QED BY <1>1, <1>2, <1>3, <1>5, RecoveredStep

LEMMA LinesUnreadInv ==
    ASSUME StrandInv, LinesUnread
    PROVE  StrandInv'
<1>1. /\ pc \in WithWallet /\ pc # "idle" /\ UNCHANGED <<asset, cache, ledgerVars, made, claims, calm>>
      /\ Fault({}) /\ recovered \in BOOLEAN
  BY DEF LinesUnread, WithWallet, StrandInv, ClaimTypes
<1>2. LedgerStep
  BY <1>1, LedgerFault
<1>3. CASE UNCHANGED <<mem, recovered>> /\ Recovered
  <2>1. FilesStep
    BY <1>3, FilesKept DEF Recovered
  <2> QED BY <1>1, <1>2, <1>3, <2>1, RecoveredStep
<1>4. CASE (Goto("line") \/ Goto("ready")) /\ UNCHANGED <<mem, file>>
  BY <1>1, <1>2, <1>4, GotoStep DEF Recovery
<1>5. CASE SetStatus("delete_failed") /\ Recovered /\ UNCHANGED recovered
  BY <1>1, <1>2, <1>5, KeptStep DEF Status
<1> QED BY <1>3, <1>4, <1>5 DEF LinesUnread

\* A payment out of a wallet leaves nothing there.
LEMMA Moved ==
    ASSUME NEW b \in [Account -> Nat], NEW f \in Account, NEW t \in Account
    PROVE  LET c == [b EXCEPT ![f] = @ - b[f], ![t] = @ + b[f]]
           IN  /\ c \in [Account -> Nat]
               /\ \A a \in Account : c[a] > 0 => b[a] > 0 \/ a = t
OBVIOUS

\* During a run the cached wallets are there.
LEMMA CachedAccounts ==
    ASSUME StrandInv, pc # "idle"
    PROVE  /\ cache.merchant \in Account /\ cache.buyer \in Account
           /\ exists[cache.merchant] /\ exists[cache.buyer]
           /\ line[cache.merchant] /\ line[cache.buyer]
<1>1. /\ line[cache.merchant] /\ line[cache.buyer]
      /\ HasRoot(cache.merchant) /\ HasRoot(cache.buyer)
  BY DEF StrandInv, CachedAlive
<1>2. cache.merchant \in 0 .. MaxAccount /\ cache.buyer \in 0 .. MaxAccount
  BY DEF StrandInv, ClaimTypes
<1> QED BY <1>1, <1>2, ClaimAssumption DEF HasRoot, NoWallet, Account

\* A payment to a cached wallet.
LEMMA MoveLedger ==
    ASSUME StrandInv, pc # "idle", NEW f \in Account, NEW t \in {cache.merchant, cache.buyer},
           Move(f, t, balance[f]), UNCHANGED <<asset, cache, exists, line, minting, worldVars>>
    PROVE  LedgerStep
<1>1. UNCHANGED <<asset, cache, exists, line, minting, made, claims, lost, faults, calm>>
  BY DEF worldVars
<1>2. /\ t \in Account /\ exists[t] /\ exists[cache.merchant] /\ exists[cache.buyer]
      /\ line[t] /\ line[cache.merchant] /\ line[cache.buyer]
  BY CachedAccounts
<1>3. /\ balance' \in [Account -> Nat]
      /\ \A a \in Account : balance'[a] > 0 => balance[a] > 0 \/ a = t
  BY <1>2, Moved DEF Move, StrandInv, ClaimTypes
<1>4. Rooted'
  BY <1>1, <1>2, <1>3 DEF StrandInv, Rooted
<1>5. Lined'
  BY <1>1, <1>2, <1>3 DEF StrandInv, Lined
<1> QED BY <1>1, <1>2, <1>3, <1>4, <1>5 DEF StrandInv, ClaimTypes, LedgerStep

LEMMA SweepInv ==
    ASSUME StrandInv, Sweep
    PROVE  StrandInv'
<1>1. /\ pc = "sweep" /\ pc' = "line" /\ UNCHANGED <<cache, made, cur, todo, mode, file>>
      /\ recovered' \in BOOLEAN /\ pc \in WithWallet
  BY DEF Sweep, fileVars, worldVars, WithWallet
<1>2. cur \in Account
  BY <1>1 DEF StrandInv, CurDisposable, Disposable
<1>3. LedgerStep
  BY <1>1, <1>2, MoveLedger DEF Sweep, fileVars
<1>4. FilesStep
  BY <1>1, StatusStep DEF Sweep, Status
<1>5. CurDisposable' /\ RunTypes' /\ NewWallet'
  BY <1>1, SameWallet DEF StrandInv, ClaimTypes, Recovery
<1> QED BY <1>1, <1>3, <1>4, <1>5, RunStep

LEMMA SweepUnseenInv ==
    ASSUME StrandInv, SweepUnseen
    PROVE  StrandInv'
<1>1. pc = "sweep" /\ pc \in WithWallet /\ UNCHANGED <<cache, file>>
  BY DEF SweepUnseen, fileVars, WithWallet
<1>2. cur \in Account
  BY <1>1 DEF StrandInv, CurDisposable, Disposable
<1>3. LedgerStep
  BY <1>1, <1>2, MoveLedger DEF SweepUnseen
<1> QED BY <1>1, <1>3, RaiseStep DEF SweepUnseen

LEMMA ResetTrustlineInv ==
    ASSUME StrandInv, ResetTrustline
    PROVE  StrandInv'
<1>1. /\ pc = "reset" /\ pc \in WithWallet /\ balance[cur] = 0
      /\ UNCHANGED <<asset, cache, exists, balance, minting, made, claims, lost, faults, calm>>
  BY DEF ResetTrustline, EmptyLine, worldVars, WithWallet
<1>2. /\ cur \in Account /\ exists[cache.merchant] /\ exists[cache.buyer]
      /\ cache.merchant \in Account \ {cur} /\ cache.buyer \in Account \ {cur}
      /\ line[cache.merchant] /\ line[cache.buyer]
  BY <1>1, CachedAccounts DEF StrandInv, CurDisposable, Disposable
<1>3. /\ line' \in [Account -> BOOLEAN] /\ ~ line'[cur]
      /\ \A a \in Account \ {cur} : line'[a] = line[a]
  BY <1>2 DEF ResetTrustline, StrandInv, ClaimTypes
<1>4. Rooted' /\ Lined'
  BY <1>1, <1>3 DEF StrandInv, Rooted, Lined
<1>5. LedgerStep
  BY <1>1, <1>2, <1>3, <1>4 DEF LedgerStep, StrandInv, ClaimTypes
<1>6. CASE Goto("ready") /\ UNCHANGED <<mem, file>>
  BY <1>1, <1>5, <1>6, GotoStep DEF Recovery
<1>7. CASE SetStatus("delete_failed") /\ Recovered /\ UNCHANGED recovered
  BY <1>1, <1>5, <1>7, KeptStep DEF Status
<1> QED BY <1>6, <1>7 DEF ResetTrustline

LEMMA DeleteAccountInv ==
    ASSUME StrandInv, DeleteAccount
    PROVE  StrandInv'
<1>1. /\ pc = "delete" /\ pc \in WithWallet /\ Recovered /\ UNCHANGED recovered
      /\ UNCHANGED <<asset, cache, balance, line, minting, made, claims, lost, faults, calm>>
  BY DEF DeleteAccount, worldVars, WithWallet
<1>2. /\ cur \in Account /\ cur # cache.merchant /\ cur # cache.buyer
      /\ cache.merchant \in Account /\ cache.buyer \in Account
      /\ exists[cache.merchant] /\ exists[cache.buyer] /\ recovered' \in BOOLEAN /\ file' = mem'
      /\ line[cache.merchant] /\ line[cache.buyer]
  BY <1>1, CachedAccounts DEF StrandInv, CurDisposable, Disposable, ClaimTypes, Recovered
<1>3. CASE ~ line[cur] /\ exists' = [exists EXCEPT ![cur] = FALSE]
           /\ (SetStatus("deleted") \/ SetStatus("delete_failed"))
  <2>1. /\ exists' \in [Account -> BOOLEAN] /\ ~ exists'[cur]
        /\ \A a \in Account \ {cur} : exists'[a] = exists[a]
    BY <1>2, <1>3 DEF StrandInv, ClaimTypes
  <2>2. balance[cur] = 0
    BY <1>2, <1>3 DEF StrandInv, Lined, ClaimTypes
  <2>3. Rooted' /\ Lined'
    BY <1>1, <1>3, <2>1, <2>2 DEF StrandInv, Rooted, Lined
  <2>4. LedgerStep
    BY <1>1, <1>2, <2>1, <2>3 DEF LedgerStep, StrandInv, ClaimTypes
  <2>5. CASE SetStatus("deleted")
    BY <1>1, <1>2, <1>3, <2>4, <2>5, StatusStep, RecoveredStep DEF Status
  <2>6. CASE SetStatus("delete_failed")
    BY <1>1, <2>4, <2>6, KeptStep DEF Status
  <2> QED BY <1>3, <2>5, <2>6
<1>4. CASE UNCHANGED exists /\ SetStatus("delete_failed")
  <2>1. LedgerStep
    BY <1>1, <1>4, LedgerKept DEF ledgerVars, worldVars
  <2> QED BY <1>1, <1>4, <2>1, KeptStep DEF Status
<1> QED BY <1>3, <1>4 DEF DeleteAccount


LEMMA DecideInv ==
    ASSUME StrandInv, DecideRlusd \/ DecideUsdc
    PROVE  StrandInv'
<1>1. /\ pc = "decide" /\ UNCHANGED <<asset, cache, ledgerVars, worldVars>>
      /\ UNCHANGED <<cur, todo, mode, recovered>> /\ pc' \in {"bridge", "create"}
  BY DEF DecideRlusd, DecideUsdc
<1>2. UNCHANGED <<cache, made, todo>> /\ mode = "tracked" /\ recovered \in BOOLEAN
  BY <1>1 DEF worldVars, StrandInv, CurDisposable, Recovery, ClaimTypes
<1>3. LedgerStep
  BY <1>1, LedgerKept
<1>4. FilesStep
  <2>1. CASE DecideRlusd
    BY <2>1, FilesKept DEF DecideRlusd
  <2>2. CASE DecideUsdc
    <3>1. mem \in ClaimState /\ (mem.cooling \/ recovered) \in BOOLEAN
      BY DEF StrandInv, ClaimTypes
    <3>2. mem' \in ClaimState /\ mem'.owner = mem.owner /\ mem'.wallets = mem.wallets
      BY <2>2, <3>1, CoolingSet DEF DecideUsdc
    <3> QED BY <2>2, <3>2 DEF DecideUsdc, FilesStep
  <2> QED BY <2>1, <2>2
<1>5. pc' \in PC \ WithWallet
  BY <1>1 DEF PC, WithWallet
<1>6. RunTypes' /\ CurDisposable' /\ NewWallet'
  BY <1>1, <1>2, <1>5, NoWalletLeft
<1> QED BY <1>1, <1>3, <1>4, <1>6, RunStep

\* A wallet is made: nothing was known of it.
LEMMA CreateWalletInv ==
    ASSUME StrandInv, CreateWallet
    PROVE  StrandInv'
<1> USE DEF StrandInv
<1>1. /\ pc = "create" /\ made < MaxAccount /\ made' = made + 1 /\ cur' = made + 1
      /\ exists' = [exists EXCEPT ![made + 1] = TRUE]
      /\ pc' = IF asset = "RLUSD" THEN "track" ELSE "claimLine"
      /\ UNCHANGED <<asset, cache, file, mem, todo, mode, recovered, balance, line, minting,
                     claims, lost, faults, calm>>
  BY DEF CreateWallet, fileVars
<1>2. /\ made \in Nat /\ made + 1 \in Account /\ made + 1 > made /\ made' \in 0 .. MaxAccount
      /\ cur' \in 0 .. MaxAccount /\ pc' \in PC /\ pc' \in WithWallet
  BY <1>1, ClaimAssumption DEF ClaimTypes, Account, PC, WithWallet
<1>3. /\ exists' \in [Account -> BOOLEAN] /\ exists'[made + 1]
      /\ \A a \in Account \ {made + 1} : exists'[a] = exists[a]
  BY <1>1, <1>2 DEF ClaimTypes
<1>4. /\ cache.merchant \in Account /\ cache.buyer \in Account
      /\ exists[cache.merchant] /\ exists[cache.buyer]
      /\ line[cache.merchant] /\ line[cache.buyer]
      /\ cache.merchant <= made /\ cache.buyer <= made
  BY <1>1, CachedAccounts DEF Unmade
<1>5. /\ ~ exists[made + 1] /\ made + 1 \notin minting
      /\ file.wallets[made + 1].status = "none" /\ mem.wallets[made + 1].status = "none"
  BY <1>2 DEF Unmade
<1>6. ClaimTypes'
  BY <1>1, <1>2, <1>3 DEF ClaimTypes
<1>7. \A a \in Account : a > made' => a > made /\ a # made + 1
  BY <1>1, <1>2 DEF Account
<1>8. cache.merchant <= made' /\ cache.buyer <= made'
  BY <1>1, <1>2, <1>4 DEF Account
<1>9. Unmade' /\ CachedUntracked'
  BY <1>1, <1>3, <1>7, <1>8 DEF Unmade, CachedUntracked
<1>10. CachedAlive'
  BY <1>1, <1>3, <1>4 DEF CachedAlive, HasRoot, Account, NoWallet
<1>11. Rooted' /\ Lined' /\ DeletedUnlined'
  BY <1>1, <1>3 DEF Rooted, Lined, DeletedUnlined
<1>12. \A a \in Account : Tracked(a)' <=> Tracked(a)
  BY <1>1 DEF Tracked
<1>13. FileLined' /\ MintingTracked' /\ NothingStranded' /\ MemKeeps'
  BY <1>1, <1>12 DEF FileLined, MintingTracked, NothingStranded, MemKeeps, ClaimTypes
<1>14. CurDisposable'
  <2>1. ASSUME NEW a, Disposable(a)
        PROVE  Disposable(a)'
    <3>1. a <= made + 1
      BY <1>2, <2>1 DEF Disposable, Account
    <3> QED BY <1>1, <2>1, <3>1 DEF Disposable
  <2>2. Disposable(cur)'
    <3>1. made + 1 # cache.merchant /\ made + 1 # cache.buyer /\ made + 1 <= made + 1
      BY <1>2, <1>4 DEF Account
    <3> QED BY <1>1, <1>2, <3>1 DEF Disposable
  <2>3. mode' = "tracked"
    BY <1>1 DEF CurDisposable, Recovery
  <2> QED BY <1>1, <2>1, <2>2, <2>3 DEF CurDisposable
<1>15. NewWallet'
  BY <1>1, <1>5 DEF NewWallet, ClaimTypes
<1> QED BY <1>6, <1>9, <1>10, <1>11, <1>13, <1>14, <1>15

LEMMA TrackWalletInv ==
    ASSUME StrandInv, TrackWallet
    PROVE  StrandInv'
<1> DEFINE s == IF asset = "RLUSD" THEN "created" ELSE "awaiting_manual_funding"
<1>1. /\ pc = "track" /\ SetStatus(s) /\ file' = mem' /\ UNCHANGED <<cur, todo, mode, recovered>>
      /\ pc' = (IF asset = "RLUSD" THEN "claimLine" ELSE "bridge")
      /\ UNCHANGED <<asset, cache, ledgerVars, worldVars>>
  BY DEF TrackWallet, WriteSeed, Goto
<1>2. /\ UNCHANGED <<asset, cache, made>> /\ mode = "tracked" /\ recovered \in BOOLEAN
      /\ pc \in WithWallet /\ cur \in Account
  BY <1>1 DEF worldVars, StrandInv, CurDisposable, Recovery, ClaimTypes, WithWallet, Disposable
<1>3. LedgerStep
  BY <1>1, LedgerKept
<1>4. s \in Status /\ s \notin {"none", "deleted"}
  BY DEF Status
<1> HIDE DEF s
<1>5. FilesStep /\ mem'.wallets[cur].status = s
  BY <1>1, <1>2, <1>4, StatusStep
<1>6. CASE asset = "RLUSD"
  <2>1. pc' = "claimLine"
    BY <1>1, <1>6
  <2>2. CurDisposable'
    BY <1>1, <1>2, <2>1, DisposableKept DEF StrandInv, CurDisposable, WithWallet
  <2>3. file'.owner = cache'.merchant /\ file'.wallets[cur'].status \notin {"none", "deleted"}
    BY <1>1, <1>2, <1>4, <1>5 DEF FilesStep, StrandInv, MemKeeps
  <2>4. NewWallet'
    BY <1>1, <1>2, <1>6, <2>1, <2>3 DEF NewWallet, Tracked
  <2>5. RunTypes'
    BY <1>1, <2>1 DEF RunTypes, StrandInv, ClaimTypes, PC
  <2> QED BY <1>1, <1>3, <1>5, <2>1, <2>2, <2>4, <2>5, RunStep
<1>7. CASE asset # "RLUSD"
  <2>1. pc' = "bridge" /\ pc' \in PC \ WithWallet
    BY <1>1, <1>7 DEF PC, WithWallet
  <2>2. RunTypes' /\ CurDisposable' /\ NewWallet'
    BY <1>1, <1>2, <2>1, NoWalletLeft
  <2> QED BY <1>1, <1>3, <1>5, <2>1, <2>2, RunStep
<1> QED BY <1>6, <1>7


\* The new trust line: the wallet is tracked, or no payment is on its way.
LEMMA CreateTrustlineInv ==
    ASSUME StrandInv, CreateTrustline
    PROVE  StrandInv'
<1> USE DEF StrandInv
<1>1. /\ pc = "claimLine" /\ exists[cur] /\ line' = [line EXCEPT ![cur] = TRUE]
      /\ pc' = (IF asset = "RLUSD" THEN "mint" ELSE "track")
      /\ UNCHANGED <<asset, cache, file, mem, cur, todo, mode, recovered, exists, balance,
                     minting, made, claims, lost, faults, calm>>
  BY DEF CreateTrustline, Goto, fileVars, worldVars
<1>2. Disposable(cur) /\ cur \in Account
  BY <1>1 DEF CurDisposable, Disposable, WithWallet
<1>3. /\ line' \in [Account -> BOOLEAN] /\ line'[cur]
      /\ \A a \in Account \ {cur} : line'[a] = line[a]
  BY <1>1, <1>2 DEF ClaimTypes
<1>4. \/ asset = "RLUSD" /\ Tracked(cur)
      \/ /\ asset = "USDC" /\ cur \notin minting
         /\ file.wallets[cur].status = "none" /\ mem.wallets[cur].status = "none"
  BY <1>1 DEF NewWallet, ClaimTypes
<1>5. ClaimTypes'
  BY <1>1, <1>3 DEF ClaimTypes, PC
<1>6. Unmade' /\ CachedUntracked' /\ CachedAlive'
  BY <1>1 DEF Unmade, CachedUntracked, CachedAlive, HasRoot
<1>7. Rooted' /\ Lined'
  BY <1>1, <1>3 DEF Rooted, Lined
<1>8. mem.wallets[cur].status # "deleted"
  BY <1>1, <1>2, <1>4 DEF MemKeeps
<1>9. DeletedUnlined'
  BY <1>1, <1>3, <1>8 DEF DeletedUnlined
<1>10. \A a \in Account : Tracked(a)' <=> Tracked(a)
  BY <1>1 DEF Tracked
<1>11. FileLined' /\ MintingTracked'
  BY <1>1, <1>2, <1>3, <1>4, <1>10 DEF FileLined, MintingTracked, ClaimTypes
<1>12. NothingStranded' /\ MemKeeps'
  BY <1>1, <1>10 DEF NothingStranded, MemKeeps
<1>13. CurDisposable'
  BY <1>1, <1>2, DisposableKept DEF CurDisposable, Recovery
<1>14. NewWallet'
  BY <1>1, <1>2, <1>4, <1>10 DEF NewWallet, ClaimTypes
<1> QED BY <1>5, <1>6, <1>7, <1>9, <1>11, <1>12, <1>13, <1>14

LEMMA MintInv ==
    ASSUME StrandInv, Mint
    PROVE  StrandInv'
<1>1. /\ pc = "mint" /\ claims < MaxClaims /\ pc \in WithWallet
      /\ minting' = minting \union {cur} /\ claims' = claims + 1
      /\ UNCHANGED <<asset, cache, exists, balance, line, made, lost, faults, calm>>
  BY DEF Mint, WithWallet
<1>2. /\ Disposable(cur) /\ cur \in Account /\ cur <= made /\ asset = "RLUSD" /\ Tracked(cur)
      /\ mode = "tracked" /\ exists[cache.merchant] /\ exists[cache.buyer]
      /\ line[cache.merchant] /\ line[cache.buyer]
  BY <1>1, CachedAccounts
     DEF StrandInv, CurDisposable, Disposable, Recovery, NewWallet, ClaimTypes
<1>3. Rooted' /\ Lined'
  BY <1>1 DEF StrandInv, Rooted, Lined
<1>4. claims' \in 0 .. MaxClaims
  BY <1>1, ClaimAssumption DEF StrandInv, ClaimTypes
<1>5. LedgerStep
  BY <1>1, <1>2, <1>3, <1>4 DEF LedgerStep, StrandInv, ClaimTypes
<1>6. CASE mem' = [mem EXCEPT !.wallets[cur] = [status |-> "claimed", hash |-> TRUE]]
           /\ file' = mem' /\ Goto("await")
  <2> DEFINE e == [status |-> "claimed", hash |-> TRUE]
  <2>1. e \in Entry /\ e.status = "claimed" /\ mem \in ClaimState
    BY DEF Entry, Status, StrandInv, ClaimTypes
  <2> HIDE DEF e
  <2>2. mem' = [mem EXCEPT !.wallets[cur] = e]
    BY <1>6 DEF e
  <2>3. /\ mem' \in ClaimState /\ mem'.owner = mem.owner /\ mem'.wallets[cur] = e
        /\ \A a \in Account \ {cur} : mem'.wallets[a] = mem.wallets[a]
    BY <1>2, <2>1, <2>2, EntrySet
  <2>4. FilesStep /\ mem'.wallets[cur].status = "claimed"
    BY <1>2, <1>6, <2>1, <2>3 DEF FilesStep
  <2>5. pc' = "await" /\ UNCHANGED <<cur, todo, mode, recovered>>
    BY <1>6 DEF Goto
  <2>6. mem.owner = cache.merchant
    BY <1>1 DEF StrandInv, MemKeeps
  <2>7. Tracked(cur)'
    BY <1>1, <1>6, <2>3, <2>4, <2>5, <2>6 DEF Tracked
  <2>8. CurDisposable'
    BY <1>1, <1>2, <2>5, DisposableKept DEF StrandInv, CurDisposable
  <2>9. RunTypes' /\ NewWallet'
    BY <1>1, <1>2, <2>5, <2>7 DEF RunTypes, StrandInv, ClaimTypes, PC, NewWallet
  <2> QED BY <1>1, <1>5, <2>4, <2>5, <2>8, <2>9, RunStep
<1>7. CASE Raise /\ UNCHANGED file
  BY <1>1, <1>5, <1>7, RaiseStep
<1> QED BY <1>6, <1>7 DEF Mint

LEMMA AwaitClaimInv ==
    ASSUME StrandInv, AwaitClaim
    PROVE  StrandInv'
<1>1. /\ pc = "await" /\ pc' = "inspect" /\ mode' = "claimed" /\ file' = mem'
      /\ mem' = [mem EXCEPT !.cooling = TRUE] /\ UNCHANGED <<cur, todo, recovered>>
      /\ UNCHANGED <<asset, cache, ledgerVars, worldVars>>
  BY DEF AwaitClaim
<1>2. mem' \in ClaimState /\ mem'.owner = mem.owner /\ mem'.wallets = mem.wallets
  BY <1>1, CoolingSet DEF StrandInv, ClaimTypes
<1>3. FilesStep
  BY <1>1, <1>2 DEF FilesStep
<1>4. LedgerStep
  BY <1>1, LedgerKept
<1>5. /\ UNCHANGED <<cache, made>> /\ pc \in WithWallet /\ pc' \in Recovery
      /\ recovered' \in BOOLEAN
  BY <1>1 DEF worldVars, WithWallet, Recovery, StrandInv, ClaimTypes
<1>6. RunTypes' /\ CurDisposable' /\ NewWallet'
  BY <1>1, <1>5, SameWallet
<1> QED BY <1>1, <1>3, <1>4, <1>6, RunStep

LEMMA BridgeInv ==
    ASSUME StrandInv, Bridge
    PROVE  StrandInv'
<1>1. /\ pc = "bridge" /\ Exit /\ UNCHANGED <<asset, cache, file, exists, line, minting>>
      /\ UNCHANGED worldVars
  BY DEF Bridge, fileVars
<1>2. cache.merchant \in Account
  BY <1>1, CachedAccounts
<1>3. CASE Move(cache.merchant, cache.buyer, balance[cache.merchant])
  BY <1>1, <1>2, <1>3, MoveLedger, ExitStep
<1>4. CASE UNCHANGED balance
  <2>1. LedgerStep
    BY <1>1, <1>4, LedgerKept DEF ledgerVars
  <2> QED BY <1>1, <2>1, ExitStep
<1> QED BY <1>3, <1>4 DEF Bridge

LEMMA EndsInv ==
    ASSUME StrandInv, RunRaises \/ Killed
    PROVE  StrandInv'
<1>1. pc # "idle" /\ UNCHANGED <<asset, cache, ledgerVars, worldVars>> /\ file' = file
  BY DEF RunRaises, Killed, fileVars
<1>2. LedgerStep
  BY <1>1, LedgerKept
<1>3. CASE RunRaises
  BY <1>1, <1>2, <1>3, RaiseStep DEF RunRaises
<1>4. CASE Killed
  BY <1>1, <1>2, <1>4, ExitStep DEF Killed
<1> QED BY <1>3, <1>4


(***************************************************************************)
(* The wallet cache and the environment                                    *)
(***************************************************************************)

\* Two roles are two.
LEMMA Roles == Cardinality({"merchant", "buyer"}) = 2
<1>1. {"merchant", "buyer"} = {"merchant"} \union {"buyer"}
  OBVIOUS
<1>2. IsFiniteSet({"merchant"}) /\ Cardinality({"merchant"}) = 1
  BY FS_Singleton
<1> QED BY <1>1, <1>2, FS_AddElement

\* So many of them are replaced.
LEMMA GoneRoles ==
    ASSUME NEW G \in SUBSET {"merchant", "buyer"}
    PROVE  /\ Cardinality(G) \in 0 .. 2
           /\ "merchant" \in G => Cardinality(G) >= 1
           /\ "buyer" \in G => Cardinality(G) >= 1
           /\ "merchant" \in G /\ "buyer" \in G => Cardinality(G) = 2
<1>1. CASE G = {}
  BY <1>1, FS_EmptySet
<1>2. CASE G = {"merchant"} \/ G = {"buyer"}
  <2>1. Cardinality(G) = 1
    BY <1>2, FS_Singleton
  <2> QED BY <1>2, <2>1
<1>3. CASE G = {"merchant", "buyer"}
  BY <1>3, Roles
<1> QED BY <1>1, <1>2, <1>3

\* Each cached wallet stays, or is replaced by a new one, and what is replaced
\* although it is there is lost.
LEMMA RefreshEffect ==
    ASSUME StrandInv, RefreshCache
    PROVE  /\ made' \in made .. made + 2 /\ made' \in 0 .. MaxAccount
           /\ exists' \in [Account -> BOOLEAN] /\ line' \in [Account -> BOOLEAN]
           /\ \A a \in Account : /\ exists'[a] <=> exists[a] \/ a \in made + 1 .. made'
                                 /\ line'[a] <=> line[a] \/ a \in made + 1 .. made'
           /\ lost \subseteq lost' /\ lost' \subseteq Account /\ faults' \in 0 .. MaxFaults
           /\ cache' \in [merchant : 0 .. MaxAccount, buyer : 0 .. MaxAccount]
           /\ \/ cache'.merchant = cache.merchant /\ HasRoot(cache.merchant)
              \/ /\ cache'.merchant \in made + 1 .. made'
                 /\ HasRoot(cache.merchant) => cache.merchant \in lost'
                 /\ \A a \in Account : Tracked(a) /\ exists[a] => a \in lost'
           /\ \/ cache'.buyer = cache.buyer /\ HasRoot(cache.buyer)
              \/ /\ cache'.buyer \in made + 1 .. made'
                 /\ HasRoot(cache.buyer) => cache.buyer \in lost'
           /\ cache'.merchant = cache'.buyer => UNCHANGED cache
<1> USE DEF StrandInv
<1>1. /\ DOMAIN cache = {"merchant", "buyer"} /\ made \in Nat /\ MaxAccount \in Nat
      /\ cache.merchant \in 0 .. MaxAccount /\ cache.buyer \in 0 .. MaxAccount
      /\ cache.merchant <= made /\ cache.buyer <= made
      /\ cache = [role \in {"merchant", "buyer"} |-> cache[role]]
  BY ClaimAssumption DEF ClaimTypes, Unmade
<1>2. PICK unread \in SUBSET {role \in DOMAIN cache : HasRoot(cache[role])} :
          LET gone == {role \in DOMAIN cache : ~ HasRoot(cache[role])} \union unread
              next(role) == made + (IF role = "buyer" THEN Cardinality(gone) ELSE 1)
          IN  /\ made' = made + Cardinality(gone) /\ made' <= MaxAccount
              /\ exists' = [a \in Account |-> exists[a] \/ a \in made + 1 .. made']
              /\ line' = [a \in Account |-> line[a] \/ a \in made + 1 .. made']
              /\ cache' = [role \in DOMAIN cache |->
                              IF role \in gone THEN next(role) ELSE cache[role]]
              /\ IF unread = {} THEN UNCHANGED <<lost, faults>>
                 ELSE Fault({cache[role] : role \in unread} \union
                            {a \in Account : "merchant" \in unread /\ Tracked(a)})
  BY DEF RefreshCache
<1> DEFINE gone == {role \in DOMAIN cache : ~ HasRoot(cache[role])} \union unread
           n == Cardinality(gone)
           forgotten == {cache[role] : role \in unread} \union
                        {a \in Account : "merchant" \in unread /\ Tracked(a)}
<1>3. /\ gone \in SUBSET {"merchant", "buyer"}
      /\ "merchant" \in gone <=> ~ HasRoot(cache.merchant) \/ "merchant" \in unread
      /\ "buyer" \in gone <=> ~ HasRoot(cache.buyer) \/ "buyer" \in unread
  BY <1>1
<1>4. /\ n \in 0 .. 2
      /\ "merchant" \in gone => n >= 1
      /\ "buyer" \in gone => n >= 1
      /\ "merchant" \in gone /\ "buyer" \in gone => n = 2
  BY <1>3, GoneRoles
<1>5. /\ made' = made + n /\ made' <= MaxAccount
      /\ cache'.merchant = IF "merchant" \in gone THEN made + 1 ELSE cache.merchant
      /\ cache'.buyer = IF "buyer" \in gone THEN made + n ELSE cache.buyer
  BY <1>1, <1>2
<1>6. /\ DOMAIN cache' = {"merchant", "buyer"}
      /\ cache' = [role \in {"merchant", "buyer"} |-> cache'[role]]
  BY <1>1, <1>2
<1>7. made' \in made .. made + 2 /\ made' \in 0 .. MaxAccount
  <2> HIDE DEF n
  <2> QED BY <1>1, <1>4, <1>5
<1>8. /\ exists' \in [Account -> BOOLEAN] /\ line' \in [Account -> BOOLEAN]
      /\ \A a \in Account : /\ exists'[a] <=> exists[a] \/ a \in made + 1 .. made'
                            /\ line'[a] <=> line[a] \/ a \in made + 1 .. made'
  <2> DEFINE fresh == made + 1 .. made'
  <2>1. /\ exists' = [a \in Account |-> exists[a] \/ a \in fresh]
        /\ line' = [a \in Account |-> line[a] \/ a \in fresh]
        /\ exists \in [Account -> BOOLEAN] /\ line \in [Account -> BOOLEAN]
    BY <1>2 DEF ClaimTypes
  <2> HIDE DEF fresh
  <2>2. /\ exists' \in [Account -> BOOLEAN] /\ line' \in [Account -> BOOLEAN]
        /\ \A a \in Account : /\ exists'[a] <=> exists[a] \/ a \in fresh
                              /\ line'[a] <=> line[a] \/ a \in fresh
    BY <2>1
  <2> QED BY <2>2 DEF fresh
<1>9. forgotten \in SUBSET Account
  <2>1. \A role \in unread : cache[role] \in Account
    <3> SUFFICES ASSUME NEW role \in unread
                 PROVE  cache[role] \in Account
      OBVIOUS
    <3>1. role \in {"merchant", "buyer"} /\ HasRoot(cache[role])
      BY <1>1
    <3> QED BY <1>1, <3>1 DEF HasRoot, NoWallet, Account
  <2> QED BY <2>1
<1>10. /\ lost \subseteq lost' /\ lost' \subseteq Account /\ faults' \in 0 .. MaxFaults
       /\ unread = {} \/ lost' = lost \union forgotten
  <2>1. CASE unread = {}
    BY <1>2, <2>1 DEF ClaimTypes
  <2>2. CASE unread # {}
    <3>1. Fault(forgotten)
      BY <1>2, <2>2
    <3> HIDE DEF forgotten
    <3> QED BY <1>9, <3>1, FaultTypes
  <2> QED BY <2>1, <2>2
<1>11. \/ cache'.merchant = cache.merchant /\ HasRoot(cache.merchant)
       \/ /\ cache'.merchant \in made + 1 .. made'
          /\ HasRoot(cache.merchant) => cache.merchant \in lost'
          /\ \A a \in Account : Tracked(a) /\ exists[a] => a \in lost'
  <2>1. CASE "merchant" \notin gone
    BY <1>3, <1>5, <2>1
  <2>2. CASE "merchant" \in gone
    <3>1. cache'.merchant \in made + 1 .. made'
      <4> HIDE DEF n, gone
      <4> QED BY <1>1, <1>4, <1>5, <2>2
    <3>2. CASE ~ HasRoot(cache.merchant)
      BY <1>10, <3>1, <3>2 DEF CachedAlive
    <3>3. CASE "merchant" \in unread
      BY <1>10, <3>1, <3>3
    <3> QED BY <1>3, <2>2, <3>2, <3>3
  <2> QED BY <2>1, <2>2
<1>12. \/ cache'.buyer = cache.buyer /\ HasRoot(cache.buyer)
       \/ /\ cache'.buyer \in made + 1 .. made'
          /\ HasRoot(cache.buyer) => cache.buyer \in lost'
  <2>1. CASE "buyer" \notin gone
    BY <1>3, <1>5, <2>1
  <2>2. CASE "buyer" \in gone
    <3>1. cache'.buyer \in made + 1 .. made'
      <4> HIDE DEF n, gone
      <4> QED BY <1>1, <1>4, <1>5, <2>2
    <3>2. HasRoot(cache.buyer) => "buyer" \in unread
      BY <1>3, <2>2
    <3> QED BY <1>10, <3>1, <3>2
  <2> QED BY <2>1, <2>2
<1>13. cache'.merchant = cache'.buyer => UNCHANGED cache
  <2> HIDE DEF n, gone
  <2>1. CASE "merchant" \in gone \/ "buyer" \in gone
    <3>1. cache'.merchant # cache'.buyer
      BY <1>1, <1>4, <1>5, <2>1
    <3> QED BY <3>1
  <2>2. CASE "merchant" \notin gone /\ "buyer" \notin gone
    BY <1>1, <1>5, <1>6, <2>2
  <2> QED BY <2>1, <2>2
<1>14. cache' \in [merchant : 0 .. MaxAccount, buyer : 0 .. MaxAccount]
  <2> HIDE DEF n, gone
  <2>1. cache'.merchant \in 0 .. MaxAccount /\ cache'.buyer \in 0 .. MaxAccount
    BY <1>1, <1>4, <1>5
  <2> QED BY <1>6, <2>1
<1> QED BY <1>7, <1>8, <1>10, <1>11, <1>12, <1>13, <1>14

LEMMA RefreshCacheInv ==
    ASSUME StrandInv, RefreshCache
    PROVE  StrandInv'
<1> USE DEF StrandInv
<1>1. /\ pc = "idle" /\ pc' = "load"
      /\ UNCHANGED <<asset, file, mem, cur, todo, mode, recovered, balance, minting, claims, calm>>
  BY DEF RefreshCache, Goto
<1> DEFINE new == made + 1 .. made'
<1>2. /\ made' \in made .. made + 2 /\ made' \in 0 .. MaxAccount
      /\ exists' \in [Account -> BOOLEAN] /\ line' \in [Account -> BOOLEAN]
      /\ \A a \in Account : (exists'[a] <=> exists[a] \/ a \in new) /\ (line'[a] <=> line[a] \/ a \in new)
      /\ lost \subseteq lost' /\ lost' \subseteq Account /\ faults' \in 0 .. MaxFaults
      /\ cache' \in [merchant : 0 .. MaxAccount, buyer : 0 .. MaxAccount]
  BY RefreshEffect
<1>3. /\ \/ cache'.merchant = cache.merchant /\ HasRoot(cache.merchant)
         \/ /\ cache'.merchant \in new
            /\ HasRoot(cache.merchant) => cache.merchant \in lost'
            /\ \A a \in Account : Tracked(a) /\ exists[a] => a \in lost'
      /\ \/ cache'.buyer = cache.buyer /\ HasRoot(cache.buyer)
         \/ cache'.buyer \in new /\ (HasRoot(cache.buyer) => cache.buyer \in lost')
  BY RefreshEffect
<1>4. /\ made \in Nat /\ made' \in Nat /\ made <= made'
      /\ \A a \in new : a \in Account /\ a > made /\ a <= made' /\ a # NoWallet
      /\ \A a \in Account : a <= made => a <= made' /\ a \notin new
      /\ \A a \in Account : a > made' => a > made /\ a \notin new
      /\ cache.merchant <= made /\ cache.buyer <= made
      /\ cache.merchant \in 0 .. MaxAccount /\ cache.buyer \in 0 .. MaxAccount
  BY <1>2, ClaimAssumption DEF ClaimTypes, Account, Unmade, NoWallet
<1> HIDE DEF new
<1>5. ClaimTypes'
  BY <1>1, <1>2 DEF ClaimTypes, PC
<1>6. CurDisposable'
  <2> SUFFICES ASSUME NEW a \in todo
               PROVE  Disposable(a)'
    BY <1>1 DEF CurDisposable, WithWallet, Recovery
  <2>1. a \in Account /\ a <= made /\ a # cache.merchant /\ a # cache.buyer
    BY DEF CurDisposable, Disposable
  <2>2. a <= made' /\ a \notin new
    BY <1>4, <2>1
  <2> QED BY <1>3, <2>1, <2>2 DEF Disposable
<1>7. Unmade'
  <2>1. cache'.merchant <= made' /\ cache'.buyer <= made'
    BY <1>3, <1>4
  <2> QED BY <1>1, <1>2, <1>4, <2>1 DEF Unmade
<1>8. CachedUntracked'
  BY <1>1, <1>3, <1>4 DEF CachedUntracked, Unmade
<1>9. HasRoot(cache.merchant)' /\ HasRoot(cache.buyer)'
  BY <1>2, <1>3, <1>4 DEF HasRoot, Account, NoWallet
<1>10. CachedAlive'
  <2>1. line'[cache'.merchant] /\ line'[cache'.buyer]
    BY <1>2, <1>3, <1>4 DEF CachedAlive, HasRoot, Account, NoWallet
  <2> QED BY <1>9, <2>1 DEF CachedAlive
<1>11. Rooted' /\ Lined'
  BY <1>1, <1>2 DEF Rooted, Lined
<1>12. ASSUME NEW a \in Account, line'[a], a \notin new
       PROVE  exists[a] /\ line[a]
  BY <1>2, <1>12 DEF Rooted
<1>13. ASSUME NEW a \in Account, Tracked(a), exists[a]
       PROVE  Tracked(a)' \/ a \in lost'
  BY <1>1, <1>3, <1>13 DEF Tracked
<1>14. ASSUME NEW a \in Account, a \in minting \/ file.wallets[a].status # "none"
                                 \/ mem.wallets[a].status # "none"
       PROVE  a \notin new
  BY <1>4, <1>14 DEF Unmade
<1>15. DeletedUnlined' /\ FileLined' /\ MintingTracked'
  <2>1. DeletedUnlined'
    BY <1>1, <1>2, <1>12, <1>14 DEF DeletedUnlined
  <2>2. FileLined'
    BY <1>1, <1>2, <1>12, <1>13, <1>14 DEF FileLined
  <2>3. MintingTracked'
    BY <1>1, <1>2, <1>12, <1>13, <1>14 DEF MintingTracked, ClaimTypes
  <2> QED BY <2>1, <2>2, <2>3
<1>16. NothingStranded'
  <2> SUFFICES ASSUME NEW a \in Account, balance'[a] > 0,
                      a # cache'.merchant, a # cache'.buyer
               PROVE  Tracked(a)' \/ a \in lost'
    BY DEF NothingStranded
  <2>1. exists[a] /\ HasRoot(a)
    BY <1>1, ClaimAssumption DEF Rooted, HasRoot, Account, NoWallet
  <2>2. a = cache.merchant \/ a = cache.buyer => a \in lost'
    BY <1>3, <2>1
  <2>3. a = cache.merchant \/ a = cache.buyer \/ Tracked(a) \/ a \in lost
    BY <1>1 DEF NothingStranded
  <2> QED BY <1>2, <1>13, <2>1, <2>2, <2>3
<1>17. MemKeeps' /\ NewWallet'
  BY <1>1 DEF MemKeeps, NewWallet
<1> QED BY <1>5, <1>6, <1>7, <1>8, <1>10, <1>11, <1>15, <1>16, <1>17

\* A cache that cannot be read: all there is, is lost.
LEMMA TornCacheInv ==
    ASSUME StrandInv, TornCache
    PROVE  StrandInv'
<1> USE DEF StrandInv
<1>1. /\ pc = "idle" /\ cache' = [merchant |-> NoWallet, buyer |-> NoWallet]
      /\ Fault({a \in Account : exists[a]})
      /\ UNCHANGED <<asset, file, mem, pc, cur, todo, mode, recovered, exists, balance, line,
                     minting, made, claims, calm>>
  BY DEF TornCache, runVars, ledgerVars
<1>2. /\ lost' = lost \union {a \in Account : exists[a]}
      /\ lost' \subseteq Account /\ faults' \in 0 .. MaxFaults
  <2> DEFINE S == {a \in Account : exists[a]}
  <2>1. S \in SUBSET Account /\ Fault(S)
    BY <1>1
  <2> HIDE DEF S
  <2>2. lost' = lost \union S /\ lost' \subseteq Account /\ faults' \in 0 .. MaxFaults
    BY <2>1, FaultTypes
  <2> QED BY <2>2 DEF S
<1>3. cache'.merchant = 0 /\ cache'.buyer = 0 /\ MaxAccount \in Nat /\ made \in Nat
  BY <1>1, ClaimAssumption DEF NoWallet, ClaimTypes
<1>4. ClaimTypes'
  BY <1>1, <1>2, <1>3 DEF ClaimTypes, NoWallet
<1>5. CurDisposable'
  <2>1. \A a : Disposable(a) => Disposable(a)'
    BY <1>1, <1>3 DEF Disposable, Account
  <2> QED BY <1>1, <2>1 DEF CurDisposable, WithWallet
<1>6. Unmade' /\ CachedUntracked'
  BY <1>1, <1>3 DEF Unmade, CachedUntracked, Account
<1>7. CachedAlive' /\ Rooted' /\ Lined'
  BY <1>1, <1>2, <1>3 DEF CachedAlive, HasRoot, NoWallet, Rooted, Lined
<1>8. \A a \in Account : line[a] \/ balance[a] > 0 => a \in lost'
  BY <1>2 DEF Rooted
<1>9. DeletedUnlined' /\ FileLined' /\ MintingTracked' /\ NothingStranded'
  BY <1>1, <1>8
     DEF DeletedUnlined, FileLined, MintingTracked, NothingStranded, ClaimTypes
<1>10. MemKeeps' /\ NewWallet'
  BY <1>1 DEF MemKeeps, NewWallet
<1> QED BY <1>4, <1>5, <1>6, <1>7, <1>9, <1>10

\* A file that cannot be read: what it tracked is lost.
LEMMA TornWriteInv ==
    ASSUME StrandInv, TornWrite
    PROVE  StrandInv'
<1> USE DEF StrandInv
<1>1. /\ file' = Fresh(NoWallet) /\ Exit /\ Fault({a \in Account : Tracked(a)})
      /\ UNCHANGED <<asset, cache, exists, balance, line, minting, made, claims, calm>>
  BY DEF TornWrite, ledgerVars
<1>2. /\ lost' = lost \union {a \in Account : Tracked(a)}
      /\ lost' \subseteq Account /\ faults' \in 0 .. MaxFaults
  <2> DEFINE S == {a \in Account : Tracked(a)}
  <2>1. S \in SUBSET Account /\ Fault(S)
    BY <1>1
  <2> HIDE DEF S
  <2>2. lost' = lost \union S /\ lost' \subseteq Account /\ faults' \in 0 .. MaxFaults
    BY <2>1, FaultTypes
  <2> QED BY <2>2 DEF S
<1>3. NoWallet \in 0 .. MaxAccount
  BY ClaimAssumption DEF NoWallet
<1>4. /\ mem' \in ClaimState /\ \A a \in Account : mem'.wallets[a].status = "none"
      /\ file' \in ClaimState /\ \A a \in Account : file'.wallets[a].status = "none"
  BY <1>1, <1>3, FreshState DEF Exit
<1>5. ClaimTypes'
  BY <1>1, <1>2, <1>3, <1>4 DEF ClaimTypes, Exit, PC
<1>6. Unmade' /\ CachedUntracked'
  BY <1>1, <1>4 DEF Unmade, CachedUntracked
<1>7. CachedAlive' /\ Rooted' /\ Lined'
  BY <1>1, <1>2 DEF CachedAlive, HasRoot, Exit, Rooted, Lined
<1>8. MemKeeps' /\ CurDisposable' /\ NewWallet'
  BY <1>1 DEF MemKeeps, CurDisposable, NewWallet, Exit, WithWallet, Recovery
<1>9. DeletedUnlined' /\ FileLined'
  BY <1>4 DEF DeletedUnlined, FileLined
<1>10. MintingTracked' /\ NothingStranded'
  BY <1>1, <1>2 DEF MintingTracked, NothingStranded, ClaimTypes
<1> QED BY <1>5, <1>6, <1>7, <1>8, <1>9, <1>10

\* A payment arrives: the wallet has a line, so it is tracked.
LEMMA DeliverInv ==
    ASSUME StrandInv, NEW w \in Account, Deliver(w)
    PROVE  StrandInv'
<1> USE DEF StrandInv
<1>1. /\ w \in minting /\ minting' = minting \ {w}
      /\ UNCHANGED <<asset, cache, file, mem, pc, cur, todo, mode, recovered, exists, line,
                     made, claims, lost, faults, calm>>
  BY DEF Deliver, fileVars, runVars, worldVars
<1>2. /\ balance' \in [Account -> Nat]
      /\ \A a \in Account : balance'[a] > 0 => balance[a] > 0 \/ (a = w /\ line[w])
  BY DEF Deliver, ClaimTypes
<1>3. ClaimTypes'
  BY <1>1, <1>2 DEF ClaimTypes
<1>4. CurDisposable' /\ Unmade' /\ CachedUntracked' /\ CachedAlive'
  BY <1>1, DisposableKept DEF CurDisposable, Unmade, CachedUntracked, CachedAlive, HasRoot
<1>5. Rooted' /\ Lined' /\ DeletedUnlined'
  BY <1>1, <1>2 DEF Rooted, Lined, DeletedUnlined
<1>6. \A a : Tracked(a)' <=> Tracked(a)
  BY <1>1 DEF Tracked
<1>7. FileLined' /\ MintingTracked' /\ MemKeeps' /\ NewWallet'
  BY <1>1, <1>6 DEF FileLined, MintingTracked, MemKeeps, NewWallet
<1>8. NothingStranded'
  BY <1>1, <1>2, <1>6 DEF NothingStranded, MintingTracked
<1> QED BY <1>3, <1>4, <1>5, <1>7, <1>8

LEMMA ManualClaimInv ==
    ASSUME StrandInv, NEW w \in Account, ManualClaim(w)
    PROVE  StrandInv'
<1> USE DEF StrandInv
<1>1. /\ asset = "USDC" /\ file.wallets[w].status # "none" /\ claims < MaxClaims
      /\ claims' = claims + 1 /\ minting' = minting \union {w}
      /\ UNCHANGED <<asset, cache, file, mem, pc, cur, todo, mode, recovered, exists, balance,
                     line, made, lost, faults, calm>>
  BY DEF ManualClaim, fileVars, runVars
<1>2. ClaimTypes'
  BY <1>1, ClaimAssumption DEF ClaimTypes
<1>3. CurDisposable' /\ CachedUntracked' /\ CachedAlive'
  BY <1>1, DisposableKept DEF CurDisposable, CachedUntracked, CachedAlive, HasRoot
<1>4. Unmade'
  BY <1>1 DEF Unmade
<1>5. Rooted' /\ Lined' /\ DeletedUnlined'
  BY <1>1 DEF Rooted, Lined, DeletedUnlined
<1>6. \A a : Tracked(a)' <=> Tracked(a)
  BY <1>1 DEF Tracked
<1>7. FileLined' /\ MintingTracked' /\ MemKeeps' /\ NothingStranded'
  BY <1>1, <1>6 DEF FileLined, MintingTracked, MemKeeps, NothingStranded
<1>8. NewWallet'
  BY <1>1, <1>6 DEF NewWallet
<1> QED BY <1>2, <1>3, <1>4, <1>5, <1>7, <1>8

LEMMA CooldownOverInv ==
    ASSUME StrandInv, CooldownOver
    PROVE  StrandInv'
<1> USE DEF StrandInv
<1>1. /\ pc = "idle" /\ file' = [file EXCEPT !.cooling = FALSE]
      /\ UNCHANGED <<asset, cache, mem, pc, cur, todo, mode, recovered, exists, balance, line,
                     minting, made, claims, lost, faults, calm>>
  BY DEF CooldownOver, runVars, ledgerVars, worldVars
<1>2. file' \in ClaimState /\ file'.owner = file.owner /\ file'.wallets = file.wallets
  BY <1>1, CoolingSet DEF ClaimTypes
<1>3. ClaimTypes'
  BY <1>1, <1>2 DEF ClaimTypes
<1>4. CurDisposable' /\ Unmade' /\ CachedUntracked' /\ CachedAlive'
  BY <1>1, <1>2, DisposableKept DEF CurDisposable, Unmade, CachedUntracked, CachedAlive, HasRoot
<1>5. Rooted' /\ Lined' /\ DeletedUnlined' /\ MemKeeps' /\ NewWallet'
  BY <1>1 DEF Rooted, Lined, DeletedUnlined, MemKeeps, NewWallet
<1>6. \A a : Tracked(a)' <=> Tracked(a)
  BY <1>1, <1>2 DEF Tracked
<1>7. FileLined' /\ MintingTracked' /\ NothingStranded'
  BY <1>1, <1>2, <1>6 DEF FileLined, MintingTracked, NothingStranded
<1> QED BY <1>3, <1>4, <1>5, <1>7

\* After a reset there is nothing left to strand.
LEMMA TestnetResetInv ==
    ASSUME StrandInv, TestnetReset
    PROVE  StrandInv'
<1> USE DEF StrandInv
<1>1. /\ pc = "idle" /\ exists' = [a \in Account |-> FALSE] /\ line' = exists'
      /\ balance' = [a \in Account |-> 0] /\ minting' = {} /\ lost' = {}
      /\ UNCHANGED <<asset, cache, file, mem, pc, cur, todo, mode, recovered, made, claims, faults,
                     calm>>
  BY DEF TestnetReset, fileVars, runVars, worldVars
<1>2. \A a \in Account : ~ exists'[a] /\ ~ line'[a] /\ balance'[a] = 0
  BY <1>1
<1>3. ClaimTypes'
  BY <1>1 DEF ClaimTypes
<1>4. CurDisposable' /\ CachedUntracked' /\ MemKeeps' /\ NewWallet'
  BY <1>1, DisposableKept DEF CurDisposable, CachedUntracked, MemKeeps, NewWallet
<1>5. Unmade' /\ CachedAlive'
  <2>1. ~ HasRoot(cache.merchant)' /\ ~ HasRoot(cache.buyer)'
    BY <1>1, <1>2, ClaimAssumption DEF HasRoot, ClaimTypes, Account, NoWallet
  <2> QED BY <1>1, <1>2, <2>1 DEF Unmade, CachedAlive
<1>6. Rooted' /\ Lined' /\ DeletedUnlined' /\ FileLined' /\ MintingTracked' /\ NothingStranded'
  BY <1>1, <1>2 DEF Rooted, Lined, DeletedUnlined, FileLined, MintingTracked, NothingStranded
<1> QED BY <1>3, <1>4, <1>5, <1>6


\* What decides about stranded money holds at first, and each step keeps it.
THEOREM StrandInvariant == Spec => []StrandInv
<1>1. Init => StrandInv
  <2> SUFFICES ASSUME Init
               PROVE  StrandInv
    OBVIOUS
  <2>1. /\ file \in ClaimState /\ mem \in ClaimState
        /\ \A a \in Account : file.wallets[a].status = "none" /\ mem.wallets[a].status = "none"
    BY FreshState, ClaimAssumption DEF Init, NoWallet
  <2>2. ClaimTypes
    <3>1. /\ exists \in [Account -> BOOLEAN] /\ line \in [Account -> BOOLEAN]
          /\ balance \in [Account -> Nat] /\ recovered \in BOOLEAN /\ calm \in BOOLEAN
      BY DEF Init
    <3>2. /\ cache \in [merchant : 0 .. MaxAccount, buyer : 0 .. MaxAccount]
          /\ cur \in 0 .. MaxAccount /\ made \in 0 .. MaxAccount /\ claims \in 0 .. MaxClaims
          /\ lost \subseteq Account /\ faults \in 0 .. MaxFaults
      BY ClaimAssumption DEF Init, NoWallet
    <3> QED BY <2>1, <3>1, <3>2 DEF Init, ClaimTypes, PC
  <2>3. \A a \in Account : ~ exists[a] /\ ~ line[a] /\ balance[a] = 0
    BY DEF Init
  <2>4. CurDisposable /\ MemKeeps /\ NewWallet
    BY DEF Init, CurDisposable, MemKeeps, NewWallet, WithWallet
  <2>5. Unmade /\ CachedUntracked
    BY <2>1, <2>3 DEF Init, Unmade, CachedUntracked, NoWallet
  <2>6. CachedAlive
    BY <2>3 DEF Init, CachedAlive, HasRoot
  <2>7. /\ Rooted /\ Lined /\ DeletedUnlined /\ FileLined /\ NothingStranded
        /\ MintingTracked
    BY <2>3 DEF Init, Rooted, Lined, DeletedUnlined, FileLined, MintingTracked, NothingStranded
  <2> QED BY <2>2, <2>4, <2>5, <2>6, <2>7 DEF StrandInv
<1>2. StrandInv /\ [Next]_vars => StrandInv'
  <2> SUFFICES ASSUME StrandInv, [Next]_vars
               PROVE  StrandInv'
    OBVIOUS
  <2>1. CASE Advance
    BY <2>1, RefreshCacheInv, LoadInv, NextWalletInv, InspectInv, SweepInv, InspectLineInv,
       ResetTrustlineInv, InspectAgeInv, DeleteAccountInv, DecideInv, CreateWalletInv,
       TrackWalletInv, CreateTrustlineInv, MintInv, AwaitClaimInv, BridgeInv DEF Advance
  <2>2. CASE SweepUnseen \/ RunRaises \/ Killed \/ RootUnread \/ LinesUnread
    BY <2>2, SweepUnseenInv, EndsInv, RootUnreadInv, LinesUnreadInv
  <2>3. CASE \E a \in Account : Deliver(a) \/ ManualClaim(a)
    BY <2>3, DeliverInv, ManualClaimInv
  <2>4. CASE CooldownOver \/ TestnetReset \/ TornCache \/ TornWrite
    BY <2>4, CooldownOverInv, TestnetResetInv, TornCacheInv, TornWriteInv
  <2>5. CASE CalmDown \/ UNCHANGED vars
    <3>1. /\ calm' \in BOOLEAN /\ faults' \in 0 .. MaxFaults
          /\ UNCHANGED <<asset, cache, file, mem, pc, cur, todo, mode, recovered, exists, balance,
                         line, minting, made, claims, lost>>
      <4>1. /\ UNCHANGED <<asset, cache, file, mem, pc, cur, todo, mode, recovered, exists, balance,
                           line, minting, made, claims, lost>>
            /\ (calm' = TRUE /\ faults' = 0) \/ UNCHANGED <<calm, faults>>
        BY <2>5 DEF CalmDown, vars, fileVars, runVars, ledgerVars, worldVars
      <4>2. calm \in BOOLEAN /\ faults \in 0 .. MaxFaults /\ 0 \in 0 .. MaxFaults
        BY ClaimAssumption DEF StrandInv, ClaimTypes
      <4>3. calm' \in BOOLEAN
        BY <4>1, <4>2, Zenon
      <4>4. faults' \in 0 .. MaxFaults
        BY <4>1, <4>2
      <4> QED BY <4>1, <4>3, <4>4
    <3>2. ClaimTypes'
      BY <3>1 DEF StrandInv, ClaimTypes
    <3>3. CurDisposable' /\ Unmade' /\ CachedUntracked' /\ CachedAlive'
      BY <3>1, DisposableKept
         DEF StrandInv, CurDisposable, Unmade, CachedUntracked, CachedAlive, HasRoot
    <3>4. \A a : Tracked(a)' <=> Tracked(a)
      BY <3>1 DEF Tracked
    <3>5. Rooted' /\ Lined' /\ DeletedUnlined' /\ FileLined' /\ MintingTracked'
      BY <3>1, <3>4 DEF StrandInv, Rooted, Lined, DeletedUnlined, FileLined, MintingTracked
    <3>6. MemKeeps' /\ NewWallet' /\ NothingStranded'
      BY <3>1, <3>4 DEF StrandInv, MemKeeps, NewWallet, NothingStranded
    <3> QED BY <3>2, <3>3, <3>5, <3>6 DEF StrandInv
  <2> QED BY <2>1, <2>2, <2>3, <2>4, <2>5 DEF Next, Run
<1> QED BY <1>1, <1>2, PTL DEF Spec

\* Money is never in a wallet whose seed is gone or which no later run looks at
\* again, except for what an error answer or a torn write made the program
\* forget: claim_rlusd_topup and prepare_usdc_topup with any number of wallets,
\* kills, failures, faults and resets, and a faucet that pays as late as it likes.
THEOREM NothingStrandedTheorem == Spec => []NothingStranded
BY StrandInvariant, PTL DEF StrandInv

(***************************************************************************)
(* One manual claim at a time                                              *)
(***************************************************************************)

\* A step after which no other wallet waits.
LEMMA FewerWait ==
    ASSUME AwaitInv, asset' = asset, file' = file \/ file' = mem',
           \A a \in Account : Waits(mem', a) => Waits(mem, a),
           pc' \in {"create", "track", "claimLine"} /\ asset = "USDC" =>
               pc \in {"create", "track", "claimLine"} \/ \A a \in Account : ~ Waits(mem, a)
    PROVE  AwaitInv'
<1>1. OneWaits(mem')
  BY DEF AwaitInv, OneWaits
<1>2. OneWaits(file')
  BY <1>1 DEF AwaitInv
<1> QED BY <1>1, <1>2 DEF AwaitInv

\* A status that makes no wallet wait.
LEMMA StatusWaits ==
    ASSUME StrandInv, pc \in WithWallet, NEW s \in Status \union {"none"}, SetStatus(s),
           s # "awaiting_manual_funding" \/ s = mem.wallets[cur].status
    PROVE  \A a \in Account : Waits(mem', a) => Waits(mem, a)
<1>1. cur \in Account /\ mem \in ClaimState
  BY DEF StrandInv, CurDisposable, Disposable, ClaimTypes
<1>2. /\ mem'.wallets[cur].status = s
      /\ \A a \in Account \ {cur} : mem'.wallets[a] = mem.wallets[a]
  BY <1>1, StatusSet DEF SetStatus
<1> QED BY <1>1, <1>2 DEF Waits

\* A run that ends forgets its copy; one that raises may go on.
LEMMA ExitWaits ==
    ASSUME Exit
    PROVE  pc' = "idle" /\ \A a \in Account : ~ Waits(mem', a)
<1>1. NoWallet \in 0 .. MaxAccount
  BY ClaimAssumption DEF NoWallet
<1> QED BY <1>1, FreshState DEF Exit, Waits

LEMMA RaiseWaits ==
    ASSUME StrandInv, Raise
    PROVE  pc' \in {"idle", "inspect"} /\ \A a \in Account : Waits(mem', a) => Waits(mem, a)
<1> DEFINE again == mode = "claimed" \/ (asset = "RLUSD" /\ pc \in {"claimLine", "mint", "await"})
<1>1. CASE ~ again
  BY <1>1, ExitWaits DEF Raise
<1>2. CASE again
  <2>1. SetStatus("claim_failed") /\ pc' = "inspect"
    BY <1>2 DEF Raise
  <2>2. pc \in WithWallet
    BY <1>2 DEF StrandInv, CurDisposable, WithWallet, Recovery
  <2> QED BY <2>1, <2>2, StatusWaits DEF Status
<1> QED BY <1>1, <1>2


\* The steps of the recovery.
LEMMA RecoveryWaits ==
    ASSUME StrandInv, AwaitInv,
           \/ Inspect \/ Sweep \/ InspectLine \/ ResetTrustline \/ InspectAge \/ DeleteAccount
           \/ RootUnread \/ LinesUnread
    PROVE  AwaitInv'
<1>1. pc \in WithWallet /\ asset' = asset
  BY DEF Inspect, Sweep, InspectLine, ResetTrustline, InspectAge, DeleteAccount,
     RootUnread, LinesUnread, WithWallet
<1>2. cur \in Account /\ mem \in ClaimState
  BY <1>1 DEF StrandInv, CurDisposable, Disposable, ClaimTypes
<1>3. pc' \notin {"create", "track", "claimLine"}
  BY DEF Inspect, Sweep, InspectLine, ResetTrustline, InspectAge, DeleteAccount,
     RootUnread, LinesUnread, Goto, Recovered
<1>4. file' = file \/ file' = mem'
  BY DEF Inspect, Sweep, InspectLine, ResetTrustline, InspectAge, DeleteAccount,
     RootUnread, LinesUnread, Recovered,
     fileVars
<1>5. \/ mem' = mem
      \/ SetStatus(TooYoung)
      \/ SetStatus("deleted") \/ SetStatus("swept") \/ SetStatus("delete_failed")
  BY DEF Inspect, Sweep, InspectLine, ResetTrustline, InspectAge, DeleteAccount,
     RootUnread, LinesUnread
<1>6. TooYoung \in Status \union {"none"}
      /\ (TooYoung = "swept" \/ TooYoung = mem.wallets[cur].status)
  BY <1>2, EntryType DEF TooYoung, Status
<1>7. \A a \in Account : Waits(mem', a) => Waits(mem, a)
  <2>1. CASE mem' = mem
    BY <2>1
  <2>2. CASE SetStatus(TooYoung)
    BY <1>1, <1>6, <2>2, StatusWaits
  <2>3. CASE SetStatus("deleted") \/ SetStatus("swept") \/ SetStatus("delete_failed")
    BY <1>1, <2>3, StatusWaits DEF Status
  <2> QED BY <1>5, <2>1, <2>2, <2>3
<1> QED BY <1>1, <1>3, <1>4, <1>7, FewerWait

\* The steps of the claim; TrackWallet makes the one wallet wait.
LEMMA ClaimWaits ==
    ASSUME StrandInv, AwaitInv,
           DecideRlusd \/ DecideUsdc \/ CreateWallet \/ TrackWallet \/ CreateTrustline \/ Mint
           \/ AwaitClaim
    PROVE  AwaitInv'
<1>0. asset' = asset /\ mem \in ClaimState /\ asset \in {"RLUSD", "USDC"}
  BY DEF DecideRlusd, DecideUsdc, CreateWallet, TrackWallet, CreateTrustline, Mint, AwaitClaim,
     StrandInv, ClaimTypes
<1>1. CASE DecideRlusd
  BY <1>0, <1>1, FewerWait DEF DecideRlusd
<1>2. CASE DecideUsdc
  <2>1. mem'.wallets = mem.wallets
    <3>1. (mem.cooling \/ recovered) \in BOOLEAN
      OBVIOUS
    <3> QED BY <1>0, <1>2, <3>1, CoolingSet DEF DecideUsdc
  <2>2. \A a \in Account : Waits(mem', a) => Waits(mem, a)
    BY <2>1 DEF Waits
  <2>3. pc' = "bridge" \/ (\A a \in Account : ~ Waits(mem, a))
    BY <1>2 DEF DecideUsdc, Awaited, Waits
  <2> QED BY <1>0, <1>2, <2>2, <2>3, FewerWait DEF DecideUsdc
<1>3. CASE CreateWallet
  BY <1>0, <1>3, FewerWait DEF CreateWallet, fileVars
<1>4. CASE TrackWallet
  <2> DEFINE s == IF asset = "RLUSD" THEN "created" ELSE "awaiting_manual_funding"
  <2>1. /\ pc = "track" /\ SetStatus(s) /\ file' = mem'
        /\ pc' = (IF asset = "RLUSD" THEN "claimLine" ELSE "bridge")
    BY <1>4 DEF TrackWallet, WriteSeed, Goto
  <2>2. pc \in WithWallet /\ cur \in Account /\ s \in Status
    BY <2>1 DEF WithWallet, StrandInv, CurDisposable, Disposable, Status
  <2>3. CASE asset = "RLUSD"
    <3>1. \A a \in Account : Waits(mem', a) => Waits(mem, a)
      BY <2>1, <2>2, <2>3, StatusWaits
    <3> QED BY <1>0, <2>1, <2>3, <3>1, FewerWait
  <2>4. CASE asset = "USDC"
    <3>1. \A a \in Account : ~ Waits(mem, a)
      BY <2>1, <2>4 DEF AwaitInv
    <3>2. \A a \in Account \ {cur} : mem'.wallets[a] = mem.wallets[a]
      BY <1>0, <2>1, <2>2, StatusSet DEF SetStatus
    <3>3. OneWaits(mem')
      BY <3>1, <3>2 DEF OneWaits, Waits
    <3> QED BY <2>1, <2>4, <3>3 DEF AwaitInv
  <2> QED BY <1>0, <2>3, <2>4
<1>5. CASE CreateTrustline
  BY <1>0, <1>5, FewerWait DEF CreateTrustline, Goto, fileVars
<1>6. CASE Mint
  <2>1. pc = "mint" /\ cur \in Account
    BY <1>6 DEF Mint, StrandInv, CurDisposable, Disposable, WithWallet
  <2>2. CASE mem' = [mem EXCEPT !.wallets[cur] = [status |-> "claimed", hash |-> TRUE]]
             /\ file' = mem' /\ Goto("await")
    <3> DEFINE e == [status |-> "claimed", hash |-> TRUE]
    <3>1. e \in Entry /\ e.status = "claimed" /\ mem' = [mem EXCEPT !.wallets[cur] = e]
      BY <2>2 DEF Entry, Status
    <3> HIDE DEF e
    <3>2. /\ mem'.wallets[cur] = e
          /\ \A a \in Account \ {cur} : mem'.wallets[a] = mem.wallets[a]
      BY <1>0, <2>1, <3>1, EntrySet
    <3>3. \A a \in Account : Waits(mem', a) => Waits(mem, a)
      BY <3>1, <3>2 DEF Waits
    <3> QED BY <1>0, <2>2, <3>3, FewerWait DEF Goto
  <2>3. CASE Raise /\ UNCHANGED file
    BY <1>0, <2>3, RaiseWaits, FewerWait
  <2> QED BY <1>6, <2>2, <2>3 DEF Mint
<1>7. CASE AwaitClaim
  <2>1. mem'.wallets = mem.wallets
    BY <1>0, <1>7, CoolingSet DEF AwaitClaim
  <2>2. \A a \in Account : Waits(mem', a) => Waits(mem, a)
    BY <2>1 DEF Waits
  <2> QED BY <1>0, <1>7, <2>2, FewerWait DEF AwaitClaim
<1> QED BY <1>1, <1>2, <1>3, <1>4, <1>5, <1>6, <1>7

\* At most one wallet waits, in the file and in the run's copy.
THEOREM AwaitInvariant == Spec => []AwaitInv
<1>1. Init => AwaitInv
  <2> SUFFICES ASSUME Init
               PROVE  AwaitInv
    OBVIOUS
  <2>1. \A a \in Account : ~ Waits(file, a) /\ ~ Waits(mem, a)
    BY FreshState, ClaimAssumption DEF Init, NoWallet, Waits
  <2> QED BY <2>1 DEF AwaitInv, OneWaits
<1>2. StrandInv /\ AwaitInv /\ [Next]_vars => AwaitInv'
  <2> SUFFICES ASSUME StrandInv, AwaitInv, [Next]_vars
               PROVE  AwaitInv'
    OBVIOUS
  <2>1. CASE RefreshCache \/ NextWallet
    BY <2>1, FewerWait DEF RefreshCache, NextWallet, Goto, fileVars
  <2>2. CASE Load
    <3>1. /\ pc' = "next" /\ file' = file
          /\ mem' = IF file.owner = cache.merchant THEN file ELSE Fresh(cache.merchant)
      BY <2>2 DEF Load, fileVars
    <3>2. cache.merchant \in 0 .. MaxAccount
      BY DEF StrandInv, ClaimTypes
    <3>3. \A a \in Account : Waits(mem', a) => Waits(file, a)
      BY <3>1, <3>2, FreshState DEF Waits
    <3>4. OneWaits(mem') /\ OneWaits(file')
      BY <3>1, <3>3 DEF AwaitInv, OneWaits
    <3> QED BY <3>1, <3>4 DEF AwaitInv
  <2>3. CASE \/ Inspect \/ Sweep \/ InspectLine \/ ResetTrustline \/ InspectAge \/ DeleteAccount
             \/ RootUnread \/ LinesUnread
    BY <2>3, RecoveryWaits
  <2>4. CASE DecideRlusd \/ DecideUsdc \/ CreateWallet \/ TrackWallet \/ CreateTrustline \/ Mint
             \/ AwaitClaim
    BY <2>4, ClaimWaits
  <2>5. CASE Bridge \/ Killed
    <3>1. Exit /\ asset' = asset /\ file' = file
      BY <2>5 DEF Bridge, Killed, fileVars
    <3> QED BY <3>1, ExitWaits, FewerWait
  <2>6. CASE SweepUnseen \/ RunRaises
    <3>1. Raise /\ asset' = asset /\ file' = file
      BY <2>6 DEF SweepUnseen, RunRaises, fileVars
    <3> QED BY <3>1, RaiseWaits, FewerWait
  <2>7. CASE CooldownOver
    <3>1. pc = "idle" /\ UNCHANGED <<mem, pc, asset>>
      BY <2>7 DEF CooldownOver, runVars
    <3>2. file'.wallets = file.wallets
      BY <2>7, CoolingSet DEF CooldownOver, StrandInv, ClaimTypes
    <3>3. OneWaits(file') /\ OneWaits(mem')
      BY <3>1, <3>2 DEF AwaitInv, OneWaits, Waits
    <3> QED BY <3>1, <3>3 DEF AwaitInv
  <2>8. CASE (\E a \in Account : Deliver(a) \/ ManualClaim(a)) \/ TestnetReset \/ CalmDown
             \/ TornCache \/ UNCHANGED vars
    <3>1. UNCHANGED <<asset, file, mem, pc>>
      BY <2>8 DEF Deliver, ManualClaim, TestnetReset, CalmDown, TornCache, vars, fileVars, runVars
    <3> QED BY <3>1, FewerWait
  <2>9. CASE TornWrite
    <3>1. file' = Fresh(NoWallet) /\ Exit
      BY <2>9 DEF TornWrite
    <3>2. pc' = "idle" /\ \A a \in Account : ~ Waits(file', a) /\ ~ Waits(mem', a)
      BY <3>1, ExitWaits, FreshState, ClaimAssumption DEF NoWallet, Waits
    <3> QED BY <3>2 DEF AwaitInv, OneWaits
  <2> QED BY <2>1, <2>2, <2>3, <2>4, <2>5, <2>6, <2>7, <2>8, <2>9 DEF Next, Run, Advance
<1> QED BY <1>1, <1>2, StrandInvariant, PTL DEF Spec

\* The operator is asked for one manual claim at a time: prepare_usdc_topup
\* prints a new address only when no tracked wallet waits for money.
THEOREM OneAwaitedTheorem == Spec => []OneAwaited
<1>1. AwaitInv => OneAwaited
  <2> SUFFICES ASSUME AwaitInv
               PROVE  OneAwaited
    OBVIOUS
  <2> DEFINE W == {a \in Account : file.wallets[a].status = "awaiting_manual_funding"}
  <2>1. \A a, b \in W : a = b
    BY DEF AwaitInv, OneWaits, Waits
  <2>2. CASE W = {}
    BY <2>2, FS_EmptySet DEF OneAwaited
  <2>3. CASE W # {}
    <3>1. PICK w \in W : TRUE
      BY <2>3
    <3>2. W = {w}
      BY <2>1, <3>1
    <3>3. Cardinality(W) = 1
      BY <3>2, FS_Singleton
    <3> QED BY <3>3 DEF OneAwaited
  <2> QED BY <2>2, <2>3
<1> QED BY <1>1, AwaitInvariant, PTL



(***************************************************************************)
(* The money is the faucet's                                               *)
(***************************************************************************)

\* p[k] is the money in the first k wallets.
PartialSums(b, p) ==
    /\ p \in [0 .. MaxAccount -> Nat] /\ p[0] = 0
    /\ \A a \in Account : p[a] = p[a - 1] + b[a]
    /\ \A m, n \in 0 .. MaxAccount : m <= n => p[m] <= p[n]

\* What all the wallets hold, and what is on its way, was claimed.
Conserved ==
    \E p \in [0 .. MaxAccount -> Nat] :
        PartialSums(balance, p) /\ p[MaxAccount] + Cardinality(minting) <= claims

\* Merchant and buyer are two wallets, so that a bridged payment moves money.
CachedDistinct == cache.merchant = cache.buyer => cache.merchant = NoWallet

\* Money put into a wallet is in every sum that reaches the wallet.
LEMMA Deposited ==
    ASSUME NEW b \in [Account -> Nat], NEW p, PartialSums(b, p), NEW t \in Account,
           NEW c \in [Account -> Nat], c[t] >= b[t], \A a \in Account \ {t} : c[a] = b[a]
    PROVE  \E q \in [0 .. MaxAccount -> Nat] :
               PartialSums(c, q) /\ q[MaxAccount] = p[MaxAccount] + (c[t] - b[t])
<1> DEFINE n == c[t] - b[t]
<1>1. n \in Nat /\ c[t] = b[t] + n
  OBVIOUS
<1> HIDE DEF n
<1> DEFINE q == [k \in 0 .. MaxAccount |-> IF t <= k THEN p[k] + n ELSE p[k]]
<1>2. /\ p \in [0 .. MaxAccount -> Nat] /\ p[0] = 0 /\ MaxAccount \in Nat /\ t \in 1 .. MaxAccount
      /\ \A a \in Account : p[a] = p[a - 1] + b[a]
      /\ \A i, j \in 0 .. MaxAccount : i <= j => p[i] <= p[j]
  BY ClaimAssumption DEF PartialSums, Account
<1>3. q \in [0 .. MaxAccount -> Nat] /\ q[0] = 0 /\ q[MaxAccount] = p[MaxAccount] + n
  BY <1>1, <1>2
<1>4. \A a \in Account : q[a] = q[a - 1] + c[a]
  <2> SUFFICES ASSUME NEW a \in Account
               PROVE  q[a] = q[a - 1] + c[a]
    OBVIOUS
  <2>1. /\ a \in 0 .. MaxAccount /\ a - 1 \in 0 .. MaxAccount /\ a \in Nat /\ t \in Nat
        /\ p[a] \in Nat /\ p[a - 1] \in Nat /\ b[a] \in Nat
    BY <1>2 DEF Account
  <2>2. /\ q[a] = IF t <= a THEN p[a] + n ELSE p[a]
        /\ q[a - 1] = IF t <= a - 1 THEN p[a - 1] + n ELSE p[a - 1]
        /\ c[a] = IF a = t THEN b[a] + n ELSE b[a]
    BY <1>1, <2>1
  <2>3. p[a] = p[a - 1] + b[a]
    BY <1>2
  <2> HIDE DEF q
  <2> QED BY <1>1, <2>1, <2>2, <2>3
<1>5. \A i, j \in 0 .. MaxAccount : i <= j => q[i] <= q[j]
  <2> SUFFICES ASSUME NEW i \in 0 .. MaxAccount, NEW j \in 0 .. MaxAccount, i <= j
               PROVE  q[i] <= q[j]
    OBVIOUS
  <2>1. p[i] <= p[j] /\ p[i] \in Nat /\ p[j] \in Nat /\ i \in Nat /\ j \in Nat /\ t \in Nat
    BY <1>2
  <2> QED BY <1>1, <2>1
<1>6. PartialSums(c, q)
  BY <1>3, <1>4, <1>5 DEF PartialSums
<1> QED BY <1>3, <1>6 DEF n

\* A wallet that is emptied takes its money out of every sum that reaches it.
LEMMA Withdrawn ==
    ASSUME NEW b \in [Account -> Nat], NEW p, PartialSums(b, p), NEW f \in Account,
           NEW c, c[f] = 0, \A a \in Account \ {f} : c[a] = b[a]
    PROVE  \E q \in [0 .. MaxAccount -> Nat] :
               PartialSums(c, q) /\ q[MaxAccount] + b[f] = p[MaxAccount]
<1> DEFINE q == [k \in 0 .. MaxAccount |-> IF f <= k THEN p[k] - b[f] ELSE p[k]]
<1>1. /\ p \in [0 .. MaxAccount -> Nat] /\ p[0] = 0 /\ MaxAccount \in Nat /\ f \in 1 .. MaxAccount
      /\ \A a \in Account : p[a] = p[a - 1] + b[a]
      /\ \A i, j \in 0 .. MaxAccount : i <= j => p[i] <= p[j]
  BY ClaimAssumption DEF PartialSums, Account
<1>2. /\ f \in 0 .. MaxAccount /\ f - 1 \in 0 .. MaxAccount /\ f \in Nat /\ b[f] \in Nat
      /\ p[f - 1] \in Nat /\ p[f] \in Nat /\ p[f] = p[f - 1] + b[f]
  BY <1>1 DEF Account
<1>3. \A k \in 0 .. MaxAccount : p[k] \in Nat /\ (f <= k => p[f] <= p[k])
  BY <1>1, <1>2
<1>4. \A k \in 0 .. MaxAccount : f <= k => p[k] - b[f] \in Nat
  BY <1>2, <1>3
<1>5. q \in [0 .. MaxAccount -> Nat] /\ q[0] = 0
  BY <1>1, <1>2, <1>3, <1>4
<1>6. q[MaxAccount] + b[f] = p[MaxAccount]
  <2>1. MaxAccount \in 0 .. MaxAccount /\ f <= MaxAccount /\ p[MaxAccount] \in Nat
    BY <1>1
  <2> QED BY <1>2, <2>1
<1>7. \A a \in Account : q[a] = q[a - 1] + c[a]
  <2> SUFFICES ASSUME NEW a \in Account
               PROVE  q[a] = q[a - 1] + c[a]
    OBVIOUS
  <2>1. /\ a \in 0 .. MaxAccount /\ a - 1 \in 0 .. MaxAccount /\ a \in Nat
        /\ p[a] \in Nat /\ p[a - 1] \in Nat /\ b[a] \in Nat
    BY <1>1 DEF Account
  <2>2. /\ q[a] = IF f <= a THEN p[a] - b[f] ELSE p[a]
        /\ q[a - 1] = IF f <= a - 1 THEN p[a - 1] - b[f] ELSE p[a - 1]
        /\ c[a] = IF a = f THEN 0 ELSE b[a]
    BY <2>1
  <2>3. p[a] = p[a - 1] + b[a]
    BY <1>1
  <2> HIDE DEF q
  <2> QED BY <1>2, <2>1, <2>2, <2>3
<1>8. \A i, j \in 0 .. MaxAccount : i <= j => q[i] <= q[j]
  <2> SUFFICES ASSUME NEW i \in 0 .. MaxAccount, NEW j \in 0 .. MaxAccount, i <= j
               PROVE  q[i] <= q[j]
    OBVIOUS
  <2>1. /\ p[i] <= p[j] /\ p[i] \in Nat /\ p[j] \in Nat /\ i \in Nat /\ j \in Nat
        /\ (f <= j => p[f] <= p[j])
    BY <1>1, <1>3
  <2>2. ~ (f <= i) => p[i] <= p[f - 1]
    <3>1. ~ (f <= i) => i <= f - 1
      BY <1>2, <2>1
    <3> QED BY <1>1, <1>2, <3>1
  <2>3. /\ q[i] = IF f <= i THEN p[i] - b[f] ELSE p[i]
        /\ q[j] = IF f <= j THEN p[j] - b[f] ELSE p[j]
    OBVIOUS
  <2> HIDE DEF q
  <2> QED BY <1>2, <2>1, <2>2, <2>3
<1>9. PartialSums(c, q)
  BY <1>5, <1>7, <1>8 DEF PartialSums
<1> QED BY <1>5, <1>6, <1>9

\* A payment of all that a wallet holds changes no total.
LEMMA MovedSums ==
    ASSUME StrandInv, Conserved, NEW f \in Account, NEW t \in Account, f # t,
           Move(f, t, balance[f]), UNCHANGED <<minting, claims>>
    PROVE  Conserved'
<1>1. PICK p \in [0 .. MaxAccount -> Nat] :
          PartialSums(balance, p) /\ p[MaxAccount] + Cardinality(minting) <= claims
  BY DEF Conserved
<1> DEFINE c == [a \in Account |-> IF a = f THEN 0 ELSE balance[a]]
<1>2. /\ balance \in [Account -> Nat] /\ balance[f] \in Nat /\ balance[t] \in Nat
      /\ MaxAccount \in 0 .. MaxAccount
  BY ClaimAssumption DEF StrandInv, ClaimTypes
<1>3. c \in [Account -> Nat] /\ c[f] = 0 /\ \A a \in Account \ {f} : c[a] = balance[a]
  BY <1>2
<1>4. /\ balance' \in [Account -> Nat] /\ balance'[t] = c[t] + balance[f] /\ c[t] \in Nat
      /\ balance'[t] >= c[t] /\ balance'[t] - c[t] = balance[f]
      /\ \A a \in Account \ {t} : balance'[a] = c[a]
  BY <1>2 DEF Move
<1> HIDE DEF c
<1>5. PICK q \in [0 .. MaxAccount -> Nat] :
          PartialSums(c, q) /\ q[MaxAccount] + balance[f] = p[MaxAccount]
  BY <1>1, <1>2, <1>3, Withdrawn
<1>6. PICK r \in [0 .. MaxAccount -> Nat] :
          PartialSums(balance', r) /\ r[MaxAccount] = q[MaxAccount] + balance[f]
  <2>1. /\ c \in [Account -> Nat] /\ balance' \in [Account -> Nat] /\ balance'[t] >= c[t]
        /\ PartialSums(c, q) /\ \A a \in Account \ {t} : balance'[a] = c[a]
    BY <1>3, <1>4, <1>5
  <2>2. \E r \in [0 .. MaxAccount -> Nat] :
            PartialSums(balance', r) /\ r[MaxAccount] = q[MaxAccount] + (balance'[t] - c[t])
    BY ONLY <2>1, t \in Account, Deposited, Zenon
  <2> QED BY <1>4, <2>2
<1>7. r[MaxAccount] = p[MaxAccount]
  BY <1>2, <1>6, <1>5
<1>8. r[MaxAccount] + Cardinality(minting') <= claims'
  BY <1>1, <1>7
<1> QED BY <1>6, <1>7, <1>8 DEF Conserved

\* The faucet payments under way are finitely many.
LEMMA MintingFinite ==
    ASSUME minting \subseteq Account
    PROVE  IsFiniteSet(minting) /\ Cardinality(minting) \in Nat
<1>1. IsFiniteSet(Account)
  BY FS_Interval, ClaimAssumption DEF Account
<1>2. IsFiniteSet(minting)
  BY <1>1, FS_Subset
<1> QED BY <1>2, FS_CardinalityType

\* A claim puts one payment more on its way.
LEMMA ClaimedSums ==
    ASSUME StrandInv, Conserved, NEW w \in Account,
           minting' = minting \union {w}, claims' = claims + 1, UNCHANGED balance
    PROVE  Conserved'
<1>1. PICK p \in [0 .. MaxAccount -> Nat] :
          PartialSums(balance, p) /\ p[MaxAccount] + Cardinality(minting) <= claims
  BY DEF Conserved
<1>2. IsFiniteSet(minting) /\ Cardinality(minting) \in Nat /\ claims \in Nat
  BY MintingFinite DEF StrandInv, ClaimTypes
<1>3. /\ Cardinality(minting \union {w}) \in Nat
      /\ Cardinality(minting \union {w}) <= Cardinality(minting) + 1
  <2>1. Cardinality(minting \union {w}) =
            IF w \in minting THEN Cardinality(minting) ELSE Cardinality(minting) + 1
    BY <1>2, FS_AddElement, Zenon
  <2> QED BY <1>2, <2>1
<1>4. p[MaxAccount] \in Nat
  BY <1>1, ClaimAssumption
<1>5. p[MaxAccount] + Cardinality(minting') <= claims'
  BY <1>1, <1>2, <1>3, <1>4
<1> QED BY <1>1, <1>5 DEF Conserved

\* A payment that arrives is on its way no longer.
LEMMA DeliveredSums ==
    ASSUME StrandInv, Conserved, NEW w \in Account, Deliver(w)
    PROVE  Conserved'
<1>1. PICK p \in [0 .. MaxAccount -> Nat] :
          PartialSums(balance, p) /\ p[MaxAccount] + Cardinality(minting) <= claims
  BY DEF Conserved
<1>2. /\ IsFiniteSet(minting) /\ Cardinality(minting) \in Nat /\ claims \in Nat
      /\ balance \in [Account -> Nat] /\ claims' = claims
  BY MintingFinite DEF StrandInv, ClaimTypes, Deliver, worldVars
<1>3. w \in minting /\ minting' = minting \ {w}
  BY DEF Deliver
<1>4. Cardinality(minting') = Cardinality(minting) - 1 /\ p[MaxAccount] \in Nat
  <2>1. Cardinality(minting \ {w}) =
            IF w \in minting THEN Cardinality(minting) - 1 ELSE Cardinality(minting)
    BY <1>2, FS_RemoveElement, Zenon
  <2> QED BY <1>1, <1>3, <2>1, ClaimAssumption
<1>5. CASE line[w]
  <2>1. balance' = [balance EXCEPT ![w] = @ + 1]
    BY <1>5 DEF Deliver
  <2>2. PICK q \in [0 .. MaxAccount -> Nat] :
            PartialSums(balance', q) /\ q[MaxAccount] = p[MaxAccount] + 1
    <3>1. /\ balance' \in [Account -> Nat] /\ balance'[w] >= balance[w] /\ balance'[w] - balance[w] = 1
          /\ \A a \in Account \ {w} : balance'[a] = balance[a]
      BY <1>2, <2>1
    <3>2. \E q \in [0 .. MaxAccount -> Nat] :
              PartialSums(balance', q) /\ q[MaxAccount] = p[MaxAccount] + (balance'[w] - balance[w])
      BY <1>1, <1>2, <3>1, Deposited, Zenon
    <3> QED BY <3>1, <3>2
  <2>3. q[MaxAccount] + Cardinality(minting') <= claims'
    BY <1>1, <1>2, <1>4, <2>2
  <2> QED BY <2>1, <2>2, <2>3 DEF Conserved
<1>6. CASE ~ line[w]
  <2>1. balance' = balance
    BY <1>6 DEF Deliver
  <2>2. p[MaxAccount] + Cardinality(minting') <= claims'
    BY <1>1, <1>2, <1>4
  <2> QED BY <1>1, <2>1, <2>2 DEF Conserved
<1> QED BY <1>5, <1>6

\* No money, no sums.
LEMMA NoSums ==
    ASSUME NEW b, b = [a \in Account |-> 0]
    PROVE  \E p \in [0 .. MaxAccount -> Nat] : PartialSums(b, p) /\ p[MaxAccount] = 0
<1> DEFINE p == [k \in 0 .. MaxAccount |-> 0]
<1>1. p \in [0 .. MaxAccount -> Nat] /\ p[0] = 0 /\ p[MaxAccount] = 0
  BY ClaimAssumption
<1>2. \A a \in Account : p[a] = p[a - 1] + b[a]
  BY ClaimAssumption DEF Account
<1>3. \A m, n \in 0 .. MaxAccount : m <= n => p[m] <= p[n]
  OBVIOUS
<1>4. PartialSums(b, p)
  BY <1>1, <1>2, <1>3 DEF PartialSums
<1> QED BY <1>1, <1>4

\* Two new wallets are two.
LEMMA DistinctKept ==
    ASSUME StrandInv, CachedDistinct, [Next]_vars
    PROVE  CachedDistinct'
<1>1. CASE UNCHANGED cache
  BY <1>1 DEF CachedDistinct
<1>2. CASE RefreshCache
  BY <1>2, RefreshEffect DEF CachedDistinct
<1>3. CASE \/ Load \/ NextWallet \/ Inspect \/ Sweep \/ InspectLine \/ ResetTrustline \/ InspectAge
           \/ DeleteAccount \/ DecideRlusd \/ DecideUsdc
  BY <1>1, <1>3 DEF Load, NextWallet, Inspect, Sweep, InspectLine, ResetTrustline, InspectAge,
                    DeleteAccount, DecideRlusd, DecideUsdc, fileVars
<1>4. CASE CreateWallet \/ TrackWallet \/ CreateTrustline \/ Mint \/ AwaitClaim \/ Bridge
  BY <1>1, <1>4 DEF CreateWallet, TrackWallet, CreateTrustline, Mint, AwaitClaim, Bridge, fileVars
<1>5. CASE \/ SweepUnseen \/ RunRaises \/ Killed \/ CooldownOver \/ TestnetReset \/ CalmDown
           \/ RootUnread \/ LinesUnread \/ TornWrite \/ (\E a \in Account : Deliver(a) \/ ManualClaim(a)) \/ UNCHANGED vars
  BY <1>1, <1>5 DEF SweepUnseen, RunRaises, Killed, CooldownOver, TestnetReset, CalmDown,
                    RootUnread, LinesUnread, TornWrite, Deliver, ManualClaim, vars, fileVars
<1>6. CASE TornCache
  BY <1>6 DEF TornCache, CachedDistinct
<1> QED BY <1>2, <1>3, <1>4, <1>5, <1>6 DEF Next, Run, Advance

\* Sweeps, bridges, failures and resets create no money: what the wallets hold
\* and the faucet is paying out never exceeds what was claimed.
THEOREM ConservedInvariant == Spec => [](Conserved /\ CachedDistinct)
<1>1. Init => Conserved /\ CachedDistinct
  <2> SUFFICES ASSUME Init
               PROVE  Conserved /\ CachedDistinct
    OBVIOUS
  <2>1. PICK p \in [0 .. MaxAccount -> Nat] : PartialSums(balance, p) /\ p[MaxAccount] = 0
    BY NoSums DEF Init
  <2>2. Cardinality(minting) = 0 /\ claims = 0
    BY FS_EmptySet DEF Init
  <2>3. p[MaxAccount] + Cardinality(minting) <= claims
    BY <2>1, <2>2
  <2> QED BY <2>1, <2>3 DEF Conserved, CachedDistinct, Init
<1>2. StrandInv /\ Conserved /\ CachedDistinct /\ [Next]_vars => Conserved'
  <2> SUFFICES ASSUME StrandInv, Conserved, CachedDistinct, [Next]_vars
               PROVE  Conserved'
    OBVIOUS
  <2>1. CASE UNCHANGED <<balance, minting, claims>>
    BY <2>1 DEF Conserved
  <2>2. CASE Sweep \/ SweepUnseen
    <3>1. /\ Move(cur, cache.merchant, balance[cur]) /\ pc = "sweep"
          /\ UNCHANGED <<minting, claims>>
      BY <2>2 DEF Sweep, SweepUnseen, worldVars
    <3>2. cur \in Account /\ cache.merchant \in Account /\ cur # cache.merchant
      BY <3>1, CachedAccounts DEF StrandInv, CurDisposable, Disposable, WithWallet
    <3> QED BY <3>1, <3>2, MovedSums
  <2>3. CASE Bridge /\ ~ UNCHANGED balance
    <3>1. /\ Move(cache.merchant, cache.buyer, balance[cache.merchant]) /\ pc = "bridge"
          /\ UNCHANGED <<minting, claims>>
      BY <2>3 DEF Bridge, worldVars
    <3>2. cache.merchant \in Account /\ cache.buyer \in Account
      BY <3>1, CachedAccounts
    <3>3. cache.merchant # cache.buyer
      BY <3>2, ClaimAssumption DEF CachedDistinct, NoWallet, Account
    <3> QED BY <3>1, <3>2, <3>3, MovedSums
  <2>4. CASE Mint
    <3>1. /\ pc = "mint" /\ minting' = minting \union {cur} /\ claims' = claims + 1
          /\ UNCHANGED balance
      BY <2>4 DEF Mint
    <3>2. cur \in Account
      BY <3>1 DEF StrandInv, CurDisposable, Disposable, WithWallet
    <3> QED BY <3>1, <3>2, ClaimedSums
  <2>5. ASSUME NEW a \in Account, ManualClaim(a)
        PROVE  Conserved'
    BY <2>5, ClaimedSums DEF ManualClaim
  <2>6. ASSUME NEW a \in Account, Deliver(a)
        PROVE  Conserved'
    BY <2>6, DeliveredSums
  <2>7. CASE TestnetReset
    <3>1. balance' = [a \in Account |-> 0] /\ minting' = {} /\ claims' = claims
      BY <2>7 DEF TestnetReset, worldVars
    <3>2. PICK p \in [0 .. MaxAccount -> Nat] : PartialSums(balance', p) /\ p[MaxAccount] = 0
      BY <3>1, NoSums
    <3>3. Cardinality(minting') = 0 /\ claims' \in Nat
      BY <3>1, FS_EmptySet DEF StrandInv, ClaimTypes
    <3>4. p[MaxAccount] + Cardinality(minting') <= claims'
      BY <3>2, <3>3
    <3> QED BY <3>2, <3>4 DEF Conserved
  <2>8. CASE RefreshCache \/ Load \/ NextWallet \/ Inspect \/ InspectLine \/ ResetTrustline
    BY <2>1, <2>8 DEF RefreshCache, Load, NextWallet, Inspect, InspectLine, ResetTrustline,
                      ledgerVars, worldVars
  <2>9. CASE InspectAge \/ DeleteAccount \/ DecideRlusd \/ DecideUsdc \/ CreateWallet
    BY <2>1, <2>9 DEF InspectAge, DeleteAccount, DecideRlusd, DecideUsdc, CreateWallet,
                      ledgerVars, worldVars
  <2>10. CASE \/ TrackWallet \/ CreateTrustline \/ AwaitClaim \/ RunRaises \/ Killed
              \/ CooldownOver \/ CalmDown \/ UNCHANGED vars
    BY <2>1, <2>10 DEF TrackWallet, CreateTrustline, AwaitClaim, RunRaises, Killed, CooldownOver,
                       CalmDown, vars, ledgerVars, worldVars
  <2>12. CASE RootUnread \/ LinesUnread \/ TornCache \/ TornWrite
    BY <2>1, <2>12 DEF RootUnread, LinesUnread, TornCache, TornWrite, ledgerVars
  <2>11. CASE Bridge /\ UNCHANGED balance
    BY <2>1, <2>11 DEF Bridge, worldVars
  <2> QED BY <2>2, <2>3, <2>4, <2>5, <2>6, <2>7, <2>8, <2>9, <2>10, <2>11, <2>12
          DEF Next, Run, Advance
<1> QED BY <1>1, <1>2, DistinctKept, StrandInvariant, PTL DEF Spec

\* The variables keep their types; that no balance exceeds MaxClaims, however
\* often the money is swept and passed on, is because no step creates any.
THEOREM TypeCorrect == Spec => []TypeOK
<1>1. StrandInv /\ Conserved /\ WroteType => TypeOK
  <2> SUFFICES ASSUME StrandInv, Conserved, WroteType
               PROVE  TypeOK
    OBVIOUS
  <2>1. PICK p \in [0 .. MaxAccount -> Nat] :
            PartialSums(balance, p) /\ p[MaxAccount] + Cardinality(minting) <= claims
    BY DEF Conserved
  <2>2. /\ balance \in [Account -> Nat] /\ Cardinality(minting) \in Nat
        /\ claims \in Nat /\ claims <= MaxClaims /\ MaxAccount \in Nat /\ MaxClaims \in Nat
    BY MintingFinite, ClaimAssumption DEF StrandInv, ClaimTypes
  <2>3. \A a \in Account : balance[a] \in 0 .. MaxClaims
    <3> SUFFICES ASSUME NEW a \in Account
                 PROVE  balance[a] \in 0 .. MaxClaims
      OBVIOUS
    <3>1. /\ a \in 0 .. MaxAccount /\ a - 1 \in 0 .. MaxAccount /\ a <= MaxAccount
          /\ MaxAccount \in 0 .. MaxAccount
      BY <2>2 DEF Account
    <3>2. p[a] = p[a - 1] + balance[a] /\ p[a] <= p[MaxAccount]
      BY <2>1, <3>1 DEF PartialSums
    <3>3. p[a] \in Nat /\ p[a - 1] \in Nat /\ p[MaxAccount] \in Nat /\ balance[a] \in Nat
      BY <2>1, <2>2, <3>1
    <3> QED BY <2>1, <2>2, <3>2, <3>3
  <2>4. balance \in [Account -> 0 .. MaxClaims]
    BY <2>2, <2>3
  <2> QED BY <2>4 DEF StrandInv, ClaimTypes, TypeOK, WroteType
<1>2. Init => WroteType
  BY DEF Init, WroteType
<1>3. WroteType /\ [Next]_vars => WroteType'
  BY Zenon DEF Next, Run, CalmDown, Writes, vars, WroteType
<1> QED BY <1>1, <1>2, <1>3, StrandInvariant, ConservedInvariant, PTL DEF Spec

=============================================================================
