----------------------------- MODULE ClaimWallets -----------------------------
(***************************************************************************)
(* The top-up commands devtools/rlusd_topup.py and usdc_topup.py over      *)
(* devtools/live_testnet_support.py: a disposable wallet is created, its   *)
(* seed written to a state file, the faucet pays into it, and this or a    *)
(* later run sweeps it into the merchant's wallet, removes its trust line, *)
(* deletes its account and passes the money on to the buyer's wallet.      *)
(*                                                                         *)
(* One command, asset, is run again and again, one run at a time, and may  *)
(* be killed at any step.  A wallet is a number; its seed is known as long *)
(* as the wallet cache or the state file says so.  One claim is one unit.  *)
(* Merchant and buyer have their trust lines; XRP is not counted.          *)
(*                                                                         *)
(* An answer that carries an error counts as an account that is gone, or   *)
(* as a trust line that is not there, and a file whose write is cut short  *)
(* cannot be read: the wallets the program forgets by that are in lost.    *)
(***************************************************************************)
EXTENDS Naturals, FiniteSets, FiniteSetsExt

CONSTANTS
    MaxAccount,   \* bound on the wallets generated (model bound)
    MaxTracked,   \* bound on the wallets in a state file (model bound)
    MaxClaims,    \* bound on the faucet's payments (model bound)
    MaxFaults     \* bound on the error answers and torn writes (model bound)

ASSUME ClaimAssumption ==
    /\ MaxAccount \in Nat
    /\ MaxTracked \in Nat
    /\ MaxClaims \in Nat
    /\ MaxFaults \in Nat

VARIABLES
    asset,      \* the command being used: "RLUSD" or "USDC"
    cache,      \* the wallet cache file: merchant and buyer
    file,       \* the claim state file
    mem,        \* the run's copy of it
    pc, cur, todo, mode, recovered,   \* the run
    exists, balance, line,            \* validated accounts
    minting,    \* faucet payments on their way
    made,       \* wallets generated so far
    claims,     \* faucet payments so far
    lost,       \* wallets forgotten through an error answer or a torn write (history)
    faults,     \* error answers and torn writes still to come
    wrote,      \* was the state file written in the last step?
    calm        \* has the last kill, failed request and reset happened?

fileVars == <<cache, file>>
runVars == <<mem, pc, cur, todo, mode, recovered>>
ledgerVars == <<exists, balance, line, minting>>
worldVars == <<made, claims, lost, faults, calm>>
vars == <<asset, fileVars, runVars, ledgerVars, worldVars, wrote>>

Account == 1 .. MaxAccount
NoWallet == 0
Status == {"created", "claimed", "claim_failed", "awaiting_manual_funding",
           "swept", "delete_failed", "deleted"}
Entry == [status : Status \union {"none"}, hash : BOOLEAN]
Untracked == [status |-> "none", hash |-> FALSE]
Fresh(owner) == [owner |-> owner, cooling |-> FALSE,
                 wallets |-> [a \in Account |-> Untracked]]
ClaimState == [owner : 0 .. MaxAccount, cooling : BOOLEAN, wallets : [Account -> Entry]]

PC == {"idle", "load", "next", "inspect", "sweep", "line", "reset", "ready", "delete",
       "decide", "create", "track", "claimLine", "mint", "await", "bridge"}

TypeOK ==
    /\ asset \in {"RLUSD", "USDC"}
    /\ cache \in [merchant : 0 .. MaxAccount, buyer : 0 .. MaxAccount]
    /\ file \in ClaimState /\ mem \in ClaimState
    /\ pc \in PC
    /\ cur \in 0 .. MaxAccount
    /\ todo \subseteq Account
    /\ mode \in {"tracked", "claimed", "failed"}
    /\ recovered \in BOOLEAN
    /\ exists \in [Account -> BOOLEAN] /\ line \in [Account -> BOOLEAN]
    /\ balance \in [Account -> 0 .. MaxClaims]
    /\ minting \subseteq Account
    /\ made \in 0 .. MaxAccount /\ claims \in 0 .. MaxClaims
    /\ lost \subseteq Account /\ faults \in 0 .. MaxFaults /\ wrote \in BOOLEAN /\ calm \in BOOLEAN

Init ==
    /\ asset \in {"RLUSD", "USDC"}
    /\ cache = [merchant |-> NoWallet, buyer |-> NoWallet]
    /\ file = Fresh(NoWallet) /\ mem = Fresh(NoWallet)
    /\ pc = "idle" /\ cur = NoWallet /\ todo = {} /\ mode = "tracked" /\ recovered = FALSE
    /\ exists = [a \in Account |-> FALSE] /\ line = exists
    /\ balance = [a \in Account |-> 0]
    /\ minting = {}
    /\ made = 0 /\ claims = 0 /\ lost = {} /\ faults = MaxFaults /\ wrote = FALSE /\ calm = FALSE

Exit ==
    /\ pc' = "idle" /\ cur' = NoWallet /\ todo' = {} /\ mode' = "tracked"
    /\ recovered' = FALSE /\ mem' = Fresh(NoWallet)

Goto(label) == pc' = label /\ UNCHANGED <<cur, todo, mode, recovered>>

\* The account is there; get_validated_account_root tells, unless it gets an
\* error answer.
HasRoot(a) == a # NoWallet /\ exists[a]

\* An error answer or a torn write, by which the program forgets the wallets in S.
Fault(S) == faults > 0 /\ faults' = faults - 1 /\ lost' = lost \union S

\* The seed is on disk, and a later run looks at the wallet again.
Tracked(a) == /\ file.owner = cache.merchant
              /\ file.wallets[a].status \notin {"none", "deleted"}

-----------------------------------------------------------------------------
(* The wallet cache *)

\* _refresh_demo_wallet_set and _create_demo_wallet_set: a wallet without an
\* account is replaced by a new one from the faucet, and so are the ones in
\* unread, whose account root comes with an error.  The tracked wallets are
\* forgotten with their merchant.
RefreshCache ==
    /\ pc = "idle"
    /\ \E unread \in SUBSET {role \in DOMAIN cache : HasRoot(cache[role])} :
           LET gone == {role \in DOMAIN cache : ~ HasRoot(cache[role])} \union unread
               next(role) == made + (IF role = "buyer" THEN Cardinality(gone) ELSE 1)
           IN  /\ made' = made + Cardinality(gone) /\ made' <= MaxAccount
               /\ exists' = [a \in Account |-> exists[a] \/ a \in made + 1 .. made']
               /\ line' = [a \in Account |-> line[a] \/ a \in made + 1 .. made']
               /\ cache' = [role \in DOMAIN cache |->
                               IF role \in gone THEN next(role) ELSE cache[role]]
               /\ IF unread = {} THEN UNCHANGED <<lost, faults>>
                  ELSE Fault({cache[role] : role \in unread} \union
                             {a \in Account : "merchant" \in unread /\ Tracked(a)})
    /\ Goto("load")
    /\ UNCHANGED <<asset, file, mem, balance, minting, claims, calm>>

\* A kill in the middle of _write_demo_wallet_cache, after some root was missing
\* or unread: the cache cannot be parsed and the next run renews it, whatever
\* it held (within the bound on the wallets).  The wallets just generated were
\* never known to anybody and are not counted.
TornCache ==
    /\ pc = "idle" /\ made + 2 <= MaxAccount
    /\ cache' = [merchant |-> NoWallet, buyer |-> NoWallet]
    /\ Fault({a \in Account : exists[a]})
    /\ UNCHANGED <<asset, file, runVars, ledgerVars, made, claims, calm>>

\* Mutant: a failed deletion is final.
GivenUp == {"none", "deleted", "delete_failed"}

\* The wallets recover_tracked_claim_wallets skips.
Skipped == {"none", "deleted"}

\* load_rlusd_claim_state, load_usdc_claim_state: a state file that belongs to
\* another merchant wallet, or that cannot be parsed, counts as empty.
Load ==
    /\ pc = "load"
    /\ mem' = IF file.owner = cache.merchant THEN file ELSE Fresh(cache.merchant)
    /\ todo' = {a \in Account : mem'.wallets[a].status \notin Skipped}
    /\ pc' = "next"
    /\ UNCHANGED <<asset, fileVars, cur, mode, recovered, ledgerVars, worldVars>>

\* The loop over the tracked wallets, and what follows it.
NextWallet ==
    /\ pc = "next"
    /\ IF todo = {}
       THEN pc' = "decide" /\ UNCHANGED <<cur, todo>>
       ELSE pc' = "inspect" /\ cur' = Min(todo) /\ todo' = todo \ {Min(todo)}
    /\ UNCHANGED <<asset, fileVars, mem, mode, recovered, ledgerVars, worldVars>>

-----------------------------------------------------------------------------
(* _recover_claim_wallet and _recover_usdc_claim_wallet of wallet cur *)

SetStatus(s) == mem' = [mem EXCEPT !.wallets[cur].status = s]

\* The recovery is over and the state file is written; the loop goes on, or
\* the claim that called it is finished.
Recovered ==
    /\ file' = mem'
    /\ pc' = IF mode = "tracked" THEN "next" ELSE "bridge"
    /\ cur' = NoWallet /\ mode' = "tracked"
    /\ UNCHANGED todo

\* An exception ends the run, except that claim_rlusd_topup catches the ones
\* of its own claim once and tries to recover the wallet again.
Raise ==
    IF mode = "claimed" \/ (asset = "RLUSD" /\ pc \in {"claimLine", "mint", "await"})
    THEN /\ SetStatus("claim_failed")
         /\ mode' = "failed" /\ pc' = "inspect"
         /\ UNCHANGED <<cur, todo, recovered>>
    ELSE Exit

\* A USDC wallet waits for its manual claim.
KeepWaiting == /\ mem.wallets[cur].status = "awaiting_manual_funding"
               /\ balance[cur] = 0

Inspect ==
    /\ pc = "inspect"
    /\ \/ ~ HasRoot(cur) /\ SetStatus("deleted") /\ Recovered /\ UNCHANGED recovered
       \/ HasRoot(cur) /\ KeepWaiting /\ UNCHANGED <<mem, recovered>> /\ Recovered
       \/ /\ HasRoot(cur) /\ ~ KeepWaiting
          /\ Goto(IF balance[cur] > 0 THEN "sweep" ELSE "line")
          /\ UNCHANGED <<mem, file>>
    /\ UNCHANGED <<asset, cache, ledgerVars, worldVars>>

\* An error in place of the account root: the wallet counts as deleted.
RootUnread ==
    /\ pc \in {"inspect", "ready"} /\ HasRoot(cur) /\ Fault({cur})
    /\ SetStatus("deleted") /\ Recovered /\ UNCHANGED recovered
    /\ UNCHANGED <<asset, cache, ledgerVars, made, claims, calm>>

\* An error in place of the trust lines: the wallet seems to hold nothing, and
\* its line to be gone.  reset_rlusd_trustline leaves such a line alone, and
\* wait_for_trustline_removal may see it again.
LinesUnread ==
    /\ Fault({})
    /\ \/ /\ pc = "inspect" /\ HasRoot(cur)
          /\ IF mem.wallets[cur].status = "awaiting_manual_funding"
             THEN UNCHANGED <<mem, recovered>> /\ Recovered
             ELSE Goto("line") /\ UNCHANGED <<mem, file>>
       \/ pc \in {"line", "reset"} /\ Goto("ready") /\ UNCHANGED <<mem, file>>
       \/ pc = "reset" /\ SetStatus("delete_failed") /\ Recovered /\ UNCHANGED recovered
    /\ UNCHANGED <<asset, cache, ledgerVars, made, claims, calm>>

\* Mutant: the money is counted twice.
Copy(from, to, n) == balance' = [balance EXCEPT ![to] = @ + n]

\* A validated payment of n.
Move(from, to, n) ==
    balance' = [balance EXCEPT ![from] = @ - n, ![to] = @ + n]

\* The balance goes to the merchant.  A payment that arrives between the look
\* at the balance and the sweep is swept too; the code leaves it on the line,
\* like one that arrives after the sweep.
Sweep ==
    /\ pc = "sweep" /\ balance[cur] > 0
    /\ exists[cache.merchant]
    /\ Move(cur, cache.merchant, balance[cur])
    /\ SetStatus("swept")
    /\ pc' = "line" /\ recovered' = (asset = "USDC")
    /\ UNCHANGED <<asset, fileVars, cur, todo, mode, exists, line, minting, worldVars>>

\* The payment takes effect but submit_and_wait, or the wait for the balance,
\* raises; without effect it is RunRaises.
SweepUnseen ==
    /\ pc = "sweep" /\ ~ calm /\ balance[cur] > 0
    /\ exists[cache.merchant]
    /\ Move(cur, cache.merchant, balance[cur])
    /\ Raise
    /\ UNCHANGED <<asset, fileVars, exists, line, minting, worldVars>>

\* A trust line may be reset when it is empty.
EmptyLine == balance[cur] = 0

InspectLine ==
    /\ pc = "line"
    /\ \/ ~ line[cur] /\ Goto("ready") /\ UNCHANGED <<mem, file>>
       \/ /\ line[cur] /\ ~ EmptyLine
          /\ SetStatus("delete_failed") /\ Recovered /\ UNCHANGED recovered
       \/ line[cur] /\ EmptyLine /\ Goto("reset") /\ UNCHANGED <<mem, file>>
    /\ UNCHANGED <<asset, cache, ledgerVars, worldVars>>

\* reset_rlusd_trustline looks again, and wait_for_trustline_removal waits for
\* the line to vanish, which it does unless it holds a balance by then.
ResetTrustline ==
    /\ pc = "reset" /\ EmptyLine
    /\ line' = [line EXCEPT ![cur] = FALSE]
    /\ \/ Goto("ready") /\ UNCHANGED <<mem, file>>
       \/ SetStatus("delete_failed") /\ Recovered /\ UNCHANGED recovered
    /\ UNCHANGED <<asset, cache, exists, balance, minting, worldVars>>

\* The status of a wallet that is too young to be deleted; only the RLUSD
\* command has a claim_tx_hash (the USDC one has set "swept" already).
TooYoung == IF mem.wallets[cur].hash THEN "swept" ELSE mem.wallets[cur].status

\* The account root is read again; nobody else deletes the account.
InspectAge ==
    /\ pc = "ready" /\ HasRoot(cur)
    /\ \/ SetStatus(TooYoung) /\ Recovered /\ UNCHANGED recovered
       \/ Goto("delete") /\ UNCHANGED <<mem, file>>
    /\ UNCHANGED <<asset, cache, ledgerVars, worldVars>>

\* submit_validated_account_delete; the ledger refuses an account that still
\* has a trust line.
DeleteAccount ==
    /\ pc = "delete"
    /\ \/ /\ exists[cur] /\ ~ line[cur]
          /\ exists' = [exists EXCEPT ![cur] = FALSE]
          /\ SetStatus("deleted") \/ SetStatus("delete_failed")
       \/ UNCHANGED exists /\ SetStatus("delete_failed")
    /\ Recovered /\ UNCHANGED recovered
    /\ UNCHANGED <<asset, cache, balance, line, minting, worldVars>>

-----------------------------------------------------------------------------
(* claim_rlusd_topup and prepare_usdc_topup after the recovery *)

\* The recovered amount is only looked at by the USDC command.
DecideRlusd ==
    /\ pc = "decide" /\ asset = "RLUSD"
    /\ \/ pc' = "bridge"     \* cooling down, or no session token
       \/ pc' = "create" /\ ~ mem.cooling
    /\ UNCHANGED <<mem, cur, todo, mode, recovered>>
    /\ file' = IF pc' = "create" THEN mem ELSE file
    /\ UNCHANGED <<asset, cache, ledgerVars, worldVars>>

\* Mutant: a wallet is prepared although another one waits.
NoneAwaited == {}

Awaited == {a \in Account : mem.wallets[a].status = "awaiting_manual_funding"}

\* A sweep starts the cooldown, and is written.
DecideUsdc ==
    /\ pc = "decide" /\ asset = "USDC"
    /\ mem' = [mem EXCEPT !.cooling = @ \/ recovered]
    /\ file' = IF recovered THEN mem' ELSE file
    /\ pc' = IF Awaited # {} \/ mem'.cooling THEN "bridge" ELSE "create"
    /\ UNCHANGED <<cur, todo, mode, recovered>>
    /\ UNCHANGED <<asset, cache, ledgerVars, worldVars>>

\* generate_faucet_wallet
CreateWallet ==
    /\ pc = "create" /\ made < MaxAccount
    /\ Cardinality({a \in Account : mem.wallets[a].status # "none"}) < MaxTracked
    /\ made' = made + 1
    /\ exists' = [exists EXCEPT ![made'] = TRUE]
    /\ cur' = made'
    /\ pc' = IF asset = "RLUSD" THEN "track" ELSE "claimLine"
    /\ UNCHANGED <<asset, fileVars, mem, todo, mode, recovered, balance, line, minting, claims, lost,
                   faults, calm>>

\* Mutant: the new wallet is not written before the faucet is asked.
TrackInMemory == UNCHANGED file

\* The seed is on disk before anybody pays to the wallet.
WriteSeed == file' = mem'

TrackWallet ==
    /\ pc = "track"
    /\ SetStatus(IF asset = "RLUSD" THEN "created" ELSE "awaiting_manual_funding")
    /\ WriteSeed
    /\ Goto(IF asset = "RLUSD" THEN "claimLine" ELSE "bridge")
    /\ UNCHANGED <<asset, cache, ledgerVars, worldVars>>

\* ensure_rlusd_trustline, ensure_usdc_trustline of the new wallet
CreateTrustline ==
    /\ pc = "claimLine" /\ exists[cur]
    /\ line' = [line EXCEPT ![cur] = TRUE]
    /\ Goto(IF asset = "RLUSD" THEN "mint" ELSE "track")
    /\ UNCHANGED <<asset, fileVars, mem, exists, balance, minting, worldVars>>

\* mint_rlusd_to_address answers with a hash, or it pays and no answer comes.
Mint ==
    /\ pc = "mint" /\ claims < MaxClaims
    /\ minting' = minting \union {cur} /\ claims' = claims + 1
    /\ \/ /\ mem' = [mem EXCEPT !.wallets[cur] = [status |-> "claimed", hash |-> TRUE]]
          /\ file' = mem'
          /\ Goto("await")
       \/ Raise /\ UNCHANGED file
    /\ UNCHANGED <<asset, cache, exists, balance, line, made, lost, faults, calm>>

\* wait_for_trustline_balance_increase; its timeout is RunRaises.
AwaitClaim ==
    /\ pc = "await" /\ balance[cur] > 0
    /\ mem' = [mem EXCEPT !.cooling = TRUE]
    /\ file' = mem'
    /\ mode' = "claimed" /\ pc' = "inspect"
    /\ UNCHANGED <<asset, cache, cur, todo, recovered, ledgerVars, worldVars>>

\* _finalize_rlusd_topup_result, _bridge_issued_balance_to_buyer; a failure
\* is reported and nothing more.
Bridge ==
    /\ pc = "bridge"
    /\ \/ Move(cache.merchant, cache.buyer, balance[cache.merchant])
       \/ UNCHANGED balance
    /\ Exit
    /\ UNCHANGED <<asset, fileVars, exists, line, minting, worldVars>>

\* Any request may raise; in calm times only the faucet's, the wait for its
\* payment, and the reset of a trust line that has received it meanwhile.
RunRaises ==
    /\ pc # "idle"
    /\ ~ calm \/ pc \in {"create", "mint", "await"} \/ (pc = "reset" /\ ~ EmptyLine)
    /\ Raise
    /\ UNCHANGED <<asset, fileVars, ledgerVars, worldVars>>

Killed ==
    /\ pc # "idle" /\ ~ calm
    /\ Exit
    /\ UNCHANGED <<asset, fileVars, ledgerVars, worldVars>>

\* Does a step end with write_rlusd_claim_state or write_usdc_claim_state?  It
\* matters while a write may be torn.
Writes ==
    /\ faults' > 0 /\ file' = mem' /\ pc' # pc
    /\ \/ pc \in {"inspect", "line", "reset", "ready", "delete"} /\ pc' \in {"next", "bridge"}
       \/ pc = "decide" /\ (IF asset = "USDC" THEN recovered ELSE pc' = "create")
       \/ pc = "track"
       \/ <<pc, pc'>> \in {<<"claimLine", "mint">>, <<"mint", "await">>}
       \/ pc = "await" /\ mode' = "claimed"

\* The run is killed in the middle of that write, or the disk is full: the file
\* has been truncated and cannot be parsed.
TornWrite ==
    /\ wrote /\ Fault({a \in Account : Tracked(a)})
    /\ file' = Fresh(NoWallet) /\ Exit
    /\ UNCHANGED <<asset, cache, ledgerVars, made, claims, calm>>

-----------------------------------------------------------------------------
(* Environment *)

\* A faucet payment is validated, or fails for want of a trust line.
Deliver(a) ==
    /\ a \in minting
    /\ minting' = minting \ {a}
    /\ balance' = IF line[a] THEN [balance EXCEPT ![a] = @ + 1] ELSE balance
    /\ UNCHANGED <<asset, fileVars, runVars, exists, line, worldVars>>

\* Somebody claims USDC to an address the command has printed.
ManualClaim(a) ==
    /\ asset = "USDC" /\ file.wallets[a].status # "none"
    /\ claims < MaxClaims /\ claims' = claims + 1
    /\ minting' = minting \union {a}
    /\ UNCHANGED <<asset, fileVars, runVars, exists, balance, line, made, lost, faults, calm>>

\* The cooldown is over; a run goes by the time it started at.
CooldownOver ==
    /\ pc = "idle" /\ file.cooling
    /\ file' = [file EXCEPT !.cooling = FALSE]
    /\ UNCHANGED <<asset, cache, runVars, ledgerVars, worldVars>>

\* Testnet is reset, which takes longer than a run lasts: no account survives
\* (within the bound on the wallets, so that the cache can be renewed).
TestnetReset ==
    /\ pc = "idle" /\ ~ calm /\ made + 2 <= MaxAccount
    /\ exists' = [a \in Account |-> FALSE] /\ line' = exists'
    /\ balance' = [a \in Account |-> 0]
    /\ minting' = {} /\ lost' = {}
    /\ UNCHANGED <<asset, fileVars, runVars, made, claims, faults, calm>>

CalmDown ==
    /\ ~ calm
    /\ calm' = TRUE /\ faults' = 0 /\ wrote' = FALSE
    /\ UNCHANGED <<asset, fileVars, runVars, ledgerVars, made, claims, lost>>

\* What a run does when nothing raises.
Advance ==
    \/ RefreshCache \/ Load \/ NextWallet \/ Inspect \/ Sweep \/ InspectLine \/ ResetTrustline
    \/ InspectAge \/ DeleteAccount \/ DecideRlusd \/ DecideUsdc \/ CreateWallet \/ TrackWallet
    \/ CreateTrustline \/ Mint \/ AwaitClaim \/ Bridge

\* A step of a run, whether or not it raises.
Run == (Advance \/ RunRaises) /\ wrote' = Writes

Next ==
    \/ Run \/ CalmDown
    \/ /\ \/ TornCache \/ RootUnread \/ LinesUnread
          \/ SweepUnseen \/ Killed \/ TornWrite
          \/ \E a \in Account : Deliver(a) \/ ManualClaim(a)
          \/ CooldownOver \/ TestnetReset
       /\ wrote' = Writes

Spec == Init /\ [][Next]_vars

\* The command is run again and again and its calls return or raise; kills and
\* failures come to an end at last.
Fairness == WF_vars(Run) /\ WF_vars(CalmDown)

FairSpec == Spec /\ Fairness

-----------------------------------------------------------------------------
(* Properties *)

\* Money is never in a wallet whose seed is gone or which no later run looks
\* at again, wherever runs are killed and however late the faucet pays; only
\* what an error answer or a torn write has made the program forget is lost.
NothingStranded ==
    \A a \in Account :
        balance[a] > 0 => a \in {cache.merchant, cache.buyer} \/ Tracked(a) \/ a \in lost

\* The operator is asked for one manual claim at a time.
OneAwaited ==
    Cardinality({a \in Account : file.wallets[a].status = "awaiting_manual_funding"}) <= 1

\* "On the rerun, the helper sweeps the claimed USDC into the canonical wallet":
\* what the faucet has paid into disposable wallets leaves them by later runs,
\* unless the wallet has been forgotten.
Paid == {a \in Account : balance[a] > 0 /\ a \notin {cache.merchant, cache.buyer} \union lost}
Drained == Paid # {} ~> Paid = {}
=============================================================================
