\* Two RLUSD to buy, four ledgers, three signed transactions.
CONSTANTS
    Target = 2
    Window = 2
    MaxTx = 3
    MaxLedger = 4
SPECIFICATION FairSpec
INVARIANTS
    TypeOK
    NeverOverfunded
    OpenIsJournaled
    CompletedIsExact
    FaucetAskedOnce
PROPERTIES
    PendingCleared
