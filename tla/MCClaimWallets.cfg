\* Merchant, buyer, and three wallets more: disposable ones, two of them in the
\* same state file, or a new merchant and buyer after a reset, a torn cache or
\* an error answer.  The faucet pays twice; one error answer or torn write.
CONSTANTS
    MaxAccount = 5
    MaxTracked = 2
    MaxClaims = 2
    MaxFaults = 1
SPECIFICATION FairSpec
INVARIANTS
    TypeOK
    NothingStranded
    OneAwaited
PROPERTIES
    Drained
