\* Two callers of one fingerprint, of either kind, crashing anywhere, with
\* failures that carry no hash and answers that come after the entry lapsed.
CONSTANTS
    Caller = {c1, c2}
    NoCaller = NoCaller
    MaxPayload = 2
    HashlessFailures = TRUE
    LateAnswers = TRUE
    Crashes = TRUE
SPECIFICATION FairSpec
INVARIANTS
    TypeOK
    AttemptOutlivesPayload
    PaymentsConcluded
PROPERTIES
    WaitersProceed
