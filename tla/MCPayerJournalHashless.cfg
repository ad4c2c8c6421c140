\* Failures without a transaction hash, of callers sharing a payload.
CONSTANTS
    Caller = {c1, c2}
    NoCaller = NoCaller
    MaxPayload = 2
    HashlessFailures = TRUE
    LateAnswers = FALSE
    Crashes = FALSE
SPECIFICATION Spec
PROPERTIES
    PaidNotRegressed
