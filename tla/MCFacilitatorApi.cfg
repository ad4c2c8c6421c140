\* Two requests that reuse an identifier and one without, for one transaction.
CONSTANTS
    f1 = f1
    f2 = f2
    f3 = f3
    k1 = k1
    Tx = {t1}
    Fp = {f1, f2, f3}
    Slot = {s1}
    Worker = {w1, w2}
    Key = {k1}
    NoTx = NoTx
    NoFp = NoFp
    NoKey = NoKey
    KeyOf <- Keys
    SlotOf <- OneSlot
    Before <- NoneBefore
    LastLedger <- SoonLast
    MaxLedger = 1
    Acceptable <- MostAcceptable
    Window <- Windows
    SlowWorkers = FALSE
SYMMETRY Symmetry
SPECIFICATION ApiSpec
INVARIANTS
    ApiTypeOK
    AnswersAgree
    CachedForItsRequest
PROPERTY
    EndpointsKeepContract
