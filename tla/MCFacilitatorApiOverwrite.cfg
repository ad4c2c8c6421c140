\* Two identical requests at once.
CONSTANTS
    f1 = f1
    f2 = f2
    f3 = f3
    k1 = k1
    Tx = {t1}
    Fp = {f1}
    Slot = {s1}
    Worker = {w1, w2}
    Key = {k1}
    NoTx = NoTx
    NoFp = NoFp
    NoKey = NoKey
    KeyOf <- Keys
    SlotOf <- OneSlot
    Before <- NoneBefore
    LastLedger <- SoonLast
    MaxLedger = 1
    Acceptable <- AllAcceptable
    Window <- Windows
    SlowWorkers = FALSE
SPECIFICATION ApiSpec
PROPERTIES
    CachedSuccessKept
