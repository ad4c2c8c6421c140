\* Pending settlements under fairness.
CONSTANTS
    t1 = t1
    t2 = t2
    s0 = s0
    s1 = s1
    f2 = f2
    Tx = {t1}
    Fp = {f1}
    Slot = {s1}
    Worker = {w1, w2}
    NoTx = NoTx
    NoFp = NoFp
    SlotOf <- RivalSlot
    Before <- NoneBefore
    LastLedger <- SoonLast
    MaxLedger = 2
    Acceptable <- AllAcceptable
    Window <- Windows
    SlowWorkers = FALSE
SPECIFICATION FairSpec
PROPERTIES
    PendingResolves
