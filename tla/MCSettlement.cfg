\* Two transactions of one payer competing for a slot, offered for two requests
\* by two concurrent settle calls.
CONSTANTS
    t1 = t1
    t2 = t2
    s0 = s0
    s1 = s1
    f2 = f2
    Tx = {t1, t2}
    Fp = {f1, f2}
    Slot = {s0, s1}
    Worker = {w1, w2}
    NoTx = NoTx
    NoFp = NoFp
    SlotOf <- RivalSlot
    Before <- TicketAndSequence
    LastLedger <- Last
    MaxLedger = 2
    Acceptable <- MostAcceptable
    Window <- Windows
    SlowWorkers = FALSE
SPECIFICATION Spec
SYMMETRY Symmetry
INVARIANTS
    TypeOK
    SuccessIsDelivered
    FailureIsFinal
    NoRebroadcast
    OnePaymentOneRequest
    ReservationHeld
PROPERTIES
    RecordLifecycle
    KeepsContract
