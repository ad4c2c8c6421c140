\* One signed transaction offered for requests and tool calls, unsafe and safe.
CONSTANTS
    t1 = t1
    i1 = i1
    i2 = i2
    i3 = i3
    i6 = i6
    k1 = k1
    k2 = k2
    f1 = f1
    f2 = f2
    page = page
    tool = tool
    other = other
    Tx = {t1}
    Slot = {t1}
    Key = {k1, k2}
    Fp = {f1, f2}
    Resource = {page, tool, other}
    Request = {r1, r2}
    Invocation = {i1, i2, i3, i5, i6}
    Tool = {i3}
    Unsafe = {i1, i2, i3}
    NoInvocation = NoInvocation
    TxOf <- Txs
    KeyOf <- Keys
    FpOf <- Fps
    ResourceOf <- Protects
    NamedIn <- Names
    SlotOf <- Tickets
    Before <- NoneBefore
    LastLedger <- Last
    MaxLedger = 2
    Window = 2
    SlowRequests = FALSE
SPECIFICATION Spec
SYMMETRY Symmetry
INVARIANTS
    TypeOK
    ReleasedIsPaid
    HandlerOnce
    OnePaymentOneResource
    OneResourcePerPayment
PROPERTIES
    KeepsPromise
