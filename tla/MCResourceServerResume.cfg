\* Resuming a pending settlement from the stored response.
CONSTANTS
    t1 = t1
    i1 = i1
    i2 = i2
    i3 = i3
    i6 = i6
    k1 = k1
    k2 = k2
    f1 = f1
    f2 = f2
    page = page
    tool = tool
    other = other
    Tx = {t1}
    Slot = {t1}
    Key = {k1, k2}
    Fp = {f1, f2}
    Resource = {page, tool, other}
    Request = {r1, r2}
    Invocation = {i1}
    Tool = {}
    Unsafe = {i1}
    NoInvocation = NoInvocation
    TxOf <- Txs
    KeyOf <- Keys
    FpOf <- Fps
    ResourceOf <- Protects
    NamedIn <- Names
    SlotOf <- Tickets
    Before <- NoneBefore
    LastLedger <- Last
    MaxLedger = 2
    Window = 2
    SlowRequests = FALSE
SPECIFICATION Spec
SYMMETRY Symmetry
INVARIANTS
    ResumesFromStore
