\* Two handlers, two rows, two events, every interleaving, one handler lost.
CONSTANTS
    Bookings = {b1}
    PaymentIds = {p1, p2}
    Events = {e1, e2}
    Requests = {r1, r2}
    Totals = {6}
    Asks = {69}
    MaxCents = 8
    Unit = 2
    MaxFaults = 1
    Miss = Miss
    None = None
SPECIFICATION Spec
SYMMETRY Interchangeable
INVARIANT CacheAgrees
INVARIANT AckedIsApplied
PROPERTY CashFits
PROPERTY LedgerSpec
