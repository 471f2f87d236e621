\* Concurrent handlers: one row, one event, every interleaving, liveness.
CONSTANTS
    Bookings = {b1}
    PaymentIds = {p1}
    Events = {e1}
    Requests = {r1, r2}
    Totals = {3, 6}
    Asks = {29, 69}
    MaxCents = 8
    Unit = 2
    MaxFaults = 1
    Miss = Miss
    None = None
SPECIFICATION FairSpec
INVARIANT AppliedAtMostOnce
INVARIANT StripePaidIsBacked
INVARIANT RowFitsPeakTotal
PROPERTY EventIsAcked
