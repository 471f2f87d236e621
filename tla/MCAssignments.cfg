\* Concurrent handlers on one booking: every interleaving, a lost one, liveness.
CONSTANTS
    Bookings = {b1}
    Drivers = {d1, d2}
    Dates = {t1}
    Items = {i1}
    Handlers = {r1, r2}
    ByHand = {}
    BookingStatuses = {}
    OwnStatuses = {}
    MaxStarts = 5
    MaxFaults = 1
    None = None
SPECIFICATION FairSpec
INVARIANT StatusIsEarned
INVARIANT StampNeedsConsent
PROPERTY RequestsEnd
