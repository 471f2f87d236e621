\* Two handlers on two bookings and drivers, every interleaving, one lost.
CONSTANTS
    Bookings = {b1, b2}
    Drivers = {d1, d2}
    Dates = {t1}
    Items = {i1}
    Handlers = {r1, r2}
    ByHand = {d1}
    BookingStatuses = {"active"}
    OwnStatuses = {"available"}
    MaxStarts = 4
    MaxFaults = 1
    None = None
SPECIFICATION Spec
SYMMETRY Interchangeable
INVARIANT BusyUnlessContested
INVARIANT TimesTellTheStory
INVARIANT CommittedOwnsItinerary
INVARIANT DeclinedLeavesNoStamp
PROPERTY LifeSpec
