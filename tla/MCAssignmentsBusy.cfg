\* Two assignments of one driver to different bookings at the same time.
CONSTANTS
    Bookings = {b1, b2}
    Drivers = {d1}
    Dates = {t1}
    Items = {}
    Handlers = {r1, r2}
    ByHand = {}
    BookingStatuses = {}
    OwnStatuses = {}
    MaxStarts = 2
    MaxFaults = 0
    None = None
SPECIFICATION Spec
INVARIANT OneBookingPerDriver
