\* Two handlers on one booking with two requests.
CONSTANTS
    Bookings = {b1}
    RequestIds = {q1, q2}
    Handlers = {r1, r2}
    Dates = {t1, t2}
    Totals = {0, 10}
    Prices = {2, 3}
    VipPatches = {TRUE}
    DatePatches = {}
    StatusPatches = {}
    MaxTotal = 12
    MaxFaults = 1
    None = None
    Bad = Bad
SPECIFICATION Spec
INVARIANT TypeOK
INVARIANT ChargedOnce
INVARIANT ApprovedWasVip
INVARIANT DeskClosesRequests
PROPERTY DatesAreApproved
SYMMETRY Interchangeable
