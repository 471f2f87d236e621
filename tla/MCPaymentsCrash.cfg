\* A webhook handler that dies between storing its event and applying it.
CONSTANTS
    Bookings = {b1}
    PaymentIds = {p1}
    Events = {e1}
    Requests = {r1}
    Totals = {3}
    Asks = {29}
    MaxCents = 8
    Unit = 2
    MaxFaults = 1
    Miss = Miss
    None = None
SPECIFICATION Spec
INVARIANT AckedIsPaid
