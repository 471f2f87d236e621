\* Two handlers that both read what is due before either records a payment.
CONSTANTS
    Bookings = {b1}
    PaymentIds = {p1, p2}
    Events = {e1}
    Requests = {r1, r2}
    Totals = {3}
    Asks = {29}
    MaxCents = 8
    Unit = 2
    MaxFaults = 0
    Miss = Miss
    None = None
SPECIFICATION Spec
PROPERTY CashFitsDue
