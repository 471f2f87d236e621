\* The desk loses its handler between the activation and the closing.
CONSTANTS
    Bookings = {b1}
    RequestIds = {q1}
    Handlers = {r1}
    Dates = {t1}
    Totals = {0}
    Prices = {2}
    VipPatches = {}
    DatePatches = {}
    StatusPatches = {}
    MaxTotal = 2
    MaxFaults = 1
    None = None
    Bad = Bad
SPECIFICATION Spec
INVARIANT ActivationIsComplete
