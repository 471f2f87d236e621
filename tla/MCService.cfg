\* Two requests in flight. Codes, tokens and devices; a conversation with one person
\* of each role; a customer's requests; a trip's program; vendors and an import;
\* reviews and alarms; the public lists; the dashboard; a driver's
\* position.
CONSTANTS
    Handlers = {h1, h2}
    None = None
    Clients = {ann, ben}
    Phones = {p1, p2}
    MaxAttempts = 2
    MaxCodes = 2
    Roles = {"support", "driver"}
    MaxTokens = 3
    DeviceTokens = {phone, tablet}
    Platforms = {android, ios}
    MaxSaves = 3
    Notices = {n1}
    ChatHandlers = {c1}
    People = {"guest", "admin", "support", "splizer", "driver"}
    RoleOf <- OnePerRole
    MaxThreads = 1
    MaxMessages = 1
    Keys = {k1}
    MaxBookings = 2
    MaxReviews = 2
    Entries = {e1, e2}
    Services = {s1}
    LastDay = 2
    StayDays = 1
    MaxPlace = 1
    TaskIds = {w1}
    Heads = {"head"}
    Helpers = {"helper"}
    Rates = {0, 10}
    Amounts = {1}
    MaxSlips = 1
    MaxVouchers = 2
    Drafts = {"hotel", "again", "tour"}
    BusinessKeys = {"hotel", "tour"}
    KeyOf <- TwiceHotel
    MaxStock = 1
    Trips = {t1, t2}
    Stars = {1, 5}
    DeskStaff = {"admin", "support"}
    Alarms = {a1, a2}
    Shops = {1, 2, 3, 4}
    KindOf <- ThreeHotels
    Named = {1, 3, 4}
    ByCityAndName <- TwoNamesakes
    ByName <- TwoNamesakesThenSights
    Sights = {11, 12}
    HomeSights = {11}
    FoodSights = {12}
    PageSize = 2
    HomeTake = 1
    NearTake = 2
    FilterTake = 2
    ExploreTake = 1
    SearchTake = 2
    Rows = {1, 2}
    TableOf <- AlertRows
    ReportDates = {day1}
    Each = 1
    Most = 1
    Few = 1
    TTL = 2
    MaxChanges = 1
    MaxViews = 2
    Mixed = Mixed
    Spots = {"square", "airport"}
    Duties = {"available", "en_route"}
SPECIFICATION Spec
INVARIANT TypeOK
INVARIANT CodesAreLimited
INVARIANT AccountsAreEarned
INVARIANT TokensRotate
PROPERTY ClaimsWereTrue
INVARIANT DevicesAreKept
INVARIANT ReadersAreTold
PROPERTY DriverIsReached
INVARIANT OneBookingPerKey
INVARIANT ReviewsStand
INVARIANT SlipsAddUp
INVARIANT ImportsApplyOnce
INVARIANT RatingIsTheAverage
INVARIANT AlarmsAreHeard
INVARIANT TripIsShown
INVARIANT ListsAgree
INVARIANT DashboardCatchesUp
INVARIANT MapFollowsHim
SYMMETRY Interchangeable
