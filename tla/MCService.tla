----------------------------- MODULE MCService -----------------------------
(***************************************************************************)
(* The parts of the service around payments, assignments and upgrades, for *)
(* TLC. They share no row and no key, so a behaviour of all is a shuffle   *)
(* of behaviours of each, and no property is about two; a behaviour here   *)
(* drives the part that its initial state chose, and the others rest.      *)
(***************************************************************************)
EXTENDS Codes, Sessions, Pushes, Chat, Requests, Catalogue, Feedback, Portal,
        Discovery, Dashboard, Positions, TLC

VARIABLE part

access == <<codesVars, sessionsVars, pushesVars>>
trips == <<chatVars, requestsVars, plansVars, tasksVars, positionsVars>>
backOffice == <<vendorVars, importVars, reviewVars, alarmVars, discoveryVars,
                dashboardVars>>
vars == <<part, access, trips, backOffice>>

Init ==
    /\ part \in {"codes", "staff", "guest", "pushes", "chat", "requests", "plans", "page",
                 "tasks", "positions", "vendors", "imports", "reviews", "alarms", "discovery",
                 "dashboard"}
    /\ CodesInit /\ SessionsInit /\ PushesInit
    /\ ChatInit /\ RequestsInit /\ PlansInit /\ TasksInit /\ PositionsInit
    /\ CatalogueInit /\ FeedbackInit /\ DiscoveryInit /\ DashboardInit
    \* A part with several initial states rests in one of them.
    /\ part # "staff" => staff.role = CHOOSE role \in Roles : TRUE
    /\ part # "requests" => ~customer
    /\ part # "imports" => \A k \in BusinessKeys : stock[k] = 0
    /\ part # "discovery" => published = {}
    /\ part # "positions" => whereabouts.status = CHOOSE s \in Duties : TRUE
    \* The dashboard opens on a busy day.
    /\ \A r \in Rows : now[r] = CHOOSE s \in StatesOf[TableOf[r]] : s # "open"

\* Calls overlap, and codes are wrong, only while one phone is in play.
CodesBound ==
    \/ \E p \in Phones : /\ \A c \in Clients : account[c].phone \in {p, None}
                         /\ \A i \in DOMAIN codes : codes[i].phone = p
                         /\ \A h \in Handlers : codeCall[h].phone \in {p, None}
    \/ /\ \A h, g \in Handlers : h # g => NoCodeCall \in {codeCall[h], codeCall[g]}
       /\ \A h \in Handlers : codeCall[h].step = "compare" => codeCall[h].right
       /\ \A i \in DOMAIN codes : codes[i].attempts = 0

AccessNext ==
    /\ part \in {"codes", "staff", "guest", "pushes"}
    /\ UNCHANGED <<part, trips, backOffice>>
    /\ \/ part = "codes" /\ CodesNext /\ CodesBound' /\ UNCHANGED <<sessionsVars, pushesVars>>
       \/ part = "staff" /\ StaffStep /\ Witnessed /\ UNCHANGED <<codesVars, pushesVars>>
       \/ part = "guest" /\ GuestStep /\ Witnessed /\ UNCHANGED <<codesVars, pushesVars>>
       \/ part = "pushes" /\ PushesNext /\ UNCHANGED <<codesVars, sessionsVars>>

\* While the guest's page is read, calls do not overlap, nothing is moved, and no item
\* has a place but the first.
PageBound ==
    /\ \A h, g \in Handlers : h # g => NoPlanCall \in {planCall[h], planCall[g]}
    /\ \A h \in Handlers : planCall[h].place = 0 /\ planCall[h].step # "move"
    /\ \A e \in Entries : entry[e].place = 0
    /\ planned = {}

TripsNext ==
    /\ part \in {"chat", "requests", "plans", "page", "tasks", "positions"}
    /\ UNCHANGED <<part, access, backOffice>>
    /\ \/ /\ part = "chat" /\ ChatNext
          /\ UNCHANGED <<requestsVars, plansVars, tasksVars, positionsVars>>
       \/ /\ part = "requests" /\ RequestsNext
          /\ UNCHANGED <<chatVars, plansVars, tasksVars, positionsVars>>
       \/ /\ \/ part = "plans" /\ PlansNext /\ UNCHANGED <<service, itinerary>>
             \/ part = "page" /\ PlansNext /\ PageBound'
          /\ UNCHANGED <<chatVars, requestsVars, tasksVars, positionsVars>>
       \/ /\ part = "tasks" /\ TasksNext
          /\ UNCHANGED <<chatVars, requestsVars, plansVars, positionsVars>>
       \/ /\ part = "positions" /\ PositionsNext
          /\ UNCHANGED <<chatVars, requestsVars, plansVars, tasksVars>>

BackOfficeNext ==
    /\ part \in {"vendors", "imports", "reviews", "alarms", "discovery", "dashboard"}
    /\ UNCHANGED <<part, access, trips>>
    /\ \/ /\ part = "vendors" /\ VendorsNext
          /\ UNCHANGED <<importVars, reviewVars, alarmVars, discoveryVars, dashboardVars>>
       \/ /\ part = "imports" /\ ImportsNext
          /\ UNCHANGED <<vendorVars, reviewVars, alarmVars, discoveryVars, dashboardVars>>
       \/ /\ part = "reviews" /\ ReviewsNext
          /\ UNCHANGED <<vendorVars, importVars, alarmVars, discoveryVars, dashboardVars>>
       \/ /\ part = "alarms" /\ AlarmsNext
          /\ UNCHANGED <<vendorVars, importVars, reviewVars, discoveryVars, dashboardVars>>
       \/ /\ part = "discovery" /\ DiscoveryNext
          /\ UNCHANGED <<vendorVars, importVars, reviewVars, alarmVars, dashboardVars>>
       \/ /\ part = "dashboard" /\ DashboardNext
          /\ UNCHANGED <<vendorVars, importVars, reviewVars, alarmVars, discoveryVars>>

Next == AccessNext \/ TripsNext \/ BackOfficeNext

Spec == Init /\ [][Next]_vars

\* Every row, list and call of the part that moves has its type; what rests is in one
\* of its initial states, with which it also moves.
TypeOK ==
    /\ part = "codes" => CodesTypeOK
    /\ part \in {"staff", "guest"} => SessionsTypeOK
    /\ part = "pushes" => PushesTypeOK
    /\ part = "chat" => ChatTypeOK
    /\ part = "requests" => RequestsTypeOK
    /\ part \in {"plans", "page"} => PlansTypeOK
    /\ part = "tasks" => TasksTypeOK
    /\ part = "positions" => PositionsTypeOK
    /\ part \in {"vendors", "imports"} => CatalogueTypeOK
    /\ part \in {"reviews", "alarms"} => FeedbackTypeOK
    /\ part = "discovery" => DiscoveryTypeOK
    /\ part = "dashboard" => DashboardTypeOK

-----------------------------------------------------------------------------

OnePerRole ==
    "guest" :> "guest" @@ "admin" :> "admin" @@ "support" :> "support" @@ "splizer" :> "splizer"
    @@ "driver" :> "driver"
ThreeHotels == <<"hotel", "hotel", "hotel", "restaurant">>
TwiceHotel == "hotel" :> "hotel" @@ "again" :> "hotel" @@ "tour" :> "tour"
TwoNamesakes == <<1, 2, 2, 1>>
TwoNamesakesThenSights == <<1, 2, 2, 1>> @@ 11 :> 3 @@ 12 :> 4
AlertRows == <<"sos", "tasks">>
Interchangeable == Permutations(Handlers)
=============================================================================
