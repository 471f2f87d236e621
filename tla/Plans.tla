-------------------------------- MODULE Plans --------------------------------
(***************************************************************************)
(* The program of one trip: its items and day plans (itineraries.service.ts, *)
(* operations.service.ts), the vendors booked for it (vendors.service.ts)   *)
(* and the itinerary that the guest is shown (client-portal.service.ts).   *)
(* Who drives an item, and its progress, are in Assignments.               *)
(***************************************************************************)
EXTENDS Integers, FiniteSets, Handling

CONSTANTS
    Entries,        \* ids of the trip's rows of table itinerary_items
    Services,       \* ids of its rows of table vendor_bookings
    LastDay,        \* the trip's days are 1 .. LastDay
    StayDays,       \* the days from arrival to departure are 1 .. StayDays
    MaxPlace        \* bound: the highest sortOrder

ASSUME PlansAssumption ==
    /\ LastDay \in Nat \ {0} /\ MaxPlace \in Nat
    /\ StayDays \in 0 .. LastDay
    /\ None \notin Entries \cup Services /\ Entries \cap Services = {}

VARIABLES
    entry,      \* the items: day 0 is no item
    service,    \* the vendors booked
    planned,    \* the days with a row in table booking_day_plans
    planCall,   \* the request each handler is serving
    itinerary,  \* the itinerary page that the guest's app is asking for
    untidy      \* history: some write may have put two items at one place

plansVars == <<entry, service, planned, planCall, itinerary, untidy>>

Days == 1 .. LastDay
Places == 0 .. MaxPlace
Entry == [day: 0 .. LastDay, place: Places]
NoEntry == [day |-> 0, place |-> 0]
\* day 0: not booked; item: the item it is attached to.
Service == [day: 0 .. LastDay, item: Entries \cup {None}]
\* gone: the rows that an import deletes.
PlanCall == [step: {"idle", "create", "assign", "move", "import"}, day: 0 .. LastDay,
             place: Places, entry: Entries \cup {None}, place2: Places,
             entry2: Entries \cup {None}, gone: SUBSET Entries]
NoPlanCall == [step |-> "idle", day |-> 0, place |-> 0, entry |-> None,
               place2 |-> 0, entry2 |-> None, gone |-> {}]
\* left: the tables yet to read. History: the rows written since the first was read.
Tables == {"items", "plans", "services"}
Itinerary == [left: SUBSET Tables, days: [Entries -> 0 .. LastDay], planned: SUBSET Days,
              services: [Services -> Service], written: SUBSET (Entries \cup Services)]
NoItinerary == [left |-> Tables, days |-> [e \in Entries |-> 0], planned |-> {},
                services |-> [s \in Services |-> [day |-> 0, item |-> None]], written |-> {}]

PlanRowsOK ==
    /\ entry \in [Entries -> Entry]
    /\ service \in [Services -> Service]
    /\ planned \subseteq Days
    /\ planCall \in [Handlers -> PlanCall]
    /\ untidy \in BOOLEAN
PlansTypeOK == PlanRowsOK /\ itinerary \in Itinerary

PlansInit ==
    /\ entry = [e \in Entries |-> NoEntry]
    /\ service = [s \in Services |-> [day |-> 0, item |-> None]]
    /\ planned = {}
    /\ planCall = [h \in Handlers |-> NoPlanCall]
    /\ itinerary = NoItinerary
    /\ untidy = FALSE

-----------------------------------------------------------------------------

On(d) == {e \in Entries : entry[e].day = d}
\* maxSort + 1, or 0 on an empty day; Count is the number of items instead.
Count(d) == Cardinality(On(d))
After(d) == IF On(d) = {} THEN 0
            ELSE 1 + (CHOOSE p \in Places : /\ \E e \in On(d) : entry[e].place = p
                                            /\ \A e \in On(d) : entry[e].place <= p)
InFlight(h) == \E g \in Handlers \ {h} : planCall[g] # NoPlanCall
\* Ids are never used twice: no row has this one, and no call remembers it.
Fresh(e) ==
    /\ entry[e] = NoEntry
    /\ \A h \in Handlers : e \notin {planCall[h].entry, planCall[h].entry2} \cup planCall[h].gone
\* The rows that a page, being read, will have read before or after this write.
Written(rows) ==
    itinerary' = [itinerary EXCEPT !.written = IF itinerary.left = Tables THEN @ ELSE @ \cup rows]
ItemsBecome(new) ==
    /\ entry' = new
    /\ Written({e \in Entries : new[e] # entry[e]})
    /\ UNCHANGED service
ServicesBecome(new) ==
    /\ service' = new
    /\ Written({s \in Services : new[s] # service[s]})
    /\ UNCHANGED entry
BothBecome(items, services) ==
    /\ entry' = items /\ service' = services
    /\ Written({e \in Entries : items[e] # entry[e]}
               \cup {s \in Services : services[s] # service[s]})
PlanGoes(h, call) == planCall' = [planCall EXCEPT ![h] = call]
PlanEnds(h) == PlanGoes(h, NoPlanCall)

\* createItem, and assign without an item: the place is found first, unless staff
\* name one for a new item.
FindPlace(h, step, d, p) ==
    /\ planCall[h] = NoPlanCall
    /\ p # After(d) => step = "create"
    /\ PlanGoes(h, [NoPlanCall EXCEPT !.step = step, !.day = d, !.place = p])
    /\ untidy' = (untidy \/ InFlight(h) \/ p # After(d))
    /\ UNCHANGED <<entry, service, planned, itinerary>>

NewEntry(h) == [day |-> planCall[h].day, place |-> planCall[h].place]
CreateItem(h, e) ==
    /\ planCall[h].step = "create"
    /\ Fresh(e)
    /\ ItemsBecome([entry EXCEPT ![e] = NewEntry(h)])
    /\ PlanEnds(h)
    /\ UNCHANGED <<planned, untidy>>

\* The new item and the vendor's booking commit together.
AssignAppended(h, e, s) ==
    /\ planCall[h].step = "assign"
    /\ Fresh(e)
    /\ service[s].day = 0
    /\ BothBecome([entry EXCEPT ![e] = NewEntry(h)],
                  [service EXCEPT ![s] = [day |-> planCall[h].day, item |-> e]])
    /\ PlanEnds(h)
    /\ UNCHANGED <<planned, untidy>>

\* A vendor for an item that is there, or for none.
AssignVendor(s, d, e) ==
    /\ service[s].day = 0
    /\ e # None => entry[e] # NoEntry
    /\ ServicesBecome([service EXCEPT ![s] = [day |-> d, item |-> e]])
    /\ UNCHANGED <<planned, planCall, untidy>>

\* updateBooking writes another date of service.
UpdateBooking(s, d) ==
    /\ service[s].day \notin {0, d}
    /\ ServicesBecome([service EXCEPT ![s].day = d])
    /\ UNCHANGED <<planned, planCall, untidy>>

\* updateItem writes the place and the day it is given, and looks at no other.
UpdateItem(e, d, p) ==
    /\ entry[e] # NoEntry
    /\ entry[e] # [day |-> d, place |-> p]
    /\ ItemsBecome([entry EXCEPT ![e] = [day |-> d, place |-> p]])
    /\ untidy' = TRUE
    /\ UNCHANGED <<planned, planCall>>

\* The foreign key of a vendor's booking is set to null with its item's row;
\* StillAttached leaves it.
StillAttached(gone) == service
Detached(gone) == [s \in Services |-> IF service[s].item \in gone
                                      THEN [service[s] EXCEPT !.item = None]
                                      ELSE service[s]]
DeleteItem(e) ==
    /\ entry[e] # NoEntry
    /\ BothBecome([entry EXCEPT ![e] = NoEntry], Detached({e}))
    /\ UNCHANGED <<planned, planCall, untidy>>

\* importItinerary is a transaction, at read committed. Its DELETE is of the rows that
\* have been committed when it starts. It locks them, one after the other: a write to
\* one comes before the lock, and goes with the row, or waits and finds the row gone.
DeleteMany(h) ==
    /\ planCall[h] = NoPlanCall
    /\ PlanGoes(h, [NoPlanCall EXCEPT !.step = "import",
                                      !.gone = {e \in Entries : entry[e] # NoEntry}])
    /\ untidy' = (untidy \/ InFlight(h))
    /\ UNCHANGED <<entry, service, planned, itinerary>>

\* It commits, and with it the new rows, which are numbered from 0 within each day,
\* and again where a day is listed again. What was committed since it began stays.
ImportItinerary(h, new) ==
    LET gone == planCall[h].gone
    IN /\ planCall[h].step = "import"
       /\ \A e \in DOMAIN new : Fresh(e)
       /\ \A e \in DOMAIN new, p \in Places :
             p < new[e].place => \E x \in DOMAIN new : new[x] = [new[e] EXCEPT !.place = p]
       /\ BothBecome([e \in Entries |-> IF e \in DOMAIN new THEN new[e]
                                        ELSE IF e \in gone THEN NoEntry ELSE entry[e]],
                     Detached(gone))
       /\ untidy' = \/ \E e \in Entries \ gone : entry[e] # NoEntry
                    \/ InFlight(h)
                    \/ \E e, x \in DOMAIN new : e # x /\ new[e] = new[x]
       /\ PlanEnds(h)
       /\ UNCHANGED planned

\* moveItem: the neighbour in the day's order, ties in any order.
Neighbours(e, up) ==
    LET side == {x \in On(entry[e].day) \ {e} : IF up THEN entry[x].place <= entry[e].place
                                                ELSE entry[x].place >= entry[e].place}
    IN {x \in side : \A y \in side : IF up THEN entry[y].place <= entry[x].place
                                     ELSE entry[y].place >= entry[x].place}
MoveItem(h, e, up) ==
    /\ planCall[h] = NoPlanCall
    /\ entry[e] # NoEntry
    /\ \E x \in Neighbours(e, up) :
          PlanGoes(h, [NoPlanCall EXCEPT
              !.step = "move", !.entry = e, !.place = entry[x].place,
              !.entry2 = x, !.place2 = entry[e].place])
    /\ untidy' = (untidy \/ InFlight(h))
    /\ UNCHANGED <<entry, service, planned, itinerary>>

\* Both rows in one transaction, which fails when one is gone.
MoveWrite(h) ==
    LET call == planCall[h]
    IN /\ call.step = "move"
       /\ ItemsBecome(IF entry[call.entry] = NoEntry \/ entry[call.entry2] = NoEntry
                      THEN entry
                      ELSE [entry EXCEPT ![call.entry].place = call.place,
                                         ![call.entry2].place = call.place2])
       /\ PlanEnds(h)
       /\ UNCHANGED <<planned, untidy>>

PlanCallFails(h) ==
    /\ planCall[h] # NoPlanCall
    /\ PlanEnds(h)
    /\ UNCHANGED <<entry, service, planned, itinerary, untidy>>

\* A day's plan is written again, and never deleted.
UpsertDayPlan(d) ==
    /\ planned' = planned \cup {d}
    /\ UNCHANGED <<entry, service, planCall, itinerary, untidy>>

-----------------------------------------------------------------------------
(* The guest.                                                              *)

\* itinerary: three statements, in any order.
ReadTable(table) ==
    /\ table \in itinerary.left
    /\ itinerary' = [itinerary EXCEPT
          !.left = @ \ {table},
          !.days = IF table = "items" THEN [e \in Entries |-> entry[e].day] ELSE @,
          !.planned = IF table = "plans" THEN planned ELSE @,
          !.services = IF table = "services" THEN service ELSE @]
    /\ UNCHANGED <<entry, service, planned, planCall, untidy>>
ItineraryIsRead ==
    /\ itinerary.left = {}
    /\ itinerary' = NoItinerary
    /\ UNCHANGED <<entry, service, planned, planCall, untidy>>

\* A vendor's booking that is attached to an item shows as the item, and one that is
\* not shows for itself.
Alone == {s \in Services : itinerary.services[s].day # 0 /\ itinerary.services[s].item = None}
ShownDays ==
    LET days == ({itinerary.days[e] : e \in Entries} \ {0}) \cup itinerary.planned
                \cup {itinerary.services[s].day : s \in Alone} \cup 1 .. StayDays
    IN IF days = {} THEN {1} ELSE days
Activities(d) == {e \in Entries : itinerary.days[e] = d}
                 \cup {s \in Alone : itinerary.services[s].day = d}
\* Where one, of these names, is on the page.
Shown(names) == {x \in ShownDays \X names : x[2] \in Activities(x[1])}

PlansNext ==
    \/ \E h \in Handlers :
          \/ \E d \in Days, step \in {"create", "assign"}, p \in Places : FindPlace(h, step, d, p)
          \/ \E e \in Entries : \/ CreateItem(h, e)
                                \/ \E s \in Services : AssignAppended(h, e, s)
                                \/ \E up \in BOOLEAN : MoveItem(h, e, up)
          \/ \E ids \in SUBSET Entries :
                \E new \in [ids -> [day: Days, place: Places]] : ImportItinerary(h, new)
          \/ DeleteMany(h) \/ MoveWrite(h) \/ PlanCallFails(h)
    \/ \E s \in Services, d \in Days : \/ UpdateBooking(s, d)
                                       \/ \E e \in Entries \cup {None} : AssignVendor(s, d, e)
    \/ \E e \in Entries : \/ DeleteItem(e)
                          \/ \E d \in Days, p \in Places : UpdateItem(e, d, p)
    \/ \E d \in Days : UpsertDayPlan(d)
    \/ \E table \in Tables : ReadTable(table)
    \/ ItineraryIsRead

PlansSpec == PlansInit /\ [][PlansNext]_plansVars

-----------------------------------------------------------------------------
(* Properties.                                                             *)

\* Items of a day have places of their own, so that a move moves, unless since the
\* last import staff wrote a day or a place themselves or calls overlapped (two
\* imports at once leave the items of both), or that import listed a day twice.
DaysStayOrdered ==
    ~untidy => \A e, x \in Entries :
        entry[e] # NoEntry /\ entry[e] = entry[x] => e = x

\* A page that was put together from three statements shows every vendor whose booking
\* was not written since the first of them once, as his item or as himself, whatever
\* was written to the items meanwhile, became of his item before and however short the
\* stay is; every item that was not written on its day; and nothing else of either.
GuestSeesTheTrip ==
    itinerary.left = {} =>
        /\ \A s \in Services \ itinerary.written :
              Cardinality(Shown({s, service[s].item})) = IF service[s].day # 0 THEN 1 ELSE 0
        /\ \A e \in Entries \ itinerary.written :
              Shown({e}) = IF entry[e] = NoEntry THEN {} ELSE {<<entry[e].day, e>>}

\* Through creates, imports, moves and deletes that interleave, the program keeps
\* an order that moves can change, and the page hides or doubles nothing that stood
\* while it was read.
ProgramHolds == DaysStayOrdered /\ GuestSeesTheTrip
=============================================================================
