------------------------------ MODULE Discovery ------------------------------
(***************************************************************************)
(* What the public pages show (client-v2.service.ts) of vendors, places    *)
(* and destinations, while staff edit them, and a visitor who turns the    *)
(* pages of a catalogue. Each list filters for itself what it shows, and   *)
(* sorts by columns that several rows may share: how such rows follow one  *)
(* another, each query decides anew.                                       *)
(***************************************************************************)
EXTENDS Integers, FiniteSets

CONSTANTS
    Shops,          \* vendors
    KindOf,         \* their types
    Named,          \* those whose name is no test name
    ByCityAndName,  \* what the catalogues and most rails sort them by
    ByName,         \* what the home page and the restaurants sort by, places after vendors
    Sights,         \* places and destinations
    HomeSights,     \* the places on the home page
    FoodSights,     \* the places that are about food
    PageSize,       \* bound: the largest limit
    HomeTake, NearTake, FilterTake, ExploreTake, SearchTake     \* the lists' limits

Kinds == {"hotel", "activity", "guide", "restaurant", "service"}
Bookable == {"hotel", "activity", "guide"}
ASSUME DiscoveryAssumption ==
    /\ IsFiniteSet(Shops) /\ Shops \cap Sights = {}
    /\ KindOf \in [Shops -> Kinds] /\ Named \subseteq Shops
    /\ HomeSights \cup FoodSights \subseteq Sights
    /\ ByCityAndName \in [Shops -> Nat] /\ ByName \in [Shops \cup Sights -> Nat]
    /\ \A v \in Shops, p \in Sights : ByName[v] < ByName[p]
    /\ PageSize \in Nat \ {0}

VARIABLES
    shop,       \* the vendors' rows
    published,  \* the places and destinations that are published
    visit       \* the visitor's reading of one catalogue

discoveryVars == <<shop, published, visit>>

\* left: the statements of his page that are still to run; last: the count it named
\* is reached. History: the vendors he saw, those that came twice, and whether a
\* vendor changed since he began.
Statements == {"rows", "count"}
Visit == [kind: Kinds \cup {"none"}, limit: 1 .. PageSize, page: Nat, left: SUBSET Statements,
          last: BOOLEAN, seen: SUBSET Shops, twice: SUBSET Shops, changed: BOOLEAN]
NoVisit == [kind |-> "none", limit |-> 1, page |-> 0, left |-> {},
            last |-> FALSE, seen |-> {}, twice |-> {}, changed |-> FALSE]

DiscoveryTypeOK ==
    /\ shop \in [Shops -> {"absent", "active", "inactive", "deleted"}]
    /\ published \subseteq Sights
    /\ visit \in Visit

DiscoveryInit ==
    /\ shop = [v \in Shops |-> "absent"]
    /\ published \in {{}, Sights}
    /\ visit = NoVisit

-----------------------------------------------------------------------------
(* Lists.                                                                  *)

\* vendorPublic, of a type; WithHidden forgets isActive.
WithHidden(kind) == {v \in Shops : KindOf[v] = kind /\ shop[v] \in {"active", "inactive"}}
VendorPublic(kind) == {v \in Shops : KindOf[v] = kind /\ shop[v] = "active"}

\* A query's order: by a key, and by whatever comes first among rows of one key.
Ties(rows) ==
    {tie \in [rows -> 1 .. Cardinality(rows)] :
        \A v, w \in rows : tie[v] = tie[w] => v = w}
Ahead(v, rows, key, tie) ==
    {w \in rows : key[w] < key[v] \/ (key[w] = key[v] /\ tie[w] < tie[v])}
\* The rows that a limit, or a page of so many, may leave of a list.
Pages(rows, key, page, limit) ==
    {{v \in rows :
        Cardinality(Ahead(v, rows, key, tie)) \in (page - 1) * limit .. page * limit - 1} :
     tie \in Ties(rows)}
MayShow(rows, key, page, limit) == UNION Pages(rows, key, page, limit)

\* The names are looked at after the rows were counted off.
IsPublic(rows) == rows \cap Named
Rail(kind, key, take) == IsPublic(MayShow(VendorPublic(kind), key, 1, take))

\* Each list from here on is what it may show.
ListVendorCatalog(kind, page, limit) ==
    IsPublic(MayShow(VendorPublic(kind), ByCityAndName, page, limit))
\* Places about food follow the restaurants, whose names are looked at first.
ListRestaurants(page, limit) ==
    MayShow(IsPublic(VendorPublic("restaurant")) \cup (FoodSights \cap published),
            ByName, page, limit)

\* The home page has hotels of Moscow only, where all hotels are here.
HomeFeed ==
    Rail("hotel", ByName, HomeTake) \cup Rail("activity", ByName, HomeTake)
    \cup (HomeSights \cap published)

\* A category of vendors shows no other rail; one of places, the places of that
\* category, for which all stand here, and no vendors.
ListPlaces(category) ==
    (IF category \in Bookable THEN {} ELSE published)
    \cup UNION {Rail(kind, ByCityAndName, NearTake) :
                   kind \in Bookable \cap (IF category = "all" THEN Kinds ELSE {category})}

\* The first destinations page: one of vendors is filtered, the unfiltered one shows
\* a sample, and any other filter the destinations that match, for which all stand
\* here. That of cities shows neither.
VendorDestinations(kind) == Rail(kind, ByCityAndName, FilterTake)
ListDestinations(filter) ==
    IF filter \in Bookable THEN VendorDestinations(filter)
    ELSE published \cup (IF filter = "none"
                         THEN Rail("hotel", ByName, ExploreTake)
                              \cup Rail("activity", ByName, ExploreTake)
                         ELSE {})

Search ==
    published \cup ListRestaurants(1, SearchTake)
        \cup UNION {ListVendorCatalog(kind, 1, SearchTake) : kind \in Bookable}

\* getPlace: by slug or id.
GetPlace == published \cup {v \in Named : shop[v] = "active"}

OnShow ==
    HomeFeed \cup Search
    \cup (UNION {ListPlaces(category) : category \in Kinds \cup {"all", "food"}})
    \cup (UNION {ListDestinations(filter) : filter \in Kinds \cup {"none"}})
    \cup (UNION {ListVendorCatalog(kind, 1, PageSize) : kind \in Bookable})

-----------------------------------------------------------------------------
(* Steps.                                                                  *)

\* Staff or an import add a vendor, switch it off and on, delete it.
Edit(v, from, to) ==
    /\ shop[v] \in from
    /\ shop' = [shop EXCEPT ![v] = to]
    /\ visit' = [visit EXCEPT !.changed = visit.kind = KindOf[v] \/ @]
    /\ UNCHANGED published
VendorChanges(v) ==
    \/ Edit(v, {"absent", "inactive"}, "active")
    \/ Edit(v, {"active"}, "inactive")
    \/ Edit(v, {"active", "inactive"}, "deleted")

\* Seeding publishes the places.
Publish ==
    /\ published # Sights
    /\ published' = Sights
    /\ UNCHANGED <<shop, visit>>

OpenCatalog(kind, limit) ==
    /\ visit.kind = "none"
    /\ visit' = [NoVisit EXCEPT !.kind = kind, !.limit = limit]
    /\ UNCHANGED <<shop, published>>

\* He turns pages up to the count that the last page named.
TurnPage ==
    /\ visit.kind # "none" /\ visit.left = {} /\ ~visit.last
    /\ visit' = [visit EXCEPT !.page = @ + 1, !.left = Statements]
    /\ UNCHANGED <<shop, published>>

\* A page's rows and its count are two statements, in either order.
PageRows ==
    /\ "rows" \in visit.left
    /\ \E rows \in Pages(VendorPublic(visit.kind), ByCityAndName, visit.page, visit.limit) :
          visit' = [visit EXCEPT !.left = @ \ {"rows"},
                        !.seen = @ \cup IsPublic(rows),
                        !.twice = @ \cup (IsPublic(rows) \cap visit.seen)]
    /\ UNCHANGED <<shop, published>>
PageCount ==
    /\ "count" \in visit.left
    /\ visit' = [visit EXCEPT !.left = @ \ {"count"},
                     !.last = visit.page * visit.limit >= Cardinality(VendorPublic(visit.kind))]
    /\ UNCHANGED <<shop, published>>

CloseCatalog ==
    /\ visit.last /\ visit.left = {}
    /\ visit' = NoVisit
    /\ UNCHANGED <<shop, published>>

DiscoveryNext ==
    \/ \E v \in Shops : VendorChanges(v)
    \/ Publish
    \/ \E kind \in Bookable, limit \in 1 .. PageSize :
          OpenCatalog(kind, limit)
    \/ TurnPage \/ PageRows \/ PageCount \/ CloseCatalog

DiscoverySpec == DiscoveryInit /\ [][DiscoveryNext]_discoveryVars

-----------------------------------------------------------------------------
(* Properties.                                                             *)

\* The vendors up to the last of its city and name, and those before the first.
UpTo(v, rows) == {w \in rows : ByCityAndName[w] <= ByCityAndName[v]}
Before(v, rows) == {w \in rows : ByCityAndName[w] < ByCityAndName[v]}
\* Its city and name share one page, whichever of its namesakes comes first.
OnOnePage(v, rows, limit) ==
    \E page \in 1 .. Cardinality(rows) :
       /\ (page - 1) * limit <= Cardinality(Before(v, rows))
       /\ Cardinality(UpTo(v, rows)) <= page * limit

\* What any list shows can be opened, though each list filters for itself; and of a
\* catalogue that nobody changed meanwhile a visitor is shown each vendor once, though
\* a page may be short and its count is another statement: only one whose city and
\* name another vendor has too, on both sides of a page's end, may come twice or
\* never (client-v2.service.ts:883 sorts by these two alone).
ListsAgree ==
    /\ OnShow \subseteq GetPlace
    /\ visit.kind # "none" /\ ~visit.changed =>
          LET rows == VendorPublic(visit.kind)
          IN /\ visit.seen \subseteq rows \cap Named
             /\ \A v \in rows \cap Named : OnOnePage(v, rows, visit.limit) =>
                   /\ v \notin visit.twice
                   /\ visit.last /\ visit.left = {} => v \in visit.seen
=============================================================================
