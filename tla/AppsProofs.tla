------------------------------ MODULE AppsProofs ------------------------------
(***************************************************************************)
(* Proofs about what people are shown: the public lists, one trip's program *)
(* and tasks, devices and their pushes, conversations. For every number of *)
(* rows, people and calls in flight.                                       *)
(***************************************************************************)
EXTENDS Pushes, Chat, Portal, Discovery, FiniteSetTheorems, SequenceTheorems,
        WellFoundedInduction, TLAPS

-----------------------------------------------------------------------------
(* Numbers.                                                                *)

\* A set of numbers that is not empty has a least one.
LEMMA LeastNumber ==
    ASSUME NEW S \in SUBSET Nat, S # {}
    PROVE  \E m \in S : \A k \in S : m <= k
<1> DEFINE R == OpToRel(<, Nat)
<1>1. IsWellFoundedOn(R, Nat)
    BY NatLessThanWellFounded
<1>2. \A x, y \in Nat : <<x, y>> \in R <=> x < y
    BY DEF OpToRel
<1> HIDE DEF R
<1>3. PICK m \in S : \A k \in S : ~(<<k, m>> \in R)
    BY <1>1, WFMin
<1>4. ASSUME NEW k \in S PROVE m <= k
    <2>1. k \in Nat /\ m \in Nat
        OBVIOUS
    <2>2. ~(k < m)
        BY <1>2, <1>3, <2>1
    <2>3. QED
        BY <2>1, <2>2
<1>5. QED
    BY <1>4

\* Induction, over a set of numbers.
LEMMA AllNumbers ==
    ASSUME NEW S, 0 \in S, \A n \in Nat : n \in S => n + 1 \in S
    PROVE  Nat \subseteq S
<1> DEFINE T == Nat \ S
<1> SUFFICES ASSUME T # {} PROVE FALSE
    OBVIOUS
<1> HIDE DEF T
<1>1. PICK m \in T : \A k \in T : m <= k
    BY LeastNumber DEF T
<1>2. m \in Nat /\ m \notin S /\ m # 0
    BY DEF T
<1>3. m - 1 \in Nat /\ m - 1 \notin T
    BY <1>1, <1>2
<1>4. (m - 1) + 1 = m
    BY <1>2
<1>5. QED
    BY <1>2, <1>3, <1>4 DEF T

-----------------------------------------------------------------------------
(* The public lists.                                                       *)

\* What the visitor has seen is what the pages read so far are made of.
Turned == (IF "rows" \in visit.left THEN visit.page - 1 ELSE visit.page) * visit.limit
PagesAreSeen ==
    visit.kind # "none" /\ ~visit.changed =>
        /\ visit.seen \subseteq VendorPublic(visit.kind) \cap Named
        /\ \A v \in VendorPublic(visit.kind) \cap Named :
              OnOnePage(v, VendorPublic(visit.kind), visit.limit) =>
                 /\ v \notin visit.twice
                 /\ v \in visit.seen <=>
                       Cardinality(UpTo(v, VendorPublic(visit.kind))) <= Turned
        /\ visit.last => visit.page * visit.limit >= Cardinality(VendorPublic(visit.kind))

DiscoveryInv ==
    /\ DiscoveryTypeOK
    /\ visit.kind = "none" => visit = NoVisit
    /\ visit.left # {} => visit.page # 0
    /\ PagesAreSeen

LEMMA PublicIsFinite ==
    ASSUME NEW kind
    PROVE  /\ IsFiniteSet(VendorPublic(kind)) /\ VendorPublic(kind) \subseteq Shops
           /\ Cardinality(VendorPublic(kind)) \in Nat
<1>1. VendorPublic(kind) \subseteq Shops
    BY DEF VendorPublic
<1>2. QED
    BY <1>1, DiscoveryAssumption, FS_Subset, FS_CardinalityType

\* Whatever order a query takes, a row stands after those that sort before it and
\* before the last of its namesakes.
LEMMA RankOfARow ==
    ASSUME NEW kind, NEW page, NEW limit, NEW v \in VendorPublic(kind),
           NEW shown \in Pages(VendorPublic(kind), ByCityAndName, page, limit)
    PROVE  /\ shown \subseteq VendorPublic(kind)
           /\ Cardinality(Before(v, VendorPublic(kind))) \in Nat
           /\ Cardinality(UpTo(v, VendorPublic(kind))) \in Nat
           /\ \E rank \in Nat :
                 /\ Cardinality(Before(v, VendorPublic(kind))) <= rank
                 /\ rank < Cardinality(UpTo(v, VendorPublic(kind)))
                 /\ v \in shown <=> rank \in (page - 1) * limit .. page * limit - 1
<1> DEFINE rows == VendorPublic(kind)
<1>1. IsFiniteSet(rows) /\ rows \subseteq Shops
    BY PublicIsFinite
<1>2. PICK tie \in Ties(rows) :
         shown = {w \in rows : Cardinality(Ahead(w, rows, ByCityAndName, tie))
                                  \in (page - 1) * limit .. page * limit - 1}
    BY DEF Pages
<1> HIDE DEF rows
<1>3. v \in rows
    BY DEF rows
<1> DEFINE before == Before(v, rows)
           ahead == Ahead(v, rows, ByCityAndName, tie)
           upTo == UpTo(v, rows)
<1>4. \A w \in rows : ByCityAndName[w] \in Nat
    BY <1>1, DiscoveryAssumption
<1>5. IsFiniteSet(rows) => Cardinality(rows) \in Nat
    BY FS_CardinalityType
<1>6. tie[v] \in Nat
    BY <1>1, <1>3, <1>5 DEF Ties
<1>7. before \subseteq ahead /\ ahead \subseteq upTo /\ upTo \subseteq rows
    BY <1>3, <1>4 DEF Before, Ahead, UpTo
<1>8. v \in upTo /\ v \notin ahead
    BY <1>3, <1>4, <1>6 DEF Ahead, UpTo
<1> HIDE DEF before, ahead, upTo
<1>9. /\ IsFiniteSet(upTo) /\ IsFiniteSet(ahead) /\ IsFiniteSet(before)
      /\ Cardinality(upTo) \in Nat /\ Cardinality(ahead) \in Nat /\ Cardinality(before) \in Nat
    BY <1>1, <1>7, FS_Subset, FS_CardinalityType
<1>10. Cardinality(before) <= Cardinality(ahead)
    BY <1>7, <1>9, FS_Subset
<1>11. Cardinality(ahead) <= Cardinality(upTo) /\ Cardinality(ahead) # Cardinality(upTo)
    BY <1>7, <1>8, <1>9, FS_Subset
<1>12. v \in shown <=> Cardinality(ahead) \in (page - 1) * limit .. page * limit - 1
    BY <1>2, <1>3 DEF ahead
<1>13. QED
    BY <1>2, <1>9, <1>10, <1>11, <1>12 DEF rows, before, ahead, upTo

LEMMA ALaterPage ==
    ASSUME NEW p \in Nat, NEW q \in Nat, NEW limit \in Nat, p <= q
    PROVE  p * limit <= q * limit
<1>1. q * limit = p * limit + (q - p) * limit
    OBVIOUS
<1>2. (q - p) * limit \in Nat
    <2>1. q - p \in Nat
        OBVIOUS
    <2>2. QED
        BY <2>1
<1>3. p * limit \in Nat
    OBVIOUS
<1>4. QED
    BY <1>1, <1>2, <1>3

\* A page shows a row whose city and name it has to itself exactly when it is the
\* first to reach beyond that city and name.
LEMMA OnThatPage ==
    ASSUME NEW kind, NEW page \in Nat \ {0}, NEW limit \in Nat \ {0},
           NEW v \in VendorPublic(kind), OnOnePage(v, VendorPublic(kind), limit),
           NEW shown \in Pages(VendorPublic(kind), ByCityAndName, page, limit)
    PROVE  LET all == Cardinality(UpTo(v, VendorPublic(kind)))
           IN v \in shown <=> ~(all <= (page - 1) * limit) /\ all <= page * limit
<1> DEFINE before == Cardinality(Before(v, VendorPublic(kind)))
           all == Cardinality(UpTo(v, VendorPublic(kind)))
           from == (page - 1) * limit
           to == page * limit
<1>1. before \in Nat /\ all \in Nat
    BY RankOfARow
<1>2. PICK rank \in Nat : /\ before <= rank /\ rank < all
                          /\ v \in shown <=> rank \in from .. to - 1
    BY RankOfARow
<1>3. Cardinality(VendorPublic(kind)) \in Nat
    BY PublicIsFinite
<1>4. PICK k \in 1 .. Cardinality(VendorPublic(kind)) :
         (k - 1) * limit <= before /\ all <= k * limit
    BY DEF OnOnePage
<1>5. k \in Nat /\ k - 1 \in Nat /\ page - 1 \in Nat /\ limit \in Nat /\ page \in Nat
    BY <1>3, <1>4
<1>6. from \in Nat /\ to \in Nat /\ (k - 1) * limit \in Nat /\ k * limit \in Nat
    BY <1>5
<1>7. from <= to
    BY <1>5, ALaterPage
<1>8. CASE k <= page - 1
    <2>1. k * limit <= from
        BY <1>5, <1>8, ALaterPage
    <2> HIDE DEF before, all, from, to
    <2>2. QED
        BY <1>1, <1>2, <1>4, <1>6, <2>1 DEF all, from, to
<1>9. CASE k = page
    <2>1. (k - 1) * limit = from /\ k * limit = to
        BY <1>9
    <2> HIDE DEF before, all, from, to
    <2>2. QED
        BY <1>1, <1>2, <1>4, <1>6, <2>1 DEF all, from, to
<1>10. CASE page <= k - 1
    <2>1. to <= (k - 1) * limit
        BY <1>5, <1>10, ALaterPage
    <2> HIDE DEF before, all, from, to
    <2>2. QED
        BY <1>1, <1>2, <1>4, <1>6, <1>7, <2>1 DEF all, from, to
<1>11. k <= page - 1 \/ k = page \/ page <= k - 1
    BY <1>5
<1>12. QED
    BY <1>8, <1>9, <1>10, <1>11

LEMMA NoVisitIsAVisit == NoVisit \in Visit
BY DiscoveryAssumption DEF NoVisit, Visit, Statements

LEMMA DiscoveryStarts == DiscoveryInit => DiscoveryInv
BY NoVisitIsAVisit, DiscoveryAssumption
   DEF DiscoveryInit, DiscoveryInv, DiscoveryTypeOK, PagesAreSeen, NoVisit

LEMMA EditStep ==
    ASSUME DiscoveryInv, NEW v \in Shops, VendorChanges(v)
    PROVE  DiscoveryInv'
<1>1. /\ shop' \in [Shops -> {"absent", "active", "inactive", "deleted"}]
      /\ \A w \in Shops : w # v => shop'[w] = shop[w]
      /\ visit' = [visit EXCEPT !.changed = visit.kind = KindOf[v] \/ @]
      /\ UNCHANGED published
    BY DEF VendorChanges, Edit, DiscoveryInv, DiscoveryTypeOK
<1>2. visit \in Visit
    BY DEF DiscoveryInv, DiscoveryTypeOK
<1>3. /\ visit' \in Visit /\ visit'.changed = (visit.kind = KindOf[v] \/ visit.changed)
      /\ visit'.kind = visit.kind /\ visit'.limit = visit.limit /\ visit'.page = visit.page
      /\ visit'.seen = visit.seen /\ visit'.twice = visit.twice /\ visit'.left = visit.left
      /\ visit'.last = visit.last
    BY <1>1, <1>2 DEF Visit
<1>4. DiscoveryTypeOK'
    BY <1>1, <1>3 DEF DiscoveryInv, DiscoveryTypeOK
<1>5. visit.kind = "none" => visit' = NoVisit
    <2> SUFFICES ASSUME visit.kind = "none" PROVE visit' = NoVisit
        OBVIOUS
    <2>1. visit = NoVisit /\ KindOf[v] # "none"
        BY DiscoveryAssumption DEF DiscoveryInv, Kinds
    <2>2. QED
        BY <1>1, <2>1 DEF NoVisit
<1>6. ASSUME visit.kind # "none", ~visit'.changed
      PROVE  VendorPublic(visit.kind)' = VendorPublic(visit.kind)
    <2>1. KindOf[v] # visit.kind
        BY <1>3, <1>6
    <2>2. QED
        BY <1>1, <1>3, <2>1 DEF VendorPublic
<1>7. PagesAreSeen'
    <2> SUFFICES ASSUME visit.kind # "none", ~visit'.changed PROVE PagesAreSeen'
        BY <1>3 DEF PagesAreSeen
    <2>1. VendorPublic(visit.kind)' = VendorPublic(visit.kind) /\ ~visit.changed
        BY <1>3, <1>6
    <2>2. Turned' = Turned
        BY <1>3 DEF Turned
    <2>3. QED
        BY <1>3, <2>1, <2>2 DEF DiscoveryInv, PagesAreSeen, OnOnePage, UpTo, Before
<1>8. QED
    BY <1>3, <1>4, <1>5, <1>7 DEF DiscoveryInv

LEMMA TurnPageStep ==
    ASSUME DiscoveryInv, TurnPage
    PROVE  DiscoveryInv'
<1>1. /\ visit.kind # "none" /\ visit.left = {} /\ ~visit.last /\ UNCHANGED <<shop, published>>
      /\ visit' = [visit EXCEPT !.page = visit.page + 1, !.left = Statements]
    BY DEF TurnPage
<1>2. visit \in Visit /\ visit.page \in Nat
    BY DEF DiscoveryInv, DiscoveryTypeOK, Visit
<1>3. /\ visit' \in Visit /\ visit'.kind = visit.kind /\ visit'.limit = visit.limit
      /\ visit'.page = visit.page + 1 /\ visit'.left = Statements /\ visit'.last = visit.last
      /\ visit'.seen = visit.seen /\ visit'.twice = visit.twice
      /\ visit'.changed = visit.changed
    <2> DEFINE next == visit.page + 1
    <2>1. next \in Nat
        BY <1>2
    <2>2. visit' = [visit EXCEPT !.page = next, !.left = Statements]
        BY <1>1
    <2> HIDE DEF next
    <2>3. /\ visit' \in Visit /\ visit'.kind = visit.kind /\ visit'.limit = visit.limit
          /\ visit'.page = next /\ visit'.left = Statements /\ visit'.last = visit.last
          /\ visit'.seen = visit.seen /\ visit'.twice = visit.twice
          /\ visit'.changed = visit.changed
        BY <1>2, <2>1, <2>2 DEF Visit
    <2>4. QED
        BY <2>3 DEF next
<1>4. VendorPublic(visit.kind)' = VendorPublic(visit.kind)
    BY <1>1, <1>3 DEF VendorPublic
<1>5. Turned' = Turned
    BY <1>1, <1>2, <1>3 DEF Turned, Statements
<1>6. PagesAreSeen'
    BY <1>1, <1>3, <1>4, <1>5 DEF DiscoveryInv, PagesAreSeen, OnOnePage, UpTo, Before
<1>7. QED
    BY <1>1, <1>2, <1>3, <1>6 DEF DiscoveryInv, DiscoveryTypeOK

LEMMA PageRowsStep ==
    ASSUME DiscoveryInv, PageRows
    PROVE  DiscoveryInv'
<1>1. PICK rows \in Pages(VendorPublic(visit.kind), ByCityAndName, visit.page, visit.limit) :
         visit' = [visit EXCEPT !.left = visit.left \ {"rows"},
                      !.seen = visit.seen \cup IsPublic(rows),
                      !.twice = visit.twice \cup (IsPublic(rows) \cap visit.seen)]
    BY DEF PageRows
<1>2. "rows" \in visit.left /\ UNCHANGED <<shop, published>>
    BY DEF PageRows
<1>3. visit \in Visit /\ visit.page \in Nat \ {0} /\ visit.limit \in Nat \ {0}
    BY <1>2, DiscoveryAssumption DEF DiscoveryInv, DiscoveryTypeOK, Visit
<1> DEFINE public == VendorPublic(visit.kind)
           shown == IsPublic(rows)
<1>4. public \subseteq Shops
    BY PublicIsFinite
<1>5. rows \subseteq public
    BY DEF Pages
<1>6. shown \subseteq public \cap Named
    BY <1>5 DEF IsPublic
<1> HIDE DEF public
<1>7. /\ visit' \in Visit /\ visit'.kind = visit.kind /\ visit'.limit = visit.limit
      /\ visit'.page = visit.page /\ visit'.left = visit.left \ {"rows"}
      /\ visit'.last = visit.last /\ visit'.changed = visit.changed
      /\ visit'.seen = visit.seen \cup shown
      /\ visit'.twice = visit.twice \cup (shown \cap visit.seen)
    <2> DEFINE left == visit.left \ {"rows"}
               seen1 == visit.seen \cup shown
               twice1 == visit.twice \cup (shown \cap visit.seen)
    <2>1. left \in SUBSET Statements /\ seen1 \in SUBSET Shops /\ twice1 \in SUBSET Shops
        BY <1>3, <1>4, <1>6 DEF Visit
    <2>2. visit' = [visit EXCEPT !.left = left, !.seen = seen1, !.twice = twice1]
        BY <1>1
    <2> HIDE DEF left, seen1, twice1
    <2>3. /\ visit' \in Visit /\ visit'.kind = visit.kind /\ visit'.limit = visit.limit
          /\ visit'.page = visit.page /\ visit'.left = left /\ visit'.last = visit.last
          /\ visit'.changed = visit.changed /\ visit'.seen = seen1 /\ visit'.twice = twice1
        BY <1>3, <2>1, <2>2 DEF Visit
    <2>4. QED
        BY <2>3 DEF left, seen1, twice1
<1>8. VendorPublic(visit.kind)' = public
    BY <1>2, <1>7 DEF public, VendorPublic
<1>9. visit.kind # "none"
    BY <1>2 DEF DiscoveryInv, NoVisit
<1>10. PagesAreSeen'
    <2> SUFFICES ASSUME ~visit.changed
                 PROVE  /\ visit'.seen \subseteq public \cap Named
                        /\ \A v \in public \cap Named :
                              OnOnePage(v, public, visit.limit) =>
                                 /\ v \notin visit'.twice
                                 /\ v \in visit'.seen <=>
                                       Cardinality(UpTo(v, public)) <= visit.page * visit.limit
                        /\ visit.last => visit.page * visit.limit >= Cardinality(public)
        <3>1. Turned' = visit.page * visit.limit
            BY <1>7 DEF Turned
        <3>2. QED
            BY <1>7, <1>8, <3>1 DEF PagesAreSeen, OnOnePage, UpTo, Before
    <2>1. Turned = (visit.page - 1) * visit.limit
        BY <1>2 DEF Turned
    <2>2. /\ visit.seen \subseteq public \cap Named
          /\ \A v \in public \cap Named :
                OnOnePage(v, public, visit.limit) =>
                   /\ v \notin visit.twice
                   /\ v \in visit.seen <=>
                         Cardinality(UpTo(v, public)) <= (visit.page - 1) * visit.limit
          /\ visit.last => visit.page * visit.limit >= Cardinality(public)
        BY <1>9, <2>1 DEF DiscoveryInv, PagesAreSeen, public
    <2>3. ASSUME NEW v \in public \cap Named, OnOnePage(v, public, visit.limit)
          PROVE  /\ v \notin visit'.twice
                 /\ v \in visit'.seen <=>
                       Cardinality(UpTo(v, public)) <= visit.page * visit.limit
        <3> DEFINE all == Cardinality(UpTo(v, public))
                   from == (visit.page - 1) * visit.limit
                   to == visit.page * visit.limit
        <3>1. v \in rows <=> ~(all <= from) /\ all <= to
            BY <1>3, <2>3, OnThatPage DEF public
        <3>2. all \in Nat
            BY <2>3, RankOfARow DEF public
        <3>3. from \in Nat /\ to \in Nat /\ from <= to
            BY <1>3, ALaterPage
        <3>4. v \in shown <=> v \in rows
            BY <2>3 DEF IsPublic
        <3>5. v \in visit.seen <=> all <= from
            BY <2>2, <2>3
        <3>6. v \notin visit.twice
            BY <2>2, <2>3
        <3> HIDE DEF all, from, to, shown
        <3>7. v \notin visit'.twice
            BY <1>7, <3>1, <3>4, <3>5, <3>6
        <3>8. v \in visit'.seen <=> all <= to
            BY <1>7, <3>1, <3>2, <3>3, <3>4, <3>5
        <3>9. QED
            BY <3>7, <3>8 DEF all, to
    <2>4. QED
        BY <1>6, <1>7, <2>2, <2>3
<1>11. DiscoveryTypeOK'
    BY <1>2, <1>7 DEF DiscoveryInv, DiscoveryTypeOK
<1>12. QED
    BY <1>3, <1>7, <1>9, <1>10, <1>11 DEF DiscoveryInv

LEMMA PageCountStep ==
    ASSUME DiscoveryInv, PageCount
    PROVE  DiscoveryInv'
<1> DEFINE over == visit.page * visit.limit >= Cardinality(VendorPublic(visit.kind))
<1>1. /\ "count" \in visit.left /\ UNCHANGED <<shop, published>>
      /\ visit' = [visit EXCEPT !.left = visit.left \ {"count"}, !.last = over]
    BY DEF PageCount
<1>2. over \in BOOLEAN
    OBVIOUS
<1>3. visit \in Visit
    BY DEF DiscoveryInv, DiscoveryTypeOK
<1> HIDE DEF over
<1>4. /\ visit' \in Visit /\ visit'.kind = visit.kind /\ visit'.limit = visit.limit
      /\ visit'.page = visit.page /\ visit'.left = visit.left \ {"count"}
      /\ visit'.last = over /\ visit'.changed = visit.changed
      /\ visit'.seen = visit.seen /\ visit'.twice = visit.twice
    BY <1>1, <1>2, <1>3 DEF Visit
<1>5. visit.kind # "none" /\ visit.page # 0
    BY <1>1 DEF DiscoveryInv, NoVisit
<1>6. VendorPublic(visit.kind)' = VendorPublic(visit.kind)
    BY <1>1, <1>4 DEF VendorPublic
<1>7. Turned' = Turned
    BY <1>4 DEF Turned
<1>8. over => visit.page * visit.limit >= Cardinality(VendorPublic(visit.kind))
    BY DEF over
<1>9. PagesAreSeen'
    BY <1>4, <1>5, <1>6, <1>7, <1>8 DEF DiscoveryInv, PagesAreSeen, OnOnePage, UpTo, Before
<1>10. QED
    BY <1>1, <1>4, <1>5, <1>9 DEF DiscoveryInv, DiscoveryTypeOK

LEMMA OpenCatalogStep ==
    ASSUME DiscoveryInv, NEW kind \in Bookable, NEW limit \in 1 .. PageSize,
           OpenCatalog(kind, limit)
    PROVE  DiscoveryInv'
<1>1. /\ visit' = [NoVisit EXCEPT !.kind = kind, !.limit = limit]
      /\ UNCHANGED <<shop, published>>
    BY DEF OpenCatalog
<1>2. PageSize \in Nat \ {0} /\ limit \in Nat \ {0}
    BY DiscoveryAssumption
<1>3. kind \in Kinds /\ kind # "none"
    BY DEF Bookable, Kinds
<1>4. NoVisit \in Visit
    BY NoVisitIsAVisit
<1>5. /\ visit' \in Visit /\ visit'.kind = kind /\ visit'.limit = limit /\ visit'.page = 0
      /\ visit'.seen = {} /\ visit'.twice = {} /\ visit'.left = {} /\ ~visit'.last
    BY <1>1, <1>3, <1>4 DEF Visit, NoVisit
<1>6. Turned' = 0
    <2>1. 0 * limit = 0
        BY <1>2
    <2>2. QED
        BY <1>5, <2>1 DEF Turned
<1>7. VendorPublic(kind)' = VendorPublic(kind) /\ VendorPublic(visit.kind)' = VendorPublic(kind)
    BY <1>1, <1>5 DEF VendorPublic
<1>8. \A v \in VendorPublic(kind) : ~(Cardinality(UpTo(v, VendorPublic(kind))) <= 0)
    <2> SUFFICES ASSUME NEW v \in VendorPublic(kind)
                 PROVE  ~(Cardinality(UpTo(v, VendorPublic(kind))) <= 0)
        OBVIOUS
    <2>1. v \in UpTo(v, VendorPublic(kind))
        BY PublicIsFinite, DiscoveryAssumption DEF UpTo
    <2>2. IsFiniteSet(UpTo(v, VendorPublic(kind)))
        BY PublicIsFinite, FS_Subset DEF UpTo
    <2>3. Cardinality(UpTo(v, VendorPublic(kind))) \in Nat
          /\ Cardinality(UpTo(v, VendorPublic(kind))) # 0
        BY <2>1, <2>2, FS_CardinalityType, FS_EmptySet
    <2>4. QED
        BY <2>3
<1>9. PagesAreSeen'
    BY <1>5, <1>6, <1>7, <1>8 DEF PagesAreSeen, UpTo
<1>10. QED
    BY <1>1, <1>3, <1>5, <1>9 DEF DiscoveryInv, DiscoveryTypeOK

LEMMA CloseCatalogStep ==
    ASSUME DiscoveryInv, CloseCatalog
    PROVE  DiscoveryInv'
<1>1. visit' = NoVisit /\ UNCHANGED <<shop, published>>
    BY DEF CloseCatalog
<1>2. NoVisit \in Visit
    BY NoVisitIsAVisit
<1>3. QED
    BY <1>1, <1>2 DEF DiscoveryInv, DiscoveryTypeOK, PagesAreSeen, NoVisit

LEMMA DiscoveryRests ==
    ASSUME DiscoveryInv, UNCHANGED <<shop, visit>>, published' \subseteq Sights
    PROVE  DiscoveryInv'
<1>1. VendorPublic(visit.kind)' = VendorPublic(visit.kind) /\ Turned' = Turned
    BY DEF VendorPublic, Turned
<1>2. QED
    BY <1>1 DEF DiscoveryInv, DiscoveryTypeOK, PagesAreSeen, OnOnePage, UpTo, Before

LEMMA DiscoveryStep == DiscoveryInv /\ [DiscoveryNext]_discoveryVars => DiscoveryInv'
<1> SUFFICES ASSUME DiscoveryInv, [DiscoveryNext]_discoveryVars PROVE DiscoveryInv'
    OBVIOUS
<1>1. CASE UNCHANGED discoveryVars
    BY <1>1, DiscoveryRests DEF discoveryVars, DiscoveryInv, DiscoveryTypeOK
<1>2. CASE Publish
    BY <1>2, DiscoveryRests DEF Publish
<1>3. QED
    BY <1>1, <1>2, EditStep, OpenCatalogStep, TurnPageStep, PageRowsStep, PageCountStep,
       CloseCatalogStep DEF DiscoveryNext

\* Nothing is listed that has no page of its own.
LEMMA WhatIsListedOpens == OnShow \subseteq GetPlace
<1> DEFINE Open == {v \in Named : shop[v] = "active"}
<1> DEFINE Listed == {v \in Shops : shop[v] = "active"}
<1>a. \A rows, key, page, limit : MayShow(rows, key, page, limit) \subseteq rows
    BY DEF MayShow, Pages
<1>b. \A kind : VendorPublic(kind) \subseteq Listed
    BY DEF VendorPublic
<1>c. \A rows : IsPublic(rows) = rows \cap Named
    BY DEF IsPublic
<1>d. Listed \cap Named \subseteq Open
    OBVIOUS
<1> HIDE DEF Open, Listed
<1>1. \A kind, key, take : Rail(kind, key, take) \subseteq Open
    BY <1>a, <1>b, <1>c, <1>d DEF Rail
<1>2. \A kind, page, limit : ListVendorCatalog(kind, page, limit) \subseteq Open
    BY <1>a, <1>b, <1>c, <1>d DEF ListVendorCatalog
<1>3. \A page, limit : ListRestaurants(page, limit) \subseteq Open \cup published
    BY <1>a, <1>b, <1>c, <1>d DEF ListRestaurants
<1>4. HomeFeed \subseteq Open \cup published
    BY <1>1 DEF HomeFeed
<1>5. \A category : ListPlaces(category) \subseteq Open \cup published
    BY <1>1 DEF ListPlaces
<1>6. \A filter : ListDestinations(filter) \subseteq Open \cup published
    BY <1>1 DEF ListDestinations, VendorDestinations
<1>7. Search \subseteq Open \cup published
    BY <1>2, <1>3 DEF Search
<1>8. ASSUME NEW x \in OnShow PROVE x \in Open \cup published
    <2>1. \/ x \in HomeFeed \/ x \in Search
          \/ \E category : x \in ListPlaces(category)
          \/ \E filter : x \in ListDestinations(filter)
          \/ \E kind : x \in ListVendorCatalog(kind, 1, PageSize)
        BY DEF OnShow
    <2>2. QED
        BY <1>2, <1>4, <1>5, <1>6, <1>7, <2>1
<1>9. QED
    BY <1>8 DEF GetPlace, Open

\* However vendors and pages change, a visit keeps its place, limit and vendors seen.
THEOREM DiscoveryTypeCorrect == DiscoverySpec => []DiscoveryTypeOK
<1>1. DiscoveryInv => DiscoveryTypeOK
    BY DEF DiscoveryInv
<1>2. QED
    BY DiscoveryStarts, DiscoveryStep, <1>1, PTL DEF DiscoverySpec

\* What any list shows can be opened; and whoever turns the pages of a catalogue
\* that nobody changes meets each vendor once whose namesakes share a page with it,
\* whatever the limit, however each query orders those, and however many rows a page
\* drops after it was counted off.
THEOREM ListsAreOne == DiscoverySpec => []ListsAgree
<1>1. DiscoveryInv => ListsAgree
    <2> SUFFICES ASSUME DiscoveryInv PROVE ListsAgree
        OBVIOUS
    <2> DEFINE rows == VendorPublic(visit.kind)
    <2>1. ASSUME visit.kind # "none", ~visit.changed
          PROVE  /\ visit.seen \subseteq rows \cap Named
                 /\ \A v \in rows \cap Named : OnOnePage(v, rows, visit.limit) =>
                       /\ v \notin visit.twice
                       /\ visit.last /\ visit.left = {} => v \in visit.seen
        <3>1. /\ visit.seen \subseteq rows \cap Named
              /\ \A v \in rows \cap Named : OnOnePage(v, rows, visit.limit) =>
                    /\ v \notin visit.twice
                    /\ v \in visit.seen <=> Cardinality(UpTo(v, rows)) <= Turned
              /\ visit.last => visit.page * visit.limit >= Cardinality(rows)
            BY <2>1 DEF DiscoveryInv, PagesAreSeen
        <3>2. ASSUME NEW v \in rows, visit.last, visit.left = {}
              PROVE  Cardinality(UpTo(v, rows)) <= Turned
            <4>1. Turned = visit.page * visit.limit
                BY <3>2 DEF Turned
            <4>2. visit.page \in Nat /\ visit.limit \in Nat
                BY DiscoveryAssumption DEF DiscoveryInv, DiscoveryTypeOK, Visit
            <4>3. Turned \in Nat
                BY <4>1, <4>2
            <4>4. IsFiniteSet(rows) /\ Cardinality(rows) \in Nat
                BY PublicIsFinite
            <4>5. UpTo(v, rows) \subseteq rows
                BY DEF UpTo
            <4> HIDE DEF rows
            <4>6. /\ Cardinality(UpTo(v, rows)) \in Nat
                  /\ Cardinality(UpTo(v, rows)) <= Cardinality(rows)
                BY <4>4, <4>5, FS_Subset, FS_CardinalityType
            <4>7. Turned >= Cardinality(rows)
                BY <3>1, <3>2, <4>1
            <4>8. QED
                BY <4>3, <4>4, <4>6, <4>7
        <3>3. QED
            BY <3>1, <3>2
    <2>2. QED
        BY <2>1, WhatIsListedOpens DEF ListsAgree
<1>2. QED
    BY DiscoveryStarts, DiscoveryStep, <1>1, PTL DEF DiscoverySpec
-----------------------------------------------------------------------------
(* One trip's program.                                                     *)

PlansShape ==
    /\ PlanRowsOK
    /\ \A e \in Entries : entry[e].day = 0 => entry[e] = NoEntry
    /\ \A h \in Handlers :
          /\ planCall[h].step \in {"create", "assign"} => planCall[h].day \in Days
          /\ planCall[h].step = "move" => planCall[h].entry \in Entries
                                          /\ planCall[h].entry2 \in Entries

\* A vendor's booking is attached to an item that is there, and then it is booked.
Attached ==
    \A s \in Services : service[s].item # None =>
        service[s].item \in Entries /\ entry[service[s].item] # NoEntry /\ service[s].day \in Days

\* Calls that do not overlap write what they found to be so: a place that is free,
\* two neighbours' places.
OneCallAtATime ==
    \A g, h \in Handlers : planCall[g] # NoPlanCall /\ planCall[h] # NoPlanCall => g = h
FindsItSo(call) ==
    /\ call.step \in {"create", "assign"} =>
          \A e \in Entries : entry[e] # [day |-> call.day, place |-> call.place]
    /\ call.step = "move" =>
          /\ call.entry # call.entry2
          /\ \/ entry[call.entry] = NoEntry \/ entry[call.entry2] = NoEntry
             \/ /\ entry[call.entry].day = entry[call.entry2].day
                /\ call.place = entry[call.entry2].place
                /\ call.place2 = entry[call.entry].place
Tidy ==
    ~untidy => /\ OneCallAtATime
               /\ \A h \in Handlers : FindsItSo(planCall[h])
               /\ \A e, x \in Entries : entry[e] # NoEntry /\ entry[e] = entry[x] => e = x

PlansInv == PlansShape /\ Attached /\ Tidy

LEMMA NoPlanCallShape ==
    /\ NoPlanCall \in PlanCall /\ NoPlanCall.step = "idle"
    /\ NoEntry \in Entry /\ NoEntry.day = 0
BY PlansAssumption DEF NoPlanCall, PlanCall, NoEntry, Entry, Places

LEMMA PlansStart == PlansInit => PlansInv
<1> SUFFICES ASSUME PlansInit PROVE PlansInv
    OBVIOUS
<1>1. /\ \A e \in Entries : entry[e] = NoEntry
      /\ \A h \in Handlers : planCall[h] = NoPlanCall
      /\ \A s \in Services : service[s].item = None
    BY DEF PlansInit
<1>2. PlanRowsOK
    <2>1. [day |-> 0, item |-> None] \in Service
        BY PlansAssumption DEF Service
    <2>2. QED
        BY <2>1, NoPlanCallShape DEF PlansInit, PlanRowsOK
<1>3. PlansShape /\ Attached
    BY <1>1, <1>2, NoPlanCallShape DEF PlansShape, Attached
<1>4. Tidy
    BY <1>1, NoPlanCallShape DEF Tidy, OneCallAtATime, FindsItSo
<1>5. QED
    BY <1>3, <1>4 DEF PlansInv

\* The place after the last of a day is free.
LEMMA AfterIsFree ==
    ASSUME PlansShape, NEW d \in Days
    PROVE  \A e \in On(d) : entry[e].place # After(d)
<1> SUFFICES ASSUME On(d) # {} PROVE \A e \in On(d) : entry[e].place # After(d)
    OBVIOUS
<1> DEFINE B == {p \in Nat : \A e \in On(d) : entry[e].place <= p}
           IsLast(p) == (\E e \in On(d) : entry[e].place = p)
                        /\ \A e \in On(d) : entry[e].place <= p
<1>1. \A e \in On(d) : entry[e].place \in 0 .. MaxPlace
    BY DEF PlansShape, PlanRowsOK, On, Entry, Places
<1>2. MaxPlace \in B
    BY <1>1, PlansAssumption
<1>3. PICK m \in B : \A k \in B : m <= k
    BY <1>2, LeastNumber
<1>4. \E p \in Places : IsLast(p)
    <2>1. m \in Nat /\ \A e \in On(d) : entry[e].place <= m
        BY <1>3
    <2>2. \E e \in On(d) : entry[e].place = m
        <3> SUFFICES ASSUME \A e \in On(d) : entry[e].place # m PROVE FALSE
            OBVIOUS
        <3>1. PICK e \in On(d) : TRUE
            OBVIOUS
        <3>2. m - 1 \in Nat /\ \A x \in On(d) : entry[x].place <= m - 1
            BY <1>1, <2>1, <3>1
        <3>3. m - 1 \in B
            BY <3>2
        <3>4. QED
            BY <1>3, <2>1, <3>3
    <2>3. QED
        BY <1>1, <2>1, <2>2 DEF Places
<1>5. PICK p \in Places : p = (CHOOSE q \in Places : IsLast(q)) /\ IsLast(p)
    BY <1>4
<1>6. After(d) = 1 + p
    BY <1>5 DEF After
<1>7. p \in Nat
    BY PlansAssumption DEF Places
<1>8. QED
    BY <1>1, <1>5, <1>6, <1>7
LEMMA PlanCallGoes ==
    ASSUME PlansInv, NEW h \in Handlers, NEW call \in PlanCall, PlanGoes(h, call)
    PROVE  /\ planCall' \in [Handlers -> PlanCall] /\ planCall'[h] = call
           /\ \A g \in Handlers \ {h} : planCall'[g] = planCall[g]
BY DEF PlansInv, PlansShape, PlanRowsOK, PlanGoes

\* A call begins, alone in a tidy program.
LEMMA PlanCallBegins ==
    ASSUME PlansInv, NEW h \in Handlers, NEW call \in PlanCall, PlanGoes(h, call),
           planCall[h] = NoPlanCall,
           call.step \in {"create", "assign"} => call.day \in Days,
           call.step = "move" => call.entry \in Entries /\ call.entry2 \in Entries,
           UNCHANGED <<entry, service, planned>>, untidy' \in BOOLEAN,
           ~untidy' => ~untidy /\ ~InFlight(h) /\ FindsItSo(call)
    PROVE  PlansInv'
<1>1. /\ planCall' \in [Handlers -> PlanCall] /\ planCall'[h] = call
      /\ \A g \in Handlers \ {h} : planCall'[g] = planCall[g]
    BY PlanCallGoes
<1>2. PlansShape'
    BY <1>1 DEF PlansInv, PlansShape, PlanRowsOK
<1>3. Attached'
    BY DEF PlansInv, Attached
<1>4. ASSUME ~untidy'
      PROVE  /\ OneCallAtATime' /\ \A g \in Handlers : FindsItSo(planCall[g])'
             /\ \A e, x \in Entries : entry'[e] # NoEntry /\ entry'[e] = entry'[x] => e = x
    <2>1. ~untidy /\ FindsItSo(call) /\ \A g \in Handlers \ {h} : planCall'[g] = NoPlanCall
        BY <1>1, <1>4 DEF InFlight
    <2>2. OneCallAtATime'
        BY <2>1 DEF OneCallAtATime
    <2>3. \A g \in Handlers : FindsItSo(planCall[g])'
        BY <1>1, <2>1, NoPlanCallShape DEF FindsItSo
    <2>4. QED
        BY <2>1, <2>2, <2>3 DEF PlansInv, Tidy
<1>5. QED
    BY <1>2, <1>3, <1>4 DEF PlansInv, Tidy

LEMMA FindPlaceStep ==
    ASSUME PlansInv, NEW h \in Handlers, NEW step \in {"create", "assign"}, NEW d \in Days,
           NEW p \in Places, FindPlace(h, step, d, p)
    PROVE  PlansInv'
<1> DEFINE call == [NoPlanCall EXCEPT !.step = step, !.day = d, !.place = p]
<1>1. d \in 0 .. LastDay
    BY PlansAssumption DEF Days
<1>2. /\ call \in PlanCall /\ call.step = step /\ call.day = d /\ call.place = p
    BY <1>1, NoPlanCallShape DEF PlanCall
<1>3. /\ planCall[h] = NoPlanCall /\ PlanGoes(h, call)
      /\ untidy' = (untidy \/ InFlight(h) \/ p # After(d))
      /\ UNCHANGED <<entry, service, planned>>
    BY DEF FindPlace
<1> HIDE DEF call
<1>4. ASSUME ~untidy' PROVE FindsItSo(call)
    <2>1. p = After(d)
        BY <1>3, <1>4
    <2>2. \A e \in On(d) : entry[e].place # p
        BY <2>1, AfterIsFree DEF PlansInv
    <2>3. \A e \in Entries : entry[e] # [day |-> d, place |-> p]
        BY <2>2 DEF On
    <2>4. QED
        BY <1>2, <2>3 DEF FindsItSo
<1>5. untidy' \in BOOLEAN
    BY <1>3 DEF PlansInv, PlansShape, PlanRowsOK, InFlight
<1>6. QED
    BY <1>2, <1>3, <1>4, <1>5, PlanCallBegins

LEMMA MoveItemStep ==
    ASSUME PlansInv, NEW h \in Handlers, NEW e \in Entries, NEW up \in BOOLEAN,
           MoveItem(h, e, up)
    PROVE  PlansInv'
<1>1. PICK x \in Neighbours(e, up) :
          PlanGoes(h, [NoPlanCall EXCEPT
              !.step = "move", !.entry = e, !.place = entry[x].place,
              !.entry2 = x, !.place2 = entry[e].place])
    BY DEF MoveItem
<1> DEFINE call == [NoPlanCall EXCEPT
              !.step = "move", !.entry = e, !.place = entry[x].place,
              !.entry2 = x, !.place2 = entry[e].place]
<1>2. x \in Entries /\ x # e /\ entry[x].day = entry[e].day
    BY <1>1 DEF Neighbours, On
<1>3. entry[x].place \in Places /\ entry[e].place \in Places
    BY <1>2 DEF PlansInv, PlansShape, PlanRowsOK, Entry
<1>4. /\ call \in PlanCall /\ call.step = "move" /\ call.entry = e /\ call.entry2 = x
      /\ call.place = entry[x].place /\ call.place2 = entry[e].place
    BY <1>2, <1>3, NoPlanCallShape DEF PlanCall
<1> HIDE DEF call
<1>5. /\ planCall[h] = NoPlanCall /\ PlanGoes(h, call)
      /\ untidy' = (untidy \/ InFlight(h)) /\ UNCHANGED <<entry, service, planned>>
    BY <1>1 DEF MoveItem, call
<1>6. FindsItSo(call)
    BY <1>2, <1>4 DEF FindsItSo
<1>7. untidy' \in BOOLEAN
    BY <1>5 DEF PlansInv, PlansShape, PlanRowsOK, InFlight
<1>8. QED
    BY <1>2, <1>4, <1>5, <1>6, <1>7, PlanCallBegins

\* The call of a handler ends, in a tidy program the only one.
LEMMA PlanCallEnds ==
    ASSUME PlansInv, NEW h \in Handlers, PlanEnds(h)
    PROVE  /\ planCall' \in [Handlers -> PlanCall]
           /\ \A g \in Handlers : planCall'[g] = planCall[g] \/ planCall'[g] = NoPlanCall
           /\ ~untidy /\ planCall[h] # NoPlanCall =>
                 \A g \in Handlers : planCall'[g] = NoPlanCall
<1>1. /\ planCall' \in [Handlers -> PlanCall] /\ planCall'[h] = NoPlanCall
      /\ \A g \in Handlers \ {h} : planCall'[g] = planCall[g]
    BY PlanCallGoes, NoPlanCallShape DEF PlanEnds
<1>2. QED
    BY <1>1 DEF PlansInv, Tidy, OneCallAtATime

\* A step that leaves no call in flight in a tidy program.
LEMMA PlanStepEnds ==
    ASSUME PlansInv, planCall' \in [Handlers -> PlanCall],
           \A g \in Handlers : planCall'[g] = planCall[g] \/ planCall'[g] = NoPlanCall,
           entry' \in [Entries -> Entry],
           \A e \in Entries : entry'[e].day = 0 => entry'[e] = NoEntry,
           service' \in [Services -> Service], Attached',
           planned' \subseteq Days, untidy' \in BOOLEAN,
           ~untidy' =>
              /\ \A g \in Handlers : planCall'[g] = NoPlanCall
              /\ \A e, x \in Entries : entry'[e] # NoEntry /\ entry'[e] = entry'[x] => e = x
    PROVE  PlansInv'
<1>1. PlansShape'
    BY NoPlanCallShape DEF PlansInv, PlansShape, PlanRowsOK
<1>2. Tidy'
    BY NoPlanCallShape DEF Tidy, OneCallAtATime, FindsItSo
<1>3. QED
    BY <1>1, <1>2 DEF PlansInv

\* A row is created at the place that was found.
LEMMA RowCreated ==
    ASSUME PlansInv, NEW h \in Handlers, planCall[h].step \in {"create", "assign"},
           NEW e \in Entries, entry[e] = NoEntry,
           entry' = [entry EXCEPT ![e] = [day |-> planCall[h].day,
                                          place |-> planCall[h].place]]
    PROVE  /\ entry' \in [Entries -> Entry] /\ entry'[e] # NoEntry
           /\ entry'[e].day \in Days
           /\ \A x \in Entries \ {e} : entry'[x] = entry[x]
           /\ \A x \in Entries : entry'[x].day = 0 => entry'[x] = NoEntry
           /\ ~untidy => \A w, x \in Entries :
                            entry'[w] # NoEntry /\ entry'[w] = entry'[x] => w = x
<1> DEFINE row == [day |-> planCall[h].day, place |-> planCall[h].place]
<1>1. planCall[h].day \in Days /\ planCall[h].place \in Places
    BY DEF PlansInv, PlansShape, PlanRowsOK, PlanCall
<1>2. row \in Entry /\ row.day \in Days /\ row.day # 0
    BY <1>1, PlansAssumption DEF Entry, Days
<1>3. ~untidy => \A x \in Entries : entry[x] # row
    BY DEF PlansInv, Tidy, FindsItSo
<1> HIDE DEF row
<1>4. /\ entry' \in [Entries -> Entry] /\ entry'[e] = row
      /\ \A x \in Entries \ {e} : entry'[x] = entry[x]
    BY <1>2 DEF row, PlansInv, PlansShape, PlanRowsOK
<1>5. row # NoEntry
    BY <1>2, NoPlanCallShape
<1>6. QED
    BY <1>2, <1>3, <1>4, <1>5 DEF PlansInv, PlansShape, Tidy

LEMMA CreateItemStep ==
    ASSUME PlansInv, NEW h \in Handlers, NEW e \in Entries, CreateItem(h, e)
    PROVE  PlansInv'
<1>1. /\ planCall[h].step = "create" /\ planCall[h] # NoPlanCall /\ PlanEnds(h)
      /\ UNCHANGED <<service, planned, untidy>>
    BY NoPlanCallShape DEF CreateItem, ItemsBecome
<1>2. /\ entry' \in [Entries -> Entry] /\ entry'[e] # NoEntry
      /\ \A x \in Entries \ {e} : entry'[x] = entry[x]
      /\ \A x \in Entries : entry'[x].day = 0 => entry'[x] = NoEntry
      /\ ~untidy => \A w, x \in Entries :
                       entry'[w] # NoEntry /\ entry'[w] = entry'[x] => w = x
    BY <1>1, RowCreated DEF CreateItem, ItemsBecome, NewEntry, Fresh
<1>3. Attached'
    BY <1>1, <1>2 DEF PlansInv, Attached
<1>4. /\ service \in [Services -> Service] /\ planned \subseteq Days /\ untidy \in BOOLEAN
    BY DEF PlansInv, PlansShape, PlanRowsOK
<1>5. QED
    BY <1>1, <1>2, <1>3, <1>4, PlanCallEnds, PlanStepEnds

LEMMA AssignAppendedStep ==
    ASSUME PlansInv, NEW h \in Handlers, NEW e \in Entries, NEW s \in Services,
           AssignAppended(h, e, s)
    PROVE  PlansInv'
<1>1. /\ planCall[h].step = "assign" /\ planCall[h] # NoPlanCall /\ PlanEnds(h)
      /\ UNCHANGED <<planned, untidy>>
    BY NoPlanCallShape DEF AssignAppended
<1>2. /\ entry' \in [Entries -> Entry] /\ entry'[e] # NoEntry
      /\ \A x \in Entries \ {e} : entry'[x] = entry[x]
      /\ \A x \in Entries : entry'[x].day = 0 => entry'[x] = NoEntry
      /\ ~untidy => \A w, x \in Entries :
                       entry'[w] # NoEntry /\ entry'[w] = entry'[x] => w = x
    BY <1>1, RowCreated DEF AssignAppended, BothBecome, NewEntry, Fresh
<1>3. /\ service \in [Services -> Service] /\ planned \subseteq Days /\ untidy \in BOOLEAN
    BY DEF PlansInv, PlansShape, PlanRowsOK
<1>4. planCall[h].day \in Days /\ planCall[h].day \in 0 .. LastDay
    BY <1>1 DEF PlansInv, PlansShape, PlanRowsOK, PlanCall
<1>5. [day |-> planCall[h].day, item |-> e] \in Service
    BY <1>4 DEF Service
<1>6. /\ service' \in [Services -> Service]
      /\ service'[s] = [day |-> planCall[h].day, item |-> e]
      /\ \A r \in Services \ {s} : service'[r] = service[r]
    BY <1>3, <1>5 DEF AssignAppended, BothBecome
<1>7. Attached'
    <2>1. ASSUME NEW r \in Services, service'[r].item # None
          PROVE  /\ service'[r].item \in Entries /\ entry'[service'[r].item] # NoEntry
                 /\ service'[r].day \in Days
        <3>1. CASE r = s
            BY <1>2, <1>4, <1>6, <3>1
        <3>2. CASE r # s
            BY <1>2, <1>6, <2>1, <3>2 DEF PlansInv, Attached
        <3>3. QED
            BY <3>1, <3>2
    <2>2. QED
        BY <2>1 DEF Attached
<1>8. QED
    BY <1>1, <1>2, <1>3, <1>6, <1>7, PlanCallEnds, PlanStepEnds

\* A step of the vendors or the day plans alone.
LEMMA ItemsRest ==
    ASSUME PlansInv, UNCHANGED <<entry, planCall, untidy>>,
           service' \in [Services -> Service], Attached', planned' \subseteq Days
    PROVE  PlansInv'
<1>1. PlansShape'
    BY DEF PlansInv, PlansShape, PlanRowsOK
<1>2. Tidy'
    BY DEF PlansInv, Tidy, OneCallAtATime, FindsItSo
<1>3. QED
    BY <1>1, <1>2 DEF PlansInv

LEMMA AssignVendorStep ==
    ASSUME PlansInv, NEW s \in Services, NEW d \in Days, NEW e \in Entries \cup {None},
           AssignVendor(s, d, e)
    PROVE  PlansInv'
<1>1. d \in 0 .. LastDay
    BY PlansAssumption DEF Days
<1>2. [day |-> d, item |-> e] \in Service
    BY <1>1 DEF Service
<1>3. service \in [Services -> Service] /\ planned \subseteq Days
    BY DEF PlansInv, PlansShape, PlanRowsOK
<1>4. /\ service' \in [Services -> Service] /\ service'[s] = [day |-> d, item |-> e]
      /\ \A r \in Services \ {s} : service'[r] = service[r]
    BY <1>2, <1>3 DEF AssignVendor, ServicesBecome
<1>5. Attached'
    BY <1>4 DEF AssignVendor, ServicesBecome, PlansInv, Attached
<1>6. QED
    BY <1>3, <1>4, <1>5, ItemsRest DEF AssignVendor, ServicesBecome

LEMMA UpdateBookingStep ==
    ASSUME PlansInv, NEW s \in Services, NEW d \in Days, UpdateBooking(s, d)
    PROVE  PlansInv'
<1>1. d \in 0 .. LastDay
    BY PlansAssumption DEF Days
<1>2. service \in [Services -> Service] /\ planned \subseteq Days
    BY DEF PlansInv, PlansShape, PlanRowsOK
<1>3. /\ service' \in [Services -> Service]
      /\ service'[s].day = d /\ service'[s].item = service[s].item
      /\ \A r \in Services \ {s} : service'[r] = service[r]
    BY <1>1, <1>2 DEF UpdateBooking, ServicesBecome, Service
<1>4. Attached'
    BY <1>3 DEF UpdateBooking, ServicesBecome, PlansInv, Attached
<1>5. QED
    BY <1>2, <1>3, <1>4, ItemsRest DEF UpdateBooking, ServicesBecome

LEMMA UpsertDayPlanStep ==
    ASSUME PlansInv, NEW d \in Days, UpsertDayPlan(d)
    PROVE  PlansInv'
<1>1. service' \in [Services -> Service] /\ planned' \subseteq Days
    BY DEF PlansInv, PlansShape, PlanRowsOK, UpsertDayPlan
<1>2. Attached'
    BY DEF PlansInv, Attached, UpsertDayPlan
<1>3. QED
    BY <1>1, <1>2, ItemsRest DEF UpsertDayPlan

LEMMA UpdateItemStep ==
    ASSUME PlansInv, NEW e \in Entries, NEW d \in Days, NEW p \in Places, UpdateItem(e, d, p)
    PROVE  PlansInv'
<1> DEFINE row == [day |-> d, place |-> p]
<1>1. row \in Entry /\ row.day # 0
    BY PlansAssumption DEF Entry, Days
<1>2. row # NoEntry
    BY <1>1, NoPlanCallShape
<1> HIDE DEF row
<1>3. /\ entry' \in [Entries -> Entry] /\ entry'[e] = row
      /\ \A x \in Entries \ {e} : entry'[x] = entry[x]
    BY <1>1 DEF UpdateItem, ItemsBecome, PlansInv, PlansShape, PlanRowsOK, row
<1>4. /\ untidy' = TRUE /\ UNCHANGED <<service, planned, planCall>>
    BY DEF UpdateItem, ItemsBecome
<1>5. PlansShape'
    BY <1>1, <1>3, <1>4 DEF PlansInv, PlansShape, PlanRowsOK
<1>6. Attached' /\ Tidy'
    BY <1>2, <1>3, <1>4 DEF PlansInv, Attached, Tidy
<1>7. QED
    BY <1>5, <1>6 DEF PlansInv

LEMMA WhatDetaches ==
    ASSUME PlansInv, NEW gone \in SUBSET Entries, service' = Detached(gone)
    PROVE  /\ service' \in [Services -> Service]
           /\ \A s \in Services :
                 /\ service'[s].day = service[s].day
                 /\ service'[s].item = IF service[s].item \in gone THEN None
                                       ELSE service[s].item
<1>1. service \in [Services -> Service]
    BY DEF PlansInv, PlansShape, PlanRowsOK
<1>2. ASSUME NEW s \in Services
      PROVE  LET row == IF service[s].item \in gone THEN [service[s] EXCEPT !.item = None]
                        ELSE service[s]
             IN /\ row \in Service /\ row.day = service[s].day
                /\ row.item = IF service[s].item \in gone THEN None ELSE service[s].item
    BY <1>1 DEF Service
<1>3. QED
    BY <1>2 DEF Detached

LEMMA DeleteItemStep ==
    ASSUME PlansInv, NEW e \in Entries, DeleteItem(e)
    PROVE  PlansInv'
<1>1. /\ entry' \in [Entries -> Entry] /\ entry'[e] = NoEntry
      /\ \A x \in Entries \ {e} : entry'[x] = entry[x]
      /\ UNCHANGED <<planned, planCall, untidy>>
    BY NoPlanCallShape DEF DeleteItem, BothBecome, PlansInv, PlansShape, PlanRowsOK
<1>2. /\ service' \in [Services -> Service]
      /\ \A s \in Services :
            /\ service'[s].day = service[s].day
            /\ service'[s].item = IF service[s].item = e THEN None ELSE service[s].item
    <2>1. {e} \in SUBSET Entries /\ service' = Detached({e})
        BY DEF DeleteItem, BothBecome
    <2>2. QED
        BY <2>1, WhatDetaches
<1>3. PlansShape'
    BY <1>1, <1>2 DEF PlansInv, PlansShape, PlanRowsOK
<1>4. Attached'
    BY <1>1, <1>2 DEF PlansInv, Attached
<1>5. ASSUME ~untidy
      PROVE  /\ \A h \in Handlers : FindsItSo(planCall[h])'
             /\ \A w, x \in Entries : entry'[w] # NoEntry /\ entry'[w] = entry'[x] => w = x
    <2>1. ASSUME NEW h \in Handlers PROVE FindsItSo(planCall[h])'
        <3>1. FindsItSo(planCall[h])
            BY <1>5 DEF PlansInv, Tidy
        <3>2. planCall[h].step \in {"create", "assign"} => planCall[h].day # 0
            BY PlansAssumption DEF PlansInv, PlansShape, Days
        <3>3. \A x \in Entries : entry'[x] = entry[x] \/ entry'[x] = NoEntry
            BY <1>1
        <3>4. planCall[h].step = "move" => planCall[h].entry \in Entries
                                           /\ planCall[h].entry2 \in Entries
            BY DEF PlansInv, PlansShape
        <3>5. QED
            BY <1>1, <3>1, <3>2, <3>3, <3>4, NoPlanCallShape DEF FindsItSo
    <2>2. QED
        BY <1>1, <1>5, <2>1 DEF PlansInv, Tidy
<1>6. Tidy'
    BY <1>1, <1>5 DEF PlansInv, Tidy, OneCallAtATime
<1>7. QED
    BY <1>3, <1>4, <1>6 DEF PlansInv

LEMMA DeleteManyStep ==
    ASSUME PlansInv, NEW h \in Handlers, DeleteMany(h)
    PROVE  PlansInv'
<1> DEFINE call == [NoPlanCall EXCEPT !.step = "import",
                                      !.gone = {e \in Entries : entry[e] # NoEntry}]
<1>1. call \in PlanCall /\ call.step = "import"
    BY NoPlanCallShape DEF PlanCall
<1>2. /\ planCall[h] = NoPlanCall /\ PlanGoes(h, call)
      /\ untidy' = (untidy \/ InFlight(h)) /\ UNCHANGED <<entry, service, planned>>
    BY DEF DeleteMany
<1> HIDE DEF call
<1>3. FindsItSo(call)
    BY <1>1 DEF FindsItSo
<1>4. untidy' \in BOOLEAN
    BY <1>2 DEF PlansInv, PlansShape, PlanRowsOK, InFlight
<1>5. QED
    BY <1>1, <1>2, <1>3, <1>4, PlanCallBegins

\* What an import leaves is new, or came since it began.
LEMMA ImportStep ==
    ASSUME PlansInv, NEW h \in Handlers, NEW ids \in SUBSET Entries,
           NEW new \in [ids -> [day: Days, place: Places]], ImportItinerary(h, new)
    PROVE  PlansInv'
<1> DEFINE gone == planCall[h].gone
<1>1. /\ planCall[h].step = "import" /\ PlanEnds(h)
      /\ \A e \in ids : entry[e] = NoEntry
      /\ entry' = [e \in Entries |-> IF e \in ids THEN new[e]
                                     ELSE IF e \in gone THEN NoEntry ELSE entry[e]]
      /\ service' = Detached(gone) /\ UNCHANGED planned
      /\ untidy' = \/ \E e \in Entries \ gone : entry[e] # NoEntry
                   \/ InFlight(h)
                   \/ \E e, x \in ids : e # x /\ new[e] = new[x]
    BY DEF ImportItinerary, BothBecome, Fresh
<1>2. gone \in SUBSET Entries /\ entry \in [Entries -> Entry]
    BY DEF PlansInv, PlansShape, PlanRowsOK, PlanCall
<1> HIDE DEF gone
<1>3. \A e \in ids : new[e] \in Entry /\ new[e].day # 0
    BY PlansAssumption DEF Entry, Days
<1>4. /\ entry' \in [Entries -> Entry]
      /\ \A e \in Entries : entry'[e].day = 0 => entry'[e] = NoEntry
    BY <1>1, <1>2, <1>3, NoPlanCallShape DEF PlansInv, PlansShape
<1>5. /\ service' \in [Services -> Service]
      /\ \A s \in Services :
            /\ service'[s].day = service[s].day
            /\ service'[s].item = IF service[s].item \in gone THEN None ELSE service[s].item
    BY <1>1, <1>2, WhatDetaches
<1>6. Attached'
    <2>1. ASSUME NEW s \in Services, service'[s].item # None
          PROVE  /\ service'[s].item \in Entries /\ entry'[service'[s].item] # NoEntry
                 /\ service'[s].day \in Days
        <3>1. /\ service'[s].item = service[s].item /\ service[s].item \notin gone
              /\ service[s].item \in Entries /\ entry[service[s].item] # NoEntry
              /\ service[s].day \in Days
            BY <1>5, <2>1 DEF PlansInv, Attached
        <3>2. QED
            BY <1>1, <1>5, <3>1
    <2>2. QED
        BY <2>1 DEF Attached
<1>7. /\ planCall' \in [Handlers -> PlanCall] /\ planCall'[h] = NoPlanCall
      /\ \A g \in Handlers \ {h} : planCall'[g] = planCall[g]
    BY <1>1, PlanCallGoes, NoPlanCallShape DEF PlanEnds
<1>8. planned \subseteq Days /\ untidy' \in BOOLEAN
    BY <1>1 DEF PlansInv, PlansShape, PlanRowsOK, InFlight
<1>9. ASSUME ~untidy'
      PROVE  /\ \A g \in Handlers : planCall'[g] = NoPlanCall
             /\ \A e, x \in Entries : entry'[e] # NoEntry /\ entry'[e] = entry'[x] => e = x
    <2>1. \A g \in Handlers : planCall'[g] = NoPlanCall
        BY <1>1, <1>7, <1>9 DEF InFlight
    <2>2. \A e \in Entries \ ids : entry'[e] = NoEntry
        BY <1>1, <1>9
    <2>3. \A e \in ids : entry'[e] = new[e]
        BY <1>1
    <2>4. \A e, x \in ids : new[e] = new[x] => e = x
        BY <1>1, <1>9
    <2>5. QED
        BY <2>1, <2>2, <2>3, <2>4
<1>10. QED
    BY <1>1, <1>4, <1>5, <1>6, <1>7, <1>8, <1>9, PlanStepEnds

LEMMA MoveWriteStep ==
    ASSUME PlansInv, NEW h \in Handlers, MoveWrite(h)
    PROVE  PlansInv'
<1> DEFINE call == planCall[h]
           a == call.entry
           b == call.entry2
           Moved == [entry EXCEPT ![a].place = call.place, ![b].place = call.place2]
<1>1. /\ call.step = "move" /\ call # NoPlanCall /\ PlanEnds(h)
      /\ UNCHANGED <<service, planned, untidy>>
      /\ entry' = IF entry[a] = NoEntry \/ entry[b] = NoEntry THEN entry ELSE Moved
    BY NoPlanCallShape DEF MoveWrite, ItemsBecome
<1>2. /\ a \in Entries /\ b \in Entries /\ call.place \in Places /\ call.place2 \in Places
    BY <1>1 DEF PlansInv, PlansShape, PlanRowsOK, PlanCall
<1>3. entry \in [Entries -> Entry]
    BY DEF PlansInv, PlansShape, PlanRowsOK
<1>4. ~untidy => FindsItSo(call)
    BY DEF PlansInv, Tidy
<1> HIDE DEF call, a, b
<1>5. /\ Moved \in [Entries -> Entry]
      /\ \A e \in Entries : Moved[e].day = entry[e].day
      /\ \A e \in Entries \ {a, b} : Moved[e] = entry[e]
      /\ Moved[b].place = call.place2
      /\ a # b => Moved[a].place = call.place
    BY <1>2, <1>3 DEF Entry
<1> HIDE DEF Moved
<1>6. ASSUME entry[a] # NoEntry, entry[b] # NoEntry
      PROVE  /\ entry' \in [Entries -> Entry]
             /\ \A e \in Entries : entry'[e].day = 0 => entry'[e] = NoEntry
             /\ \A e \in Entries : entry[e] # NoEntry => entry'[e] # NoEntry
             /\ ~untidy => \A e, x \in Entries :
                              entry'[e] # NoEntry /\ entry'[e] = entry'[x] => e = x
    <2>1. entry' = Moved
        BY <1>1, <1>6
    <2>2. \A e \in Entries : entry[e].day = 0 => entry[e] = NoEntry
        BY DEF PlansInv, PlansShape
    <2>3. ASSUME NEW e \in Entries, Moved[e].day = 0 PROVE Moved[e] = NoEntry
        BY <1>5, <1>6, <2>2, <2>3
    <2>4. ASSUME NEW e \in Entries, entry[e] # NoEntry PROVE Moved[e] # NoEntry
        BY <1>5, <2>2, <2>4, NoPlanCallShape
    <2>5. ASSUME ~untidy, NEW e \in Entries, NEW x \in Entries,
                 Moved[e] # NoEntry, Moved[e] = Moved[x]
          PROVE  e = x
        <3>1. /\ a # b /\ entry[a].day = entry[b].day /\ call.place = entry[b].place
              /\ call.place2 = entry[a].place
            BY <1>1, <1>4, <1>6, <2>5 DEF FindsItSo, call, a, b
        <3> DEFINE other(y) == IF y = a THEN b ELSE IF y = b THEN a ELSE y
        <3>2. \A y \in Entries : /\ Moved[y].day = entry[other(y)].day
                                 /\ Moved[y].place = entry[other(y)].place
                                 /\ other(y) \in Entries
            BY <1>2, <1>5, <3>1
        <3>3. entry[other(e)] = entry[other(x)]
            BY <1>3, <2>5, <3>2 DEF Entry
        <3>4. entry[other(e)] # NoEntry
            BY <2>3, <2>5, <3>2, NoPlanCallShape
        <3>5. other(e) = other(x)
            BY <2>5, <3>2, <3>3, <3>4 DEF PlansInv, Tidy
        <3>6. QED
            BY <3>1, <3>5
    <2>6. QED
        BY <1>5, <2>1, <2>3, <2>4, <2>5
<1>7. /\ entry' \in [Entries -> Entry]
      /\ \A e \in Entries : entry'[e].day = 0 => entry'[e] = NoEntry
      /\ \A e \in Entries : entry[e] # NoEntry => entry'[e] # NoEntry
      /\ ~untidy => \A e, x \in Entries :
                       entry'[e] # NoEntry /\ entry'[e] = entry'[x] => e = x
    <2>1. CASE entry[a] # NoEntry /\ entry[b] # NoEntry
        BY <1>6, <2>1
    <2>2. CASE entry[a] = NoEntry \/ entry[b] = NoEntry
        BY <1>1, <1>3, <2>2 DEF PlansInv, PlansShape, Tidy
    <2>3. QED
        BY <2>1, <2>2
<1>8. Attached'
    BY <1>1, <1>7 DEF PlansInv, Attached
<1>9. /\ service \in [Services -> Service] /\ planned \subseteq Days /\ untidy \in BOOLEAN
    BY DEF PlansInv, PlansShape, PlanRowsOK
<1>10. QED
    BY <1>1, <1>7, <1>8, <1>9, PlanCallEnds, PlanStepEnds DEF call

LEMMA PlanCallFailsStep ==
    ASSUME PlansInv, NEW h \in Handlers, PlanCallFails(h)
    PROVE  PlansInv'
<1>1. /\ planCall[h] # NoPlanCall /\ PlanEnds(h)
      /\ UNCHANGED <<entry, service, planned, untidy>>
    BY DEF PlanCallFails
<1>2. Attached'
    BY <1>1 DEF PlansInv, Attached
<1>3. QED
    BY <1>1, <1>2, PlanCallEnds, PlanStepEnds DEF PlansInv, PlansShape, PlanRowsOK, Tidy

\* The guest's page changes no row.
LEMMA GuestReads ==
    ASSUME PlansInv, ItineraryIsRead \/ \E table \in Tables : ReadTable(table)
    PROVE  PlansInv'
BY ItemsRest DEF ItineraryIsRead, ReadTable, PlansInv, PlansShape, PlanRowsOK, Attached

LEMMA PlansStep == PlansInv /\ [PlansNext]_plansVars => PlansInv'
<1> SUFFICES ASSUME PlansInv, [PlansNext]_plansVars PROVE PlansInv'
    OBVIOUS
<1>1. CASE UNCHANGED plansVars
    BY <1>1, ItemsRest DEF plansVars, PlansInv, PlansShape, PlanRowsOK, Attached
<1>2. ASSUME NEW h \in Handlers,
             \/ \E d \in Days, step \in {"create", "assign"}, p \in Places :
                   FindPlace(h, step, d, p)
             \/ \E e \in Entries : \/ CreateItem(h, e)
                                   \/ \E s \in Services : AssignAppended(h, e, s)
                                   \/ \E up \in BOOLEAN : MoveItem(h, e, up)
             \/ \E ids \in SUBSET Entries :
                   \E new \in [ids -> [day: Days, place: Places]] : ImportItinerary(h, new)
             \/ DeleteMany(h) \/ MoveWrite(h) \/ PlanCallFails(h)
      PROVE  PlansInv'
    BY <1>2, FindPlaceStep, CreateItemStep, AssignAppendedStep, MoveItemStep, MoveWriteStep,
       DeleteManyStep, ImportStep, PlanCallFailsStep
<1>3. ASSUME NEW e \in Entries,
             DeleteItem(e) \/ \E d \in Days, p \in Places : UpdateItem(e, d, p)
      PROVE  PlansInv'
    BY <1>3, DeleteItemStep, UpdateItemStep
<1>4. ASSUME NEW s \in Services, NEW d \in Days,
             UpdateBooking(s, d) \/ \E e \in Entries \cup {None} : AssignVendor(s, d, e)
      PROVE  PlansInv'
    BY <1>4, UpdateBookingStep, AssignVendorStep
<1>5. QED
    BY <1>1, <1>2, <1>3, <1>4, UpsertDayPlanStep, GuestReads DEF PlansNext

\* The page, as far as it is read, agrees with the rows that nobody wrote since; and
\* the item to which a vendor's booking is attached was there when the items were
\* read, or the booking has been written.
ItineraryFits ==
    /\ itinerary \in Itinerary
    /\ "services" \notin itinerary.left =>
          \A s \in Services \ itinerary.written : itinerary.services[s] = service[s]
    /\ "items" \notin itinerary.left =>
          /\ \A e \in Entries \ itinerary.written : itinerary.days[e] = entry[e].day
          /\ \A s \in Services \ itinerary.written :
                service[s].item # None => itinerary.days[service[s].item] # 0

LEMMA NoItineraryFits ==
    /\ NoItinerary \in Itinerary /\ NoItinerary.left = Tables
    /\ {"items", "plans", "services"} = Tables
<1>1. [day |-> 0, item |-> None] \in Service /\ 0 \in 0 .. LastDay
    BY PlansAssumption DEF Service
<1>2. QED
    BY <1>1 DEF NoItinerary, Itinerary, Tables

LEMMA ItineraryStarts == PlansInit => ItineraryFits
BY NoItineraryFits DEF PlansInit, ItineraryFits

\* A write: the rows that change are remembered.
LEMMA RowsWritten ==
    ASSUME ItineraryFits, NEW rows \in SUBSET (Entries \cup Services), Written(rows),
           \A e \in Entries : entry'[e] = entry[e] \/ e \in rows,
           \A s \in Services : service'[s] = service[s] \/ s \in rows
    PROVE  ItineraryFits'
<1>1. CASE itinerary.left = Tables
    <2>1. itinerary' = [itinerary EXCEPT !.written = itinerary.written]
        BY <1>1 DEF Written
    <2>2. itinerary' \in Itinerary /\ itinerary'.left = Tables
        BY <1>1, <2>1 DEF ItineraryFits, Itinerary
    <2>3. itinerary' = itinerary
        BY <2>1 DEF ItineraryFits, Itinerary
    <2>4. QED
        BY <1>1, <2>2, <2>3 DEF ItineraryFits, Tables
<1>2. CASE itinerary.left # Tables
    <2> DEFINE written == itinerary.written \cup rows
    <2>1. written \in SUBSET (Entries \cup Services)
        BY DEF ItineraryFits, Itinerary
    <2>2. itinerary' = [itinerary EXCEPT !.written = written]
        BY <1>2 DEF Written
    <2> HIDE DEF written
    <2>3. /\ itinerary' \in Itinerary /\ itinerary'.left = itinerary.left
          /\ itinerary'.days = itinerary.days /\ itinerary'.services = itinerary.services
          /\ itinerary'.written = written
        BY <2>1, <2>2 DEF ItineraryFits, Itinerary
    <2>4. /\ \A s \in Services \ itinerary'.written :
                s \in Services \ itinerary.written /\ service'[s] = service[s]
          /\ \A e \in Entries \ itinerary'.written :
                e \in Entries \ itinerary.written /\ entry'[e] = entry[e]
        BY <2>3 DEF written
    <2>5. QED
        BY <2>3, <2>4 DEF ItineraryFits
<1>3. QED
    BY <1>1, <1>2

LEMMA TheRowsWritten ==
    ASSUME ItineraryFits
    PROVE  /\ \A new : ItemsBecome(new) => ItineraryFits'
           /\ \A new : ServicesBecome(new) => ItineraryFits'
           /\ \A items, services : BothBecome(items, services) => ItineraryFits'
<1>1. ASSUME NEW new, ItemsBecome(new) PROVE ItineraryFits'
    <2> DEFINE rows == {e \in Entries : new[e] # entry[e]}
    <2>1. /\ rows \in SUBSET (Entries \cup Services) /\ Written(rows)
          /\ entry' = new /\ service' = service
        BY <1>1 DEF ItemsBecome
    <2>2. QED
        BY <2>1, RowsWritten
<1>2. ASSUME NEW new, ServicesBecome(new) PROVE ItineraryFits'
    <2> DEFINE rows == {s \in Services : new[s] # service[s]}
    <2>1. /\ rows \in SUBSET (Entries \cup Services) /\ Written(rows)
          /\ service' = new /\ entry' = entry
        BY <1>2 DEF ServicesBecome
    <2>2. QED
        BY <2>1, RowsWritten
<1>3. ASSUME NEW items, NEW services, BothBecome(items, services) PROVE ItineraryFits'
    <2> DEFINE rows == {e \in Entries : items[e] # entry[e]}
                       \cup {s \in Services : services[s] # service[s]}
    <2>1. /\ rows \in SUBSET (Entries \cup Services) /\ Written(rows)
          /\ entry' = items /\ service' = services
        BY <1>3 DEF BothBecome
    <2>2. QED
        BY <2>1, RowsWritten
<1>4. QED
    BY <1>1, <1>2, <1>3

LEMMA ReadTableStep ==
    ASSUME PlansInv, ItineraryFits, NEW table \in Tables, ReadTable(table)
    PROVE  ItineraryFits'
<1>1. /\ itinerary.left \subseteq Tables /\ itinerary \in Itinerary
      /\ [e \in Entries |-> entry[e].day] \in [Entries -> 0 .. LastDay]
      /\ service \in [Services -> Service] /\ planned \subseteq Days
    BY DEF ItineraryFits, Itinerary, PlansInv, PlansShape, PlanRowsOK, Entry
<1>2. /\ itinerary' \in Itinerary /\ itinerary'.left = itinerary.left \ {table}
      /\ itinerary'.written = itinerary.written
      /\ itinerary'.days = IF table = "items" THEN [e \in Entries |-> entry[e].day]
                           ELSE itinerary.days
      /\ itinerary'.services = IF table = "services" THEN service ELSE itinerary.services
      /\ UNCHANGED <<entry, service>>
    BY <1>1 DEF ReadTable, Itinerary
<1>3. "services" \notin itinerary'.left =>
         \A s \in Services \ itinerary'.written : itinerary'.services[s] = service'[s]
    BY <1>2 DEF ItineraryFits
<1>4. ASSUME "items" \notin itinerary'.left
      PROVE  /\ \A e \in Entries \ itinerary'.written : itinerary'.days[e] = entry'[e].day
             /\ \A s \in Services \ itinerary'.written :
                   service'[s].item # None => itinerary'.days[service'[s].item] # 0
    <2>1. CASE table = "items"
        <3>1. itinerary'.days = [e \in Entries |-> entry[e].day]
            BY <1>2, <2>1
        <3>2. \A s \in Services : service[s].item # None =>
                 service[s].item \in Entries /\ entry[service[s].item].day # 0
            BY DEF PlansInv, PlansShape, Attached
        <3>3. QED
            BY <1>2, <3>1, <3>2
    <2>2. CASE table # "items"
        BY <1>2, <1>4, <2>2 DEF ItineraryFits
    <2>3. QED
        BY <2>1, <2>2
<1>5. QED
    BY <1>2, <1>3, <1>4 DEF ItineraryFits

LEMMA ItineraryStep == PlansInv /\ ItineraryFits /\ [PlansNext]_plansVars => ItineraryFits'
<1> SUFFICES ASSUME PlansInv, ItineraryFits, [PlansNext]_plansVars PROVE ItineraryFits'
    OBVIOUS
<1>1. ASSUME UNCHANGED <<entry, service, itinerary>> PROVE ItineraryFits'
    BY <1>1 DEF ItineraryFits
<1>2. ASSUME \/ \E new : ItemsBecome(new)
             \/ \E new : ServicesBecome(new)
             \/ \E items, services : BothBecome(items, services)
      PROVE  ItineraryFits'
    BY <1>2, TheRowsWritten
<1>3. CASE UNCHANGED plansVars
    BY <1>1, <1>3 DEF plansVars
<1>4. ASSUME NEW h \in Handlers,
             \/ \E d \in Days, step \in {"create", "assign"}, p \in Places :
                   FindPlace(h, step, d, p)
             \/ \E e \in Entries, up \in BOOLEAN : MoveItem(h, e, up)
             \/ DeleteMany(h) \/ PlanCallFails(h)
      PROVE  ItineraryFits'
    BY <1>1, <1>4 DEF FindPlace, MoveItem, DeleteMany, PlanCallFails
<1>5. ASSUME NEW h \in Handlers,
             \/ \E e \in Entries : \/ CreateItem(h, e)
                                   \/ \E s \in Services : AssignAppended(h, e, s)
             \/ \E ids \in SUBSET Entries :
                   \E new \in [ids -> [day: Days, place: Places]] : ImportItinerary(h, new)
             \/ MoveWrite(h)
      PROVE  ItineraryFits'
    <2>1. CASE \E e \in Entries : CreateItem(h, e) \/ \E s \in Services : AssignAppended(h, e, s)
        BY <1>2, <2>1 DEF CreateItem, AssignAppended
    <2>2. ASSUME NEW ids \in SUBSET Entries, NEW new \in [ids -> [day: Days, place: Places]],
                 ImportItinerary(h, new)
          PROVE  ItineraryFits'
        BY <1>2, <2>2 DEF ImportItinerary
    <2>3. CASE MoveWrite(h)
        BY <1>2, <2>3 DEF MoveWrite
    <2>4. QED
        BY <1>5, <2>1, <2>2, <2>3
<1>6. ASSUME NEW e \in Entries,
             DeleteItem(e) \/ \E d \in Days, p \in Places : UpdateItem(e, d, p)
      PROVE  ItineraryFits'
    BY <1>2, <1>6 DEF DeleteItem, UpdateItem
<1>7. ASSUME NEW s \in Services, NEW d \in Days,
             UpdateBooking(s, d) \/ \E e \in Entries \cup {None} : AssignVendor(s, d, e)
      PROVE  ItineraryFits'
    BY <1>2, <1>7 DEF UpdateBooking, AssignVendor
<1>8. ASSUME NEW d \in Days, UpsertDayPlan(d) PROVE ItineraryFits'
    BY <1>1, <1>8 DEF UpsertDayPlan
<1>9. CASE ItineraryIsRead
    BY <1>9, NoItineraryFits DEF ItineraryIsRead, ItineraryFits
<1>10. QED
    BY <1>3, <1>4, <1>5, <1>6, <1>7, <1>8, <1>9, ReadTableStep DEF PlansNext

\* A vendor whose booking was left alone shows on one day, as one activity.
LEMMA ShowsOnce ==
    ASSUME PlansInv, ItineraryFits, itinerary.left = {}, NEW s \in Services \ itinerary.written
    PROVE  Cardinality(Shown({s, service[s].item})) = IF service[s].day # 0 THEN 1 ELSE 0
<1> DEFINE item == service[s].item
           day == IF item = None THEN service[s].day ELSE itinerary.days[item]
           activity == IF item = None THEN s ELSE item
           shown == Shown({s, item})
<1>1. \A d, a : <<d, a>> \in shown <=>
         /\ d \in ShownDays /\ (a = s \/ a = item)
         /\ \/ a \in Entries /\ itinerary.days[a] = d
            \/ a \in Alone /\ itinerary.services[a].day = d
    BY DEF Shown, Activities
<1>2. /\ None \notin Entries /\ None \notin Services /\ s \notin Entries
      /\ Entries \cap Services = {}
    BY PlansAssumption
<1>3. /\ item \in Entries \cup {None} /\ itinerary.services[s] = service[s]
      /\ item # None => itinerary.days[item] # 0 /\ service[s].day # 0
    BY PlansAssumption DEF PlansInv, Attached, ItineraryFits, Days
<1>4. /\ \A a : a \in Alone <=> a \in Services /\ itinerary.services[a].day # 0
                                               /\ itinerary.services[a].item = None
      /\ \A x \in shown : x = <<x[1], x[2]>>
    BY DEF Alone, Shown
<1> HIDE DEF item, shown
<1>5. CASE service[s].day = 0
    <2>1. item = None /\ s \notin Alone
        BY <1>3, <1>4, <1>5
    <2>2. \A d, a : <<d, a>> \notin shown
        BY <1>1, <1>2, <1>4, <2>1
    <2>3. shown = {}
        BY <1>4, <2>2
    <2>4. QED
        BY <1>5, <2>3, FS_EmptySet DEF shown, item
<1>6. CASE service[s].day # 0
    <2>1. day \in ShownDays
        <3>1. CASE item = None
            <4>1. s \in Alone /\ itinerary.services[s].day = day
                BY <1>3, <1>6, <3>1 DEF Alone, item
            <4>2. QED
                BY <4>1 DEF ShownDays
        <3>2. CASE item # None
            <4>1. item \in Entries /\ day = itinerary.days[item] /\ day # 0
                BY <1>3, <3>2
            <4>2. QED
                BY <4>1 DEF ShownDays
        <3>3. QED
            BY <3>1, <3>2
    <2>2. \A d, a : <<d, a>> \in shown <=> d = day /\ a = activity
        <3>1. CASE item = None
            <4>1. s \in Alone /\ itinerary.services[s].day = day /\ activity = s
                BY <1>3, <1>6, <3>1 DEF Alone, item
            <4>2. QED
                BY <1>1, <1>2, <1>4, <2>1, <3>1, <4>1
        <3>2. CASE item # None
            <4>1. /\ item \in Entries /\ day = itinerary.days[item] /\ activity = item
                  /\ s \notin Alone /\ item \notin Alone
                BY <1>2, <1>3, <3>2 DEF Alone, item
            <4>2. QED
                BY <1>1, <1>2, <2>1, <4>1
        <3>3. QED
            BY <3>1, <3>2
    <2> HIDE DEF day, activity
    <2>3. shown = {<<day, activity>>}
        <3>1. <<day, activity>> \in shown
            BY <2>2
        <3>2. ASSUME NEW x \in shown PROVE x = <<day, activity>>
            BY <1>4, <2>2
        <3>3. QED
            BY <3>1, <3>2
    <2>4. QED
        BY <1>6, <2>3, FS_Singleton DEF shown, item
<1>7. QED
    BY <1>5, <1>6

\* Items and vendors' bookings, as they stand and as a page reads them, keep days and
\* places that there are.
THEOREM PlansTypeCorrect == PlansSpec => []PlansTypeOK
<1>1. PlansInv /\ ItineraryFits => PlansTypeOK
    BY DEF PlansInv, PlansShape, ItineraryFits, PlansTypeOK
<1>2. QED
    BY PlansStart, PlansStep, ItineraryStarts, ItineraryStep, <1>1, PTL DEF PlansSpec

\* For any number of writers, days and vendors: unless calls overlapped or staff put
\* two items at one place themselves, a day's items keep an order; and a page put
\* together from three reads, whatever is written between them, shows every item and
\* every vendor that was left alone once.
THEOREM ProgramIsKept == PlansSpec => []ProgramHolds
<1>1. PlansInv /\ ItineraryFits => ProgramHolds
    <2> SUFFICES ASSUME PlansInv, ItineraryFits PROVE ProgramHolds
        OBVIOUS
    <2>1. DaysStayOrdered
        BY DEF PlansInv, Tidy, DaysStayOrdered
    <2>2. ASSUME itinerary.left = {}, NEW e \in Entries \ itinerary.written
          PROVE  Shown({e}) = IF entry[e] = NoEntry THEN {} ELSE {<<entry[e].day, e>>}
        <3>1. itinerary.days[e] = entry[e].day /\ (entry[e].day = 0 <=> entry[e] = NoEntry)
            BY <2>2, NoPlanCallShape DEF ItineraryFits, PlansInv, PlansShape
        <3>2. e \notin Services /\ e \notin Alone
            BY PlansAssumption DEF Alone
        <3>3. Shown({e}) = {x \in ShownDays \X {e} : x[1] = entry[e].day}
            BY <3>1, <3>2 DEF Shown, Activities
        <3>4. CASE entry[e] = NoEntry
            <4>1. 0 \notin ShownDays
                BY PlansAssumption DEF ShownDays, Alone, ItineraryFits, Itinerary, Days
            <4>2. QED
                BY <3>1, <3>3, <3>4, <4>1
        <3>5. CASE entry[e] # NoEntry
            <4>1. entry[e].day \in ShownDays
                BY <3>1, <3>5 DEF ShownDays
            <4>2. QED
                BY <3>3, <3>5, <4>1
        <3>6. QED
            BY <3>4, <3>5
    <2>3. QED
        BY <2>1, <2>2, ShowsOnce DEF ProgramHolds, GuestSeesTheTrip
<1>2. QED
    BY PlansStart, PlansStep, ItineraryStarts, ItineraryStep, <1>1, PTL DEF PlansSpec
-----------------------------------------------------------------------------
(* One trip's tasks.                                                       *)

TellCall(t) == [step |-> "tell", task |-> t]

TasksShape ==
    /\ TasksTypeOK
    /\ \A t \in TaskIds : task[t].status = "none" => task[t] = NoTask
    /\ \A h \in Handlers : taskCall[h].step # "idle" =>
          taskCall[h].task \in TaskIds /\ task[taskCall[h].task].status # "none"

\* A row by itself: its stamp, and whether the guest knows or need not.
RowFits(row, telling) ==
    /\ row.stamped <=> row.status = "done"
    /\ row.status # "none" /\ row.trip = "this" => row.told \/ row.excused \/ telling
RowsFit ==
    \A t \in TaskIds : RowFits(task[t], \E h \in Handlers : taskCall[h] = TellCall(t))

\* While a page is put together, what it has is what is there, but for the tasks
\* written since; afterwards it agrees with itself.
Paging == look.read \cup look.count # {}
LookIsTrue ==
    /\ \A t \in look.there \ look.written :
          t \in OfTrip /\ \A l \in Lists \ look.read : t \in look.list[l] <=> task[t].status = l
    /\ look.written = {} =>
          /\ look.there = OfTrip
          /\ \A l \in Lists \ look.read : look.list[l] = WithStatus(l)
          /\ \A l \in Lists \ look.count : look.size[l] = Cardinality(WithStatus(l))
LookAgrees ==
    /\ \A t \in look.there \ look.written :
          t \in look.list["open"] <=> t \notin look.list["done"]
    /\ look.written = {} =>
          /\ look.list["open"] \cup look.list["done"] = look.there
          /\ \A l \in Lists : look.size[l] = Cardinality(look.list[l])
LookFits == IF Paging THEN LookIsTrue ELSE LookAgrees

TasksInv == TasksShape /\ RowsFit /\ LookFits

LEMMA NothingFits ==
    /\ NoTask \in Task /\ NoTask.status = "none" /\ ~NoTask.stamped
    /\ NoTaskCall \in TaskCall /\ NoTaskCall.step = "idle" /\ NoLook \in Look
    /\ "open" \in Lists /\ "done" \in Lists /\ "none" \notin Lists
BY DEF NoTask, Task, NoTaskCall, TaskCall, NoLook, Look, Lists

LEMMA TasksStart == TasksInit => TasksInv
<1> SUFFICES ASSUME TasksInit PROVE TasksInv
    OBVIOUS
<1>1. TasksShape
    BY NothingFits DEF TasksInit, TasksShape, TasksTypeOK
<1>2. RowsFit
    BY NothingFits DEF TasksInit, RowsFit, RowFits
<1>3. ~Paging /\ LookAgrees
    BY FS_EmptySet DEF TasksInit, Paging, LookAgrees, NoLook, Lists
<1>4. QED
    BY <1>1, <1>2, <1>3 DEF TasksInv, LookFits

\* A row is written, by a call that no other row waits for.
LEMMA TaskWritten ==
    ASSUME TasksInv, NEW t \in TaskIds, NEW row \in Task, Write(t, row),
           row.status # "none", taskCall' \in [Handlers -> TaskCall],
           RowFits(row, \E h \in Handlers : taskCall'[h] = TellCall(t)),
           \A h \in Handlers : \/ taskCall'[h] = taskCall[h]
                               \/ taskCall'[h] \in {NoTaskCall, TellCall(t)},
           \A h \in Handlers, u \in TaskIds \ {t} :
              taskCall[h] = TellCall(u) => taskCall'[h] = TellCall(u)
    PROVE  TasksInv'
<1>1. /\ task' \in [TaskIds -> Task] /\ task'[t] = row
      /\ \A u \in TaskIds \ {t} : task'[u] = task[u]
    BY DEF Write, TasksInv, TasksShape, TasksTypeOK
<1>2. /\ look' \in Look /\ look'.read = look.read /\ look'.count = look.count
      /\ look'.list = look.list /\ look'.size = look.size /\ look'.there = look.there
      /\ look'.written = IF Paging THEN look.written \cup {t} ELSE look.written
    BY DEF Write, TasksInv, TasksShape, TasksTypeOK, Look, Paging
<1>3. TasksShape'
    BY <1>1, <1>2, NothingFits DEF TasksInv, TasksShape, TasksTypeOK, TellCall
<1>4. RowsFit'
    <2>1. ASSUME NEW u \in TaskIds \ {t}
          PROVE  RowFits(task'[u], \E h \in Handlers : taskCall'[h] = TellCall(u))
        BY <1>1 DEF TasksInv, RowsFit, RowFits
    <2>2. QED
        BY <1>1, <2>1 DEF RowsFit
<1>5. CASE Paging
    <2>1. LookIsTrue
        BY <1>5 DEF TasksInv, LookFits
    <2>2. Paging'
        BY <1>2, <1>5 DEF Paging
    <2>3. look'.written = look.written \cup {t} /\ look.there \subseteq TaskIds
        BY <1>2, <1>5 DEF TasksInv, TasksShape, TasksTypeOK, Look
    <2>4. LookIsTrue'
        BY <1>1, <1>2, <2>1, <2>3 DEF LookIsTrue, OfTrip
    <2>5. QED
        BY <1>3, <1>4, <2>2, <2>4 DEF TasksInv, LookFits
<1>6. CASE ~Paging
    <2>1. LookAgrees
        BY <1>6 DEF TasksInv, LookFits
    <2>2. ~Paging' /\ look'.written = look.written
        BY <1>2, <1>6 DEF Paging
    <2>3. LookAgrees'
        BY <1>2, <2>1, <2>2 DEF LookAgrees
    <2>4. QED
        BY <1>3, <1>4, <2>2, <2>3 DEF TasksInv, LookFits
<1>7. QED
    BY <1>5, <1>6

\* A step that leaves what a page shows of every row.
LEMMA TasksKept ==
    ASSUME TasksInv, UNCHANGED look, taskCall' \in [Handlers -> TaskCall],
           task' \in [TaskIds -> Task],
           \A t \in TaskIds : /\ task'[t].status = task[t].status
                              /\ task'[t].trip = task[t].trip
                              /\ task[t] = NoTask => task'[t] = NoTask,
           \A h \in Handlers : taskCall'[h].step # "idle" =>
              taskCall'[h].task \in TaskIds /\ task[taskCall'[h].task].status # "none",
           RowsFit'
    PROVE  TasksInv'
<1>1. TasksShape'
    BY DEF TasksInv, TasksShape, TasksTypeOK
<1>2. \A t \in TaskIds : task[t] # NoTask <=> task'[t] # NoTask
    BY NothingFits DEF TasksInv, TasksShape
<1>3. OfTrip' = OfTrip
    BY <1>2 DEF OfTrip
<1>4. ASSUME NEW l PROVE WithStatus(l)' = WithStatus(l)
    BY <1>3 DEF WithStatus, OfTrip
<1>5. look.there \subseteq TaskIds
    BY DEF TasksInv, TasksShape, TasksTypeOK, Look
<1>6. LookIsTrue => LookIsTrue'
    BY <1>3, <1>4, <1>5 DEF LookIsTrue
<1>7. LookFits'
    BY <1>6 DEF TasksInv, LookFits, LookAgrees, Paging
<1>8. QED
    BY <1>1, <1>7 DEF TasksInv

LEMMA TaskCallGoes ==
    ASSUME TasksInv, NEW h \in Handlers, NEW call \in TaskCall,
           taskCall' = [taskCall EXCEPT ![h] = call]
    PROVE  /\ taskCall' \in [Handlers -> TaskCall] /\ taskCall'[h] = call
           /\ \A g \in Handlers \ {h} : taskCall'[g] = taskCall[g]
BY DEF TasksInv, TasksShape, TasksTypeOK

LEMMA CreateTaskStep ==
    ASSUME TasksInv, NEW h \in Handlers, NEW t \in TaskIds, NEW whose \in {"this", "other"},
           NEW u \in Heads \cup Helpers \cup {None}, CreateTask(h, t, whose, u)
    PROVE  TasksInv'
<1> DEFINE row == [NoTask EXCEPT !.status = "open", !.trip = whose, !.assignee = u]
<1>1. /\ row \in Task /\ row.status = "open" /\ row.trip = whose /\ ~row.stamped
    BY NothingFits DEF Task, NoTask
<1>2. /\ taskCall[h] = NoTaskCall /\ Write(t, row)
      /\ IF whose = "this" THEN taskCall' = [taskCall EXCEPT ![h] = TellCall(t)]
         ELSE UNCHANGED taskCall
    BY DEF CreateTask, TaskGoes, TellCall
<1> HIDE DEF row
<1>3. /\ taskCall' \in [Handlers -> TaskCall]
      /\ taskCall'[h] = IF whose = "this" THEN TellCall(t) ELSE NoTaskCall
      /\ \A g \in Handlers \ {h} : taskCall'[g] = taskCall[g]
    <2>1. TellCall(t) \in TaskCall
        BY DEF TellCall, TaskCall
    <2>2. CASE whose = "this"
        BY <1>2, <2>1, <2>2, TaskCallGoes
    <2>3. CASE whose # "this"
        BY <1>2, <2>3 DEF TasksInv, TasksShape, TasksTypeOK
    <2>4. QED
        BY <2>2, <2>3
<1>4. RowFits(row, \E g \in Handlers : taskCall'[g] = TellCall(t))
    BY <1>1, <1>3 DEF RowFits
<1>5. \A u2 \in TaskIds : NoTaskCall # TellCall(u2)
    BY DEF NoTaskCall, TellCall
<1>6. QED
    BY <1>1, <1>2, <1>3, <1>4, <1>5, TaskWritten

LEMMA EscalateStep ==
    ASSUME TasksInv, NEW t \in TaskIds, Escalate(t)
    PROVE  TasksInv'
<1> DEFINE row == [NoTask EXCEPT !.status = "open", !.trip = "this", !.excused = TRUE]
<1>1. /\ row \in Task /\ row.status = "open" /\ ~row.stamped /\ row.excused
    BY NothingFits DEF Task, NoTask
<1>2. Write(t, row) /\ UNCHANGED taskCall
    BY DEF Escalate
<1> HIDE DEF row
<1>3. RowFits(row, \E g \in Handlers : taskCall'[g] = TellCall(t))
    BY <1>1 DEF RowFits
<1>4. QED
    BY <1>1, <1>2, <1>3, TaskWritten DEF TasksInv, TasksShape, TasksTypeOK

LEMMA UpdateTaskStep ==
    ASSUME TasksInv, NEW t \in TaskIds, NEW status \in Lists \cup {None},
           NEW whose \in {"this", "other", None}, NEW u \in Heads \cup Helpers \cup {None},
           UpdateTask(t, status, whose, u)
    PROVE  TasksInv'
<1> DEFINE old == task[t]
           newStatus == IF status = None THEN old.status ELSE status
           newTrip == IF whose = None THEN old.trip ELSE whose
           newAssignee == IF u = None THEN old.assignee ELSE u
           newStamp == Stamp(old, status)
           newExcuse == old.excused \/ (whose = "this" /\ old.trip = "other")
           row == [old EXCEPT !.status = newStatus, !.stamped = newStamp, !.trip = newTrip,
                              !.assignee = newAssignee, !.excused = newExcuse]
<1>1. old # NoTask /\ Write(t, row) /\ UNCHANGED taskCall
    BY DEF UpdateTask
<1>2. /\ old \in Task /\ old.status # "none"
      /\ RowFits(old, \E g \in Handlers : taskCall[g] = TellCall(t))
    BY <1>1 DEF TasksInv, TasksShape, TasksTypeOK, RowsFit
<1> HIDE DEF old
<1>3. /\ newStatus \in {"none", "open", "done"} /\ newStatus # "none"
      /\ newTrip \in {"this", "other"} /\ newAssignee \in Heads \cup Helpers \cup {None}
      /\ newStamp \in BOOLEAN /\ newExcuse \in BOOLEAN
    BY <1>2 DEF Task, Lists, Stamp
<1>4. newStamp <=> newStatus = "done"
    BY <1>2 DEF Stamp, RowFits
<1>5. newTrip = "this" => old.trip = "this" \/ newExcuse
    BY <1>2 DEF Task
<1>6. old.excused => newExcuse
    OBVIOUS
<1> HIDE DEF newStatus, newTrip, newAssignee, newStamp, newExcuse
<1>7. /\ row \in Task /\ row.status = newStatus /\ row.stamped = newStamp
      /\ row.trip = newTrip /\ row.excused = newExcuse /\ row.told = old.told
    BY <1>2, <1>3 DEF Task
<1> HIDE DEF row
<1>8. RowFits(row, \E g \in Handlers : taskCall'[g] = TellCall(t))
    BY <1>1, <1>2, <1>4, <1>5, <1>6, <1>7 DEF RowFits
<1>9. QED
    BY <1>1, <1>3, <1>7, <1>8, TaskWritten DEF TasksInv, TasksShape, TasksTypeOK

LEMMA CompleteWriteStep ==
    ASSUME TasksInv, NEW h \in Handlers, CompleteWrite(h)
    PROVE  TasksInv'
<1> DEFINE t == taskCall[h].task
           row == [task[t] EXCEPT !.status = "done", !.stamped = TRUE]
<1>1. /\ taskCall[h].step = "complete" /\ Write(t, row)
      /\ taskCall' = [taskCall EXCEPT ![h] = NoTaskCall]
    BY DEF CompleteWrite, TaskCallEnds
<1>2. t \in TaskIds /\ task[t].status # "none"
    BY <1>1 DEF TasksInv, TasksShape
<1>3. /\ taskCall' \in [Handlers -> TaskCall] /\ taskCall'[h] = NoTaskCall
      /\ \A g \in Handlers \ {h} : taskCall'[g] = taskCall[g]
    BY <1>1, TaskCallGoes, NothingFits
<1>4. \A u : taskCall[h] # TellCall(u)
    BY <1>1 DEF TellCall
<1>5. task[t] \in Task /\ RowFits(task[t], \E g \in Handlers : taskCall[g] = TellCall(t))
    BY <1>2 DEF TasksInv, TasksShape, TasksTypeOK, RowsFit
<1> HIDE DEF t
<1>6. /\ row \in Task /\ row.status = "done" /\ row.stamped /\ row.trip = task[t].trip
      /\ row.told = task[t].told /\ row.excused = task[t].excused
    BY <1>5 DEF Task
<1> HIDE DEF row
<1>7. RowFits(row, \E g \in Handlers : taskCall'[g] = TellCall(t))
    BY <1>2, <1>3, <1>4, <1>5, <1>6 DEF RowFits
<1>8. \A g \in Handlers, u \in TaskIds \ {t} :
         taskCall[g] = TellCall(u) => taskCall'[g] = TellCall(u)
    BY <1>3, <1>4
<1>9. \A g \in Handlers : \/ taskCall'[g] = taskCall[g]
                          \/ taskCall'[g] \in {NoTaskCall, TellCall(t)}
    BY <1>3
<1>10. Write(t, row)
    BY <1>1 DEF t, row
<1>11. QED
    BY <1>2, <1>3, <1>6, <1>7, <1>8, <1>9, <1>10, TaskWritten

LEMMA CompleteTaskStep ==
    ASSUME TasksInv, NEW h \in Handlers, NEW u \in Heads \cup Helpers, NEW t \in TaskIds,
           CompleteTask(h, u, t)
    PROVE  TasksInv'
<1> DEFINE call == [step |-> "complete", task |-> t]
<1>1. /\ taskCall[h] = NoTaskCall /\ task[t] # NoTask /\ UNCHANGED <<task, look>>
      /\ taskCall' = [taskCall EXCEPT ![h] = call]
    BY DEF CompleteTask, TaskGoes
<1>2. call \in TaskCall /\ call.task = t
    BY DEF TaskCall
<1> HIDE DEF call
<1>3. /\ taskCall' \in [Handlers -> TaskCall] /\ taskCall'[h] = call
      /\ \A g \in Handlers \ {h} : taskCall'[g] = taskCall[g]
    BY <1>1, <1>2, TaskCallGoes
<1>4. task[t].status # "none"
    BY <1>1 DEF TasksInv, TasksShape
<1>5. \A x : taskCall[h] # TellCall(x)
    BY <1>1 DEF TellCall, NoTaskCall
<1>6. RowsFit'
    BY <1>1, <1>3, <1>5 DEF TasksInv, RowsFit, RowFits
<1>7. task \in [TaskIds -> Task]
      /\ \A g \in Handlers : taskCall'[g].step # "idle" =>
            taskCall'[g].task \in TaskIds /\ task[taskCall'[g].task].status # "none"
    BY <1>2, <1>3, <1>4 DEF TasksInv, TasksShape, TasksTypeOK
<1>8. QED
    BY <1>1, <1>3, <1>6, <1>7, TasksKept

\* A call ends that has marked its row, or has not: the guest was told of it, or the
\* call broke off.
LEMMA TaskCallEndsStep ==
    ASSUME TasksInv, NEW h \in Handlers, TellTask(h) \/ TaskCallFails(h)
    PROVE  TasksInv'
<1> DEFINE t == taskCall[h].task
<1>1. taskCall[h] # NoTaskCall /\ taskCall' = [taskCall EXCEPT ![h] = NoTaskCall]
      /\ UNCHANGED look
    BY NothingFits DEF TellTask, TaskCallFails, TaskCallEnds
<1>2. /\ taskCall' \in [Handlers -> TaskCall] /\ taskCall'[h] = NoTaskCall
      /\ \A g \in Handlers \ {h} : taskCall'[g] = taskCall[g]
    BY <1>1, TaskCallGoes, NothingFits
<1>3. task \in [TaskIds -> Task]
    BY DEF TasksInv, TasksShape, TasksTypeOK
<1>4. \A g \in Handlers : taskCall'[g].step # "idle" =>
         taskCall'[g].task \in TaskIds /\ task[taskCall'[g].task].status # "none"
    BY <1>2, NothingFits DEF TasksInv, TasksShape
<1>5. CASE taskCall[h].step = "tell"
    <2> DEFINE row == task'[t]
    <2>1. t \in TaskIds /\ task[t].status # "none" /\ task[t] # NoTask
        BY <1>5, NothingFits DEF TasksInv, TasksShape
    <2>2. \/ task' = [task EXCEPT ![t].told = TRUE]
          \/ task' = [task EXCEPT ![t].excused = TRUE]
        BY <1>5 DEF TellTask, TaskCallFails
    <2> HIDE DEF t
    <2>3. /\ task' \in [TaskIds -> Task] /\ row.status = task[t].status
          /\ row.trip = task[t].trip /\ row.stamped = task[t].stamped
          /\ row.told \/ row.excused
          /\ \A u \in TaskIds \ {t} : task'[u] = task[u]
        BY <1>3, <2>1, <2>2 DEF Task
    <2> HIDE DEF row
    <2>4. RowFits(row, \E g \in Handlers : taskCall'[g] = TellCall(t))
        BY <2>1, <2>3 DEF TasksInv, RowsFit, RowFits
    <2>5. ASSUME NEW u \in TaskIds \ {t}
          PROVE  RowFits(task'[u], \E g \in Handlers : taskCall'[g] = TellCall(u))
        <3>1. taskCall[h] # TellCall(u)
            BY DEF TellCall, t
        <3>2. QED
            BY <1>2, <2>3, <3>1 DEF TasksInv, RowsFit, RowFits
    <2>6. RowsFit'
        BY <2>1, <2>4, <2>5 DEF RowsFit, row
    <2>7. \A u \in TaskIds : /\ task'[u].status = task[u].status
                             /\ task'[u].trip = task[u].trip
                             /\ task[u] = NoTask => task'[u] = NoTask
        BY <2>1, <2>3 DEF row
    <2>8. QED
        BY <1>1, <1>2, <1>4, <2>3, <2>6, <2>7, TasksKept
<1>6. CASE taskCall[h].step # "tell"
    <2>1. task' = task
        BY <1>6 DEF TellTask, TaskCallFails
    <2>2. \A u : taskCall[h] # TellCall(u)
        BY <1>6 DEF TellCall
    <2>3. RowsFit'
        BY <1>2, <2>1, <2>2 DEF TasksInv, RowsFit, RowFits
    <2>4. QED
        BY <1>1, <1>2, <1>3, <1>4, <2>1, <2>3, TasksKept
<1>7. QED
    BY <1>5, <1>6

\* The guest's request reads; no row changes.
LEMMA LookStep ==
    ASSUME TasksInv, UNCHANGED <<task, taskCall>>, look' \in Look, LookFits'
    PROVE  TasksInv'
<1>1. TasksShape'
    BY DEF TasksInv, TasksShape, TasksTypeOK
<1>2. RowsFit'
    BY DEF TasksInv, RowsFit, RowFits
<1>3. QED
    BY <1>1, <1>2 DEF TasksInv

LEMMA OpenPageStep ==
    ASSUME TasksInv, NEW page \in {"home", "tasks"}, OpenPage(page)
    PROVE  TasksInv'
<1>1. /\ look' = [NoLook EXCEPT !.page = page, !.read = Lists, !.count = Lists,
                                !.there = OfTrip]
      /\ UNCHANGED <<task, taskCall>>
    BY DEF OpenPage
<1>2. OfTrip \in SUBSET TaskIds
    BY DEF OfTrip
<1>3. /\ look' \in Look /\ look'.read = Lists /\ look'.count = Lists
      /\ look'.there = OfTrip /\ look'.written = {}
    BY <1>1, <1>2, NothingFits DEF Look, NoLook
<1>4. OfTrip' = OfTrip
    BY <1>1 DEF OfTrip
<1>5. Paging' /\ LookIsTrue'
    BY <1>3, <1>4, NothingFits DEF Paging, LookIsTrue
<1>6. QED
    BY <1>1, <1>3, <1>5, LookStep DEF LookFits

\* A statement of a page: when it is the last, what is true of every list makes
\* the page agree with itself.
LEMMA PageStep ==
    ASSUME TasksInv, UNCHANGED <<task, taskCall>>, look' \in Look, LookIsTrue'
    PROVE  TasksInv'
<1>1. (TasksShape /\ RowsFit)'
    BY DEF TasksInv, TasksShape, TasksTypeOK, RowsFit, RowFits
<1>2. \A t \in TaskIds : task'[t] # NoTask => task'[t].status \in Lists
    BY DEF TasksInv, TasksShape, TasksTypeOK, Task, Lists
<1>3. ~Paging' => LookAgrees'
    <2> SUFFICES ASSUME ~Paging' PROVE LookAgrees'
        OBVIOUS
    <2>1. look'.read = {} /\ look'.count = {}
        BY DEF Paging
    <2>2. \A t \in OfTrip' : task'[t].status \in Lists
        BY <1>2 DEF OfTrip
    <2>3. ASSUME NEW t \in look'.there \ look'.written
          PROVE  t \in look'.list["open"] <=> t \notin look'.list["done"]
        BY <2>1, <2>2 DEF LookIsTrue, Lists
    <2>4. ASSUME look'.written = {}
          PROVE  /\ look'.list["open"] \cup look'.list["done"] = look'.there
                 /\ \A l \in Lists : look'.size[l] = Cardinality(look'.list[l])
        <3>1. \A l \in Lists : /\ look'.list[l] = WithStatus(l)'
                               /\ look'.size[l] = Cardinality(WithStatus(l)')
            BY <2>1, <2>4 DEF LookIsTrue
        <3>2. WithStatus("open")' \cup WithStatus("done")' = OfTrip'
            BY <2>2 DEF WithStatus, Lists
        <3>3. QED
            BY <2>4, <3>1, <3>2, NothingFits DEF LookIsTrue
    <2>5. QED
        BY <2>3, <2>4 DEF LookAgrees
<1>4. LookFits'
    BY <1>3 DEF LookFits
<1>5. QED
    BY <1>1, <1>4 DEF TasksInv

LEMMA ListStep ==
    ASSUME TasksInv, NEW l \in Lists, CountTasks(l) \/ ReadTasks(l)
    PROVE  TasksInv'
<1>1. Paging /\ UNCHANGED <<task, taskCall>> /\ look \in Look
    BY DEF CountTasks, ReadTasks, Paging, TasksInv, TasksShape, TasksTypeOK
<1>2. LookIsTrue
    BY <1>1 DEF TasksInv, LookFits
<1>3. WithStatus(l) \in SUBSET TaskIds /\ Cardinality(WithStatus(l)) \in Nat
    <2>1. WithStatus(l) \subseteq TaskIds
        BY DEF WithStatus, OfTrip
    <2>2. QED
        BY <2>1, TasksAssumption, FS_Subset, FS_CardinalityType
<1>4. /\ OfTrip' = OfTrip /\ \A k : WithStatus(k)' = WithStatus(k)
    BY <1>1 DEF OfTrip, WithStatus
<1>5. CASE CountTasks(l)
    <2> DEFINE n == Cardinality(WithStatus(l))
    <2>1. look' = [look EXCEPT !.count = @ \ {l}, !.size[l] = n]
        BY <1>5 DEF CountTasks
    <2> HIDE DEF n
    <2>2. /\ look' \in Look /\ look'.read = look.read /\ look'.list = look.list
          /\ look'.there = look.there /\ look'.written = look.written
          /\ look'.count = look.count \ {l} /\ look'.size[l] = n
          /\ \A k \in Lists \ {l} : look'.size[k] = look.size[k]
        BY <1>1, <1>3, <2>1 DEF Look, n
    <2>3. LookIsTrue'
        BY <1>1, <1>2, <1>4, <2>2 DEF LookIsTrue, n
    <2>4. QED
        BY <1>1, <2>2, <2>3, PageStep
<1>6. CASE ReadTasks(l)
    <2> DEFINE rows == WithStatus(l)
    <2>1. look' = [look EXCEPT !.read = @ \ {l}, !.list[l] = rows]
        BY <1>6 DEF ReadTasks
    <2> HIDE DEF rows
    <2>2. /\ look' \in Look /\ look'.count = look.count /\ look'.size = look.size
          /\ look'.there = look.there /\ look'.written = look.written
          /\ look'.read = look.read \ {l} /\ look'.list[l] = rows
          /\ \A k \in Lists \ {l} : look'.list[k] = look.list[k]
        BY <1>1, <1>3, <2>1 DEF Look, rows
    <2>3. \A t \in OfTrip : t \in rows <=> task[t].status = l
        BY DEF rows, WithStatus
    <2>4. LookIsTrue'
        BY <1>1, <1>2, <1>4, <2>2, <2>3 DEF LookIsTrue, rows
    <2>5. QED
        BY <1>1, <2>2, <2>4, PageStep
<1>7. QED
    BY <1>5, <1>6

LEMMA TasksStep == TasksInv /\ [TasksNext]_tasksVars => TasksInv'
<1> SUFFICES ASSUME TasksInv, [TasksNext]_tasksVars PROVE TasksInv'
    OBVIOUS
<1>1. CASE UNCHANGED tasksVars
    BY <1>1 DEF tasksVars, TasksInv, TasksShape, TasksTypeOK, RowsFit, RowFits, LookFits,
       LookIsTrue, LookAgrees, Paging, OfTrip, WithStatus
<1>2. ASSUME NEW t \in TaskIds,
             \/ Escalate(t)
             \/ \E h \in Handlers :
                   \/ \E whose \in {"this", "other"}, u \in Heads \cup Helpers \cup {None} :
                         CreateTask(h, t, whose, u)
                   \/ \E u \in Heads \cup Helpers : CompleteTask(h, u, t)
             \/ \E status \in Lists \cup {None}, whose \in {"this", "other", None},
                   u \in Heads \cup Helpers \cup {None} : UpdateTask(t, status, whose, u)
      PROVE  TasksInv'
    BY <1>2, EscalateStep, CreateTaskStep, CompleteTaskStep, UpdateTaskStep
<1>3. ASSUME NEW h \in Handlers, TellTask(h) \/ CompleteWrite(h) \/ TaskCallFails(h)
      PROVE  TasksInv'
    BY <1>3, TaskCallEndsStep, CompleteWriteStep
<1>4. QED
    BY <1>1, <1>2, <1>3, OpenPageStep, ListStep DEF TasksNext

\* Tasks, calls and the page that is put together have their types.
THEOREM TasksTypeCorrect == TasksSpec => []TasksTypeOK
<1>1. TasksInv => TasksTypeOK
    BY DEF TasksInv, TasksShape
<1>2. QED
    BY TasksStart, TasksStep, <1>1, PTL DEF TasksSpec

\* For any number of tasks, staff and calls in flight: done tasks alone have the time
\* of their end, the guest has heard of his, and a page that was put together from
\* four statements hides none that was left alone meanwhile.
THEOREM TasksAreKept == TasksSpec => []TasksAreShown
<1>1. TasksInv => TasksAreShown
    <2> SUFFICES ASSUME TasksInv PROVE TasksAreShown
        OBVIOUS
    <2>1. \A t \in TaskIds : task[t].stamped <=> task[t].status = "done"
        BY DEF TasksInv, RowsFit, RowFits
    <2>2. \A t \in OfTrip : \/ task[t].told \/ task[t].excused
                            \/ \E h \in Handlers : taskCall[h] = [step |-> "tell", task |-> t]
        BY DEF OfTrip, TasksInv, TasksShape, RowsFit, RowFits, TellCall
    <2>3. look.read \cup look.count = {} => LookAgrees
        BY DEF TasksInv, LookFits, Paging
    <2>4. QED
        BY <2>1, <2>2, <2>3 DEF TasksAreShown, LookAgrees
<1>2. QED
    BY TasksStart, TasksStep, <1>1, PTL DEF TasksSpec

\* The two halves of what the guest's app shows, of one trip, which share no row.
THEOREM TripIsKept == PlansSpec /\ TasksSpec => []TripIsShown
BY ProgramIsKept, TasksAreKept, PTL DEF TripIsShown
-----------------------------------------------------------------------------
(* The devices of a client.                                                *)

OneEach(list) ==
    \A i, k \in DOMAIN list : list[i].platform = list[k].platform => i = k

LEMMA ListHas ==
    ASSUME NEW list \in Devices
    PROVE  /\ Len(list) \in Nat /\ DOMAIN list = 1 .. Len(list)
           /\ \A i \in 1 .. Len(list) : list[i] \in Device
           /\ EntriesOf(list) = {list[i] : i \in 1 .. Len(list)}
           /\ TokensOf(list) \subseteq DeviceTokens
<1>1. Len(list) \in Nat /\ DOMAIN list = 1 .. Len(list)
      /\ \A i \in 1 .. Len(list) : list[i] \in Device
    BY LenProperties, ElementOfSeq DEF Devices
<1>2. EntriesOf(list) = {list[i] : i \in 1 .. Len(list)}
    BY <1>1 DEF EntriesOf
<1>3. TokensOf(list) \subseteq DeviceTokens
    BY <1>1, <1>2 DEF TokensOf, Device
<1>4. QED
    BY <1>1, <1>2, <1>3

\* A device is put at the end.
LEMMA AppendAddsOne ==
    ASSUME NEW list \in Devices, NEW d \in Device
    PROVE  LET new == Append(list, d)
           IN /\ new \in Devices /\ EntriesOf(new) = EntriesOf(list) \cup {d}
              /\ OneEach(list) /\ (\A e \in EntriesOf(list) : e.platform # d.platform)
                 => OneEach(new)
<1> DEFINE new == Append(list, d)
<1>1. /\ Len(list) \in Nat /\ EntriesOf(list) = {list[i] : i \in 1 .. Len(list)}
      /\ DOMAIN list = 1 .. Len(list)
    BY ListHas
<1>2. /\ new \in Devices
      /\ \A i \in 1 .. Len(list) : new[i] = list[i]
      /\ new[Len(list) + 1] = d /\ DOMAIN new = 1 .. Len(list) + 1
    BY AppendProperties DEF Devices
<1> HIDE DEF new
<1>3. EntriesOf(new) = EntriesOf(list) \cup {d}
    BY <1>1, <1>2 DEF EntriesOf
<1>4. ASSUME OneEach(list), \A e \in EntriesOf(list) : e.platform # d.platform
      PROVE  OneEach(new)
    <2>1. ASSUME NEW i \in 1 .. Len(list) + 1, NEW k \in 1 .. Len(list) + 1,
                 new[i].platform = new[k].platform
          PROVE  i = k
        <3>1. CASE i \in 1 .. Len(list) /\ k \in 1 .. Len(list)
            BY <1>1, <1>2, <1>4, <2>1, <3>1 DEF OneEach
        <3>2. CASE i = Len(list) + 1 /\ k = Len(list) + 1
            BY <3>2
        <3>3. CASE i # Len(list) + 1 /\ k = Len(list) + 1
            BY <1>1, <1>2, <1>4, <2>1, <3>3
        <3>4. CASE i = Len(list) + 1 /\ k # Len(list) + 1
            BY <1>1, <1>2, <1>4, <2>1, <3>4
        <3>5. QED
            BY <1>1, <3>1, <3>2, <3>3, <3>4
    <2>2. QED
        BY <1>2, <2>1 DEF OneEach
<1>5. QED
    BY <1>2, <1>3, <1>4 DEF new

\* A device is put into a list: the others of another token and platform stay, and a
\* list that has one of each and knows its token by this platform only has so still.
LEMMA UpsertKeepsOthers ==
    ASSUME NEW list \in Devices, NEW d \in Device
    PROVE  LET new == Upsert(list, d)
           IN /\ new \in Devices /\ d \in EntriesOf(new)
              /\ EntriesOf(new) \subseteq EntriesOf(list) \cup {d}
              /\ \A e \in EntriesOf(list) :
                    e.token # d.token /\ e.platform # d.platform => e \in EntriesOf(new)
              /\ /\ OneEach(list)
                 /\ \A e \in EntriesOf(list) : e.token = d.token => e.platform = d.platform
                 => OneEach(new)
<1> DEFINE same == {i \in DOMAIN list : \/ list[i].token = d.token
                                       \/ list[i].platform = d.platform}
           new == Upsert(list, d)
           One == /\ OneEach(list)
                  /\ \A e \in EntriesOf(list) : e.token = d.token => e.platform = d.platform
<1>1. /\ Len(list) \in Nat /\ DOMAIN list = 1 .. Len(list)
      /\ \A i \in 1 .. Len(list) : list[i] \in Device
      /\ EntriesOf(list) = {list[i] : i \in 1 .. Len(list)}
    BY ListHas
<1>2. list \in Seq(Device)
    BY DEF Devices
<1>3. CASE same = {}
    <2>1. new = Append(list, d)
        BY <1>3 DEF Upsert
    <2>2. \A e \in EntriesOf(list) : e.platform # d.platform
        BY <1>1, <1>3
    <2>3. QED
        BY <2>1, <2>2, AppendAddsOne
<1>4. CASE same # {}
    <2> DEFINE i == CHOOSE k \in same : \A m \in same : k <= m
    <2>1. i \in same
        <3>1. same \in SUBSET Nat /\ \E k \in Nat : k \in same
            BY <1>1, <1>4
        <3> HIDE DEF same
        <3>2. \E k \in same : \A m \in same : k <= m
            BY <3>1, LeastNumber
        <3>3. QED
            BY <3>2
    <2>2. i \in 1 .. Len(list) /\ (list[i].token = d.token \/ list[i].platform = d.platform)
        BY <1>1, <2>1
    <2>3. new = [list EXCEPT ![i] = d]
        BY <1>4 DEF Upsert
    <2> HIDE DEF i, same
    <2>4. /\ new \in Seq(Device) /\ Len(new) = Len(list)
          /\ \A k \in 1 .. Len(list) : new[k] = IF k = i THEN d ELSE list[k]
        BY <1>2, <2>2, <2>3, ExceptSeq
    <2>5. DOMAIN new = 1 .. Len(list)
        BY <1>1, <2>3
    <2> HIDE DEF new
    <2>6. ASSUME One PROVE OneEach(new)
        <3>1. list[i].platform = d.platform
            BY <1>1, <2>2, <2>6
        <3>2. \A k \in 1 .. Len(list) : new[k].platform = list[k].platform
            BY <2>4, <3>1
        <3>3. QED
            BY <1>1, <2>5, <2>6, <3>2 DEF OneEach
    <2>7. EntriesOf(new) = {new[k] : k \in 1 .. Len(list)}
        BY <2>5 DEF EntriesOf
    <2>8. d \in EntriesOf(new) /\ EntriesOf(new) \subseteq EntriesOf(list) \cup {d}
        BY <1>1, <2>2, <2>4, <2>7
    <2>9. ASSUME NEW k \in 1 .. Len(list), list[k].token # d.token,
                 list[k].platform # d.platform
          PROVE  list[k] \in EntriesOf(new)
        BY <2>2, <2>4, <2>7, <2>9
    <2>10. QED
        BY <1>1, <2>4, <2>6, <2>8, <2>9 DEF new, Devices
<1>5. QED
    BY <1>3, <1>4

\* One step of the function that Kept is computed by.
KeptNext(list, tokens, before, n) ==
    IF n = 0 THEN <<>>
    ELSE IF list[n].token \in tokens THEN before ELSE Append(before, list[n])
IsKept(list, tokens, f, m) ==
    \A n \in 0 .. m : f[n] = KeptNext(list, tokens, f[n - 1], n)

\* The recursion has a solution, up to any length, and so Kept is what it says.
LEMMA KeptIsComputed ==
    ASSUME NEW list, NEW tokens, NEW m \in Nat, Len(list) = m
    PROVE  \E f : IsKept(list, tokens, f, m) /\ Kept(list, tokens) = f[m]
<1> DEFINE Solves(g, k) == g = [n \in 0 .. k |-> KeptNext(list, tokens, g[n - 1], n)]
           S == {k \in Nat : \E g : Solves(g, k)}
<1>1. 0 \in S
    <2> DEFINE g == [n \in 0 .. 0 |-> <<>>]
    <2>1. Solves(g, 0)
        BY DEF KeptNext
    <2>2. QED
        BY <2>1
<1>2. ASSUME NEW k \in Nat, k \in S PROVE k + 1 \in S
    <2>1. PICK g : Solves(g, k)
        BY <1>2
    <2> DEFINE f == [n \in 0 .. k + 1 |-> IF n = k + 1 THEN KeptNext(list, tokens, g[k], n)
                                          ELSE g[n]]
    <2>2. \A n \in 0 .. k : g[n] = KeptNext(list, tokens, g[n - 1], n)
        BY <2>1
    <2>3. ASSUME NEW n \in 0 .. k + 1 PROVE f[n] = KeptNext(list, tokens, f[n - 1], n)
        <3>1. CASE n = k + 1
            <4>1. n - 1 = k /\ f[k] = g[k]
                BY <3>1
            <4>2. QED
                BY <3>1, <4>1
        <3>2. CASE n = 0
            BY <2>2, <3>2 DEF KeptNext
        <3>3. CASE n \in 1 .. k
            <4>1. f[n] = g[n] /\ f[n - 1] = g[n - 1] /\ n \in 0 .. k
                BY <3>3
            <4>2. QED
                BY <2>2, <4>1
        <3>4. QED
            BY <3>1, <3>2, <3>3
    <2>4. Solves(f, k + 1)
        BY <2>3
    <2> HIDE DEF f
    <2>5. \E h : Solves(h, k + 1)
        BY <2>4
    <2>6. k + 1 \in Nat
        OBVIOUS
    <2> HIDE DEF Solves
    <2>7. QED
        BY <2>5, <2>6
<1> HIDE DEF S
<1>3. m \in S
    BY <1>1, <1>2, AllNumbers
<1>4. \E g : Solves(g, m)
    BY <1>3 DEF S
<1> DEFINE f == CHOOSE g : Solves(g, m)
<1>5. Solves(f, m)
    BY <1>4
<1>6. Kept(list, tokens) = f[m]
    BY DEF Kept, KeptNext
<1> HIDE DEF f
<1>7. IsKept(list, tokens, f, m)
    BY <1>5 DEF IsKept
<1>8. QED
    BY <1>6, <1>7

LEMMA KeptIsTheRest ==
    ASSUME NEW list \in Devices, NEW tokens
    PROVE  /\ Kept(list, tokens) \in Devices
           /\ OneEach(list) => OneEach(Kept(list, tokens))
           /\ EntriesOf(Kept(list, tokens)) = {d \in EntriesOf(list) : d.token \notin tokens}
<1>1. /\ Len(list) \in Nat /\ DOMAIN list = 1 .. Len(list)
      /\ \A i \in 1 .. Len(list) : list[i] \in Device
      /\ EntriesOf(list) = {list[i] : i \in 1 .. Len(list)}
    BY ListHas
<1>2. PICK f : IsKept(list, tokens, f, Len(list)) /\ Kept(list, tokens) = f[Len(list)]
    BY <1>1, KeptIsComputed
<1> DEFINE Upto(n) == {list[i] : i \in 1 .. n}
           Rest(n) == {e \in Upto(n) : e.token \notin tokens}
           Good(n) == /\ f[n] \in Devices /\ (OneEach(list) => OneEach(f[n]))
                      /\ EntriesOf(f[n]) = Rest(n)
           S == {n \in Nat : n <= Len(list) => Good(n)}
<1>3. 0 \in S
    <2>1. f[0] = <<>>
        BY <1>1, <1>2 DEF IsKept, KeptNext
    <2>2. <<>> \in Devices /\ DOMAIN <<>> = {}
        BY EmptySeq DEF Devices
    <2>3. Rest(0) = {}
        OBVIOUS
    <2> HIDE DEF Rest
    <2>4. QED
        BY <2>1, <2>2, <2>3 DEF OneEach, EntriesOf
<1>4. ASSUME NEW n \in Nat, n \in S PROVE n + 1 \in S
    <2> SUFFICES ASSUME n + 1 <= Len(list) PROVE Good(n + 1)
        OBVIOUS
    <2>1. Good(n)
        BY <1>1, <1>4
    <2>2. n + 1 \in 1 .. Len(list) /\ (n + 1) - 1 = n
        BY <1>1
    <2>3. f[n + 1] = KeptNext(list, tokens, f[n], n + 1)
        BY <1>2, <2>2 DEF IsKept
    <2> DEFINE d == list[n + 1]
    <2>4. f[n + 1] = IF d.token \in tokens THEN f[n] ELSE Append(f[n], d)
        BY <2>2, <2>3 DEF KeptNext
    <2>5. Upto(n + 1) = Upto(n) \cup {d}
        BY <1>1
    <2>6. d \in Device /\ (OneEach(list) => \A e \in Upto(n) : e.platform # d.platform)
        BY <1>1, <2>2 DEF OneEach
    <2> HIDE DEF d, Upto
    <2>7. CASE d.token \in tokens
        BY <2>1, <2>4, <2>5, <2>7
    <2>8. CASE d.token \notin tokens
        <3>1. Rest(n + 1) = Rest(n) \cup {d}
            <4>1. ASSUME NEW e PROVE e \in Rest(n + 1) <=> e \in Rest(n) \cup {d}
                BY <2>5, <2>8
            <4> HIDE DEF Rest
            <4>2. QED
                BY <4>1
        <3>2. OneEach(list) => \A e \in EntriesOf(f[n]) : e.platform # d.platform
            BY <2>1, <2>6
        <3> HIDE DEF Rest
        <3>3. QED
            BY <2>1, <2>4, <2>6, <2>8, <3>1, <3>2, AppendAddsOne
    <2>9. QED
        BY <2>7, <2>8
<1> HIDE DEF S
<1>5. Len(list) \in S
    BY <1>1, <1>3, <1>4, AllNumbers
<1>6. Good(Len(list))
    BY <1>1, <1>5 DEF S
<1>7. QED
    BY <1>1, <1>2, <1>6

\* A list names each token's platforms only, and has one device of a platform if no
\* token has two. What a call is about to write follows from such a list, which it
\* read; what a push prunes is dead.
Listed(list) ==
    /\ list \in Devices
    /\ \A d \in EntriesOf(list) : d.platform \in named[d.token]
    /\ OneNameEach => OneEach(list)
SaveFits(call) ==
    call # NoSave => /\ call.device \in Device
                     /\ call.device.platform \in named[call.device.token]
                     /\ Listed(call.from)
                     /\ call.to = Upsert(call.from, call.device)
PushFits(p) ==
    /\ p.step \in {"prune", "write"} => p.tokens \subseteq dead
    /\ p.step = "write" => Listed(p.from) /\ p.to = Kept(p.from, p.tokens)
LastIsListed == ~clobbered => LastIsKept

PushesInv ==
    /\ PushesTypeOK
    /\ Listed(devices)
    /\ \A h \in Handlers : SaveFits(save[h])
    /\ \A n \in Notices : PushFits(push[n])
    /\ LastIsListed

LEMMA NothingToPush ==
    /\ <<>> \in Devices /\ NoSave \in Save /\ SaveFits(NoSave)
    /\ NoPush \in Push /\ NoPush.step = "none" /\ Listed(<<>>)
<1>1. <<>> \in Devices /\ DOMAIN <<>> = {}
    BY EmptySeq DEF Devices
<1>2. Listed(<<>>)
    BY <1>1 DEF Listed, EntriesOf, OneEach
<1>3. QED
    BY <1>1, <1>2 DEF NoSave, Save, SaveFits, NoPush, Push

LEMMA PushesStart == PushesInit => PushesInv
<1> SUFFICES ASSUME PushesInit PROVE PushesInv
    OBVIOUS
<1>1. PushesTypeOK
    BY NothingToPush DEF PushesInit, PushesTypeOK
<1>2. LastIsListed
    BY DEF PushesInit, LastIsListed, LastIsKept
<1>3. /\ \A h \in Handlers : SaveFits(save[h])
      /\ \A n \in Notices : PushFits(push[n])
    BY NothingToPush DEF PushesInit, PushFits
<1>4. QED
    BY <1>1, <1>2, <1>3, NothingToPush DEF PushesInit, PushesInv

\* A token that gets one more name leaves the lists that were good with fewer, and the
\* calls that read them.
LEMMA NamesGrow ==
    ASSUME named \in [DeviceTokens -> SUBSET Platforms], dead \subseteq dead',
           \A t \in DeviceTokens : named[t] \subseteq named'[t]
    PROVE  /\ \A list : Listed(list) => Listed(list)'
           /\ \A call : SaveFits(call) => SaveFits(call)'
           /\ \A p : PushFits(p) => PushFits(p)'
<1>1. OneNameEach' => OneNameEach
    BY DEF OneNameEach
<1>2. ASSUME NEW list, Listed(list) PROVE Listed(list)'
    <2>1. \A d \in EntriesOf(list) : d \in Device
        BY <1>2, ListHas DEF Listed
    <2>2. \A d \in EntriesOf(list) : d.platform \in named'[d.token]
        BY <1>2, <2>1 DEF Listed, Device
    <2>3. QED
        BY <1>1, <1>2, <2>2 DEF Listed
<1>3. ASSUME NEW call, SaveFits(call) PROVE SaveFits(call)'
    <2> SUFFICES ASSUME call # NoSave PROVE SaveFits(call)'
        BY DEF SaveFits
    <2>1. Listed(call.from)'
        BY <1>2, <1>3 DEF SaveFits
    <2>2. call.device.platform \in named'[call.device.token]
        BY <1>3 DEF SaveFits, Device
    <2> HIDE DEF Listed
    <2>3. QED
        BY <1>3, <2>1, <2>2 DEF SaveFits
<1>4. ASSUME NEW p, PushFits(p) PROVE PushFits(p)'
    <2>1. p.step = "write" => Listed(p.from)'
        BY <1>2, <1>4 DEF PushFits
    <2>2. QED
        BY <1>4, <2>1 DEF PushFits
<1>5. QED
    BY <1>2, <1>3, <1>4

\* A step that leaves the list.
LEMMA ListRests ==
    ASSUME PushesInv, UNCHANGED <<devices, last, clobbered>>,
           dead \subseteq dead', dead' \subseteq DeviceTokens, saves' \in Nat,
           named' \in [DeviceTokens -> SUBSET Platforms],
           \A t \in DeviceTokens : named[t] \subseteq named'[t],
           save' \in [Handlers -> Save],
           \A h \in Handlers : save'[h] = save[h] \/ SaveFits(save[h])',
           push' \in [Notices -> Push],
           \A n \in Notices : push'[n] = push[n] \/ PushFits(push[n])'
    PROVE  PushesInv'
<1>1. /\ \A list : Listed(list) => Listed(list)'
      /\ \A call : SaveFits(call) => SaveFits(call)'
      /\ \A p : PushFits(p) => PushFits(p)'
    BY NamesGrow DEF PushesInv, PushesTypeOK
<1>2. ASSUME NEW n \in Notices PROVE PushFits(push[n])'
    BY <1>1 DEF PushesInv, PushFits, Listed
<1>3. ASSUME NEW h \in Handlers PROVE SaveFits(save[h])'
    BY <1>1 DEF PushesInv, SaveFits, Listed
<1>4. Listed(devices)'
    BY <1>1 DEF PushesInv, Listed
<1>5. LastIsListed'
    BY DEF PushesInv, LastIsListed, LastIsKept
<1>6. QED
    BY <1>2, <1>3, <1>4, <1>5 DEF PushesInv, PushesTypeOK

LEMMA SaveTokenStep ==
    ASSUME PushesInv, NEW h \in Handlers, NEW d \in Device, SaveToken(h, d)
    PROVE  PushesInv'
<1> DEFINE call == [device |-> d, from |-> devices, to |-> Upsert(devices, d)]
<1>1. /\ save' = [save EXCEPT ![h] = call] /\ saves' = saves + 1
      /\ named' = [named EXCEPT ![d.token] = @ \cup {d.platform}]
      /\ UNCHANGED <<devices, dead, push, last, clobbered>>
    BY DEF SaveToken
<1>2. /\ devices \in Devices /\ Listed(devices)
      /\ d.token \in DeviceTokens /\ d.platform \in Platforms
    BY DEF PushesInv, PushesTypeOK, Device
<1>3. Upsert(devices, d) \in Devices
    BY <1>2, UpsertKeepsOthers
<1>4. /\ named' \in [DeviceTokens -> SUBSET Platforms] /\ d.platform \in named'[d.token]
      /\ \A t \in DeviceTokens : named[t] \subseteq named'[t]
    BY <1>1, <1>2 DEF PushesInv, PushesTypeOK
<1>5. Listed(devices)'
    BY <1>1, <1>2, <1>4, NamesGrow DEF PushesInv, PushesTypeOK, Listed
<1>6. call \in Save /\ call.device = d /\ call.from = devices
      /\ call.to = Upsert(devices, d)
    BY <1>2, <1>3 DEF Save
<1> HIDE DEF call
<1>7. save' \in [Handlers -> Save] /\ save'[h] = call
      /\ \A g \in Handlers \ {h} : save'[g] = save[g]
    BY <1>1, <1>6 DEF PushesInv, PushesTypeOK
<1>8. SaveFits(save[h])'
    BY <1>1, <1>4, <1>5, <1>6, <1>7 DEF SaveFits, Listed
<1>9. QED
    BY <1>1, <1>4, <1>7, <1>8, ListRests DEF PushesInv, PushesTypeOK

LEMMA SaveWriteStep ==
    ASSUME PushesInv, NEW h \in Handlers, SaveWrite(h)
    PROVE  PushesInv'
<1> DEFINE call == save[h]
           d == call.device
<1>1. /\ call # NoSave /\ devices' = call.to
      /\ clobbered' = (clobbered \/ devices # call.from)
      /\ last' = LastAfter(d) /\ save' = [save EXCEPT ![h] = NoSave]
      /\ UNCHANGED <<dead, push, saves, named>>
    BY DEF SaveWrite, WriteList
<1>2. /\ d \in Device /\ d.platform \in named[d.token] /\ Listed(call.from)
      /\ call.to = Upsert(call.from, d)
    BY <1>1 DEF PushesInv, SaveFits
<1> HIDE DEF call, d
<1>3. /\ d.token \in DeviceTokens /\ d.platform \in Platforms
      /\ d = [token |-> d.token, platform |-> d.platform]
    BY <1>2 DEF Device
<1>4. /\ devices' \in Devices /\ d \in EntriesOf(devices')
      /\ EntriesOf(devices') \subseteq EntriesOf(call.from) \cup {d}
      /\ \A e \in EntriesOf(call.from) :
            e.token # d.token /\ e.platform # d.platform => e \in EntriesOf(devices')
      /\ /\ OneEach(call.from)
         /\ \A e \in EntriesOf(call.from) : e.token = d.token => e.platform = d.platform
         => OneEach(devices')
    BY <1>1, <1>2, UpsertKeepsOthers DEF Listed
<1>5. ASSUME OneNameEach PROVE OneEach(devices')
    <2>1. \A e \in EntriesOf(call.from) : e.token = d.token => e.platform = d.platform
        BY <1>2, <1>3, <1>5 DEF Listed, OneNameEach
    <2>2. QED
        BY <1>2, <1>4, <1>5, <2>1 DEF Listed
<1>6. Listed(devices)'
    BY <1>1, <1>2, <1>4, <1>5 DEF Listed, OneNameEach
<1>7. /\ save' \in [Handlers -> Save] /\ \A g \in Handlers : SaveFits(save[g])'
    BY <1>1, NothingToPush DEF PushesInv, PushesTypeOK, SaveFits, Listed, OneNameEach
<1>8. last' \in [Platforms -> DeviceTokens \cup {None}]
    BY <1>1, <1>3 DEF PushesInv, PushesTypeOK, LastAfter
<1>9. LastIsListed'
    <2> SUFFICES ASSUME ~clobbered', NEW q \in Platforms
                 PROVE  \/ last'[q] \in {None} \cup dead'
                        \/ [token |-> last'[q], platform |-> q] \in EntriesOf(devices')
        BY DEF LastIsListed, LastIsKept, EntriesOf
    <2>1. ~clobbered /\ devices = call.from
        BY <1>1 DEF PushesInv, PushesTypeOK
    <2>2. \/ last[q] \in {None} \cup dead
          \/ [token |-> last[q], platform |-> q] \in EntriesOf(call.from)
        BY <2>1 DEF PushesInv, LastIsListed, LastIsKept
    <2>3. last'[q] = IF q = d.platform THEN d.token
                     ELSE IF last[q] = d.token THEN None ELSE last[q]
        BY <1>1 DEF LastAfter
    <2>4. CASE q = d.platform
        BY <1>3, <1>4, <2>3, <2>4
    <2>5. CASE q # d.platform /\ last[q] = d.token
        BY <2>3, <2>5
    <2>6. CASE q # d.platform /\ last[q] # d.token
        <3>1. last'[q] = last[q]
            BY <2>3, <2>6
        <3>2. [token |-> last[q], platform |-> q] \in EntriesOf(call.from)
              => [token |-> last[q], platform |-> q] \in EntriesOf(devices')
            BY <1>4, <2>6
        <3>3. QED
            BY <1>1, <2>2, <3>1, <3>2
    <2>7. QED
        BY <2>4, <2>5, <2>6
<1>10. /\ \A n \in Notices : PushFits(push[n])'
       /\ clobbered' \in BOOLEAN /\ dead' \subseteq DeviceTokens
       /\ push' \in [Notices -> Push] /\ saves' \in Nat
       /\ named' \in [DeviceTokens -> SUBSET Platforms]
    BY <1>1 DEF PushesInv, PushesTypeOK, PushFits, Listed, OneNameEach
<1>11. QED
    BY <1>4, <1>6, <1>7, <1>8, <1>9, <1>10 DEF PushesInv, PushesTypeOK

LEMMA SaveFailsStep ==
    ASSUME PushesInv, NEW h \in Handlers, SaveFails(h)
    PROVE  PushesInv'
<1>1. save' = [save EXCEPT ![h] = NoSave] /\ UNCHANGED <<devices, dead, push, pushHistory>>
    BY DEF SaveFails
<1>2. /\ save' \in [Handlers -> Save]
      /\ \A g \in Handlers : save'[g] = save[g] \/ SaveFits(save[g])'
    BY <1>1, NothingToPush DEF PushesInv, PushesTypeOK, SaveFits
<1>3. QED
    BY <1>1, <1>2, ListRests DEF pushHistory, PushesInv, PushesTypeOK

LEMMA PruneWriteStep ==
    ASSUME PushesInv, NEW n \in Notices, PruneWrite(n)
    PROVE  PushesInv'
<1> DEFINE p == push[n]
           end == NoPush
<1>1. /\ p.step = "write" /\ devices' = p.to
      /\ clobbered' = (clobbered \/ devices # p.from)
      /\ push' = [push EXCEPT ![n] = end] /\ UNCHANGED <<dead, save, saves, named, last>>
    BY DEF PruneWrite, WriteList, PushEnds, PushIs
<1>2. p.tokens \subseteq dead /\ Listed(p.from) /\ p.to = Kept(p.from, p.tokens)
    BY <1>1 DEF PushesInv, PushFits
<1>3. end \in Push /\ end.step = "none"
    BY NothingToPush DEF Push, NoPush
<1> HIDE DEF p, end
<1>4. /\ devices' \in Devices /\ (OneEach(p.from) => OneEach(devices'))
      /\ EntriesOf(devices') = {d \in EntriesOf(p.from) : d.token \notin p.tokens}
    BY <1>1, <1>2, KeptIsTheRest DEF Listed
<1>5. Listed(devices)'
    BY <1>1, <1>2, <1>4 DEF Listed, OneNameEach
<1>6. /\ push' \in [Notices -> Push]
      /\ \A m \in Notices : push'[m] = push[m] \/ push'[m] = end
    BY <1>1, <1>3 DEF PushesInv, PushesTypeOK
<1>7. \A m \in Notices : PushFits(push[m])'
    BY <1>1, <1>3, <1>6 DEF PushesInv, PushFits, Listed, OneNameEach
<1>8. LastIsListed'
    <2> SUFFICES ASSUME ~clobbered', NEW q \in Platforms
                 PROVE  \/ last'[q] \in {None} \cup dead'
                        \/ [token |-> last'[q], platform |-> q] \in EntriesOf(devices')
        BY DEF LastIsListed, LastIsKept, EntriesOf
    <2>1. ~clobbered /\ devices = p.from
        BY <1>1 DEF PushesInv, PushesTypeOK
    <2>2. \/ last[q] \in {None} \cup dead
          \/ [token |-> last[q], platform |-> q] \in EntriesOf(p.from)
        BY <2>1 DEF PushesInv, LastIsListed, LastIsKept
    <2>3. QED
        BY <1>1, <1>2, <1>4, <2>2
<1>9. /\ save' \in [Handlers -> Save] /\ \A g \in Handlers : SaveFits(save[g])'
      /\ last' \in [Platforms -> DeviceTokens \cup {None}] /\ clobbered' \in BOOLEAN
      /\ dead' \subseteq DeviceTokens /\ saves' \in Nat
      /\ named' \in [DeviceTokens -> SUBSET Platforms]
    BY <1>1 DEF PushesInv, PushesTypeOK, SaveFits, Listed, OneNameEach
<1>10. QED
    BY <1>4, <1>5, <1>6, <1>7, <1>8, <1>9 DEF PushesInv, PushesTypeOK

\* A push takes its next step: the list stays, what it names is dead.
LEMMA PushStep ==
    ASSUME PushesInv, NEW n \in Notices, NEW p \in Push, PushIs(n, p),
           UNCHANGED <<devices, dead, save, pushHistory>>, PushFits(p)
    PROVE  PushesInv'
<1>1. push' = [push EXCEPT ![n] = p] /\ dead' = dead
    BY DEF PushIs
<1>2. push' \in [Notices -> Push]
    BY <1>1 DEF PushesInv, PushesTypeOK
<1>3. \A m \in Notices : push'[m] = push[m] \/ push'[m] = p
    BY <1>1 DEF PushesInv, PushesTypeOK
<1>4. \A m \in Notices : push'[m] = push[m] \/ PushFits(push[m])'
    BY <1>1, <1>3 DEF PushFits, Listed, OneNameEach, pushHistory
<1>5. QED
    BY <1>1, <1>2, <1>4, ListRests DEF pushHistory, PushesInv, PushesTypeOK

LEMMA PushMovesStep ==
    ASSUME PushesInv, NEW n \in Notices,
           \/ Notify(n) \/ EnqueueClientPush(n) \/ EnqueuePush(n) \/ PushProcess(n)
           \/ SendToTokens(n) \/ PruneDeadTokens(n) \/ PushInterrupted(n)
    PROVE  PushesInv'
<1>1. push[n] \in Push /\ devices \in Devices /\ dead \subseteq DeviceTokens
      /\ PushFits(push[n]) /\ Listed(devices)
    BY DEF PushesInv, PushesTypeOK
<1>2. UNCHANGED <<devices, dead, save, pushHistory>>
    BY DEF Notify, EnqueueClientPush, EnqueuePush, PushProcess, SendToTokens,
       PruneDeadTokens, PushInterrupted
<1>3. ASSUME NEW step \in {"read", "queued", "send"}, PushGoes(n, step) PROVE PushesInv'
    <2> DEFINE p == [push[n] EXCEPT !.step = step]
    <2>1. p \in Push /\ p.step = step
        BY <1>1 DEF Push
    <2>2. PushIs(n, p)
        BY <1>3 DEF PushGoes
    <2> HIDE DEF p
    <2>3. PushFits(p)
        BY <2>1 DEF PushFits
    <2>4. QED
        BY <1>2, <2>1, <2>2, <2>3, PushStep
<1>4. CASE PushEnds(n)
    <2> DEFINE p == NoPush
    <2>1. p \in Push /\ p.step = "none"
        BY NothingToPush DEF Push, NoPush
    <2>2. PushIs(n, p)
        BY <1>4 DEF PushEnds
    <2> HIDE DEF p
    <2>3. PushFits(p)
        BY <2>1 DEF PushFits
    <2>4. QED
        BY <1>2, <2>1, <2>2, <2>3, PushStep
<1>5. CASE EnqueueClientPush(n)
    <2> DEFINE p == [push[n] EXCEPT !.step = "enqueue", !.tokens = TokensOf(devices)]
    <2>1. PushEnds(n) \/ PushIs(n, p)
        BY <1>5 DEF EnqueueClientPush
    <2>2. TokensOf(devices) \subseteq DeviceTokens
        BY <1>1, ListHas
    <2>3. p \in Push /\ p.step = "enqueue"
        BY <1>1, <2>2 DEF Push
    <2> HIDE DEF p
    <2>4. PushFits(p)
        BY <2>3 DEF PushFits
    <2>5. QED
        BY <1>2, <1>4, <2>1, <2>3, <2>4, PushStep
<1>6. CASE SendToTokens(n)
    <2> DEFINE p == [push[n] EXCEPT !.step = "prune", !.tokens = @ \cap dead]
    <2>1. PushEnds(n) \/ PushIs(n, p)
        BY <1>6 DEF SendToTokens
    <2>2. p \in Push /\ p.step = "prune" /\ p.tokens \subseteq dead
        BY <1>1 DEF Push
    <2> HIDE DEF p
    <2>3. PushFits(p)
        BY <2>2 DEF PushFits
    <2>4. QED
        BY <1>2, <1>4, <2>1, <2>2, <2>3, PushStep
<1>7. CASE PruneDeadTokens(n)
    <2> DEFINE kept == Kept(devices, push[n].tokens)
               p == [push[n] EXCEPT !.step = "write", !.from = devices, !.to = kept]
    <2>1. push[n].step = "prune" /\ (PushEnds(n) \/ PushIs(n, p))
        BY <1>7 DEF PruneDeadTokens
    <2>2. kept \in Devices
        BY <1>1, KeptIsTheRest
    <2> HIDE DEF kept
    <2>3. /\ p \in Push /\ p.step = "write" /\ p.from = devices /\ p.to = kept
          /\ p.tokens = push[n].tokens
        BY <1>1, <2>2 DEF Push
    <2> HIDE DEF p
    <2>4. PushFits(p)
        BY <1>1, <2>1, <2>3 DEF PushFits, kept
    <2>5. QED
        BY <1>2, <1>4, <2>1, <2>3, <2>4, PushStep
<1>8. CASE PushInterrupted(n)
    <2> DEFINE p == [push[n] EXCEPT !.step = "queued", !.from = <<>>, !.to = <<>>]
    <2>1. PushEnds(n) \/ PushIs(n, p)
        BY <1>8 DEF PushInterrupted
    <2>2. p \in Push /\ p.step = "queued"
        BY <1>1, NothingToPush DEF Push
    <2> HIDE DEF p
    <2>3. PushFits(p)
        BY <2>2 DEF PushFits
    <2>4. QED
        BY <1>2, <1>4, <2>1, <2>2, <2>3, PushStep
<1>9. QED
    BY <1>3, <1>5, <1>6, <1>7, <1>8 DEF Notify, EnqueuePush, PushProcess

LEMMA TokenDiesStep ==
    ASSUME PushesInv, NEW t \in DeviceTokens, TokenDies(t)
    PROVE  PushesInv'
BY ListRests DEF TokenDies, pushHistory, PushesInv, PushesTypeOK

LEMMA PushesSteps == PushesInv /\ [PushesNext]_pushesVars => PushesInv'
<1> SUFFICES ASSUME PushesInv, [PushesNext]_pushesVars PROVE PushesInv'
    OBVIOUS
<1>1. CASE UNCHANGED pushesVars
    BY <1>1, ListRests DEF pushesVars, PushesInv, PushesTypeOK
<1>2. ASSUME NEW h \in Handlers,
             (\E d \in Device : SaveToken(h, d)) \/ SaveWrite(h) \/ SaveFails(h)
      PROVE  PushesInv'
    BY <1>2, SaveTokenStep, SaveWriteStep, SaveFailsStep
<1>3. ASSUME NEW n \in Notices,
             \/ Notify(n) \/ EnqueueClientPush(n) \/ EnqueuePush(n) \/ PushProcess(n)
             \/ SendToTokens(n) \/ PruneDeadTokens(n) \/ PruneWrite(n)
             \/ PushInterrupted(n)
      PROVE  PushesInv'
    BY <1>3, PushMovesStep, PruneWriteStep
<1>4. QED
    BY <1>1, <1>2, <1>3, TokenDiesStep DEF PushesNext

\* The list of devices, those that are being saved and those that pushes go to hold
\* tokens only, the pruned list too, which a recursive function makes.
THEOREM PushesTypeCorrect == PushesSpec => []PushesTypeOK
<1>1. PushesInv => PushesTypeOK
    BY DEF PushesInv
<1>2. QED
    BY PushesStart, PushesSteps, <1>1, PTL DEF PushesSpec

\* However many logins and prunes overlap, each writing a list that it read earlier,
\* a client has one device of a platform while no token is saved for two; and while none
\* wrote over a newer list, the device saved last for a platform is there or dead.
THEOREM DevicesKept == PushesSpec => []DevicesAreKept
<1>1. PushesInv => DevicesAreKept
    BY DEF PushesInv, Listed, LastIsListed, DevicesAreKept, OneDevicePerPlatform, OneEach
<1>2. QED
    BY PushesStart, PushesSteps, <1>1, PTL DEF PushesSpec
-----------------------------------------------------------------------------
(* Conversations.                                                          *)

\* What a call names is there; from the message on it has that message's thread and
\* lane; and a driver who is joined for the guest's word is on the thread when it goes
\* out, if he is still the booking's newest.
CallHolds(call, threads, messages, driver) ==
    /\ call.step \in {"create", "join"} => call.user \in People
    /\ call.step = "create" /\ call.type = "dm" => call.other \in People
    /\ call.step \in {"join", "insert", "driver", "emit"} => call.thread \in 1 .. Len(threads)
    /\ call.step \in {"driver", "emit"} =>
          /\ call.message \in 1 .. Len(messages)
          /\ messages[call.message].thread = call.thread
          /\ messages[call.message].lane = call.lane
          /\ call.driver # None => call.driver \in Drivers
    /\ call.step = "driver" /\ call.steady => call.driver = driver
    /\ /\ call.step = "emit" /\ call.steady /\ call.driver # None
       /\ call.user \in Guests /\ call.lane = "driver"
       /\ threads[call.thread].type \in {"booking_support", "client_direct"}
       => call.driver \in threads[call.thread].members

ChatInv ==
    /\ ChatTypeOK
    /\ \A m \in 1 .. Len(message) : message[m].thread \in 1 .. Len(thread)
    /\ \A h \in ChatHandlers : CallHolds(chatCall[h], thread, message, newest)
    /\ ReadersAreTold

LEMMA ChatHas ==
    ASSUME ChatInv
    PROVE  /\ thread \in Seq(Thread) /\ Len(thread) \in Nat /\ Len(thread) <= MaxThreads
           /\ DOMAIN thread = 1 .. Len(thread)
           /\ \A t \in 1 .. Len(thread) : thread[t] \in Thread /\ t \in 1 .. MaxThreads
           /\ message \in Seq(Message) /\ Len(message) \in Nat /\ Len(message) <= MaxMessages
           /\ DOMAIN message = 1 .. Len(message)
           /\ \A m \in 1 .. Len(message) : message[m] \in Message /\ m \in 1 .. MaxMessages
<1>1. /\ thread \in Seq(Thread) /\ Len(thread) <= MaxThreads
      /\ message \in Seq(Message) /\ Len(message) <= MaxMessages
    BY DEF ChatInv, ChatTypeOK
<1>2. /\ Len(thread) \in Nat /\ DOMAIN thread = 1 .. Len(thread)
      /\ \A t \in 1 .. Len(thread) : thread[t] \in Thread
    BY <1>1, LenProperties, ElementOfSeq
<1>3. /\ Len(message) \in Nat /\ DOMAIN message = 1 .. Len(message)
      /\ \A m \in 1 .. Len(message) : message[m] \in Message
    BY <1>1, LenProperties, ElementOfSeq
<1>4. QED
    BY <1>1, <1>2, <1>3, ChatBoundsAssumption

LEMMA NoChatCallHolds ==
    /\ NoChatCall \in ChatCall /\ NoChatCall.step = "idle"
    /\ \A threads, messages, driver : CallHolds(NoChatCall, threads, messages, driver)
<1>1. NoChatCall \in ChatCall /\ NoChatCall.step = "idle"
    BY ChatBoundsAssumption DEF NoChatCall, ChatCall, Types, Lanes
<1>2. QED
    BY <1>1 DEF CallHolds

LEMMA ChatStart == ChatInit => ChatInv
<1> SUFFICES ASSUME ChatInit PROVE ChatInv
    OBVIOUS
<1>1. thread = <<>> /\ message = <<>> /\ Len(thread) = 0 /\ Len(message) = 0
      /\ thread \in Seq(Thread) /\ message \in Seq(Message)
    BY EmptySeq DEF ChatInit
<1>2. ChatTypeOK
    BY <1>1, NoChatCallHolds, ChatBoundsAssumption DEF ChatInit, ChatTypeOK
<1>3. ReadersAreTold
    BY DEF ChatInit, ReadersAreTold, IsNews
<1>4. QED
    BY <1>1, <1>2, <1>3, NoChatCallHolds DEF ChatInit, ChatInv

\* The tables only grow: rows stay, with their types, lanes and at least their members.
Grows ==
    /\ thread' \in Seq(Thread) /\ Len(thread') <= MaxThreads
    /\ Len(thread) <= Len(thread')
    /\ \A t \in 1 .. Len(thread) : /\ thread'[t].type = thread[t].type
                                   /\ thread[t].members \subseteq thread'[t].members
    /\ message' \in Seq(Message) /\ Len(message') <= MaxMessages
    /\ Len(message) <= Len(message')
    /\ \A m \in 1 .. Len(message) : /\ message'[m].thread = message[m].thread
                                    /\ message'[m].lane = message[m].lane

LEMMA CallsStillHold ==
    ASSUME ChatInv, Grows, NEW call \in ChatCall,
           CallHolds(call, thread, message, newest), newest' = newest
    PROVE  CallHolds(call, thread', message', newest')
<1>1. Len(thread) \in Nat /\ Len(message) \in Nat
    BY ChatHas
<1>2. Len(thread') \in Nat /\ Len(message') \in Nat
    BY LenProperties DEF Grows
<1>3. /\ \A t \in 1 .. Len(thread) : t \in 1 .. Len(thread')
      /\ \A m \in 1 .. Len(message) : m \in 1 .. Len(message')
    BY <1>1, <1>2 DEF Grows
<1>4. QED
    BY <1>3 DEF Grows, CallHolds

\* A silent step of one call, while no driver comes or goes.
LEMMA SilentStep ==
    ASSUME ChatInv, Grows, event' = None, UNCHANGED <<crew, newest>>, touring' \in BOOLEAN,
           chatCall' \in [ChatHandlers -> ChatCall],
           \A h \in ChatHandlers : \/ chatCall'[h] = chatCall[h]
                                   \/ CallHolds(chatCall'[h], thread', message', newest'),
           \A m \in 1 .. Len(message') :
              m > Len(message) => message'[m].thread \in 1 .. Len(thread')
    PROVE  ChatInv'
<1>1. ChatTypeOK'
    BY DEF ChatInv, ChatTypeOK, Grows
<1>2. \A h \in ChatHandlers : CallHolds(chatCall'[h], thread', message', newest')
    BY CallsStillHold DEF ChatInv, ChatTypeOK
<1>3. Len(thread) \in Nat /\ Len(message) \in Nat /\ Len(thread') \in Nat
      /\ Len(message') \in Nat
    BY ChatHas, LenProperties DEF Grows
<1>4. \A m \in 1 .. Len(message') : message'[m].thread \in 1 .. Len(thread')
    BY <1>3 DEF Grows, ChatInv
<1>5. ReadersAreTold'
    BY DEF ReadersAreTold, IsNews
<1>6. QED
    BY <1>1, <1>2, <1>4, <1>5 DEF ChatInv

LEMMA TablesRest ==
    ASSUME ChatInv, UNCHANGED <<thread, message>>
    PROVE  Grows
BY ChatHas DEF Grows

LEMMA ThreadsGrow ==
    ASSUME ChatInv, NEW t \in 1 .. Len(thread), NEW people \in SUBSET People,
           thread' = Adding(t, people), message' = message
    PROVE  /\ Grows /\ Len(thread') = Len(thread)
           /\ thread'[t].members = thread[t].members \cup people
<1> DEFINE row == [thread[t] EXCEPT !.members = @ \cup people]
<1>1. thread \in Seq(Thread) /\ thread[t] \in Thread /\ DOMAIN thread = 1 .. Len(thread)
      /\ Len(thread) \in Nat
    BY ChatHas
<1>2. /\ row \in Thread /\ row.type = thread[t].type
      /\ row.members = thread[t].members \cup people
    BY <1>1 DEF Thread
<1>3. thread' = [thread EXCEPT ![t] = row]
    BY <1>1 DEF Adding
<1> HIDE DEF row
<1>4. /\ thread' \in Seq(Thread) /\ Len(thread') = Len(thread)
      /\ \A i \in 1 .. Len(thread) : thread'[i] = IF i = t THEN row ELSE thread[i]
    BY <1>1, <1>2, <1>3, ExceptSeq
<1>5. QED
    BY <1>1, <1>2, <1>4, ChatHas DEF Grows

LEMMA ThreadAdded ==
    ASSUME ChatInv, NEW type \in Types, NEW people \in SUBSET People,
           NewThread(type, people), message' = message
    PROVE  Grows /\ Len(thread') = Len(thread) + 1
<1> DEFINE row == [type |-> type, members |-> people]
<1>1. row \in Thread /\ thread' = Append(thread, row) /\ Len(thread) < MaxThreads
    BY DEF Thread, NewThread
<1>2. thread \in Seq(Thread) /\ Len(thread) \in Nat
    BY ChatHas
<1> HIDE DEF row
<1>3. /\ thread' \in Seq(Thread) /\ Len(thread') = Len(thread) + 1
      /\ \A t \in 1 .. Len(thread) : thread'[t] = thread[t]
    BY <1>1, <1>2, AppendProperties
<1>4. QED
    BY <1>1, <1>2, <1>3, ChatHas, ChatBoundsAssumption DEF Grows

LEMMA ChatCallGoes ==
    ASSUME ChatInv, NEW h \in ChatHandlers, NEW call \in ChatCall, ChatCallIs(h, call)
    PROVE  /\ chatCall' \in [ChatHandlers -> ChatCall] /\ chatCall'[h] = call
           /\ \A g \in ChatHandlers \ {h} : chatCall'[g] = chatCall[g]
BY DEF ChatCallIs, ChatInv, ChatTypeOK

\* A call takes a step that adds no message.
LEMMA ChatCallStep ==
    ASSUME ChatInv, Grows, event' = None, UNCHANGED trip, message' = message,
           NEW h \in ChatHandlers, NEW call \in ChatCall, ChatCallIs(h, call),
           CallHolds(call, thread', message', newest')
    PROVE  ChatInv'
<1>1. /\ chatCall' \in [ChatHandlers -> ChatCall] /\ chatCall'[h] = call
      /\ \A g \in ChatHandlers \ {h} : chatCall'[g] = chatCall[g]
    BY ChatCallGoes
<1>2. \A m \in 1 .. Len(message') : ~(m > Len(message))
    BY ChatHas
<1>3. touring' \in BOOLEAN
    BY DEF trip, ChatInv, ChatTypeOK
<1>4. QED
    BY <1>1, <1>2, <1>3, SilentStep DEF trip
-----------------------------------------------------------------------------
(* The steps of a conversation's calls.                                    *)

LEMMA FirstIsThere ==
    ASSUME NEW S \in SUBSET Nat
    PROVE  First(S) = 0 \/ First(S) \in S
BY LeastNumber DEF First

LEMMA CallRests ==
    ASSUME ChatInv, UNCHANGED chatTables, event' = None,
           NEW h \in ChatHandlers, NEW call \in ChatCall, ChatCallIs(h, call),
           CallHolds(call, thread, message, newest)
    PROVE  ChatInv'
<1>1. Grows /\ message' = message /\ thread' = thread /\ newest' = newest
      /\ UNCHANGED trip
    BY TablesRest DEF chatTables, trip
<1>2. QED
    BY <1>1, ChatCallStep

LEMMA OpenSupportStep ==
    ASSUME ChatInv, event' = None, NEW h \in ChatHandlers, NEW u \in People, OpenSupport(h, u)
    PROVE  ChatInv'
<1> DEFINE S == {i \in DOMAIN thread : thread[i].type = "booking_support"}
           t == First(S)
           call == [NoChatCall EXCEPT !.type = "booking_support", !.user = u,
                         !.step = IF t = 0 THEN "create" ELSE "join",
                         !.thread = t, !.driver = newest]
<1>1. S \in SUBSET Nat /\ S \subseteq 1 .. Len(thread)
    BY ChatHas
<1>2. t = 0 \/ t \in 1 .. Len(thread)
    BY <1>1, FirstIsThere
<1>3. t \in 0 .. MaxThreads
    BY <1>2, ChatHas, ChatBoundsAssumption
<1>4. ChatCallIs(h, call) /\ UNCHANGED chatTables
    BY DEF OpenSupport, Begins
<1> HIDE DEF t
<1>5. newest \in People \cup {None}
    BY DEF ChatInv, ChatTypeOK, Drivers, Having
<1>6. /\ call \in ChatCall /\ call.user = u /\ call.type = "booking_support"
      /\ call.thread = t /\ call.step = IF t = 0 THEN "create" ELSE "join"
    BY <1>3, <1>5, NoChatCallHolds DEF ChatCall, Types
<1> HIDE DEF call
<1>7. CallHolds(call, thread, message, newest)
    BY <1>2, <1>6 DEF CallHolds
<1>8. QED
    BY <1>4, <1>6, <1>7, CallRests

LEMMA FindDmStep ==
    ASSUME ChatInv, event' = None, NEW h \in ChatHandlers, NEW u \in People, NEW v \in People,
           FindDm(h, u, v)
    PROVE  ChatInv'
<1> DEFINE call == [NoChatCall EXCEPT !.type = "dm", !.step = "create", !.user = u,
                                      !.other = v]
<1>1. /\ call \in ChatCall /\ call.user = u /\ call.other = v /\ call.step = "create"
    BY NoChatCallHolds DEF ChatCall, Types
<1>2. ChatCallIs(h, call) /\ UNCHANGED chatTables
    BY DEF FindDm, Begins
<1> HIDE DEF call
<1>3. CallHolds(call, thread, message, newest)
    BY <1>1 DEF CallHolds
<1>4. QED
    BY <1>1, <1>2, <1>3, CallRests

LEMMA SendMessageStep ==
    ASSUME ChatInv, event' = None, NEW h \in ChatHandlers, NEW u \in People,
           NEW t \in DOMAIN thread, NEW lane \in Lanes, SendMessage(h, u, t, lane)
    PROVE  ChatInv'
<1> DEFINE call == [NoChatCall EXCEPT !.step = "insert", !.thread = t, !.lane = lane,
                                      !.user = IF u \in Guests THEN u ELSE None]
<1>1. t \in 1 .. Len(thread) /\ t \in 0 .. MaxThreads
    BY ChatHas, ChatBoundsAssumption
<1>2. /\ call \in ChatCall /\ call.thread = t /\ call.step = "insert"
    BY <1>1, NoChatCallHolds DEF ChatCall
<1>3. ChatCallIs(h, call) /\ UNCHANGED chatTables
    BY DEF SendMessage, Begins
<1> HIDE DEF call
<1>4. CallHolds(call, thread, message, newest)
    BY <1>1, <1>2 DEF CallHolds
<1>5. QED
    BY <1>2, <1>3, <1>4, CallRests

LEMMA ChatFailsStep ==
    ASSUME ChatInv, event' = None, NEW h \in ChatHandlers, ChatFails(h)
    PROVE  ChatInv'
BY NoChatCallHolds, CallRests DEF ChatFails, ChatEnds

LEMMA CreateSupportStep ==
    ASSUME ChatInv, event' = None, NEW h \in ChatHandlers, CreateSupport(h)
    PROVE  ChatInv'
<1> DEFINE call == [chatCall[h] EXCEPT !.step = "join", !.thread = Len(thread) + 1]
<1>1. /\ NewThread("booking_support", {}) /\ ChatCallIs(h, call)
      /\ message' = message /\ UNCHANGED trip /\ Len(thread) < MaxThreads
      /\ chatCall[h].step = "create"
    BY DEF CreateSupport, NewThread, ChatAt
<1>2. "booking_support" \in Types /\ {} \in SUBSET People
    BY DEF Types
<1>3. Grows /\ Len(thread') = Len(thread) + 1
    BY <1>1, <1>2, ThreadAdded
<1>4. chatCall[h] \in ChatCall /\ chatCall[h].user \in People
    BY <1>1 DEF ChatInv, ChatTypeOK, CallHolds
<1>5. Len(thread) + 1 \in 0 .. MaxThreads /\ Len(thread) + 1 \in 1 .. Len(thread')
    BY <1>1, <1>3, ChatHas, ChatBoundsAssumption
<1>6. /\ call \in ChatCall /\ call.step = "join" /\ call.thread = Len(thread) + 1
      /\ call.user = chatCall[h].user
    BY <1>4, <1>5 DEF ChatCall
<1> HIDE DEF call
<1>7. CallHolds(call, thread', message', newest')
    BY <1>4, <1>5, <1>6 DEF CallHolds
<1>8. QED
    BY <1>1, <1>3, <1>6, <1>7, ChatCallStep

LEMMA JoinSupportStep ==
    ASSUME ChatInv, event' = None, NEW h \in ChatHandlers, JoinSupport(h)
    PROVE  ChatInv'
<1> DEFINE driver == IF chatCall[h].driver # None THEN chatCall[h].driver ELSE newest
           people == Guests \cup {chatCall[h].user} \cup OpsJoin \cup ({driver} \ {None})
<1>1. /\ chatCall[h].step = "join" /\ ChatCallIs(h, NoChatCall)
      /\ thread' = Adding(chatCall[h].thread, people)
      /\ message' = message /\ UNCHANGED trip
    BY DEF JoinSupport, ChatAt, ChatEnds
<1>2. chatCall[h] \in ChatCall /\ chatCall[h].user \in People
      /\ chatCall[h].thread \in 1 .. Len(thread)
    BY <1>1 DEF ChatInv, ChatTypeOK, CallHolds
<1>3. newest \in People \cup {None} /\ chatCall[h].driver \in People \cup {None}
    BY <1>2 DEF ChatInv, ChatTypeOK, Drivers, Having, ChatCall
<1>4. people \in SUBSET People
    BY <1>2, <1>3 DEF Guests, Having, OpsJoin
<1> HIDE DEF people
<1>5. Grows
    BY <1>1, <1>2, <1>4, ThreadsGrow
<1>6. QED
    BY <1>1, <1>5, NoChatCallHolds, ChatCallStep

LEMMA CreateDmStep ==
    ASSUME ChatInv, event' = None, NEW h \in ChatHandlers, CreateDm(h)
    PROVE  ChatInv'
<1>1. /\ ChatAt(h, "dm", "create") /\ ChatCallIs(h, NoChatCall)
      /\ NewThread("dm", {chatCall[h].user, chatCall[h].other})
      /\ message' = message /\ UNCHANGED trip
    BY DEF CreateDm, ChatEnds
<1>2. {chatCall[h].user, chatCall[h].other} \in SUBSET People /\ "dm" \in Types
    BY <1>1 DEF ChatInv, CallHolds, ChatAt, Types
<1>3. Grows
    BY <1>1, <1>2, ThreadAdded
<1>4. QED
    BY <1>1, <1>3, NoChatCallHolds, ChatCallStep

\* Steps of no call.
LEMMA NoCallStep ==
    ASSUME ChatInv, Grows, event' = None, UNCHANGED <<crew, newest, chatCall>>,
           message' = message, touring' \in BOOLEAN
    PROVE  ChatInv'
<1>1. \A m \in 1 .. Len(message') : ~(m > Len(message))
    BY ChatHas
<1>2. chatCall' \in [ChatHandlers -> ChatCall]
    BY DEF ChatInv, ChatTypeOK
<1>3. QED
    BY <1>1, <1>2, SilentStep

LEMMA CreateConversationStep ==
    ASSUME ChatInv, event' = None, NEW u \in People, NEW v \in People,
           NEW type \in {"client_direct", "team"}, CreateConversation(u, type, {v})
    PROVE  ChatInv'
<1> DEFINE people == {u} \cup {v} \cup IF type = "team" THEN StaffPeople ELSE {}
<1>1. /\ NewThread(type, people) /\ message' = message
      /\ UNCHANGED <<crew, newest, touring, chatCall>>
    BY DEF CreateConversation, trip
<1>2. people \in SUBSET People /\ type \in Types
    BY DEF StaffPeople, Types
<1> HIDE DEF people
<1>3. Grows
    BY <1>1, <1>2, ThreadAdded
<1>4. QED
    BY <1>1, <1>3, NoCallStep DEF ChatInv, ChatTypeOK

LEMMA UseThreadStep ==
    ASSUME ChatInv, event' = None, NEW u \in People, NEW t \in DOMAIN thread, UseThread(u, t)
    PROVE  ChatInv'
<1>1. thread' = Adding(t, {u}) /\ message' = message
      /\ UNCHANGED <<crew, newest, touring, chatCall>>
    BY DEF UseThread, trip
<1>2. t \in 1 .. Len(thread) /\ {u} \in SUBSET People
    BY ChatHas
<1>3. Grows
    BY <1>1, <1>2, ThreadsGrow
<1>4. QED
    BY <1>1, <1>3, NoCallStep DEF ChatInv, ChatTypeOK

LEMMA ListConversationsStep ==
    ASSUME ChatInv, event' = None, NEW u \in People, ListConversations(u)
    PROVE  ChatInv'
<1> DEFINE joins(i) == IF MayJoinUnasked(u, i) THEN {u} ELSE {}
           row(i) == [thread[i] EXCEPT !.members = @ \cup joins(i)]
<1>1. thread' = [i \in 1 .. Len(thread) |-> row(i)] /\ message' = message
      /\ UNCHANGED <<crew, newest, touring, chatCall>>
    BY ChatHas DEF ListConversations, trip
<1>2. \A i \in 1 .. Len(thread) : joins(i) \in SUBSET People
    OBVIOUS
<1> HIDE DEF joins
<1>3. ASSUME NEW i \in 1 .. Len(thread)
      PROVE  /\ row(i) \in Thread /\ row(i).type = thread[i].type
             /\ row(i).members = thread[i].members \cup joins(i)
    BY <1>2, <1>3, ChatHas DEF Thread
<1> HIDE DEF row
<1>4. thread' \in [1 .. Len(thread) -> Thread] /\ Len(thread) \in Nat
    BY <1>1, <1>3, ChatHas
<1>5. thread' \in Seq(Thread)
    BY <1>4, SeqDef
<1>6. Len(thread') = Len(thread)
    BY <1>4, <1>5, LenProperties
<1>7. Grows
    BY <1>1, <1>3, <1>5, <1>6, ChatHas DEF Grows
<1>8. QED
    BY <1>1, <1>7, NoCallStep DEF ChatInv, ChatTypeOK

LEMMA TourEndsStep ==
    ASSUME ChatInv, event' = None, TourEnds
    PROVE  ChatInv'
<1>1. UNCHANGED <<thread, message, crew, newest, chatCall>> /\ touring' \in BOOLEAN
    BY DEF TourEnds
<1>2. QED
    BY <1>1, TablesRest, NoCallStep

LEMMA InsertMessageStep ==
    ASSUME ChatInv, event' = None, NEW h \in ChatHandlers, InsertMessage(h)
    PROVE  ChatInv'
<1> DEFINE row == [thread |-> chatCall[h].thread, lane |-> chatCall[h].lane, sent |-> FALSE]
           call == [chatCall[h] EXCEPT !.message = Len(message) + 1, !.driver = newest,
                       !.steady = TRUE,
                       !.step = IF chatCall[h].user \in Guests /\ chatCall[h].lane = "driver"
                                THEN "driver" ELSE "emit"]
<1>1. /\ chatCall[h].step = "insert" /\ Len(message) < MaxMessages
      /\ message' = Append(message, row) /\ ChatCallIs(h, call)
      /\ thread' = thread /\ UNCHANGED <<crew, newest, touring>>
    BY DEF InsertMessage, trip
<1>2. chatCall[h] \in ChatCall /\ chatCall[h].thread \in 1 .. Len(thread)
    BY <1>1 DEF ChatInv, ChatTypeOK, CallHolds
<1>3. row \in Message /\ row.thread = chatCall[h].thread /\ row.lane = chatCall[h].lane
    BY <1>2, ChatHas DEF Message, ChatCall
<1>4. newest \in Drivers \cup {None} /\ newest \in People \cup {None}
    BY DEF ChatInv, ChatTypeOK, Drivers, Having
<1>5. Len(message) + 1 \in 0 .. MaxMessages /\ Len(message) \in Nat
    BY <1>1, ChatHas, ChatBoundsAssumption
<1>6. /\ call \in ChatCall /\ call.message = Len(message) + 1 /\ call.driver = newest
      /\ call.thread = chatCall[h].thread /\ call.lane = chatCall[h].lane
      /\ call.user = chatCall[h].user
      /\ call.step = IF call.user \in Guests /\ call.lane = "driver" THEN "driver" ELSE "emit"
    BY <1>2, <1>4, <1>5 DEF ChatCall
<1> HIDE DEF row, call
<1>7. /\ message' \in Seq(Message) /\ Len(message') = Len(message) + 1
      /\ \A m \in 1 .. Len(message) : message'[m] = message[m]
      /\ message'[Len(message) + 1] = row
    BY <1>1, <1>3, ChatHas, AppendProperties
<1>8. Grows
    BY <1>1, <1>5, <1>7, ChatHas, ChatBoundsAssumption DEF Grows
<1>9. call.message \in 1 .. Len(message') /\ message'[call.message] = row
    BY <1>5, <1>6, <1>7
<1>10. CallHolds(call, thread', message', newest')
    BY <1>1, <1>2, <1>3, <1>4, <1>6, <1>9 DEF CallHolds
<1>11. /\ chatCall' \in [ChatHandlers -> ChatCall] /\ chatCall'[h] = call
       /\ \A g \in ChatHandlers \ {h} : chatCall'[g] = chatCall[g]
    BY <1>1, <1>6, ChatCallGoes
<1>12. \A m \in 1 .. Len(message') :
          m > Len(message) => message'[m].thread \in 1 .. Len(thread')
    BY <1>1, <1>2, <1>3, <1>5, <1>7
<1>13. touring' \in BOOLEAN
    BY <1>1 DEF ChatInv, ChatTypeOK
<1>14. QED
    BY <1>1, <1>8, <1>10, <1>11, <1>12, <1>13, SilentStep

LEMMA EnsureDriverStep ==
    ASSUME ChatInv, event' = None, NEW h \in ChatHandlers, EnsureDriver(h)
    PROVE  ChatInv'
<1> DEFINE call == [chatCall[h] EXCEPT !.step = "emit"]
           t == chatCall[h].thread
<1>1. /\ chatCall[h].step = "driver" /\ thread' = Adding(t, DriverToJoin(t))
      /\ ChatCallIs(h, call) /\ message' = message /\ UNCHANGED trip
    BY DEF EnsureDriver, ChatGoes
<1>2. chatCall[h] \in ChatCall /\ t \in 1 .. Len(thread)
    BY <1>1 DEF ChatInv, ChatTypeOK, CallHolds
<1>3. DriverToJoin(t) \in SUBSET People
    BY DEF DriverToJoin, ChatInv, ChatTypeOK, Drivers, Having
<1>4. /\ Grows /\ Len(thread') = Len(thread)
      /\ thread'[t].members = thread[t].members \cup DriverToJoin(t)
    BY <1>1, <1>2, <1>3, ThreadsGrow
<1>5. /\ call \in ChatCall /\ call.step = "emit" /\ call.thread = t
      /\ call.message = chatCall[h].message /\ call.lane = chatCall[h].lane
      /\ call.driver = chatCall[h].driver /\ call.steady = chatCall[h].steady
    BY <1>2 DEF ChatCall
<1> HIDE DEF call
<1>6. thread'[t].type = thread[t].type
    BY <1>2, <1>4 DEF Grows
<1>7. ASSUME call.steady, call.driver # None,
             thread'[t].type \in {"booking_support", "client_direct"}
      PROVE  call.driver \in thread'[t].members
    <2>1. call.driver = newest
        BY <1>1, <1>5, <1>7 DEF ChatInv, CallHolds
    <2>2. DriverToJoin(t) = {newest} \ {None}
        BY <1>6, <1>7 DEF DriverToJoin, OfBooking
    <2>3. QED
        BY <1>4, <1>7, <2>1, <2>2
<1>8. /\ call.message \in 1 .. Len(message') /\ message'[call.message].thread = call.thread
      /\ message'[call.message].lane = call.lane
      /\ call.driver # None => call.driver \in Drivers
    BY <1>1, <1>5 DEF ChatInv, CallHolds
<1>9. CallHolds(call, thread', message', newest')
    BY <1>2, <1>4, <1>5, <1>7, <1>8 DEF CallHolds
<1>10. QED
    BY <1>1, <1>4, <1>5, <1>9, ChatCallStep

LEMMA CrewStep ==
    ASSUME ChatInv, event' = None, Unsettled, UNCHANGED <<thread, message, touring>>,
           crew' \subseteq Drivers, newest' \in crew' \cup {None}
    PROVE  ChatInv'
<1>1. ASSUME NEW h \in ChatHandlers
      PROVE  /\ chatCall'[h] \in ChatCall
             /\ CallHolds(chatCall'[h], thread', message', newest')
    <2> DEFINE call == [chatCall[h] EXCEPT !.steady = chatCall[h] = NoChatCall]
    <2>1. chatCall'[h] = call /\ chatCall[h] \in ChatCall
        BY DEF Unsettled, ChatInv, ChatTypeOK
    <2>2. CASE chatCall[h] = NoChatCall
        <3>1. call \in ChatCall /\ call.step = "idle"
            BY <2>1, <2>2, NoChatCallHolds DEF ChatCall
        <3> HIDE DEF call
        <3>2. QED
            BY <2>1, <3>1 DEF CallHolds
    <2>3. CASE chatCall[h] # NoChatCall
        <3>1. /\ call \in ChatCall /\ call.steady = FALSE /\ call.step = chatCall[h].step
              /\ call.type = chatCall[h].type /\ call.user = chatCall[h].user
              /\ call.other = chatCall[h].other /\ call.thread = chatCall[h].thread
              /\ call.message = chatCall[h].message /\ call.lane = chatCall[h].lane
              /\ call.driver = chatCall[h].driver
            BY <2>1, <2>3 DEF ChatCall
        <3> HIDE DEF call
        <3>2. CallHolds(chatCall[h], thread, message, newest)
            BY DEF ChatInv
        <3>3. CallHolds(call, thread', message', newest')
            BY <3>1, <3>2 DEF CallHolds
        <3>4. QED
            BY <2>1, <3>1, <3>3
    <2>4. QED
        BY <2>2, <2>3
<1>2. chatCall' \in [ChatHandlers -> ChatCall]
    BY <1>1 DEF Unsettled
<1>3. ChatTypeOK'
    BY <1>2 DEF ChatInv, ChatTypeOK
<1>4. ReadersAreTold'
    BY DEF ReadersAreTold, IsNews
<1>5. QED
    BY <1>1, <1>3, <1>4 DEF ChatInv

LEMMA DriverAcceptsStep ==
    ASSUME ChatInv, event' = None, NEW d \in Drivers, DriverAccepts(d)
    PROVE  ChatInv'
<1>1. crew' \subseteq Drivers /\ newest' \in crew' \cup {None}
    BY DEF DriverAccepts, ChatInv, ChatTypeOK
<1>2. QED
    BY <1>1, CrewStep DEF DriverAccepts

LEMMA DriverLeavesStep ==
    ASSUME ChatInv, event' = None, NEW d \in Drivers, DriverLeaves(d)
    PROVE  ChatInv'
<1>1. crew' \subseteq Drivers /\ newest' \in crew' \cup {None}
    BY DEF DriverLeaves, ChatInv, ChatTypeOK
<1>2. QED
    BY <1>1, CrewStep DEF DriverLeaves

LEMMA SilentlyStep ==
    ASSUME ChatInv, Silently, event' = None
    PROVE  ChatInv'
<1>1. CASE \E h \in ChatHandlers :
              \/ \E u \in People : OpenSupport(h, u)
              \/ \E u, v \in People : FindDm(h, u, v)
              \/ \E u \in People, t \in DOMAIN thread, lane \in Lanes :
                    SendMessage(h, u, t, lane)
              \/ CreateSupport(h) \/ JoinSupport(h) \/ CreateDm(h)
              \/ InsertMessage(h) \/ EnsureDriver(h) \/ ChatFails(h)
    BY <1>1, OpenSupportStep, FindDmStep, SendMessageStep, CreateSupportStep,
       JoinSupportStep, CreateDmStep, InsertMessageStep, EnsureDriverStep, ChatFailsStep
<1>2. CASE \E u \in People, t \in DOMAIN thread : UseThread(u, t)
    BY <1>2, UseThreadStep
<1>3. CASE \E u, v \in People, type \in {"client_direct", "team"} :
              CreateConversation(u, type, {v})
    BY <1>3, CreateConversationStep
<1>4. CASE \/ \E u \in People : ListConversations(u)
           \/ \E d \in Drivers : DriverAccepts(d) \/ DriverLeaves(d)
           \/ TourEnds
    BY <1>4, ListConversationsStep, DriverAcceptsStep, DriverLeavesStep, TourEndsStep
<1>5. QED
    BY <1>1, <1>2, <1>3, <1>4 DEF Silently

-----------------------------------------------------------------------------
(* Who is sent a message.                                                  *)

\* The list and the rooms: a reader of a message is in one of its rooms.
LEMMA ReadersHaveRooms ==
    ASSUME NEW t \in DOMAIN thread, NEW m, m.lane \in Lanes, m.thread = t
    PROVE  Readers(m) \subseteq Rooms(t, m.lane)
BY DEF Readers, Rooms, MayRead, LaneOf, Lanes

LEMMA MessageSent ==
    ASSUME ChatInv, NEW h \in ChatHandlers, EmitMessage(h)
    PROVE  LET m == chatCall[h].message
           IN  /\ m \in 1 .. Len(message) /\ m \in 1 .. MaxMessages
               /\ message[m].thread \in 1 .. Len(thread) /\ message[m].lane \in Lanes
               /\ message[m].thread = chatCall[h].thread
               /\ event' = [name |-> "message.new", message |-> m,
                            to |-> event'.to]
               /\ event'.to \in SUBSET People
               /\ Rooms(message[m].thread, message[m].lane) \subseteq event'.to
               /\ message' = [message EXCEPT ![m].sent = TRUE]
<1> DEFINE m == chatCall[h].message
           rooms == Rooms(message[m].thread, message[m].lane)
<1>1. /\ chatCall[h].step = "emit" /\ message' = [message EXCEPT ![m].sent = TRUE]
      /\ event' = [name |-> "message.new", message |-> m,
                   to |-> IF rooms = {} THEN People ELSE rooms]
    BY DEF EmitMessage, Emit
<1>2. m \in 1 .. Len(message) /\ message[m].thread = chatCall[h].thread
    BY <1>1 DEF ChatInv, CallHolds
<1>3. message[m] \in Message /\ m \in 1 .. MaxMessages
      /\ message[m].thread \in 1 .. Len(thread)
    BY <1>2, ChatHas DEF ChatInv
<1>4. message[m].lane \in Lanes
    BY <1>3 DEF Message
<1>5. thread[message[m].thread].members \subseteq People
    BY <1>3, ChatHas DEF Thread
<1>6. rooms \in SUBSET People
    BY <1>5 DEF Rooms
<1> HIDE DEF rooms, m
<1>7. /\ event'.to = (IF rooms = {} THEN People ELSE rooms)
      /\ event' = [name |-> "message.new", message |-> m, to |-> event'.to]
    BY <1>1
<1>8. event'.to \in SUBSET People /\ rooms \subseteq event'.to
    BY <1>6, <1>7
<1>9. QED
    BY <1>1, <1>2, <1>3, <1>4, <1>7, <1>8 DEF m, rooms

LEMMA EmitMessageStep ==
    ASSUME ChatInv, NEW h \in ChatHandlers, EmitMessage(h)
    PROVE  ChatInv'
<1> DEFINE m == chatCall[h].message
           row == [message[m] EXCEPT !.sent = TRUE]
<1>1. /\ m \in 1 .. Len(message) /\ m \in 1 .. MaxMessages
      /\ message[m].thread \in 1 .. Len(thread) /\ message[m].lane \in Lanes
      /\ event' = [name |-> "message.new", message |-> m, to |-> event'.to]
      /\ event'.to \in SUBSET People
      /\ Rooms(message[m].thread, message[m].lane) \subseteq event'.to
      /\ message' = [message EXCEPT ![m].sent = TRUE]
    BY MessageSent
<1>2. ChatCallIs(h, NoChatCall) /\ thread' = thread /\ UNCHANGED <<crew, newest, touring>>
    BY DEF EmitMessage, ChatEnds, trip
<1> HIDE DEF m
<1>3. row \in Message /\ row.thread = message[m].thread /\ row.lane = message[m].lane
    BY <1>1, ChatHas DEF Message
<1>4. message' = [message EXCEPT ![m] = row]
    BY <1>1
<1> HIDE DEF row
<1>5. /\ message' \in Seq(Message) /\ Len(message') = Len(message)
      /\ \A i \in 1 .. Len(message) : message'[i] = IF i = m THEN row ELSE message[i]
    <2>1. message \in Seq(Message) /\ m \in 1 .. Len(message)
        BY <1>1, ChatHas
    <2>2. QED
        BY <1>3, <1>4, <2>1, ExceptSeq
<1>6. \A i \in 1 .. Len(message) : /\ message'[i].thread = message[i].thread
                                   /\ message'[i].lane = message[i].lane
    BY <1>3, <1>5
<1>7. Grows
    BY <1>2, <1>5, <1>6, ChatHas DEF Grows
<1>8. /\ chatCall' \in [ChatHandlers -> ChatCall] /\ chatCall'[h] = NoChatCall
      /\ \A g \in ChatHandlers \ {h} : chatCall'[g] = chatCall[g]
    BY <1>2, NoChatCallHolds, ChatCallGoes
<1>9. event' \in Event
    BY <1>1 DEF Event
<1>10. ChatTypeOK'
    BY <1>2, <1>7, <1>8, <1>9 DEF ChatInv, ChatTypeOK, Grows
<1>11. ASSUME NEW g \in ChatHandlers
       PROVE  CallHolds(chatCall'[g], thread', message', newest')
    <2>1. CASE g = h
        BY <2>1, <1>8, NoChatCallHolds
    <2>2. CASE g # h
        BY <2>2, <1>2, <1>7, <1>8, CallsStillHold DEF ChatInv, ChatTypeOK
    <2>3. QED
        BY <2>1, <2>2
<1>12. \A i \in 1 .. Len(message') : message'[i].thread \in 1 .. Len(thread')
    BY <1>2, <1>5, <1>6 DEF ChatInv
<1>13. Readers(message[m]) \subseteq event'.to
    <2>1. message[m].thread \in DOMAIN thread
        BY <1>1, ChatHas
    <2>2. Readers(message[m]) \subseteq Rooms(message[m].thread, message[m].lane)
        BY <1>1, <2>1, ReadersHaveRooms
    <2>3. QED
        BY <1>1, <2>2
<1>14. {p \in thread'[message'[m].thread].members : MayRead(p, message'[m])}
          = Readers(message[m])
    BY <1>1, <1>2, <1>6 DEF Readers, MayRead
<1>15. event'.message = m
    BY <1>1
<1>16. ReadersAreTold'
    BY <1>13, <1>14, <1>15 DEF ReadersAreTold, Readers
<1>17. QED
    BY <1>10, <1>11, <1>12, <1>16 DEF ChatInv

LEMMA TranslateStep ==
    ASSUME ChatInv, NEW m \in DOMAIN message, Translate(m)
    PROVE  ChatInv' /\ ~IsNews(event')
<1> DEFINE rooms == LaneOnly(message[m].thread, message[m].lane)
<1>1. /\ event' = [name |-> "message.translated", message |-> m,
                   to |-> IF rooms = {} THEN People ELSE rooms]
      /\ UNCHANGED <<chatTables, chatCall>>
    BY DEF Translate, Emit
<1>2. m \in 1 .. MaxMessages /\ message[m].thread \in 1 .. Len(thread)
    BY ChatHas DEF ChatInv
<1>3. rooms \in SUBSET People
    BY <1>2, ChatHas DEF LaneOnly, Thread
<1> HIDE DEF rooms
<1>4. event' \in Event /\ ~IsNews(event')
    BY <1>1, <1>2, <1>3 DEF Event, IsNews
<1>5. ReadersAreTold'
    BY <1>4 DEF ReadersAreTold, IsNews
<1>6. ChatTypeOK'
    BY <1>1, <1>4 DEF ChatInv, ChatTypeOK, chatTables
<1>7. QED
    BY <1>1, <1>4, <1>5, <1>6 DEF ChatInv, chatTables

LEMMA ChatStep == ChatInv /\ [ChatNext]_chatVars => ChatInv'
<1> SUFFICES ASSUME ChatInv, [ChatNext]_chatVars PROVE ChatInv'
    OBVIOUS
<1>1. CASE UNCHANGED chatVars
    BY <1>1 DEF chatVars, ChatInv, ChatTypeOK, ReadersAreTold, IsNews, Readers, MayRead
<1>2. CASE Silently /\ event' = None
    BY <1>2, SilentlyStep
<1>3. CASE \E h \in ChatHandlers : EmitMessage(h)
    BY <1>3, EmitMessageStep
<1>4. CASE \E m \in DOMAIN message : Translate(m)
    BY <1>4, TranslateStep
<1>5. QED
    BY <1>1, <1>2, <1>3, <1>4 DEF ChatNext

\* Threads, messages and the calls on their way have their types, whatever a call that
\* is interrupted leaves.
THEOREM ChatTypeCorrect == ChatSpec => []ChatTypeOK
<1>1. ChatInv => ChatTypeOK
    BY DEF ChatInv
<1>2. QED
    BY ChatStart, ChatStep, <1>1, PTL DEF ChatSpec

\* Whoever is on a thread when a message goes out and would find it in the list is sent
\* it, for any people, threads and requests in flight (emitMessage and listMessages,
\* which filter the lanes in different code).
THEOREM ReadersTold == ChatSpec => []ReadersAreTold
<1>1. ChatInv => ReadersAreTold
    BY DEF ChatInv
<1>2. QED
    BY ChatStart, ChatStep, <1>1, PTL DEF ChatSpec

\* A news event is sent to the rooms of its message.
LEMMA NewsIsEmitted ==
    ASSUME ChatInv, ChatNext, IsNews(event')
    PROVE  \E h \in ChatHandlers : EmitMessage(h)
<1>1. event' # None
    BY DEF IsNews
<1>2. QED
    BY <1>1, TranslateStep DEF ChatNext

LEMMA NewsReachesTheDriver ==
    ASSUME ChatInv, ChatNext, NEW h \in ChatHandlers,
           chatCall[h].step = "emit", IsNews(event'), event'.message = chatCall[h].message,
           chatCall[h].user \in Guests, chatCall[h].lane = "driver",
           OfBooking(chatCall[h].thread), chatCall[h].steady, chatCall[h].driver # None
    PROVE  chatCall[h].driver \in event'.to
<1>1. PICK g \in ChatHandlers : EmitMessage(g)
    BY NewsIsEmitted
<1> DEFINE m == chatCall[g].message
<1>2. /\ event' = [name |-> "message.new", message |-> m, to |-> event'.to]
      /\ Rooms(message[m].thread, message[m].lane) \subseteq event'.to
    BY <1>1, MessageSent
<1> HIDE DEF m
<1>3. m = chatCall[h].message
    BY <1>2
<1>4. /\ message[m].thread = chatCall[h].thread /\ message[m].lane = "driver"
      /\ chatCall[h].driver \in Drivers
      /\ chatCall[h].driver \in thread[chatCall[h].thread].members
    BY <1>3 DEF ChatInv, CallHolds, OfBooking
<1>5. chatCall[h].driver \in Rooms(message[m].thread, message[m].lane)
    BY <1>4 DEF Rooms, LaneOf, Drivers, Having
<1>6. QED
    BY <1>2, <1>5

\* The guest's word to the driver reaches the booking's driver, who is put on the thread
\* first, unless a driver comes or goes while it is sent (sendMessage,
\* ensureDriverParticipant): with any number of calls in flight.
THEOREM DriverReached == ChatSpec => DriverIsReached
<1>1. ASSUME ChatInv, [ChatNext]_chatVars
      PROVE  [\A h \in ChatHandlers :
                LET call == chatCall[h]
                IN /\ call.step = "emit" /\ IsNews(event') /\ event'.message = call.message
                   /\ call.user \in Guests /\ call.lane = "driver" /\ OfBooking(call.thread)
                   /\ call.steady /\ call.driver # None
                   => call.driver \in event'.to]_chatVars
    BY <1>1, NewsReachesTheDriver
<1>2. QED
    BY ChatStart, ChatStep, <1>1, PTL DEF ChatSpec, DriverIsReached

=============================================================================
