# Zeengo backend: specification and proofs

The Zeengo backend (NestJS, Prisma on PostgreSQL, Redis, BullMQ, Socket.IO,
Stripe) serves a travel agency: bookings with a guest, money, drivers, an
itinerary, chat and back-office desks. This directory models the parts whose
correctness depends on the order of steps of several actors, checks the models
with TLC and proves their main invariants with TLAPS. Paths below are relative to
the repository's root.

## 1. Inventory

Every HTTP handler is one service method that awaits PostgreSQL, Redis or an
external service several times. Handlers of one process interleave at those
awaits, and several processes may run behind one database. Few methods use a
database transaction, none takes an explicit lock, and almost every guard is read
outside the transaction that relies on it.

| component | state | operations that change it | talks to | what makes it hard |
|---|---|---|---|---|
| payments (`src/payments`) | rows of `payments` | `recordCashPayment`, `createStripeLink`, `applyStripeWebhookStatus` | bookings (due amount, paid cache), Stripe, realtime, audit | check of the due amount and insert are apart; row before link; rounding |
| stripe webhook (`src/webhooks`) | rows of `stripe_webhook_events` | `handleStripeEvent` | payments | repeated, concurrent, unordered deliveries; a crash between the event and its effect |
| paid cache (`bookings.service.ts:855-874`) | Redis key `booking:{id}:paid`, 60 s | `getPaidAmount`, `invalidatePaidCache` | payments | read, aggregate and set race with an invalidation |
| bookings (`src/bookings`) | rows of `bookings`, checklist, request status | `create`, `createCustomerRequest`, `reviewCustomerRequest`, `update`, checklist | clients, notifications | idempotency key, review without from-state, effects after the commit |
| driver assignments (`src/drivers`) | rows of `driver_assignments`, driver status, GPS in Redis | `createAssignment`, accept, reject, start, complete, `deleteAssignment`, `recordGps` | itineraries (driver stamp), bookings (completion), chat | guards outside transactions, row locks, two-step clean-up |
| itineraries (`src/itineraries`) | rows of `itinerary_items` | create, update, delete, import, move | assignments | stamp of the driver, sort order |
| edit requests and VIP (`src/edit-requests`, `src/vip`) | rows of `edit_requests`, VIP flag and total of a booking | create, approve, reject, `activate` | bookings | two ways to one upgrade, total read before it is written |
| auth (`src/auth`) | one-time codes, refresh tokens in Redis, push tokens | login, register, `verifyOtp`, `resetPassword`, `refresh`, `logout` | notifications | consumption of a code, rotation of a token |
| chat (`src/chat`) | conversations, participants, messages, read markers | get-or-create, send, mark read, lazy join | assignments, jobs | no unique key on a thread, participants stay |
| notifications (`src/notifications`) | rows of `notifications`, push tokens | fan-out, read, prune | auth | after the commit, unawaited push |
| vendors (`src/vendors`) | rows of `vendors` and `vendor_bookings` | `assign`, `updateBooking`, `generateVoucher`, update, remove | bookings, itineraries | commission and voucher code computed from an earlier read |
| master data (`src/master-data`) | the import's job, vendors by type, city and name | `previewUpload`, `commit` | vendors | preview and commit apart, no unique key on the business key |
| reviews, SOS (`src/reviews`, `src/sos`) | `driver_reviews` with the driver's average; `sos_alerts` | upsert and recompute; create, resolve | notifications | aggregate in a transaction that does not see the other's row; told after the insert |
| tasks (`src/tasks`) | rows of `tasks` | create, update, complete | client portal, VIP escalation | told after the insert; two ways to be done |
| client portal (`src/client-portal`), operations (`src/operations`) | day plans | the guest's itinerary and tasks, the desk's view | itineraries, vendors, tasks | two services filter and merge the same rows, statement by statement |
| client v2 (`src/client-v2`) | none | public lists, details, paging | vendors, places, destinations | every list filters for itself |
| realtime, background jobs (`src/realtime`, `src/jobs`) | rooms; queues in Redis | emit; push and translation workers | chat, notifications | an empty list of rooms, a queue that is not there |
| clients, users, packages, settings, emails | their rows | CRUD | auth | none beyond a unique key |
| dashboard (`src/dashboard`) | four kinds of Redis keys, 20 s; rows of `eod_reports` | the cards, `createEodReport`, `sendEodReport` | reads bookings, tasks, payments, items, drivers | keys set with numbers read before, by calls that overlap changes |
| live positions (`drivers.service.ts:758-889`) | a driver's row, his key in Redis, the set of drivers with a key | `recordGps`, `updateMyStatus` | dispatch's map | three writes at once, a key read and put back |
| finance, AI, system | none of their own | reads, a demonstration's rows | all | none |

What makes each component correct:

* payments: a booking is not charged beyond its total; a row follows sent, opened,
  paid or expired; the paid amount a reader sees is the sum of the paid rows
  (`docs/IMPLEMENTATION_PLAN.md:17`); an event takes effect exactly once.
* assignments: a booking has one open assignment and a driver one booking; a
  status is earned by the driver's own steps; the itinerary names the driver who
  accepted.
* bookings: one request per idempotency key; notifications for every request;
  a review does not undo a later one.
* upgrades: a booking pays for VIP once; an approved upgrade is one; dates change by
  approval; a reviewed request stays reviewed.
* auth: a code works once and only so many attempts; an account is verified, and a
  password reset, by a code for that; a used refresh token works no more, and a new
  one claims what is true.
* chat: who may read a message is sent it and nobody else; the booking's driver
  hears the guest.
* pushes: a client's last device of each platform is kept until FCM drops it.
* vendors and master data: a commission is that of its row; an import is applied once.
* reviews, SOS, tasks: the average is that of the reviews; an alert reaches the desk;
  a task reaches the guest.
* dashboard: a card that is served from a key says what the tables say once they have
  rested; a report says the numbers of its day. Live positions: the map shows a driver
  where he reported.
* portal and public lists: what the desk has planned is shown once; what is listed
  can be opened.

The hazards behind these properties are listed with their lines in `PROJECT.json`.

## 2. Plan

| order | module | composed with | abstract specification | runs | theorems |
|---|---|---|---|---|---|
| 1, done | `Payments` | webhook and cache in one module, since they share rows | `PaymentLedger` | `payments`, `payments_races`, `payments_crash`, `payments_overlap` | type, applied once, paid is backed, rows fit |
| 2, done | `Assignments` | itinerary stamp, booking completion | `AssignmentLife` | `assignments`, `assignments_races`, `assignments_busy` | type, status is earned, stamp needs consent |
| 3, done | `Upgrades` | edit requests, VIP desk, total of a booking | | `upgrades`, `upgrades_crash` | type, charged once, approvals upgrade, dates need approval |
| 4, done | `Requests` | client, booking, notifications | | `service` | type, one booking per key, reviews stand |
| 5, done | `Codes`, `Sessions`, `Pushes` | account and codes; Redis and tokens; login and push worker | | `service` | of `Codes`: type, accounts are earned, limit; of `Sessions`: type, rotation, claims |
| 6, done | `Chat` | threads, assignments, rooms, translations | | `service`, `chat_lane`, `chat_supervisors` | readers are told, the driver is reached |
| 7, done | `Catalogue`, `Plans`, `Tasks`, `Portal`, `Feedback`, `Discovery` | vendors and import; itinerary, desk and guest; reviews and alarms; public lists | | `service` | one for each property |
| 8, done | `Dashboard`, `Positions` | rows of all other services; a driver's row and key | | `service` | cards catch up, the map is his |
| 9, done | history of whom a step overtakes in `Payments` and `Assignments`, and what is left of the promises under every overlap and death | | `PaymentLedger`, `AssignmentLife` | `payments_races`, `assignments_races` | both refinements, cache, acks, cash; one booking per driver, times, stamps |
| 10, done | `ServiceProofs` | the parts of `service` together | | `service` | type and every property of all parts in any interleaving |

## 3. Payments

`Payments.tla` is the money of a booking: rows, cache, links at Stripe, events and
the handlers that serve requests.

### State

| variable | in the code |
|---|---|
| `total` | `bookings.total_amount` |
| `payment` | `payments`: status, booking, amount, whether `stripe_link_url` is saved. `none` is a row that does not exist. The statuses `pending` and `failed` are never written. |
| `cache` | `booking:{id}:paid` in Redis, `Miss` when absent |
| `links` | rows for which `stripe.paymentLinks.create` has succeeded |
| `event`, `stored`, `acked` | what Stripe has emitted; rows of `stripe_webhook_events`; events answered with a 2xx |
| `job` | the local variables and the position of each handler |
| `peak`, `applied`, `faults` | history of totals, of updates per event, and of lost handlers |
| `raced`, `lost`, `stale`, `behind` | history of whom a step overtakes: rows that changed between an event's look and its write; events whose handler died before applying them; bookings whose cached sum nobody is left to delete; charges whose booking changed under them |

Money in rows is a number of cents (`Decimal(12,2)`); an amount in a request is
any positive number and is kept in tenths of a cent, the finest the tolerance of
0.009 tells apart. Rounding to cents is part of `ToCents`.

### Actions

| action | code |
|---|---|
| `Start`, `StartRead`, `Deliver` | a request arrives: cash, link in one of three modes, any read of the paid amount, an event |
| `ReadTotal`, `RedisGet`, `Aggregate`, `RedisSet` | `getDueAmount` with `getPaidAmount`, one await each |
| `Refuse`, `ReadDeposit`, `InsertRow` | the checks of `recordCashPayment` and `resolveStripeAmount`, and the insert that follows them without an await |
| `CreateLink`, `SaveUrl` | the call to Stripe and the second update of `createStripeLink` |
| `Emit` | Stripe: an event of a link, any number of checkout sessions per link |
| `FindEvent`, `StoreEvent`, `StoreConflict` | `handleStripeEvent`: look-up, insert, unique key |
| `LoadRow`, `WriteStatus`, `Invalidate` | `applyStripeWebhookStatus` |
| `UpdateBooking` | `PATCH /bookings/:id` with a new total; other writers of the total (VIP, approvals) look the same from here |
| `CacheExpire` | the key's `EX 60` |
| `Abort` | a call that throws or a process that dies; what is written stays |

Audit rows and realtime events are left out: nothing reads them back.

### Runs

| run | bounds | shows |
|---|---|---|
| `payments` | 1 booking, 1 row, 1 event, 2 handlers, 1 fault, totals 3 and 6, amounts 2.9 and 6.9 cents | at most one application per event, paid links are backed by events, amounts bounded by the booking's totals; no event stays unacked |
| `payments_races` | 1 booking, 2 rows, 2 events, 2 handlers, 1 fault, total 6, amount 6.9 cents | two handlers interleave at every await and one may die: exact cache, fitting cash, applied checkouts, `PaymentLedger` implemented, wherever nobody was overtaken (1.8 million states) |
| `payments_crash` | 1 row, 1 event, 1 handler, 1 fault | a counterexample: the event is stored, the handler dies, the retry is a duplicate |
| `payments_overlap` | 2 rows, 2 handlers, no fault | a counterexample: both handlers read the due amount first |

The bounds: two handlers are enough for every race of a read with a write, since
each property relates one row, event or booking to what two handlers do to it. The
totals and amounts are chosen so that a request fits, exceeds, and exceeds the due
amount only by the tolerance; `Unit` is small so that both arms of the deposit's
minimum occur. The races are all on one booking, so `payments_races` has one, and one
total; `payments` has totals that change, and the theorems of section 7 cover both at
once, with any number of bookings. `MaxFaults` bounds lost handlers; rows and events are
used up, so nothing else needs a bound.

### What is left under overlap

Nothing in the code keeps two requests about one booking apart, so nothing in the model
does. A payment that fits what is due, an exact cache, a row that follows its ledger and an
event that is applied are what the code wants and what overlapping calls can break. Four
history variables, which no action reads, note of each step whom it overtakes, as narrowly
as the code allows:

* `raced`: a row changed while a webhook was between `LoadRow` and `WriteStatus`. Such a row
  may leave `paid` (`Slip` in `PaymentLedger`), no other may.
* `lost`: a webhook's handler died after it stored its event and before it applied it.
* `stale`: the deletion of the cached sum came while a reader held an older one, died with
  its handler, or a row left `paid` (nothing is deleted then). It is over when the key has
  gone and no reader holds a sum, within 60 seconds of the last one.
* `behind`: a charge whose booking's total or paid rows were changed by another request
  since it began, or that took a `stale` sum, or one about to be deleted, from Redis.

`CacheAgrees`, `AckedIsApplied`, `CashFits` and `LedgerSpec` speak of everything else: of
overlaps that meet no such moment, of readers and writers in any order, of deaths anywhere.
`AckedIsPaid` and `CashFitsDue` are the same promises without an exception, which the code
breaks (`payments_crash`, `payments_overlap`).

### Fairness

`WF` on the steps of a started request: Node's event loop resumes a handler when
its await settles. `SF` on the delivery of an unacked event: Stripe retries for days, and the server, free again and again,
takes a retry sooner or later. No request is assumed to arrive.

### Findings

* A crash between `webhooks.service.ts:66` and the update loses a payment
  (`payments_crash`).
* Concurrent cash payments overpay a booking (`payments_overlap`).
* Two events of one link at once: an expired event that loaded its row before a completed
  one wrote it overwrites `paid`. A sum read before a payment can be cached after its
  invalidation. `LedgerSpec` and `CacheAgrees` say that nothing else goes wrong.

## 4. Assignments

`Assignments.tla` is the dispatch of drivers: the assignments of bookings, the
driver each itinerary item names, the driver's status and the completion of a
booking.

### State

| variable | in the code |
|---|---|
| `row` | `driver_assignments`, by its unique key of booking, driver and start date: the status and which of the time columns are set. `none` is a row that does not exist; the status `active` is read in lists but never written. |
| `item` | `itinerary_items`: booking and `driver_id`; `byHand` is history: staff wrote the driver in a request of their own |
| `driver` | `driver_profiles.status` |
| `booking` | `bookings.status` |
| `job` | each handler's request: position, the snapshot still to cancel (`todo`), the rows its open transaction has written (`held`), what it has read |
| `earned` | history: which rows were accepted and started by their driver |
| `crossed`, `contested`, `torn` | history of whom a step overtakes: bookings whose rows changed while one of its requests had looked and not written; drivers whose rows did; bookings of which a handler died between declining a row and clearing the items |

A transaction runs at READ COMMITTED, PostgreSQL's default: an `UPDATE` takes a
snapshot, waits for rows another transaction has written, and looks at them again
(`Scan`, `CancelOne`). What a transaction has written is kept in `job` until it
commits, so a lost handler (`Abort`) is a rollback. Waiting in a cycle ends by
`DeadlockDetected`.

### Actions

| action | code |
|---|---|
| `Request`, `RequestItem` | a request arrives |
| `AssignGuard`, `Scan`, `CancelOne`, `CancelDone`, `Find`, `Place`, `PlaceConflict` | `createAssignment`: the busy check outside the transaction, then cancel, look up, reset or insert; the unique key |
| `DriverGuard` | the status checks of accept, reject, start and complete, outside their transactions |
| `Accept` (after `Scan` ... `CancelDone`), `Start`, `Complete`, `CloseBooking`, `Reject` | the writes; `Complete` reads the booking's status, `CloseBooking` writes it and commits |
| `UnassignGuard`, `Unassign`, `Clear` | `deleteAssignment`; `Clear` is also the second statement of reject |
| `AddGuard`, `AddItem`, `AddByHand`, `StampByHand`, `DeleteItem`, `Import` | `itineraries.service.ts`: create with the committed driver or one in the body, update, delete, import |
| `SetStatus`, `SetBooking` | `PATCH` of a driver's and a booking's status |

`Start` has one step: its two updates lock the assignment and then the driver, and
nothing it reads can change in between. `Import` is the COMMIT of a transaction whose
DELETE took the rows it found (`gone`), so two imports at once, or an item created in
between, leave the items of both.

### Runs

| run | bounds | shows |
|---|---|---|
| `assignments` | 1 booking, 2 drivers, 1 date, 1 item, 2 handlers, 5 requests, 1 lost handler | whatever interleaves, a status is earned by its driver, a stamp needs his accept, and every request ends, deadlocks included |
| `assignments_races` | 2 bookings, 2 drivers, 1 item, 2 handlers, 4 requests, 1 lost handler; staff write one driver by hand, set bookings active, drivers available | one booking per driver, times that fit the status, items that name the committed driver, none of a driver who declined, `AssignmentLife` implemented, wherever nobody was overtaken |
| `assignments_busy` | 2 bookings, 1 driver, 2 handlers, 2 requests | a counterexample: both requests pass the busy check |

Five requests (`MaxStarts`) reach two proposals by overlapping requests, their two
accepts in each other's way (the deadlock) and one more. Four reach a whole life from
proposal to completion, or two drivers proposed and accepted one after the other, in
`assignments_races` with another booking's requests in between. Two drivers on one booking are enough for what
relates an assignment to the one that supersedes it. Deadlock of the model means
nothing here, since staff can always edit the itinerary; `RequestsEnd` is the
property that no request is stuck.

No lock is taken for a guard, and none is assumed. `crossed` notes a booking one of whose
rows is written while another request about it has looked and not written yet; `contested`
a driver, since DRIVER_BUSY is about his assignments of every booking; `torn` a booking of
which a handler dies between the two statements of `rejectMyAssignment`. The properties
speak of bookings and drivers that are not noted, while others are overtaken at the same
time: `AssignmentLife` lets an overtaken booking move irregularly (`Slip`) and no other
booking's assignment with it. `OneBookingPerDriver` is the promise without an exception.

Fairness: `WF` on the steps of each started request. Node resumes a handler when
its statement returns, PostgreSQL finishes a statement whose rows are free, and its
deadlock detector ends one of a cycle.

### Findings

* Overlapping assignments put one driver on two bookings (`assignments_busy`).
* Re-assigning an accepted booking leaves the old driver on its itinerary until the next
  accept, against the comment at `drivers.service.ts:398`: `createAssignment` cancels his
  row or resets it to pending and clears no item, which `deleteAssignment` does (685).
  `CommittedOwnsItinerary` says that the stamp does not survive the accept.
* A start that has read `accepted` revives an assignment cancelled meanwhile, and two
  re-assignments at once leave two open ones. `StatusIsEarned` says what remains true of
  every row; `LifeSpec` that this happens at overtaken bookings only.

## 5. Upgrades

`Upgrades.tla` is how a booking becomes VIP and changes its dates: clients ask
(`edit-requests.service.ts`, `vip.service.ts`), reviewers approve or reject, the VIP
desk activates without being asked, and staff edit the booking by PATCH.

### State

| variable | in the code |
|---|---|
| `booking` | `bookings`: `is_vip`, `total_amount`, the two dates as one value, `status` |
| `request` | `edit_requests`: status, booking, type with requested value; `none` is a row that does not exist. The types `itinerary_change` and `other` are approved like a date change that names no dates. |
| `price` | the setting `vip_price`, or the configured default |
| `job` | each handler's request: position, the total it has read, whether it upgrades |
| `bases`, `wasVip`, `approved`, `desk` | history: totals a booking had without a VIP price; bookings that have been VIP; requests approved; requests pending when the desk activated their booking |

### Actions

| action | code |
|---|---|
| `Review`, `Activate`, `Create`, `RequestUpgrade` | a request arrives |
| `UpgradeGuard`, `CheckPending`, `FindBooking`, `Insert` | `requestUpgrade`, which goes on into `create`; `createForBooking` is a case of the latter |
| `ReviewGuard`, `RejectWrite`, `ApproveWrite` | `approve` and `reject`: the status is checked outside the transaction, the write goes by id |
| `ReadBooking`, `ReadPrice` | the reads of `applyVipUpgrade` and of `activate`; the price comes by another connection |
| `WriteFails` | a total beyond `Decimal(12,2)`, a requested value that is not JSON |
| `ActivateWrite`, `CloseRequests` | the two writes of `activate`, not in a transaction |
| `SetPrice`, `UpdateBooking` | `updatePrice`, `PATCH /bookings/:id` |
| `Abort` | a lost handler; an open transaction is rolled back |

`ApproveWrite` is the whole transaction: it writes the booking, then the request, and
commits; at READ COMMITTED nobody sees a part of it, and what it wrote depends only
on what `ReadBooking` and `ReadPrice` have read. A PATCH reads nothing that its
write depends on.

### Runs

| run | bounds | shows |
|---|---|---|
| `upgrades` | 1 booking, 2 requests, 2 handlers, 2 dates, prices 2 and 3, totals 0 and 10, column up to 12, 1 lost handler; staff set totals and make the booking VIP | whatever interleaves, VIP is charged once, an approved upgrade has been made, the desk leaves no request pending, dates follow approvals |
| `upgrades_crash` | 1 booking, 1 request, 1 handler, 1 fault | a counterexample: the desk is lost between its two writes |

Each property relates one booking or one request to what two handlers do to it. The
prices differ, so that a handler can carry an outdated one; one total leaves room
for the upgrade and the other for the cheaper price only, so that the overflow is
reached. Staff taking VIP away again (`VipPatches` with `FALSE`) makes the instance
too large; the theorems hold for every PATCH.

### Findings

* The desk's activation is not atomic (`upgrades_crash`), and a repetition is
  refused, since the booking is VIP by then.
* Overlapping reviews of one request can both succeed, since both write by id: a
  rejected request may be one whose upgrade was approved and charged. A total that
  staff PATCH between `ReadBooking` and the write is lost. `ChargedOnce` says what
  remains true: two upgrades in flight write the same total plus one price each,
  instead of adding to each other.

## 6. The rest of the service

Twelve modules model the parts around these three, each over a handful of tables that
no other writes in a way it depends on. `Handling` holds what they share: the
requests in flight (`Handlers`) and `None`. Each handler is a record (`codeCall`,
`tokenCall`, `requestCall`, ...) with the step it awaits and what it has read; a
step that no other can come into is not split. In each a call can break off at any
await (`CodeCallFails`, `RequestFails`, ...): what is written stays, what is not is
never made up, but by a client who asks again.

### Modules

| module | state | actions and code |
|---|---|---|
| `Codes` | `account`: the rows of `clients` by id, with phone, `phoneVerifiedAt` and which request wrote the password last; `codes`: `otp_codes`, the last to expire last; `had`: history of a client's phones | `auth.service.ts`: `Register` with `RegisterUpdate` or `RegisterInsert`, `ForgotPassword`, `SendOtp`, `ChangePassword`; `FindCode` and `CompareCode` are `consumeOtp` within `verifyOtp` and `resetPassword`, `FindClient` and `ApplyCode` what follows it; `clients.service.ts`: `AddClient`, `ChangePhone` (the desk's PATCH, which keeps `phoneVerifiedAt`) |
| `Sessions` | `staff`: role and activity; `tripStatus`; `token`: refresh tokens, `stored` while their key is in Redis | `StaffLogin`, `ClientLogin`, `IssueTokens`, `Logout`; `Refresh`, `SpendToken` and `CheckStaff` are the use of a staff token, `CheckTrip` that of a client's, which no key stands for; `UpdateStaff`, `UpdateTrip` |
| `Pushes` | `devices`: the column `fcm_tokens`, a list of tokens with a platform each; `push`: each notification's job; `named`: history of the platforms a token was saved for | `SaveToken`, `SaveWrite` (login): the platform is what the app names, `android` if it names none, and the first entry with the same token or platform is replaced (`Upsert`); `Notify`, `EnqueueClientPush`, `EnqueuePush` with its fallback; `PushProcess`, `SendToTokens`, `PruneDeadTokens`, `PruneWrite` (worker) |
| `Chat` | `thread` with its members, `message` with its lane, `event`: what this step emits; `crew` and `newest`: assigned drivers | `OpenSupport` to `JoinSupport`, `CreateConversation`, `FindDm` and `CreateDm`, `ListConversations`, `UseThread` (lazy join); `SendMessage` to `EmitMessage`, `Translate` |
| `Requests` | `booking`: the customer's bookings, with the idempotency key and the number of notes in `internal_notes` | `CreateCustomerRequest` and `CreateBooking` (look-up), `InsertBooking` (transaction), `TellStaff`, `TellReceipt`; `ReviewCustomerRequest`, `WriteReview`, `TellVerdict`; `UpdateNotes` |
| `Catalogue` | `vendor`, `slip`: its `vendor_bookings`; `stock`: vendors per business key; `job`: the import | `Assign`, `UpdateSlip`, `GenerateVoucher` with their writes; `Upload`, `BuildPreview`, `PreviewUpload`; `Commit`, `CommitRow`, `CommitImport`, `MarkFailed` |
| `Plans` | `entry`: itinerary items by day and place; `service`: vendors booked; `planned`: day plans; `itinerary`: what the guest's page has read so far | `FindPlace` with `CreateItem` or `AssignAppended`, `AssignVendor`, `UpdateBooking`, `UpdateItem`, `DeleteItem`, `MoveItem` with `MoveWrite`, `UpsertDayPlan`; `DeleteMany` and `ImportItinerary` are the import's transaction: the rows its DELETE took, and its commit; `ReadTable` and `ItineraryIsRead` are the page, one statement for each table, and `ShownDays`, `Activities` what it makes of them |
| `Tasks` | `task`; `look`: one request of the guest's and its answer | `CreateTask`, `TellTask`, `UpdateTask`, `CompleteTask`, `Escalate`; `OpenPage`, `CountTasks`, `ReadTasks` |
| `Feedback` | `review` and `profile` of one driver; `alarm`, `onDesk` | `CreateOrUpdate`, `RecalcDriverRating`, `CommitReview`; `CreateSos`, `TellDesk`, `ResolveSos` |
| `Dashboard` | `now`: the rows that the cards count; `card`, `age`: the keys; `report`; `view`: each request with the rows as they were since it began | `OpenCard`, `Compute` (all queries), `SetKey` are `getOverview`, `getSummary`, `getUrgentAlerts` and `getSchedule`; `CreateReport`, `InsertReport`, `DropKeys`; `SendReport`, `MarkSent`; `RowChanges`: every other service; `Tick`: time |
| `Positions` | `whereabouts`: the driver's row; `pin`: his key; `pinned`: he is in the set | `RecordGps` with `WriteFix`, one of three writes in any order; `UpdateMyStatus`, `WriteStatus`, `LookAtKey`, `PutKey`; `OthersWriteStatus`; `Live` is what `getLivePositions` answers |
| `Discovery` | `shop`: vendors; `published`: places; `visit`: a visitor who turns pages | the lists are operators (`HomeFeed`, `ListPlaces`, `ListDestinations`, `Search`, ...) of a query's order, a key (`ByCityAndName`, `ByName`) and any order among rows of one key (`Ties`); `VendorChanges` and `Publish`: staff; `OpenCatalog`, `TurnPage` with `PageRows` and `PageCount`, `CloseCatalog`: a page's rows and its count are two statements |

`Portal` puts `Plans` and `Tasks` together: what the guest's app shows of one trip.

What is left to data: a code is right or wrong, a
vendor's type, city and name are one key, a commission is a product in hundredths,
an average is a sum and a count, a sum of payments on the dashboard the number of them.
What a card makes of answers from several moments is one value, `Mixed`: nothing is said
of it but that it goes. Time is counted in ticks, `TTL` of them a key's 20 seconds; a
card of tomorrow has a key and rows of its own and is like today's. A new code expires after the older ones, since all
live equally long. Clients and phones are several, since codes go by phone and accounts by
id, and the desk moves a phone from one client to the next. A customer of `Requests`, a
driver of `Positions` and `Feedback`, a trip of `Portal` and the owner of `devices` stand
for any: what is keyed by one is never joined with another's.

### Properties

| property | says | without what it would fail |
|---|---|---|
| `CodesAreLimited` | guesses and uses of a code exceed the limit by less than the requests in flight | the check of the attempts |
| `AccountsAreEarned` | verified or reset only by a code for just that, sent to a phone the client has had | the purpose in the look-up |
| `TokensRotate` | an exchanged staff token is out of Redis, successors are bounded by the requests in flight | the deletion of the key |
| `ClaimsWereTrue` | a new token claims what held at some moment of its request | the second look at the account |
| `DevicesAreKept` | one device of a platform, as long as no token is saved for two; the last saved stays unless a list was overwritten | replacing an entry instead of adding one |
| `ReadersAreTold` | who would find a new message in the list is sent it | the mapping of roles to lanes in the rooms |
| `DriverIsReached` | the guest's word to the driver reaches him, on the thread or not | joining him before the message |
| `OneBookingPerKey` | one booking per key, every answer shows it | the unique index |
| `ReviewsStand` | staff told, last word to the customer true, notes kept | the message of the verdict |
| `SlipsAddUp` | a commission is its amount times a rate the vendor has had; codes are bounded and the last one stored | recomputing at an update |
| `ImportsApplyOnce` | committed if and only if applied, once, as previewed | the status in the same transaction |
| `RatingIsTheAverage` | the profile is the average after a review that ran alone | reading one's own review |
| `AlarmsAreHeard` | all of the desk are told of an alert | the fan-out |
| `TripIsShown` | items of a day have places of their own; a page read in three statements shows every vendor and item that was not written meanwhile once, on its day; tasks done are stamped, told and listed | the foreign key's `SET NULL`, among others |
| `DashboardCatchesUp` | when rows have rested for a key's lifetime and no call that saw them otherwise is left, every card says what the tables say; a report says it of its moment | the expiry of the keys |
| `MapFollowsHim` | from a report that no other call of his overlapped on, the map shows him where he reported, on his duty | keeping the position when the duty is put into the key |
| `ListsAgree` | what any list shows can be opened; through the pages of a catalogue nobody changes, a vendor whose namesakes share its page is met once | the filter of one list |

The last column is the mutation under which TLC finds the property violated.

Where overlapping calls break a statement, the property says so and keeps what is
left: `ReviewsStand` leaves out bookings whose calls overlapped or broke off
(`overlapped`, `cut`), `ImportsApplyOnce` two commits at once, `DevicesAreKept` a
list written over a newer one (`clobbered`) and tokens of two platforms (`named`),
`RatingIsTheAverage` two reviews in
flight (`alone`), `TripIsShown` the order of days after overlapping edits and imports
(`untidy`) and rows written while the page is read (`written`), `ListsAgree` catalogues
that change under the visitor (`changed`) and namesakes on both sides of a page's end,
`MapFollowsHim` a driver's calls that overlap or break off (`tidy`) and duties that
others write (`touched`), `DashboardCatchesUp` the time until the keys have expired.
Each of them fails in the model without the exception; they are the hazards of
`PROJECT.json` at these lines.

The guest's itinerary is read table after table, in any order, and his tasks statement by
statement; writes fall between. `TripIsShown` speaks of what stood from the first statement
to the last: a vendor that is attached to an item, or detached from it, between two of
them may show twice or not at all until the page is read again.

### Runs

| run | bounds | shows |
|---|---|---|
| `service` | 2 handlers; 2 clients, 2 phones, 2 codes, 2 attempts; 2 staff roles, 3 tokens; 2 device tokens, 2 platforms, 3 saves, 1 push; one person of each chat role, 1 thread, 1 message, 1 chat handler; 1 key, 2 bookings, 2 reviews; 1 vendor booking, 2 voucher codes, 2 rates, a file of 3 rows with 2 keys, 1 vendor of a key; 2 items, 1 vendor, 2 days, of which 1 of the stay; 1 task; 2 reviewed trips, 2 alerts; 4 vendors, 2 places, pages of up to 2; an alert and a task on the dashboard, 1 change, 2 requests, keys of 2 ticks, 1 report; 2 positions, 2 duties | the properties above, over 1.3 million states |
| `chat_lane` | 1 handler, 1 thread, 1 message | a counterexample: nobody on the thread has the lane of the message, and everybody connected is sent it |
| `chat_supervisors` | a guest, an admin and a driver, 1 thread, 1 message | a counterexample: an admin is sent what the guest writes to the splizer |

`MCService` composes the parts. They share no row and no key, so a behaviour of all
is a shuffle of behaviours of each, and no property is about two parts; its initial
state picks the `part` that moves and the others rest; the rows the dashboard
counts stand for those that other services write. That is why the states add up
instead of multiplying, and why nothing is lost.

The bounds: every property relates one row to what two handlers do to it, or two
rows to one request. Two codes are a code for each purpose, or two for one; two clients
and two phones are a phone that changes hands; three
tokens are a login's and two successors of one use; two device tokens and two platforms
are a device replaced, one kept, and one that changes its platform; a file lists one hotel
twice and a tour once,
against a catalogue that has each already or not; two items on two days swap, tie
and leave their days; three hotels, two of them namesakes and one of these with a test
name, and a restaurant fill more than a page. Places are 0 and 1 (`MaxPlace`): the part
alone passes with three
places and both days in the stay (630,000 states), and shows the same.

Two parts are cut further, since their product is large. Calls about codes overlap, and
guesses are wrong, only while one phone is in play (`CodesBound`); with both phones the
calls come one after the other. The page is a part of its own: while it is read, calls of
the desk do not overlap with each other, only with the page's statements, nothing is moved
and no day is planned (`PageBound`); the part of the plans has all of that and no page. The
theorems have neither bound.

Two rows on the dashboard are a row that changes and one that rests, and limits of one
row (`Each`, `Most`, `Few`) make the alerts' cut happen; a key of two ticks can be read
at every age. A driver's positions and duties matter only as equal or not.

The twelve modules claim safety only: a call may break off and nobody repeats it, so no
fairness is assumed. Deadlock is checked: clients and staff can always ask for more,
or a call can end.

### Findings

* The comment at `dashboard.service.ts:214` says that the keys are dropped when ops
  events change the numbers; the function's only caller is `createEodReport` (182), so
  nothing but time does it, and for the schedule's keys nothing else. The time is not
  20 seconds either: a call that computed before a change may set its key after it, and
  that key lives as long as any (`DashboardCatchesUp` speaks of no such call being left).
* `roomsForMessageChannel` returns no room when nobody on the thread has the
  message's lane, and the emitter takes an empty list for none given and emits to all
  (`chat_lane`), against the comment at `chat.service.ts:836`.
* The same function adds the supervisors of every lane (854-857), as the comment at 764
  wants for the list, against "only to the guest + staff on that same channel (not other
  roles)" (`docs/CLIENT_APP_API.md:1083`, and 1061), `MOBILE_CHAT_WEBSOCKET_PROMPT.md:186`
  and the comment at 836 (`chat_supervisors`). `ReadersAreTold` says that rooms and list
  agree with each other.
* Two requests that open the support thread at once leave two, against the single one of
  `MOBILE_CHAT_WEBSOCKET_PROMPT.md:108` and `vip.service.ts:324`; nothing unique stands
  behind it.
* Vendors of one city and name have no fixed order (`client-v2.service.ts:883`), so a page's
  end between them may show one twice and the other never.
* The desk's PATCH of a client's phone keeps `phoneVerifiedAt` (`clients.service.ts:112`):
  the new phone counts as verified without a code. `AccountsAreEarned` says what is left:
  some phone of his was.
* A token saved without a platform is an Android one (`auth.service.ts:238`); saved with
  `ios` later, it replaces the first entry of that token or platform, which can leave two
  iOS entries. "Same platform/token overwrites" (`docs/CLIENT_APP_API.md:240`) may be read
  either way.

## 7. Proofs

`PaymentsProofs.tla` proves for every set of bookings, rows, events, handlers,
totals and amounts, from the assumptions in `Payments.tla` (the column holds every
total plus a cent, absent values are distinct from ids, finitely many rows):

| theorem | says |
|---|---|
| `TypeCorrect` | `Spec => []TypeOK` |
| `AppliedOnce` | `Spec => []AppliedAtMostOnce` |
| `PaidIsBacked` | `Spec => []StripePaidIsBacked` |
| `RowsFit` | `Spec => []RowFitsPeakTotal` |

None of the three invariants is inductive. `IInv` adds what the handlers carry from
one await to the next: `Shape` (which fields are filled in at which point of which
operation), `HoldsRow` (a row does not exist before its handler inserts it and has
no link before Stripe answers), `HoldsEvent` (a webhook past its insert has a stored
event that has not been applied), `HoldsTotal` (the total a handler has read is at
most the peak), and `Apart` (two handlers create different rows and apply different
events). `Apart` is where the unique key on the event id enters: without it two
handlers pass the look-up and apply the event twice. TLC checked `IInv` on the
instance of the run `payments` before it was proved. Each action has a lemma; those that only move
a handler share `JobStep` and `MoveStep`.

Sums of rows are defined by counting cents (`SumOf`), so that they need no
recursion; that the sum is a number follows from the finiteness of the rows.

What is left of the other promises under every overlap, death and redelivery (section 3):

| theorem | says |
|---|---|
| `HistoryInvariance` | `Spec => []HInv` |
| `CacheIsTheSum` | `Spec => []CacheAgrees` |
| `AckedArePaid` | `Spec => []AckedIsApplied` |
| `CashIsMeasured` | `Spec => CashFits` |
| `LedgerIsImplemented` | `Spec => LedgerSpec` |

No theorem assumes that requests keep apart or that handlers live; what they cannot have
is named by the history variables, one moment at a time. `HInv` is `IInv` with what each
handler knows at each await, or who has changed it: `WriteInv` (what `LoadRow` has seen of
a row still allows the write, or the row is `raced`), `ReaderInv` (the sum about to be
cached is exact, or a deletion of it is under way, or it is `stale`), `StoredInv` (a stored
checkout is applied, being applied, `lost` or `raced`) and `ChargeInv` (a charge that is not
`behind` has the booking's total and paid sum). None holds without the others: a cached sum is
deleted by a webhook about its row's booking (`BookingInv`), and a charge that takes its sum
from Redis needs `CacheAgrees`. Each step is that of one handler (`OneActs`); what it changes
under another one is a disjunct of `Note`, which the proofs take apart conjunct by conjunct
(`RacedGrows`, `WriteStep`, `ReaderStep`, `StoredStep`, `ChargeStep`). TLC checked them in
`payments_races` first. What a new paid row adds to the sum (`PaidSumAdds`) is
counted in cents: the sets of cents before and after differ by the row's.

Only model-checked: `EventIsAcked`, which is liveness under
fairness. `TypeCorrect` follows from `HInv`, and no run repeats it.

`AssignmentsProofs.tla` proves for every set of bookings, drivers, dates, items and
handlers, from the assumptions in `Assignments.tla` (`None` is no id, inputs are
statuses of the schema):

| theorem | says |
|---|---|
| `TypeCorrect` | `Spec => []TypeOK` |
| `Earned` | `Spec => []StatusIsEarned` |
| `Consent` | `Spec => []StampNeedsConsent` |

`IInv` adds `Shape` (what a request names and where in the code it can be) and
`Seen`: a start past its guard has a row that was accepted, a complete one that was
accepted and started, an item about to be inserted a driver who has accepted. The
rows themselves may have changed since, which is why the two properties are not
inductive. Every commit goes through `CommitHolds`, every step that only moves a
handler through `MoveStep`, every edit of the itinerary through `EditStep`.

What is left of the guards under every overlap and death (section 4):

| theorem | says |
|---|---|
| `HistoryInvariance` | `Spec => []SInv` |
| `DriverBusy` | `Spec => []BusyUnlessContested` |
| `OneDriverPerBooking` | `Spec => []OneOpenPerBooking` |
| `TimesTold` | `Spec => []TimesTellTheStory` |
| `StampIsTheDrivers` | `Spec => []CommittedOwnsItinerary` |
| `DeclinedIsCleared` | `Spec => []DeclinedLeavesNoStamp` |
| `LifeIsImplemented` | `Spec => LifeSpec` |

`Witness` says of each handler at each await what it may rely on. `Locks`: the rows its
transaction has written are its booking's and stay, whoever else is in flight. `Looked`:
what its guard and scan have found of the booking's rows is still so (the row is pending,
accepted, in progress; `held` and `todo` together are the booking's open rows), unless the
booking is `crossed`. `Knows`: what it has found of the driver's rows is, unless he is
`contested`. This is why the commit of `Place` or `Accept` at a booking that nobody
overtook closes its open rows in one step of `AssignmentLife`. The invariants hold
together (`Orderly`) or not at all: the commit of a new proposal needs the one open row,
the items of an accept need the times. A commit writes rows of its own booking, which no
other transaction has written (`Disjoint`), so another handler either keeps its `Witness`
or has been overtaken, and `Note` says so (`OthersWitness`). No run checks
`OneOpenPerBooking` by itself: `LifeSpec` implies it, since only a `Slip` leaves two open.

`DInv` adds `DeclinedCleared`: the stamps of a driver who has declined are gone or a handler
is at them, unless the booking is `torn`, by a death between the two statements of reject,
or `crossed`. A step that clears nothing ends no clearing (`DeclinedStays`). TLC checked
the invariants in `assignments_races` first; `assignments_busy` is what the guard does not
keep.

Only model-checked there: `RequestsEnd` (liveness).

`UpgradesProofs.tla` proves for every set of bookings, requests, handlers, dates,
totals and prices and for every PATCH, from the assumptions in `Upgrades.tla`
(totals fit the column, prices are numbers):

| theorem | says |
|---|---|
| `TypeCorrect` | `Spec => []TypeOK` |
| `ChargedForOnce` | `Spec => []ChargedOnce` |
| `ApprovalUpgrades` | `Spec => []ApprovedWasVip` |
| `DatesNeedApproval` | `Spec => DatesAreApproved` |
| `DeskForgetsNone` | `Spec => []DeskClosesRequests` |

`IInv` adds `Shape` (what a handler refers to; a request it reviews exists and one
it creates does not, and two handlers create different ones) and `Carries`: the
total a handler has read was one without VIP, so that what it will write is one of
these plus one price. The histories only grow (`Monotone`) and requests keep their
booking (`Kept`), which is why what is carried outlives the writes of the others
(`JobStep`). The writes share `StatusStep`, `BookingStep` and `ApprovedStep`.

TLC checked `IInv` on the instance of the run `upgrades` first. `DeskInv` adds to it that
every request the desk has found pending, and that is pending still, is in the hands of
a handler that will close it, unless one was lost.

`AccessProofs.tla` (of `Codes` and `Sessions`) and `RequestsProofs.tla` prove for every
number of handlers, codes, attempts, tokens, roles, keys, bookings and reviews, from
the assumptions of their modules (handlers are finitely many where they are counted;
`None` is no key):

| theorem | says |
|---|---|
| `CodesTypeCorrect` | `CodesSpec => []CodesTypeOK` |
| `CodesEarnAccounts` | `CodesSpec => []AccountsAreEarned` |
| `CodesLimited` | `CodesSpec => []CodesAreLimited` |
| `SessionsTypeCorrect` | `SessionsSpec => []SessionsTypeOK` |
| `StaffTokensRotate` | `SessionsSpec => []TokensRotate` |
| `TokensClaimTruth` | `SessionsSpec => ClaimsWereTrue` |
| `RequestsTypeCorrect` | `RequestsSpec => []RequestsTypeOK` |
| `KeysBookOnce` | `RequestsSpec => []OneBookingPerKey` |
| `ReviewsAreKept` | `RequestsSpec => []ReviewsStand` |

* `Codes`: `CodeCallsFit` says that a call past its comparison has used up a code for its
  own purpose; a spent code stays spent (`SpentStays`) and a phone once had stays noted
  (`PhonesNoted`), so the account it opens is earned however late it is written, also when
  the desk has moved the phone meanwhile (`ClientSpentStays`). The limit needs a count: a call that compares a
  code counts already before it moves the counter (`Comparing`), since it was let in
  while the counter stood below the limit. `attempts` and the calls pending stay
  below `MaxAttempts` and the number of handlers (`RowIsLimited`).
* `Sessions`: `TokensFit` and `TokenCallsFit` say that a token whose exchange is past
  `SpendToken` is out of Redis, so nobody takes it up again once it has a successor;
  successors and calls that will make one are at most the handlers (`Rotation`).
  `ClaimsFit` keeps what a call is about to issue among what the history has seen.
* `Requests`: `Stories` says what each phase of a call finds on a row that it works on
  alone, and that the row stands when nobody does; a call that comes in between marks
  the row (`overlapped`), one that ends early too (`cut`). `KeysAreUnique` is the
  index: two calls that both looked the key up in vain do not both insert.

`BackOfficeProofs.tla` and `AppsProofs.tla` prove the other parts, again for every
value of their constants (finitely many handlers, trips, vendors and rows where they are
counted; a page of one row at least; room for one vendor of a key at least; `None` is no
item and no vendor):

| theorem | says |
|---|---|
| `RatingsAverage` | `FeedbackSpec => []RatingIsTheAverage` |
| `AlarmsHeard` | `FeedbackSpec => []AlarmsAreHeard` |
| `ImportsApply` | `CatalogueSpec => []ImportsApplyOnce` |
| `SlipsFit` | `CatalogueSpec => []SlipsAddUp` |
| `CardsCatchUp` | `DashboardSpec => []DashboardCatchesUp` |
| `MapIsHis` | `PositionsSpec => []MapFollowsHim` |
| `ListsAreOne` | `DiscoverySpec => []ListsAgree` |
| `ProgramIsKept`, `TasksAreKept` | the two halves of `TripIsShown` |
| `TripIsKept` | `PlansSpec /\ TasksSpec => []TripIsShown` |
| `DevicesKept` | `PushesSpec => []DevicesAreKept` |
| `ReadersTold` | `ChatSpec => []ReadersAreTold` |
| `DriverReached` | `ChatSpec => DriverIsReached` |
| `CatalogueTypeCorrect`, `PositionsTypeCorrect`, `DashboardTypeCorrect` | the type invariants of these modules, and so in `AppsProofs` for `Discovery`, `Plans`, `Tasks`, `Pushes`, `Chat` |

* Reviews: `AveragedAlone` says that a transaction which is alone has averaged the rows
  as they will be at its commit. Sums over trips are folds; the two facts used of them
  (no reviews, the same reviews) follow from their definition.
* Alarms: `Heard` is the property with one exception more, the call that is about to
  tell. Resolutions are counted as tokens are in `Sessions`.
* Import: `OneCommit` and `AppliedOnce` keep a commit that nobody overlaps alone with the
  status it has read; `FindsTheNew` compares what preview and commit find row by row, as
  the set of keys new among the rows already seen.
* Vendor bookings: `SlipCallFits` keeps a rate that a call has read among those the vendor
  has had; the codes a row has had and those about to be given are no more than handlers.
* Dashboard: `CallIsDated` says that a call which may still set a key and saw the rows
  otherwise keeps them from having rested, and one that did not has computed what they
  say; `KeyIsDated` that a key set otherwise is as old as the rows have rested, so when
  these have rested for `TTL` ticks it is gone. What the cards say is never looked into.
* Positions: a call that is alone is the only one (`PositionsInv`), so what it has read,
  the duty for a ping and the position for a change of duty, is what it finds when it
  writes. The map need not be tidy for a ping to make it so.
* Public lists: `PagesAreSeen` relates the pages turned to the number of vendors up to the
  last of a vendor's city and name, which no order of the namesakes changes
  (`OnThatPage`, `ALaterPage`); the count
  of a page is that of the rows before the filter, which is why pages may be short and
  still none is left out.
* Program and tasks: `Attached` keeps a vendor's item real, `FindsItSo` says what a write
  that nobody overlaps finds of the places it has read, an import among them;
  `ItineraryFits` that what the page has read of each table is what the table holds, but
  for the rows noted as written since; `LookIsTrue` what an unfinished
  page has counted and read of the tasks that were left alone.
* Devices: the list that a call writes back comes from one whose platforms were all named
  for their tokens, with one device of a platform if no token has two
  (`Listed`, `SaveFits`, `PushFits`). The pruned list is a recursive function of the read one;
  `IsKept` follows it along the numbers. Induction enters as a fact on sets of numbers
  (`LeastNumber`, `AllNumbers`), which the well-founded order on numbers gives.
* Chat: `CallHolds` says of a call on its way through `createMessage` which thread and
  message are its own and that their lane and members are what it has read, members only
  more (`Grows`); rooms and readers are then compared lane by lane.

`ServiceProofs.tla` puts them together, for every value of the constants of all parts:

| theorem | says |
|---|---|
| `FeedbackTypeCorrect` | `FeedbackSpec => []FeedbackTypeOK` |
| `PartsHold` | `AllParts`, the conjunction of the twelve specifications, implies each of the 17 properties but `TypeOK` that the run `service` checks |
| `PartsTypeCorrect` | `AllParts => []TypeOK` |
| `PartsAreKept` | `Spec => AllParts`, where `Spec` is `MCService`'s |
| `ServiceTypeCorrect` | `Spec => []TypeOK` |

* Types: most parts' inductive invariants contain theirs. That of the dashboard adds the
  steps and days of requests to `DashboardInv`, which never looks into what the cards say.
  That of reviews needs a lemma about a fold: `Total` is a recursive function over the
  sets of trips, so `TotalIsComputed` first shows that the recursion has a solution, by
  induction on the size of the set, and `TotalIsANumber` then that it is a number.
* The parts together: they share no variable, so the service as it runs, every part at its
  own pace and in any order, is the conjunction of their specifications, `AllParts`.
  `MCService` is one corner of it that TLC can go through: `part` names the one part that
  moves and the variables of the others rest (`PartsMove`), and its `Init` restricts their
  initial states. `PartsHold` is what justifies that corner: no property of a part can be
  lost or won by what the other parts do.

What stays with TLC in all: the two liveness properties, `EventIsAcked` and `RequestsEnd`. Every other property that a
passing run checks is a theorem. The type invariants of `Payments` and `Assignments` are
proved and take no place in a run; their steps are covered by the other invariants.

## 8. Not modelled

* Components that are `not_modelled` in `PROJECT.json`: finance and system
  read rows that the modelled components write, or fill an empty database; AI calls an
  external service with such reads (its summary is the dashboard's cached one).
* CRUD on one row: packages, settings, emails, checklist, staff links of operations, a
  vendor's contact data, schedule states of an item. Each is a check and a write; the
  hazards of it (a unique key hit between the two) answer with an error.
* Within payments: `expireStaleLinks` is never called; a webhook that names an unknown
  payment is an event of kind `other`; the signature check of a webhook is not part of
  the state.
* Within dashboard: the limits of 24 and 200 rows of its longer lists. Within accounts:
  `deletedAt` of clients, which no handler sets.
* Within chat: read markers and unread counts, the team channel "Ops floor", the list
  of client threads. Within notifications: read flags.
* Access tokens, typing indicators, socket connections: nothing is stored of them.
* The retry schedule of BullMQ: a push never throws, so it is never tried again; a
  translation may run any number of times.
* The placeholder position of a driver who never reported, the list of all drivers on
  the map (each is read by himself); texts, distances and images of the public pages; `updateItem` of operations, which writes texts and a status at will.
