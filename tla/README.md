# Formal models of shop_starter

shop_starter is a marketplace back end: Django 5.2 with Django REST Framework,
Celery 5.5 with Redis, PostgreSQL, and Django Channels for live positions.
Vendors publish products, clients reserve and pay for them and write reviews,
administrators moderate, and an assistant answers questions about the
catalogue. This directory holds TLA+ models of the parts of it that are hard to
test, the TLC configurations that check them and the proofs TLAPS checks.

Paths below are relative to `src/`.

## 1. Inventory

What all requests share: gunicorn workers serve requests in parallel, each view
is its own sequence of statements in autocommit mode unless it opens
`transaction.atomic` (there is no `ATOMIC_REQUESTS`), and PostgreSQL runs at
READ COMMITTED. A read without `select_for_update` sees whatever is committed
at that instant and promises nothing about the next statement. `save()` without
`update_fields` writes every column of an instance that may be old.

| Component | State | Operations | Talks to | Hard behaviour | What makes it correct |
|---|---|---|---|---|---|
| **orders** `apps/orders` | `orders_order`: status, client, product, payment_notified, expires_at; row locks | POST /orders, mark-as-paid, notify-payment, cancel, `cleanup_expired_reservations` | locks and writes product rows; started by Celery beat | request/request and request/sweep races, lock order, crash in mid transaction, expiry, a product archived under an open order | an order is settled once; no save loses another's write; a reservation is on a product in stock; products come back on sale; every request ends |
| **products** `apps/products` | `products_product`: status, stock, is_deleted; images and their files in Cloudinary | create, edit, archive, restore, toggle stock, public catalogue, product page, products nearby | orders (row locks), users, geo, file store | edits save whole rows read earlier; toggles are unlocked read-modify-writes; pages are put together from several statements; files are uploaded outside of the transaction | an edit does not undo a reservation or an archive; a page shows what was on offer; every file has an owner or is known to be lost |
| **AI descriptions** `apps/products/tasks.py`, `apps/ai`, `apps/ia_funcionalidad` | ai_status, ai_description, queued messages, retries | request, task, poll, reaper every 5 minutes | Groq API, product rows | task queued before its status is written; late acknowledgement; reaper against live tasks | nothing stays PROCESSING for ever; a poll that answered DONE stays with it, and FAILED is not answered before the last attempt or a loss |
| **moderation** `apps/moderation`, `products/views.py` | `RejectedImage`, `ProductReview`, statuses of images and product | review image, review product | products | two administrators at once; five tables in as many statements | one outcome per review, told by every row |
| **users** `apps/users` | `users_user`: e-mail, role, status, jwt_key; `UserSession`, blacklisted tokens; profile pictures | registration, login, refresh, logout, logout-all, password reset, profile, role and status changes, deletion | core authentication, terms, audit, e-mail tasks | logout against refresh, two statements for logout-all, check-then-insert of addresses, whole-row saves of users | a logout is final; addresses are unique; vendors wait for approval |
| **terms** `apps/terms` | `TermsAcceptance` | hooks of registration and login, acceptance, status | users | check, then create, with no constraint; a new version between two statements | nobody has a session without having accepted the terms in force when it began |
| **core** `apps/core` | is_deleted, `BannedIP`, notifications, the thread-local context of a request | soft delete, restore, JWT authentication | everything | soft-deleted rows disappear from the default manager in the middle of other work; the context outlives the request | deleted rows are not used; an entry names its own request |
| **audit** `apps/audit` | append-only log, reputation score | signals, suspicion counter, ban, penalty | core bans, users | counters read and written without locks; entries in a statement of their own | the third suspicious attempt bans the address; no change without its entry |
| **reviews** `apps/reviews` | one review per vendor and client | create, edit, delete | orders (needs a PAID order) | purchase check, look for another review and insert are three statements | only buyers review, once; edits show |
| **geo** `apps/geo` | location row, its pictures, websocket groups | save position, toggle visibility, delete, pictures, lists, relay | products (nearby), channel layer | every vendor may change what the map shows; unlocked requests save whole rows; pictures replaced one by one | a location that is switched off is changed only by requests that saw it on the map or are its user's; an album is one request's |
| **chat** `apps/chat` | history for vendors | message or picture to answer | products, model provider | four searches that must agree | the extremes named are extremes; no duplicates, at most five |
| analytics, scripts, templates | none shared | – | – | – | – |

The hazards, each at its line, are in `PROJECT.json` under `hazards`, with the
properties that cover each.

## 2. Plan

In the order of what matters most to the shop, with what is done:

1. `Reservation` and `Orders` – the order lifecycle and its implementation with
   row locks. Done, proved.
2. `Shop` – the requests of the products app as processes, composed with
   `Orders`. Done, proved.
3. `Job` and `AiDescription` – the task, its faults and the reaper. Done; its
   safety, with the refinement of `Job`, is proved.
4. `Access` and `Sessions` – sessions, keys and tokens. Done, proved.
5. `Accounts` – registration, terms, approval, deletion. Done, proved.
6. `Moderation` – product and image reviews. Done, proved.
7. `Audit` – entries, bans, penalties. Done, proved.
8. `Geo`, `Reviews` – location and album; reviews next to the orders. Done,
   proved.
9. `Catalogue`, `Storefront`, `Chat`, `Publishing`, `ProfilePictures` – pages,
   assistant, forms and files, composed in `StoreProps`. Done, proved.

Every property of a run but the four liveness properties is now stated by a
theorem. Left: the transactions of `Orders` could keep the whole instance that was
locked instead of the row in the table and show that it is the same. All modules
take their sets as CONSTANTS, have one action per operation and declare no
RECURSIVE operator, so that they can be proved about.

## 3. Modules

| Module | Contents |
|---|---|
| `Reservation` | abstract: the lifecycle of an order (`Place`, `NotifyPayment`, `Pay`, `Cancel(S)`, `EditCatalogue`) on the committed rows alone |
| `Orders`, `OrdersProps`, `MCOrders` | the orders app: requests and sweeps as processes, row locks, time, crashes, writes of the products app |
| `Shop`, `ShopProps`, `MCShop` | `Orders` extended with the requests of the products app as processes |
| `OrdersProofs` | the theorems about `Orders` and about `Shop` |
| `Job` | abstract: what a client that polls a task may rely on |
| `AiDescription`, `AiDescriptionProps`, `MCAiDescription` | view, task, retries, redelivery, time limits, reaper, and others who save the row |
| `Access` | abstract: a session is opened once, closed once, and lets a request in only while it is open |
| `Sessions`, `SessionsProps`, `MCSessions`, `SessionsProofs` | the sessions of one account, statement by statement |
| `Accounts`, `AccountsProps`, `MCAccounts`, `AccountsProofs` | users and the terms they accept |
| `Moderation`, `ModerationProps`, `MCModeration` | the review of one product and its images |
| `ProductProofs` | the theorems about `AiDescription` and about `Moderation`, two lives of one product's row |
| `Audit`, `AuditProps`, `MCAudit`, `AuditProofs` | the audit log, bans and penalties |
| `Geo`, `GeoProps`, `MCGeo`, `GeoProofs` | the table of locations and their pictures |
| `Reviews`, `ReviewsProps`, `MCReviews`, `ReviewsProofs` | reviews next to `Reservation` |
| `Catalogue` | the tables and workers that the next four share, and the writes of the others |
| `Storefront`, `Chat`, `Publishing`, `ProfilePictures` | public pages; assistant; forms for products; profile pictures |
| `StoreProps`, `MCStore`, `StoreProofs` | the composition of the five, the history `seen`, the properties and their proofs |

Operators marked "mutant" in a module are what a plausible bug would make of the
one that follows: `PROJECT.json` names, for each property, one that breaks it.

### How `Orders` corresponds to the code

A web request is a worker with `pc`, `req` and `inst` (the `Order` instance in
memory). It moves between the points where another process can be seen:

| `pc` | The request is at | Next step |
|---|---|---|
| `idle` | no request | `CreateCheck` (orders/views.py:39-56) or `Arrive` |
| `validate` | serializer and status check on an unlocked product (serializers.py:25-42, models.py:68-74) | `CreateValidate` |
| `order` | `select_for_update` on the order, then permission and status guards and the assignment (views.py:79-93, 104-119, 129-143) | `LockOrder` |
| `product` | `select_for_update` on the product, stock check (models.py:82-89) | `LockProduct`, `ProductMissing` |
| `commit` | both saves and the end of the transaction (models.py:96-112) | `Commit` |

`cleanup_expired_reservations` (tasks.py:24-41) is a process of its own:
`SweepSelect` fixes the candidates, `SweepLockOrder` locks them one at a time
and re-evaluates the filter on each locked row as PostgreSQL does,
`SweepSave` runs `order.save()` for each (locking the product, skipping an order
whose product is archived), `SweepError` is any other exception of that save,
after which the loop goes on with the next order, and `SweepCommit` writes
everything.

Choices of abstraction:

- A transaction changes only rows that it has locked or inserted, so nobody can
  see when inside the transaction it writes: its writes are applied in the
  commit step. A crash, an exception or an early return is then a release of
  its locks and nothing else.
- `Order.save` locks the order a second time (models.py:100); the process
  already holds it. `old_order` is the committed row.
- The clock is an `age` per reservation against its two thresholds: `fresh`
  (under a minute), `open`, `expired`. Each reservation ages by itself, which
  allows every order of events a common clock allows and more.
- `count()` in the sweep (tasks.py:30) only skips an empty batch; it is part of
  `SweepSelect`, which needs a candidate.
- The product row keeps `status`, `stock` as a Boolean and `is_deleted`; the
  order row drops quantity and prices. `PENDING`, the column's default, is never
  stored: the save that inserts the row sets RESERVED.
- Responses that change nothing (409, 404, 403 before a lock) are stuttering.
- `CatalogueWrite` is any committed write of the products app: any stock and
  deletion flag, the present status or one of `CatalogueStatus`. It waits for the
  row lock, as any UPDATE does. With `CatalogueStatus` equal to `ProductStatus`
  it includes the stale whole-row saves of product edits, and a PATCH by which a
  vendor sets RESERVED. `orders_safety` lets it write REJECTED and RESERVED.
- The vendor of an order is `Owner[product]`: `Order.save` copies it from the
  product and no operation reassigns a product.

### How `Shop` corresponds to the code

A product request is an editor with `stage`, `edit` (the request) and `fetchedP`
(the `Product` instance in memory). No product view opens a transaction around
its reads, so each statement is a step: `Fetch` is `get_object()` with its
permission and visibility (products/views.py:62-78, services.py:64-87);
`CheckEdit` is the second read of `perform_update` and its status guards
(views.py:111-121); `Write` is the UPDATE, which waits for the row lock.
`Saved` says what it writes: an edit every column, from the instance of `Fetch`
(serializers.py:142-148); archive and restore `is_deleted` alone
(core/models/base.py:17-28); a toggle `stock` alone, computed from the fetched
one (views.py:199-200). `Review` is the status UPDATE of
`review_full_product` (views.py:332, 342, 355); the rows it reads
belong to the moderation app. Products are never created in the model: the set
is fixed and starts AVAILABLE, which edits and reviews then change at will. A
request that dies before its UPDATE is one that takes no further step. The
notification and the e-mail sent after an edit change nothing that is modelled.
`withheld` is history: `Watch` clears it for a request once its product is
neither PENDING nor REJECTED.

`destroy` assigns INACTIVE to the instance (views.py:164) and then saves
`is_deleted` alone, so the stored status does not change, although its docstring
says that it does; `Saved` follows the code.

### How `AiDescription` corresponds to the code

One product, seen through `row` (ai_status, ai_description, is_deleted, and
whether updated_at is old enough for the reaper). Each request for a description
starts one task and names it; it moves `idle` → `enqueue` → `mark` →
`answered` (products/views.py:213-256): the message is sent before PROCESSING is
written, in two statements. A task has a message for each attempt, `msgs`, and
`result` is what the result backend holds of it.

An attempt moves `queued` → `read` → `claim` → `generate` → `save` → `returned`
(products/tasks.py:10-36), with a step per statement, since only the last one is in a
transaction. At any of its own statements `Error` leads to `handler` and
`SoftTimeLimit` to `timeout`. `Handle` is the handler's UPDATE, a statement of
its own after which the attempt has `raised` (or returned, after the time limit);
`HandlerFails` is that UPDATE raising in its turn, which leaves the row as it was
(`broke`). Other writers of the row may come between any two of these.

Around it is Celery with `acks_late` (config/settings/base.py:391-394):
`Retry` sends the next attempt (autoretry, with its budget) and `RetryRefused` is
a broker that does not take it; `Store` puts the outcome in the result backend and
`Acknowledge` removes the message, in two steps. `Killed` is the loss of the pool
process, at the hard time limit too, after which the supervisor may store a FAILURE and acknowledge.
`Redelivered` is the loss of the worker host at any point before the
acknowledgement, so a task whose result is stored runs once more. The backend
keeps a SUCCESS against whatever comes later and nothing else (`Stored`): a FAILURE
becomes SUCCESS if the attempt that is delivered again succeeds, and the RETRY of an
attempt may be stored after the result of the next one. Outages of the result backend are not
modelled. Errors inside the AI service are answers, because the service catches
every exception and returns a text. `Reap` is the bulk update of the reaper, which
leaves updated_at alone; `TenMinutesPass`, `OrderSaves`, `EditFetch` and `EditSave`,
and `Archive` are what else happens to the row. `TaskStatus` is the poll.

### How `Sessions` corresponds to the code

One account. `user` is its row in `users_user` (key, password, status,
is_active), `sessions` and `blacklisted` the other two tables, `tokens` the
access tokens in circulation (session and key). A request is `pc`, `sid` and the
`User` instance `inst` it fetched; every statement of
users/services/auth_service.py, users/api/password_reset_views.py,
core/authentication.py and the two saves of users/views.py is one action. A
refresh keeps the jti, so a refresh token is named by its session. Keys and
passwords are numbers drawn from one counter, so that "new" means "never used".
`Die` ends a request anywhere. `revoked` is history: the tokens that were issued
when a logout of all devices closed its sessions, just before it answers. The
expiry of tokens is left out: it only removes behaviour.

### How `Accounts` corresponds to the code

`users` is the table, an e-mail is an address and whether it was typed in mixed
case: registration and profile serializers lower it (users/serializers.py:31,
224), the administrator's (serializers.py:8-11) does not. A request keeps the row it fetched
in `task`. Actions: `RegisterValidate`, `RegisterCreate` (the insert and its acceptance in
one transaction, application/services.py:14-35, terms/services.py:113-133),
`RegisterTaken` (the unique constraint decides a race); `LoginValidate`,
`LoginTerms`, `LoginHook`, `LoginStart` (the hooks of terms/services.py:42-50,
88-110 and 136-150 around the session); `AcceptFetch`, `Accept`; `ProfileFetch`,
`StatusFetch`, `AdminTypes`, `AdminActivates` and the `Save` of the whole row that each ends
in; `Delete`, `CreateSuperuser`, `ChangeRole`, `Deploy`. `ChangeRole` changes
nothing, because application/services.py:43-61 calls a method of AuditService that
does not exist inside a transaction. `Legacy` accounts are older than the terms
app. `joined`, `approved`, `retyped` and `revived` are history.

### How `Moderation` corresponds to the code

One product with its images, the `RejectedImage` record of each and the
`ProductReview`. `review_full_product` (products/views.py:286-388),
`approve_rejected_image` (422-481) and `confirm_rejected_image` (490-533) run
statement by statement as requests of the `Moderators` (`doing`). The models have no
logic of their own in `save()`: what a decision means for the other rows
is written by further statements of the view, and each is a step. The automatic moderation that once wrote these rows
is not run by this release, so `ModInit` is any state it can have left. The vendor
edits in two steps (`VendorFetch`; `VendorSave` of the whole row with new images
in one transaction), archives and restores. The names of the specification begin
with Mod, so that one module can hold theorems about this one and about
`AiDescription`. `rejected`, `opposed`, `missed`, `undone` and `died` are
history: they name the cases in which the outcome is not what the last reviewer
chose.

### How `Audit` corresponds to the code

A worker serves a request (`BeginRequest` fills the thread's context as the
middleware does, core/middleware.py:101-119) or runs a task (`BeginTask`, which
does not). A failed login or a hit of the honeypot runs `AuditService._log`
statement by statement (audit/application/services.py:32-131): `CountAttempts`,
`Ban`, `Penalise` with the score loaded at the start of the request,
`InsertAttempt`. A change of an audited row is `Save` followed by `LogEntry` in
autocommit, `SaveAtomic` inside `transaction.atomic`, or `BulkUpdate`, which sends
no signal. `Die` may come between any two. `origin` and `silent` are history.

### How `Geo` corresponds to the code

`rows` is the table of locations (geo/models.py), one for each user at most.
`UpdateOrCreate` and `Create` are POST, which finds or creates the vendor's own
(serializers.py:91-107; only `update_or_create` is in a transaction). `Fetch` then
`Update`, `ToggleVisibility` or `Destroy` are the other requests (views.py:38-55,
81-93; serializers.py:109-123). PUT, PATCH and DELETE take any location of
`get_queryset()`, and the permission asks for the role only: every vendor may change
what the map shows (`Listed`), and `Update` may hand it over, because `user` is a
writable field. Saves write the whole row that was read, insert it again if it is
gone, and fail (`SaveRefused`) if its user has another location by now. `Clear`
removes the pictures of before and `Insert` adds those of the request, one per
statement (serializers.py:102-105, 117-123). `Listed`, `AllLocations`, `Nearby`
(together `OnMap`) and `Cover` are the queries of the readers. `album` is history:
whose pictures a location should have.

### How `Reviews` corresponds to the code

It EXTENDS `Reservation`: the orders move by the lifecycle that `Orders` is
proved to implement, and a request of the reviews app reads them in one
statement. `CreateCheck` (views.py:99-123), `Clean` (`full_clean()` in
`save`, models.py:37-46), `Insert` (views.py:81-85,
which the unique constraint may refuse); `Fetch` then `EditSave` (which marks the row as edited and inserts it again
if it is gone) or `Delete`.

### How the store modules correspond to the code

`Catalogue` has products with their rows in `products_images`, vendors with
their location, and the request that each worker serves; `ProductWrite` and
`VendorWrite` are the committed writes of the rest of the shop. `Storefront`
reads as the views do: the paginator counts and then slices
(views.py:536-553, services.py:12-39); `nearby_products` reads locations and then products
(views.py:620-685); latitude and longitude of each product are two more
statements (serializers.py:212-224); the map lists products of each vendor
(geo/serializers.py:48-81). `Chat` is chat/views.py:25-144: `exists`, the
cheapest, the dearest, the others, the answer and its record for the vendors.
`Publishing` uploads each picture while the form is validated and stores the
rows in one transaction afterwards (products/serializers.py:17-67, 122-156,
views.py:85-153). `ProfilePictures` is users/views.py:189-241. `seen`, in
`StoreProps`, collects what was on offer during a request, so that "it was
shown" can be compared with "it was true at some moment"; its part `apart` names
the products whose vendor's location was written between the two reads of their
coordinates. Administrators get another query for the catalogue, products of any
status and of any vendor, which is left out.

## 4. Runs

| Run | Instance | Question and answer |
|---|---|---|
| `orders_safety` | 1 product, 2 orders, 2 workers, 1 sweep, all killable; the catalogue may reject, reserve, archive, restore or sell out | Are instances in memory current while they can be written (`LockInv`)? Is it only a write of the products app that leaves a product RESERVED for nobody (`OnlyEditsStrand`)? Does every circle of waits contain a circle of sweeps (`OnlySweepsDeadlock`)? Is an order settled once (`SettledIsFinal`), the payment notification kept (`NotificationKept`), a reservation made only in stock (`ReservedInStock`), and every step a step of the lifecycle (`Implements`)? Yes. |
| `orders_progress` | 2 products, 2 orders, 2 workers of which one is killable, and a sweep that is not killed; requests create and cancel; the catalogue archives and restores but leaves status and stock (`ProgressSpec`: no payments and no payment flag, which would multiply the rows; mark-as-paid and notify-payment take the locks that cancel takes) | Does every request end (`RequestsAnswered`)? Is every expired reservation released, unless its own product is archived again and again, whatever becomes of the others in its batch (`ExpiredAreReleased`)? Yes. |
| `shop_safety` | 1 product, 1 order, 1 worker, 2 editors, any status saved | Do archive, restore and toggle leave alone what others committed since they read the row (`NarrowSaves`)? Does no edit of a vendor put on sale a product that was pending or rejected for as long as the edit took (`RefusalsStand`)? Yes. |
| `ai_description` | 1 request with its task, 1 editor, 1 retry, 1 loss of a process or a worker, 1 save by others | Is what a poll answers the life of a job (`PollFollowsJob`, a refinement of `Job`)? Does the last attempt that could end PROCESSING leave something else, unless the failure's own statement, the broker or the process failed (`LeavesNoneProcessing`)? Does PROCESSING end, unless the product is archived (`ProcessingEnds`)? Does every message (`TasksEnd`)? Yes. |
| `sessions` | 2 sessions, 2 requests, 2 keys, status changes, password resets | Is a logout final (`LogoutIsFinal`, a refinement of `Access`) and a blacklisted token's session closed (`BlacklistedIsClosed`)? Is a token that was issued before a logout of all devices answered refused ever after, although stale saves may bring the old key back (`LogoutAllReachesEveryToken`)? Yes. |
| `old_key_back` | the same without resets | Is a token with a replaced key refused, as users/models.py:58 says? No: see section 7. |
| `accounts` | 3 ids, 1 of them older than the terms, 2 requests, 2 addresses, 2 versions of the terms, 1 request of an administrator | Are addresses unique (`SelfServiceEmailsUnique`), does a vendor wait (`VendorsWait`), is a registration whole (`RegistrationIsWhole`), does a session begin under terms in force and accepted (`StartedUnderTerms`)? Yes, with the exceptions that the properties name. |
| `moderation` | 2 administrators, 3 images, 2 edits of the vendor | Does the last approval publish the product (`LastApprovalPublishes`)? Do reviews that agree leave rows that agree (`ReviewAndProductAgree`)? Yes. |
| `audit` | 2 web workers and 1 of Celery, 2 addresses, 5 suspicious attempts, 2 changes | Is an address banned in time (`BannedInTime`)? Do penalties count (`PenaltiesCount`)? Is every change logged, under its own address (`ChangesAreLogged`)? Yes, up to as many attempts late as requests overlap. |
| `geo` | 2 workers, 2 users, both vendors, 1 place, 2 ids, 3 lists of pictures, albums of up to 2 | Is an album one request's (`AlbumOfOneRequest`)? Do pictures have a location (`PicturesHaveLocation`)? Is a location that is switched off changed only by requests that read it while it was on the map or their user's own (`HiddenIsTheOwners`)? Yes, and an album is one request's unless two added pictures at once. |
| `reviews` | 2 clients and a vendor, 1 product, 2 orders, 3 reviews, 2 texts, 2 workers | Has an author paid (`AuthorsHavePaid`)? One review per pair (`OnePerPair`)? Do edits show (`EditsShow`)? Yes. |
| `store` | 2 workers, 1 vendor, 3 products, 2 places, 2 prices, 2 files; 2 requests, or 1 and 1 foreign write | Was what pages and the assistant show on offer (`ShownWereOffered`)? Are the two coordinates of a product of one place unless its vendor moved between the two reads (`CoordinatesHeld`)? Do the assistant's extremes hold (`AssistantHolds`)? Is every file accounted for (`FilesAccounted`)? Yes. |

**Bounds.** Every hazard here needs two actors on one row, or one actor and a
fault between its statements. Two workers and a sweep over two orders give every
conflict between two transactions over one order or one product with a third
that holds or releases the row; the second order lets a batch contain an order
that fails and one that must not. Two requests with two sessions and two
replaced keys allow a logout of all devices to overlap with a refresh of another
session and an administrator's save that was read one key earlier. Three ids let
a registration race another one while an older account exists. Three images and
two administrators are needed for the last approval: each approves one while a
third is settled. Five attempts by three workers are two more than the limit
plus what can be in flight from each address. Two products in `orders_progress`
let one order of a batch fail, at every run, while another must be released. One
request for a description is enough, because redelivery makes two attempts of
its task run beside each other just as those of two tasks do; one loss is
one killed process or one lost host. `MaxTouches` bounds the saves by others that
renew updated_at: unbounded, they could postpone the reaper for ever. Two users
and two ids of locations let a vendor take another's location, hand it over, be
refused because its new user has one, and bring back a row that was deleted; one
place suffices, because no property of `Geo` compares places. `store` has
three products, because the assistant's list has a cheapest, a dearest and one
other, and `MaxBegun = 2`, since all of its properties speak of one request and
what happens under it; the limits of the code (five products in an answer, four
on the map, ten pictures) are constants set to 2, 1 and 2, so that the limit is
reached. The sets of keys (`OrderIds`, `SessionIds`, `Ids`, `ReviewIds`, `Files`) bound
how many rows are ever made; `MaxKeys`, `MaxVersion`, `MaxEdits`, `MaxAttempts`,
`MaxLosses`, `MaxTouches`, `MaxBegun` cap counters in the guards of their actions.

Symmetry is used only in runs that check safety; the members of a symmetric set
are interchangeable in the specification and in the properties. Deadlock
checking is on except in `accounts`, `audit` and `store`, whose counters run out
when everything has happened. In the orders runs a circle of sweeps that wait
for each other is broken by the kill that PostgreSQL's detector performs, which
is `Kill`.

## 5. Fairness

- `TransactionFairness` (`orders_progress`): strong fairness of a worker's steps
  and of a sweep's steps on each order. A transaction goes on by itself, and the
  waiters of a PostgreSQL row lock are queued, so one whose lock is released again
  and again gets it. Weak fairness of `SweepCommit` is enough, since nothing
  disables it.
- `BeatFairness`: time passes, and beat starts the sweep every five minutes
  (`config/celery.py:26-29`).
- `ErrorsCease`: one and the same order is not hit by errors of the database at
  every run for ever. Without it no retry could promise anything. An archived
  product is no such error: it is skipped each time.
- `Fairness` of `AiDescription`: weak fairness of the workers (`WorkersGoOn`: as long
  as some task can go on, one does), of the passing of ten minutes and of the
  reaper, which beat starts every five minutes (`config/celery.py:21-25`). It does
  not say which of two tasks goes on; each is a finite number of steps, so all end.
- Requests, views, kills, faults and edits are never forced. In
  `orders_progress` the sweep is not in `Killable`: a sweep killed at every run
  would prove nothing about the code; one of the two workers is. One sweep runs at a time there, for the
  same reason: two that overlap need the deadlock detector.

## 6. Proofs

The theorems hold for every value of the constants that satisfies the named
`ASSUME`s of the module: every number of users, products, workers, sessions,
reviews, addresses and attempts.

| Module | Theorem | Statement |
|---|---|---|
| `OrdersProofs` | `TypeCorrect` | `Spec => []TypeOK` |
| | `LocksProtect` | `Spec => []LockInv` |
| | `Refinement` | `Spec => Implements` |
| | `SettledForever`, `NotificationNeverLost`, `OnlyStockReserved` | `Spec => SettledIsFinal`, `NotificationKept`, `ReservedInStock` |
| | `OrdersStrandNothing` | `Spec => OnlyEditsStrand` |
| | `SweepsCloseCircles` | `Spec => []OnlySweepsDeadlock` |
| | `ShopTypeCorrect` | `ShopSpec => []ShopTypeOK`, as the next three if `AnyStatusIsSaved` |
| | `ShopKeepsLifecycle` | the lifecycle and the four action properties of `Orders` hold of the two apps together |
| | `NarrowSavesHold`, `WithheldStaysWithheld` | `ShopSpec => NarrowSaves`, `ShopSpec => RefusalsStand` |
| `ProductProofs` | `PollIsAJob`, `FailuresAreRecorded` | `Spec => PollFollowsJob` (the refinement of `Job`), `Spec => LeavesNoneProcessing` |
| | `ApprovalsPublish`, `ReviewsAndProductsAgree` | `ModSpec => []LastApprovalPublishes`, `[]ReviewAndProductAgree` |
| | `ModerationIsTyped` | `ModSpec => [](ModTypeOK /\ \A a \in Moderators : DoingOk(doing[a]))` |
| `SessionsProofs` | `BlacklistMeansClosed`, `LogoutStays`, `LogoutAllHolds` | `Spec => []BlacklistedIsClosed`, `Spec => LogoutIsFinal`, `Spec => []LogoutAllReachesEveryToken` |
| `AccountsProofs` | `AddressesStayUnique`, `VendorsAreApproved`, `RegistrationsAreWhole`, `SessionsHaveTerms` | the four properties of run `accounts` |
| `ReviewsProofs` | `OnlyBuyersReview`, `OneReviewEach`, `EditsAreMarked` | the three properties of run `reviews` |
| `AuditProofs` | `BannedByTheLimit`, `PenaltiesNeverVanish`, `ChangesHaveEntries` | the three properties of run `audit` |
| `GeoProofs` | `AlbumsStayWhole`, `PicturesStayPlaced`, `HiddenFromOthers` | `Spec => []AlbumOfOneRequest`, `[]PicturesHaveLocation`, `HiddenIsTheOwners` |
| `StoreProofs` | `ListedWereOffered`, `CoordinatesWereHeld` | `Spec => []ShownWereOffered`, `[]CoordinatesHeld` |
| | `AnswersHold`, `FilesAreAccounted` | `Spec => []AssistantHolds`, `[]FilesAccounted` |

**Orders.** `TypeOK` is inductive alone. `LockInv` says what each process may
rely on between its steps: a request that passed `LockOrder` holds its order,
the order is still RESERVED, and the instance in memory is the committed row
with the one assignment of its operation; one that is about to commit holds its
product, which is not deleted and, for a new order, in stock; a sweep holds
every order it fetched and every product it saved, and the fetched rows are the
committed ones. `TypeOK /\ LockInv` is inductive. Most of the proof is that a
step of one process leaves the clauses of another alone; two lemmas,
`WorkerFrame` and `SweepFrame`, say when: the rows the process holds are
unchanged and its locks are kept. Refinement follows, because with current
instances `Commit` is `Place`, `NotifyPayment`, `Pay` or `Cancel({o})`, and
`SweepCommit` is `Cancel(saved[s])`. The action properties follow from
refinement and the invariant.

`OnlyEditsStrand` holds in any environment: an order leaves RESERVED only in a
commit that also writes the product of that order as AVAILABLE, so whatever the
catalogue has written before, a step of the orders app leaves nothing RESERVED
that has lost its last reservation. `OnlySweepsDeadlock` needs `HoldInv`: who
holds a lock has come as far as that lock. A request that holds a product is
about to commit and waits for nobody. So in a circle, whoever waits for a product
waits for a sweep that is saving its batch, and so does that sweep; and if
everybody in it waits for an order, the holders are sweeps that collect theirs.

**Shop.** `SInv` adds to the orders invariant that a product request under way
has its request and its instance; a `Write` or a `Review` then writes a product
row that nobody holds, which is a `CatalogueWrite` when `CatalogueStatus`, a
parameter of the open environment that `Shop` itself does not use, is all of
`ProductStatus`. That is `AnyStatusIsSaved`, the hypothesis of the theorems about
`Shop`, under which all that is proved of `Orders` carries over.
`RefusalsStand` needs `WithheldInv`: while the product is withheld all along, the
row that an edit remembers from its first read is withheld too, and once the
second read has been judged, the status to be saved, which comes from the request
or from the first read, is not AVAILABLE.

**Sessions.** The invariant relates what a request and the tokens know to the
tables: every session that a request works with, or that a token names, was
created; one whose refresh token is blacklisted, or about to be, is closed, and
so is the session of a revoked token. Closed sessions stay closed, because the
only write of a session's is_active sets it to false. A token is accepted only
with an open session, and `CloseAll` leaves none, whatever key the row of the
user has later.

**AI descriptions.** As long as nothing died under a task, its attempts are
numbered in the order sent and only the newest is open (`MessageInv`). Sending an
attempt, storing a result and losing a worker are then the steps of `Job`, and
everything else (the statements of the task, the reaper, edits, archiving, orders) is a
stutter. For `LeavesNoneProcessing`: an attempt stops being responsible in its save,
in a handler's statement that marks the row, or because it found the product
archived or DONE, unless one of the three faults named by the property struck it.

**Accounts.** Whole rows are read, kept and saved, so a fact about an account has
to hold of its row wherever the row is: in the table or in the memory of a
request (`Good`). A stale save then writes a row of which the fact holds as well.
An acceptance lasts as long as its account (`Backed`), hence what a login found
is still true when it starts the session. The unique constraint on the e-mail is
kept by every write, and addresses that nobody typed in mixed case are equal when
they are equal up to case.

**Reviews.** An author who was found to have paid is a paid author for ever,
since `Reservation` never changes a PAID order: the purchase goes into the
invariant of the task, and from there into the row.

**Audit.** The ban needs counting: while an address with two entries is not
banned, its entries and the requests that have passed the decision without a ban
(`Counted`) are together at most one more than the web workers, since each of them
looked before the second entry was there. The penalties need that the score in a
request's memory lacks no more than the penalties saved by now. The entries need
that a change which is not in the log is in the hands of a worker, or marked.

**Geo.** The album needs the most: what is claimed of a whole album has to be known
of half of one. Unless the pictures are mixed, a request that adds some
(`Adds`) is the one whose album it is, no other adds any, and the pictures in the
table are the first ones of its list, one for each number and the main one where
the list has it (`SoFar`), for each location (`AlbumInv(id)`). That the list has at most one main picture is the
serializer's check (geo/serializers.py:83-89), part of what a request carries
(`Ready`). A picture outlives no location, since the deletion of the row cascades.
`HiddenIsTheOwners` needs that an instance in memory is of a row that was active, or
its user's own, when it was fetched, which is in `Ready` too.

**Moderation.** `LastApprovalPublishes` is not inductive: an approval publishes two
statements before it settles its records. `PublishInv` adds that whoever approves
and has the records or the review still to settle has a product that is not
REJECTED, unless history names the excuse, and `RecordsInv` that a settled review
leaves no record to decide about. For `ReviewAndProductAgree`, `AgreeInv` says that
without opposed decisions the requests under way want the same as each other and
as a settled review. The property holds at every moment, also between the
statements of a request.

**Store.** The invariant has three parts. `TablesInv`: types, and what a request
keeps of a product is still there, with its vendor, since rows are archived and
never deleted, and no operation changes a vendor. `SeenInv` says what is known at
each statement: while it is under way, the moment of a request is one of those it
saw (`Caught`), so what a statement selects was on offer at such a moment;
then the products shown or selected (`Chosen`) are within one of them for the
catalogue, their union for the others. Between the two reads of a coordinate, the
latitude is the present one of the vendor unless the product is in `apart`. For the assistant it also says that,
as long as `writes` is what it was, the cheapest and the dearest found are still
first among all that match (`IsFirst`); the slice then stays between them, and the
count of at most five is a fact about cardinalities (`RoomForPicks`). `FilesInv`
says of each file that it is in the store exactly if it is at one of the places a
file can be, and at one place only (`FileInv`); each operation moves a file from
one place to the next or leaves all as they are. A removal of a profile's picture
writes a row that was read earlier, so its file has to be somewhere safe until
then: it is still on the profile of the same user, or lost, and no removal of
another user holds it (`RemovalInv`). The sums of `FilesAccounted` follow, because
a set with one place has one element.

The assumptions about constants: `Products` is a finite set, which the counts of
the paginator and of the assistant need; prices are naturals; the reserved values
(`NoRow`, `Elsewhere`, `NoImage`) are no members of the sets that they stand
beside; `Written` are statuses; bounds are naturals. Nothing is assumed about
the number of workers, vendors, files, spots or administrators.

TLC agrees with each inductive invariant on the instance of its module's run.

Model-checked only: liveness (`RequestsAnswered`, `ExpiredAreReleased`,
`ProcessingEnds`, `TasksEnd`), which TLAPS cannot prove: it has no rules for
fairness and ENABLED. Everything else that a run checks is proved.

## 7. What the models show

Most of what the code means to guarantee holds. The following is what the models
had to allow, that is, where the code does something else than a reader, a
comment or a docstring expects. Run `old_key_back` refutes one such comment and
is listed as a finding; the others are visible in the actions and in the
exceptions that the properties name.

Users and sessions

- users/models.py:58 says that a change of `jwt_key` invalidates every access
  token. A profile edit or a change of status that fetched the user before the key
  was replaced saves the whole row and puts the old key back (`old_key_back`).
  The same save can put back an old password after a reset.
- Tokens of a logout of all devices stay closed even then, because the sessions are
  closed as well; a password reset closes none, so an old refresh token still
  yields an access token with the new key.
- A link of a password reset is used up only by the password it replaces: a stale
  save of the user, or a second use that was checked before, makes it good again.
- A logout of all devices with an access token that is no longer accepted is
  anonymous: it closes only the session of its refresh token, and answers 200.
- Refresh tokens never rotate, although `SIMPLE_JWT` says ROTATE_REFRESH_TOKENS
  (config/settings/base.py:232-243): the refresh view keeps the jti.

Accounts and terms

- The look for duplicate addresses ignores case and the constraint does not. An
  address that an administrator, or createsuperuser, stores in mixed case can
  coexist with the same one in lower case.
- A stale profile save can undo a BLOCKED status, and inserts an account again
  that was deleted meanwhile, without its acceptances (`revived`).
- Two logins may store the acceptance of one version twice; the status view gives
  the date of the latest acceptance of any version. Superusers accept by flag.
- `change_role` always fails: it calls a method that AuditService does not have,
  inside its transaction.

Orders and products

- A paid order makes the product AVAILABLE, not SOLD, as the comment at
  orders/models.py:102 has it.
- Two clicks pass the unlocked check of orders/views.py:42-45 together and make
  two reservations of one product.
- The status is not checked again under the lock (orders/models.py:69-70): a
  product rejected meanwhile is reserved.
- With the product archived, `Order.save` cannot find it: its expired reservation
  stays for as long as the product is archived (models.py:82, tasks.py:17).
- Nothing reads `expires_at` when paying: a late payment is accepted as long as
  the sweep has not run (views.py:89, models.py:50).
- An edit that fetched the product before a moderator rejected it puts it back on
  sale (products/serializers.py:148), although views.py:117 leaves that to
  administrators; a product may also be created as AVAILABLE.
- A vendor's PATCH may set RESERVED or SOLD, on a REJECTED product too
  (views.py:115-121), and an edit that read the row while it was reserved writes
  RESERVED back after the reservation has ended. The product is then RESERVED
  for nobody, and no sweep will release it.
- Two toggles of the stock that read the same value count as one
  (products/views.py:187-200).
- `Order.clean()` (orders/models.py:55-62) is never called; `destroy` does not
  store the INACTIVE of its docstring (products/views.py:164).
- Pictures are uploaded before anyone asks whether the user may publish: refused
  and failed forms leave files behind (`lost`), and so does every replaced
  picture of a profile.
- `nearby_products` reads locations and then products: the vendor of a product on
  the page may have gone offline between the two. Latitude and longitude are two
  reads, without the filter on visibility.
- The route of `ProductDetailPublicView` has an integer key and products have
  UUIDs; `/products/<uuid>/` is served by `ProductDetailView`, which does not look
  at the vendor's status.

AI descriptions

- PROCESSING may be written over the DONE of a fast task; only the reaper ends it.
- An error of the service is stored as the description, with DONE; the poll
  answers DONE for a task that timed out or found no product.
- An archived product in PROCESSING is hidden from the reaper.
- A worker that is lost after its result was stored and before the acknowledgement
  gets the task again: a poll that answered FAILED may answer DONE later, and two
  attempts of a task may run beside each other. If the handler's own UPDATE fails, or
  the broker refuses the retry, only the reaper ends PROCESSING.

Moderation

- Decisions that contradict each other and overlap leave a product in a status
  that neither administrator chose with its rows in disagreement (`opposed`).
- A decision on an archived product is lost for the product while its images and
  records are settled (`missed`); an approval that dies half-way leaves the product
  REJECTED without a pending record (`died`).
- The automatic pipeline does not run: its caller is commented out
  (products/models.py:136-147), the app's URLs are not included, and its service
  reads `.url` of a text field and calls a method that does not exist.

Audit

- `BlockIPMiddleware` is not in MIDDLEWARE (config/settings/base.py:85-97): bans
  are recorded and not enforced.
- The middleware notes the user of the Django session before DRF authenticates
  the JWT, so entries of API requests carry no user. The context is never cleared,
  which is harmless, because each request overwrites it and tasks have threads of
  their own.
- Two penalties saved from stale copies count as one, and may raise a score that
  was lowered further meanwhile.
- The services that call `log_*` with arguments these do not accept roll their
  work back (core `SoftDeleteService`).

Geo, reviews, chat

- Pictures of two overlapping requests mix; a stale save moves a location back,
  shows a vendor who went offline, or inserts a location again after its deletion.
- Every vendor may change, move or delete a location that is on the map, whoever it
  belongs to (geo/views.py:28-39), and give it to another user, because the
  serializer takes `user` (geo/serializers.py:37, 113-115).
- `all_locations` shows only active ones, its docstring says all.
- Two reviews created together: the unique constraint refuses one with an error
  500. An edit that overlaps with a deletion brings the review back. The comment
  at reviews/views.py:78 says that administrators are refused in
  `perform_create`, which does not look at the role.
- The assistant answers 500 when the last match disappears between two of its
  searches; it does not look at stock or at the vendor.

## 8. Not modelled

- The login path `api/token/` (config/urls.py:24): its tokens name neither a key
  nor a session, and authentication and refresh refuse such tokens. The tasks
  that send e-mail: they write nothing. The mail about a change of status reads the
  status when it runs, and `email_service` catches its errors, so its autoretry
  never retries.
- The relay of live positions (geo/consumers.py): it keeps no state; order and
  delivery are those of the channel layer.
- Encryption of fields (core/utils/encryption.py): a pure conversion around reads
  and writes.
- Notifications: rows that only their reader changes. Reading the audit log, the
  list of reviews with its average, VendorAIHistory and every other list that is
  one read or none of whose parts has to agree with another.
- The CRUD of categories (single statements) and the synchronous suggestion of a
  description, which stores nothing.
- The app's own services and views of moderation, which nothing reaches.
- Prices apart from the assistant's extremes, quantities, formats of messages,
  logs, e-mails and JSON, pagination links, distances, throttling, expiry of
  tokens, templates, settings, migrations, the Django admin, the one-off scripts
  at the root of `src/`, which edit a generated API description, and
  `apps/analytics`, which is empty.
