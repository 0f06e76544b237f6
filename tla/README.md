# Formal models of falka

falka is a back office for small online sellers: it keeps the stock of a
warehouse, mirrors the orders of marketplace stores (Shopee, Lazada, TikTok),
pushes stock levels back to the stores' listings, and has purchasing, counter
sales, returns, stock counts, packing videos and a hand-scanner around that.
The web application (`apps/web`, Next.js with a custom server) and a worker
process (`packages/queue`, BullMQ on Redis) share one Postgres database.

This directory holds TLA+ models of its concurrent core, the TLC instances that
check them, and proofs checked by TLAPS. Line numbers below are of the file
named next to them; `PROJECT.json` maps every definition to the lines it models.

    tlc -config Inventory.cfg MCInventory.tla           one run
    tlapm InventoryProofs.tla                           one module's proofs

## 1. The system and its parts

| Part | State it keeps | Operations | What is hard about it |
| --- | --- | --- | --- |
| Inventory engine (`modules/inventory`) | `Inventory` row per variant (available, reserved, damaged, incoming), append-only `StockLedger` | the `*Tx` movements other services call in their transactions, `adjustStock`, `disposeDamaged`, `ensureInventory` | many transactions on one variant; several variants per transaction; a cache beside a ledger |
| Order lifecycle (`modules/orders`) | `Order` and `OrderItem` rows, three inventory stamps per order | pulls (scheduler, manual, webhook), `resolveOrderItem`, `markOrderShipped`, `cancelOrder` | a pull is a chain of transactions; guards are read before the transaction that uses them; the channel moves on meanwhile |
| Outbound stock sync (`packages/queue`) | delayed jobs in Redis, `MarketplaceSyncJob` rows, `lastSyncStatus`/`syncEnabled` per mapping | enqueue after commit, fan-out, push with retries, "sync now" | coalescing by job id, crashes between database and queue, concurrent workers, absolute pushes against relative sales |
| Listing mapping and import | `MarketplaceProduct`, its mapping, import jobs, `listingsSyncedThrough` | map, unmap, automatic mapping by SKU, resumable import | the mapping changes under open orders; pages are offsets into a list that changes; retries go on from a checkpoint |
| Purchasing | purchase orders, received quantities | place, receive in parts, cancel | status and outstanding quantity are checked outside the transaction |
| Counter sales and refunds | sales, refunds, bundles exploded into variants | sell, void, refund | void against refund, guarded by a lock per sale |
| Returns | returns with a disposition per line | open, process, reject | credited against what an order shipped |
| Stock opname | counted lines with a variance | count, complete, cancel | the variance is older than the stock it is added to |
| Order pull cursor | `ordersSyncedThrough`, cooldown stamp | advance after a complete pull | overlap window, truncated pages |
| Scanner pairing | pairing session, phone and desktop sockets | create, connect, heartbeat, scan, expire | two devices, stale heartbeats, reconnects |
| Marketplace tokens | encrypted access and refresh token | refresh before use, daily refresh | rotating refresh tokens refreshed twice |
| Recordings and storage quota | recording status, `storageUsedBytes` | start, upload, complete, fail, delete, recalculate | counter incremented by some and recomputed by others |
| Members and invitations | members, invitations | invite, redeem, remove | a limit counted before the insert (not modelled) |
| Drift reconciliation, cleanup jobs, rate budget | logs, old rows, Redis buckets | nightly jobs, token buckets | read-only, deletion of old rows, wall-clock time |
| Catalogue, finance, reporting, notifications, audit, auth, admin, UI, provider clients | rows of their own | forms, aggregations, HTTP clients | little that is concurrent |

How they interact. Every service that moves stock calls the inventory engine
inside its own `prisma.$transaction`, and only after the commit calls
`propagateToMarketplaces`, a best-effort enqueue. The propagate job fans a
change out to one job per mapping; a sync job reads the stock again and sets
the listing to it. In the other direction the scheduler of `server.ts` and the
webhooks trigger pulls, which mirror the store's orders and move stock through
RESERVE, SHIP and RELEASE; the source channel is left out of the propagation
that follows. The catalogue decides which variant a listing, and therefore an
order line, stands for.

What makes each part correct:

* inventory: the cached available stock is the balance of the ledger, and
  concurrent transactions have the effect of some serial execution;
* orders: each stage is applied at most once per order, the reserved bucket is
  what open orders need, what ships was reserved, and nothing is conjured up;
* sync: every listing ends on the stock, and if one does not somebody can tell;
* purchasing, sales, returns, opname: a document is posted once, for no more
  than what is outstanding, sold or shipped (which the code keeps for sales; for
  purchase orders and returns only while requests do not meet, section 4);
* cursor: no order is skipped for ever; tokens: the stored refresh token is the
  one the provider accepts; import: no product is passed over by the watermark;
* pairing: one phone drives a user's station, and who is gone is seen to be;
* recordings: a finished video is lost in no other way than by being given up, or
  dropped by the page where the code says so, and the counter is the sum of what
  is stored.

## 2. The modules

| Module | What it is |
| --- | --- |
| `StockMoves` | the arithmetic of one stock movement; no state |
| `Inventory` | concurrent transactions over movements, with locks, drafts, commits and rollbacks |
| `StockBook` | abstract: what callers may rely on, transactions that take effect all at once |
| `Orders` | pulls, staff operations, the marketplace and the catalogue, over stock that moves atomically |
| `Returns` | returns of shipped orders; extends `Orders` and shares its stock and returns |
| `BackOffice` | what the documents share: stock, the users' requests, what a request has loaded |
| `Purchasing`, `Sales`, `Opname` | one kind of document each, over `BackOffice` |
| `StockSync` | one variant's way to its listings |
| `Connection` | one store's tokens and order cursor, and everybody who uses them |
| `Import` | imports of one store's catalogue |
| `Recordings` | packing videos: page, API, bucket, quota, worker jobs |
| `Pairing` | scanner pairing: desktops, phones, API, sweeps |
| `MC*` | values for TLC; `MCBackOffice` also composes the three document modules |
| `StockMovesProofs` | lemmas: movements, ledgers, sums over finite sets |
| `InventoryProofs`, `OrdersProofs`, `BackOfficeProofs`, `ImportProofs`, `PairingProofs`, `RecordingsProofs` | theorems about the module(s) each is named after (`OrdersProofs` is about `Returns` too) |
| `StoreProofs` | theorems about `Connection` and `StockSync`, the two directions between a store and the warehouse |

`Inventory`, `Orders` and the back office are built from the same `StockMoves`.
All of them but `Inventory` make the movements of one transaction in one step;
that `Inventory` implements `StockBook` (`Serializable`, stated through
`INSTANCE StockBook WITH ...`, model-checked and proved) is what justifies it. `Returns` composes with
`Orders` by extension, the documents with each other in `MCBackOffice`.

Conventions. One action per statement group that other processes can fall
between: a transaction is one action, a check made before it another. What a
process has read and holds in memory is a variable (`pull`, `task`, `desk`,
`calls`, `op`, `run`). An operator preceded by "Faulty" is a plausible bug of the
operator after it, by which each property is tested; nothing uses it otherwise.
Most modules have a set of *scenes* (scenarios, worlds): a scene, chosen
initially, says who takes part and what may happen, so that several small
instances are checked in one run.

### StockMoves and Inventory

A movement is `[kind, variant, qty]`, one kind per mutation method of
`inventory-server.service.ts`. `Written(m, seen, current)` is the row after the
upsert. It takes two rows because the methods mix absolute columns, computed
from the row read under the lock (`seen`), with `{ increment }` and
`{ decrement }`, which act on the row the statement finds (`current`).
`LedgerRows` is what is appended, `Accepted` the checks that throw. The
moving-average cost that `applyPurchaseReceiptTx` computes is left out. Stock is
a mathematical integer; the columns are 32-bit and the quantities a seller can
type stay far below.

Sessions run one transaction each: `Begin`, then per movement `LockAndRead`
(lines 99-124: advisory lock, then the row) and `Write` (upsert and ledger
insert), then `Commit`. Uncommitted rows are in `draft` and `rows`, visible to
their session only. A movement may be refused (`Refuse`), the process may die
(`Crash`), and Postgres aborts one of several sessions that wait in a circle
(`DeadlockAbort`): all of them end the transaction without a trace.
`EnsureInventory` is the one write without the lock.

* `CacheMatchesLedger`: available is the last balance, and balances add up.
* `DraftsAreCurrent`: no computed value is older than what is committed
  (`LocksGuardDrafts` is why; it is proved with it).
* `Serializable`: the module implements `StockBook`.
* `TransactionsEnd`: crossing line orders end in an abort, not in a wait.

### Orders and Returns

`channel` is what the marketplace would report; a pull copies it once
(`StartPull`) and then works through its orders. `changed` stands for the cursor
`ordersSyncedThrough`: the orders that changed since it. A pull lists these, and
may list others (the overlap before the cursor, full pulls); when it ends the
cursor advances to its start, so what is left is what changed since it fetched
(`NewSince`), and a pull that crashes leaves it alone. `UpsertOrder` is the first
transaction (lines 724-847: status overwritten, items replaced, variants frozen
once reserved unless they were missing); it also computes, once, which stages
are due, from the saved row. `Reserve`, `ReserveDelta`, `Ship`, `Release` and
`OpenReturn` are the transactions that follow. The staff operations load the
order in one step (`LoadFor...`) and act on what they loaded in a later one;
`resolveOrderItem` has three steps (map the listing, fill the items, reserve).
`CrashPull` and `CrashTask` drop what was in memory. `MapListing` is the
catalogue changing a mapping at any time. `Returns` adds the staff opening,
receiving (line by line into available or damaged) and rejecting returns.

* `ReservedMatchesOrders`: at rest, the reserved bucket of each variant is the
  sum of the lines of orders reserved and neither shipped nor released.
* `EachStageOnce`, `ShippedOrReleased`: the lifecycle.
* `ReservedVariantFrozen`: a remapped listing does not change what a reserved
  line will take out of the warehouse.
* `OnlyHeldOrdersLeave` (proved): a pull or a cancellation ships or releases only
  an order that holds its reservation; `markOrderShipped` looks at the status
  alone and is left out.
* `NoPhantomStock`: no order leaves more units behind than there were.
* `StockFollowsChannel`, `StatusConverges` (liveness): what the marketplace
  reports reaches stock and status in spite of crashes, and what changes while a
  pull works is not lost. An order that the staff shipped and the channel leaves
  PAID stays SHIPPED unless it is listed again.

`ReturnsMatchShipments` (what comes back had gone out) is stated in `Returns` and
fails; see section 4.

`rows` counts ledger rows per order line, up to `MaxRows`; with two, a stage
that is applied a second time is already visible.

### BackOffice, Purchasing, Sales, Opname

`desk[c]` is the request user c has under way with the document it loaded; an
`Open...` action is the load and its checks, the action of the operation itself
the transaction, and `Die` a request that ends in between. Purchase orders are
`ordered` and `received` quantities per line; receipts clamp to what the loaded
order still expects. Void and refund of a sale read the sale again under its
lock (`VoidStands`, `RefundStands`). A counting line remembers the books'
quantity and the variance found; posting adds the variance to the books as they
are then. `missing` is what the shelf lacks, unknown to the program.

A world (`open`) says which documents there are, which requests may meet on one
of them (`meet`) and whether cancel is called on drafts, which the page does not
offer and the endpoint accepts.

* `IncomingMatchesUndisturbed`: the incoming bucket is what placed orders still
  expect, where receipts and cancellations of one order do not meet and drafts are
  discarded.
* `IncomingIsExpected`: where they do meet, or drafts are cancelled, it is never
  more than that; what is taken off twice is missing from it.
* `ReceivedIsComplete`: an order that is closed as received has received every
  line, however receipts and cancellations of it meet. (More than was ordered it
  may have received: `ReceiptsWithinOrder` fails.)
* `SaleSettledOnce`: a unit comes back at most once, by void or refund.
* `CountCorrectsBooks`: posting an accurate count makes books and shelf agree,
  although sales and receipts went on after the counting.
* `BooksBalance`: the stock is what the documents of all three kinds say.

### StockSync

One variant with one mapping per channel. `owed` holds commits whose enqueue has
not been made; `propagates` the jobs by id (0 is the stable id of automatic
changes, a manual sync has an id of its own); `syncs` the rows and queue jobs,
one per channel and event; `work` what each sync worker has in hand.
`LocalChange` and `PullOrder` commit; `EnqueueCoalesced` follows, or is lost.
`PropagateStart`, `CreateSyncJob`, `AddSyncJob`, `PropagateDone` are the steps of
the propagate job, with the row created before the queue job. `SyncLoad` reads
the stock (clamped at zero by `Shown`), `SyncPush` reaches the provider,
`SyncSucceed` and `SyncFail` record the outcome; a lost answer is a failure
after the push. `ChannelSale` is the marketplace lowering its listing before
anybody knows. `changedAt` and `uncovered` are history variables.

* `StaleIsVisible`: when all work is over, a wrong listing is marked FAILED, or
  has a row still PENDING, or belongs to a channel that the last enqueue left out.
* `SyncNowRepairs`, `BurstConverges` (liveness): a manual sync after the last
  change, and a burst of changes for every channel the last enqueue covered,
  bring each enabled listing to the stock or mark it FAILED, provided that no two
  workers push one listing at the same time (`OnePushAtATime`). The code does not
  provide that: four sync jobs run at once and nothing keeps two of them off one
  mapping.

### Connection

Generation n of a store's tokens can be traded once, for n + 1
(`provider.gen`); access tokens up to `provider.lapsed` are rejected. Everybody
(`op`) loads the connection once and works from the copy: `BeginWork` refreshes
ahead of expiry, `Rejected` after a rejected call, `StoreTokens` is the later
write; `LoseTokens` is that write failing, which the code takes for a failed
renewal, so that the tokens in hand are lost. A pull asks for what changed since the cursor minus the overlap
(`Asked`), gets a whole or a partial listing (`FetchWhole`, `FetchPart`), stores
order by order and sets the cursor (`Advanced`) to the start of the pull if the
listing was whole. `ListChange` is the provider listing a change late.

* `TokensCurrent`: the stored tokens are the ones the provider takes, unless a
  process died with new ones in hand or failed to store them.
* `NothingSkipped`: no change that is not stored falls behind the cursor.
* `ChangesArrive` (liveness): every change is stored in the end, through renewals,
  rejected tokens and partial listings, unless the tokens are lost or the store is
  disconnected.

### Import

`RequestImport`, `CreateJob`/`CreateRefused` and `Enqueue` are the statements of
`startImport`; the unique index of one active row per store is `Vacant`. A job
(`run[j]`) goes through `Begin`, then `FetchPage`, `StorePage`, `Checkpoint` per
page, then `ReadUnmapped`, `MapOne`, `UpdateConnection`, `Complete`. A page is
what the changing catalogue has at an offset (`At`). Failures inside the paging
loop end in a retry from the row's checkpoint or a PARTIAL/FAILED row
(`PageFails`, `PageRefused`, `NothingStored`). Those before the loop (`BeginFails`),
in the catch block's own writes (`CatchFails`) and after the loop (`LateFails`) are
not caught: the job is retried, and after the last attempt its row stays
PROCESSING. The insert of a mapping has a catch of its own that swallows every
failure (`NotMapped`; `missed` is what this attempt left out). A job of a dead
worker is handed out again, but dropped when that has happened too often
(`WorkerDies`; the queue is then `lost`).

* `NothingUnlooked`: a product that is not stored as it stands has changed after
  the watermark (less the overlap), so the next import looks at it.
* `MappingsSettle`: an import never takes a listing from the user who mapped it,
  and completes with every matching listing mapped, those included that earlier
  attempts and imports left out; only what its last attempt failed to insert is
  missing.
* `EveryImportEnds` (liveness): an import ends, whatever fails in its pages. It is
  left for dead in three cases only: its job was dropped, the process that
  creates it died, or something failed where nothing catches it. Nothing closes
  such a row afterwards (`NeverWedged` fails).

### Recordings

`screen[d]` is the recording page of a device, `kept` its local recovery store,
`calls` the API requests under way, which the page may have given up on, `row`,
`used` and `bucket` the server's side, `work` what the worker's jobs have read.
`footage` is history: what became of a video, `waived` if somebody gave it up and
`lost` if the page dropped it on its own. A video is one unit. The page drops one
in two cases: the server answers a first upload with an error of its own
(`ServerFails`, stop-recording-failure.ts:109, use-recording.ts:508), or the browser
cannot store what should be kept for a retry (`StoreFails`, use-recording.ts:55-74).
Object storage may fail wherever an object is deleted (`TryDelete`, `PurgeObject`).
The purge reads a batch of deleted rows in no order (`ReadPurgeable`) and deletes
their objects one by one; the rows stay as they are and can be read again.

* `EvidenceKept`: from the moment a recorder stops, the video is in a page's
  memory, kept on a device or in the library, until somebody gives it up, its
  retention ends or the page drops it in one of the two ways above.
* `QuotaConverges` (liveness): the counter comes back to what is stored.
* `ObjectsFreed` (liveness): objects of deleted recordings go, also those whose
  deletion failed half way, as long as no more recordings are deleted than fit one
  batch; beyond that the same ones may be read for ever.

### Pairing

`session` are the rows, reduced to status, whether `expiresAt` is ahead and
whether the last heartbeat is recent; `calls` the create and connect requests
between their statements; `desk` a desktop's query cache, room and poll;
`sweeping` what the sweep has read and not yet written.

* `FreshPairingIsSole`: two phones that both connected with a fresh code, to the
  end of their requests, are never connected side by side.
* `SilentPhonesDrop`, `DesktopLearns` (liveness): a silent phone does not stay
  connected, and no desktop goes on showing a session that is over.

## 3. The runs

| Run | Instance | What it shows |
| --- | --- | --- |
| `inventory` | 2 variants, 2 sessions, 3 of 15 transactions with lines in both orders and every kind of movement, fair | cache = ledger; no stale draft; serializable; every transaction ends |
| `orders_lines` | 2 orders sharing a listing; nothing mapped and staff resolving, or one order with the catalogue remapping while staff cancel, or pulls and mark-shipped with a crash | reservations match; frozen variants; shipped or released |
| `orders_returns` | 1 order, every channel history, mark shipped, returns, 2 crashes, 2 handlers, fair | stages once; no units appear; stock and status follow the channel |
| `sync_trace` | 2 channels, 2 events, 2 failed pushes, 1 crash anywhere | a wrong listing leaves a trace |
| `sync_fair` | bursts of 3 events over 2 channels, or 1 channel with manual syncs, 2 workers, as many failed pushes as a job has attempts, fair | unless two workers push one listing at once, a burst converges and a manual sync repairs |
| `back_office` | 1 variant, 2 lines, 2 users; two purchase orders that users work on in turn, two on which receipts and cancellations meet and drafts are cancelled, or a purchase order, a sale and a count | documents and stock agree; incoming is what is expected, and never more |
| `recordings` | 1 video on 1 or 2 devices, or 2 videos on one, in 8 scenes, 2 requests at once, 1 mishap, batches of 1, fair jobs | the evidence is kept; the quota converges; objects are freed |
| `pairing` | 2 desktops and 2 phones in 5 scenes, 2 sessions, fair timers | fresh pairings are sole; silence is noticed; desktops learn |
| `connection` | pulls, a push and the token job in 5 scenes, 2 orders, 3 ticks, 1 death or failed write, fair | tokens current; nothing skipped; changes arrive |
| `listing_import` | 3 products in pages of 2, 2 imports by 1 or 2 users in 6 scenes, up to 2 mishaps, 4 ticks, fair | nothing unlooked; mappings settle; imports end |
| `sync_excluded` | orders of two channels in one window | violates `QuietListingsAgree` |
| `import_shrink` | a product disappears between two pages | violates `NothingUnlooked` |

Why the bounds are enough. Two sessions and two variants are the fewest that
race and deadlock; the third transaction (`MaxBegins`) lets one commit fall
between the read and the write of another. Two orders on one listing share a
variant's reserved bucket, and quantities 1 and 2 keep sums apart. One crash is
enough to skip a stage, a second lets the recovery fail too. Three sync events
(`MaxEvents`) are a job's first payload, a change that coalesces with it, and
what comes after it ended; two attempts are a retry and a last attempt, and two
failures (`MaxFaults`) are enough for the last attempt to fail too. Two lines
of one variant and a cart of two units are the least that can be received or
refunded in part; `MaxCount` and `MaxLoss` allow a count above, below and at the
books. Two devices conflict over one organisation; `MaxKeys` lets one upload be
tried twice and `MaxCalls` a late request meet a new one; two videos with batches
of one (`PurgeBatch`) are more than a batch. Two sessions and two
phones are what supersedes and is superseded. Two generations after the first
(`MaxGen`) are a renewal and the one that makes it stale; three ticks (`MaxTime`)
a change, a late listing and the pull behind it. Three products in pages of two
are a full page and a short one, and two imports a full and an incremental one;
four ticks let a change fall further back than the overlap; two mishaps use up the
attempts of a job (`MaxAttempts`), or its second delivery (`MaxStalls`). `MaxBegins`,
`MaxRows`, `MaxEvents`, `MaxFaults`, `MaxCrashes`, `MaxCount`, `MaxLoss`,
`MaxKeys`, `MaxCalls`, `MaxMishaps`, `MaxSessions`, `MaxTime`, `MaxGen`, `MaxJobs`
and the numbers in scenes are the only bounds in guards. (`MaxAttempts`,
`MaxStalls`, `PageLimit`, `PurgeBatch`, `Overlap` and `Quota` are the code's own,
scaled down.)

Symmetry is used for sync channels in `sync_trace` and users in `back_office`,
where no liveness is checked. `CHECK_DEADLOCK FALSE` is set where the
environment's supply is bounded, so that the instance really stops; the Orders
instances can always pull again and are checked for deadlock.

### What the standing runs keep away

The code permits all of what is listed here. Letting it happen breaks a property,
which an instance of section 4 shows.

* `Sequential = TRUE` (orders): an operation starts only when no other runs,
  while the marketplace and the catalogue move at any moment and crashes strike
  in the middle. The scheduler never starts two pulls itself, but manual pulls
  and forced webhook pulls are not kept apart from it, and its own flag is reset
  when its request times out while the pull goes on (`apps/web/server.ts:94-99`).
  Staff cancel and staff ship are in different scenarios, and late mappings are
  kept away from cancellations of whole orders.
* `HandleTogether = FALSE`: no two handlers on one return.
* The worlds of `back_office`: users meet on a sale to void and refund it, and on a
  purchase order to receive and cancel it, but not to edit a draft or on one count.
* One sync worker in `sync_trace`; two in `sync_fair`, whose properties have as
  their premise that no two push one listing at the same time. The queue's
  concurrency is four (`register-workers.ts:64`), and nothing keeps two of its jobs
  off one mapping.
* Returns: a channel cancels whole orders, and lines have their variants before
  they ship.
* `Split = {"start", "save", "delete"}` and `RetryInSweep = FALSE`: mark and
  cancel requests reach the server at once, and no retry starts between the
  sweep's read and its deletions.
* No two pulls at once and no owner acting during a token renewal in
  `connection`.
* Products disappear only between imports in `listing_import`, and no import that
  was given up is handed out again in a scene where they do. Everything else that
  can leave a row PROCESSING happens in the run: `EveryImportEnds` names it.

### Fairness

All fairness is weak but for pulls in `Connection`.

* `Inventory`: a running transaction takes its next step, and Postgres breaks
  circular waits (deadlock detection is on by default); nobody is obliged to begin.
* `Orders`, `Returns`: the scheduler keeps pulling what has changed (`setInterval`
  in `server.ts`), is not obliged to list anything else,
  and an operation under way goes on, unless it crashes; the marketplace and the
  staff owe nothing.
* `StockSync`: the web process reaches its enqueue, pulls go on, and BullMQ hands
  out waiting jobs and jobs of dead workers.
* `Recordings`: the worker's repeatable jobs run again and again, and the purge
  makes some step whenever it can, not one for each row; pages and users owe
  nothing.
* `Pairing`: time passes, the sweeps and polls are timers; requests may hang.
* `Connection`: the cooldown ends, the provider lists what changed, processes go
  on; strongly fair: the scheduler's pull starts, a call is now and then answered
  in full or its token rejected as such, and a refresh is now and then taken.
* `Import`: the worker takes queued jobs and goes on with them, requests are
  answered.

Failures, crashes and new work are never fair.

## 4. Findings

Two runs reproduce a disagreement between the code and what it says of itself;
each is quoted with its line in `PROJECT.json`.

1. `sync_excluded`: a coalesced job keeps the first change's
   `excludeConnectionId`.
2. `import_shrink`: the whole-window check compares with the total of the last
   page, which has shrunk with the catalogue, so the watermark passes a product
   that moved under the offset.

Further instances, kept beside the standing runs, show what the restrictions
above keep away. Each can be run by hand:

| Instance | Result |
| --- | --- |
| `OrdersOverlap.cfg` (MCOrders) | violates `EachStageOnce`: two pulls; stage guards are neither locked nor read again in the stage's transaction |
| `OrdersLateCancel.cfg` (MCOrders) | violates `NoPhantomStock`: RELEASE gives back a line resolved in this very pull |
| `OrdersLateCrash.cfg` (MCOrders) | violates `PullReservesLateLines`: a crash after the upsert that stored a late variant leaves the line without a reservation |
| `OrdersCancelRepull.cfg` (MCOrders) | violates `OnlyHeldOrdersShip`: staff cancel, a pull takes the order back to PAID, and `markOrderShipped` looks at the reserve stamp but not at the release stamp |
| `OrdersResolveShipped.cfg` (MCOrders) | violates `ReservedMatchesOrders`: staff ship, a pull takes the order back to PAID, and `resolveOrderItem` reserves a line of it, looking at the status but at no stamp; no later stage consumes that reservation (staff who cancel and resolve leak in the same way) |
| `OrdersReturnLine.cfg` (MCReturns) | violates `ReturnsMatchShipments`: a line cancelled before the shipment is credited (as is one mapped after it) |
| `OrdersReturnTwice.cfg` (MCReturns) | violates `NoPhantomStock`: two handlers restock one return |
| `PurchaseCancelDraft.cfg` (MCBackOffice) | violates `IncomingMatchesOrders`: the cancel endpoint takes a draft's units off |
| `PurchaseReceiveTwice.cfg` (MCBackOffice) | violates `ReceiptsWithinOrder`: two receipts of one order receive more than was ordered |
| `OpnameTwoScanners.cfg` (MCBackOffice) | violates `EveryScanTallied`: two scans read the same tally |
| `RecordingsLateCancel.cfg`, `RecordingsSweep.cfg` (MCRecordings) | violate `EvidenceKept`: a late cancel fails a completed recording; the sweep deletes one that a retry completed |
| `PairingRevived.cfg` (MCPairing) | violates `ExpiredStaysOver`: a late write takes an expired session back |
| `ConnectionOverlap.cfg` (MCConnection) | violates `NothingSkipped`: two pulls set the cursor |
| `ConnectionRegrant.cfg` (MCConnection) | violates `TokensCurrent`: a renewal overwrites the tokens of a new authorization |

Other promises the modules state fail in scenes that are small enough to be
seen without an instance of their own: `StockSync.PendingIsQueued` after a crash
between row and queue job (the retried fan-out skips the row),
`StockSync.QuietListingsAgree` when a change meets an active coalesced job,
`StockSync.SyncNowRepairs` and `StockSync.StaleIsVisible` with two workers on one
mapping (`StockSyncTrace.cfg` with `SyncWorkers = {w1, w2}`: the older read is
pushed last, or its success recorded over the failure of the newer one, and
nothing shows that the listing is wrong), `Recordings.KeptCanBeUploaded` (a completion that committed
without an answer leaves a video kept for a retry that is refused for ever),
`Import.NothingUnlooked` when a worker dies between giving an import up and
telling the queue (`Resumed`: the job is handed out again and only a COMPLETED
row is left alone, import-engine.ts:431, so it goes on at an offset into a
catalogue that may have shrunk since),
`Pairing.OneActiveSession` (the promise of the schema's comment),
`Connection.DisconnectedStaysOff` (a renewal under way connects the store again;
`Disconnects`) and `Import.NeverWedged` (a last attempt that fails outside the
paging loop or in its catch, or a job dropped with its worker, leaves its row
PROCESSING; `findActiveJob` takes it for dead but the unique index refuses every
later import; `Wedging`).

## 5. What is proved

Each theorem holds for every value of the constants that satisfies the named
assumptions of its module (sentinels that are not values, finite or non-empty
sets, positive bounds) and for every scene. Where the code keeps a promise only
if certain requests do not meet, the theorem says so: the condition is a
hypothesis of the theorem, or a disjunct of what it states, and an instance of
section 4 shows what becomes of the promise without it.

| Theorem | States | Provided that | Without it |
| --- | --- | --- | --- |
| `TypeCorrect`, `CacheNeverDiverges`, `NoStaleDraft` (InventoryProofs) | types, `CacheMatchesLedger`, `DraftsAreCurrent` | | |
| `EngineIsSerializable` | `Serializable`: `Inventory` implements `StockBook` | | |
| `ReservedLinesKeepVariant` (OrdersProofs) | `ReservedVariantFrozen` | one operation at a time (`Sequential`) | |
| `OnlyTheHeldLeave` | `OnlyHeldOrdersLeave`: pulls and cancellations, not `markOrderShipped` | the same | `OrdersOverlap.cfg`, `OrdersCancelRepull.cfg` for `markOrderShipped` |
| `LinesGoThroughOnce` | `EachStageOnce` | and no late variants (`FixedLines`), or no crash and no cancelled order (`Undisturbed`) | `OrdersOverlap.cfg`, `OrdersLateCancel.cfg`, `OrdersLateCrash.cfg` |
| `NoReservationMissing` | `EveryHeldLineReserved`, at rest | the conditions of `LinesGoThroughOnce`, and staff who ship or cancel, not both (`OneWayOut`) | `OrdersLateCrash.cfg` |
| `LifecycleTypes` | `Orders`' types, with returns | one operation at a time (`Sequential`) | |
| `ReservationsAddUp` | `ReservedMatchesOrders` | the conditions of `LinesGoThroughOnce`, and staff who resolve lines neither ship nor cancel (`Orderly`) | `OrdersResolveShipped.cfg`, `OrdersLateCancel.cfg`, `OrdersLateCrash.cfg` |
| `NoStockAppears` | `NoPhantomStock` | one operation at a time, one handler to a return, fixed lines, orders cancelled whole, `OneWayOut` (`WholeHandling`); anything may crash | `OrdersLateCancel.cfg`, `OrdersReturnLine.cfg`, `OrdersReturnTwice.cfg` |
| `BackOfficeTypeCorrect`, `ReceivedIsAlwaysComplete`, `IncomingStaysExpected`, `SalesSettleOnce`, `BooksAlwaysBalance`, `CountsCorrectBooks` (BackOfficeProofs) | types, `ReceivedIsComplete`, `IncomingIsExpected`, `SaleSettledOnce`, `BooksBalance`, `CountCorrectsBooks` | requests meet on one document only to void, refund, receive or cancel (`EditsWorkAlone`); drafts may be cancelled | `OpnameTwoScanners.cfg` |
| `ConnectionTypeCorrect` (StoreProofs) | types | | |
| `TokensStayCurrent` | `TokensCurrent` | no owner authorizes during a renewal (`"race"`) | `ConnectionRegrant.cfg` |
| `CursorSkipsNothing` | `NothingSkipped` | pulls of one store do not overlap (`"overlap"`) | `ConnectionOverlap.cfg` |
| `SyncTypeCorrect` (StoreProofs) | types (`SyncTypeOK`) | | |
| `StaleLeavesATrace` | `StaleIsVisible` | no two workers push one listing at a time (`OnePushAtATime`) | `StockSyncTrace.cfg` with two workers |
| `ImportTypeCorrect`, `MappingsAlwaysSettle` (ImportProofs) | types, `MappingsSettle` | | |
| `WatermarkPassesNothing` | `NothingUnlooked` | products disappear between imports only, and no import that was given up is resumed (`Steady`) | `ImportShrink.cfg`; with `Scenes <- Resumed` for the second |
| `PairingTypeCorrect`, `FreshPairingsAreSole` (PairingProofs) | types, `FreshPairingIsSole` | | |
| `RecordingsTypeCorrect`, `EvidenceIsKept` (RecordingsProofs) | types, `EvidenceKept` | mark and cancel are served at once, no retry inside the sweep (`PromptWrites`) | `RecordingsLateCancel.cfg`, `RecordingsSweep.cfg` |

None of these properties is inductive as it stands; what each needs beside it is
the argument for why the code is right.

**Inventory.** `CacheMatchesLedger` alone says nothing of the drafts a commit
publishes. The inductive invariant is

    InvI == TypeOK /\ CacheMatchesLedger /\ DraftsAreCurrent /\ LocksGuardDrafts

A commit keeps the cache because drafts continue the committed ledger. Drafts
stay current because only the holder of a variant's lock has one, so no other
commit changes that variant. A write extends a draft correctly because what the
session has read under the lock is still what it would read.

The refinement adds `OnBook`: for each transaction under way there is a caller's
transaction and a number of its movements already made, and the session's drafts
are what these movements make *of the book committed now*. The point is the last
word. When another session commits, the book under the transaction changes, and
`Rebased` shows that the same movements, made on the new book, give the same
drafts: they only read and write rows that this session has drafted, whose locks
it holds. At its own commit the transaction has made all its movements, and
`ProgressIsUnique` identifies them with the recursive function of
`StockBook!Progress`.

**Orders and returns.** `OrderInv` says what an operation has in memory: nobody
else has touched the order since the operation read it, the stages a pull is due
to make fit the stamps of its row (`DueFitsOrder`), and late lines have no
reservation (`LateUnreserved`). `WayOutInv` follows a release back to a
cancellation at the channel, which is final, so that no later pull ships the
order. `StageInv` says that every line of a held order is reserved or about to
be, which is what fails in between when an operation dies or a whole order is
cancelled while a line is late. `ReturnInv` says that the shipment took all the
lines there are.

**The stock of orders.** `ReservedMatchesOrders` speaks of the moments at which
nothing is under way. What is inductive is `ReservedIsOwed`: at every moment the
reserved bucket of a variant is the sum, over all orders, of the units of the
lines that have been reserved and have neither shipped nor been released
(`Outstanding`, read off the ledger rows). Every step that moves stock has one
form (`StockMove`): it reserves lines of one order, or ships some and releases
others. Since each stage happens once, the lines that leave were outstanding, so
their units are in the bucket and the code's clamp at zero never takes effect
(`OwedIsReserved`, `LinesLeave`). `GoneHoldNothing`, that a stamped order has no
outstanding line, needs to know that nobody reserves a line of such an order.
For `resolveOrderItem` this rests on the status alone, hence `DepartInv`: where
orders ship by pulls only, a shipped order is never PAID again.

On hand, a unit that is away comes back once. `NothingAppears` is an equation:
the three buckets and the units that are away (shipped and not of a received
return) make up what there was. Receiving a return keeps it because the return
is still what its handler loaded (`HandlingFits`), holds lines that shipped
(`ReturnInv`), of the variants they shipped with (`ReturnsFixed`).

**Back office.** `OfficeInv` is the conjunction of who works on which document
(`DeskInv`), how far what a request has loaded may be behind the document, and how a
document's status and its quantities hang together (a receipt or a cancellation
may find that more has been received since, never less, so it takes off no less
than what was still expected); `Books` and `Incoming` then relate the
documents to the stock. They are sums over all documents, so their proofs need
lemmas about sums over finite sets: what a sum is after one summand has changed,
that sums of equal summands agree, that a sum of sums is the sum.
`StockMovesProofs` proves these for `SumFunctionOnSet` of the community modules,
including the existence of the recursive function behind the fold, by induction
over finite sets; the induction itself is derived from the well-foundedness of
`<` on the naturals (`NatSetInduction`, `SetInduction`), since induction rules
that take an operator as a parameter cannot be instantiated.

**Connection.** For the tokens (`TokenInv`): neither the row nor anybody's copy
is ahead of the provider, and whoever has renewed and not yet stored is alone in
that and holds the newest generation. For the cursor (`CursorInv`): one pull at a
time works from the cursor that is stored, the mirror is behind the listing and
the listing behind the marketplace by a bounded lag (`InOrder`), and while a
complete pull stores its page, everything its cursor will pass is stored, in the
page, or recent enough for the next pull to reach back to it (`WholePullCovers`).

**Stock sync.** `SyncInv` is how queue, rows and workers hang together: no two
propagations under way are about one event (`JobEvents`), what is owed an enqueue
has no job and no row yet (`OwedIsNew`), a row whose queue job is not made yet is
still held by the propagation that made it (`JobsInOrder`), and a job in hand is
in one hand and has attempts left (`WorkersFit`, `RowsFit`). Types need it: that
an attempt is never counted beyond `MaxAttempts` is `RowsFit`, that the events
suffice is a count of the unpulled orders (`EventsLeft`). `StaleIsVisible` speaks
of the end, when all is quiet. What holds on the way (`TraceInv`) is that every
listing is *attended* (something owed, unpulled, queued, or a propagation that
will still make a row for it, or named among the channels left out), or
*current* (a worker has the stock of now in hand and has not pushed anything
else), or *settled* (nobody has it in hand, and it shows the stock or is
FAILED). A change of the stock makes every listing attended; an enqueue hands
that on to the coalesced job, or names whom this job will not reach
(`EnqueueTraced`); a fan-out hands it on to the row, the row to the queue, the
queue to the worker, which reads the stock there and is current; and a worker
that ends leaves its listing settled, or waiting again. The last step is where
`OnePushAtATime` is needed: a second worker at the listing may have read earlier
and write later. When all is quiet nothing can attend but a row left PENDING and
the channels left out, which is what the property says.

**Import.** An offset into a list says nothing by itself: products are inserted
before it while the import runs. But they are inserted because they changed, and
what changes after the import has started is above the watermark it will set.
`CoverInv` follows the others, those that changed before the start and are not
stored as they stand (`Overdue`). As long as nothing leaves the window of the
import, the number of products listed up to such a product only grows, so it
stays ahead of the offset until a page reaches it; from then on it is on the
page, stored, or counted as an error, which keeps the watermark where it was.
That a short page is the last of the window is a counting argument
(`PageLength`). Retries keep the invariant because row and run agree at every
checkpoint, which rests on there being one active row per store. For the
mappings (`MappedInv`), nothing is stored between an import's read of what is
unmapped and its end, so what is still unmapped is still to be mapped or is one of those whose insert failed.

**Pairing.** A connect request reads, writes and expires in separate statements,
and anything may happen between them. Only the last one makes a pairing sole, and
it expires every other open session of the user in the same statement; every
other step of anybody leaves no session sole and connected that was not
(`FreshOnlyBefore`), which needs that each request, wherever it is cut off, works
on a session that exists and for its own phone (`PairingInv`).

**Recordings.** `EvidenceInv` follows a video from hand to hand: which request a
page waits for, which uploads are under way and under which keys, what a first
upload can rely on (`FirstInv`), which rows the sweep and which objects the purge
have in hand (`SweepingInv`, `PurgingInv`), and that what was saved stays in the library until somebody
gives it up (`DeletedInv`).

Only model-checked are `ShippedOrReleased` (with staff who cancel or ship, one
operation at a time) and `IncomingMatchesUndisturbed`; and liveness under fairness, and with it whatever speaks of ENABLED,
which is out of this prover's reach: `TransactionsEnd`, `StockFollowsChannel`,
`StatusConverges`, `SyncNowRepairs`, `BurstConverges`, `QuotaConverges`,
`ObjectsFreed`, `SilentPhonesDrop`, `DesktopLearns`, `ChangesArrive` and
`EveryImportEnds`.
`PullReservesLateLines` has no theorem: it is what a comment of the
code says, and `OrdersLateCrash.cfg` refutes it.

## 6. Not modelled, and what is left

* Drift reconciliation only reads and logs; the rate budget is about wall-clock
  time.
* Catalogue, finance, reporting, notifications, audit, authentication and the
  user interface are single-row forms, aggregations, pages or framework code,
  which is most of the repository's lines; provider clients appear as choices of
  the environment.
* Members and invitations: a limit counted before the insert, one race of two
  requests, not worth a module of its own.
* Parts of modelled components that are left out are named with each component
  in `PROJECT.json`; among them the cost of goods, payments and prices, tracking
  numbers, token encryption, re-enabling a paused mapping (bulk sync is a
  sequence of manual ones), share links and codecs.

Next, where the models can grow: a propagation with several variants under one
rate budget, two sync workers with whatever the code is given to keep them off
one mapping, and the parts named in the list above.
