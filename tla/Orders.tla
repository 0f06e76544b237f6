------------------------------- MODULE Orders -------------------------------
(***************************************************************************)
(* The marketplace order lifecycle of OrdersServerService: pulls that      *)
(* mirror the orders of one store and move stock through RESERVE, SHIP and *)
(* RELEASE, and the staff's resolveOrderItem, markOrderShipped and         *)
(* cancelOrder.                                                            *)
(*                                                                         *)
(* One action is one database transaction (or one statement outside any).  *)
(* Inventory shows that a transaction over stock takes effect all at once, *)
(* so its movements are made here in one step.  Between two transactions   *)
(* the actors interleave and may crash, and they go on with what they read *)
(* earlier: a pull with the order snapshot of its first transaction, the   *)
(* staff with the order they loaded before theirs.                         *)
(***************************************************************************)
EXTENDS StockMoves, FiniteSets, FiniteSetsExt

CONSTANTS
  OrderIds,      \* orders of one store
  Listings,      \* external (product, variant) pairs order lines refer to
  Variants,      \* internal variants
  LineQty,       \* LineQty[o][l]: units of listing l in order o, 0 for no line
  Unmapped,      \* "this listing or line has no variant"
  InitialStock,  \* available units of every variant in the initial state
  Pullers,       \* scheduled, manual and webhook pulls of the store
  Staff,         \* users working on orders
  NoOrder,       \* "not working on an order"
  Sequential,    \* TRUE: an operation starts only when no other one runs
  Scenarios,     \* what happens around the program in one behaviour
  MaxRows        \* bound on the ledger rows of one reason an order line gets

\* orders: those the store takes; mapping: the listings' variants at first;
\* remaps: listings the catalogue maps, remaps or unmaps meanwhile; cancels:
\* what the marketplace cancels; ops: what the staff do; crashes: how many
\* operations die.
Scenario == [orders : SUBSET OrderIds, mapping : [Listings -> Variants \cup {Unmapped}],
             remaps : SUBSET Listings, cancels : SUBSET {"order", "line"},
             ops : SUBSET {"resolve", "ship", "cancel", "return"}, crashes : Nat]

ASSUME OrdersAssumption ==
  /\ Listings # {} /\ Variants # {}
  /\ LineQty \in [OrderIds -> [Listings -> Nat]]
  /\ Unmapped \notin Variants
  /\ Scenarios \subseteq Scenario
  /\ InitialStock \in Nat
  /\ Pullers \cap Staff = {}
  /\ NoOrder \notin OrderIds
  /\ Sequential \in BOOLEAN
  /\ MaxRows \in Nat

ASSUME FinitelyMany == IsFiniteSet(OrderIds) /\ IsFiniteSet(Listings)

VARIABLES
  channel,  \* each order as the marketplace reports it
  changed,  \* the orders that changed there since the cursor (ordersSyncedThrough)
  mapping,  \* the variant each listing is mapped to
  order,    \* the Order row and its OrderItem rows
  stock,    \* the Inventory row of each variant
  rows,     \* StockLedger rows per order line, by reason
  returns,  \* the Return row of each order and the variants of its items
  pull,     \* what each running pull holds in memory
  task,     \* what each running staff request holds in memory
  crashes,  \* crashes so far (bound only)
  world     \* the scenario of this behaviour; it never changes

vars == <<channel, changed, mapping, order, stock, rows, returns, pull, task, crashes, world>>

Statuses == {"PENDING", "PAID", "SHIPPED", "COMPLETED", "CANCELLED"}
Stages == {"reserve", "delta", "ship", "release", "return"}
Mapping == [Listings -> Variants \cup {Unmapped}]
ChannelOrder == [status : Statuses, cancelled : SUBSET Listings]

OrderRow == [saved : BOOLEAN, status : Statuses, applied : BOOLEAN,
             shipped : BOOLEAN, reverted : BOOLEAN, variant : Mapping]

Pull == [todo : SUBSET OrderIds, fetched : [OrderIds -> ChannelOrder],
         resolution : Mapping, current : OrderIds \cup {NoOrder},
         items : Mapping, late : SUBSET Listings, due : SUBSET Stages]

ReturnRow == [status : {"none", "PENDING", "RECEIVED", "REJECTED"}, variant : Mapping]

Task == [op : {"none", "resolve", "ship", "cancel"}, step : 1..3,
         order : OrderIds \cup {NoOrder}, read : OrderRow, fresh : BOOLEAN,
         line : Listings, to : Variants]

LedgerCount == [RESERVE : 0..MaxRows, SHIP : 0..MaxRows, RELEASE : 0..MaxRows]

Lines(o) == {l \in Listings : LineQty[o][l] > 0}
NoMapping == [l \in Listings |-> Unmapped]

NewOrder == [saved |-> FALSE, status |-> "PENDING", applied |-> FALSE,
             shipped |-> FALSE, reverted |-> FALSE, variant |-> NoMapping]

NoReturn == [status |-> "none", variant |-> NoMapping]

NoPull == [todo |-> {},
           fetched |-> [o \in OrderIds |-> [status |-> "PENDING", cancelled |-> {}]],
           resolution |-> NoMapping, current |-> NoOrder, items |-> NoMapping,
           late |-> {}, due |-> {}]

NoTask == [op |-> "none", step |-> 1, order |-> NoOrder, read |-> NewOrder,
           fresh |-> FALSE, line |-> CHOOSE l \in Listings : TRUE,
           to |-> CHOOSE v \in Variants : TRUE]

TypeOK ==
  /\ channel \in [OrderIds -> ChannelOrder]
  /\ changed \subseteq OrderIds
  /\ mapping \in Mapping
  /\ order \in [OrderIds -> OrderRow]
  /\ stock \in [Variants -> Row]
  /\ rows \in [OrderIds -> [Listings -> LedgerCount]]
  /\ returns \in [OrderIds -> ReturnRow]
  /\ pull \in [Pullers -> Pull]
  /\ task \in [Staff -> Task]
  /\ crashes \in 0..world.crashes
  /\ world \in Scenarios

Init ==
  /\ world \in Scenarios
  /\ channel = [o \in OrderIds |-> [status |-> "PENDING", cancelled |-> {}]]
  /\ changed = world.orders
  /\ mapping = world.mapping
  /\ order = [o \in OrderIds |-> NewOrder]
  /\ stock = [v \in Variants |-> [EmptyRow EXCEPT !.available = InitialStock]]
  /\ rows = [o \in OrderIds |-> [l \in Listings |->
               [RESERVE |-> 0, SHIP |-> 0, RELEASE |-> 0]]]
  /\ returns = [o \in OrderIds |-> NoReturn]
  /\ pull = [p \in Pullers |-> NoPull]
  /\ task = [s \in Staff |-> NoTask]
  /\ crashes = 0

PullIdle(p) == pull[p] = NoPull
Idle == /\ \A p \in Pullers : PullIdle(p)
        /\ \A s \in Staff : task[s] = NoTask

-----------------------------------------------------------------------------
(* The marketplace and the catalogue.                                      *)

Follows(status) ==
  CASE status = "PENDING" -> {"PAID", "CANCELLED"}
    [] status = "PAID" -> {"SHIPPED", "CANCELLED"}
    [] status = "SHIPPED" -> {"COMPLETED", "CANCELLED"}
    [] OTHER -> {}

\* The order moves on at the marketplace.
ChannelAdvance(o) ==
  /\ o \in world.orders
  /\ \E status \in Follows(channel[o].status) :
       /\ status = "CANCELLED" => "order" \in world.cancels
       /\ channel' = [channel EXCEPT ![o].status = status]
       /\ changed' = changed \cup {o}
  /\ UNCHANGED <<mapping, order, stock, rows, returns, pull, task, crashes, world>>

\* One line of a paid order is cancelled, the others will be shipped.
ChannelCancelLine(o) ==
  /\ "line" \in world.cancels
  /\ channel[o].status = "PAID"
  /\ \E l \in Lines(o) \ channel[o].cancelled :
       /\ Lines(o) # channel[o].cancelled \cup {l}
       /\ channel' = [channel EXCEPT ![o].cancelled = @ \cup {l}]
       /\ changed' = changed \cup {o}
  /\ UNCHANGED <<mapping, order, stock, rows, returns, pull, task, crashes, world>>

\* A listing is imported, mapped, remapped or unmapped.
MapListing(l) ==
  /\ l \in world.remaps
  /\ \E v \in (Variants \cup {Unmapped}) \ {mapping[l]} :
       mapping' = [mapping EXCEPT ![l] = v]
  /\ UNCHANGED <<channel, changed, order, stock, rows, returns, pull, task, crashes, world>>

-----------------------------------------------------------------------------
(* Stock movements of order lines, several lines in one transaction.       *)

UnitsOf(o, lines, variant, v) ==
  SumFunctionOnSet(LineQty[o], {l \in lines : variant[l] = v})

\* The stock after every resolved line among lines has made one movement.
MovedLines(st, kind, o, lines, variant) ==
  [v \in Variants |->
     Written([kind |-> kind, variant |-> v, qty |-> UnitsOf(o, lines, variant, v)],
             st[v], st[v])]

Resolved(o, variant) == {l \in Lines(o) : variant[l] # Unmapped}

\* The ledger rows of those movements; a line at its bound gets no more.
RoomFor(kind, o, lines) == \A l \in lines : rows[o][l][kind] < MaxRows
Recorded(rs, kind, o, lines) ==
  [rs EXCEPT ![o] = [l \in Listings |->
     IF l \in lines THEN [rs[o][l] EXCEPT ![kind] = @ + 1] ELSE rs[o][l]]]

-----------------------------------------------------------------------------
(* A pull: pullOneConnection.                                              *)

\* fetchOrders, then resolveOrderItemVariantIds for the whole page.  The
\* channel lists what changed since the cursor, and what falls in the overlap
\* before it or is asked for by a full pull.
StartPull(p) ==
  /\ PullIdle(p)
  /\ Sequential => Idle
  /\ \E listed \in SUBSET world.orders \ {{}} :
       /\ changed \subseteq listed
       /\ pull' = [pull EXCEPT ![p] =
                     [NoPull EXCEPT !.todo = listed, !.fetched = channel,
                                    !.resolution = mapping]]
  /\ UNCHANGED <<channel, changed, mapping, order, stock, rows, returns, task, crashes, world>>

PaidOrBeyond(status) == status \in {"PAID", "SHIPPED", "COMPLETED"}

\* Faulty OpenOrder: a released order can still ship.
OpenIgnoringRelease(row) == ~row.shipped

OpenOrder(row) == ~row.shipped /\ ~row.reverted

\* Faulty ReserveDue: every pull reserves a paid order again.
ReserveDueAgain(o, row) ==
  PaidOrBeyond(row.status) /\ ~row.reverted /\ Resolved(o, row.variant) # {}

\* Faulty ReserveDue: an order first seen already shipped is never reserved.
ReserveDueOnlyPaid(o, row) ==
  /\ row.status = "PAID" /\ ~row.applied /\ ~row.reverted
  /\ Resolved(o, row.variant) # {}

ReserveDue(o, row) ==
  /\ PaidOrBeyond(row.status) /\ ~row.applied /\ ~row.reverted
  /\ Resolved(o, row.variant) # {}

\* The stages an order is due for, decided once from the row as the first
\* transaction saved it.
DueStages(o, row, late) ==
  LET reservedNow == row.applied \/ ReserveDue(o, row) IN
  {stage \in Stages :
     \/ stage = "reserve" /\ ReserveDue(o, row)
     \/ stage = "delta" /\ row.applied /\ PaidOrBeyond(row.status) /\ OpenOrder(row)
                        /\ late # {}
     \/ stage = "ship" /\ row.status \in {"SHIPPED", "COMPLETED"} /\ reservedNow
                       /\ OpenOrder(row)
     \/ stage = "release" /\ row.status = "CANCELLED" /\ reservedNow /\ OpenOrder(row)
     \/ stage = "return" /\ row.status = "CANCELLED" /\ row.shipped}

UpsertedStatus(row, reported) == reported

\* Faulty UpsertedVariants: a reserved line takes the current mapping.
UpsertedVariantsThawed(o, row, resolution) ==
  [l \in Listings |-> IF l \in Lines(o) THEN resolution[l] ELSE Unmapped]

\* The lines' variants after the upsert: frozen once the order is reserved,
\* except that a line still without a variant takes a late resolution.
UpsertedVariants(o, row, resolution) ==
  [l \in Listings |->
     IF l \notin Lines(o) THEN Unmapped
     ELSE IF row.applied /\ row.variant[l] # Unmapped THEN row.variant[l]
     ELSE resolution[l]]

\* A pull that has nothing left to do is over.
Settled(w) == IF w.todo = {} /\ w.due = {} THEN NoPull ELSE w

\* Faulty NewSince: the cursor advances to the end of the pull.
NewSinceEnd(page) == {}

\* The orders that changed since the pull fetched its page.
NewSince(page) == {o \in world.orders : channel[o] # page[o]}

\* A pull that ends advances the cursor to the moment it started.
CursorStep(p) == changed' = IF pull'[p] = NoPull THEN NewSince(pull[p].fetched) ELSE changed

\* The first transaction: upsert the order, replace its items.  The new item
\* ids make every item id the staff loaded before it stale.
UpsertOrder(p) ==
  /\ pull[p].due = {}
  /\ \E o \in pull[p].todo :
       LET variant == UpsertedVariants(o, order[o], pull[p].resolution)
           late == IF order[o].applied
                   THEN {l \in Resolved(o, variant) : order[o].variant[l] = Unmapped}
                   ELSE {}
           status == UpsertedStatus(order[o], pull[p].fetched[o].status)
           row == [order[o] EXCEPT !.saved = TRUE, !.variant = variant, !.status = status]
       IN /\ order' = [order EXCEPT ![o] = row]
          /\ pull' = [pull EXCEPT ![p] = Settled(
               [pull[p] EXCEPT !.todo = @ \ {o}, !.current = o, !.items = variant,
                               !.late = late, !.due = DueStages(o, row, late)])]
          /\ task' = [s \in Staff |-> IF task[s].order = o
                                      THEN [task[s] EXCEPT !.fresh = FALSE] ELSE task[s]]
  /\ CursorStep(p)
  /\ UNCHANGED <<channel, mapping, stock, rows, returns, crashes, world>>

StageDone(p, stage) ==
  /\ pull' = [pull EXCEPT ![p] = Settled([pull[p] EXCEPT !.due = @ \ {stage}])]
  /\ CursorStep(p)

\* RESERVE: commit the stock of every resolved line, stamp the order.
Reserve(p) ==
  /\ "reserve" \in pull[p].due
  /\ LET o == pull[p].current
         lines == Resolved(o, pull[p].items) IN
       /\ RoomFor("RESERVE", o, lines)
       /\ stock' = MovedLines(stock, "RESERVE", o, lines, pull[p].items)
       /\ rows' = Recorded(rows, "RESERVE", o, lines)
       /\ order' = [order EXCEPT ![o].applied = TRUE]
  /\ StageDone(p, "reserve")
  /\ UNCHANGED <<channel, mapping, returns, task, crashes, world>>

\* RESERVE-DELTA: the lines that were resolved after the order was reserved.
ReserveDelta(p) ==
  /\ "delta" \in pull[p].due
  /\ LET o == pull[p].current IN
       /\ RoomFor("RESERVE", o, pull[p].late)
       /\ stock' = MovedLines(stock, "RESERVE", o, pull[p].late, pull[p].items)
       /\ rows' = Recorded(rows, "RESERVE", o, pull[p].late)
  /\ StageDone(p, "delta")
  /\ UNCHANGED <<channel, mapping, order, returns, task, crashes, world>>

Reserving(p) == pull[p].due \cap {"reserve", "delta"} # {}

\* SHIP: consume the reservation; a line cancelled inside the order goes back
\* to available instead.
Ship(p) ==
  /\ "ship" \in pull[p].due /\ ~Reserving(p)
  /\ LET o == pull[p].current
         lines == Resolved(o, pull[p].items)
         back == lines \cap pull[p].fetched[o].cancelled
         gone == lines \ back IN
       /\ RoomFor("SHIP", o, gone) /\ RoomFor("RELEASE", o, back)
       /\ stock' = MovedLines(MovedLines(stock, "SHIP", o, gone, pull[p].items),
                              "RELEASE", o, back, pull[p].items)
       /\ rows' = Recorded(Recorded(rows, "SHIP", o, gone), "RELEASE", o, back)
       /\ order' = [order EXCEPT ![o].shipped = TRUE]
  /\ StageDone(p, "ship")
  /\ UNCHANGED <<channel, mapping, returns, task, crashes, world>>

\* RELEASE: cancelled before shipping, give the reserved units back.
Release(p) ==
  /\ "release" \in pull[p].due /\ ~Reserving(p)
  /\ LET o == pull[p].current
         lines == Resolved(o, pull[p].items) IN
       /\ RoomFor("RELEASE", o, lines)
       /\ stock' = MovedLines(stock, "RELEASE", o, lines, pull[p].items)
       /\ rows' = Recorded(rows, "RELEASE", o, lines)
       /\ order' = [order EXCEPT ![o].reverted = TRUE]
  /\ StageDone(p, "release")
  /\ UNCHANGED <<channel, mapping, returns, task, crashes, world>>

\* createReturn: one per order, its items seeded from the resolved lines.
Returnable(o) == order[o].shipped /\ Resolved(o, order[o].variant) # {}
WithReturn(o) ==
  IF returns[o] # NoReturn \/ ~Returnable(o) THEN returns
  ELSE [returns EXCEPT ![o] = [status |-> "PENDING", variant |-> order[o].variant]]

\* RETURN: cancelled after shipping.  Best effort: a failure to open the
\* return is logged and the pull goes on.
OpenReturn(p) ==
  /\ "return" \in pull[p].due
  /\ returns' \in {returns, WithReturn(pull[p].current)}
  /\ StageDone(p, "return")
  /\ UNCHANGED <<channel, mapping, order, stock, rows, task, crashes, world>>

-----------------------------------------------------------------------------
(* The staff.  Each operation loads the order first and checks it there.   *)

ShipGuard(row) == row.saved /\ ~row.shipped /\ row.status = "PAID" /\ row.applied

CancelGuard(row) ==
  row.saved /\ ~row.shipped /\ row.status \notin {"CANCELLED", "COMPLETED"}

BeginTask(s, t) ==
  /\ task[s] = NoTask
  /\ Sequential => Idle
  /\ task' = [task EXCEPT ![s] = t]
  /\ UNCHANGED <<channel, changed, mapping, order, stock, rows, returns, pull, crashes, world>>

LoadForShip(s, o) ==
  /\ ShipGuard(order[o])
  /\ BeginTask(s, [NoTask EXCEPT !.op = "ship", !.order = o, !.read = order[o]])

LoadForCancel(s, o) ==
  /\ CancelGuard(order[o])
  /\ BeginTask(s, [NoTask EXCEPT !.op = "cancel", !.order = o, !.read = order[o]])

LoadForResolve(s, o, l, v) ==
  /\ order[o].saved
  /\ BeginTask(s, [NoTask EXCEPT !.op = "resolve", !.order = o, !.read = order[o],
                                 !.fresh = TRUE, !.line = l, !.to = v])

\* markOrderShipped, its transaction.
MarkShipped(s) ==
  /\ task[s].op = "ship"
  /\ LET o == task[s].order
         variant == task[s].read.variant
         lines == Resolved(o, variant) IN
       /\ RoomFor("SHIP", o, lines)
       /\ stock' = MovedLines(stock, "SHIP", o, lines, variant)
       /\ rows' = Recorded(rows, "SHIP", o, lines)
       /\ order' = [order EXCEPT ![o].status = "SHIPPED", ![o].shipped = TRUE]
  /\ task' = [task EXCEPT ![s] = NoTask]
  /\ UNCHANGED <<channel, changed, mapping, returns, pull, crashes, world>>

\* cancelOrder, its transaction.
Cancel(s) ==
  /\ task[s].op = "cancel"
  /\ LET o == task[s].order
         read == task[s].read
         shouldRelease == read.applied /\ ~read.reverted
         lines == IF shouldRelease THEN Resolved(o, read.variant) ELSE {} IN
       /\ RoomFor("RELEASE", o, lines)
       /\ stock' = MovedLines(stock, "RELEASE", o, lines, read.variant)
       /\ rows' = Recorded(rows, "RELEASE", o, lines)
       /\ order' = [order EXCEPT ![o].status = "CANCELLED",
                                 ![o].reverted = @ \/ shouldRelease]
  /\ task' = [task EXCEPT ![s] = NoTask]
  /\ UNCHANGED <<channel, changed, mapping, returns, pull, crashes, world>>

\* Faulty NewlyResolved: the line's present variant is not looked at.
NewlyResolvedAnyway(t) == {t.line} \cap Lines(t.order)

\* The lines resolveOrderItem fills: the chosen one, if it had no variant when
\* the order was loaded.
NewlyResolved(t) == {t.line} \cap (Lines(t.order) \ Resolved(t.order, t.read.variant))

\* resolveOrderItem, step 1: mapByExternalRef.
ResolveMap(s) ==
  /\ task[s].op = "resolve" /\ task[s].step = 1
  /\ mapping' = [mapping EXCEPT ![task[s].line] = task[s].to]
  /\ task' = [task EXCEPT ![s].step = 2]
  /\ UNCHANGED <<channel, changed, order, stock, rows, returns, pull, crashes, world>>

\* Step 2: updateMany on the item ids loaded; it finds none that a pull has
\* replaced.
ResolveFill(s) ==
  /\ task[s].op = "resolve" /\ task[s].step = 2
  /\ LET t == task[s] IN
       /\ order' = IF t.fresh
                   THEN [order EXCEPT ![t.order].variant =
                           [l \in Listings |-> IF l \in NewlyResolved(t) THEN t.to ELSE @[l]]]
                   ELSE order
       /\ task' = [task EXCEPT ![s] =
                     IF t.read.status = "PAID" /\ NewlyResolved(t) # {}
                     THEN [t EXCEPT !.step = 3] ELSE NoTask]
  /\ UNCHANGED <<channel, changed, mapping, stock, rows, returns, pull, crashes, world>>

\* Step 3, for an order that was PAID when loaded: reserve what was resolved.
ResolveReserve(s) ==
  /\ task[s].op = "resolve" /\ task[s].step = 3
  /\ LET t == task[s]
         lines == NewlyResolved(t) IN
       /\ RoomFor("RESERVE", t.order, lines)
       /\ stock' = MovedLines(stock, "RESERVE", t.order, lines,
                              [l \in Listings |-> t.to])
       /\ rows' = Recorded(rows, "RESERVE", t.order, lines)
       /\ order' = [order EXCEPT ![t.order].applied = @ \/ ~t.read.applied]
  /\ task' = [task EXCEPT ![s] = NoTask]
  /\ UNCHANGED <<channel, changed, mapping, returns, pull, crashes, world>>

-----------------------------------------------------------------------------
\* The process dies between two transactions: what it held is gone.
CrashPull(p) ==
  /\ ~PullIdle(p) /\ crashes < world.crashes
  /\ crashes' = crashes + 1
  /\ pull' = [pull EXCEPT ![p] = NoPull]
  /\ UNCHANGED <<channel, changed, mapping, order, stock, rows, returns, task, world>>

CrashTask(s) ==
  /\ task[s] # NoTask /\ crashes < world.crashes
  /\ crashes' = crashes + 1
  /\ task' = [task EXCEPT ![s] = NoTask]
  /\ UNCHANGED <<channel, changed, mapping, order, stock, rows, returns, pull, world>>

StageStep(p) ==
  Reserve(p) \/ ReserveDelta(p) \/ Ship(p) \/ Release(p) \/ OpenReturn(p)
PullStep(p) == StartPull(p) \/ UpsertOrder(p) \/ StageStep(p)
TaskStep(s) ==
  MarkShipped(s) \/ Cancel(s) \/ ResolveMap(s) \/ ResolveFill(s) \/ ResolveReserve(s)

LoadStep(s) ==
  \E o \in OrderIds :
    \/ "ship" \in world.ops /\ LoadForShip(s, o)
    \/ "cancel" \in world.ops /\ LoadForCancel(s, o)
    \/ /\ "resolve" \in world.ops
       /\ \E l \in Lines(o), v \in Variants : LoadForResolve(s, o, l, v)

Next ==
  \/ \E o \in OrderIds : ChannelAdvance(o) \/ ChannelCancelLine(o)
  \/ \E l \in Listings : MapListing(l)
  \/ \E p \in Pullers :
       \/ StartPull(p) \/ UpsertOrder(p) \/ Reserve(p) \/ ReserveDelta(p)
       \/ Ship(p) \/ Release(p) \/ OpenReturn(p) \/ CrashPull(p)
  \/ \E s \in Staff :
       \/ LoadStep(s) \/ MarkShipped(s) \/ Cancel(s) \/ ResolveMap(s)
       \/ ResolveFill(s) \/ ResolveReserve(s) \/ CrashTask(s)

Spec == Init /\ [][Next]_vars

\* A pull that has something new to list, or is running.
PullOn(p) == (changed # {} \/ ~PullIdle(p)) /\ PullStep(p)

\* The scheduler keeps pulling what changed, and a running pull or staff
\* request goes on unless it crashes.
FairSpec ==
  /\ Spec
  /\ \A p \in Pullers : WF_vars(PullOn(p))
  /\ \A s \in Staff : WF_vars(TaskStep(s))

-----------------------------------------------------------------------------
\* An order that has its stock reserved and has neither shipped nor been
\* released.
Held(o) == order[o].applied /\ ~order[o].shipped /\ ~order[o].reverted

\* The units of variant v that order o holds.
HeldUnits(o, v) == IF Held(o) THEN UnitsOf(o, Lines(o), order[o].variant, v) ELSE 0

\* Whenever no operation is under way, the reserved bucket of every variant
\* is exactly what the held orders' lines need: no reservation is leaked by a
\* line that was resolved late, remapped or cancelled, and none is missing.
ReservedMatchesOrders ==
  Idle => \A v \in Variants :
    stock[v].reserved = SumFunction([o \in OrderIds |-> HeldUnits(o, v)])

\* The lifecycle advances at most once per stage: a line is reserved at most
\* once and leaves its reservation, shipped or released, at most once.
EachStageOnce ==
  \A o \in OrderIds, l \in Listings :
    /\ rows[o][l].RESERVE <= 1
    /\ rows[o][l].SHIP + rows[o][l].RELEASE <= rows[o][l].RESERVE

\* An order ends up shipped or released, never both.
ShippedOrReleased == \A o \in OrderIds : ~(order[o].shipped /\ order[o].reverted)

\* Orders only move units between available and reserved and out of the
\* warehouse, and their returns bring back what had gone out: there are never
\* more on hand than there were.
NoPhantomStock ==
  \A v \in Variants :
    stock[v].available + stock[v].reserved + stock[v].damaged <= InitialStock

\* What ships is an order that holds its reservation when it does.
OnlyHeldOrdersShip ==
  [][\A o \in OrderIds : order'[o].shipped /\ ~order[o].shipped => Held(o)]_vars

\* What leaves its reservation holds one, whatever was read, crashed or remapped
\* before: a pull or a cancellation never ships or releases an order twice.
\* markOrderShipped is left out: it looks at the status alone.
OnlyHeldOrdersLeave ==
  [][\A o \in OrderIds :
       \/ order'[o].shipped /\ ~order[o].shipped
       \/ order'[o].reverted /\ ~order[o].reverted
       => Held(o) \/ \E s \in Staff : task[s].order = o /\ MarkShipped(s)]_vars

\* While a line holds a reservation its variant is frozen: the units that
\* ship or come back are those of the variant that was reserved, whatever the
\* catalogue maps the listing to in the meantime.
ReservedVariantFrozen ==
  [][\A o \in OrderIds, l \in Listings :
       rows[o][l].RESERVE > rows[o][l].SHIP + rows[o][l].RELEASE =>
         order'[o].variant[l] = order[o].variant[l]]_vars

\* A pull that runs to its end leaves no resolved line of a held order
\* without its reservation.
EveryHeldLineReserved ==
  \A o \in OrderIds : Held(o) =>
    \A l \in Resolved(o, order[o].variant) : rows[o][l].RESERVE > 0
PullReservesLateLines ==
  [][\A p \in Pullers :
       crashes' = crashes /\ ~PullIdle(p) /\ pull'[p] = NoPull =>
         EveryHeldLineReserved']_vars

\* What the marketplace reports reaches the stock: a paid order is reserved,
\* a shipped one consumes its reservation and a cancelled one stops holding
\* any, even if pulls crash between their transactions.
StockFollowsChannel ==
  \A o \in OrderIds :
    /\ channel[o].status = "PAID" ~> order[o].applied \/ channel[o].status = "CANCELLED"
    /\ channel[o].status = "SHIPPED" ~> order[o].shipped \/ channel[o].status = "CANCELLED"
    /\ channel[o].status = "CANCELLED" ~> ~Held(o)

\* A change the channel reports is not lost, neither when it comes in the
\* middle of a pull nor when the pull that fetched it crashes: each order ends
\* on the status the channel ends on, or on SHIPPED where the staff shipped an
\* order the channel leaves PAID.
StatusConverges ==
  <>[](\A o \in world.orders :
         /\ order[o].saved
         /\ \/ order[o].status = channel[o].status
            \/ order[o].status = "SHIPPED" /\ channel[o].status = "PAID")
=============================================================================
